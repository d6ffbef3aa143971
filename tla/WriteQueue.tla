----------------------------- MODULE WriteQueue -----------------------------
(***************************************************************************)
(* How the Firestore SDK in Pods/ gets the app's updateData and setData to *)
(* the backend: FSTSyncEngine, FSTLocalStore with its LevelDB mutation     *)
(* queue, FSTRemoteStore and the write stream, on one device.  Every       *)
(* handler runs on the SDK's worker queue and is one action.               *)
(*                                                                         *)
(* The writes of a user wait in a queue on disk.  At most MaxPendingWrites *)
(* of them are in the pipeline to the backend; an answer carries no batch  *)
(* id and is taken for the first one in the pipeline.  When a stream ends, *)
(* everything unanswered is sent again.  An acknowledged batch stays in    *)
(* the queue until the watch stream has caught up with it.                 *)
(*                                                                         *)
(* All writes go to one document and each of them replaces its content, so *)
(* a write is its number and the document's content the number of the last *)
(* write applied; its version is the length of the backend's log.  Writes  *)
(* of other devices are left to Ballot.                                    *)
(*                                                                         *)
(* The backend is external: it takes the requests of a stream in order and *)
(* begins with a new stream of the device when it is through with the old. *)
(***************************************************************************)
EXTENDS Integers, Sequences, SequencesExt, FiniteSets, FiniteSetsExt

CONSTANTS
    Users,              \* users signed in on this device, one at a time
    MaxPendingWrites,   \* kMaxPendingWrites
    MaxWrites,          \* bound: writes in a behaviour
    MaxFaults           \* bound: broken streams, changes of user, restarts

ASSUME PipelineAssumption == MaxPendingWrites \in Nat \ {0}
ASSUME BoundsAssumption   == MaxWrites \in Nat /\ MaxFaults \in Nat

VARIABLES
    queue,          \* per user, on disk: the mutation batches, by batch id
    lastAcked,      \* per user, on disk: lastAcknowledgedBatchId
    cache,          \* on disk: the remote document cache's copy
    remoteVersion,  \* on disk: lastRemoteSnapshotVersion
    user,           \* the user whose queue is in use
    nextBatchID,
    blocks,         \* per user: mutationCompletionBlocks, by batch id
    held,           \* heldBatchResults
    remote,         \* the remote store and its write stream
    listening,      \* whether any watch target is active
    floor,          \* the version from which the watch stream reports
    log,            \* backend: writes applied, in order
    halfClosed,     \* backend: requests of a stream the client has left
    faults,         \* number of faults so far
    \* The rest is history: no action's guard reads it.
    author,         \* who issued each write
    refused,        \* writes given up for a permanent error
    mine,           \* writes issued since the user signed in or the app began
    applied         \* per user: unacknowledged writes the backend went through

local   == <<queue, lastAcked, cache, remoteVersion, user, nextBatchID, blocks, held>>
watch   == <<listening, floor>>
backend == <<log, halfClosed>>
history == <<author, refused, mine, applied>>
vars    == <<queue, lastAcked, cache, remoteVersion, user, nextBatchID, blocks, held,
             remote, listening, floor, log, halfClosed, faults,
             author, refused, mine, applied>>

-----------------------------------------------------------------------------
(* Batches, results, the write stream *)

Unknown   == -1     \* kFSTBatchIDUnknown
Handshake == 0      \* the first request of a stream; writes are 1, 2, ...

Batch    == [id : Nat, write : Nat]
Result   == [batch : Batch, version : Nat]
Document == [write : Nat, version : Nat]

Closing  == {"transient", "permanent"}
Response == [type : {"handshake", "ack"} \cup Closing, version : Nat]

StreamState == {"Initial", "Auth", "Open", "Error", "Backoff"}

Remote == [pending : Seq(Batch), lastBatchSeen : Int, state : StreamState,
           handshakeComplete : BOOLEAN, idle : BOOLEAN,
           requests : Seq(Nat), responses : Seq(Response)]

FreshRemote == [pending |-> <<>>, lastBatchSeen |-> Unknown, state |-> "Initial",
                handshakeComplete |-> FALSE, idle |-> FALSE,
                requests |-> <<>>, responses |-> <<>>]

\* Mutant: the newest first.
WritesReversed(batches) == [k \in DOMAIN batches |-> batches[Len(batches) + 1 - k].write]

WritesOf(batches) == [k \in DOMAIN batches |-> batches[k].write]

\* The elements of a sequence at some of its positions, in their order.
Kept(seq, kept) ==
    LET nth(n) == CHOOSE k \in kept : Cardinality({j \in kept : j <= k}) = n
    IN  [n \in 1 .. Cardinality(kept) |-> seq[nth(n)]]

\* nextMutationBatchAfterBatchID, repeated: the first batch with a higher id
\* and all that follow it.
After(batches, id) ==
    LET later == {k \in DOMAIN batches : batches[k].id > id}
    IN  IF later = {} THEN <<>> ELSE SubSeq(batches, Min(later), Len(batches))

\* removeMutationBatches
Without(batches, ids) == Kept(batches, {k \in DOMAIN batches : batches[k].id \notin ids})

Unacked(u) == After(queue[u], lastAcked[u])

IsStarted(r) == r.state \in {"Backoff", "Auth", "Open"}

\* startWithDelegate: after an error the stream backs off first.
Start(r) == [r EXCEPT !.handshakeComplete = FALSE,
                      !.state = IF @ = "Error" THEN "Backoff" ELSE "Auth"]

MarkIdle(r) == [r EXCEPT !.idle = @ \/ r.state = "Open"]

\* Mutant: the pipeline filled from the last acknowledgement, as if nothing
\* were on its way.
FillFromAcked(r, batches, acked) ==
    LET new == After(batches, acked)
    IN  IF new = <<>> THEN r
        ELSE Start([r EXCEPT !.pending = @ \o new, !.lastBatchSeen = Last(new).id])

\* fillWritePipeline: batches not seen yet join the pipeline while there is
\* room.  The first of them starts a stream that is down; on a stream that is
\* up and past its handshake each is sent at once.
FillWritePipeline(r, batches, acked) ==
    LET unseen == After(batches, Max({r.lastBatchSeen, acked}))
        room   == MaxPendingWrites - Len(r.pending)
        new    == SubSeq(unseen, 1, Min({room, Len(unseen)}))
        filled == [r EXCEPT !.pending = @ \o new, !.lastBatchSeen = Last(new).id]
    IN  CASE new = <<>> /\ r.pending = <<>> -> MarkIdle(r)
          [] new = <<>> /\ r.pending # <<>> -> r
          [] new # <<>> /\ ~IsStarted(r)    -> Start(filled)
          [] new # <<>> /\ IsStarted(r)     ->
               IF r.handshakeComplete
               THEN [filled EXCEPT !.requests = @ \o WritesOf(new), !.idle = FALSE]
               ELSE filled

\* Mutant: the callbacks of the old stream not suppressed.
CloseNotSuppressed(r, finalState) ==
    [r EXCEPT !.state = finalState, !.idle = FALSE, !.requests = <<>>]

\* closeWithFinalState: what was on its way in either direction is gone.
Close(r, finalState) == [r EXCEPT !.state = finalState, !.idle = FALSE,
                                  !.requests = <<>>, !.responses = <<>>]

\* The end of writeStreamWasInterruptedWithError.
RestartIfNeeded(r) == IF r.pending # <<>> /\ ~IsStarted(r) THEN Start(r) ELSE r

Ended(r) == r.responses # <<>> /\ Last(r.responses).type \in Closing

-----------------------------------------------------------------------------
(* The local store *)

\* applyBatchResult for results in the order of their versions: the last one
\* decides.  The version stays that of the document the write was laid over.
ApplyResults(doc, results) ==
    IF results # <<>> /\ doc.version < Last(results).version
    THEN [doc EXCEPT !.write = Last(results).batch.write]
    ELSE doc

\* What the device shows of the document: its newest queued write.
View == IF queue[user] = <<>> THEN cache.write ELSE Last(queue[user]).write

\* isRemoteUpToVersion
UpTo(version, seen, targets) == version <= seen \/ ~targets

\* releaseHeldBatchResults: the results up to the first one to be held on.
Releasable(seen, targets) ==
    LET early == {k \in DOMAIN held : ~UpTo(held[k].version, seen, targets)}
    IN  IF early = {} THEN held ELSE SubSeq(held, 1, Min(early) - 1)

\* Mutant: the whole queue taken off.
ReleaseAll(results) == queue' = [queue EXCEPT ![user] = <<>>]

Release(results) ==
    queue' = [queue EXCEPT ![user] =
                Without(@, {results[k].batch.id : k \in DOMAIN results})]

\* Mutant: the block stays.
KeepBlock(id) == UNCHANGED blocks

\* processUserCallbacksForBatchID: the block is called and forgotten.
ProcessUserCallbacks(id) == blocks' = [blocks EXCEPT ![user] = {b \in @ : b.id # id}]

-----------------------------------------------------------------------------
Init ==
    /\ queue = [u \in Users |-> <<>>]
    /\ lastAcked = [u \in Users |-> Unknown]
    /\ cache = [write |-> 0, version |-> 0]
    /\ remoteVersion = 0
    /\ user \in Users
    /\ nextBatchID = 0
    /\ blocks = [u \in Users |-> {}]
    /\ held = <<>>
    /\ remote = FreshRemote
    /\ listening = FALSE
    /\ floor = 0
    /\ log = <<>>
    /\ halfClosed = <<>>
    /\ faults = 0
    /\ author = <<>>
    /\ refused = {}
    /\ mine = {}
    /\ applied = [u \in Users |-> 0]

\* writeMutations: the batch is on disk and visible before anything is sent.
WriteMutations ==
    LET write == Len(author) + 1
        batch == [id |-> nextBatchID, write |-> write]
    IN  /\ write <= MaxWrites
        /\ queue' = [queue EXCEPT ![user] = Append(@, batch)]
        /\ nextBatchID' = nextBatchID + 1
        /\ blocks' = [blocks EXCEPT ![user] = @ \cup {batch}]
        /\ remote' = FillWritePipeline(remote, queue'[user], lastAcked[user])
        /\ author' = Append(author, user)
        /\ mine' = mine \cup {write}
        /\ UNCHANGED <<lastAcked, cache, remoteVersion, user, held, watch, backend,
                       faults, refused, applied>>

\* resumeStartWithToken and writeStreamDidOpen.
TokenArrived ==
    /\ remote.state = "Auth"
    /\ remote' = [remote EXCEPT !.state = "Open", !.requests = <<Handshake>>]
    /\ UNCHANGED <<local, watch, backend, faults, history>>

BackoffElapsed ==
    /\ remote.state = "Backoff"
    /\ remote' = Start([remote EXCEPT !.state = "Initial"])
    /\ UNCHANGED <<local, watch, backend, faults, history>>

\* A stream nothing waits for is closed; the next write opens another one.
IdleTimer ==
    /\ remote.idle
    /\ remote.state = "Open"
    /\ remote' = RestartIfNeeded(Close(remote, "Initial"))
    /\ UNCHANGED <<local, watch, backend, faults, history>>

-----------------------------------------------------------------------------
(* The backend's side of the stream *)

Listens(r) == r.state = "Open" /\ r.requests # <<>> /\ ~Ended(r)

AnswerHandshake ==
    /\ Listens(remote)
    /\ Head(remote.requests) = Handshake
    /\ halfClosed = <<>>
    /\ remote' = [remote EXCEPT !.requests = Tail(@),
                    !.responses = Append(@, [type |-> "handshake", version |-> 0])]
    /\ applied' = [applied EXCEPT ![user] = 0]
    /\ UNCHANGED <<local, watch, backend, faults, author, refused, mine>>

ApplyWrite ==
    /\ Listens(remote)
    /\ Head(remote.requests) # Handshake
    /\ log' = Append(log, Head(remote.requests))
    /\ remote' = [remote EXCEPT !.requests = Tail(@),
                    !.responses = Append(@, [type |-> "ack", version |-> Len(log')])]
    /\ applied' = [applied EXCEPT ![user] = @ + 1]
    /\ UNCHANGED <<local, watch, halfClosed, faults, author, refused, mine>>

\* The backend ends the stream: it refuses the next write, or rejects the
\* client, or goes away.
EndStream(type) ==
    /\ faults < MaxFaults
    /\ remote.state = "Open"
    /\ ~Ended(remote)
    /\ faults' = faults + 1
    /\ remote' = [remote EXCEPT
                    !.responses = Append(@, [type |-> type, version |-> 0])]
    /\ UNCHANGED <<local, watch, backend, history>>

\* A client that stops a stream half-closes it: what was sent still counts.
ApplyHalfClosed ==
    LET write == Head(halfClosed)
    IN  /\ halfClosed # <<>>
        /\ log' = Append(log, write)
        /\ halfClosed' = Tail(halfClosed)
        /\ applied' = [applied EXCEPT ![author[write]] = @ + 1]
        /\ UNCHANGED <<local, remote, watch, faults, author, refused, mine>>

-----------------------------------------------------------------------------
(* The client's side of the stream *)

Received(type) == /\ remote.state = "Open"
                  /\ remote.responses # <<>>
                  /\ Head(remote.responses).type = type

\* writeStreamDidCompleteHandshake: the whole pipeline is sent.
HandshakeDone ==
    /\ Received("handshake")
    /\ remote' = [remote EXCEPT !.handshakeComplete = TRUE, !.idle = FALSE,
                    !.responses = Tail(@),
                    !.requests = @ \o WritesOf(remote.pending)]
    /\ UNCHANGED <<local, watch, backend, faults, history>>

\* Mutant: every result released at once.
NeverHold(version) == FALSE

\* shouldHoldBatchResultWithVersion
ShouldHold(version) == ~UpTo(version, remoteVersion, listening) \/ held # <<>>

\* writeStreamDidReceiveResponse and acknowledgeBatchWithResult: the answer is
\* taken for the first write of the pipeline.
WriteAcknowledged ==
    LET batch  == Head(remote.pending)
        result == [batch |-> batch, version |-> Head(remote.responses).version]
    IN  /\ Received("ack")
        /\ lastAcked' = [lastAcked EXCEPT ![user] = batch.id]
        /\ ProcessUserCallbacks(batch.id)
        /\ \/ /\ ShouldHold(result.version)
              /\ held' = Append(held, result)
              /\ UNCHANGED <<queue, cache>>
           \/ /\ ~ShouldHold(result.version)
              /\ cache' = ApplyResults(cache, <<result>>)
              /\ Release(<<result>>)
              /\ UNCHANGED held
        /\ remote' = FillWritePipeline(
                       [remote EXCEPT !.pending = Tail(@), !.responses = Tail(@)],
                       queue'[user], batch.id)
        /\ applied' = [applied EXCEPT ![user] = @ - 1]
        /\ UNCHANGED <<remoteVersion, user, nextBatchID, watch, backend, faults,
                       author, refused, mine>>

\* Mutant: the pipeline emptied while lastBatchSeen stays.
InterruptedEmptied == RestartIfNeeded([Close(remote, "Error") EXCEPT !.pending = <<>>])

\* An interruption that says nothing of a write: the stream backs off and
\* starts again, the pipeline stays.
Interrupted == RestartIfNeeded(Close(remote, "Error"))

\* A permanent error before the handshake only discards the stream token.
StreamFailed ==
    /\ \/ Received("transient")
       \/ Received("permanent") /\ (~remote.handshakeComplete \/ remote.pending = <<>>)
    /\ remote' = Interrupted
    /\ UNCHANGED <<local, watch, backend, faults, history>>

\* handleWriteError and rejectBatchID: the first write of the pipeline is to
\* blame, whatever the reason was.
WriteRefused ==
    LET batch == Head(remote.pending)
        rest  == [Close(remote, "Initial") EXCEPT !.pending = Tail(@)]
    IN  /\ Received("permanent")
        /\ remote.handshakeComplete
        /\ remote.pending # <<>>
        /\ queue' = [queue EXCEPT ![user] = Without(@, {batch.id})]
        /\ ProcessUserCallbacks(batch.id)
        /\ remote' = RestartIfNeeded(FillWritePipeline(rest, queue'[user], lastAcked[user]))
        /\ refused' = refused \cup {batch.write}
        /\ mine' = mine \ {batch.write}
        /\ UNCHANGED <<lastAcked, cache, remoteVersion, user, nextBatchID, held,
                       watch, backend, faults, author, applied>>

\* No token, or a connection that breaks: answers under way are lost.
ConnectionLost ==
    /\ faults < MaxFaults
    /\ remote.state \in {"Auth", "Open"}
    /\ faults' = faults + 1
    /\ remote' = Interrupted
    /\ UNCHANGED <<local, watch, backend, history>>

-----------------------------------------------------------------------------
(* Users and restarts *)

\* Mutant: the highest id in use.
LoadLastBatchID ==
    Max({Unknown} \cup UNION {{queue[u][k].id : k \in DOMAIN queue[u]} : u \in Users})

\* loadNextBatchIDFromDB: one more than any batch id of any user.
LoadNextBatchID ==
    1 + Max({Unknown} \cup UNION {{queue[u][k].id : k \in DOMAIN queue[u]} : u \in Users})

\* start: an acknowledgement the ids have fallen behind is forgotten.
StartedAcked(u) == IF lastAcked[u] >= LoadNextBatchID THEN Unknown ELSE lastAcked[u]

Sent(r) ==
    IF Ended(r) THEN <<>>
    ELSE Kept(r.requests, {k \in DOMAIN r.requests : r.requests[k] # Handshake})

\* startMutationQueue: held results are dropped with their batches, without
\* ever reaching the cache.
StartMutationQueue(u) ==
    /\ user' = u
    /\ nextBatchID' = LoadNextBatchID
    /\ lastAcked' = [lastAcked EXCEPT ![u] = StartedAcked(u)]
    /\ queue' = [queue EXCEPT ![u] = After(@, StartedAcked(u))]
    /\ held' = <<>>
    /\ remote' = FillWritePipeline(FreshRemote, queue'[u], StartedAcked(u))
    /\ mine' = {}

UserDidChange(u) ==
    /\ faults < MaxFaults
    /\ u # user
    /\ faults' = faults + 1
    /\ StartMutationQueue(u)
    /\ halfClosed' = halfClosed \o Sent(remote)
    /\ UNCHANGED <<cache, remoteVersion, blocks, watch, log, author, refused, applied>>

\* The process ends and is launched again; the backend may still get some of
\* what was on its way.
Restart ==
    /\ faults < MaxFaults
    /\ faults' = faults + 1
    /\ StartMutationQueue(user)
    /\ \E n \in 0 .. Len(Sent(remote)) :
         halfClosed' = halfClosed \o SubSeq(Sent(remote), 1, n)
    /\ blocks' = [u \in Users |-> {}]
    /\ listening' = FALSE
    /\ UNCHANGED <<cache, remoteVersion, floor, log, author, refused, applied>>

-----------------------------------------------------------------------------
(* The watch stream, as far as writes depend on it *)

Listen ==
    /\ ~listening
    /\ listening' = TRUE
    /\ floor' = Len(log)
    /\ UNCHANGED <<local, remote, backend, faults, history>>

\* releaseQuery: without a target nothing is left to wait for.
Unlisten ==
    /\ listening
    /\ listening' = FALSE
    /\ cache' = ApplyResults(cache, held)
    /\ Release(held)
    /\ held' = <<>>
    /\ UNCHANGED <<lastAcked, remoteVersion, user, nextBatchID, blocks, remote,
                   floor, backend, faults, history>>

\* applyRemoteEvent with a snapshot of the document at some version.
ApplyRemoteEvent(version) ==
    LET released == Releasable(version, TRUE)
    IN  /\ listening
        /\ version > remoteVersion
        /\ version >= floor
        /\ remoteVersion' = version
        /\ cache' = ApplyResults([write |-> log[version], version |-> version], released)
        /\ Release(released)
        /\ held' = SubSeq(held, Len(released) + 1, Len(held))
        /\ UNCHANGED <<lastAcked, user, nextBatchID, blocks, remote, watch,
                       backend, faults, history>>

-----------------------------------------------------------------------------
Next ==
    \/ WriteMutations
    \/ TokenArrived
    \/ BackoffElapsed
    \/ IdleTimer
    \/ AnswerHandshake
    \/ ApplyWrite
    \/ \E type \in Closing : EndStream(type)
    \/ ApplyHalfClosed
    \/ HandshakeDone
    \/ WriteAcknowledged
    \/ StreamFailed
    \/ WriteRefused
    \/ ConnectionLost
    \/ \E u \in Users : UserDidChange(u)
    \/ Restart
    \/ Listen
    \/ Unlisten
    \/ \E version \in DOMAIN log : ApplyRemoteEvent(version)

Spec == Init /\ [][Next]_vars

\* The credentials provider answers, timers run out, the backend works off a
\* stream, and the worker queue handles what has arrived.
Fairness ==
    /\ WF_vars(TokenArrived)
    /\ WF_vars(BackoffElapsed)
    /\ WF_vars(AnswerHandshake \/ ApplyWrite \/ ApplyHalfClosed)
    /\ WF_vars(HandshakeDone \/ WriteAcknowledged \/ StreamFailed \/ WriteRefused)

FairSpec == Spec /\ Fairness
-----------------------------------------------------------------------------
(* Properties *)

\* Type invariant.
TypeOK ==
    /\ queue \in [Users -> Seq(Batch)]
    /\ lastAcked \in [Users -> Int]
    /\ cache \in Document
    /\ remoteVersion \in Nat
    /\ user \in Users
    /\ nextBatchID \in Nat
    /\ blocks \in [Users -> SUBSET Batch]
    /\ held \in Seq(Result)
    /\ remote \in Remote
    /\ listening \in BOOLEAN
    /\ floor \in Nat
    /\ log \in Seq(Nat)
    /\ halfClosed \in Seq(Nat)
    /\ faults \in Nat
    /\ author \in Seq(Users)
    /\ refused \subseteq Nat
    /\ mine \subseteq Nat
    /\ applied \in [Users -> Nat]

\* fillWritePipeline goes by lastBatchSeen alone, across acknowledgements,
\* refusals, broken streams, changes of user and restarts: the pipeline is
\* always the beginning of the user's unacknowledged writes, with none left
\* out and none twice, and never longer than kMaxPendingWrites.
PipelineIsPrefix ==
    /\ IsPrefix(remote.pending, Unacked(user))
    /\ Len(remote.pending) = Min({MaxPendingWrites, Len(Unacked(user))})

Acks == {k \in DOMAIN remote.responses : remote.responses[k].type = "ack"}

\* An answer names no batch.  Still the n-th answer on its way is the one to
\* the n-th write of the pipeline, and what was sent after it is the rest.
AnswersMatchPipeline ==
    /\ \A n \in Acks : /\ n <= Len(remote.pending)
                       /\ log[remote.responses[n].version] = remote.pending[n].write
    /\ remote.handshakeComplete /\ remote.state = "Open" =>
         remote.requests = WritesOf(SubSeq(remote.pending, Cardinality(Acks) + 1,
                                           Len(remote.pending)))

\* The HARD_ASSERTs of FSTLevelDBMutationQueue and FSTLocalStore, where the
\* next step of the stream, or the next user, would meet them: batches are
\* acknowledged in order, only queued batches are rejected, held batches are
\* in the queue, and an acknowledgement is reset only on an empty queue.  And
\* though batch ids start again at 0 when the queues are empty, a completion
\* block, which is found by its batch id, waits only for its own write.
BatchIdsAgree ==
    /\ remote.pending # <<>> => Head(remote.pending).id > lastAcked[user]
    /\ \A k \in DOMAIN remote.pending : remote.pending[k] \in Range(queue[user])
    /\ \A k \in DOMAIN held : held[k].batch \in Range(queue[user])
    /\ \A u \in Users : lastAcked[u] >= LoadNextBatchID => queue[u] = <<>>
    /\ \A u \in Users : blocks[u] \subseteq Range(Unacked(u))

\* A write leaves the disk only after the backend applied it or a permanent
\* error was charged to it; no crash, sign-out or broken stream loses one.
NothingLost ==
    [][\A u \in Users : \A b \in Range(queue[u]) \ Range(queue'[u]) :
         b.write \in Range(log) \cup refused']_vars

\* From the moment of a write until it is refused, the device shows its own
\* newest write: not the cache before the watch stream has it, and not the
\* state of an older snapshot afterwards.  (A write can be applied, sent again
\* and then refused: the document has it although the client gave it up.)
OwnWritesShown ==
    mine # {} => View = Max(mine) \/ View \in refused \cap Range(log)

Newest(u) == {n \in DOMAIN author \ refused : author[n] = u}

\* A stream that breaks makes the backend apply writes again, older ones over
\* newer ones.  Once nothing is unacknowledged, the newest write came last.
NewestWins ==
    \A u \in Users : Unacked(u) = <<>> /\ Newest(u) # {} =>
      \E v \in DOMAIN log :
        /\ log[v] = Max(Newest(u))
        /\ \A w \in DOMAIN log : w > v => log[w] \in refused \/ author[log[w]] # u

\* Every write is acknowledged or refused in the end, unless its user has
\* signed out.
WritesDecided == \A u \in Users : <>[](user = u => Unacked(u) = <<>>)

\* The SDK as an Outbox, with one client per user.
Promise == INSTANCE Outbox WITH
    Clients <- Users,
    Writes  <- Nat,
    outbox  <- [u \in Users |-> WritesOf(Unacked(u))],
    applied <- applied

\* The SDK implements Outbox: only an applied write is acknowledged, writes
\* reach the backend in order, and they start again from the oldest.
IsOutbox == Promise!Spec
=============================================================================
