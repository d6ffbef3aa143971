----------------------------- MODULE QueryRead ------------------------------
(***************************************************************************)
(* How the Firestore SDK in Pods/ answers the app's getDocuments: FIRQuery *)
(* turns the call into a snapshot listener that is removed by its first    *)
(* event; FSTEventManager shares one listen between all listeners of a     *)
(* query; FSTRemoteStore, the watch stream and the aggregator of its       *)
(* messages keep the view in step with the backend; FSTOnlineStateTracker  *)
(* decides when to give up and answer from the device's copy.              *)
(*                                                                         *)
(* Handlers run on the SDK's worker queue, one action each; the app's      *)
(* calls and callbacks run on the main queue.  The two post to each other. *)
(*                                                                         *)
(* One query, one document that always matches it.  The content of the     *)
(* document is its version, and a resume token is the version the backend  *)
(* had reached.  Left out: documents that leave the query (limbo and       *)
(* existence filters) and the device's own writes (WriteQueue).            *)
(***************************************************************************)
EXTENDS Integers, Sequences, SequencesExt, FiniteSets

CONSTANTS
    None,                   \* nil
    MaxWatchStreamFailures, \* kMaxWatchStreamFailures
    MaxCalls,               \* bound: getDocuments calls of the app
    MaxVersion,             \* bound: writes of others during a behaviour
    MaxFaults,              \* bound: broken streams, changes of user
    MaxRejects              \* bound: listens the backend refuses

ASSUME FailuresAssumption == MaxWatchStreamFailures \in Nat \ {0}
ASSUME BoundsAssumption   == /\ MaxCalls \in Nat /\ MaxVersion \in Nat
                             /\ MaxFaults \in Nat /\ MaxRejects \in Nat

VARIABLES
    sdk,        \* the client, as the worker queue sees it
    posted,     \* blocks the app posted to the worker queue
    muted,      \* calls whose asynchronous listener is muted
    version,    \* backend: the version of the document
    serving,    \* backend: what it has sent of the target on this stream
    faults,     \* broken streams and changes of user so far
    rejects,    \* refused listens so far
    \* The rest is history: no action's guard reads it.
    since,      \* the version at each getDocuments
    listenedAt, \* the version at the last listenToQuery
    answers,    \* what the completion block of each call was given
    crossed     \* a refusal met other requests of the target on their way

vars == <<sdk, posted, muted, version, serving, faults, rejects,
          since, listenedAt, answers, crossed>>
history == <<since, listenedAt, answers, crossed>>

-----------------------------------------------------------------------------
(* Snapshots, messages, the state of the client *)

Calls    == 1 .. MaxCalls       \* in the order in which the app makes them
Versions == 0 .. MaxVersion + 1
Snapshot == [version : Versions, fromCache : BOOLEAN]
Event    == [call : Calls, answer : Snapshot \cup {None}]    \* nil with an error
Block    == [op : {"add", "remove"}, call : Calls]           \* on the worker queue

OnlineState == {"Unknown", "Online", "Offline"}
StreamState == {"Initial", "Auth", "Open", "Error", "Backoff"}

Message == [type : {"added", "removed", "refused", "document", "current", "nochange",
                    "snapshot", "closed"}, version : Versions]

Request == [type : {"watch", "unwatch"}, version : Versions]

Msg(type, v) == [type |-> type, version |-> v]

\* The responses that the aggregator counts.
IsResponse(message) == message.type \in {"added", "removed", "refused"}

\* FSTTargetState, while the aggregator keeps one for the target.
TargetState == [outstanding : Int, current : BOOLEAN, changed : BOOLEAN, token : Versions]
Serving     == [sent : Versions, current : BOOLEAN]
FreshTarget == [outstanding |-> 0, current |-> FALSE, changed |-> TRUE, token |-> 0]

ASSUME NoneAssumption == None \notin Snapshot \cup TargetState \cup Serving

Sdk == [listeners : Seq(Calls), snapshot : Snapshot \cup {None}, raised : SUBSET Calls,
        current : BOOLEAN,
        online : OnlineState, failures : 0 .. MaxFaults, timer : BOOLEAN,
        state : StreamState, idle : BOOLEAN,
        requests : Seq(Request), responses : Seq(Message),
        target : TargetState \cup {None}, document : Versions,
        cache : Versions, token : Versions,
        main : Seq(Event)]

FreshSdk ==
    [listeners |-> <<>>,    \* FSTQueryListenersInfo: listeners and viewSnapshot
     snapshot  |-> None,
     raised    |-> {},      \* listeners with raisedInitialEvent
     current   |-> FALSE,   \* FSTView
     online    |-> "Unknown", failures |-> 0, timer |-> FALSE, \* the tracker
     state     |-> "Initial", idle |-> FALSE,                  \* the stream
     requests  |-> <<>>, responses |-> <<>>,
     target    |-> None, document |-> 0,                       \* the aggregator
     cache     |-> 0, token |-> 0,                             \* the local store
     main      |-> <<>>]    \* events posted to the main queue

\* The elements of a sequence that are in a set, in their order.
Among(seq, set) ==
    LET kept   == {k \in DOMAIN seq : seq[k] \in set}
        nth(n) == CHOOSE k \in kept : Cardinality({j \in kept : j <= k}) = n
    IN  [n \in 1 .. Cardinality(kept) |-> seq[nth(n)]]

-----------------------------------------------------------------------------
(* FSTEventManager and FSTView *)

Listened(c) == c.listeners # <<>>

\* shouldRaiseInitialEventForSnapshot, with waitForSyncWhenOnline.
ShouldRaiseInitial(snapshot, online) == ~snapshot.fromCache \/ online = "Offline"

\* The listeners among "who" that have an event to raise, one event for each.
\* After its first event a listener raises every snapshot.
Raise(c, who, snapshot) ==
    LET ready   == IF ShouldRaiseInitial(snapshot, c.online) THEN Calls ELSE c.raised
        raising == Among(who, ready)
    IN  [c EXCEPT !.raised = @ \cup Range(raising),
                  !.main = @ \o [k \in DOMAIN raising |->
                                   [call |-> raising[k], answer |-> snapshot]]]

\* handleViewSnapshots
HandleSnapshot(c, snapshot) ==
    [Raise(c, c.listeners, snapshot) EXCEPT !.snapshot = snapshot]

\* A view is no longer current when the device goes offline.
TellView(c, online) ==
    IF Listened(c) /\ c.current /\ online = "Offline"
    THEN HandleSnapshot([c EXCEPT !.current = FALSE], [c.snapshot EXCEPT !.fromCache = TRUE])
    ELSE c

\* Listeners that have waited for their first event look at the snapshot again.
TellListeners(c, online) ==
    Raise([c EXCEPT !.online = online],
          Among(c.listeners, Calls \ c.raised), c.snapshot)

\* setAndBroadcastState: the view first.
SetAndBroadcast(c, online) ==
    IF online = c.online THEN c ELSE TellListeners(TellView(c, online), online)

-----------------------------------------------------------------------------
(* FSTOnlineStateTracker *)

\* Mutant: the timer left running.
UpdateStateOnly(c, online) == SetAndBroadcast([c EXCEPT !.failures = 0], online)

UpdateState(c, online) ==
    SetAndBroadcast([c EXCEPT !.timer = FALSE, !.failures = 0], online)

\* Mutant: no timer.
WatchStreamStartUntimed(c) ==
    IF c.failures = 0 THEN SetAndBroadcast(c, "Unknown") ELSE c

HandleWatchStreamStart(c) ==
    IF c.failures = 0
    THEN [SetAndBroadcast(c, "Unknown") EXCEPT !.timer = TRUE]
    ELSE c

HandleWatchStreamFailure(c) ==
    LET counted == [c EXCEPT !.failures = @ + 1]
    IN  IF c.online = "Online" THEN SetAndBroadcast(c, "Unknown")
        ELSE IF counted.failures < MaxWatchStreamFailures THEN counted
        ELSE SetAndBroadcast([counted EXCEPT !.timer = FALSE], "Offline")

-----------------------------------------------------------------------------
(* FSTRemoteStore, the watch stream and FSTWatchChangeAggregator *)

IsStarted(c) == c.state \in {"Backoff", "Auth", "Open"}

\* startWatchStream, with an aggregator of its own.
StartWatchStream(c) ==
    HandleWatchStreamStart(
        [c EXCEPT !.target = None, !.document = 0,
                  !.state = IF @ = "Error" THEN "Backoff" ELSE "Auth"])

StartIfNeeded(c) == IF Listened(c) /\ ~IsStarted(c) THEN StartWatchStream(c) ELSE c

Ensure(target) == IF target = None THEN FreshTarget ELSE target

\* recordTargetRequest and the request itself.
SendRequest(c, type) ==
    [c EXCEPT !.target = [Ensure(c.target) EXCEPT !.outstanding = @ + 1],
              !.requests = Append(@, Msg(type, c.token)),
              !.idle = FALSE]

ListenToTarget(c) ==
    IF c.state = "Open" THEN SendRequest(c, "watch") ELSE StartIfNeeded(c)

StopListening(c) ==
    IF c.state = "Open" THEN [SendRequest(c, "unwatch") EXCEPT !.idle = TRUE] ELSE c

\* closeWithFinalState
Close(c, finalState) == [c EXCEPT !.state = finalState, !.idle = FALSE,
                                  !.requests = <<>>, !.responses = <<>>]

\* watchStreamWasInterruptedWithError
Interrupted(c, failed) ==
    IF ~Listened(c) THEN UpdateState(c, "Unknown")
    ELSE StartWatchStream(IF failed THEN HandleWatchStreamFailure(c) ELSE c)

\* Mutant: answers to earlier requests not waited for.
IsActiveAlways(c) == Listened(c)

\* isActiveTarget: no request of the target is unanswered.
IsActive(c) == Listened(c) /\ (c.target # None => c.target.outstanding = 0)

\* Mutant: the token kept as soon as it comes.
UpdateTokenAtOnce(c, v) ==
    [c EXCEPT !.target = [Ensure(@) EXCEPT !.changed = TRUE, !.token = v], !.token = v]

UpdateResumeToken(c, v) ==
    [c EXCEPT !.target = [Ensure(@) EXCEPT !.changed = TRUE, !.token = v]]

\* The answer to a watch or an unwatch request.  A target that is added afresh
\* forgets its changes, but not that it was current.
TargetAdded(c) ==
    LET answered == [Ensure(c.target) EXCEPT !.outstanding = @ - 1]
    IN  [c EXCEPT !.target = IF answered.outstanding = 0
                             THEN [answered EXCEPT !.changed = FALSE]
                             ELSE answered]

TargetRemoved(c) ==
    LET answered == [Ensure(c.target) EXCEPT !.outstanding = @ - 1]
    IN  [c EXCEPT !.target = IF answered.outstanding = 0 THEN None ELSE answered]

\* processTargetError and rejectListen: nothing happens for a target that is
\* no longer listened to, otherwise every listener gets the error.
TargetRefused(c) ==
    IF Listened(c)
    THEN [c EXCEPT !.target = None, !.listeners = <<>>, !.snapshot = None,
                   !.main = @ \o [k \in DOMAIN c.listeners |->
                                    [call |-> c.listeners[k], answer |-> None]]]
    ELSE c

DocumentChanged(c, v) ==
    IF IsActive(c)
    THEN [c EXCEPT !.target = [Ensure(@) EXCEPT !.changed = TRUE], !.document = v]
    ELSE c

MarkCurrent(c, v) ==
    IF IsActive(c)
    THEN UpdateResumeToken([c EXCEPT !.target = [Ensure(@) EXCEPT !.current = TRUE]], v)
    ELSE c

\* applyRemoteEvent of the local store: what the aggregator has gathered is
\* stored in one transaction, the token only with the target's own changes.
ApplyRemoteEvent(c, included) ==
    [c EXCEPT !.cache = IF c.document = 0 THEN @ ELSE c.document,
              !.document = 0,
              !.token = IF included /\ c.target.token # 0 THEN c.target.token ELSE @]

\* emitNewSnapshots: the view shows the copy, if that or its state changed.
EmitNewSnapshot(c) ==
    LET shown == [version |-> c.cache, fromCache |-> ~c.current]
    IN  IF Listened(c) /\ shown # c.snapshot THEN HandleSnapshot(c, shown) ELSE c

\* raiseWatchSnapshot: an active target with changes is part of the event.
RaiseSnapshot(c) ==
    LET included == c.target # None /\ IsActive(c) /\ c.target.changed
        applied  == ApplyRemoteEvent(c, included)
    IN  EmitNewSnapshot(IF included
                        THEN [applied EXCEPT !.target.changed = FALSE,
                                             !.current = c.target.current]
                        ELSE applied)

-----------------------------------------------------------------------------
Init ==
    /\ sdk = FreshSdk
    /\ posted = <<>>
    /\ muted = {}
    /\ version = 1
    /\ serving = None
    /\ faults = 0
    /\ rejects = 0
    /\ since = [k \in Calls |-> 0]
    /\ listenedAt = 0
    /\ answers = [k \in Calls |-> <<>>]
    /\ crossed = FALSE

\* getDocuments
GetDocuments(k) ==
    /\ since[k] = 0
    /\ \A j \in 1 .. k - 1 : since[j] # 0
    /\ since' = [since EXCEPT ![k] = version]
    /\ posted' = Append(posted, [op |-> "add", call |-> k])
    /\ UNCHANGED <<sdk, muted, version, serving, faults, rejects, listenedAt, answers, crossed>>

\* addListener: the first listener of the query starts the listen, another one
\* is given the snapshot the first has got.
AddListener ==
    LET k     == Head(posted).call
        first == ~Listened(sdk)
        added == [sdk EXCEPT !.listeners = Append(@, k)]
        copy  == [version |-> sdk.cache, fromCache |-> TRUE]
    IN  /\ posted # <<>> /\ Head(posted).op = "add"
        /\ posted' = Tail(posted)
        /\ sdk' = IF first
                  THEN ListenToTarget(HandleSnapshot([added EXCEPT !.current = FALSE], copy))
                  ELSE Raise(added, <<k>>, sdk.snapshot)
        /\ listenedAt' = IF first THEN version ELSE listenedAt
        /\ UNCHANGED <<muted, version, serving, faults, rejects, since, answers, crossed>>

\* removeListener: the last listener of the query ends the listen.
RemoveListener ==
    LET rest == Among(sdk.listeners, Calls \ {Head(posted).call})
        left == [sdk EXCEPT !.listeners = rest]
    IN  /\ posted # <<>> /\ Head(posted).op = "remove"
        /\ posted' = Tail(posted)
        /\ sdk' = IF Listened(sdk) /\ rest = <<>>
                  THEN StopListening([left EXCEPT !.snapshot = None])
                  ELSE left
        /\ UNCHANGED <<muted, version, serving, faults, rejects, history>>

\* Mutant: the listener removed but not muted.
CallbackUnmuted ==
    LET event == Head(sdk.main)
    IN  /\ sdk.main # <<>>
        /\ sdk' = [sdk EXCEPT !.main = Tail(@)]
        /\ answers' = [answers EXCEPT ![event.call] = Append(@, event.answer)]
        /\ posted' = IF event.answer = None THEN posted
                     ELSE Append(posted, [op |-> "remove", call |-> event.call])
        /\ UNCHANGED <<muted, version, serving, faults, rejects, since, listenedAt, crossed>>

\* The listener of getDocuments, on the main queue.  The first event removes
\* the listener; after an error there is nothing to remove.
Callback ==
    LET event  == Head(sdk.main)
        heard  == event.call \notin muted
        remove == heard /\ event.answer # None
    IN  /\ sdk.main # <<>>
        /\ sdk' = [sdk EXCEPT !.main = Tail(@)]
        /\ answers' = IF heard
                      THEN [answers EXCEPT ![event.call] = Append(@, event.answer)]
                      ELSE answers
        /\ muted' = IF remove THEN muted \cup {event.call} ELSE muted
        /\ posted' = IF remove THEN Append(posted, [op |-> "remove", call |-> event.call])
                     ELSE posted
        /\ UNCHANGED <<version, serving, faults, rejects, since, listenedAt, crossed>>

-----------------------------------------------------------------------------
(* The watch stream *)

\* resumeStartWithToken and watchStreamDidOpen.
TokenArrived ==
    LET open == [sdk EXCEPT !.state = "Open"]
    IN  /\ sdk.state = "Auth"
        /\ sdk' = IF Listened(sdk) THEN SendRequest(open, "watch") ELSE open
        /\ serving' = None
        /\ UNCHANGED <<posted, muted, version, faults, rejects, history>>

\* No token could be had.
TokenFailed ==
    /\ faults < MaxFaults
    /\ sdk.state = "Auth"
    /\ faults' = faults + 1
    /\ sdk' = Interrupted(Close(sdk, "Error"), TRUE)
    /\ UNCHANGED <<posted, muted, version, serving, rejects, history>>

BackoffElapsed ==
    /\ sdk.state = "Backoff"
    /\ sdk' = [sdk EXCEPT !.state = "Auth"]
    /\ UNCHANGED <<posted, muted, version, serving, faults, rejects, history>>

IdleTimer ==
    /\ sdk.idle /\ sdk.state = "Open"
    /\ sdk' = Interrupted(Close(sdk, "Initial"), FALSE)
    /\ UNCHANGED <<posted, muted, version, serving, faults, rejects, history>>

\* The backend has not answered for kOnlineStateTimeout.
OnlineStateTimer ==
    /\ sdk.timer
    /\ sdk' = SetAndBroadcast([sdk EXCEPT !.timer = FALSE], "Offline")
    /\ UNCHANGED <<posted, muted, version, serving, faults, rejects, history>>

\* watchStreamDidChange: any message means that the device is online.
Receive ==
    LET message == Head(sdk.responses)
        c       == UpdateState([sdk EXCEPT !.responses = Tail(@)], "Online")
        v       == message.version
    IN  /\ sdk.state = "Open" /\ sdk.responses # <<>> /\ message.type # "closed"
        /\ sdk' = CASE message.type = "added"    -> TargetAdded(c)
                    [] message.type = "removed"  -> TargetRemoved(c)
                    [] message.type = "refused"  -> TargetRefused(c)
                    [] message.type = "document" -> DocumentChanged(c, v)
                    [] message.type = "current"  -> MarkCurrent(c, v)
                    [] message.type = "nochange" -> IF IsActive(c)
                                                    THEN UpdateResumeToken(c, v) ELSE c
                    [] message.type = "snapshot" -> RaiseSnapshot(c)
        /\ crossed' = \/ crossed
                      \/ message.type = "refused" /\ Ensure(sdk.target).outstanding # 1
        /\ UNCHANGED <<posted, muted, version, serving, faults, rejects,
                       since, listenedAt, answers>>

\* handleStreamClose
StreamClosed ==
    /\ sdk.state = "Open" /\ sdk.responses # <<>> /\ Head(sdk.responses).type = "closed"
    /\ sdk' = Interrupted(Close(sdk, "Error"), TRUE)
    /\ UNCHANGED <<posted, muted, version, serving, faults, rejects, history>>

\* userDidChange: both streams are stopped and made anew.
UserDidChange ==
    /\ faults < MaxFaults
    /\ faults' = faults + 1
    /\ sdk' = StartIfNeeded(UpdateState(
                 [Close(sdk, "Initial") EXCEPT !.target = None, !.document = 0], "Unknown"))
    /\ UNCHANGED <<posted, muted, version, serving, rejects, history>>

-----------------------------------------------------------------------------
(* The backend *)

Broken == sdk.responses # <<>> /\ Last(sdk.responses).type = "closed"

Asked(type) == /\ sdk.state = "Open" /\ ~Broken
               /\ sdk.requests # <<>> /\ Head(sdk.requests).type = type

Respond(messages) == sdk' = [sdk EXCEPT !.requests = Tail(@), !.responses = @ \o messages]

\* Someone writes the document.
OthersWrite ==
    /\ version <= MaxVersion
    /\ version' = version + 1
    /\ UNCHANGED <<sdk, posted, muted, serving, faults, rejects, history>>

\* The target is added; what the device has is known from the resume token.
AddTarget ==
    /\ Asked("watch")
    /\ Respond(<<Msg("added", 0)>>)
    /\ serving' = [sent |-> Head(sdk.requests).version, current |-> FALSE]
    /\ UNCHANGED <<posted, muted, version, faults, rejects, history>>

RefuseTarget ==
    /\ rejects < MaxRejects
    /\ Asked("watch")
    /\ Respond(<<Msg("refused", 0)>>)
    /\ rejects' = rejects + 1
    /\ serving' = None
    /\ UNCHANGED <<posted, muted, version, faults, history>>

RemoveTarget ==
    /\ Asked("unwatch")
    /\ Respond(<<Msg("removed", 0)>>)
    /\ serving' = None
    /\ UNCHANGED <<posted, muted, version, faults, rejects, history>>

\* What the device has not seen yet, the mark that it is up to date, and the
\* snapshot that says the three belong together.
SendChanges ==
    LET change == IF serving.sent < version THEN <<Msg("document", version)>> ELSE <<>>
        mark   == Msg(IF serving.current THEN "nochange" ELSE "current", version)
    IN  /\ serving # None
        /\ sdk.state = "Open" /\ ~Broken
        /\ serving.current => serving.sent < version
        /\ sdk' = [sdk EXCEPT !.responses = @ \o change \o <<mark, Msg("snapshot", version)>>]
        /\ serving' = [sent |-> version, current |-> TRUE]
        /\ UNCHANGED <<posted, muted, version, faults, rejects, history>>

\* The connection breaks; the last messages may not have come through.
BreakStream ==
    /\ faults < MaxFaults
    /\ sdk.state = "Open" /\ ~Broken
    /\ faults' = faults + 1
    /\ \E n \in 0 .. Len(sdk.responses) :
         sdk' = [sdk EXCEPT !.responses = Append(SubSeq(@, 1, n), Msg("closed", 0))]
    /\ UNCHANGED <<posted, muted, version, serving, rejects, history>>

-----------------------------------------------------------------------------
App     == (\E k \in Calls : GetDocuments(k)) \/ Callback
Worker  == \/ AddListener \/ RemoveListener
           \/ TokenArrived \/ BackoffElapsed
           \/ IdleTimer \/ OnlineStateTimer \/ Receive \/ StreamClosed
Failure == TokenFailed \/ UserDidChange \/ RefuseTarget \/ BreakStream
Backend == AddTarget \/ RemoveTarget \/ SendChanges

Next == App \/ Worker \/ Failure \/ Backend \/ OthersWrite

Spec == Init /\ [][Next]_vars

\* Both queues are served and every timer runs out in the end.  Of the backend
\* no more is asked than that it goes on once it has begun to talk.
Fairness ==
    /\ WF_vars(Callback)
    /\ WF_vars(AddListener)
    /\ WF_vars(RemoveListener)
    /\ WF_vars(TokenArrived)
    /\ WF_vars(BackoffElapsed)
    /\ WF_vars(OnlineStateTimer)
    /\ WF_vars(Receive)
    /\ WF_vars(StreamClosed)
    /\ WF_vars(sdk.online = "Online" /\ Backend)

FairSpec == Spec /\ Fairness

-----------------------------------------------------------------------------
(* Properties *)

\* Type invariant, with the HARD_ASSERTs of FSTOnlineStateTracker: the timer
\* runs only while the state is Unknown (so handleWatchStreamFailure meets none
\* when Online), and a device that is Online has no failures counted.
TypeOK ==
    /\ sdk \in Sdk
    /\ posted \in Seq(Block)
    /\ muted \subseteq Calls
    /\ version \in Versions
    /\ serving \in Serving \cup {None}
    /\ faults \in 0 .. MaxFaults /\ rejects \in 0 .. MaxRejects
    /\ since \in [Calls -> Versions] /\ listenedAt \in Versions
    /\ answers \in [Calls -> Seq(Snapshot \cup {None})] /\ crossed \in BOOLEAN
    /\ sdk.timer => sdk.online = "Unknown"
    /\ sdk.online = "Online" => sdk.failures = 0
    /\ ~IsStarted(sdk) /\ sdk.failures = 0 => ~sdk.timer

\* A getDocuments calls its completion block at most once, though its listener
\* may have raised several events, and an error, before it is removed.
AnsweredOnce == \A k \in Calls : Len(answers[k]) <= 1

\* A view that counts as synced holds at least the version the backend had when
\* the query was first listened to: messages of an earlier listen of the same
\* target never make it current, unless a refusal has spoiled the count of
\* the requests that tells them apart.
SyncedIsFresh ==
    Listened(sdk) /\ sdk.current /\ ~crossed => sdk.snapshot.version >= listenedAt

\* The resume token never says more than the local copy holds; otherwise the
\* backend would leave out the missing change for good.
ResumeCovered == ~crossed => sdk.token <= sdk.cache

\* Responses the client still waits for that are asked for or under way.
Owed == Len(sdk.requests)
        + Cardinality({k \in DOMAIN sdk.responses : IsResponse(sdk.responses[k])})

\* The aggregator waits for a response that will not come on this stream, or
\* has counted one that belongs to a target it had forgotten.
Miscounted == sdk.state = "Open" /\ ~Broken /\ Ensure(sdk.target).outstanding # Owed

\* Every getDocuments is answered, by the backend, with an error or from the
\* device's copy, also when the backend refuses listens, unless a refusal that
\* crossed the client's own unwatch has spoiled the count of the target.
CallsAnswered == \A k \in Calls : since[k] # 0 ~> answers[k] # <<>> \/ Miscounted

\* Every getDocuments is answered: by the backend, with an error, or from the
\* device's copy once the backend has not spoken for too long.
EveryCallAnswered == \A k \in Calls : since[k] # 0 ~> answers[k] # <<>>
=============================================================================
