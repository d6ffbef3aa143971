------------------------------- MODULE Ballot -------------------------------
(***************************************************************************)
(* Casting and changing a vote: VoteViewModel.tabOnCell, voteFirst and     *)
(* voteSecond, running on several devices against one Firestore database.  *)
(*                                                                         *)
(* A tap is not one database operation.  It reads the user's document,     *)
(* then reads the poll's document, and writes back whole fields computed   *)
(* from what it read; no transaction joins the four.  Each of these is a   *)
(* step of its own here:                                                   *)
(*                                                                         *)
(*   TabOnCell        the tap; the Users query is sent                     *)
(*   AnswerUser       Firestore takes the snapshot and queues the callback *)
(*   VoteFirst        the callback: no vote yet in this poll               *)
(*   VoteSecond       the callback: the user already voted in this poll    *)
(*   AnswerVote       Firestore takes the snapshot of the Votes query      *)
(*   CountFirst       the callback of voteFirst                            *)
(*   CountSecond      the callback of voteSecond                           *)
(*   Apply            the backend applies the next write of a device       *)
(*   Acknowledge      the device learns that its oldest write was applied  *)
(*                                                                         *)
(* and around them RecallUser and RecallVote, reads answered from the      *)
(* device's own copy while it is offline or from a listen that is still    *)
(* open (QueryRead shows both), Resend, a connection that breaks before    *)
(* the acknowledgement and makes the device send its writes again,         *)
(* FailRead, RejectWrite and Crash, and DeletePoll, an administrator who   *)
(* removes the poll meanwhile.                                             *)
(*                                                                         *)
(* What the same callbacks publish to the screen (selectRow.onNext and the *)
(* reload it triggers) only reads the database; see VoteScreen.  That the  *)
(* SDK treats a device's writes as they are treated here is the subject of *)
(* WriteQueue, and of the property IsOutbox at the end.                    *)
(***************************************************************************)
EXTENDS Integers, Sequences, FiniteSets, FiniteSetsExt

CONSTANTS
    Devices,    \* running copies of the app
    Users,      \* registered e-mail addresses, the keys of collection Users
    Email,      \* the address each device is signed in with
    Polls,      \* the keys (voteUUID) of collection Votes
    Variants,   \* the row numbers of a poll, the same rows in every poll
    Absent,     \* a document that is not in its collection
    Offline,    \* devices that may answer a query from what they have
    Flaky,      \* devices whose connection may break
    MaxTaps     \* bound: taps in a behaviour

ASSUME EmailAssumption  == Email \in [Devices -> Users]
ASSUME AbsentAssumption == Absent \notin [Variants -> Int]
ASSUME UsersAssumption  == IsFiniteSet(Users)
ASSUME NetworkAssumption == Offline \subseteq Devices /\ Flaky \subseteq Devices
ASSUME TapsAssumption   == MaxTaps \in Nat

VARIABLES
    votes,      \* Votes collection: the variantVoteStatus of every variant
    users,      \* Users collection: userVotesList, as a set of records
    outbox,     \* per device: unacknowledged writes, oldest first
    applied,    \* per device: how many of them the backend has applied
    ownUser,    \* per device: the SDK's copy of the user's list
    ownVotes,   \* per device: the SDK's copies of the polls
    requests,   \* queries that have not been answered yet
    mainQueue,  \* per device: answered queries whose callback has not run
    taps,       \* number of taps so far, the identity of the next one
    \* The rest is history: no action's guard reads it.
    firsts,     \* per poll: increments written by voteFirst
    seconds,    \* per poll: moves written by voteSecond
    overlapped, \* users who tapped before their previous tap was through,
                \* or whose tap went by an outdated copy of the list
    faulty,     \* users who met a failed read, a rejected write or a crash
    replayed,   \* users whose writes were applied a second time
    contended,  \* polls tapped while another tap on them was under way, or
                \* by an outdated copy of the poll
    skewed,     \* polls where voteSecond met counters not one apart
    intent      \* per user and poll: the variant tapped last

database == <<votes, users>>
copies   == <<ownUser, ownVotes>>
sending  == <<outbox, applied>>
client   == <<outbox, applied, ownUser, ownVotes, requests, mainQueue, taps>>
history  == <<firsts, seconds, overlapped, faulty, replayed, contended, skewed, intent>>
vars     == <<votes, users, outbox, applied, ownUser, ownVotes, requests, mainQueue, taps,
              firsts, seconds, overlapped, faulty, replayed, contended, skewed, intent>>

-----------------------------------------------------------------------------
(* Documents, writes, queries *)

Record == [voteUUID : Polls, voteVariantID : Variants]
Tally  == [Variants -> Int]

UserWrite == [to : {"user"}, list : SUBSET Record]
VoteWrite == [to : {"vote"}, poll : Polls, tally : Tally]
Write     == UserWrite \cup VoteWrite

\* A query in flight, with what its callback has captured: arrays is the
\* userVotesList parameter of voteFirst and voteSecond, extra the extraIndex
\* of voteSecond.  They say nothing for the kinds that do not capture them.
Request(kinds) == [kind : kinds, tap : Nat, dev : Devices, poll : Polls,
                   index : Variants, arrays : SUBSET Record, extra : Variants]
UserRequest == Request({"user"})
VoteRequest == Request({"first", "second"})

UserCallback == [req : UserRequest, list : SUBSET Record]
VoteCallback == [req : VoteRequest, tally : Tally \cup {Absent}]

-----------------------------------------------------------------------------
(* Operators on the documents *)

\* arrays.filter { $0["voteUUID"] == UUID }
RecordsOf(list, p) == {r \in list : r.voteUUID = p}

\* Mutant: the two fields swapped.
NewRecordSwapped(p, i) == [voteUUID |-> i, voteVariantID |-> p]

NewRecord(p, i) == [voteUUID |-> p, voteVariantID |-> i]

\* voteFirst: the record is appended to the list that was read.
AppendRecord(list, p, i) == list \cup {NewRecord(p, i)}

\* Mutants: the filter left out, the list read left out, the append left out.
KeepOldRecord(list, p, i)  == list \cup {NewRecord(p, i)}
ForgetOthers(list, p, i)   == {NewRecord(p, i)}
OnlyRemove(list, p, i)     == list \ RecordsOf(list, p)

\* voteSecond: the poll's records are filtered out, then one is appended.
ReplaceRecord(list, p, i) == (list \ RecordsOf(list, p)) \cup {NewRecord(p, i)}

AddVote(tally, i) == [tally EXCEPT ![i] = @ + 1]

\* Mutants: the second value read before the decrement, the decrement missing.
MoveReadTooEarly(tally, i, extra) ==
    [tally EXCEPT ![extra] = @ - 1, ![i] = tally[extra] + 1]
MoveNoDecrement(tally, i, extra) == [tally EXCEPT ![i] = @ + 1]

\* Both values are read from extraIndex, the second after the decrement: the
\* counter of the new variant becomes what the old variant's counter was.
MoveVote(tally, i, extra) ==
    LET decremented == [tally EXCEPT ![extra] = @ - 1]
    IN  [decremented EXCEPT ![i] = decremented[extra] + 1]

\* What a device sees of a document: the newest of its own unacknowledged
\* writes, or else the document it goes by.
PendingUser(d) == {k \in DOMAIN outbox[d] : outbox[d][k].to = "user"}

LocalUser(d, list) == IF PendingUser(d) = {} THEN list
                      ELSE outbox[d][Max(PendingUser(d))].list

PendingVote(d, p) == {k \in DOMAIN outbox[d] :
                        outbox[d][k].to = "vote" /\ outbox[d][k].poll = p}

\* An update is not visible, even locally, when the document is missing.
LocalVote(d, p, tally) == IF tally = Absent \/ PendingVote(d, p) = {} THEN tally
                          ELSE outbox[d][Max(PendingVote(d, p))].tally

\* The copies of a device that is never offline are never read; the model
\* does not keep them up to date.
Kept(d, old, new) == IF d \in Offline THEN new ELSE old

\* Mutant: setData in the place of updateData.
SetData(document, tally) == tally

\* updateData carries the precondition that the document exists.
UpdateData(document, tally) == IF document = Absent THEN Absent ELSE tally

-----------------------------------------------------------------------------
(* Where a tap can be *)

InFlight == requests \cup
            UNION {{mainQueue[d][k].req : k \in DOMAIN mainQueue[d]} : d \in Devices}

\* The user has a tap under way, or another device of the same user has
\* writes the device at hand cannot see.
UserBusy(d) ==
    \/ \E r \in InFlight : Email[r.dev] = Email[d]
    \/ \E e \in Devices \ {d} : Email[e] = Email[d] /\ outbox[e] # <<>>

PollBusy(d, p) ==
    \/ \E r \in InFlight : r.poll = p
    \/ \E e \in Devices \ {d} : PendingVote(e, p) # {}

-----------------------------------------------------------------------------
Init ==
    /\ votes = [p \in Polls |-> [v \in Variants |-> 0]]
    /\ users = [u \in Users |-> {}]
    /\ outbox = [d \in Devices |-> <<>>]
    /\ applied = [d \in Devices |-> 0]
    /\ ownUser = [d \in Devices |-> {}]
    /\ ownVotes = [d \in Devices |-> votes]
    /\ requests = {}
    /\ mainQueue = [d \in Devices |-> <<>>]
    /\ taps = 0
    /\ firsts = [p \in Polls |-> 0]
    /\ seconds = [p \in Polls |-> 0]
    /\ overlapped = {}
    /\ faulty = {}
    /\ replayed = {}
    /\ contended = {}
    /\ skewed = {}
    /\ intent = [u \in Users |-> {}]

\* didSelectRowAt calls tabOnCell, which queries the user's document.  The
\* poll may be gone by now: the screen still shows its rows.
TabOnCell(d, p, i) ==
    /\ taps < MaxTaps
    /\ taps' = taps + 1
    /\ requests' = requests \cup
         {[kind |-> "user", tap |-> taps, dev |-> d, poll |-> p,
           index |-> i, arrays |-> {}, extra |-> i]}
    /\ overlapped' = IF UserBusy(d) THEN overlapped \cup {Email[d]} ELSE overlapped
    /\ contended' = IF PollBusy(d, p) THEN contended \cup {p} ELSE contended
    /\ intent' = [intent EXCEPT
         ![Email[d]] = {r \in @ : r.voteUUID # p} \cup {[voteUUID |-> p, voteVariantID |-> i]}]
    /\ UNCHANGED <<database, sending, copies, mainQueue, firsts, seconds, faulty, replayed, skewed>>

\* The answer of the backend; the SDK keeps what it says.
AnswerUser(r) ==
    /\ r.kind = "user"
    /\ requests' = requests \ {r}
    /\ mainQueue' = [mainQueue EXCEPT
         ![r.dev] = Append(@, [req |-> r, list |-> LocalUser(r.dev, users[Email[r.dev]])])]
    /\ ownUser' = [ownUser EXCEPT ![r.dev] = Kept(r.dev, @, users[Email[r.dev]])]
    /\ UNCHANGED <<database, sending, ownVotes, taps, history>>

AnswerVote(r) ==
    /\ r.kind \in {"first", "second"}
    /\ requests' = requests \ {r}
    /\ mainQueue' = [mainQueue EXCEPT
         ![r.dev] = Append(@, [req |-> r,
                               tally |-> LocalVote(r.dev, r.poll, votes[r.poll])])]
    /\ ownVotes' = [ownVotes EXCEPT ![r.dev][r.poll] = Kept(r.dev, @, votes[r.poll])]
    /\ UNCHANGED <<database, sending, ownUser, taps, history>>

\* getDocuments answers from the device's copy: it is offline, or an earlier
\* getDocuments of the same query has not been taken down yet.
RecallUser(r) ==
    LET list == LocalUser(r.dev, ownUser[r.dev])
    IN  /\ r.kind = "user"
        /\ r.dev \in Offline
        /\ requests' = requests \ {r}
        /\ mainQueue' = [mainQueue EXCEPT ![r.dev] = Append(@, [req |-> r, list |-> list])]
        /\ overlapped' = IF list = LocalUser(r.dev, users[Email[r.dev]]) THEN overlapped
                         ELSE overlapped \cup {Email[r.dev]}
        /\ UNCHANGED <<database, sending, copies, taps,
                       firsts, seconds, faulty, replayed, contended, skewed, intent>>

RecallVote(r) ==
    LET tally == LocalVote(r.dev, r.poll, ownVotes[r.dev][r.poll])
    IN  /\ r.kind \in {"first", "second"}
        /\ r.dev \in Offline
        /\ requests' = requests \ {r}
        /\ mainQueue' = [mainQueue EXCEPT ![r.dev] = Append(@, [req |-> r, tally |-> tally])]
        /\ contended' = IF tally = LocalVote(r.dev, r.poll, votes[r.poll]) THEN contended
                        ELSE contended \cup {r.poll}
        /\ UNCHANGED <<database, sending, copies, taps,
                       firsts, seconds, overlapped, faulty, replayed, skewed, intent>>

\* The other screens, and reloadViewData on this one, read both collections.
Refresh(d) ==
    /\ d \in Offline
    /\ ownUser' = [ownUser EXCEPT ![d] = users[Email[d]]]
    /\ ownVotes' = [ownVotes EXCEPT ![d] = votes]
    /\ copies # copies'
    /\ UNCHANGED <<database, sending, requests, mainQueue, taps, history>>

\* Every callback begins with "guard error == nil" and returns.
FailRead(r) ==
    /\ requests' = requests \ {r}
    /\ faulty' = faulty \cup {Email[r.dev]}
    /\ UNCHANGED <<database, sending, copies, mainQueue, taps,
                   firsts, seconds, overlapped, replayed, contended, skewed, intent>>

Ready(d, kind) == mainQueue[d] # <<>> /\ Head(mainQueue[d]).req.kind = kind

\* The user's record is written at once, before the poll has been read.
VoteFirst(d) ==
    LET cb == Head(mainQueue[d])
        r  == cb.req
    IN  /\ Ready(d, "user")
        /\ RecordsOf(cb.list, r.poll) = {}
        /\ outbox' = [outbox EXCEPT ![d] = Append(@,
             [to |-> "user", list |-> AppendRecord(cb.list, r.poll, r.index)])]
        /\ requests' = requests \cup {[r EXCEPT !.kind = "first", !.arrays = cb.list]}
        /\ mainQueue' = [mainQueue EXCEPT ![d] = Tail(@)]
        /\ UNCHANGED <<database, applied, copies, taps, history>>

\* even.first gives the variant voted for before.
VoteSecond(d) ==
    LET cb == Head(mainQueue[d])
        r  == cb.req
    IN  /\ Ready(d, "user")
        /\ \E old \in RecordsOf(cb.list, r.poll) :
             requests' = requests \cup {[r EXCEPT !.kind = "second",
                                                  !.arrays = cb.list,
                                                  !.extra = old.voteVariantID]}
        /\ mainQueue' = [mainQueue EXCEPT ![d] = Tail(@)]
        /\ UNCHANGED <<database, sending, copies, taps, history>>

\* The loop over the documents found does nothing when the poll is gone.
CountFirst(d) ==
    LET cb == Head(mainQueue[d])
        r  == cb.req
    IN  /\ Ready(d, "first")
        /\ mainQueue' = [mainQueue EXCEPT ![d] = Tail(@)]
        /\ \/ /\ cb.tally = Absent
              /\ UNCHANGED <<outbox, firsts>>
           \/ /\ cb.tally # Absent
              /\ outbox' = [outbox EXCEPT ![d] = Append(@,
                   [to |-> "vote", poll |-> r.poll, tally |-> AddVote(cb.tally, r.index)])]
              /\ firsts' = [firsts EXCEPT ![r.poll] = @ + 1]
        /\ UNCHANGED <<database, applied, copies, requests, taps, seconds,
                       overlapped, faulty, replayed, contended, skewed, intent>>

\* Both writes are issued here, the poll's first.
CountSecond(d) ==
    LET cb == Head(mainQueue[d])
        r  == cb.req
    IN  /\ Ready(d, "second")
        /\ mainQueue' = [mainQueue EXCEPT ![d] = Tail(@)]
        /\ \/ /\ cb.tally = Absent
              /\ UNCHANGED <<outbox, seconds, skewed>>
           \/ /\ cb.tally # Absent
              /\ outbox' = [outbox EXCEPT ![d] = @ \o
                   <<[to |-> "vote", poll |-> r.poll,
                      tally |-> MoveVote(cb.tally, r.index, r.extra)],
                     [to |-> "user", list |-> ReplaceRecord(r.arrays, r.poll, r.index)]>>]
              /\ seconds' = [seconds EXCEPT ![r.poll] = @ + 1]
              /\ skewed' = IF r.index = r.extra \/ cb.tally[r.extra] = cb.tally[r.index] + 1
                           THEN skewed ELSE skewed \cup {r.poll}
        /\ UNCHANGED <<database, applied, copies, requests, taps, firsts,
                       overlapped, faulty, replayed, contended, intent>>

\* The backend goes through the writes of a device in their order.
Apply(d) ==
    /\ applied[d] < Len(outbox[d])
    /\ applied' = [applied EXCEPT ![d] = @ + 1]
    /\ LET w == outbox[d][applied[d] + 1] IN
       \/ /\ w.to = "user"
          /\ users' = [users EXCEPT ![Email[d]] = w.list]
          /\ UNCHANGED votes
       \/ /\ w.to = "vote"
          /\ votes' = [votes EXCEPT ![w.poll] = UpdateData(@, w.tally)]
          /\ UNCHANGED users
    /\ UNCHANGED <<outbox, copies, requests, mainQueue, taps, history>>

\* An acknowledged write leaves the queue and is added to the device's copy.
Acknowledge(d) ==
    LET w == Head(outbox[d])
    IN  /\ applied[d] > 0
        /\ outbox' = [outbox EXCEPT ![d] = Tail(@)]
        /\ applied' = [applied EXCEPT ![d] = @ - 1]
        /\ \/ /\ w.to = "user"
              /\ ownUser' = [ownUser EXCEPT ![d] = Kept(d, @, w.list)]
              /\ UNCHANGED ownVotes
           \/ /\ w.to = "vote"
              /\ ownVotes' = [ownVotes EXCEPT
                   ![d][w.poll] = Kept(d, @, UpdateData(@, w.tally))]
              /\ UNCHANGED ownUser
        /\ UNCHANGED <<database, requests, mainQueue, taps, history>>

\* Mutant: the next connection goes on after the first write in flight.
SentAgainFromSecond(d) ==
    /\ applied' = [applied EXCEPT ![d] = Min({@, 1})]
    /\ replayed' = replayed

\* On the next connection every unacknowledged write is sent again.
SentAgain(d) ==
    /\ applied' = [applied EXCEPT ![d] = 0]
    /\ replayed' = IF applied[d] = 0 THEN replayed ELSE replayed \cup {Email[d]}

Resend(d) ==
    /\ d \in Flaky
    /\ applied[d] > 0
    /\ SentAgain(d)
    /\ UNCHANGED <<database, outbox, copies, requests, mainQueue, taps,
                   firsts, seconds, overlapped, faulty, contended, skewed, intent>>

\* No updateData call has a completion handler: a refused write is dropped.
RejectWrite(d) ==
    /\ applied[d] = 0
    /\ outbox[d] # <<>>
    /\ outbox' = [outbox EXCEPT ![d] = Tail(@)]
    /\ faulty' = faulty \cup {Email[d]}
    /\ UNCHANGED <<database, applied, copies, requests, mainQueue, taps,
                   firsts, seconds, overlapped, replayed, contended, skewed, intent>>

\* The process dies with its callbacks; the SDK's write queue is on disk.
Crash(d) ==
    /\ \E r \in InFlight : r.dev = d
    /\ requests' = {r \in requests : r.dev # d}
    /\ mainQueue' = [mainQueue EXCEPT ![d] = <<>>]
    /\ faulty' = faulty \cup {Email[d]}
    /\ SentAgain(d)
    /\ UNCHANGED <<database, outbox, copies, taps,
                   firsts, seconds, overlapped, contended, skewed, intent>>

\* The backend side of MainViewModel.itemsDelete on an administrator's device.
DeletePoll(p) ==
    /\ votes[p] # Absent
    /\ votes' = [votes EXCEPT ![p] = Absent]
    /\ UNCHANGED <<users, client, history>>

Answer(d)   == \E r \in requests : r.dev = d /\ (AnswerUser(r) \/ AnswerVote(r)
                                              \/ RecallUser(r) \/ RecallVote(r))
Callback(d) == VoteFirst(d) \/ VoteSecond(d) \/ CountFirst(d) \/ CountSecond(d)

Next ==
    \/ \E d \in Devices :
         \/ \E p \in Polls, i \in Variants : TabOnCell(d, p, i)
         \/ VoteFirst(d)
         \/ VoteSecond(d)
         \/ CountFirst(d)
         \/ CountSecond(d)
         \/ Apply(d)
         \/ Acknowledge(d)
         \/ Resend(d)
         \/ RejectWrite(d)
         \/ Refresh(d)
         \/ Crash(d)
    \/ \E r \in requests :
         AnswerUser(r) \/ AnswerVote(r) \/ RecallUser(r) \/ RecallVote(r) \/ FailRead(r)
    \/ \E p \in Polls : DeletePoll(p)

Spec == Init /\ [][Next]_vars

\* Firestore answers or fails every query, the main queue is drained, and the
\* SDK sends its writes until the backend has decided on them: connections
\* do not break for ever before the first acknowledgement.
Fairness == \A d \in Devices :
    /\ WF_vars(Answer(d))
    /\ WF_vars(Callback(d))
    /\ WF_vars(Apply(d))
    /\ SF_vars(Acknowledge(d))

FairSpec == Spec /\ Fairness
-----------------------------------------------------------------------------
(* Properties *)

\* Type invariant; recorded variants are rows of the poll, every list names
\* polls, every queued write is a list or a tally, and only queued writes
\* count as applied.
TypeOK ==
    /\ votes \in [Polls -> Tally \cup {Absent}]
    /\ users \in [Users -> SUBSET Record]
    /\ outbox \in [Devices -> Seq(Write)]
    /\ applied \in [Devices -> Nat]
    /\ \A d \in Devices : applied[d] <= Len(outbox[d])
    /\ ownUser \in [Devices -> SUBSET Record]
    /\ ownVotes \in [Devices -> [Polls -> Tally \cup {Absent}]]
    /\ requests \subseteq UserRequest \cup VoteRequest
    /\ mainQueue \in [Devices -> Seq(UserCallback \cup VoteCallback)]
    /\ taps \in Nat
    /\ firsts \in [Polls -> Nat]
    /\ seconds \in [Polls -> Nat]
    /\ overlapped \subseteq Users
    /\ faulty \subseteq Users
    /\ replayed \subseteq Users
    /\ contended \subseteq Polls
    /\ skewed \subseteq Polls
    /\ intent \in [Users -> SUBSET Record]

\* A list names every poll at most once.
Single(list) == \A r, s \in list : r.voteUUID = s.voteUUID => r = s

\* No interleaving of taps, devices, failures and deletions leaves two
\* records of one poll in a userVotesList, so even.first is the only record.
OneRecordPerPoll == \A u \in Users : Single(users[u])

Within(tally, p) == \A v \in Variants : -seconds[p] <= tally[v] /\ tally[v] <= firsts[p]

\* However taps overlap and writes get lost, no counter of a poll rises above
\* the number of increments voteFirst wrote for the poll, and none falls
\* below minus the number of moves voteSecond wrote.
CountersBounded == \A p \in Polls : votes[p] # Absent => Within(votes[p], p)

\* A poll that was deleted stays deleted, although taps that read it earlier
\* still write to it.
DeletedStaysDeleted == [][\A p \in Polls : votes[p] = Absent => votes'[p] = Absent]_vars

PollsOf(list) == {r.voteUUID : r \in list}

\* A user who lets every tap finish before the next one never loses a
\* recorded vote, whatever the others do and whatever fails: voteFirst and
\* voteSecond write back a list read earlier, but never an outdated one.  Only
\* writes applied a second time take the list back, until all of them are.
RecordedVotesKept ==
    [][\A u \in Users \ (overlapped' \cup replayed') :
         PollsOf(users[u]) \subseteq PollsOf(users'[u])]_vars

Resting(u) == /\ \A r \in InFlight : Email[r.dev] # u
              /\ \A d \in Devices : Email[d] = u => outbox[d] = <<>>

\* When all of a user's taps and writes are through, also those sent again
\* over a broken connection, the list is what the user tapped last in every
\* poll that still exists, unless taps overlapped or something failed.
RecordsMatchTaps ==
    \A u \in Users \ (overlapped \cup faulty) : Resting(u) =>
        \A p \in Polls : votes[p] # Absent =>
            RecordsOf(users[u], p) = RecordsOf(intent[u], p)

Voters(p, v) == {u \in Users : NewRecord(p, v) \in users[u]}

Settled(p) == /\ \A r \in InFlight : r.poll # p
              /\ \A d \in Devices : outbox[d] = <<>>

\* The counters of a poll are the numbers of users recorded for its variants,
\* provided its taps never overlapped, nothing failed, and every change of
\* vote moved between counters one apart (voteSecond's arithmetic is wrong
\* otherwise).
TallyExact ==
    \A p \in Polls \ (contended \cup skewed) :
        (overlapped = {} /\ faulty = {} /\ votes[p] # Absent /\ Settled(p)) =>
            \A v \in Variants : votes[p][v] = Cardinality(Voters(p, v))

\* The last variant a user tapped ends up as the user's record, unless the
\* poll was deleted, a tap overlapped the user's own, or something failed.
TapsTakeEffect ==
    \A u \in Users : \A r \in Record :
        <>[](\/ u \in overlapped \cup faulty
             \/ votes[r.voteUUID] = Absent
             \/ r \in intent[u] => r \in users[u])

\* Each device with its writes is a client of the Outbox that WriteQueue shows
\* the SDK to be.
Promise == INSTANCE Outbox WITH Clients <- Devices, Writes <- Write

\* The writes of voteFirst and voteSecond keep to the queue of the SDK: the
\* backend applies them in order, and again from the oldest after a break.
IsOutbox == Promise!Spec
=============================================================================
