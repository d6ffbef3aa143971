------------------------------ MODULE MainList ------------------------------
(***************************************************************************)
(* The list of polls on one device: MainView, MainViewModel, MainModel.    *)
(*                                                                         *)
(* readDataBase queries Votes, and for every poll found queries Users; the *)
(* row is appended when the latter is answered, so one read becomes many   *)
(* callbacks.  None of them is cancelled when the view disappears and the  *)
(* list is emptied.  A query of Users may find no document, because none   *)
(* was written or the copy that answers it has none: no row, no error.     *)
(* itemsDelete removes a row when the backend has confirmed the deletion,  *)
(* at the index the row had when it was swiped.                            *)
(***************************************************************************)
EXTENDS Integers, Sequences, FiniteSets, SequencesExt

CONSTANTS
    Polls,      \* the keys of collection Votes
    Role,       \* userRole of the user signed in: is he an administrator?
    MaxReads,   \* bound: times the view appears
    MaxDeletes  \* bound: rows swiped away

ASSUME RoleAssumption   == Role \in BOOLEAN
ASSUME BoundsAssumption == MaxReads \in Nat /\ MaxDeletes \in Nat

VARIABLES
    polls,      \* Votes collection, on the backend
    dead,       \* polls deleted from it; their UUIDs are not used again
    userDoc,    \* Users collection: is there a document of the user?
    voted,      \* polls named in its userVotesList
    ownPolls,   \* the device's copy of Votes
    ownDoc,     \* does its copy of Users have the user's document?
    appeared,   \* the view is on screen
    itemsDtc,   \* the rows; MainView.items always equals it
    adminStatus,\* MainView.adminStatus
    requests,   \* queries that have not been answered yet
    deletes,    \* deletions queued by the SDK
    mainQueue,  \* answers whose callback has not run yet
    reads,      \* number of reads so far
    swipes,     \* number of deletions so far
    crashed,    \* remove(at:) with an index out of range ended the app
    \* The rest is history: no action's guard reads it.
    expected,   \* polls the last read found that have not been taken off again
    interrupted,\* the view disappeared before a read was through
    shifted,    \* rows were removed or cleared while a deletion was pending
    lost,       \* polls of expected whose query of Users failed or found nothing
    undone      \* polls whose row was removed though they were not deleted

backend == <<polls, dead, userDoc, voted>>
copy    == <<ownPolls, ownDoc>>
screen  == <<appeared, itemsDtc, adminStatus, crashed>>
history == <<expected, interrupted, shifted, lost, undone>>
vars    == <<polls, dead, userDoc, voted, ownPolls, ownDoc, appeared, itemsDtc,
             adminStatus, requests, deletes, mainQueue, reads, swipes, crashed,
             expected, interrupted, shifted, lost, undone>>

DataVoteCell == [UUID : Polls, status : BOOLEAN]

DataVoteInit(p) == [UUID |-> p, status |-> FALSE]

VotesRequest == [kind : {"votes"}, read : Nat]
UserRequest  == [kind : {"user"}, read : Nat, dtc : DataVoteCell]
Deletion     == [swipe : Nat, index : Nat, poll : Polls]
VotesAnswer  == [kind : {"votes"}, read : Nat, docs : SUBSET Polls]
UserAnswer   == [kind : {"user"}, dtc : DataVoteCell, found : BOOLEAN,
                 list : SUBSET Polls]
DeleteAnswer == [kind : {"delete"}, index : Nat, poll : Polls, ok : BOOLEAN]

Queued(kind) == \E k \in DOMAIN mainQueue : mainQueue[k].kind = kind
Reading      == requests # {} \/ Queued("votes") \/ Queued("user")
Deleting     == deletes # {} \/ Queued("delete")
Ready(kind)  == ~crashed /\ mainQueue # <<>> /\ Head(mainQueue).kind = kind

\* What the device sees of a collection: its own deletions at once.
LocalPolls(collection) == collection \ {x.poll : x \in deletes}

Init ==
    /\ polls \in SUBSET Polls
    /\ ownPolls \in SUBSET Polls
    /\ dead = ownPolls \ polls
    /\ userDoc \in BOOLEAN
    /\ voted = {}
    /\ ownDoc \in {FALSE, userDoc}
    /\ appeared = FALSE
    /\ itemsDtc = <<>>
    /\ adminStatus = FALSE
    /\ requests = {}
    /\ deletes = {}
    /\ mainQueue = <<>>
    /\ reads = 0
    /\ swipes = 0
    /\ crashed = FALSE
    /\ expected = {}
    /\ interrupted = FALSE
    /\ shifted = FALSE
    /\ lost = {}
    /\ undone = {}

-----------------------------------------------------------------------------
(* The view *)

\* viewWillAppear: bindings are made once more, and readDataBase is called.
ViewWillAppear ==
    /\ ~crashed /\ ~appeared
    /\ reads < MaxReads
    /\ appeared' = TRUE
    /\ reads' = reads + 1
    /\ requests' = requests \cup {[kind |-> "votes", read |-> reads]}
    /\ UNCHANGED <<backend, copy, itemsDtc, adminStatus, crashed, deletes, mainQueue,
                   swipes, history>>

\* Mutant: the list is not emptied.
ViewHidden ==
    /\ ~crashed /\ appeared
    /\ appeared' = FALSE
    /\ UNCHANGED <<backend, copy, itemsDtc, adminStatus, crashed, requests, deletes,
                   mainQueue, reads, swipes, history>>

\* viewWillDisappear calls itemsDeleteAll.
ViewWillDisappear ==
    /\ ~crashed /\ appeared
    /\ appeared' = FALSE
    /\ itemsDtc' = <<>>
    /\ expected' = {}
    /\ lost' = {}
    /\ interrupted' = (interrupted \/ Reading)
    /\ shifted' = (shifted \/ Deleting)
    /\ UNCHANGED <<backend, copy, adminStatus, crashed, requests, deletes, mainQueue,
                   reads, swipes, undone>>

\* commit editing calls itemsDelete, for administrators only.
ItemsDelete(index) ==
    /\ ~crashed /\ appeared
    /\ adminStatus
    /\ swipes < MaxDeletes
    /\ swipes' = swipes + 1
    /\ deletes' = deletes \cup
         {[swipe |-> swipes, index |-> index, poll |-> itemsDtc[index].UUID]}
    /\ UNCHANGED <<backend, copy, screen, requests, mainQueue, reads, history>>

-----------------------------------------------------------------------------
(* Firestore *)

\* A query of Votes is answered by the backend, or from the copy while the
\* device is offline.
AnswerVotes(r) ==
    /\ r.kind = "votes"
    /\ requests' = requests \ {r}
    /\ ownPolls' \in {polls, ownPolls}
    /\ mainQueue' = Append(mainQueue, [kind |-> "votes", read |-> r.read,
                                      docs |-> LocalPolls(ownPolls')])
    /\ UNCHANGED <<backend, ownDoc, screen, deletes, reads, swipes, history>>

\* Likewise a query of Users.  userEmail is the key of the document, so it
\* finds one at most; a copy may name fewer polls.
AnswerUser(r) ==
    /\ r.kind = "user"
    /\ requests' = requests \ {r}
    /\ ownDoc' \in {userDoc, ownDoc}
    /\ \E list \in SUBSET (IF ownDoc' THEN voted ELSE {}) :
         mainQueue' = Append(mainQueue, [kind |-> "user", dtc |-> r.dtc,
                                         found |-> ownDoc', list |-> list])
    /\ lost' = IF ownDoc' THEN lost ELSE lost \cup {r.dtc.UUID}
    /\ UNCHANGED <<backend, ownPolls, screen, deletes, reads, swipes,
                   expected, interrupted, shifted, undone>>

\* The callbacks return on an error; the rest of the read goes on.
FailRead(r) ==
    /\ requests' = requests \ {r}
    /\ lost' = IF r.kind = "user" THEN lost \cup {r.dtc.UUID} ELSE lost
    /\ UNCHANGED <<backend, copy, screen, deletes, mainQueue, reads, swipes,
                   expected, interrupted, shifted, undone>>

\* delete has no precondition: a poll that is gone already is deleted again.
AnswerDelete(x) ==
    /\ deletes' = deletes \ {x}
    /\ \E ok \in BOOLEAN :
         /\ mainQueue' = Append(mainQueue, [kind |-> "delete", index |-> x.index,
                                            poll |-> x.poll, ok |-> ok])
         /\ polls' = IF ok THEN polls \ {x.poll} ELSE polls
         /\ ownPolls' = IF ok THEN ownPolls \ {x.poll} ELSE ownPolls
         /\ dead' = IF ok THEN dead \cup {x.poll} ELSE dead
    /\ UNCHANGED <<userDoc, voted, ownDoc, screen, requests, reads, swipes, history>>

-----------------------------------------------------------------------------
(* The callbacks, on the main queue *)

\* One query of Users for every poll found; its callback keeps the row.
ReadVotes ==
    LET answer == Head(mainQueue) IN
    /\ Ready("votes")
    /\ mainQueue' = Tail(mainQueue)
    /\ requests' = requests \cup
         {[kind |-> "user", read |-> answer.read, dtc |-> DataVoteInit(p)] : p \in answer.docs}
    /\ expected' = answer.docs
    /\ lost' = {}
    /\ UNCHANGED <<backend, copy, screen, deletes, reads, swipes,
                   interrupted, shifted, undone>>

\* Mutants: only the newest row is kept, the key is kept in the row's place,
\* only polls voted in get a row.
NewestRow(list, row) == <<row>>
KeyOnly(list, row)   == Append(list, row.UUID)
VotedOnly(list, row) == IF row.status THEN Append(list, row) ELSE list

AppendRow(list, row) == Append(list, row)

\* For the document found, if there is one: adminStatus is published here, with
\* a row, and nowhere else.
ReadUser ==
    LET answer == Head(mainQueue)
        dtc    == [answer.dtc EXCEPT !.status = (answer.dtc.UUID \in answer.list)]
    IN
    /\ Ready("user")
    /\ mainQueue' = Tail(mainQueue)
    /\ \/ /\ answer.found
          /\ adminStatus' = Role
          /\ itemsDtc' = AppendRow(itemsDtc, dtc)
       \/ ~answer.found /\ UNCHANGED <<adminStatus, itemsDtc>>
    /\ UNCHANGED <<backend, copy, appeared, crashed, requests, deletes, reads, swipes,
                   history>>

\* Mutant: an index counted from one.
NextRow(index) == index + 1

\* The row removed is the one at the index captured with the swipe.
RowOf(index) == index

\* The index may be out of range by now: remove(at:) traps.
RemoveRow ==
    LET answer == Head(mainQueue)
        row    == RowOf(answer.index)
    IN
    /\ Ready("delete")
    /\ mainQueue' = Tail(mainQueue)
    /\ \/ /\ ~answer.ok
          /\ UNCHANGED <<itemsDtc, crashed, expected, shifted, undone>>
       \/ /\ answer.ok /\ row \in DOMAIN itemsDtc
          /\ itemsDtc' = RemoveAt(itemsDtc, row)
          /\ shifted' = (shifted \/ deletes # {} \/ \E k \in 2..Len(mainQueue) :
                                                      mainQueue[k].kind = "delete")
          /\ expected' = expected \ {itemsDtc[row].UUID}
          /\ undone' = undone \cup ({itemsDtc[row].UUID} \ dead)
          /\ UNCHANGED crashed
       \/ /\ answer.ok /\ row \notin DOMAIN itemsDtc
          /\ crashed' = TRUE
          /\ UNCHANGED <<itemsDtc, expected, shifted, undone>>
    /\ UNCHANGED <<backend, copy, appeared, adminStatus, requests, deletes, reads, swipes,
                   interrupted, lost>>

-----------------------------------------------------------------------------
(* Other devices *)

AddPoll(p) ==
    /\ p \notin polls \cup dead
    /\ polls' = polls \cup {p}
    /\ UNCHANGED <<dead, userDoc, voted, copy, screen, requests, deletes, mainQueue, reads,
                   swipes, history>>

DeletePoll(p) ==
    /\ p \in polls
    /\ polls' = polls \ {p}
    /\ dead' = dead \cup {p}
    /\ UNCHANGED <<userDoc, voted, copy, screen, requests, deletes, mainQueue, reads,
                   swipes, history>>

\* updateData needs the document.
CastVote(p) ==
    /\ userDoc
    /\ p \in polls \ voted
    /\ voted' = voted \cup {p}
    /\ UNCHANGED <<polls, dead, userDoc, copy, screen, requests, deletes, mainQueue, reads,
                   swipes, history>>

\* The setData of a sign-up, which has waited on the device it was made on.
UserWritten ==
    /\ ~userDoc
    /\ userDoc' = TRUE
    /\ UNCHANGED <<polls, dead, voted, copy, screen, requests, deletes, mainQueue, reads,
                   swipes, history>>

Answer   == \E r \in requests : AnswerVotes(r) \/ AnswerUser(r)
Settle   == \E x \in deletes : AnswerDelete(x)
Callback == ReadVotes \/ ReadUser \/ RemoveRow

Next ==
    \/ ViewWillAppear
    \/ ViewWillDisappear
    \/ \E index \in DOMAIN itemsDtc : ItemsDelete(index)
    \/ \E r \in requests : AnswerVotes(r) \/ AnswerUser(r) \/ FailRead(r)
    \/ \E x \in deletes : AnswerDelete(x)
    \/ ReadVotes
    \/ ReadUser
    \/ RemoveRow
    \/ \E p \in Polls : AddPoll(p) \/ DeletePoll(p) \/ CastVote(p)
    \/ UserWritten

Spec == Init /\ [][Next]_vars

\* Firestore answers or fails every query and the main queue is drained.
Fairness == WF_vars(Answer) /\ WF_vars(Callback)

FairSpec == Spec /\ Fairness

-----------------------------------------------------------------------------
(* Properties *)

\* Type invariant of the list, the queries and the callbacks.
TypeOK ==
    /\ polls \subseteq Polls /\ dead \subseteq Polls /\ ownPolls \subseteq Polls
    /\ userDoc \in BOOLEAN /\ voted \subseteq Polls /\ ownDoc \in BOOLEAN
    /\ appeared \in BOOLEAN
    /\ itemsDtc \in Seq(DataVoteCell)
    /\ adminStatus \in BOOLEAN
    /\ requests \subseteq VotesRequest \cup UserRequest
    /\ deletes \subseteq Deletion
    /\ mainQueue \in Seq(VotesAnswer \cup UserAnswer \cup DeleteAnswer)
    /\ reads \in Nat /\ swipes \in Nat
    /\ crashed \in BOOLEAN
    /\ expected \subseteq Polls /\ lost \subseteq Polls /\ undone \subseteq Polls
    /\ interrupted \in BOOLEAN /\ shifted \in BOOLEAN

Listed == {itemsDtc[k].UUID : k \in DOMAIN itemsDtc}

\* Unless the view was left in the middle of a read, no poll has two rows,
\* however the answers to the queries of a read are ordered.
NoPollTwice ==
    ~interrupted => \A j, k \in DOMAIN itemsDtc :
                       itemsDtc[j].UUID = itemsDtc[k].UUID => j = k

\* Once a read is through, the rows are exactly the polls it found, less those
\* whose row was deleted since and those whose query of Users failed or found
\* no document.  Whatever happens to the query of one poll, the rows of the
\* others are there.
ListMatchesRead == (~Reading /\ ~interrupted) => Listed = expected \ lost

\* One deletion at a time, confirmed before the view is left, takes off the
\* row of the poll it deleted and no other, and its index is in range: rows
\* that a running read appends meanwhile do not move it.
DeletedRowLeaves == ~shifted => undone = {} /\ ~crashed

\* Every poll a read found gets its row, and with it an administrator his
\* rights on screen, unless its query of Users fails or finds no document, the
\* row is taken off again or the app ends.
PollsGetListed ==
    \A p \in Polls : (p \in expected) ~>
        (\/ p \in Listed /\ adminStatus = Role
         \/ p \notin expected
         \/ p \in lost
         \/ crashed)
=============================================================================
