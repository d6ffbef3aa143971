----------------------------- MODULE VoteScreen -----------------------------
(***************************************************************************)
(* The screen of one poll: VoteView and VoteViewModel.reloadViewData on    *)
(* one device.                                                             *)
(*                                                                         *)
(* The view subscribes to its own selectRow and reloads at every emission; *)
(* a reload reads the poll, then the user's document, and emits selectRow  *)
(* again when the user has a vote in the poll.  A reload is therefore a    *)
(* chain that goes on for ever, also after the screen was left: the        *)
(* closures of viewWillAppear keep the view alive.                         *)
(*                                                                         *)
(* What taps do to the two documents is the subject of Ballot.  Here the   *)
(* documents are what the device sees of them: the user's record in this   *)
(* poll, and the poll's counters as a version number.                      *)
(***************************************************************************)
EXTENDS Integers, Sequences, FiniteSets

CONSTANTS
    Variants,           \* row numbers of the poll
    NoRow,              \* -1, the row before any is selected; also: no record
    Absent,             \* the poll is not in collection Votes
    MaxAppearances,     \* bound: calls of viewWillAppear on one view
    MaxTaps,            \* bound: taps
    MaxOthers,          \* bound: changes made on other devices
    MaxFailures,        \* bound: queries that fail
    MaxChains           \* bound: chains of reloads under way

ASSUME ValuesAssumption == NoRow \notin Variants /\ Absent \notin Nat
ASSUME BoundsAssumption ==
    {MaxAppearances, MaxTaps, MaxOthers, MaxFailures, MaxChains} \subseteq Nat

VARIABLES
    record,         \* the device's view of the user's record in this poll
    tally,          \* the device's view of the poll: a version of its counters
    visible,        \* whether the view is on the screen
    appearances,    \* calls of viewWillAppear, each with its subscriptions
    row,            \* the view's selectRow
    arr,            \* the view's arr: the version shown, Absent before any
    requests,       \* per query: how many of it are unanswered
    mainQueue,      \* answered queries whose callback has not run
    taps,           \* number of taps
    others,         \* number of changes on other devices
    failures,       \* number of failed queries
    emitted,        \* history: emissions of voteFirst and voteSecond
    surplus         \* history: reloads beyond one per emission

data   == <<record, tally>>
screen == <<visible, appearances, row, arr>>
vars   == <<record, tally, visible, appearances, row, arr, requests, mainQueue,
            taps, others, failures, emitted, surplus>>

-----------------------------------------------------------------------------
(* Queries *)

\* reloadViewData's two queries, and those of a tap on row index.
Reload   == [kind |-> "reload", index |-> NoRow]
Reread   == [kind |-> "reread", index |-> NoRow]
TapQuery == [kind : {"user", "first", "second"}, index : Variants]
Query    == {Reload, Reread} \cup TapQuery

AsksUsers(q) == q.kind \in {"reread", "user"}

\* Mutant: the two collections swapped.
SnapshotSwapped(q) == IF AsksUsers(q) THEN tally ELSE record

\* What Firestore answers a query with.
Snapshot(q) == IF AsksUsers(q) THEN record ELSE tally

Callback == [query : Query, seen : Variants \cup {NoRow, Absent} \cup Nat]

Ask(bag, q, n) == [bag EXCEPT ![q] = @ + n]

\* vm.selectRow is bound to the view's selectRow once per appearance, and each
\* value set there reaches one subscription per appearance.
Reloads(n) == n * n

InQueue(kind) == Cardinality({k \in DOMAIN mainQueue : mainQueue[k].query.kind = kind})

\* Reload chains that are under way.
Chains == requests[Reload] + requests[Reread] + InQueue("reload") + InQueue("reread")

-----------------------------------------------------------------------------
Init ==
    /\ record \in Variants \cup {NoRow}
    /\ tally = 0
    /\ visible = FALSE
    /\ appearances = 0
    /\ row = NoRow
    /\ arr = Absent
    /\ requests = [q \in Query |-> 0]
    /\ mainQueue = <<>>
    /\ taps = 0
    /\ others = 0
    /\ failures = 0
    /\ surplus = 0
    /\ emitted = 0

\* The new subscription to selectRow gets the current value and reloads; the
\* last line of viewWillAppear reloads once more.  A second call comes with a
\* swipe back that is given up.
ViewWillAppear ==
    /\ appearances < MaxAppearances
    /\ appearances = 0 \/ visible
    /\ Chains + 2 <= MaxChains
    /\ appearances' = appearances + 1
    /\ visible' = TRUE
    /\ requests' = Ask(requests, Reload, 2)
    /\ UNCHANGED <<data, row, arr, mainQueue, taps, others, failures, surplus, emitted>>

Leave ==
    /\ visible
    /\ visible' = FALSE
    /\ UNCHANGED <<data, appearances, row, arr, requests, mainQueue, taps, others,
                   failures, surplus, emitted>>

\* A row can be tapped once the table has rows.
DidSelectRow(i) ==
    /\ visible
    /\ arr # Absent
    /\ taps < MaxTaps
    /\ taps' = taps + 1
    /\ requests' = Ask(requests, [kind |-> "user", index |-> i], 1)
    /\ UNCHANGED <<data, screen, mainQueue, others, failures, surplus, emitted>>

\* Mutant: callbacks do not keep the order of the answers.
AnswerInFront(q) ==
    /\ requests[q] > 0
    /\ requests' = Ask(requests, q, -1)
    /\ mainQueue' = <<[query |-> q, seen |-> Snapshot(q)]>> \o mainQueue
    /\ UNCHANGED <<data, screen, taps, others, failures, surplus, emitted>>

Answer(q) ==
    /\ requests[q] > 0
    /\ requests' = Ask(requests, q, -1)
    /\ mainQueue' = Append(mainQueue, [query |-> q, seen |-> Snapshot(q)])
    /\ UNCHANGED <<data, screen, taps, others, failures, surplus, emitted>>

\* Every callback returns when there is an error.
FailRead(q) ==
    /\ failures < MaxFailures
    /\ requests[q] > 0
    /\ requests' = Ask(requests, q, -1)
    /\ failures' = failures + 1
    /\ UNCHANGED <<data, screen, mainQueue, taps, others, surplus, emitted>>

Runs(kind) == mainQueue # <<>> /\ Head(mainQueue).query.kind = kind

Fits(chains) == chains + Reloads(appearances) <= MaxChains

\* selectRow.onNext
Emit(i) ==
    /\ row' = i
    /\ requests' = Ask(requests, Reload, Reloads(appearances))
    /\ surplus' = surplus + Reloads(appearances) - 1

\* Mutant: arr is not published.
ReloadedUnpublished ==
    /\ Runs("reload")
    /\ mainQueue' = Tail(mainQueue)
    /\ requests' = Ask(requests, Reread, 1)
    /\ UNCHANGED <<data, screen, taps, others, failures, surplus, emitted>>

\* The user's document is asked for before arr is published.
Reloaded ==
    LET seen == Head(mainQueue).seen
    IN  /\ Runs("reload")
        /\ mainQueue' = Tail(mainQueue)
        /\ \/ seen = Absent /\ UNCHANGED <<requests, arr>>
           \/ /\ seen # Absent
              /\ requests' = Ask(requests, Reread, 1)
              /\ arr' = seen
        /\ UNCHANGED <<data, visible, appearances, row, taps, others, failures, surplus, emitted>>

\* Mutant: the row set without an emission.
RereadSilently ==
    /\ Runs("reread")
    /\ mainQueue' = Tail(mainQueue)
    /\ row' = IF Head(mainQueue).seen = NoRow THEN row ELSE Head(mainQueue).seen
    /\ UNCHANGED <<data, visible, appearances, arr, requests, taps, others, failures,
                   surplus, emitted>>

\* A user without a vote in the poll ends the chain.
RereadUser ==
    LET seen == Head(mainQueue).seen
    IN  /\ Runs("reread")
        /\ mainQueue' = Tail(mainQueue)
        /\ \/ seen = NoRow /\ UNCHANGED <<row, requests, surplus>>
           \/ seen # NoRow /\ Fits(Chains - 1) /\ Emit(seen)
        /\ UNCHANGED <<data, visible, appearances, arr, taps, others, failures, emitted>>

\* tabOnCell's callback: voteFirst writes the record at once, voteSecond later.
TapRead ==
    LET cb == Head(mainQueue)
        i  == cb.query.index
    IN  /\ Runs("user")
        /\ mainQueue' = Tail(mainQueue)
        /\ \/ /\ cb.seen = NoRow
              /\ record' = i
              /\ requests' = Ask(requests, [kind |-> "first", index |-> i], 1)
           \/ /\ cb.seen # NoRow
              /\ requests' = Ask(requests, [kind |-> "second", index |-> i], 1)
              /\ UNCHANGED record
        /\ UNCHANGED <<tally, screen, taps, others, failures, surplus, emitted>>

Counted == tally' = IF tally = Absent THEN Absent ELSE tally + 1

\* The row is emitted also when the poll is gone and nothing was written.
VoteFirst ==
    LET cb == Head(mainQueue)
    IN  /\ Runs("first")
        /\ mainQueue' = Tail(mainQueue)
        /\ \/ cb.seen = Absent /\ UNCHANGED tally
           \/ cb.seen # Absent /\ Counted
        /\ Fits(Chains)
        /\ Emit(cb.query.index)
        /\ emitted' = emitted + 1
        /\ UNCHANGED <<record, visible, appearances, arr, taps, others, failures>>

VoteSecond ==
    LET cb == Head(mainQueue)
    IN  /\ Runs("second")
        /\ mainQueue' = Tail(mainQueue)
        /\ \/ cb.seen = Absent /\ UNCHANGED data
           \/ cb.seen # Absent /\ Counted /\ record' = cb.query.index
        /\ Fits(Chains)
        /\ Emit(cb.query.index)
        /\ emitted' = emitted + 1
        /\ UNCHANGED <<visible, appearances, arr, taps, others, failures>>

\* Somebody else votes, or the same user does on another device.
VoteElsewhere ==
    /\ others < MaxOthers
    /\ tally # Absent
    /\ others' = others + 1
    /\ tally' = tally + 1
    /\ record' \in Variants \cup {record}
    /\ UNCHANGED <<screen, requests, mainQueue, taps, failures, surplus, emitted>>

DeletePoll ==
    /\ others < MaxOthers
    /\ tally # Absent
    /\ others' = others + 1
    /\ tally' = Absent
    /\ UNCHANGED <<record, screen, requests, mainQueue, taps, failures, surplus, emitted>>

RunCallback == Reloaded \/ RereadUser \/ TapRead \/ VoteFirst \/ VoteSecond

Next ==
    \/ ViewWillAppear
    \/ Leave
    \/ \E i \in Variants : DidSelectRow(i)
    \/ \E q \in Query : Answer(q) \/ FailRead(q)
    \/ Reloaded
    \/ RereadUser
    \/ TapRead
    \/ VoteFirst
    \/ VoteSecond
    \/ VoteElsewhere
    \/ DeletePoll

Spec == Init /\ [][Next]_vars

\* Firestore answers or fails every query, and the main queue is drained.
Fairness == WF_vars(RunCallback) /\ \A q \in Query : WF_vars(Answer(q))

FairSpec == Spec /\ Fairness
-----------------------------------------------------------------------------
(* Properties *)

\* Type invariant.
TypeOK ==
    /\ record \in Variants \cup {NoRow}
    /\ tally \in Nat \cup {Absent}
    /\ visible \in BOOLEAN
    /\ appearances \in 0 .. MaxAppearances
    /\ row \in Variants \cup {NoRow}
    /\ arr \in Nat \cup {Absent}
    /\ requests \in [Query -> Nat]
    /\ mainQueue \in Seq(Callback)
    /\ taps \in Nat /\ others \in Nat /\ failures \in Nat
    /\ surplus \in Nat /\ emitted \in Nat

\* Every finished tap leaves one more chain of reloads that only a failed
\* query or the end of the poll stops, whether or not the screen is still
\* shown; and with one appearance of the view there are never more chains than
\* the two that viewWillAppear starts and one per tap.
ChainsAccounted ==
    /\ Chains <= 2 * appearances + emitted + surplus
    /\ tally # Absent => emitted <= Chains + failures

\* The results on the screen never go back to older ones, however many
\* reloads overlap: answers are published in the order of their snapshots.
ShownNeverOlder == [][arr # Absent => arr' # Absent /\ arr <= arr']_vars

\* The bound on chains keeps the next callback from running.
CutOff == \/ Runs("reread") /\ ~Fits(Chains - 1)
          \/ (Runs("first") \/ Runs("second")) /\ ~Fits(Chains)

\* After the last vote, here or elsewhere, the screen comes to show the
\* results and the user's own vote, although voteSecond emits the new row while
\* chains under way still bring the old one; unless no chain is left: the
\* user never voted, the poll is gone, or queries failed.
ScreenCatchesUp == <>[](Chains = 0 \/ CutOff \/ (row = record /\ arr = tally))
=============================================================================
