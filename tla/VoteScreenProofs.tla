-------------------------- MODULE VoteScreenProofs --------------------------
(***************************************************************************)
(* Theorems about VoteScreen, for any poll and any number of appearances,  *)
(* taps, votes elsewhere and chains of reloads.                            *)
(***************************************************************************)
EXTENDS VoteScreen, TLAPS, SequenceTheorems, FiniteSetTheorems

-----------------------------------------------------------------------------
(* The inductive invariant *)

AsksPoll(q) == ~AsksUsers(q)

\* A callback brings what its query asked for.
Seen ==
    \A k \in DOMAIN mainQueue :
      /\ AsksUsers(mainQueue[k].query) => mainQueue[k].seen \in Variants \cup {NoRow}
      /\ AsksPoll(mainQueue[k].query) => mainQueue[k].seen \in Nat \cup {Absent}

\* Nothing is asked before the view first appears.
Begun ==
    appearances = 0 => /\ arr = Absent
                       /\ mainQueue = <<>>
                       /\ \A q \in Query : requests[q] = 0

\* The version shown, the versions in the queue and the present one are in
\* this order, and a poll that is gone stays gone.
PollBehind ==
    /\ tally # Absent /\ arr # Absent => arr <= tally
    /\ \A k \in DOMAIN mainQueue : AsksPoll(mainQueue[k].query) =>
         LET seen == mainQueue[k].seen
         IN  /\ tally # Absent => seen # Absent /\ seen <= tally
             /\ seen # Absent /\ arr # Absent => arr <= seen

PollOrder ==
    \A j, k \in DOMAIN mainQueue :
      /\ AsksPoll(mainQueue[j].query)
      /\ AsksPoll(mainQueue[k].query)
      /\ j < k
      /\ mainQueue[k].seen # Absent
      => mainQueue[j].seen # Absent /\ mainQueue[j].seen <= mainQueue[k].seen

Finishing(q) == q.kind \in {"first", "second"}

\* Until the user has a vote in the poll, no tap gets as far as its last query.
NotVoted ==
    record = NoRow =>
      /\ emitted = 0
      /\ \A q \in Query : Finishing(q) => requests[q] = 0
      /\ \A k \in DOMAIN mainQueue :
           /\ ~Finishing(mainQueue[k].query)
           /\ AsksUsers(mainQueue[k].query) => mainQueue[k].seen = NoRow

\* The chains that a callback without a vote is not about to end.
Continuing ==
    Cardinality({k \in DOMAIN mainQueue :
                   mainQueue[k].query.kind = "reread" /\ mainQueue[k].seen # NoRow})
Live == requests[Reload] + requests[Reread] + InQueue("reload") + Continuing

ChainsBelow == Chains <= 2 * appearances + emitted + surplus
ChainsAbove == tally # Absent => emitted <= Live + failures

IInv == /\ TypeOK
        /\ Seen
        /\ Begun
        /\ PollBehind
        /\ PollOrder
        /\ NotVoted
        /\ ChainsBelow
        /\ ChainsAbove

-----------------------------------------------------------------------------
(* Facts about the operators *)

\* Where a sequence holds a member of K, and how often.
Held(s, K)   == {k \in DOMAIN s : s[k] \in K}
Number(s, K) == Cardinality(Held(s, K))

LEMMA AppendAt ==
  ASSUME NEW S, NEW s \in Seq(S), NEW a
  PROVE  LET n == Len(s) + 1 IN
         /\ n \in Nat /\ n \notin DOMAIN s
         /\ \A k \in DOMAIN s : k \in Nat /\ k < n
         /\ DOMAIN Append(s, a) = DOMAIN s \cup {n}
         /\ Append(s, a)[n] = a
         /\ \A k \in DOMAIN s : Append(s, a)[k] = s[k]
OBVIOUS

LEMMA TailAt ==
  ASSUME NEW S, NEW s \in Seq(S), s # <<>>
  PROVE  /\ Head(s) = s[1] /\ 1 \in DOMAIN s /\ Head(s) \in S
         /\ Tail(s) \in Seq(S)
         /\ \A k \in DOMAIN Tail(s) : /\ k \in Nat /\ 1 < k + 1
                                      /\ k + 1 \in DOMAIN s
                                      /\ Tail(s)[k] = s[k + 1]
         /\ \A k \in DOMAIN s : k = 1 \/ (k \in Nat /\ k - 1 \in DOMAIN Tail(s))
OBVIOUS

LEMMA HeldFinite ==
  ASSUME NEW S, NEW s \in Seq(S), NEW K
  PROVE  IsFiniteSet(Held(s, K)) /\ Number(s, K) \in Nat
<1>1. Len(s) \in Nat /\ DOMAIN s = 1..Len(s)
  OBVIOUS
<1>2. IsFiniteSet(1..Len(s))
  BY <1>1, FS_Interval
<1>3. Held(s, K) \in SUBSET (1..Len(s))
  BY <1>1 DEF Held
<1>4. IsFiniteSet(Held(s, K))
  BY <1>2, <1>3, FS_Subset
<1> QED
  BY <1>4, FS_CardinalityType DEF Number

LEMMA NumberAppend ==
  ASSUME NEW S, NEW s \in Seq(S), NEW a, NEW K
  PROVE  Number(Append(s, a), K) = IF a \in K THEN Number(s, K) + 1 ELSE Number(s, K)
<1> DEFINE n == Len(s) + 1
           t == Append(s, a)
<1>1. /\ n \notin DOMAIN s /\ DOMAIN t = DOMAIN s \cup {n}
      /\ t[n] = a /\ \A k \in DOMAIN s : t[k] = s[k]
  BY AppendAt
<1> HIDE DEF n, t
<1>2. CASE a \in K
  <2>1. Held(t, K) = Held(s, K) \cup {n} /\ n \notin Held(s, K)
    BY <1>1, <1>2 DEF Held
  <2>2. Cardinality(Held(s, K) \cup {n}) = Cardinality(Held(s, K)) + 1
    BY <2>1, HeldFinite, FS_AddElement
  <2> QED
    BY <1>2, <2>1, <2>2 DEF Number, t
<1>3. CASE a \notin K
  <2>1. Held(t, K) = Held(s, K)
    BY <1>1, <1>3 DEF Held
  <2> QED
    BY <1>3, <2>1 DEF Number, t
<1> QED
  BY <1>2, <1>3

LEMMA NumberTail ==
  ASSUME NEW S, NEW s \in Seq(S), s # <<>>, NEW K
  PROVE  Number(s, K) = IF Head(s) \in K THEN Number(Tail(s), K) + 1 ELSE Number(Tail(s), K)
<1> DEFINE t == Tail(s)
           rest == Held(s, K) \ {1}
           f == [k \in Held(t, K) |-> k + 1]
<1>1. /\ Head(s) = s[1] /\ 1 \in DOMAIN s /\ t \in Seq(S)
      /\ \A k \in DOMAIN t : /\ k \in Nat /\ 1 < k + 1
                             /\ k + 1 \in DOMAIN s
                             /\ t[k] = s[k + 1]
      /\ \A k \in DOMAIN s : k = 1 \/ (k \in Nat /\ k - 1 \in DOMAIN t)
  BY TailAt
<1>2. IsFiniteSet(Held(s, K)) /\ IsFiniteSet(Held(t, K))
  BY <1>1, HeldFinite
<1> HIDE DEF t
<1>3. f \in Bijection(Held(t, K), rest)
  <2>1. f \in [Held(t, K) -> rest]
    BY <1>1 DEF Held
  <2>2. \A j, k \in Held(t, K) : f[j] = f[k] => j = k
    BY <1>1 DEF Held
  <2>3. \A k \in rest : \E j \in Held(t, K) : f[j] = k
    <3> SUFFICES ASSUME NEW k \in rest PROVE \E j \in Held(t, K) : f[j] = k
      OBVIOUS
    <3>1. /\ k \in DOMAIN s /\ k # 1 /\ k \in Nat /\ s[k] \in K /\ k - 1 \in DOMAIN t
          /\ (k - 1) + 1 = k
      BY <1>1 DEF Held
    <3>2. t[k - 1] = s[k]
      BY <1>1, <3>1
    <3>3. k - 1 \in Held(t, K)
      BY <3>1, <3>2 DEF Held
    <3>4. f[k - 1] = k
      BY <3>1, <3>3
    <3> QED
      BY <3>3, <3>4
  <2> HIDE DEF f, rest
  <2> QED
    BY <2>1, <2>2, <2>3 DEF Bijection, Injection, Surjection, IsInjective
<1>4. Cardinality(rest) = Cardinality(Held(t, K))
  BY <1>2, <1>3, FS_Bijection DEF ExistsBijection
<1>5. /\ Cardinality(rest) = IF 1 \in Held(s, K) THEN Cardinality(Held(s, K)) - 1
                                                ELSE Cardinality(Held(s, K))
  BY <1>2, FS_RemoveElement
<1>6. Cardinality(Held(s, K)) \in Nat
  BY HeldFinite DEF Number
<1>7. 1 \in Held(s, K) <=> Head(s) \in K
  BY <1>1 DEF Held
<1> HIDE DEF rest
<1> QED
  BY <1>4, <1>5, <1>6, <1>7 DEF Number, t

\* The queries and what tells them apart.
LEMMA Queries ==
  /\ Reload \in Query /\ Reread \in Query
  /\ \A q \in Query : /\ q.kind \in {"reload", "reread", "user", "first", "second"}
                      /\ q.kind = "reload" <=> q = Reload
                      /\ q.kind = "reread" <=> q = Reread
                      /\ q.kind \in {"user", "first", "second"} => q.index \in Variants
  /\ Reload # Reread
  /\ \A i \in Variants : \A k \in {"user", "first", "second"} :
       /\ [kind |-> k, index |-> i] \in Query
       /\ [kind |-> k, index |-> i] # Reload
       /\ [kind |-> k, index |-> i] # Reread
       /\ [kind |-> k, index |-> i].kind = k
<1>1. Reload.kind = "reload" /\ Reread.kind = "reread"
  BY DEF Reload, Reread
<1>2. ASSUME NEW q \in TapQuery
      PROVE  q.kind \in {"user", "first", "second"} /\ q.index \in Variants
  BY DEF TapQuery
<1>3. ASSUME NEW i \in Variants, NEW k \in {"user", "first", "second"}
      PROVE  [kind |-> k, index |-> i] \in TapQuery /\ [kind |-> k, index |-> i].kind = k
  BY DEF TapQuery
<1> QED
  BY <1>1, <1>2, <1>3 DEF Query

\* Asking changes the count of one query.
LEMMA Asking ==
  ASSUME NEW r \in [Query -> Nat], NEW q \in Query, NEW n \in Int
  PROVE  /\ DOMAIN Ask(r, q, n) = Query
         /\ Ask(r, q, n)[q] = r[q] + n
         /\ \A p \in Query : p # q => Ask(r, q, n)[p] = r[p]
         /\ n >= 0 - r[q] => Ask(r, q, n) \in [Query -> Nat]
BY DEF Ask

LEMMA AskingMore ==
  ASSUME NEW r \in [Query -> Nat], NEW q \in Query, NEW n \in Nat
  PROVE  /\ Ask(r, q, n) \in [Query -> Nat]
         /\ Ask(r, q, n)[q] = r[q] + n
         /\ \A p \in Query : p # q => Ask(r, q, n)[p] = r[p]
<1>1. r[q] \in Nat /\ n >= 0 - r[q]
  OBVIOUS
<1> QED
  BY <1>1, Asking

\* Each appearance multiplies.
LEMMA Squares ==
  ASSUME NEW n \in Nat
  PROVE  Reloads(n) \in Nat /\ (n # 0 => Reloads(n) >= 1)
BY DEF Reloads

\* The callback at the head of the queue.
LEMMA Popped ==
  ASSUME TypeOK, Seen, Begun, NEW kind, Runs(kind)
  PROVE  LET cb == Head(mainQueue) IN
         /\ mainQueue # <<>> /\ cb \in Callback /\ cb = mainQueue[1] /\ 1 \in DOMAIN mainQueue
         /\ cb.query \in Query /\ cb.query.kind = kind
         /\ kind \in {"user", "first", "second"} => cb.query.index \in Variants
         /\ kind \in {"reread", "user"} => cb.seen \in Variants \cup {NoRow}
         /\ kind \in {"reload", "first", "second"} => cb.seen \in Nat \cup {Absent}
         /\ appearances \in Nat /\ appearances # 0
<1>1. mainQueue # <<>> /\ mainQueue \in Seq(Callback) /\ Head(mainQueue).query.kind = kind
  BY DEF Runs, TypeOK
<1>2. /\ Head(mainQueue) = mainQueue[1] /\ 1 \in DOMAIN mainQueue
      /\ Head(mainQueue) \in Callback
  BY <1>1, TailAt
<1>3. Head(mainQueue).query \in Query
  BY <1>2 DEF Callback
<1>4. appearances \in Nat /\ appearances # 0
  BY <1>1, BoundsAssumption DEF TypeOK, Begun
<1>5. /\ kind \in {"reread", "user"} => Head(mainQueue).seen \in Variants \cup {NoRow}
      /\ kind \in {"reload", "first", "second"} => Head(mainQueue).seen \in Nat \cup {Absent}
  BY <1>1, <1>2 DEF Seen, AsksPoll, AsksUsers
<1> QED
  BY <1>1, <1>2, <1>3, <1>4, <1>5, Queries

\* selectRow.onNext asks again at least once.
LEMMA Emitting ==
  ASSUME TypeOK, appearances # 0, NEW i, Emit(i)
  PROVE  LET n == Reloads(appearances) IN
         /\ n \in Nat /\ n >= 1
         /\ requests' \in [Query -> Nat]
         /\ requests'[Reload] = requests[Reload] + n
         /\ \A q \in Query : q # Reload => requests'[q] = requests[q]
         /\ surplus' = surplus + n - 1 /\ surplus' \in Nat
         /\ row' = i
<1>1. appearances \in Nat
  BY BoundsAssumption DEF TypeOK
<1>2. Reloads(appearances) \in Nat /\ Reloads(appearances) >= 1
  BY <1>1, Squares
<1>3. requests \in [Query -> Nat] /\ Reload \in Query /\ surplus \in Nat
  BY Queries DEF TypeOK
<1> QED
  BY <1>2, <1>3, Asking DEF Emit

-----------------------------------------------------------------------------
(* What a step may do *)

LEMMA Outcomes ==
  ASSUME TypeOK, NEW q \in Query
  PROVE  /\ [query |-> q, seen |-> Snapshot(q)] \in Callback
         /\ AsksUsers(q) => Snapshot(q) = record
         /\ AsksPoll(q) => Snapshot(q) = tally
BY DEF TypeOK, Snapshot, Callback, AsksPoll

\* A failed or an answered query.
LEMMA Unasking ==
  ASSUME TypeOK, NEW q \in Query, requests[q] > 0, requests' = Ask(requests, q, -1)
  PROVE  /\ requests' \in [Query -> Nat]
         /\ requests'[q] = requests[q] - 1
         /\ \A p \in Query : p # q => requests'[p] = requests[p]
<1>1. requests \in [Query -> Nat]
  BY DEF TypeOK
<1>2. requests[q] \in Nat /\ -1 >= 0 - requests[q] /\ -1 \in Int
  BY <1>1
<1> QED
  BY <1>1, <1>2, Asking

LEMMA QueueSteps ==
  ASSUME TypeOK, Next
  PROVE  \/ UNCHANGED mainQueue
         \/ /\ \E q \in Query : mainQueue' = Append(mainQueue, [query |-> q, seen |-> Snapshot(q)])
            /\ UNCHANGED <<data, screen>>
         \/ mainQueue # <<>> /\ mainQueue' = Tail(mainQueue)
BY DEF Next, ViewWillAppear, Leave, DidSelectRow, Answer, FailRead, Reloaded, RereadUser,
       TapRead, VoteFirst, VoteSecond, VoteElsewhere, DeletePoll, Runs

LEMMA TallySteps ==
  ASSUME TypeOK, Next
  PROVE  \/ tally' = tally
         \/ tally' = Absent
         \/ tally # Absent /\ tally' = tally + 1
BY DEF Next, ViewWillAppear, Leave, DidSelectRow, Answer, FailRead, Reloaded, RereadUser,
       TapRead, VoteFirst, VoteSecond, VoteElsewhere, DeletePoll, Counted, data

LEMMA ShownSteps ==
  ASSUME TypeOK, Next
  PROVE  \/ UNCHANGED arr
         \/ /\ Runs("reload") /\ Head(mainQueue).seen # Absent
            /\ mainQueue' = Tail(mainQueue)
            /\ arr' = Head(mainQueue).seen
            /\ UNCHANGED tally
BY DEF Next, ViewWillAppear, Leave, DidSelectRow, Answer, FailRead, Reloaded, RereadUser,
       TapRead, VoteFirst, VoteSecond, VoteElsewhere, DeletePoll, screen, data

\* Each action keeps the type invariant.
LEMMA TypeStep ==
  ASSUME TypeOK, Seen, Begun, Next
  PROVE  TypeOK'
<1> USE DEF data, screen
<1>1. /\ requests \in [Query -> Nat] /\ mainQueue \in Seq(Callback)
      /\ appearances \in Nat /\ surplus \in Nat /\ emitted \in Nat
      /\ taps \in Nat /\ others \in Nat /\ failures \in Nat
  BY BoundsAssumption DEF TypeOK
<1>2. mainQueue' \in Seq(Callback)
  <2>1. CASE UNCHANGED mainQueue
    BY <1>1, <2>1
  <2>2. ASSUME NEW q \in Query, mainQueue' = Append(mainQueue, [query |-> q, seen |-> Snapshot(q)])
        PROVE  mainQueue' \in Seq(Callback)
    <3> DEFINE a == [query |-> q, seen |-> Snapshot(q)]
    <3>1. a \in Callback
      BY Outcomes
    <3> HIDE DEF a
    <3> QED
      BY <1>1, <2>2, <3>1 DEF a
  <2>3. CASE mainQueue # <<>> /\ mainQueue' = Tail(mainQueue)
    BY <1>1, <2>3, TailAt
  <2> QED
    BY <2>1, <2>2, <2>3, QueueSteps
<1>3. tally' \in Nat \cup {Absent}
  BY TallySteps DEF TypeOK
<1>4. arr' \in Nat \cup {Absent}
  <2>1. CASE Runs("reload") /\ arr' = Head(mainQueue).seen
    BY <2>1, Popped
  <2> QED
    BY <2>1, ShownSteps DEF TypeOK
<1>5. CASE ViewWillAppear
  <2>1. requests' \in [Query -> Nat]
    BY <1>1, <1>5, Queries, AskingMore DEF ViewWillAppear
  <2> QED
    BY <1>1, <1>5, <2>1, BoundsAssumption DEF ViewWillAppear, TypeOK
<1>6. CASE Leave
  BY <1>6 DEF Leave, TypeOK
<1>7. ASSUME NEW i \in Variants, DidSelectRow(i) PROVE TypeOK'
  <2>1. [kind |-> "user", index |-> i] \in Query
    BY Queries
  <2>2. requests' \in [Query -> Nat]
    BY <1>1, <1>7, <2>1, AskingMore DEF DidSelectRow
  <2> QED
    BY <1>1, <1>7, <2>2 DEF DidSelectRow, TypeOK
<1>8. ASSUME NEW q \in Query, Answer(q) PROVE TypeOK'
  <2>1. requests' \in [Query -> Nat]
    BY <1>8, Unasking DEF Answer
  <2> QED
    BY <1>2, <1>8, <2>1 DEF Answer, TypeOK
<1>9. ASSUME NEW q \in Query, FailRead(q) PROVE TypeOK'
  <2>1. requests' \in [Query -> Nat]
    BY <1>9, Unasking DEF FailRead
  <2> QED
    BY <1>1, <1>9, <2>1 DEF FailRead, TypeOK
<1>10. CASE Reloaded
  <2>1. requests' \in [Query -> Nat]
    <3>1. requests' = requests \/ requests' = Ask(requests, Reread, 1)
      BY <1>10 DEF Reloaded
    <3>2. Ask(requests, Reread, 1) \in [Query -> Nat]
      BY <1>1, Queries, AskingMore
    <3> QED
      BY <1>1, <3>1, <3>2
  <2> QED
    BY <1>2, <1>4, <1>10, <2>1 DEF Reloaded, TypeOK
<1>11. CASE RereadUser
  <2> DEFINE seen == Head(mainQueue).seen
  <2>1. seen \in Variants \cup {NoRow} /\ appearances # 0
    BY <1>11, Popped DEF RereadUser
  <2>2. CASE seen = NoRow /\ UNCHANGED <<row, requests, surplus>>
    BY <1>2, <1>11, <2>2 DEF RereadUser, TypeOK
  <2>3. CASE Emit(seen)
    <3> HIDE DEF seen
    <3>1. requests' \in [Query -> Nat] /\ surplus' \in Nat /\ row' = seen
      BY <2>1, <2>3, Emitting
    <3> QED
      BY <1>2, <1>11, <2>1, <3>1 DEF RereadUser, TypeOK
  <2> QED
    BY <1>11, <2>2, <2>3 DEF RereadUser
<1>12. CASE TapRead
  <2> DEFINE i == Head(mainQueue).query.index
  <2>1. i \in Variants
    BY <1>12, Popped DEF TapRead
  <2>2. /\ [kind |-> "first", index |-> i] \in Query
        /\ [kind |-> "second", index |-> i] \in Query
    BY <2>1, Queries
  <2>3. requests' \in [Query -> Nat]
    <3>1. \/ requests' = Ask(requests, [kind |-> "first", index |-> i], 1)
          \/ requests' = Ask(requests, [kind |-> "second", index |-> i], 1)
      BY <1>12 DEF TapRead
    <3> HIDE DEF i
    <3>2. /\ Ask(requests, [kind |-> "first", index |-> i], 1) \in [Query -> Nat]
          /\ Ask(requests, [kind |-> "second", index |-> i], 1) \in [Query -> Nat]
      BY <1>1, <2>2, AskingMore
    <3> QED
      BY <3>1, <3>2
  <2>4. record' \in Variants \cup {NoRow}
    BY <1>12, <2>1 DEF TapRead, TypeOK
  <2> QED
    BY <1>2, <1>12, <2>3, <2>4 DEF TapRead, TypeOK
<1>13. ASSUME VoteFirst \/ VoteSecond PROVE TypeOK'
  <2> DEFINE i == Head(mainQueue).query.index
  <2>1. i \in Variants /\ appearances # 0
    BY <1>13, Popped DEF VoteFirst, VoteSecond
  <2>2. Emit(i)
    BY <1>13 DEF VoteFirst, VoteSecond
  <2> HIDE DEF i
  <2>3. requests' \in [Query -> Nat] /\ surplus' \in Nat /\ row' = i
    BY <2>1, <2>2, Emitting
  <2>4. record' \in Variants \cup {NoRow}
    BY <1>13, <2>1 DEF VoteFirst, VoteSecond, TypeOK, i
  <2>5. /\ emitted' = emitted + 1
        /\ UNCHANGED <<visible, appearances, arr, taps, others, failures>>
    BY <1>13 DEF VoteFirst, VoteSecond
  <2> QED
    BY <1>1, <1>2, <1>3, <2>1, <2>3, <2>4, <2>5 DEF TypeOK
<1>14. CASE VoteElsewhere
  BY <1>1, <1>3, <1>14 DEF VoteElsewhere, TypeOK
<1>15. CASE DeletePoll
  BY <1>1, <1>3, <1>15 DEF DeletePoll, TypeOK
<1> QED
  BY <1>5, <1>6, <1>7, <1>8, <1>9, <1>10, <1>11, <1>12, <1>13, <1>14, <1>15 DEF Next

\* Each action keeps the order of the versions.
LEMMA SeenStep ==
  ASSUME TypeOK, Seen, Next
  PROVE  Seen'
<1>1. mainQueue \in Seq(Callback)
  BY DEF TypeOK
<1>2. CASE UNCHANGED mainQueue
  BY <1>2 DEF Seen
<1>3. ASSUME NEW q \in Query, mainQueue' = Append(mainQueue, [query |-> q, seen |-> Snapshot(q)])
      PROVE  Seen'
  <2> DEFINE a == [query |-> q, seen |-> Snapshot(q)]
             n == Len(mainQueue) + 1
  <2>1. /\ AsksUsers(a.query) => a.seen \in Variants \cup {NoRow}
        /\ AsksPoll(a.query) => a.seen \in Nat \cup {Absent}
    BY Outcomes DEF TypeOK
  <2> HIDE DEF a
  <2>2. /\ DOMAIN mainQueue' = DOMAIN mainQueue \cup {n} /\ mainQueue'[n] = a
        /\ \A k \in DOMAIN mainQueue : mainQueue'[k] = mainQueue[k]
    BY <1>1, <1>3, AppendAt DEF a
  <2> HIDE DEF n
  <2> QED
    BY <2>1, <2>2 DEF Seen
<1>4. CASE mainQueue # <<>> /\ mainQueue' = Tail(mainQueue)
  <2>1. \A k \in DOMAIN mainQueue' : /\ k + 1 \in DOMAIN mainQueue
                                     /\ mainQueue'[k] = mainQueue[k + 1]
    BY <1>1, <1>4, TailAt
  <2> QED
    BY <2>1 DEF Seen
<1> QED
  BY <1>2, <1>3, <1>4, QueueSteps

LEMMA BegunStep ==
  ASSUME TypeOK, Begun, Next
  PROVE  Begun'
<1>1. SUFFICES ASSUME appearances' = 0 PROVE Begun'
  BY DEF Begun
<1>2. ~ViewWillAppear
  BY <1>1, BoundsAssumption DEF ViewWillAppear, TypeOK
<1>3. appearances = 0
  BY <1>1, <1>2 DEF Next, Leave, DidSelectRow, Answer, FailRead, Reloaded, RereadUser,
       TapRead, VoteFirst, VoteSecond, VoteElsewhere, DeletePoll, screen
<1>4. arr = Absent /\ mainQueue = <<>> /\ \A q \in Query : requests[q] = 0
  BY <1>3 DEF Begun
<1> QED
  BY <1>2, <1>4 DEF Next, Begun, Leave, DidSelectRow, Answer, FailRead, Reloaded, RereadUser,
       TapRead, VoteFirst, VoteSecond, VoteElsewhere, DeletePoll, screen, Runs

LEMMA PollBehindStep ==
  ASSUME TypeOK, Seen, Begun, PollBehind, PollOrder, Next
  PROVE  PollBehind'
<1>1. mainQueue \in Seq(Callback) /\ tally \in Nat \cup {Absent} /\ arr \in Nat \cup {Absent}
  BY DEF TypeOK
<1>2. \A k \in DOMAIN mainQueue : AsksPoll(mainQueue[k].query) =>
        mainQueue[k].seen \in Nat \cup {Absent}
  BY DEF Seen
<1>3. /\ tally' # Absent => tally # Absent /\ tally' \in Nat /\ tally <= tally'
  BY <1>1, TallySteps, ValuesAssumption
<1>4. CASE UNCHANGED arr
  <2>1. tally' # Absent /\ arr' # Absent => arr' <= tally'
    BY <1>1, <1>3, <1>4 DEF PollBehind
  <2>2. ASSUME NEW k \in DOMAIN mainQueue, AsksPoll(mainQueue[k].query)
        PROVE  /\ tally' # Absent => mainQueue[k].seen # Absent /\ mainQueue[k].seen <= tally'
               /\ mainQueue[k].seen # Absent /\ arr' # Absent => arr' <= mainQueue[k].seen
    BY <1>1, <1>2, <1>3, <1>4, <2>2 DEF PollBehind
  <2>3. CASE UNCHANGED mainQueue
    BY <2>1, <2>2, <2>3 DEF PollBehind
  <2>4. ASSUME NEW q \in Query, UNCHANGED tally,
               mainQueue' = Append(mainQueue, [query |-> q, seen |-> Snapshot(q)])
        PROVE  PollBehind'
    <3> DEFINE a == [query |-> q, seen |-> Snapshot(q)]
               n == Len(mainQueue) + 1
    <3>1. AsksPoll(a.query) => a.seen = tally
      BY Outcomes
    <3> HIDE DEF a
    <3>2. /\ DOMAIN mainQueue' = DOMAIN mainQueue \cup {n} /\ mainQueue'[n] = a
          /\ \A k \in DOMAIN mainQueue : mainQueue'[k] = mainQueue[k]
      BY <1>1, <2>4, AppendAt DEF a
    <3> HIDE DEF n
    <3>3. AsksPoll(mainQueue'[n].query) =>
            /\ tally' # Absent => mainQueue'[n].seen # Absent /\ mainQueue'[n].seen <= tally'
            /\ mainQueue'[n].seen # Absent /\ arr' # Absent => arr' <= mainQueue'[n].seen
      BY <1>1, <1>4, <2>4, <3>1, <3>2 DEF PollBehind
    <3> QED
      BY <2>1, <2>2, <3>2, <3>3 DEF PollBehind
  <2>5. CASE mainQueue # <<>> /\ mainQueue' = Tail(mainQueue)
    <3>1. \A k \in DOMAIN mainQueue' : /\ k + 1 \in DOMAIN mainQueue
                                       /\ mainQueue'[k] = mainQueue[k + 1]
      BY <1>1, <2>5, TailAt
    <3> QED
      BY <2>1, <2>2, <3>1 DEF PollBehind
  <2> QED
    BY <2>3, <2>4, <2>5, QueueSteps DEF data
<1>5. CASE /\ Runs("reload") /\ Head(mainQueue).seen # Absent
           /\ mainQueue' = Tail(mainQueue)
           /\ arr' = Head(mainQueue).seen
           /\ UNCHANGED tally
  <2>1. /\ mainQueue # <<>> /\ Head(mainQueue) = mainQueue[1] /\ 1 \in DOMAIN mainQueue
        /\ AsksPoll(mainQueue[1].query)
    BY <1>5, Popped DEF AsksPoll, AsksUsers
  <2>2. tally' # Absent /\ arr' # Absent => arr' <= tally'
    BY <1>5, <2>1 DEF PollBehind
  <2>3. \A k \in DOMAIN mainQueue' : /\ k + 1 \in DOMAIN mainQueue /\ 1 < k + 1
                                     /\ mainQueue'[k] = mainQueue[k + 1]
    BY <1>1, <1>5, <2>1, TailAt
  <2>4. ASSUME NEW k \in DOMAIN mainQueue, 1 < k, AsksPoll(mainQueue[k].query)
        PROVE  /\ tally' # Absent => mainQueue[k].seen # Absent /\ mainQueue[k].seen <= tally'
               /\ mainQueue[k].seen # Absent /\ arr' # Absent => arr' <= mainQueue[k].seen
    <3>1. mainQueue[k].seen # Absent => mainQueue[1].seen <= mainQueue[k].seen
      BY <2>1, <2>4 DEF PollOrder
    <3> QED
      BY <1>5, <2>1, <2>4, <3>1 DEF PollBehind
  <2> QED
    BY <2>2, <2>3, <2>4 DEF PollBehind
<1> QED
  BY <1>4, <1>5, ShownSteps

LEMMA PollOrderStep ==
  ASSUME TypeOK, PollBehind, PollOrder, Next
  PROVE  PollOrder'
<1>1. mainQueue \in Seq(Callback)
  BY DEF TypeOK
<1>2. CASE UNCHANGED mainQueue
  BY <1>2 DEF PollOrder
<1>3. ASSUME NEW q \in Query, UNCHANGED tally,
             mainQueue' = Append(mainQueue, [query |-> q, seen |-> Snapshot(q)])
      PROVE  PollOrder'
  <2> DEFINE a == [query |-> q, seen |-> Snapshot(q)]
             n == Len(mainQueue) + 1
  <2>1. AsksPoll(a.query) => a.seen = tally
    BY Outcomes
  <2> HIDE DEF a
  <2>2. /\ DOMAIN mainQueue' = DOMAIN mainQueue \cup {n} /\ mainQueue'[n] = a
        /\ \A k \in DOMAIN mainQueue : mainQueue'[k] = mainQueue[k]
        /\ n \in Nat /\ n \notin DOMAIN mainQueue
        /\ \A k \in DOMAIN mainQueue : k \in Nat /\ k < n
    BY <1>1, <1>3, AppendAt DEF a
  <2> HIDE DEF n
  <2>3. \A k \in DOMAIN mainQueue : ~ (n < k) /\ ~ (n < n)
    BY <2>2
  <2>4. \A j \in DOMAIN mainQueue : AsksPoll(mainQueue[j].query) /\ AsksPoll(a.query) /\ a.seen # Absent
          => mainQueue[j].seen # Absent /\ mainQueue[j].seen <= a.seen
    BY <2>1 DEF PollBehind
  <2> QED
    BY <2>2, <2>3, <2>4 DEF PollOrder
<1>4. CASE mainQueue # <<>> /\ mainQueue' = Tail(mainQueue)
  <2>1. \A k \in DOMAIN mainQueue' : /\ k \in Nat /\ k + 1 \in DOMAIN mainQueue
                                     /\ mainQueue'[k] = mainQueue[k + 1]
    BY <1>1, <1>4, TailAt
  <2>2. \A j, k \in DOMAIN mainQueue' : j < k => j + 1 < k + 1
    BY <2>1
  <2> QED
    BY <2>1, <2>2 DEF PollOrder
<1> QED
  BY <1>2, <1>3, <1>4, QueueSteps DEF data

\* Each action keeps a user who has not voted without a finished tap.
LEMMA NotVotedStep ==
  ASSUME TypeOK, Seen, Begun, NotVoted, Next
  PROVE  NotVoted'
<1> USE DEF data, screen
<1>1. SUFFICES ASSUME record' = NoRow PROVE NotVoted'
  BY DEF NotVoted
<1>2. record = NoRow
  BY <1>1, ValuesAssumption, Popped
  DEF Next, ViewWillAppear, Leave, DidSelectRow, Answer, FailRead, Reloaded, RereadUser,
      TapRead, VoteFirst, VoteSecond, VoteElsewhere, DeletePoll
<1>3. /\ emitted = 0
      /\ \A q \in Query : Finishing(q) => requests[q] = 0
      /\ \A k \in DOMAIN mainQueue :
           /\ ~Finishing(mainQueue[k].query)
           /\ AsksUsers(mainQueue[k].query) => mainQueue[k].seen = NoRow
  BY <1>2 DEF NotVoted
<1>4. mainQueue \in Seq(Callback) /\ requests \in [Query -> Nat]
  BY DEF TypeOK
<1>5. ~VoteFirst /\ ~VoteSecond
  BY <1>3, Popped DEF VoteFirst, VoteSecond, Finishing
<1>6. ~TapRead
  <2>1. ASSUME TapRead PROVE FALSE
    <3>1. Runs("user")
      BY <2>1 DEF TapRead
    <3>2. /\ Head(mainQueue) = mainQueue[1] /\ 1 \in DOMAIN mainQueue
          /\ AsksUsers(mainQueue[1].query)
          /\ Head(mainQueue).query.index \in Variants
      BY <3>1, Popped DEF AsksUsers
    <3>3. record' = Head(mainQueue).query.index
      BY <1>3, <2>1, <3>2 DEF TapRead
    <3> QED
      BY <1>1, <3>2, <3>3, ValuesAssumption
  <2> QED
    BY <2>1
<1>7. emitted' = 0
  BY <1>3, <1>5
  DEF Next, ViewWillAppear, Leave, DidSelectRow, Answer, FailRead, Reloaded, RereadUser,
      TapRead, VoteElsewhere, DeletePoll
<1>8. \A q \in Query : Finishing(q) => requests'[q] = 0
  <2> SUFFICES ASSUME NEW q \in Query, Finishing(q) PROVE requests'[q] = 0
    OBVIOUS
  <2>1. q # Reload /\ q # Reread /\ requests[q] = 0
    BY <1>3 DEF Finishing, Reload, Reread
  <2>2. CASE ViewWillAppear
    <3>1. requests' = Ask(requests, Reload, 2) /\ 2 \in Nat /\ Reload \in Query
      BY <2>2, Queries DEF ViewWillAppear
    <3>2. Ask(requests, Reload, 2)[q] = requests[q]
      BY <1>4, <2>1, <3>1, AskingMore
    <3> QED
      BY <2>1, <3>1, <3>2
  <2>3. ASSUME NEW i \in Variants, DidSelectRow(i) PROVE requests'[q] = 0
    <3> DEFINE p == [kind |-> "user", index |-> i]
    <3>1. p \in Query /\ p # q
      BY Queries DEF Finishing
    <3>2. requests' = Ask(requests, p, 1)
      BY <2>3 DEF DidSelectRow
    <3> HIDE DEF p
    <3> QED
      BY <1>4, <2>1, <3>1, <3>2, AskingMore
  <2>4. ASSUME NEW p \in Query, Answer(p) \/ FailRead(p) PROVE requests'[q] = 0
    <3>1. requests[p] > 0 /\ requests' = Ask(requests, p, -1)
      BY <2>4 DEF Answer, FailRead
    <3>2. p # q
      BY <2>1, <3>1
    <3> QED
      BY <2>1, <3>1, <3>2, Unasking
  <2>5. CASE Reloaded
    <3>1. requests' = requests \/ requests' = Ask(requests, Reread, 1)
      BY <2>5 DEF Reloaded
    <3>2. 1 \in Nat /\ Reread \in Query
      BY Queries
    <3>3. Ask(requests, Reread, 1)[q] = requests[q]
      BY <1>4, <2>1, <3>2, AskingMore
    <3> QED
      BY <2>1, <3>1, <3>3
  <2>6. CASE RereadUser
    <3>1. appearances # 0
      BY <2>6, Popped DEF RereadUser
    <3>2. requests' = requests \/ Emit(Head(mainQueue).seen)
      BY <2>6 DEF RereadUser
    <3> QED
      BY <2>1, <3>1, <3>2, Emitting
  <2>7. CASE Leave \/ VoteElsewhere \/ DeletePoll
    BY <2>1, <2>7 DEF Leave, VoteElsewhere, DeletePoll
  <2> QED
    BY <1>5, <1>6, <2>2, <2>3, <2>4, <2>5, <2>6, <2>7 DEF Next
<1>9. ASSUME NEW k \in DOMAIN mainQueue'
      PROVE  /\ ~Finishing(mainQueue'[k].query)
             /\ AsksUsers(mainQueue'[k].query) => mainQueue'[k].seen = NoRow
  <2>1. CASE UNCHANGED mainQueue
    BY <1>3, <2>1
  <2>2. ASSUME NEW q \in Query, Answer(q)
        PROVE  /\ ~Finishing(mainQueue'[k].query)
               /\ AsksUsers(mainQueue'[k].query) => mainQueue'[k].seen = NoRow
    <3> DEFINE a == [query |-> q, seen |-> Snapshot(q)]
               n == Len(mainQueue) + 1
    <3>1. requests[q] > 0 /\ ~Finishing(q)
      BY <1>3, <2>2 DEF Answer
    <3>2. ~Finishing(a.query) /\ (AsksUsers(a.query) => a.seen = NoRow)
      BY <1>2, <3>1, Outcomes
    <3> HIDE DEF a
    <3>3. /\ DOMAIN mainQueue' = DOMAIN mainQueue \cup {n} /\ mainQueue'[n] = a
          /\ \A j \in DOMAIN mainQueue : mainQueue'[j] = mainQueue[j]
      BY <1>4, <2>2, AppendAt DEF a, Answer
    <3> HIDE DEF n
    <3> QED
      BY <1>3, <3>2, <3>3
  <2>3. CASE mainQueue # <<>> /\ mainQueue' = Tail(mainQueue)
    <3>1. k + 1 \in DOMAIN mainQueue /\ mainQueue'[k] = mainQueue[k + 1]
      BY <1>4, <2>3, TailAt
    <3> QED
      BY <1>3, <3>1
  <2> QED
    BY <2>1, <2>2, <2>3
    DEF Next, ViewWillAppear, Leave, DidSelectRow, FailRead, Reloaded, RereadUser,
        TapRead, VoteFirst, VoteSecond, VoteElsewhere, DeletePoll, Runs
<1> QED
  BY <1>7, <1>8, <1>9 DEF NotVoted

-----------------------------------------------------------------------------
(* Counting chains *)

ReloadAnswers == {cb \in Callback : cb.query.kind = "reload"}
RereadAnswers == {cb \in Callback : cb.query.kind = "reread"}
VotedAnswers  == {cb \in Callback : cb.query.kind = "reread" /\ cb.seen # NoRow}

\* The counts of the model, as counts of members.
LEMMA CountsOf ==
  ASSUME NEW s \in Seq(Callback)
  PROVE  /\ {k \in DOMAIN s : s[k].query.kind = "reload"} = Held(s, ReloadAnswers)
         /\ {k \in DOMAIN s : s[k].query.kind = "reread"} = Held(s, RereadAnswers)
         /\ {k \in DOMAIN s : s[k].query.kind = "reread" /\ s[k].seen # NoRow}
              = Held(s, VotedAnswers)
<1>1. \A k \in DOMAIN s : s[k] \in Callback
  OBVIOUS
<1> QED
  BY <1>1 DEF Held, ReloadAnswers, RereadAnswers, VotedAnswers

LEMMA Counts ==
  ASSUME TypeOK
  PROVE  /\ InQueue("reload") = Number(mainQueue, ReloadAnswers)
         /\ InQueue("reread") = Number(mainQueue, RereadAnswers)
         /\ Continuing = Number(mainQueue, VotedAnswers)
         /\ InQueue("reload") \in Nat /\ InQueue("reread") \in Nat /\ Continuing \in Nat
         /\ Continuing <= InQueue("reread")
         /\ requests[Reload] \in Nat /\ requests[Reread] \in Nat
<1>1. mainQueue \in Seq(Callback) /\ requests \in [Query -> Nat]
  BY DEF TypeOK
<1>4. /\ InQueue("reload") = Number(mainQueue, ReloadAnswers)
      /\ InQueue("reread") = Number(mainQueue, RereadAnswers)
      /\ Continuing = Number(mainQueue, VotedAnswers)
  BY <1>1, CountsOf DEF InQueue, Continuing, Number
<1>5. Number(mainQueue, VotedAnswers) <= Number(mainQueue, RereadAnswers)
  <2>1. Held(mainQueue, VotedAnswers) \in SUBSET Held(mainQueue, RereadAnswers)
    BY DEF Held, VotedAnswers, RereadAnswers
  <2>2. IsFiniteSet(Held(mainQueue, RereadAnswers))
    BY <1>1, HeldFinite
  <2> QED
    BY <2>1, <2>2, FS_Subset DEF Number
<1>6. /\ Number(mainQueue, ReloadAnswers) \in Nat
      /\ Number(mainQueue, RereadAnswers) \in Nat
      /\ Number(mainQueue, VotedAnswers) \in Nat
  BY <1>1, HeldFinite
<1>7. requests[Reload] \in Nat /\ requests[Reread] \in Nat
  BY <1>1, Queries
<1> QED
  BY <1>4, <1>5, <1>6, <1>7

\* An answer moves its query into the queue.
LEMMA CountsAppend ==
  ASSUME TypeOK, TypeOK', NEW q \in Query,
         mainQueue' = Append(mainQueue, [query |-> q, seen |-> Snapshot(q)])
  PROVE  /\ InQueue("reload")' = IF q = Reload THEN InQueue("reload") + 1 ELSE InQueue("reload")
         /\ InQueue("reread")' = IF q = Reread THEN InQueue("reread") + 1 ELSE InQueue("reread")
         /\ Continuing' = IF q = Reread /\ record # NoRow THEN Continuing + 1 ELSE Continuing
<1> DEFINE a == [query |-> q, seen |-> Snapshot(q)]
<1>1. /\ a \in Callback /\ a.query = q
      /\ a.query.kind = "reload" <=> q = Reload
      /\ a.query.kind = "reread" <=> q = Reread
      /\ q = Reread => a.seen = record
  BY Outcomes, Queries DEF AsksUsers
<1>2. mainQueue \in Seq(Callback) /\ mainQueue' = Append(mainQueue, a)
  BY DEF TypeOK
<1> HIDE DEF a
<1>3. /\ a \in ReloadAnswers <=> q = Reload
      /\ a \in RereadAnswers <=> q = Reread
      /\ a \in VotedAnswers <=> q = Reread /\ record # NoRow
  BY <1>1 DEF ReloadAnswers, RereadAnswers, VotedAnswers
<1>4. \A K : Number(mainQueue', K)
               = IF a \in K THEN Number(mainQueue, K) + 1 ELSE Number(mainQueue, K)
  BY <1>2, NumberAppend
<1>5. /\ InQueue("reload")' = Number(mainQueue', ReloadAnswers)
      /\ InQueue("reread")' = Number(mainQueue', RereadAnswers)
      /\ Continuing' = Number(mainQueue', VotedAnswers)
  <2>1. mainQueue' \in Seq(Callback)
    BY DEF TypeOK
  <2> QED
    BY <2>1, CountsOf DEF InQueue, Continuing, Number
<1> QED
  BY <1>3, <1>4, <1>5, Counts

\* A callback that runs leaves the queue.
LEMMA CountsTail ==
  ASSUME TypeOK, TypeOK', mainQueue # <<>>, mainQueue' = Tail(mainQueue)
  PROVE  LET cb == Head(mainQueue) IN
         /\ InQueue("reload")' = IF cb.query.kind = "reload" THEN InQueue("reload") - 1
                                                             ELSE InQueue("reload")
         /\ InQueue("reread")' = IF cb.query.kind = "reread" THEN InQueue("reread") - 1
                                                             ELSE InQueue("reread")
         /\ Continuing' = IF cb.query.kind = "reread" /\ cb.seen # NoRow THEN Continuing - 1
                                                                         ELSE Continuing
<1> DEFINE cb == Head(mainQueue)
<1>1. mainQueue \in Seq(Callback) /\ cb \in Callback
  BY TailAt DEF TypeOK
<1>2. \A K : Number(mainQueue', K)
               = IF cb \in K THEN Number(mainQueue, K) - 1 ELSE Number(mainQueue, K)
  <2> SUFFICES ASSUME NEW K
               PROVE  Number(mainQueue', K)
                        = IF cb \in K THEN Number(mainQueue, K) - 1 ELSE Number(mainQueue, K)
    OBVIOUS
  <2> DEFINE n == Number(mainQueue, K)
             m == Number(mainQueue', K)
  <2>1. mainQueue' \in Seq(Callback)
    BY DEF TypeOK
  <2>2. n \in Nat /\ m \in Nat
    BY <1>1, <2>1, HeldFinite
  <2>3. n = IF cb \in K THEN m + 1 ELSE m
    BY <1>1, NumberTail
  <2> QED
    BY <2>2, <2>3
<1> HIDE DEF cb
<1>3. /\ cb \in ReloadAnswers <=> cb.query.kind = "reload"
      /\ cb \in RereadAnswers <=> cb.query.kind = "reread"
      /\ cb \in VotedAnswers <=> cb.query.kind = "reread" /\ cb.seen # NoRow
  BY <1>1 DEF ReloadAnswers, RereadAnswers, VotedAnswers
<1>4. /\ InQueue("reload")' = Number(mainQueue', ReloadAnswers)
      /\ InQueue("reread")' = Number(mainQueue', RereadAnswers)
      /\ Continuing' = Number(mainQueue', VotedAnswers)
  <2>1. mainQueue' \in Seq(Callback)
    BY DEF TypeOK
  <2> QED
    BY <2>1, CountsOf DEF InQueue, Continuing, Number
<1> QED
  BY <1>2, <1>3, <1>4, Counts DEF cb

\* Each action keeps the two bounds on chains.
LEMMA ChainsStep ==
  ASSUME TypeOK, TypeOK', Seen, Begun, PollBehind, NotVoted, ChainsBelow, ChainsAbove, Next
  PROVE  ChainsBelow' /\ ChainsAbove'
<1> USE DEF data, screen
<1> DEFINE r == requests[Reload]
           s == requests[Reread]
           x == InQueue("reload")
           y == InQueue("reread")
           z == Continuing
           Below == r' + s' + x' + y' <= 2 * appearances' + emitted' + surplus'
           Above == tally' # Absent => emitted' <= r' + s' + x' + z' + failures'
<1>1. /\ r \in Nat /\ s \in Nat /\ x \in Nat /\ y \in Nat /\ z \in Nat
      /\ requests \in [Query -> Nat]
  BY Counts DEF TypeOK
<1>2. /\ r + s + x + y <= 2 * appearances + emitted + surplus
      /\ tally # Absent => emitted <= r + s + x + z + failures
  BY DEF ChainsBelow, ChainsAbove, Chains, Live
<1>3. /\ appearances \in Nat /\ emitted \in Nat /\ surplus \in Nat /\ failures \in Nat
  BY BoundsAssumption DEF TypeOK
<1>4. /\ r' \in Nat /\ s' \in Nat /\ x' \in Nat /\ y' \in Nat /\ z' \in Nat
  <2>1. mainQueue' \in Seq(Callback) /\ requests' \in [Query -> Nat]
    BY DEF TypeOK
  <2>2. x' \in Nat /\ y' \in Nat /\ z' \in Nat
    BY <2>1, CountsOf, HeldFinite, ZenonT(60) DEF InQueue, Continuing, Number
  <2> QED
    BY <2>1, <2>2, Queries
<1>5. SUFFICES Below /\ Above
  BY DEF ChainsBelow, ChainsAbove, Chains, Live
<1>6. tally' # Absent => tally # Absent
  BY TallySteps
<1>7. UNCHANGED mainQueue => UNCHANGED <<x, y, z>>
  BY DEF InQueue, Continuing
<1>8. UNCHANGED requests => UNCHANGED <<r, s>>
  OBVIOUS
<1>9. Reload \in Query /\ Reread \in Query /\ Reload # Reread
  BY Queries
<1> HIDE DEF x, y, z
<1>10. CASE ViewWillAppear
  <2>1. r' = r + 2 /\ s' = s
    BY <1>1, <1>9, <1>10, AskingMore DEF ViewWillAppear
  <2> HIDE DEF r, s
  <2> QED
    BY <1>1, <1>2, <1>3, <1>4, <1>6, <1>7, <1>10, <2>1 DEF ViewWillAppear
<1>11. CASE Leave \/ VoteElsewhere \/ DeletePoll
  <2> HIDE DEF r, s
  <2> QED
    BY <1>1, <1>2, <1>3, <1>4, <1>6, <1>7, <1>8, <1>11 DEF Leave, VoteElsewhere, DeletePoll
<1>12. ASSUME NEW i \in Variants, DidSelectRow(i) PROVE Below /\ Above
  <2> DEFINE q == [kind |-> "user", index |-> i]
  <2>1. q \in Query /\ q # Reload /\ q # Reread
    BY Queries
  <2>2. requests' = Ask(requests, q, 1)
    BY <1>12 DEF DidSelectRow
  <2> HIDE DEF q
  <2>3. r' = r /\ s' = s
    BY <1>1, <1>9, <2>1, <2>2, AskingMore
  <2> HIDE DEF r, s
  <2> QED
    BY <1>1, <1>2, <1>3, <1>4, <1>6, <1>7, <1>12, <2>3 DEF DidSelectRow
<1>13. ASSUME NEW q \in Query, FailRead(q) PROVE Below /\ Above
  <2>1. /\ r' = IF q = Reload THEN r - 1 ELSE r
        /\ s' = IF q = Reread THEN s - 1 ELSE s
    BY <1>9, <1>13, Unasking DEF FailRead
  <2> HIDE DEF r, s
  <2> QED
    BY <1>1, <1>2, <1>3, <1>4, <1>6, <1>7, <1>9, <1>13, <2>1 DEF FailRead
<1>14. ASSUME NEW q \in Query, Answer(q) PROVE Below /\ Above
  <2>1. /\ r' = IF q = Reload THEN r - 1 ELSE r
        /\ s' = IF q = Reread THEN s - 1 ELSE s
    BY <1>9, <1>14, Unasking DEF Answer
  <2>2. /\ x' = IF q = Reload THEN x + 1 ELSE x
        /\ y' = IF q = Reread THEN y + 1 ELSE y
        /\ z' = IF q = Reread /\ record # NoRow THEN z + 1 ELSE z
    BY <1>14, CountsAppend DEF Answer, x, y, z
  <2>3. UNCHANGED <<appearances, emitted, surplus, failures>>
    BY <1>14 DEF Answer
  <2>4. record = NoRow => emitted = 0
    BY DEF NotVoted
  <2> HIDE DEF r, s
  <2> QED
    BY <1>1, <1>2, <1>3, <1>4, <1>6, <1>9, <2>1, <2>2, <2>3, <2>4
<1>15. CASE Reloaded
  <2> DEFINE seen == Head(mainQueue).seen
  <2>1. /\ mainQueue # <<>> /\ Head(mainQueue).query.kind = "reload"
        /\ mainQueue' = Tail(mainQueue)
    BY <1>15 DEF Reloaded, Runs
  <2>9. UNCHANGED <<tally, appearances, emitted, surplus, failures>>
    BY <1>15 DEF Reloaded
  <2>2. x' = x - 1 /\ y' = y /\ z' = z
    BY <2>1, CountsTail DEF x, y, z
  <2>3. CASE seen = Absent /\ UNCHANGED <<requests, arr>>
    <3>1. tally = Absent
      BY <1>15, <2>3, Popped DEF PollBehind, Reloaded, AsksPoll, AsksUsers
    <3> HIDE DEF r, s, seen
    <3> QED
      BY <1>1, <1>2, <1>3, <1>4, <1>8, <2>9, <2>2, <2>3, <3>1
  <2>4. CASE requests' = Ask(requests, Reread, 1)
    <3>1. r' = r /\ s' = s + 1
      BY <1>1, <1>9, <2>4, AskingMore
    <3> HIDE DEF r, s, seen
    <3> QED
      BY <1>1, <1>2, <1>3, <1>4, <2>9, <2>2, <3>1
  <2> QED
    BY <1>15, <2>3, <2>4 DEF Reloaded
<1>16. CASE RereadUser
  <2> DEFINE seen == Head(mainQueue).seen
             n == Reloads(appearances)
  <2>1. /\ mainQueue # <<>> /\ Head(mainQueue).query.kind = "reread"
        /\ mainQueue' = Tail(mainQueue)
    BY <1>16 DEF RereadUser, Runs
  <2>9. UNCHANGED <<tally, appearances, emitted, failures>>
    BY <1>16 DEF RereadUser
  <2>2. x' = x /\ y' = y - 1 /\ z' = IF seen # NoRow THEN z - 1 ELSE z
    BY <2>1, CountsTail DEF x, y, z
  <2>3. CASE seen = NoRow /\ UNCHANGED <<row, requests, surplus>>
    <3> HIDE DEF r, s, n, seen
    <3> QED
      BY <1>1, <1>2, <1>3, <1>4, <1>8, <2>9, <2>2, <2>3
  <2>4. CASE seen # NoRow /\ Emit(seen)
    <3>1. appearances # 0
      BY <1>16, Popped DEF RereadUser
    <3> HIDE DEF seen
    <3>2. n \in Nat /\ n >= 1 /\ r' = r + n /\ s' = s /\ surplus' = surplus + n - 1
      BY <1>9, <2>4, <3>1, Emitting
    <3> HIDE DEF r, s, n
    <3> QED
      BY <1>1, <1>2, <1>3, <1>4, <2>9, <2>2, <2>4, <3>2
  <2> QED
    BY <1>16, <2>3, <2>4 DEF RereadUser
<1>17. CASE TapRead
  <2> DEFINE i == Head(mainQueue).query.index
             p == [kind |-> "first", index |-> i]
             q == [kind |-> "second", index |-> i]
  <2>1. /\ mainQueue # <<>> /\ Head(mainQueue).query.kind = "user"
        /\ mainQueue' = Tail(mainQueue)
    BY <1>17 DEF TapRead, Runs
  <2>9. UNCHANGED <<tally, appearances, emitted, surplus, failures>>
    BY <1>17 DEF TapRead
  <2>2. x' = x /\ y' = y /\ z' = z
    BY <2>1, CountsTail DEF x, y, z
  <2>3. i \in Variants
    BY <1>17, Popped DEF TapRead
  <2>4. requests' = Ask(requests, p, 1) \/ requests' = Ask(requests, q, 1)
    BY <1>17 DEF TapRead
  <2> HIDE DEF i
  <2>5. p \in Query /\ q \in Query /\ p \notin {Reload, Reread} /\ q \notin {Reload, Reread}
    BY <2>3, Queries
  <2> HIDE DEF p, q
  <2>6. r' = r /\ s' = s
    <3>1. Ask(requests, p, 1)[Reload] = r /\ Ask(requests, p, 1)[Reread] = s
      <4> HIDE DEF r, s
      <4>1. 1 \in Nat /\ requests \in [Query -> Nat]
        BY <1>1
      <4>2. \A j \in Query : p # j => Ask(requests, p, 1)[j] = requests[j]
        BY <2>5, <4>1, AskingMore
      <4> QED
        BY <1>9, <2>5, <4>2 DEF r, s
    <3>2. Ask(requests, q, 1)[Reload] = r /\ Ask(requests, q, 1)[Reread] = s
      <4> HIDE DEF r, s
      <4>1. 1 \in Nat /\ requests \in [Query -> Nat]
        BY <1>1
      <4>2. \A j \in Query : q # j => Ask(requests, q, 1)[j] = requests[j]
        BY <2>5, <4>1, AskingMore
      <4> QED
        BY <1>9, <2>5, <4>2 DEF r, s
    <3> QED
      BY <2>4, <3>1, <3>2
  <2> HIDE DEF r, s
  <2> QED
    BY <1>1, <1>2, <1>3, <1>4, <2>9, <2>2, <2>6
<1>18. CASE VoteFirst \/ VoteSecond
  <2> DEFINE i == Head(mainQueue).query.index
             n == Reloads(appearances)
  <2>1. /\ mainQueue # <<>> /\ Head(mainQueue).query.kind \in {"first", "second"}
        /\ mainQueue' = Tail(mainQueue)
    BY <1>18 DEF VoteFirst, VoteSecond, Runs
  <2>9. emitted' = emitted + 1 /\ UNCHANGED <<appearances, failures>>
    BY <1>18 DEF VoteFirst, VoteSecond
  <2>2. x' = x /\ y' = y /\ z' = z
    BY <2>1, CountsTail DEF x, y, z
  <2>3. appearances # 0 /\ Emit(i)
    BY <1>18, Popped DEF VoteFirst, VoteSecond
  <2> HIDE DEF i
  <2>4. n \in Nat /\ n >= 1 /\ r' = r + n /\ s' = s /\ surplus' = surplus + n - 1
    BY <1>9, <2>3, Emitting
  <2> HIDE DEF r, s, n
  <2> QED
    BY <1>1, <1>2, <1>3, <1>4, <1>6, <2>9, <2>2, <2>4
<1> QED
  BY <1>10, <1>11, <1>12, <1>13, <1>14, <1>15, <1>16, <1>17, <1>18 DEF Next

-----------------------------------------------------------------------------
(* The theorems *)

LEMMA InitIInv == Init => IInv
<1> SUFFICES ASSUME Init PROVE IInv
  OBVIOUS
<1>1. TypeOK
  <2>1. mainQueue \in Seq(Callback) /\ requests \in [Query -> Nat]
    BY DEF Init
  <2>2. appearances \in 0 .. MaxAppearances
    BY BoundsAssumption DEF Init
  <2>3. visible \in BOOLEAN
    BY Zenon DEF Init
  <2> QED
    BY <2>1, <2>2, <2>3 DEF Init, TypeOK
<1>2. Seen /\ Begun /\ PollBehind /\ PollOrder /\ NotVoted
  BY DEF Init, Seen, Begun, PollBehind, PollOrder, NotVoted
<1>3. requests[Reload] = 0 /\ requests[Reread] = 0
  BY Queries DEF Init
<1>4. InQueue("reload") = 0 /\ InQueue("reread") = 0 /\ Continuing = 0
  <2>1. DOMAIN mainQueue = {}
    BY DEF Init
  <2> QED
    BY <2>1, FS_EmptySet DEF InQueue, Continuing
<1>5. appearances = 0 /\ emitted = 0 /\ surplus = 0 /\ failures = 0
  BY DEF Init
<1> QED
  BY <1>1, <1>2, <1>3, <1>4, <1>5 DEF IInv, ChainsBelow, ChainsAbove, Chains, Live

LEMMA NextIInv == IInv /\ [Next]_vars => IInv'
<1> SUFFICES ASSUME IInv, [Next]_vars PROVE IInv'
  OBVIOUS
<1>1. CASE UNCHANGED vars
  BY <1>1 DEF vars, IInv, TypeOK, Seen, Begun, PollBehind, PollOrder, NotVoted, ChainsBelow,
              ChainsAbove, Chains, Live, InQueue, Continuing
<1>2. CASE Next
  BY <1>2, TypeStep, SeenStep, BegunStep, PollBehindStep, PollOrderStep, NotVotedStep,
     ChainsStep DEF IInv
<1> QED
  BY <1>1, <1>2

LEMMA IInvHolds == Spec => []IInv
BY InitIInv, NextIInv, PTL DEF Spec

\* In every reachable state the documents the device sees, the screen, the
\* queries and the queue of callbacks have their types; in particular no count
\* of queries or surplus reloads ever falls below zero.
THEOREM TypeCorrect == Spec => []TypeOK
<1>1. IInv => TypeOK
  BY DEF IInv
<1> QED
  BY <1>1, IInvHolds, PTL

\* However many reloads overlap, reloadViewData never puts an older version of
\* the counters on the screen than the one that is shown.
THEOREM ShownNeverOlderHolds == Spec => ShownNeverOlder
<1>1. ASSUME IInv, Next, arr # Absent
      PROVE  arr' # Absent /\ arr <= arr'
  <2>1. arr \in Nat
    BY <1>1 DEF IInv, TypeOK
  <2>2. CASE UNCHANGED arr
    BY <1>1, <2>1, <2>2
  <2>3. CASE /\ Runs("reload") /\ Head(mainQueue).seen # Absent
             /\ arr' = Head(mainQueue).seen
    <3>1. /\ Head(mainQueue) = mainQueue[1] /\ 1 \in DOMAIN mainQueue
          /\ AsksPoll(mainQueue[1].query)
      BY <1>1, <2>3, Popped DEF AsksPoll, AsksUsers, IInv
    <3> QED
      BY <1>1, <2>3, <3>1 DEF IInv, PollBehind
  <2> QED
    BY <1>1, <2>2, <2>3, ShownSteps DEF IInv
<1>2. ASSUME IInv, UNCHANGED vars, arr # Absent
      PROVE  arr' # Absent /\ arr <= arr'
  BY <1>2 DEF IInv, TypeOK, vars
<1>3. IInv /\ [Next]_vars => [arr # Absent => arr' # Absent /\ arr <= arr']_vars
  BY <1>1, <1>2
<1> QED
  BY <1>3, IInvHolds, PTL DEF Spec, ShownNeverOlder

\* The chains of reloads are accounted for: there are never more than the
\* appearances of the view, the finished taps and the surplus subscriptions
\* have started, and each finished tap has left one that only a failed query
\* or the end of the poll stops.
THEOREM ChainsAccountedHolds == Spec => []ChainsAccounted
<1>1. ASSUME IInv PROVE ChainsAccounted
  <2>1. /\ TypeOK
        /\ Chains <= 2 * appearances + emitted + surplus
        /\ tally # Absent => emitted <= Live + failures
    BY <1>1 DEF IInv, ChainsBelow, ChainsAbove
  <2>2. emitted \in Nat /\ failures \in Nat
    BY <2>1 DEF TypeOK
  <2>3. Live \in Nat /\ Chains \in Nat /\ Live <= Chains
    BY <2>1, Counts DEF Live, Chains
  <2> QED
    BY <2>1, <2>2, <2>3 DEF ChainsAccounted
<1> QED
  BY <1>1, IInvHolds, PTL
=============================================================================
