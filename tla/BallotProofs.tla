---------------------------- MODULE BallotProofs ----------------------------
(***************************************************************************)
(* Theorems about Ballot, for every number of devices, users, polls,       *)
(* variants and taps.                                                      *)
(***************************************************************************)
EXTENDS Ballot, TLAPS, SequenceTheorems, WellFoundedInduction

-----------------------------------------------------------------------------
(* Facts about the operators *)

\* A nonempty set of positions of a queue has a last one: the newest queued
\* write that LocalUser and LocalVote look up exists.
LEMMA LastPosition ==
  ASSUME NEW n \in Nat, NEW S \in SUBSET (1..n), S # {}
  PROVE  Max(S) \in S
<1> DEFINE T == {n - k : k \in S}
           R == {ss \in Nat \X Nat : ss[1] < ss[2]}
<1>1. \A k \in S : n - k \in Nat
  OBVIOUS
<1>2. T \subseteq Nat
  BY <1>1
<1>3. T # {}
  OBVIOUS
<1>4. IsWellFoundedOn(R, Nat)
  BY NatLessThanWellFounded DEF OpToRel
<1>5. PICK x \in T : \A y \in T : ~ (<<y, x>> \in R)
  BY <1>2, <1>3, <1>4, WFMin
<1>6. PICK k \in S : x = n - k
  OBVIOUS
<1>7. ASSUME NEW j \in S PROVE k >= j
  <2>1. n - j \in T
    OBVIOUS
  <2>2. ~ (n - j < n - k)
    BY <1>1, <1>5, <1>6, <2>1
  <2> QED
    BY <2>2
<1> QED
  BY <1>7 DEF Max

\* What a device sees of its user's document is the document it goes by or
\* the list of one of the device's queued writes.
LEMMA LocalUserSource ==
  ASSUME TypeOK, NEW d \in Devices, NEW list
  PROVE  \/ LocalUser(d, list) = list
         \/ \E k \in DOMAIN outbox[d] :
              outbox[d][k].to = "user" /\ LocalUser(d, list) = outbox[d][k].list
<1>1. outbox[d] \in Seq(Write)
  BY DEF TypeOK
<1>2. Len(outbox[d]) \in Nat /\ DOMAIN outbox[d] = 1..Len(outbox[d])
  BY <1>1
<1>3. CASE PendingUser(d) # {}
  <2>1. Max(PendingUser(d)) \in PendingUser(d)
    BY <1>2, <1>3, LastPosition DEF PendingUser
  <2> QED
    BY <1>3, <2>1 DEF LocalUser, PendingUser
<1> QED
  BY <1>3 DEF LocalUser

\* The same for the document of a poll.
LEMMA LocalVoteSource ==
  ASSUME TypeOK, NEW d \in Devices, NEW p \in Polls, NEW tally
  PROVE  \/ LocalVote(d, p, tally) = tally
         \/ \E k \in DOMAIN outbox[d] :
              /\ outbox[d][k].to = "vote"
              /\ outbox[d][k].poll = p
              /\ LocalVote(d, p, tally) = outbox[d][k].tally
<1>1. outbox[d] \in Seq(Write)
  BY DEF TypeOK
<1>2. Len(outbox[d]) \in Nat /\ DOMAIN outbox[d] = 1..Len(outbox[d])
  BY <1>1
<1>3. CASE PendingVote(d, p) # {}
  <2>1. Max(PendingVote(d, p)) \in PendingVote(d, p)
    BY <1>2, <1>3, LastPosition DEF PendingVote
  <2> QED
    BY <1>3, <2>1 DEF LocalVote, PendingVote
<1> QED
  BY <1>3 DEF LocalVote

\* What a device sees of its user's document is a list of records.
LEMMA LocalUserType ==
  ASSUME TypeOK, NEW d \in Devices, NEW list \in SUBSET Record
  PROVE  LocalUser(d, list) \in SUBSET Record
<1>1. outbox[d] \in Seq(Write)
  BY DEF TypeOK
<1>2. \A k \in DOMAIN outbox[d] : outbox[d][k] \in Write
  BY <1>1
<1> QED
  BY <1>2, LocalUserSource DEF Write, UserWrite, VoteWrite

\* What a device sees of a poll is a tally, or that it is gone.
LEMMA LocalVoteType ==
  ASSUME TypeOK, NEW d \in Devices, NEW p \in Polls, NEW tally \in Tally \cup {Absent}
  PROVE  LocalVote(d, p, tally) \in Tally \cup {Absent}
<1>1. outbox[d] \in Seq(Write)
  BY DEF TypeOK
<1>2. \A k \in DOMAIN outbox[d] : outbox[d][k] \in Write
  BY <1>1
<1> QED
  BY <1>2, LocalVoteSource DEF Write, UserWrite, VoteWrite

\* voteFirst and voteSecond turn a tally into a tally.
LEMMA TallyOperatorsType ==
  ASSUME NEW t \in Tally, NEW i \in Variants, NEW x \in Variants
  PROVE  AddVote(t, i) \in Tally /\ MoveVote(t, i, x) \in Tally
BY DEF Tally, AddVote, MoveVote

\* voteFirst and voteSecond turn a list into a list.
LEMMA RecordOperatorsType ==
  ASSUME NEW list \in SUBSET Record, NEW p \in Polls, NEW i \in Variants
  PROVE  /\ AppendRecord(list, p, i) \in SUBSET Record
         /\ ReplaceRecord(list, p, i) \in SUBSET Record
BY DEF AppendRecord, ReplaceRecord, RecordsOf, NewRecord, Record

\* An element appended to a well-typed sequence is well typed.
LEMMA AppendedElement ==
  ASSUME NEW S, NEW s \in Seq(S), NEW e, Append(s, e) \in Seq(S)
  PROVE  e \in S
<1>1. /\ Len(s) + 1 \in 1..Len(Append(s, e))
      /\ Append(s, e)[Len(s) + 1] = e
  BY SMT
<1> QED
  BY <1>1

\* The callback at the head of a device's main queue.
LEMMA HeadUser ==
  ASSUME TypeOK, NEW d \in Devices, Ready(d, "user")
  PROVE  Head(mainQueue[d]) \in UserCallback
<1>1. mainQueue[d] \in Seq(UserCallback \cup VoteCallback) /\ mainQueue[d] # <<>>
  BY DEF TypeOK, Ready
<1>2. Head(mainQueue[d]) \in UserCallback \cup VoteCallback
  BY <1>1, HeadTailProperties
<1> QED
  BY <1>2 DEF Ready, VoteCallback, VoteRequest, Request

\* The same for the callbacks of voteFirst and voteSecond.
LEMMA HeadVote ==
  ASSUME TypeOK, NEW d \in Devices, Ready(d, "first") \/ Ready(d, "second")
  PROVE  Head(mainQueue[d]) \in VoteCallback
<1>1. mainQueue[d] \in Seq(UserCallback \cup VoteCallback) /\ mainQueue[d] # <<>>
  BY DEF TypeOK, Ready
<1>2. Head(mainQueue[d]) \in UserCallback \cup VoteCallback
  BY <1>1, HeadTailProperties
<1> QED
  BY <1>2 DEF Ready, UserCallback, UserRequest, Request

\* Running the first callback leaves a well-typed main queue.
LEMMA DropHeadType ==
  ASSUME TypeOK, NEW d \in Devices, mainQueue[d] # <<>>,
         mainQueue' = [mainQueue EXCEPT ![d] = Tail(@)]
  PROVE  mainQueue' \in [Devices -> Seq(UserCallback \cup VoteCallback)]
<1>1. mainQueue[d] \in Seq(UserCallback \cup VoteCallback)
  BY DEF TypeOK
<1>2. Tail(mainQueue[d]) \in Seq(UserCallback \cup VoteCallback)
  BY <1>1, HeadTailProperties
<1> QED
  BY <1>2 DEF TypeOK

\* The write the backend applies next, and the one acknowledged next.
LEMMA QueuedWrites ==
  ASSUME TypeOK, NEW S, outbox \in [Devices -> Seq(S)], NEW d \in Devices
  PROVE  /\ applied[d] < Len(outbox[d]) => outbox[d][applied[d] + 1] \in S
         /\ applied[d] > 0 => outbox[d] # <<>>
         /\ outbox[d] # <<>> => /\ Head(outbox[d]) \in S
                                /\ Tail(outbox[d]) \in Seq(S)
                                /\ Len(Tail(outbox[d])) = Len(outbox[d]) - 1
<1>1. outbox[d] \in Seq(S) /\ applied[d] \in Nat /\ applied[d] <= Len(outbox[d])
  BY DEF TypeOK
<1>2. applied[d] < Len(outbox[d]) => applied[d] + 1 \in 1..Len(outbox[d])
  BY <1>1
<1>3. outbox[d] # <<>> => /\ Head(outbox[d]) \in S
                          /\ Tail(outbox[d]) \in Seq(S)
                          /\ Len(Tail(outbox[d])) = Len(outbox[d]) - 1
  BY <1>1, HeadTailProperties
<1> QED
  BY <1>1, <1>2, <1>3

\* Issuing a write leaves the applied ones where they are.
LEMMA AppliedKept ==
  ASSUME TypeOK, outbox' \in [Devices -> Seq(Write)], applied' = applied,
         \A d \in Devices : Len(outbox[d]) <= Len(outbox'[d])
  PROVE  \A d \in Devices : applied'[d] <= Len(outbox'[d])
<1> SUFFICES ASSUME NEW d \in Devices PROVE applied[d] <= Len(outbox'[d])
  OBVIOUS
<1>1. outbox[d] \in Seq(Write) /\ outbox'[d] \in Seq(Write) /\ applied[d] \in Nat
      /\ applied[d] <= Len(outbox[d])
  BY DEF TypeOK
<1> QED
  BY <1>1

-----------------------------------------------------------------------------
(* Type correctness *)

\* Every action keeps the types.
LEMMA TypeStep == TypeOK /\ [Next]_vars => TypeOK'
<1> SUFFICES ASSUME TypeOK, [Next]_vars PROVE TypeOK'
  OBVIOUS
<1> USE EmailAssumption
<1>1. ASSUME NEW d \in Devices, NEW p \in Polls, NEW i \in Variants, TabOnCell(d, p, i)
      PROVE  TypeOK'
  <2>1. requests' \subseteq UserRequest \cup VoteRequest
    BY <1>1 DEF TabOnCell, TypeOK, UserRequest, Request, Record
  <2>2. intent' \in [Users -> SUBSET Record]
    BY <1>1 DEF TabOnCell, TypeOK, Record
  <2>3. overlapped' \subseteq Users /\ contended' \subseteq Polls /\ taps' \in Nat
    BY <1>1 DEF TabOnCell, TypeOK
  <2> QED
    BY <1>1, <2>1, <2>2, <2>3 DEF TabOnCell, TypeOK, database, sending, copies
<1>2. ASSUME NEW r \in requests, AnswerUser(r)
      PROVE  TypeOK'
  <2>1. r \in UserRequest
    BY <1>2 DEF AnswerUser, TypeOK, UserRequest, VoteRequest, Request
  <2>2. r.dev \in Devices
    BY <2>1 DEF UserRequest, Request
  <2>3. [req |-> r, list |-> LocalUser(r.dev, users[Email[r.dev]])] \in UserCallback
    <3>1. users[Email[r.dev]] \in SUBSET Record
      BY <2>2 DEF TypeOK
    <3> QED
      BY <2>1, <2>2, <3>1, LocalUserType DEF UserCallback
  <2>4. mainQueue' \in [Devices -> Seq(UserCallback \cup VoteCallback)]
    BY <1>2, <2>2, <2>3 DEF AnswerUser, TypeOK
  <2>5. ownUser' \in [Devices -> SUBSET Record]
    BY <1>2, <2>2 DEF AnswerUser, Kept, TypeOK
  <2> QED
    BY <1>2, <2>4, <2>5 DEF AnswerUser, TypeOK, database, sending, history
<1>3. ASSUME NEW r \in requests, AnswerVote(r)
      PROVE  TypeOK'
  <2>1. r \in VoteRequest
    BY <1>3 DEF AnswerVote, TypeOK, UserRequest, VoteRequest, Request
  <2>2. r.dev \in Devices /\ r.poll \in Polls
    BY <2>1 DEF VoteRequest, Request
  <2>3. [req |-> r, tally |-> LocalVote(r.dev, r.poll, votes[r.poll])] \in VoteCallback
    <3>1. votes[r.poll] \in Tally \cup {Absent}
      BY <2>2 DEF TypeOK
    <3> QED
      BY <2>1, <2>2, <3>1, LocalVoteType DEF VoteCallback
  <2>4. mainQueue' \in [Devices -> Seq(UserCallback \cup VoteCallback)]
    BY <1>3, <2>2, <2>3 DEF AnswerVote, TypeOK
  <2>5. ownVotes' \in [Devices -> [Polls -> Tally \cup {Absent}]]
    BY <1>3, <2>2 DEF AnswerVote, Kept, TypeOK
  <2> QED
    BY <1>3, <2>4, <2>5 DEF AnswerVote, TypeOK, database, sending, history
<1>4. ASSUME NEW r \in requests, FailRead(r)
      PROVE  TypeOK'
  <2>1. r.dev \in Devices
    BY <1>4 DEF TypeOK, UserRequest, VoteRequest, Request
  <2> QED
    BY <1>4, <2>1 DEF FailRead, TypeOK, database, sending, copies
<1>5. ASSUME NEW d \in Devices, VoteFirst(d)
      PROVE  TypeOK'
  <2> DEFINE cb == Head(mainQueue[d])
  <2>1. cb \in UserCallback
    BY <1>5, HeadUser DEF VoteFirst
  <2>2. cb.req \in UserRequest /\ cb.list \in SUBSET Record
    BY <2>1 DEF UserCallback
  <2>3. [cb.req EXCEPT !.kind = "first", !.arrays = cb.list] \in VoteRequest
    BY <2>2 DEF UserRequest, VoteRequest, Request
  <2>4. [to |-> "user", list |-> AppendRecord(cb.list, cb.req.poll, cb.req.index)] \in Write
    BY <2>2, RecordOperatorsType DEF UserRequest, Request, Write, UserWrite
  <2>5. outbox' \in [Devices -> Seq(Write)]
    BY <1>5, <2>4 DEF VoteFirst, TypeOK
  <2>8. \A e \in Devices : applied'[e] <= Len(outbox'[e])
    <3>1. \A e \in Devices : outbox[e] \in Seq(Write)
      BY DEF TypeOK
    <3>2. \A e \in Devices : Len(outbox[e]) <= Len(outbox'[e])
      BY <1>5, <2>4, <3>1 DEF VoteFirst, TypeOK
    <3> QED
      BY <1>5, <2>5, <3>2, AppliedKept DEF VoteFirst
  <2>6. requests' \subseteq UserRequest \cup VoteRequest
    BY <1>5, <2>3 DEF VoteFirst, TypeOK
  <2>7. mainQueue' \in [Devices -> Seq(UserCallback \cup VoteCallback)]
    BY <1>5, DropHeadType DEF VoteFirst, Ready
  <2> QED
    BY <1>5, <2>5, <2>6, <2>7, <2>8 DEF VoteFirst, TypeOK, database, copies, history
<1>6. ASSUME NEW d \in Devices, VoteSecond(d)
      PROVE  TypeOK'
  <2> DEFINE cb == Head(mainQueue[d])
  <2>1. cb \in UserCallback
    BY <1>6, HeadUser DEF VoteSecond
  <2>2. cb.req \in UserRequest /\ cb.list \in SUBSET Record
    BY <2>1 DEF UserCallback
  <2>3. PICK old \in RecordsOf(cb.list, cb.req.poll) :
          requests' = requests \cup {[cb.req EXCEPT !.kind = "second",
                                                   !.arrays = cb.list,
                                                   !.extra = old.voteVariantID]}
    BY <1>6 DEF VoteSecond
  <2>4. old.voteVariantID \in Variants
    BY <2>2, <2>3 DEF RecordsOf, Record
  <2>5. [cb.req EXCEPT !.kind = "second", !.arrays = cb.list,
                       !.extra = old.voteVariantID] \in VoteRequest
    BY <2>2, <2>4 DEF UserRequest, VoteRequest, Request
  <2>6. requests' \subseteq UserRequest \cup VoteRequest
    BY <2>3, <2>5 DEF TypeOK
  <2>7. mainQueue' \in [Devices -> Seq(UserCallback \cup VoteCallback)]
    BY <1>6, DropHeadType DEF VoteSecond, Ready
  <2> QED
    BY <1>6, <2>6, <2>7 DEF VoteSecond, TypeOK, database, sending, copies, history
<1>7. ASSUME NEW d \in Devices, CountFirst(d)
      PROVE  TypeOK'
  <2> DEFINE cb == Head(mainQueue[d])
  <2>1. cb \in VoteCallback
    BY <1>7, HeadVote DEF CountFirst
  <2>2. cb.req.poll \in Polls /\ cb.req.index \in Variants
    BY <2>1 DEF VoteCallback, VoteRequest, Request
  <2>3. mainQueue' \in [Devices -> Seq(UserCallback \cup VoteCallback)]
    BY <1>7, DropHeadType DEF CountFirst, Ready
  <2>4. /\ outbox' \in [Devices -> Seq(Write)]
        /\ firsts' \in [Polls -> Nat]
        /\ \A e \in Devices : Len(outbox[e]) <= Len(outbox'[e])
    <3>1. CASE cb.tally = Absent
      <4>1. outbox' = outbox /\ firsts' = firsts
        BY <1>7, <3>1 DEF CountFirst
      <4>2. \A e \in Devices : outbox[e] \in Seq(Write)
        BY DEF TypeOK
      <4> QED
        BY <4>1, <4>2 DEF TypeOK
    <3>2. CASE cb.tally # Absent
      <4> DEFINE vw == [to |-> "vote", poll |-> cb.req.poll,
                        tally |-> AddVote(cb.tally, cb.req.index)]
      <4>1. vw \in Write
        BY <2>1, <2>2, <3>2, TallyOperatorsType DEF VoteCallback, Write, VoteWrite
      <4>2. /\ outbox' = [outbox EXCEPT ![d] = Append(@, vw)]
            /\ firsts' = [firsts EXCEPT ![cb.req.poll] = @ + 1]
        BY <1>7, <3>2 DEF CountFirst
      <4> HIDE DEF vw, cb
      <4>3. outbox' \in [Devices -> Seq(Write)]
        BY <4>1, <4>2 DEF TypeOK
      <4>4. firsts' \in [Polls -> Nat]
        BY <2>2, <4>2 DEF TypeOK
      <4>5. \A e \in Devices : Len(outbox[e]) <= Len(outbox'[e])
        <5>1. \A e \in Devices : outbox[e] \in Seq(Write)
          BY DEF TypeOK
        <5> QED
          BY <4>1, <4>2, <5>1 DEF TypeOK
      <4> QED
        BY <4>3, <4>4, <4>5
    <3> QED
      BY <3>1, <3>2
  <2> QED
    <3>1. \A e \in Devices : applied'[e] <= Len(outbox'[e])
      BY <1>7, <2>4, AppliedKept DEF CountFirst
    <3> QED
      BY <1>7, <2>3, <2>4, <3>1 DEF CountFirst, TypeOK, database, copies
<1>8. ASSUME NEW d \in Devices, CountSecond(d)
      PROVE  TypeOK'
  <2> DEFINE cb == Head(mainQueue[d])
  <2>1. cb \in VoteCallback
    BY <1>8, HeadVote DEF CountSecond
  <2>2. cb.req \in VoteRequest
    BY <2>1 DEF VoteCallback
  <2>3. cb.req.poll \in Polls /\ cb.req.index \in Variants /\ cb.req.extra \in Variants
        /\ cb.req.arrays \in SUBSET Record
    BY <2>2 DEF VoteRequest, Request
  <2>4. mainQueue' \in [Devices -> Seq(UserCallback \cup VoteCallback)]
    BY <1>8, DropHeadType DEF CountSecond, Ready
  <2>5. /\ outbox' \in [Devices -> Seq(Write)]
        /\ seconds' \in [Polls -> Nat]
        /\ skewed' \subseteq Polls
        /\ \A e \in Devices : Len(outbox[e]) <= Len(outbox'[e])
    <3>1. CASE cb.tally = Absent
      <4>1. outbox' = outbox /\ seconds' = seconds /\ skewed' = skewed
        BY <1>8, <3>1 DEF CountSecond
      <4>2. \A e \in Devices : outbox[e] \in Seq(Write)
        BY DEF TypeOK
      <4> QED
        BY <4>1, <4>2 DEF TypeOK
    <3>2. CASE cb.tally # Absent
      <4> DEFINE vw == [to |-> "vote", poll |-> cb.req.poll,
                        tally |-> MoveVote(cb.tally, cb.req.index, cb.req.extra)]
                 uw == [to |-> "user",
                        list |-> ReplaceRecord(cb.req.arrays, cb.req.poll, cb.req.index)]
      <4>1. vw \in Write
        BY <2>1, <2>3, <3>2, TallyOperatorsType DEF VoteCallback, Write, VoteWrite
      <4>2. uw \in Write
        BY <2>3, RecordOperatorsType DEF Write, UserWrite
      <4>3. <<vw, uw>> \in Seq(Write)
        BY <4>1, <4>2
      <4>4. /\ outbox' = [outbox EXCEPT ![d] = @ \o <<vw, uw>>]
            /\ seconds' = [seconds EXCEPT ![cb.req.poll] = @ + 1]
            /\ skewed' = skewed \/ skewed' = skewed \cup {cb.req.poll}
        BY <1>8, <3>2 DEF CountSecond
      <4> HIDE DEF vw, uw, cb
      <4>5. outbox' \in [Devices -> Seq(Write)]
        BY <4>3, <4>4 DEF TypeOK
      <4>6. seconds' \in [Polls -> Nat]
        BY <2>3, <4>4 DEF TypeOK
      <4>7. skewed' \subseteq Polls
        BY <2>3, <4>4 DEF TypeOK
      <4>8. \A e \in Devices : Len(outbox[e]) <= Len(outbox'[e])
        <5>1. \A e \in Devices : outbox[e] \in Seq(Write)
          BY DEF TypeOK
        <5>2. \A e \in Devices : Len(outbox[e] \o <<vw, uw>>) >= Len(outbox[e])
          BY <4>3, <5>1
        <5> QED
          BY <4>4, <5>1, <5>2 DEF TypeOK
      <4> QED
        BY <4>5, <4>6, <4>7, <4>8
    <3> QED
      BY <3>1, <3>2
  <2> QED
    <3>1. \A e \in Devices : applied'[e] <= Len(outbox'[e])
      BY <1>8, <2>5, AppliedKept DEF CountSecond
    <3> QED
      BY <1>8, <2>4, <2>5, <3>1 DEF CountSecond, TypeOK, database, copies
<1>9. ASSUME NEW d \in Devices, Apply(d)
      PROVE  TypeOK'
  <2> DEFINE w == outbox[d][applied[d] + 1]
  <2>1. w \in Write
    BY <1>9, QueuedWrites DEF Apply, TypeOK
  <2>2. users' \in [Users -> SUBSET Record] /\ votes' \in [Polls -> Tally \cup {Absent}]
    BY <1>9, <2>1 DEF Apply, UpdateData, TypeOK, Write, UserWrite, VoteWrite
  <2>3. applied' \in [Devices -> Nat]
    BY <1>9 DEF Apply, TypeOK
  <2>4. \A e \in Devices : applied'[e] <= Len(outbox'[e])
    <3>1. \A e \in Devices : outbox[e] \in Seq(Write) /\ applied[e] \in Nat
      BY DEF TypeOK
    <3> QED
      BY <1>9, <3>1 DEF Apply, TypeOK
  <2> QED
    BY <1>9, <2>2, <2>3, <2>4 DEF Apply, TypeOK, copies, history
\* The oldest write leaves the queue.
<1>10. ASSUME NEW d \in Devices, outbox[d] # <<>>,
              outbox' = [outbox EXCEPT ![d] = Tail(@)],
              \/ applied[d] = 0 /\ applied' = applied
              \/ applied[d] > 0 /\ applied' = [applied EXCEPT ![d] = @ - 1]
       PROVE  /\ outbox' \in [Devices -> Seq(Write)]
              /\ applied' \in [Devices -> Nat]
              /\ \A e \in Devices : applied'[e] <= Len(outbox'[e])
  <2>1. Tail(outbox[d]) \in Seq(Write) /\ Len(Tail(outbox[d])) = Len(outbox[d]) - 1
    BY <1>10, QueuedWrites DEF TypeOK
  <2>2. \A e \in Devices : /\ outbox[e] \in Seq(Write) /\ applied[e] \in Nat
                            /\ applied[e] <= Len(outbox[e])
    BY DEF TypeOK
  <2>3. /\ outbox' \in [Devices -> Seq(Write)]
        /\ applied' \in [Devices -> Nat]
    <3>1. outbox' \in [Devices -> Seq(Write)]
      BY <1>10, <2>1 DEF TypeOK
    <3>2. applied[d] > 0 => applied[d] - 1 \in Nat
      BY <2>2
    <3>3. applied' \in [Devices -> Nat]
      BY <1>10, <3>2 DEF TypeOK
    <3> QED
      BY <3>1, <3>3
  <2>4. Len(Tail(outbox[d])) \in Nat
    BY <2>1
  <2>5. ASSUME NEW e \in Devices PROVE applied'[e] <= Len(outbox'[e])
    <3>1. CASE e # d
      BY <1>10, <2>2, <3>1 DEF TypeOK
    <3>2. CASE e = d
      <4>1. outbox'[d] = Tail(outbox[d])
        BY <1>10 DEF TypeOK
      <4>2. applied'[d] = 0 \/ applied'[d] = applied[d] - 1
        BY <1>10 DEF TypeOK
      <4> QED
        BY <2>1, <2>2, <2>4, <3>2, <4>1, <4>2
    <3> QED
      BY <3>1, <3>2
  <2> QED
    BY <2>3, <2>5
<1>11. ASSUME NEW d \in Devices, Acknowledge(d)
       PROVE  TypeOK'
  <2> DEFINE w == Head(outbox[d])
  <2>1. outbox[d] # <<>> /\ w \in Write
    BY <1>11, QueuedWrites DEF Acknowledge, TypeOK
  <2>2. /\ outbox' \in [Devices -> Seq(Write)]
        /\ applied' \in [Devices -> Nat]
        /\ \A e \in Devices : applied'[e] <= Len(outbox'[e])
    BY <1>10, <1>11, <2>1 DEF Acknowledge
  <2>3. ownUser' \in [Devices -> SUBSET Record]
    BY <1>11, <2>1 DEF Acknowledge, Kept, TypeOK, Write, UserWrite, VoteWrite
  <2>4. ownVotes' \in [Devices -> [Polls -> Tally \cup {Absent}]]
    <3>1. CASE ownVotes' = ownVotes
      BY <3>1 DEF TypeOK
    <3>2. CASE /\ w.to = "vote"
               /\ ownVotes' = [ownVotes EXCEPT
                    ![d][w.poll] = Kept(d, @, UpdateData(@, w.tally))]
      <4>1. w.poll \in Polls /\ w.tally \in Tally
        BY <2>1, <3>2 DEF Write, UserWrite, VoteWrite
      <4> HIDE DEF w
      <4> QED
        BY <3>2, <4>1 DEF Kept, UpdateData, TypeOK
    <3> QED
      BY <1>11, <3>1, <3>2 DEF Acknowledge
  <2> QED
    BY <1>11, <2>2, <2>3, <2>4 DEF Acknowledge, TypeOK, database, history
<1>12. ASSUME NEW d \in Devices, RejectWrite(d)
       PROVE  TypeOK'
  <2>1. /\ outbox' \in [Devices -> Seq(Write)]
        /\ applied' \in [Devices -> Nat]
        /\ \A e \in Devices : applied'[e] <= Len(outbox'[e])
    BY <1>10, <1>12 DEF RejectWrite
  <2> QED
    BY <1>12, <2>1 DEF RejectWrite, TypeOK, database, copies
\* Nothing counts as applied on a new connection.
<1>13. ASSUME NEW d \in Devices, SentAgain(d), outbox' = outbox
       PROVE  /\ applied' \in [Devices -> Nat]
              /\ replayed' \subseteq Users
              /\ \A e \in Devices : applied'[e] <= Len(outbox'[e])
  <2>1. \A e \in Devices : outbox[e] \in Seq(Write)
    BY DEF TypeOK
  <2> QED
    BY <1>13, <2>1 DEF SentAgain, TypeOK
<1>14. ASSUME NEW d \in Devices, Resend(d)
       PROVE  TypeOK'
  BY <1>13, <1>14 DEF Resend, TypeOK, database, copies
<1>15. ASSUME NEW d \in Devices, Crash(d)
       PROVE  TypeOK'
  <2>1. mainQueue' \in [Devices -> Seq(UserCallback \cup VoteCallback)]
    BY <1>15 DEF Crash, TypeOK
  <2> QED
    BY <1>13, <1>15, <2>1 DEF Crash, TypeOK, database, copies
<1>16. ASSUME NEW d \in Devices, Refresh(d)
       PROVE  TypeOK'
  <2>1. /\ ownUser' \in [Devices -> SUBSET Record]
        /\ ownVotes' \in [Devices -> [Polls -> Tally \cup {Absent}]]
    BY <1>16 DEF Refresh, TypeOK
  <2> QED
    BY <1>16, <2>1 DEF Refresh, TypeOK, database, sending, history
<1>17. ASSUME NEW r \in requests, RecallUser(r)
       PROVE  TypeOK'
  <2>1. r \in UserRequest
    BY <1>17 DEF RecallUser, TypeOK, UserRequest, VoteRequest, Request
  <2>2. r.dev \in Devices
    BY <2>1 DEF UserRequest, Request
  <2>3. [req |-> r, list |-> LocalUser(r.dev, ownUser[r.dev])] \in UserCallback
    <3>1. ownUser[r.dev] \in SUBSET Record
      BY <2>2 DEF TypeOK
    <3> QED
      BY <2>1, <2>2, <3>1, LocalUserType DEF UserCallback
  <2>4. mainQueue' \in [Devices -> Seq(UserCallback \cup VoteCallback)]
    BY <1>17, <2>2, <2>3 DEF RecallUser, TypeOK
  <2>5. overlapped' \subseteq Users
    BY <1>17, <2>2 DEF RecallUser, TypeOK
  <2> QED
    BY <1>17, <2>4, <2>5 DEF RecallUser, TypeOK, database, sending, copies
<1>18. ASSUME NEW r \in requests, RecallVote(r)
       PROVE  TypeOK'
  <2>1. r \in VoteRequest
    BY <1>18 DEF RecallVote, TypeOK, UserRequest, VoteRequest, Request
  <2>2. r.dev \in Devices /\ r.poll \in Polls
    BY <2>1 DEF VoteRequest, Request
  <2>3. [req |-> r, tally |-> LocalVote(r.dev, r.poll, ownVotes[r.dev][r.poll])] \in VoteCallback
    <3>1. ownVotes[r.dev][r.poll] \in Tally \cup {Absent}
      BY <2>2 DEF TypeOK
    <3> QED
      BY <2>1, <2>2, <3>1, LocalVoteType DEF VoteCallback
  <2>4. mainQueue' \in [Devices -> Seq(UserCallback \cup VoteCallback)]
    BY <1>18, <2>2, <2>3 DEF RecallVote, TypeOK
  <2>5. contended' \subseteq Polls
    BY <1>18, <2>2 DEF RecallVote, TypeOK
  <2> QED
    BY <1>18, <2>4, <2>5 DEF RecallVote, TypeOK, database, sending, copies
<1>19. ASSUME NEW p \in Polls, DeletePoll(p)
       PROVE  TypeOK'
  BY <1>19 DEF DeletePoll, TypeOK, client, history
<1>20. ASSUME UNCHANGED vars
       PROVE  TypeOK'
  BY <1>20 DEF vars, TypeOK
<1> QED
  BY <1>1, <1>2, <1>3, <1>4, <1>5, <1>6, <1>7, <1>8, <1>9, <1>11, <1>12, <1>14, <1>15,
     <1>16, <1>17, <1>18, <1>19, <1>20
  DEF Next

\* Every state of Ballot is well typed; in particular a vote recorded for a
\* user always names a row of the poll, so the subscripts array[index] and
\* array[extraIndex] of voteFirst and voteSecond are in range.
THEOREM TypeCorrect == Spec => []TypeOK
<1>1. Init => TypeOK
  BY DEF Init, TypeOK, Tally
<1> QED
  BY <1>1, TypeStep, PTL DEF Spec

-----------------------------------------------------------------------------
(* One record per poll *)

(***************************************************************************)
(* OneRecordPerPoll speaks of the Users documents alone and is not         *)
(* inductive: Apply installs a list from a queue.   ListsSingle says it of *)
(* every list in the system, wherever a tap keeps one.                     *)
(***************************************************************************)
SingleList     == {list \in SUBSET Record : Single(list)}
SingleWrite    == {w \in Write : w.to = "user" => Single(w.list)}
SingleRequest  == {r \in UserRequest \cup VoteRequest : Single(r.arrays)}
SingleCallback == {cb \in UserCallback \cup VoteCallback :
                     /\ Single(cb.req.arrays)
                     /\ cb.req.kind = "user" => Single(cb.list)}

ListsSingle ==
    /\ users \in [Users -> SingleList]
    /\ outbox \in [Devices -> Seq(SingleWrite)]
    /\ ownUser \in [Devices -> SingleList]
    /\ requests \subseteq SingleRequest
    /\ mainQueue \in [Devices -> Seq(SingleCallback)]

\* The filter in voteSecond removes every record of the poll, and voteFirst
\* appends only when the filter in tabOnCell found none.
LEMMA SingleOperators ==
  ASSUME NEW list, Single(list), NEW p, NEW i
  PROVE  /\ Single(ReplaceRecord(list, p, i))
         /\ RecordsOf(list, p) = {} => Single(AppendRecord(list, p, i))
BY DEF Single, ReplaceRecord, AppendRecord, RecordsOf, NewRecord

\* A device never sees two records of one poll.
LEMMA LocalUserSingle ==
  ASSUME TypeOK, ListsSingle, NEW d \in Devices, NEW list, Single(list)
  PROVE  Single(LocalUser(d, list))
<1>1. outbox[d] \in Seq(SingleWrite)
  BY DEF ListsSingle
<1>2. \A k \in DOMAIN outbox[d] : outbox[d][k] \in SingleWrite
  BY <1>1
<1> QED
  BY <1>2, LocalUserSource DEF SingleWrite

\* Running the first callback keeps ListsSingle of the main queue.
LEMMA DropHeadSingle ==
  ASSUME ListsSingle, NEW d \in Devices, mainQueue[d] # <<>>,
         mainQueue' = [mainQueue EXCEPT ![d] = Tail(@)]
  PROVE  /\ Head(mainQueue[d]) \in SingleCallback
         /\ mainQueue' \in [Devices -> Seq(SingleCallback)]
<1>1. mainQueue[d] \in Seq(SingleCallback)
  BY DEF ListsSingle
<1>2. Head(mainQueue[d]) \in SingleCallback /\ Tail(mainQueue[d]) \in Seq(SingleCallback)
  BY <1>1, HeadTailProperties
<1> QED
  BY <1>2 DEF ListsSingle

\* Every action keeps ListsSingle.
LEMMA SingleStep == TypeOK /\ TypeOK' /\ ListsSingle /\ [Next]_vars => ListsSingle'
<1> SUFFICES ASSUME TypeOK, TypeOK', ListsSingle, [Next]_vars PROVE ListsSingle'
  OBVIOUS
<1> USE EmailAssumption
<1>1. ASSUME NEW d \in Devices, NEW p \in Polls, NEW i \in Variants, TabOnCell(d, p, i)
      PROVE  ListsSingle'
  <2> DEFINE r == [kind |-> "user", tap |-> taps, dev |-> d, poll |-> p,
                   index |-> i, arrays |-> {}, extra |-> i]
  <2>1. r \in SingleRequest
    <3>1. r \in requests'
      BY <1>1 DEF TabOnCell
    <3>2. r \in UserRequest \cup VoteRequest
      BY <3>1 DEF TypeOK
    <3> QED
      BY <3>2 DEF SingleRequest, Single
  <2> QED
    BY <1>1, <2>1 DEF TabOnCell, ListsSingle, database, sending, copies
<1>2. ASSUME NEW r \in requests, AnswerUser(r)
      PROVE  ListsSingle'
  <2>1. r \in UserRequest /\ Single(r.arrays)
    BY <1>2 DEF AnswerUser, ListsSingle, SingleRequest, UserRequest, VoteRequest, Request
  <2>2. r.dev \in Devices
    BY <2>1 DEF UserRequest, Request
  <2>3. users[Email[r.dev]] \in SUBSET Record /\ Single(users[Email[r.dev]])
    BY <2>2 DEF ListsSingle, SingleList
  <2>4. [req |-> r, list |-> LocalUser(r.dev, users[Email[r.dev]])] \in SingleCallback
    BY <2>1, <2>2, <2>3, LocalUserType, LocalUserSingle DEF SingleCallback, UserCallback
  <2>5. mainQueue' \in [Devices -> Seq(SingleCallback)]
    BY <1>2, <2>2, <2>4 DEF AnswerUser, ListsSingle
  <2>6. ownUser' \in [Devices -> SingleList]
    BY <1>2, <2>2 DEF AnswerUser, Kept, ListsSingle
  <2> QED
    BY <1>2, <2>5, <2>6 DEF AnswerUser, ListsSingle, database, sending
<1>3. ASSUME NEW r \in requests, AnswerVote(r)
      PROVE  ListsSingle'
  <2>1. r \in VoteRequest /\ Single(r.arrays)
    BY <1>3 DEF AnswerVote, ListsSingle, SingleRequest, UserRequest, VoteRequest, Request
  <2>2. r.dev \in Devices /\ r.poll \in Polls /\ r.kind # "user"
    BY <2>1 DEF VoteRequest, Request
  <2>3. [req |-> r, tally |-> LocalVote(r.dev, r.poll, votes[r.poll])] \in SingleCallback
    <3>1. votes[r.poll] \in Tally \cup {Absent}
      BY <2>2 DEF TypeOK
    <3> QED
      BY <2>1, <2>2, <3>1, LocalVoteType DEF SingleCallback, VoteCallback
  <2>4. mainQueue' \in [Devices -> Seq(SingleCallback)]
    BY <1>3, <2>2, <2>3 DEF AnswerVote, ListsSingle
  <2> QED
    BY <1>3, <2>4 DEF AnswerVote, ListsSingle, database, sending
<1>4. ASSUME NEW r \in requests, FailRead(r)
      PROVE  ListsSingle'
  BY <1>4 DEF FailRead, ListsSingle, database, sending, copies
<1>5. ASSUME NEW d \in Devices, VoteFirst(d)
      PROVE  ListsSingle'
  <2> DEFINE cb == Head(mainQueue[d])
             uw == [to |-> "user", list |-> AppendRecord(cb.list, cb.req.poll, cb.req.index)]
             rq == [cb.req EXCEPT !.kind = "first", !.arrays = cb.list]
  <2>1. cb \in UserCallback
    BY <1>5, HeadUser DEF VoteFirst
  <2>2. cb \in SingleCallback /\ mainQueue' \in [Devices -> Seq(SingleCallback)]
    BY <1>5, DropHeadSingle DEF VoteFirst, Ready
  <2>3. cb.req \in UserRequest /\ cb.list \in SUBSET Record /\ Single(cb.list)
    BY <2>1, <2>2 DEF UserCallback, SingleCallback, UserRequest, Request
  <2>4. rq \in SingleRequest
    BY <2>3 DEF UserRequest, VoteRequest, Request, SingleRequest
  <2>5. uw \in SingleWrite
    <3>1. RecordsOf(cb.list, cb.req.poll) = {}
      BY <1>5 DEF VoteFirst
    <3>2. Single(AppendRecord(cb.list, cb.req.poll, cb.req.index))
      BY <2>3, <3>1, SingleOperators
    <3> QED
      BY <2>3, <3>2, RecordOperatorsType
      DEF UserRequest, Request, Write, UserWrite, SingleWrite
  <2>6. outbox' = [outbox EXCEPT ![d] = Append(@, uw)] /\ requests' = requests \cup {rq}
    BY <1>5 DEF VoteFirst
  <2> HIDE DEF cb, uw, rq
  <2>7. outbox' \in [Devices -> Seq(SingleWrite)]
    BY <2>5, <2>6 DEF ListsSingle
  <2> QED
    BY <1>5, <2>2, <2>4, <2>6, <2>7 DEF VoteFirst, ListsSingle, database, copies
<1>6. ASSUME NEW d \in Devices, VoteSecond(d)
      PROVE  ListsSingle'
  <2> DEFINE cb == Head(mainQueue[d])
  <2>1. cb \in UserCallback
    BY <1>6, HeadUser DEF VoteSecond
  <2>2. cb \in SingleCallback /\ mainQueue' \in [Devices -> Seq(SingleCallback)]
    BY <1>6, DropHeadSingle DEF VoteSecond, Ready
  <2>3. cb.req \in UserRequest /\ cb.list \in SUBSET Record /\ Single(cb.list)
    BY <2>1, <2>2 DEF UserCallback, SingleCallback, UserRequest, Request
  <2>4. PICK old \in RecordsOf(cb.list, cb.req.poll) :
          requests' = requests \cup {[cb.req EXCEPT !.kind = "second",
                                                   !.arrays = cb.list,
                                                   !.extra = old.voteVariantID]}
    BY <1>6 DEF VoteSecond
  <2>5. old.voteVariantID \in Variants
    BY <2>3, <2>4 DEF RecordsOf, Record
  <2>6. [cb.req EXCEPT !.kind = "second", !.arrays = cb.list,
                       !.extra = old.voteVariantID] \in SingleRequest
    BY <2>3, <2>5 DEF UserRequest, VoteRequest, Request, SingleRequest
  <2> QED
    BY <1>6, <2>2, <2>4, <2>6 DEF VoteSecond, ListsSingle, database, sending, copies
<1>7. ASSUME NEW d \in Devices, CountFirst(d)
      PROVE  ListsSingle'
  <2> DEFINE cb == Head(mainQueue[d])
             vw == [to |-> "vote", poll |-> cb.req.poll,
                    tally |-> AddVote(cb.tally, cb.req.index)]
  <2>1. mainQueue' \in [Devices -> Seq(SingleCallback)]
    BY <1>7, DropHeadSingle DEF CountFirst, Ready
  <2>2. outbox' = outbox \/ outbox' = [outbox EXCEPT ![d] = Append(@, vw)]
    BY <1>7 DEF CountFirst
  <2>3. outbox' \in [Devices -> Seq(SingleWrite)]
    <3>1. CASE outbox' = outbox
      BY <3>1 DEF ListsSingle
    <3>2. CASE outbox' = [outbox EXCEPT ![d] = Append(@, vw)]
      <4>1. vw \in Write
        <5> HIDE DEF vw
        <5>1. outbox'[d] = Append(outbox[d], vw) /\ outbox[d] \in Seq(Write)
              /\ outbox'[d] \in Seq(Write)
          BY <3>2 DEF TypeOK
        <5> QED
          BY <5>1, AppendedElement
      <4>2. vw.to # "user"
        OBVIOUS
      <4> HIDE DEF vw
      <4>3. vw \in SingleWrite
        BY <4>1, <4>2 DEF SingleWrite
      <4> QED
        BY <3>2, <4>3 DEF ListsSingle
    <3> QED
      BY <2>2, <3>1, <3>2
  <2> QED
    BY <1>7, <2>1, <2>3 DEF CountFirst, ListsSingle, database, copies
<1>8. ASSUME NEW d \in Devices, CountSecond(d)
      PROVE  ListsSingle'
  <2> DEFINE cb == Head(mainQueue[d])
             vw == [to |-> "vote", poll |-> cb.req.poll,
                    tally |-> MoveVote(cb.tally, cb.req.index, cb.req.extra)]
             uw == [to |-> "user",
                    list |-> ReplaceRecord(cb.req.arrays, cb.req.poll, cb.req.index)]
  <2>1. cb \in VoteCallback
    BY <1>8, HeadVote DEF CountSecond
  <2>2. cb \in SingleCallback /\ mainQueue' \in [Devices -> Seq(SingleCallback)]
    BY <1>8, DropHeadSingle DEF CountSecond, Ready
  <2>3. cb.req \in VoteRequest /\ Single(cb.req.arrays)
    BY <2>1, <2>2 DEF VoteCallback, SingleCallback
  <2>4. /\ cb.req.poll \in Polls /\ cb.req.index \in Variants
        /\ cb.req.extra \in Variants /\ cb.req.arrays \in SUBSET Record
    BY <2>3 DEF VoteRequest, Request
  <2>5. outbox' \in [Devices -> Seq(SingleWrite)]
    <3>1. CASE cb.tally = Absent
      <4>1. outbox' = outbox
        BY <1>8, <3>1 DEF CountSecond
      <4> QED
        BY <4>1 DEF ListsSingle
    <3>2. CASE cb.tally # Absent
      <4>1. vw \in SingleWrite
        BY <2>1, <2>4, <3>2, TallyOperatorsType
        DEF VoteCallback, Write, VoteWrite, SingleWrite
      <4>2. uw \in SingleWrite
        BY <2>3, <2>4, RecordOperatorsType, SingleOperators
        DEF Write, UserWrite, SingleWrite
      <4>3. <<vw, uw>> \in Seq(SingleWrite)
        BY <4>1, <4>2
      <4>4. outbox' = [outbox EXCEPT ![d] = @ \o <<vw, uw>>]
        BY <1>8, <3>2 DEF CountSecond
      <4> HIDE DEF vw, uw, cb
      <4> QED
        BY <4>3, <4>4 DEF ListsSingle
    <3> QED
      BY <3>1, <3>2
  <2> QED
    BY <1>8, <2>2, <2>5 DEF CountSecond, ListsSingle, database, copies
<1>9. ASSUME NEW d \in Devices, Apply(d)
      PROVE  ListsSingle'
  <2> DEFINE w == outbox[d][applied[d] + 1]
  <2>1. w \in SingleWrite
    BY <1>9, QueuedWrites DEF Apply, ListsSingle
  <2>2. users' \in [Users -> SingleList]
    BY <1>9, <2>1 DEF Apply, ListsSingle, SingleWrite, SingleList, Write, UserWrite, VoteWrite
  <2> QED
    BY <1>9, <2>2 DEF Apply, ListsSingle, copies
<1>10. ASSUME NEW d \in Devices, Acknowledge(d)
       PROVE  ListsSingle'
  <2> DEFINE w == Head(outbox[d])
  <2>1. outbox[d] # <<>> /\ w \in SingleWrite /\ Tail(outbox[d]) \in Seq(SingleWrite)
    BY <1>10, QueuedWrites DEF Acknowledge, ListsSingle
  <2>2. outbox' \in [Devices -> Seq(SingleWrite)]
    BY <1>10, <2>1 DEF Acknowledge, ListsSingle
  <2>3. ownUser' \in [Devices -> SingleList]
    BY <1>10, <2>1
    DEF Acknowledge, Kept, ListsSingle, SingleWrite, SingleList, Write, UserWrite, VoteWrite
  <2> QED
    BY <1>10, <2>2, <2>3 DEF Acknowledge, ListsSingle, database
<1>11. ASSUME NEW d \in Devices, RejectWrite(d)
       PROVE  ListsSingle'
  <2>1. Tail(outbox[d]) \in Seq(SingleWrite)
    BY <1>11, QueuedWrites DEF RejectWrite, ListsSingle
  <2> QED
    BY <1>11, <2>1 DEF RejectWrite, ListsSingle, database, copies
<1>12. ASSUME NEW d \in Devices, Resend(d)
       PROVE  ListsSingle'
  BY <1>12 DEF Resend, ListsSingle, database, copies
<1>13. ASSUME NEW d \in Devices, Crash(d)
       PROVE  ListsSingle'
  <2>1. mainQueue' \in [Devices -> Seq(SingleCallback)]
    BY <1>13 DEF Crash, ListsSingle
  <2> QED
    BY <1>13, <2>1 DEF Crash, ListsSingle, database, copies
<1>14. ASSUME NEW d \in Devices, Refresh(d)
       PROVE  ListsSingle'
  <2>1. ownUser' \in [Devices -> SingleList]
    BY <1>14 DEF Refresh, ListsSingle
  <2> QED
    BY <1>14, <2>1 DEF Refresh, ListsSingle, database, sending
<1>15. ASSUME NEW r \in requests, RecallUser(r)
       PROVE  ListsSingle'
  <2>1. r \in UserRequest /\ Single(r.arrays)
    BY <1>15 DEF RecallUser, ListsSingle, SingleRequest, UserRequest, VoteRequest, Request
  <2>2. r.dev \in Devices
    BY <2>1 DEF UserRequest, Request
  <2>3. ownUser[r.dev] \in SUBSET Record /\ Single(ownUser[r.dev])
    BY <2>2 DEF ListsSingle, SingleList
  <2>4. [req |-> r, list |-> LocalUser(r.dev, ownUser[r.dev])] \in SingleCallback
    BY <2>1, <2>2, <2>3, LocalUserType, LocalUserSingle DEF SingleCallback, UserCallback
  <2>5. mainQueue' \in [Devices -> Seq(SingleCallback)]
    BY <1>15, <2>2, <2>4 DEF RecallUser, ListsSingle
  <2> QED
    BY <1>15, <2>5 DEF RecallUser, ListsSingle, database, sending, copies
<1>16. ASSUME NEW r \in requests, RecallVote(r)
       PROVE  ListsSingle'
  <2>1. r \in VoteRequest /\ Single(r.arrays)
    BY <1>16 DEF RecallVote, ListsSingle, SingleRequest, UserRequest, VoteRequest, Request
  <2>2. r.dev \in Devices /\ r.poll \in Polls /\ r.kind # "user"
    BY <2>1 DEF VoteRequest, Request
  <2> DEFINE tally == LocalVote(r.dev, r.poll, ownVotes[r.dev][r.poll])
  <2>3. [req |-> r, tally |-> tally] \in SingleCallback
    <3>1. ownVotes[r.dev][r.poll] \in Tally \cup {Absent}
      BY <2>2 DEF TypeOK
    <3> QED
      BY <2>1, <2>2, <3>1, LocalVoteType DEF SingleCallback, VoteCallback
  <2>4. mainQueue' \in [Devices -> Seq(SingleCallback)]
    BY <1>16, <2>2, <2>3 DEF RecallVote, ListsSingle
  <2> QED
    BY <1>16, <2>4 DEF RecallVote, ListsSingle, database, sending, copies
<1>17. ASSUME NEW p \in Polls, DeletePoll(p)
       PROVE  ListsSingle'
  BY <1>17 DEF DeletePoll, ListsSingle, client
<1>18. ASSUME UNCHANGED vars
       PROVE  ListsSingle'
  BY <1>18 DEF vars, ListsSingle
<1> QED
  BY <1>1, <1>2, <1>3, <1>4, <1>5, <1>6, <1>7, <1>8, <1>9, <1>10, <1>11, <1>12, <1>13,
     <1>14, <1>15, <1>16, <1>17, <1>18
  DEF Next

\* A userVotesList never holds two records of one poll, whatever the number
\* of devices and taps, and whatever fails.
THEOREM OneRecordPerPollHolds == Spec => []OneRecordPerPoll
<1>1. Init => ListsSingle
  BY DEF Init, ListsSingle, SingleList, Single
<1>2. ListsSingle => OneRecordPerPoll
  BY DEF ListsSingle, SingleList, OneRecordPerPoll
<1> QED
  BY <1>1, <1>2, TypeCorrect, SingleStep, PTL DEF Spec

-----------------------------------------------------------------------------
(* The counters stay within the increments and moves written *)

(***************************************************************************)
(* CountersBounded speaks of the Votes documents alone.  A tally travels   *)
(* from a document, or a device's copy of it, to a callback, is changed    *)
(* there, waits in the outbox and comes back to the document, perhaps      *)
(* after newer ones; TalliesWithin bounds it everywhere on that way.  The  *)
(* bounds only grow, so an old tally stays within them.                    *)
(***************************************************************************)
WithinTally(p)  == {t \in Tally \cup {Absent} : t # Absent => Within(t, p)}
WithinWrite     == {w \in Write : w.to = "vote" => Within(w.tally, w.poll)}
WithinCallback  == {cb \in UserCallback \cup VoteCallback :
                      cb.req.kind # "user" => cb.tally \in WithinTally(cb.req.poll)}

TalliesWithin ==
    /\ \A p \in Polls : votes[p] \in WithinTally(p)
    /\ outbox \in [Devices -> Seq(WithinWrite)]
    /\ \A d \in Devices, p \in Polls : ownVotes[d][p] \in WithinTally(p)
    /\ mainQueue \in [Devices -> Seq(WithinCallback)]

\* firsts and seconds are never reset, so what was within stays within.
LEMMA BoundsGrow ==
  ASSUME TypeOK, TypeOK',
         \A p \in Polls : firsts[p] <= firsts'[p] /\ seconds[p] <= seconds'[p]
  PROVE  /\ \A p \in Polls : WithinTally(p) \subseteq WithinTally(p)'
         /\ WithinWrite \subseteq WithinWrite'
         /\ WithinCallback \subseteq WithinCallback'
<1>1. ASSUME NEW p \in Polls, NEW t \in Tally, Within(t, p)
      PROVE  Within(t, p)'
  <2>1. /\ firsts[p] \in Nat /\ firsts'[p] \in Nat /\ firsts[p] <= firsts'[p]
        /\ seconds[p] \in Nat /\ seconds'[p] \in Nat /\ seconds[p] <= seconds'[p]
    BY DEF TypeOK
  <2>2. \A v \in Variants : t[v] \in Int
    BY DEF Tally
  <2> QED
    BY <1>1, <2>1, <2>2 DEF Within
<1>2. \A p \in Polls : WithinTally(p) \subseteq WithinTally(p)'
  BY <1>1 DEF WithinTally
<1>3. WithinWrite \subseteq WithinWrite'
  BY <1>1 DEF WithinWrite, Write, UserWrite, VoteWrite
<1>4. WithinCallback \subseteq WithinCallback'
  <2> SUFFICES ASSUME NEW cb \in WithinCallback PROVE cb \in WithinCallback'
    OBVIOUS
  <2>1. cb \in UserCallback \cup VoteCallback /\ cb.req.poll \in Polls
    BY DEF WithinCallback, UserCallback, VoteCallback, UserRequest, VoteRequest, Request
  <2> QED
    BY <1>2, <2>1 DEF WithinCallback
<1> QED
  BY <1>2, <1>3, <1>4

\* voteFirst raises one counter by one, voteSecond lowers one by one and
\* copies the old value of it.
LEMMA WithinOperators ==
  ASSUME TypeOK, TypeOK', NEW p \in Polls, NEW t \in Tally, Within(t, p),
         NEW i \in Variants, NEW x \in Variants
  PROVE  /\ firsts'[p] = firsts[p] + 1 /\ seconds'[p] = seconds[p]
            => [to |-> "vote", poll |-> p, tally |-> AddVote(t, i)] \in WithinWrite'
         /\ seconds'[p] = seconds[p] + 1 /\ firsts'[p] = firsts[p]
            => [to |-> "vote", poll |-> p, tally |-> MoveVote(t, i, x)] \in WithinWrite'
<1>1. /\ firsts[p] \in Nat /\ firsts'[p] \in Nat
      /\ seconds[p] \in Nat /\ seconds'[p] \in Nat
  BY DEF TypeOK
<1>2. \A v \in Variants : t[v] \in Int /\ -seconds[p] <= t[v] /\ t[v] <= firsts[p]
  BY DEF Tally, Within
<1>3. \A v \in Variants : AddVote(t, i)[v] = IF v = i THEN t[v] + 1 ELSE t[v]
  BY DEF AddVote, Tally
<1>4. \A v \in Variants : MoveVote(t, i, x)[v] =
        IF v = i THEN t[x] - 1 + 1 ELSE IF v = x THEN t[v] - 1 ELSE t[v]
  BY DEF MoveVote, Tally
<1>5. ASSUME firsts'[p] = firsts[p] + 1, seconds'[p] = seconds[p]
      PROVE  [to |-> "vote", poll |-> p, tally |-> AddVote(t, i)] \in WithinWrite'
  <2>1. Within(AddVote(t, i), p)'
    BY <1>1, <1>2, <1>3, <1>5 DEF Within
  <2> QED
    BY <2>1, TallyOperatorsType DEF WithinWrite, Write, VoteWrite
<1>6. ASSUME seconds'[p] = seconds[p] + 1, firsts'[p] = firsts[p]
      PROVE  [to |-> "vote", poll |-> p, tally |-> MoveVote(t, i, x)] \in WithinWrite'
  <2>1. Within(MoveVote(t, i, x), p)'
    BY <1>1, <1>2, <1>4, <1>6 DEF Within
  <2> QED
    BY <2>1, TallyOperatorsType DEF WithinWrite, Write, VoteWrite
<1> QED
  BY <1>5, <1>6

\* A device never sees a tally out of bounds.
LEMMA LocalVoteWithin ==
  ASSUME TypeOK, TalliesWithin, NEW d \in Devices, NEW p \in Polls,
         NEW tally \in WithinTally(p)
  PROVE  LocalVote(d, p, tally) \in WithinTally(p)
<1>1. outbox[d] \in Seq(WithinWrite)
  BY DEF TalliesWithin
<1>2. \A k \in DOMAIN outbox[d] : outbox[d][k] \in WithinWrite
  BY <1>1
<1> QED
  BY <1>2, LocalVoteSource DEF WithinWrite, WithinTally, Write, UserWrite, VoteWrite

\* What every step leaves in place, seen with the new bounds.
LEMMA WithinCarried ==
  ASSUME TypeOK, TypeOK', TalliesWithin,
         \A p \in Polls : firsts[p] <= firsts'[p] /\ seconds[p] <= seconds'[p]
  PROVE  /\ \A p \in Polls : votes[p] \in WithinTally(p)'
         /\ \A d \in Devices, p \in Polls : ownVotes[d][p] \in WithinTally(p)'
         /\ outbox \in [Devices -> Seq(WithinWrite')]
         /\ mainQueue \in [Devices -> Seq(WithinCallback')]
<1>1. /\ \A p \in Polls : votes[p] \in WithinTally(p)'
      /\ \A d \in Devices, p \in Polls : ownVotes[d][p] \in WithinTally(p)'
  BY BoundsGrow DEF TalliesWithin
<1>2. WithinWrite \subseteq WithinWrite' /\ WithinCallback \subseteq WithinCallback'
  BY BoundsGrow
<1> DEFINE W == WithinWrite
           V == WithinWrite'
           C == WithinCallback
           D == WithinCallback'
<1>3. outbox \in [Devices -> Seq(W)] /\ mainQueue \in [Devices -> Seq(C)]
  BY DEF TalliesWithin
<1>4. W \subseteq V /\ C \subseteq D
  BY <1>2
<1> HIDE DEF W, V, C, D
<1>5. Seq(W) \subseteq Seq(V) /\ Seq(C) \subseteq Seq(D)
  BY <1>4
<1>6. outbox \in [Devices -> Seq(V)] /\ mainQueue \in [Devices -> Seq(D)]
  BY <1>3, <1>5
<1> QED
  BY <1>1, <1>6 DEF V, D

\* Every action keeps TalliesWithin.
LEMMA WithinStep == TypeOK /\ TypeOK' /\ TalliesWithin /\ [Next]_vars => TalliesWithin'
<1> SUFFICES ASSUME TypeOK, TypeOK', TalliesWithin, [Next]_vars PROVE TalliesWithin'
  OBVIOUS
<1> DEFINE Still == firsts' = firsts /\ seconds' = seconds
\* While the bounds stand still, so do the sets.
<1>0. ASSUME Still
      PROVE  /\ \A p \in Polls : votes[p] \in WithinTally(p)'
             /\ \A d \in Devices, p \in Polls : ownVotes[d][p] \in WithinTally(p)'
             /\ outbox \in [Devices -> Seq(WithinWrite')]
             /\ mainQueue \in [Devices -> Seq(WithinCallback')]
             /\ \A p \in Polls : WithinTally(p) \subseteq WithinTally(p)'
  <2>1. \A p \in Polls : firsts[p] <= firsts'[p] /\ seconds[p] <= seconds'[p]
    BY <1>0 DEF TypeOK
  <2> QED
    BY <2>1, WithinCarried, BoundsGrow
<1>1. ASSUME NEW d \in Devices, NEW p \in Polls, NEW i \in Variants, TabOnCell(d, p, i)
      PROVE  TalliesWithin'
  <2>1. Still /\ UNCHANGED <<votes, ownVotes, outbox, mainQueue>>
    BY <1>1 DEF TabOnCell, database, sending, copies
  <2> QED
    BY <1>0, <2>1 DEF TalliesWithin
<1>2. ASSUME NEW r \in requests, AnswerUser(r)
      PROVE  TalliesWithin'
  <2>1. Still /\ UNCHANGED <<votes, ownVotes, outbox>>
    BY <1>2 DEF AnswerUser, database, sending, history
  <2>2. r \in UserRequest /\ r.dev \in Devices
    BY <1>2 DEF AnswerUser, TypeOK, UserRequest, VoteRequest, Request
  <2> DEFINE cb == [req |-> r, list |-> LocalUser(r.dev, users[Email[r.dev]])]
  <2>3. cb \in WithinCallback'
    <3>1. users[Email[r.dev]] \in SUBSET Record
      BY <2>2, EmailAssumption DEF TypeOK
    <3> QED
      BY <2>2, <3>1, LocalUserType DEF WithinCallback, UserCallback, UserRequest, Request
  <2>4. mainQueue' = [mainQueue EXCEPT ![r.dev] = Append(@, cb)]
    BY <1>2 DEF AnswerUser
  <2> HIDE DEF cb
  <2>5. mainQueue' \in [Devices -> Seq(WithinCallback')]
    BY <1>0, <2>1, <2>2, <2>3, <2>4
  <2> QED
    BY <1>0, <2>1, <2>5 DEF TalliesWithin
<1>3. ASSUME NEW r \in requests, AnswerVote(r)
      PROVE  TalliesWithin'
  <2>1. Still /\ UNCHANGED <<votes, outbox>>
    BY <1>3 DEF AnswerVote, database, sending, history
  <2>2. r \in VoteRequest /\ r.dev \in Devices /\ r.poll \in Polls
    BY <1>3 DEF AnswerVote, TypeOK, UserRequest, VoteRequest, Request
  <2> DEFINE cb == [req |-> r, tally |-> LocalVote(r.dev, r.poll, votes[r.poll])]
  <2>3. cb \in WithinCallback'
    <3>1. votes[r.poll] \in Tally \cup {Absent} /\ votes[r.poll] \in WithinTally(r.poll)
      BY <2>2 DEF TypeOK, TalliesWithin
    <3>2. LocalVote(r.dev, r.poll, votes[r.poll]) \in WithinTally(r.poll)'
      BY <1>0, <2>1, <2>2, <3>1, LocalVoteWithin
    <3> QED
      BY <2>2, <3>1, <3>2, LocalVoteType DEF WithinCallback, VoteCallback
  <2>4. mainQueue' = [mainQueue EXCEPT ![r.dev] = Append(@, cb)]
    BY <1>3 DEF AnswerVote
  <2> HIDE DEF cb
  <2>5. mainQueue' \in [Devices -> Seq(WithinCallback')]
    BY <1>0, <2>1, <2>2, <2>3, <2>4
  <2>6. \A d \in Devices, p \in Polls : ownVotes'[d][p] \in WithinTally(p)'
    <3>1. \A p \in Polls : votes[p] \in WithinTally(p)'
      BY <1>0, <2>1
    <3>2. \A d \in Devices, p \in Polls : ownVotes[d][p] \in WithinTally(p)'
      BY <1>0, <2>1
    <3>3. ownVotes' = [ownVotes EXCEPT ![r.dev][r.poll] = Kept(r.dev, @, votes[r.poll])]
      BY <1>3 DEF AnswerVote
    <3> HIDE DEF Still
    <3> QED
      BY <2>2, <3>1, <3>2, <3>3 DEF Kept, TypeOK
  <2> QED
    BY <1>0, <2>1, <2>5, <2>6 DEF TalliesWithin
<1>4. ASSUME NEW r \in requests, FailRead(r)
      PROVE  TalliesWithin'
  <2>1. Still /\ UNCHANGED <<votes, ownVotes, outbox, mainQueue>>
    BY <1>4 DEF FailRead, database, sending, copies
  <2> QED
    BY <1>0, <2>1 DEF TalliesWithin
\* The callbacks take the head of the main queue.
<1>5. ASSUME NEW d \in Devices, mainQueue[d] # <<>>,
             mainQueue' = [mainQueue EXCEPT ![d] = Tail(@)],
             mainQueue \in [Devices -> Seq(WithinCallback')]
      PROVE  mainQueue' \in [Devices -> Seq(WithinCallback')]
  <2> DEFINE C == WithinCallback'
  <2> HIDE DEF C
  <2>1. mainQueue[d] \in Seq(C) /\ mainQueue \in [Devices -> Seq(C)]
    BY <1>5 DEF C
  <2>2. Tail(mainQueue[d]) \in Seq(C)
    BY <1>5, <2>1, HeadTailProperties
  <2>3. mainQueue' \in [Devices -> Seq(C)]
    BY <1>5, <2>1, <2>2
  <2> QED
    BY <2>3 DEF C
<1>6. ASSUME NEW d \in Devices, VoteFirst(d)
      PROVE  TalliesWithin'
  <2> DEFINE cb == Head(mainQueue[d])
             uw == [to |-> "user", list |-> AppendRecord(cb.list, cb.req.poll, cb.req.index)]
  <2>1. /\ Still /\ UNCHANGED <<votes, ownVotes>>
        /\ outbox' = [outbox EXCEPT ![d] = Append(@, uw)]
    BY <1>6 DEF VoteFirst, database, copies, history
  <2>2. mainQueue' \in [Devices -> Seq(WithinCallback')]
    BY <1>0, <1>5, <1>6, <2>1 DEF VoteFirst, Ready
  <2>3. cb.req.poll \in Polls /\ cb.req.index \in Variants /\ cb.list \in SUBSET Record
    BY <1>6, HeadUser DEF VoteFirst, UserCallback, UserRequest, Request
  <2>4. uw \in WithinWrite'
    BY <2>3, RecordOperatorsType DEF WithinWrite, Write, UserWrite
  <2> HIDE DEF uw
  <2>5. outbox' \in [Devices -> Seq(WithinWrite')]
    BY <1>0, <2>1, <2>4
  <2> QED
    BY <1>0, <2>1, <2>2, <2>5 DEF TalliesWithin
<1>7. ASSUME NEW d \in Devices, VoteSecond(d)
      PROVE  TalliesWithin'
  <2>1. Still /\ UNCHANGED <<votes, ownVotes, outbox>>
    BY <1>7 DEF VoteSecond, database, sending, copies, history
  <2>2. mainQueue' \in [Devices -> Seq(WithinCallback')]
    BY <1>0, <1>5, <1>7, <2>1 DEF VoteSecond, Ready
  <2> QED
    BY <1>0, <2>1, <2>2 DEF TalliesWithin
\* The tally that a counting callback was answered with.
<1>8. ASSUME NEW d \in Devices, Ready(d, "first") \/ Ready(d, "second"),
             Head(mainQueue[d]).tally # Absent
      PROVE  LET cb == Head(mainQueue[d]) IN
             /\ cb.req.poll \in Polls /\ cb.req.index \in Variants /\ cb.req.extra \in Variants
             /\ cb.tally \in Tally /\ Within(cb.tally, cb.req.poll)
  <2> DEFINE cb == Head(mainQueue[d])
  <2>1. cb \in VoteCallback
    BY <1>8, HeadVote
  <2>2. mainQueue[d] \in Seq(WithinCallback) /\ mainQueue[d] # <<>>
    BY <1>8 DEF TalliesWithin, Ready
  <2>3. cb \in WithinCallback
    BY <2>2, HeadTailProperties
  <2>4. cb.req \in VoteRequest /\ cb.tally \in Tally
    BY <1>8, <2>1 DEF VoteCallback
  <2>5. cb.req.kind # "user" /\ cb.req.poll \in Polls
        /\ cb.req.index \in Variants /\ cb.req.extra \in Variants
    BY <2>4 DEF VoteRequest, Request
  <2>6. Within(cb.tally, cb.req.poll)
    BY <1>8, <2>3, <2>5 DEF WithinCallback, WithinTally
  <2> QED
    BY <2>4, <2>5, <2>6
<1>9. ASSUME NEW d \in Devices, CountFirst(d)
      PROVE  TalliesWithin'
  <2> DEFINE cb == Head(mainQueue[d])
             vw == [to |-> "vote", poll |-> cb.req.poll,
                    tally |-> AddVote(cb.tally, cb.req.index)]
  <2>1. UNCHANGED <<votes, ownVotes, seconds>>
    BY <1>9 DEF CountFirst, database, copies
  <2>2. CASE cb.tally = Absent
    <3>1. Still /\ outbox' = outbox
      BY <1>9, <2>1, <2>2 DEF CountFirst
    <3>2. mainQueue' \in [Devices -> Seq(WithinCallback')]
      BY <1>0, <1>5, <1>9, <3>1 DEF CountFirst, Ready
    <3> QED
      BY <1>0, <2>1, <3>1, <3>2 DEF TalliesWithin
  <2>3. CASE cb.tally # Absent
    <3>1. /\ outbox' = [outbox EXCEPT ![d] = Append(@, vw)]
          /\ firsts' = [firsts EXCEPT ![cb.req.poll] = @ + 1]
      BY <1>9, <2>3 DEF CountFirst
    <3>2. /\ cb.req.poll \in Polls /\ cb.req.index \in Variants /\ cb.req.extra \in Variants
          /\ cb.tally \in Tally /\ Within(cb.tally, cb.req.poll)
      BY <1>8, <1>9, <2>3 DEF CountFirst
    <3>3. \A p \in Polls : firsts[p] <= firsts'[p] /\ seconds[p] <= seconds'[p]
      <4>1. firsts \in [Polls -> Nat] /\ seconds \in [Polls -> Nat]
        BY DEF TypeOK
      <4> HIDE DEF cb, vw
      <4> QED
        BY <2>1, <3>1, <3>2, <4>1
    <3>4. firsts'[cb.req.poll] = firsts[cb.req.poll] + 1
          /\ seconds'[cb.req.poll] = seconds[cb.req.poll]
      BY <2>1, <3>1, <3>2 DEF TypeOK
    <3>5. vw \in WithinWrite'
      BY <3>2, <3>4, WithinOperators
    <3>6. /\ outbox \in [Devices -> Seq(WithinWrite')]
          /\ mainQueue \in [Devices -> Seq(WithinCallback')]
          /\ \A p \in Polls : votes[p] \in WithinTally(p)'
          /\ \A e \in Devices, p \in Polls : ownVotes[e][p] \in WithinTally(p)'
      BY <3>3, WithinCarried
    <3>7. mainQueue' \in [Devices -> Seq(WithinCallback')]
      BY <1>5, <1>9, <3>6 DEF CountFirst, Ready
    <3> HIDE DEF vw
    <3>8. outbox' \in [Devices -> Seq(WithinWrite')]
      BY <3>1, <3>5, <3>6
    <3> QED
      BY <2>1, <3>6, <3>7, <3>8 DEF TalliesWithin
  <2> QED
    BY <2>2, <2>3
<1>10. ASSUME NEW d \in Devices, CountSecond(d)
       PROVE  TalliesWithin'
  <2> DEFINE cb == Head(mainQueue[d])
             vw == [to |-> "vote", poll |-> cb.req.poll,
                    tally |-> MoveVote(cb.tally, cb.req.index, cb.req.extra)]
             uw == [to |-> "user",
                    list |-> ReplaceRecord(cb.req.arrays, cb.req.poll, cb.req.index)]
  <2>1. UNCHANGED <<votes, ownVotes, firsts>>
    BY <1>10 DEF CountSecond, database, copies
  <2>2. CASE cb.tally = Absent
    <3>1. Still /\ outbox' = outbox
      BY <1>10, <2>1, <2>2 DEF CountSecond
    <3>2. mainQueue' \in [Devices -> Seq(WithinCallback')]
      BY <1>0, <1>5, <1>10, <3>1 DEF CountSecond, Ready
    <3> QED
      BY <1>0, <2>1, <3>1, <3>2 DEF TalliesWithin
  <2>3. CASE cb.tally # Absent
    <3>1. /\ outbox' = [outbox EXCEPT ![d] = @ \o <<vw, uw>>]
          /\ seconds' = [seconds EXCEPT ![cb.req.poll] = @ + 1]
      BY <1>10, <2>3 DEF CountSecond
    <3>2. /\ cb.req.poll \in Polls /\ cb.req.index \in Variants /\ cb.req.extra \in Variants
          /\ cb.tally \in Tally /\ Within(cb.tally, cb.req.poll)
      BY <1>8, <1>10, <2>3 DEF CountSecond
    <3>3. \A p \in Polls : firsts[p] <= firsts'[p] /\ seconds[p] <= seconds'[p]
      <4>1. firsts \in [Polls -> Nat] /\ seconds \in [Polls -> Nat]
        BY DEF TypeOK
      <4> HIDE DEF cb, vw
      <4> QED
        BY <2>1, <3>1, <3>2, <4>1
    <3>4. seconds'[cb.req.poll] = seconds[cb.req.poll] + 1
          /\ firsts'[cb.req.poll] = firsts[cb.req.poll]
      BY <2>1, <3>1, <3>2 DEF TypeOK
    <3>5. vw \in WithinWrite'
      BY <3>2, <3>4, WithinOperators
    <3>6. uw \in WithinWrite'
      <4>1. cb.req.arrays \in SUBSET Record
        BY <1>10, HeadVote DEF CountSecond, VoteCallback, VoteRequest, Request
      <4> QED
        BY <3>2, <4>1, RecordOperatorsType DEF WithinWrite, Write, UserWrite
    <3>7. /\ outbox \in [Devices -> Seq(WithinWrite')]
          /\ mainQueue \in [Devices -> Seq(WithinCallback')]
          /\ \A p \in Polls : votes[p] \in WithinTally(p)'
          /\ \A e \in Devices, p \in Polls : ownVotes[e][p] \in WithinTally(p)'
      BY <3>3, WithinCarried
    <3>8. mainQueue' \in [Devices -> Seq(WithinCallback')]
      BY <1>5, <1>10, <3>7 DEF CountSecond, Ready
    <3> HIDE DEF vw, uw
    <3>9. <<vw, uw>> \in Seq(WithinWrite')
      BY <3>5, <3>6
    <3>10. outbox' \in [Devices -> Seq(WithinWrite')]
      BY <3>1, <3>7, <3>9
    <3> QED
      BY <2>1, <3>7, <3>8, <3>10 DEF TalliesWithin
  <2> QED
    BY <2>2, <2>3
\* The oldest queued write and the rest of the queue.
<1>11. ASSUME NEW d \in Devices, outbox[d] # <<>>, Still,
              outbox' = [outbox EXCEPT ![d] = Tail(@)]
       PROVE  /\ Head(outbox[d]) \in WithinWrite'
              /\ outbox' \in [Devices -> Seq(WithinWrite')]
  <2> DEFINE W == WithinWrite'
  <2> HIDE DEF W
  <2>1. outbox \in [Devices -> Seq(W)]
    BY <1>0, <1>11 DEF W
  <2>2. Head(outbox[d]) \in W /\ Tail(outbox[d]) \in Seq(W)
    BY <1>11, <2>1, QueuedWrites
  <2>3. outbox' \in [Devices -> Seq(W)]
    BY <1>11, <2>1, <2>2
  <2> QED
    BY <2>2, <2>3 DEF W
\* What a queued write may turn a document of a poll into.
<1>12. ASSUME NEW w \in WithinWrite', w.to = "vote"
       PROVE  /\ w.poll \in Polls /\ w.tally \in Tally
              /\ \A p \in Polls : /\ Absent \in WithinTally(p)'
                                  /\ p = w.poll => w.tally \in WithinTally(p)'
  BY <1>12 DEF WithinWrite, WithinTally, Write, UserWrite, VoteWrite
<1>13. ASSUME NEW d \in Devices, Apply(d)
       PROVE  TalliesWithin'
  <2> DEFINE w == outbox[d][applied[d] + 1]
  <2>1. Still /\ UNCHANGED <<ownVotes, outbox, mainQueue>>
    BY <1>13 DEF Apply, copies, history
  <2>2. w \in WithinWrite'
    <3> DEFINE W == WithinWrite'
    <3> HIDE DEF W
    <3>1. outbox \in [Devices -> Seq(W)]
      BY <1>0, <2>1 DEF W
    <3>2. w \in W
      BY <1>13, <3>1, QueuedWrites DEF Apply
    <3> QED
      BY <3>2 DEF W
  <2>3. \A p \in Polls : votes'[p] \in WithinTally(p)'
    <3>1. CASE votes' = votes
      BY <1>0, <2>1, <3>1
    <3>2. CASE /\ w.to = "vote"
               /\ votes' = [votes EXCEPT ![w.poll] = UpdateData(@, w.tally)]
      <4>1. /\ w.poll \in Polls /\ w.tally \in Tally
            /\ \A p \in Polls : /\ Absent \in WithinTally(p)'
                                /\ p = w.poll => w.tally \in WithinTally(p)'
        BY <1>12, <2>2, <3>2
      <4> HIDE DEF w
      <4> QED
        BY <1>0, <2>1, <3>2, <4>1 DEF TypeOK, UpdateData
    <3> QED
      BY <1>13, <3>1, <3>2 DEF Apply
  <2> QED
    BY <1>0, <2>1, <2>3 DEF TalliesWithin
<1>14. ASSUME NEW d \in Devices, Acknowledge(d)
       PROVE  TalliesWithin'
  <2> DEFINE w == Head(outbox[d])
  <2>1. Still /\ UNCHANGED <<votes, mainQueue>>
    BY <1>14 DEF Acknowledge, database, history
  <2>2. outbox[d] # <<>>
    BY <1>14, QueuedWrites DEF Acknowledge, TypeOK
  <2>3. w \in WithinWrite' /\ outbox' \in [Devices -> Seq(WithinWrite')]
    BY <1>11, <1>14, <2>1, <2>2 DEF Acknowledge
  <2>4. \A e \in Devices, p \in Polls : ownVotes'[e][p] \in WithinTally(p)'
    <3>1. CASE ownVotes' = ownVotes
      BY <1>0, <2>1, <3>1
    <3>2. CASE /\ w.to = "vote"
               /\ ownVotes' = [ownVotes EXCEPT
                    ![d][w.poll] = Kept(d, @, UpdateData(@, w.tally))]
      <4>1. /\ w.poll \in Polls /\ w.tally \in Tally
            /\ \A p \in Polls : /\ Absent \in WithinTally(p)'
                                /\ p = w.poll => w.tally \in WithinTally(p)'
        BY <1>12, <2>3, <3>2
      <4> HIDE DEF w
      <4> QED
        BY <1>0, <2>1, <3>2, <4>1 DEF TypeOK, Kept, UpdateData
    <3> QED
      BY <1>14, <3>1, <3>2 DEF Acknowledge
  <2> QED
    BY <1>0, <2>1, <2>3, <2>4 DEF TalliesWithin
<1>15. ASSUME NEW d \in Devices, RejectWrite(d)
       PROVE  TalliesWithin'
  <2>1. Still /\ UNCHANGED <<votes, ownVotes, mainQueue>>
    BY <1>15 DEF RejectWrite, database, copies
  <2>2. outbox' \in [Devices -> Seq(WithinWrite')]
    BY <1>11, <1>15, <2>1 DEF RejectWrite
  <2> QED
    BY <1>0, <2>1, <2>2 DEF TalliesWithin
<1>16. ASSUME NEW d \in Devices, Resend(d)
       PROVE  TalliesWithin'
  <2>1. Still /\ UNCHANGED <<votes, ownVotes, outbox, mainQueue>>
    BY <1>16 DEF Resend, database, copies
  <2> QED
    BY <1>0, <2>1 DEF TalliesWithin
<1>17. ASSUME NEW d \in Devices, Crash(d)
       PROVE  TalliesWithin'
  <2>1. /\ Still /\ UNCHANGED <<votes, ownVotes, outbox>>
        /\ mainQueue' = [mainQueue EXCEPT ![d] = <<>>]
    BY <1>17 DEF Crash, database, copies
  <2>2. mainQueue' \in [Devices -> Seq(WithinCallback')]
    BY <1>0, <2>1
  <2> QED
    BY <1>0, <2>1, <2>2 DEF TalliesWithin
<1>18. ASSUME NEW d \in Devices, Refresh(d)
       PROVE  TalliesWithin'
  <2>1. /\ Still /\ UNCHANGED <<votes, outbox, mainQueue>>
        /\ ownVotes' = [ownVotes EXCEPT ![d] = votes]
    BY <1>18 DEF Refresh, database, sending, history
  <2>2. \A e \in Devices, p \in Polls : ownVotes'[e][p] \in WithinTally(p)'
    BY <1>0, <2>1 DEF TypeOK
  <2> QED
    BY <1>0, <2>1, <2>2 DEF TalliesWithin
<1>19. ASSUME NEW r \in requests, RecallUser(r)
       PROVE  TalliesWithin'
  <2>1. Still /\ UNCHANGED <<votes, ownVotes, outbox>>
    BY <1>19 DEF RecallUser, database, sending, copies
  <2>2. r \in UserRequest /\ r.dev \in Devices
    BY <1>19 DEF RecallUser, TypeOK, UserRequest, VoteRequest, Request
  <2> DEFINE cb == [req |-> r, list |-> LocalUser(r.dev, ownUser[r.dev])]
  <2>3. cb \in WithinCallback'
    <3>1. ownUser[r.dev] \in SUBSET Record
      BY <2>2 DEF TypeOK
    <3> QED
      BY <2>2, <3>1, LocalUserType DEF WithinCallback, UserCallback, UserRequest, Request
  <2>4. mainQueue' = [mainQueue EXCEPT ![r.dev] = Append(@, cb)]
    BY <1>19 DEF RecallUser
  <2> HIDE DEF cb
  <2>5. mainQueue' \in [Devices -> Seq(WithinCallback')]
    BY <1>0, <2>1, <2>2, <2>3, <2>4
  <2> QED
    BY <1>0, <2>1, <2>5 DEF TalliesWithin
<1>20. ASSUME NEW r \in requests, RecallVote(r)
       PROVE  TalliesWithin'
  <2>1. Still /\ UNCHANGED <<votes, ownVotes, outbox>>
    BY <1>20 DEF RecallVote, database, sending, copies
  <2>2. r \in VoteRequest /\ r.dev \in Devices /\ r.poll \in Polls
    BY <1>20 DEF RecallVote, TypeOK, UserRequest, VoteRequest, Request
  <2> DEFINE own == ownVotes[r.dev][r.poll]
             cb == [req |-> r, tally |-> LocalVote(r.dev, r.poll, own)]
  <2>3. cb \in WithinCallback'
    <3>1. own \in Tally \cup {Absent} /\ own \in WithinTally(r.poll)
      BY <2>2 DEF TypeOK, TalliesWithin
    <3>2. LocalVote(r.dev, r.poll, own) \in WithinTally(r.poll)'
      BY <1>0, <2>1, <2>2, <3>1, LocalVoteWithin
    <3> QED
      BY <2>2, <3>1, <3>2, LocalVoteType DEF WithinCallback, VoteCallback
  <2>4. mainQueue' = [mainQueue EXCEPT ![r.dev] = Append(@, cb)]
    BY <1>20 DEF RecallVote
  <2> HIDE DEF cb
  <2>5. mainQueue' \in [Devices -> Seq(WithinCallback')]
    BY <1>0, <2>1, <2>2, <2>3, <2>4
  <2> QED
    BY <1>0, <2>1, <2>5 DEF TalliesWithin
<1>21. ASSUME NEW p \in Polls, DeletePoll(p)
       PROVE  TalliesWithin'
  <2>1. /\ Still /\ UNCHANGED <<ownVotes, outbox, mainQueue>>
        /\ votes' = [votes EXCEPT ![p] = Absent]
    BY <1>21 DEF DeletePoll, client, history
  <2>2. \A q \in Polls : votes'[q] \in WithinTally(q)'
    BY <1>0, <2>1 DEF TypeOK, WithinTally
  <2> QED
    BY <1>0, <2>1, <2>2 DEF TalliesWithin
<1>22. ASSUME UNCHANGED vars
       PROVE  TalliesWithin'
  <2>1. Still /\ UNCHANGED <<votes, ownVotes, outbox, mainQueue>>
    BY <1>22 DEF vars
  <2> QED
    BY <1>0, <2>1 DEF TalliesWithin
<1> QED
  BY <1>1, <1>2, <1>3, <1>4, <1>6, <1>7, <1>9, <1>10, <1>13, <1>14, <1>15, <1>16, <1>17,
     <1>18, <1>19, <1>20, <1>21, <1>22
  DEF Next

\* However many taps overlap, get lost or are replayed late, the counters of
\* a poll stay between minus the moves and the increments written for it.
THEOREM CountersBoundedHolds == Spec => []CountersBounded
<1>1. Init => TalliesWithin
  BY DEF Init, TalliesWithin, WithinTally, Within, Tally
<1>2. TalliesWithin => CountersBounded
  BY DEF TalliesWithin, WithinTally, CountersBounded
<1> QED
  BY <1>1, <1>2, TypeCorrect, WithinStep, PTL DEF Spec

-----------------------------------------------------------------------------
(* Deleted polls *)

\* No late write brings a deleted poll back: only Apply and DeletePoll
\* change a Votes document, and updateData asks for an existing one.
THEOREM DeletedStaysDeletedHolds == Spec => DeletedStaysDeleted
<1> DEFINE Gone == \A p \in Polls : votes[p] = Absent => votes'[p] = Absent
<1>1. TypeOK /\ [Next]_vars => [Gone]_vars
  <2> SUFFICES ASSUME TypeOK, Next PROVE Gone
    BY DEF vars
  <2>1. CASE votes' = votes
    BY <2>1
  <2>2. ASSUME NEW d \in Devices, Apply(d) PROVE Gone
    BY <2>2 DEF Apply, UpdateData, TypeOK
  <2>3. ASSUME NEW q \in Polls, DeletePoll(q) PROVE Gone
    BY <2>3 DEF DeletePoll, TypeOK
  <2> QED
    BY <2>1, <2>2, <2>3, ZenonT(60)
    DEF Next, TabOnCell, VoteFirst, VoteSecond, CountFirst, CountSecond, Acknowledge,
        Resend, RejectWrite, Refresh, Crash, AnswerUser, AnswerVote, RecallUser,
        RecallVote, FailRead, database
<1> QED
  BY <1>1, TypeCorrect, PTL DEF Spec, DeletedStaysDeleted

-----------------------------------------------------------------------------
(* Ballot keeps to Outbox *)

\* A queue that a callback has written to begins with what it was.
LEMMA LongerQueue ==
  ASSUME NEW s \in Seq(Write), NEW e \in Seq(Write), e # <<>>
  PROVE  s \o e \in Seq(Write) /\ Promise!IsStrictPrefix(s, s \o e)
<1>1. s \o e \in Seq(Write) /\ Len(s \o e) = Len(s) + Len(e)
      /\ Len(s) \in Nat /\ Len(e) \in Nat
  OBVIOUS
<1>2. Len(e) # 0
  BY EmptySeq
<1>3. \A k \in 1 .. Len(s) : (s \o e)[k] = s[k]
  OBVIOUS
<1>4. SubSeq(s, 1, Len(s)) = SubSeq(s \o e, 1, Len(s))
  BY <1>1, <1>3
<1>5. s # s \o e
  BY <1>1, <1>2
<1> QED
  BY <1>1, <1>2, <1>4, <1>5 DEF Promise!IsStrictPrefix, Promise!IsPrefix

\* A step that only adds writes of one device is Issue.
LEMMA IssueStep ==
  ASSUME TypeOK, NEW d \in Devices, NEW e \in Seq(Write), e # <<>>,
         outbox' = [outbox EXCEPT ![d] = @ \o e], applied' = applied
  PROVE  Promise!Issue(d)
<1>1. outbox[d] \in Seq(Write) /\ outbox'[d] = outbox[d] \o e
  BY DEF TypeOK
<1>2. outbox' = [outbox EXCEPT ![d] = outbox'[d]]
  BY <1>1
<1> QED
  BY <1>1, <1>2, LongerQueue DEF Promise!Issue

\* The writes of voteFirst and voteSecond, with everything that can happen to
\* them, behave as WriteQueue shows the SDK's queue to behave.
THEOREM ImplementsOutbox == Spec => IsOutbox
<1>1. Init => Promise!Init
  BY DEF Init, Promise!Init
<1>2. TypeOK /\ TypeOK' /\ [Next]_vars => [Promise!Next]_(Promise!vars)
  <2> SUFFICES ASSUME TypeOK, TypeOK', [Next]_vars
               PROVE  Promise!Next \/ UNCHANGED <<outbox, applied>>
    BY DEF Promise!vars
  <2>1. ASSUME NEW d \in Devices, VoteFirst(d) PROVE Promise!Issue(d)
    <3> DEFINE cb == Head(mainQueue[d])
               uw == [to |-> "user", list |-> AppendRecord(cb.list, cb.req.poll, cb.req.index)]
    <3>1. outbox' = [outbox EXCEPT ![d] = Append(@, uw)] /\ applied' = applied
      BY <2>1 DEF VoteFirst
    <3> HIDE DEF uw
    <3>2. outbox[d] \in Seq(Write) /\ outbox'[d] = Append(outbox[d], uw)
          /\ outbox'[d] \in Seq(Write)
      BY <3>1 DEF TypeOK
    <3>3. uw \in Write
      BY <3>2, AppendedElement
    <3>4. <<uw>> \in Seq(Write) /\ <<uw>> # <<>> /\ Append(outbox[d], uw) = outbox[d] \o <<uw>>
      BY <3>2, <3>3
    <3>5. outbox' = [outbox EXCEPT ![d] = @ \o <<uw>>]
      BY <3>1, <3>4
    <3> QED
      BY <3>1, <3>4, <3>5, IssueStep
  <2>2. ASSUME NEW d \in Devices, CountFirst(d)
        PROVE  Promise!Issue(d) \/ UNCHANGED <<outbox, applied>>
    <3> DEFINE cb == Head(mainQueue[d])
               vw == [to |-> "vote", poll |-> cb.req.poll,
                      tally |-> AddVote(cb.tally, cb.req.index)]
    <3>1. applied' = applied
          /\ (outbox' = outbox \/ outbox' = [outbox EXCEPT ![d] = Append(@, vw)])
      BY <2>2 DEF CountFirst
    <3> HIDE DEF vw
    <3>2. CASE outbox' = [outbox EXCEPT ![d] = Append(@, vw)]
      <4>1. outbox[d] \in Seq(Write) /\ outbox'[d] = Append(outbox[d], vw)
            /\ outbox'[d] \in Seq(Write)
        BY <3>2 DEF TypeOK
      <4>2. vw \in Write
        BY <4>1, AppendedElement
      <4>3. <<vw>> \in Seq(Write) /\ <<vw>> # <<>>
            /\ Append(outbox[d], vw) = outbox[d] \o <<vw>>
        BY <4>1, <4>2
      <4>4. outbox' = [outbox EXCEPT ![d] = @ \o <<vw>>]
        BY <3>2, <4>3
      <4> QED
        BY <3>1, <4>3, <4>4, IssueStep
    <3> QED
      BY <3>1, <3>2
  <2>3. ASSUME NEW d \in Devices, CountSecond(d)
        PROVE  Promise!Issue(d) \/ UNCHANGED <<outbox, applied>>
    <3> DEFINE cb == Head(mainQueue[d])
               vw == [to |-> "vote", poll |-> cb.req.poll,
                      tally |-> MoveVote(cb.tally, cb.req.index, cb.req.extra)]
               uw == [to |-> "user",
                      list |-> ReplaceRecord(cb.req.arrays, cb.req.poll, cb.req.index)]
    <3>1. applied' = applied
      BY <2>3 DEF CountSecond
    <3>2. CASE cb.tally = Absent
      BY <2>3, <3>1, <3>2 DEF CountSecond
    <3>3. CASE cb.tally # Absent
      <4>1. outbox' = [outbox EXCEPT ![d] = @ \o <<vw, uw>>]
        BY <2>3, <3>3 DEF CountSecond
      <4>2. cb \in VoteCallback
        BY <2>3, HeadVote DEF CountSecond
      <4>3. /\ cb.req.poll \in Polls /\ cb.req.index \in Variants
            /\ cb.req.extra \in Variants /\ cb.req.arrays \in SUBSET Record
            /\ cb.tally \in Tally
        BY <3>3, <4>2 DEF VoteCallback, VoteRequest, Request
      <4>4. vw \in Write /\ uw \in Write
        BY <4>3, TallyOperatorsType, RecordOperatorsType DEF Write, UserWrite, VoteWrite
      <4> HIDE DEF vw, uw
      <4>5. <<vw, uw>> \in Seq(Write) /\ <<vw, uw>> # <<>>
        BY <4>4
      <4> QED
        BY <3>1, <4>1, <4>5, IssueStep
    <3> QED
      BY <3>2, <3>3
  <2>4. ASSUME NEW d \in Devices, Apply(d) PROVE Promise!Apply(d)
    BY <2>4 DEF Apply, Promise!Apply
  <2>5. ASSUME NEW d \in Devices, Acknowledge(d) PROVE Promise!Settle(d)
    BY <2>5 DEF Acknowledge, Promise!Settle
  <2>6. ASSUME NEW d \in Devices, RejectWrite(d) PROVE Promise!Refuse(d)
    BY <2>6 DEF RejectWrite, Promise!Refuse
  <2>7. ASSUME NEW d \in Devices, Resend(d) \/ Crash(d) PROVE Promise!Resend(d)
    BY <2>7 DEF Resend, Crash, SentAgain, Promise!Resend
  <2>8. CASE UNCHANGED <<outbox, applied>>
    BY <2>8
  <2> QED
    BY <2>1, <2>2, <2>3, <2>4, <2>5, <2>6, <2>7, <2>8, ZenonT(60)
    DEF Next, vars, TabOnCell, VoteSecond, Refresh, AnswerUser, AnswerVote, RecallUser,
        RecallVote, FailRead, DeletePoll, client, sending, Promise!Next
<1> QED
  BY <1>1, <1>2, TypeCorrect, PTL DEF Spec, IsOutbox, Promise!Spec
=============================================================================
