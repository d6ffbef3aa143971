-------------------------- MODULE MainListProofs ---------------------------
(***************************************************************************)
(* Theorems about MainList, for any number of polls, reads and deletions.  *)
(***************************************************************************)
EXTENDS MainList, TLAPS, SequenceTheorems

-----------------------------------------------------------------------------
(* The inductive invariants *)

\* The queries of Users that are not answered, and the answers of these whose
\* callback has not run yet.
UserRequests == {r \in requests : r.kind = "user"}
UserAnswers  == {k \in DOMAIN mainQueue : mainQueue[k].kind = "user"}
VotesAnswers == {k \in DOMAIN mainQueue : mainQueue[k].kind = "votes"}

\* The polls whose row is still to come.
Asked    == {r.dtc.UUID : r \in UserRequests}
Answered == {mainQueue[k].dtc.UUID : k \in UserAnswers}

\* A read was started and its query of Votes has not been answered.
Starting == UserRequests # requests \/ VotesAnswers # {}

\* A poll is asked for, answered or listed, once; a row is made from one of
\* these only.
OneRowEach ==
    /\ \A r, s \in UserRequests : r.dtc.UUID = s.dtc.UUID => r = s
    /\ \A j, k \in UserAnswers : mainQueue[j].dtc.UUID = mainQueue[k].dtc.UUID => j = k
    /\ \A j, k \in DOMAIN itemsDtc : itemsDtc[j].UUID = itemsDtc[k].UUID => j = k
    /\ Asked \cap Answered = {}
    /\ Asked \cap Listed = {}
    /\ Answered \cap Listed = {}

\* Reads do not overlap: the list is empty when one starts, and until its
\* query of Votes is answered nothing else is under way.
OneRead ==
    /\ ~appeared => ~Reading /\ itemsDtc = <<>> /\ expected = {}
    /\ Starting => /\ UserRequests = {} /\ UserAnswers = {}
                   /\ itemsDtc = <<>> /\ expected = {}
    /\ \A r, s \in requests : r.kind = "votes" /\ s.kind = "votes" => r = s
    /\ \A j, k \in VotesAnswers : j = k
    /\ UserRequests # requests => VotesAnswers = {}

\* As long as no read was interrupted.
ReadInv == ~interrupted => OneRead /\ OneRowEach

\* And what the read found is asked for, answered, listed or lost: lost as soon
\* as its query of Users has failed or found no document, and never listed then.
Found ==
    /\ expected = Asked \cup Answered \cup Listed \cup lost
    /\ lost \cap (Asked \cup Listed) = {}
    /\ \A k \in UserAnswers : mainQueue[k].found <=> mainQueue[k].dtc.UUID \notin lost

FoundInv == ~interrupted => Found

\* As long as no row moved under a deletion: a deletion that is queued or
\* answered still has the index of its poll's row.
InPlace(index, poll) == index \in DOMAIN itemsDtc /\ itemsDtc[index].UUID = poll

DeleteInv ==
    /\ \A k \in DOMAIN mainQueue : mainQueue[k].kind = "delete" /\ mainQueue[k].ok =>
         mainQueue[k].poll \in dead
    /\ ~shifted =>
         /\ undone = {} /\ ~crashed
         /\ \A x \in deletes : InPlace(x.index, x.poll)
         /\ \A k \in DOMAIN mainQueue : mainQueue[k].kind = "delete" =>
              InPlace(mainQueue[k].index, mainQueue[k].poll)

IInv == TypeOK /\ ReadInv /\ FoundInv /\ DeleteInv

-----------------------------------------------------------------------------
(* Facts about the operators *)

AnyAnswer == VotesAnswer \cup UserAnswer \cup DeleteAnswer

\* The fields of an answer and of a query go by their kind.
LEMMA AnswerKinds ==
  ASSUME NEW a \in AnyAnswer
  PROVE  /\ a.kind \in {"votes", "user", "delete"}
         /\ a.kind = "votes" => a.read \in Nat /\ a.docs \subseteq Polls
         /\ a.kind = "user" => /\ a.dtc \in DataVoteCell /\ a.found \in BOOLEAN
                               /\ a.list \subseteq Polls
         /\ a.kind = "delete" => /\ a.index \in Nat /\ a.poll \in Polls
                                 /\ a.ok \in BOOLEAN
BY DEF AnyAnswer, VotesAnswer, UserAnswer, DeleteAnswer

LEMMA RequestKinds ==
  ASSUME NEW r \in VotesRequest \cup UserRequest
  PROVE  /\ r.kind \in {"votes", "user"}
         /\ r.read \in Nat
         /\ r.kind = "user" => r.dtc \in DataVoteCell
BY DEF VotesRequest, UserRequest

\* remove(at:): the rows below move up by one.
LEMMA RowRemoved ==
  ASSUME NEW S, NEW s \in Seq(S), NEW i \in DOMAIN s
  PROVE  /\ RemoveAt(s, i) \in Seq(S)
         /\ DOMAIN RemoveAt(s, i) = 1..(Len(s) - 1)
         /\ \A k \in 1..(Len(s) - 1) :
              RemoveAt(s, i)[k] = IF k < i THEN s[k] ELSE s[k + 1]
<1> DEFINE a == SubSeq(s, 1, i - 1)
           b == SubSeq(s, i + 1, Len(s))
<1>1. Len(s) \in Nat /\ i \in 1..Len(s) /\ \A k \in 1..Len(s) : s[k] \in S
  OBVIOUS
<1>2. /\ a \in Seq(S) /\ Len(a) = i - 1
      /\ \A k \in 1..(i - 1) : a[k] = s[k]
  <2>1. \A k \in 1..(i - 1) : s[k] \in S
    BY <1>1
  <2>2. a \in Seq(S)
    BY <1>1, <2>1, SubSeqProperties
  <2>3. Len(a) = IF 1 <= i - 1 THEN (i - 1) - 1 + 1 ELSE 0
    BY <1>1, <2>1, SubSeqProperties
  <2>4. \A k \in 1..((i - 1) - 1 + 1) : a[k] = s[1 + k - 1]
    BY <1>1, <2>1, SubSeqProperties
  <2> HIDE DEF a
  <2> QED
    BY <1>1, <2>2, <2>3, <2>4
<1>3. /\ b \in Seq(S) /\ Len(b) = Len(s) - i
      /\ \A k \in 1..(Len(s) - i) : b[k] = s[k + i]
  <2>1. \A k \in (i + 1)..Len(s) : s[k] \in S
    BY <1>1
  <2>2. b \in Seq(S)
    BY <1>1, <2>1, SubSeqProperties
  <2>3. Len(b) = IF i + 1 <= Len(s) THEN Len(s) - (i + 1) + 1 ELSE 0
    BY <1>1, <2>1, SubSeqProperties
  <2>4. \A k \in 1..(Len(s) - (i + 1) + 1) : b[k] = s[(i + 1) + k - 1]
    BY <1>1, <2>1, SubSeqProperties
  <2> HIDE DEF b
  <2> QED
    BY <1>1, <2>2, <2>3, <2>4
<1> HIDE DEF a, b
<1>4. /\ a \o b \in Seq(S)
      /\ Len(a \o b) = Len(a) + Len(b)
      /\ \A k \in 1..(Len(a) + Len(b)) :
           (a \o b)[k] = IF k <= Len(a) THEN a[k] ELSE b[k - Len(a)]
  BY <1>2, <1>3, ConcatProperties
<1>5. RemoveAt(s, i) = a \o b
  BY DEF RemoveAt, a, b
<1>6. Len(a) + Len(b) = Len(s) - 1
  BY <1>1, <1>2, <1>3
<1>7. ASSUME NEW k \in 1..(Len(s) - 1)
      PROVE  (a \o b)[k] = IF k < i THEN s[k] ELSE s[k + 1]
  <2>1. CASE k < i
    BY <1>1, <1>2, <1>4, <1>6, <2>1
  <2>2. CASE ~ (k < i)
    <3>1. k - (i - 1) \in 1..(Len(s) - i) /\ ~ (k <= Len(a)) /\ k - (i - 1) + i = k + 1
      <4>1. /\ Len(s) \in Nat /\ i \in Nat /\ k \in Nat
            /\ i <= k /\ k <= Len(s) - 1 /\ Len(a) = i - 1
        BY <1>1, <1>2, <2>2
      <4>2. k - (i - 1) \in 1..(Len(s) - i)
        <5> DEFINE n == Len(s)
        <5>1. n \in Nat /\ i \in Nat /\ k \in Nat /\ i <= k /\ k <= n - 1
          BY <4>1
        <5> HIDE DEF n
        <5>2. k - (i - 1) \in Int /\ 1 <= k - (i - 1) /\ k - (i - 1) <= n - i
          BY <5>1
        <5> QED
          BY <5>1, <5>2 DEF n
      <4>3. ~ (k <= Len(a))
        BY <4>1
      <4>4. k - (i - 1) + i = k + 1
        BY <4>1
      <4> QED
        BY <4>2, <4>3, <4>4
    <3>2. (a \o b)[k] = b[k - (i - 1)]
      BY <1>2, <1>4, <1>6, <3>1
    <3> QED
      BY <1>3, <2>2, <3>1, <3>2
  <2> QED
    BY <2>1, <2>2
<1> QED
  BY <1>1, <1>4, <1>5, <1>6, <1>7

\* An answer is queued behind the others.
LEMMA QueueAppend ==
  ASSUME TypeOK, NEW a, mainQueue' = Append(mainQueue, a)
  PROVE  LET n == Len(mainQueue) + 1 IN
         /\ n \in Nat /\ n \notin DOMAIN mainQueue
         /\ DOMAIN mainQueue' = DOMAIN mainQueue \cup {n}
         /\ mainQueue'[n] = a
         /\ \A k \in DOMAIN mainQueue : mainQueue'[k] = mainQueue[k]
         /\ UserAnswers' = UserAnswers \cup {k \in {n} : a.kind = "user"}
         /\ VotesAnswers' = VotesAnswers \cup {k \in {n} : a.kind = "votes"}
         /\ Answered' = Answered \cup {a.dtc.UUID : k \in {j \in {n} : a.kind = "user"}}
<1> DEFINE n == Len(mainQueue) + 1
<1>1. /\ n \in Nat /\ n \notin DOMAIN mainQueue
      /\ DOMAIN mainQueue' = DOMAIN mainQueue \cup {n}
      /\ mainQueue'[n] = a
      /\ \A k \in DOMAIN mainQueue : mainQueue'[k] = mainQueue[k]
  BY DEF TypeOK
<1> HIDE DEF n
<1>2. UserAnswers' = UserAnswers \cup {k \in {n} : a.kind = "user"}
  BY <1>1 DEF UserAnswers
<1>3. VotesAnswers' = VotesAnswers \cup {k \in {n} : a.kind = "votes"}
  BY <1>1 DEF VotesAnswers
<1>4. Answered' = Answered \cup {a.dtc.UUID : k \in {j \in {n} : a.kind = "user"}}
  BY <1>1, <1>2 DEF Answered, UserAnswers
<1> QED
  BY <1>1, <1>2, <1>3, <1>4 DEF n

\* The first answer is taken off the queue.
LEMMA QueueTail ==
  ASSUME TypeOK, mainQueue # <<>>, mainQueue' = Tail(mainQueue)
  PROVE  /\ 1 \in DOMAIN mainQueue /\ Head(mainQueue) = mainQueue[1]
         /\ Head(mainQueue) \in AnyAnswer
         /\ mainQueue' \in Seq(AnyAnswer)
         /\ \A k \in DOMAIN mainQueue' : /\ k \in Nat /\ k + 1 \in DOMAIN mainQueue
                                         /\ k + 1 \in 2..Len(mainQueue)
                                         /\ mainQueue'[k] = mainQueue[k + 1]
         /\ \A k \in DOMAIN mainQueue : \/ k = 1
                                        \/ /\ k - 1 \in DOMAIN mainQueue'
                                           /\ mainQueue'[k - 1] = mainQueue[k]
         /\ \A k \in UserAnswers' : k + 1 \in UserAnswers
         /\ \A k \in VotesAnswers' : k + 1 \in VotesAnswers
         /\ Answered' \subseteq Answered
         /\ Answered \subseteq Answered' \cup {Head(mainQueue).dtc.UUID : k \in UserAnswers \cap {1}}
<1>1. mainQueue \in Seq(AnyAnswer)
  BY DEF TypeOK, AnyAnswer
<1>2. /\ 1 \in DOMAIN mainQueue /\ Head(mainQueue) = mainQueue[1]
      /\ Head(mainQueue) \in AnyAnswer
      /\ mainQueue' \in Seq(AnyAnswer) /\ Len(mainQueue') = Len(mainQueue) - 1
  BY <1>1, HeadTailProperties
<1>3. \A k \in DOMAIN mainQueue' : /\ k \in Nat /\ k + 1 \in DOMAIN mainQueue
                                   /\ k + 1 \in 2..Len(mainQueue)
                                   /\ mainQueue'[k] = mainQueue[k + 1]
  BY <1>1, <1>2, HeadTailProperties
<1>4. ASSUME NEW k \in DOMAIN mainQueue
      PROVE  \/ k = 1
             \/ /\ k - 1 \in DOMAIN mainQueue'
                /\ mainQueue'[k - 1] = mainQueue[k]
  <2>1. k \in Nat /\ k >= 1 /\ k <= Len(mainQueue)
    BY <1>1
  <2>2. CASE k # 1
    <3>1. k - 1 \in DOMAIN mainQueue' /\ (k - 1) + 1 = k
      BY <1>2, <2>1, <2>2
    <3> QED
      BY <1>3, <3>1
  <2> QED
    BY <2>2
<1>5. /\ \A k \in UserAnswers' : k + 1 \in UserAnswers
      /\ \A k \in VotesAnswers' : k + 1 \in VotesAnswers
  BY <1>3 DEF UserAnswers, VotesAnswers
<1>6. Answered' \subseteq Answered
  BY <1>3, <1>5 DEF Answered, UserAnswers
<1>7. Answered \subseteq Answered' \cup {Head(mainQueue).dtc.UUID : k \in UserAnswers \cap {1}}
  <2>1. ASSUME NEW k \in UserAnswers
        PROVE  mainQueue[k].dtc.UUID \in Answered' \cup {Head(mainQueue).dtc.UUID : j \in UserAnswers \cap {1}}
    <3>1. CASE k = 1
      BY <1>2, <3>1
    <3>2. CASE k # 1
      <4>1. k - 1 \in UserAnswers' /\ mainQueue'[k - 1] = mainQueue[k]
        BY <1>4, <3>2 DEF UserAnswers
      <4> QED
        BY <4>1 DEF Answered
    <3> QED
      BY <3>1, <3>2
  <2> QED
    BY <2>1 DEF Answered
<1> QED
  BY <1>2, <1>3, <1>4, <1>5, <1>6, <1>7

-----------------------------------------------------------------------------
(* Types *)

LEMMA NextTypeOK ==
  ASSUME TypeOK, [Next]_vars
  PROVE  TypeOK'
<1> USE DEF TypeOK
<1>1. mainQueue \in Seq(AnyAnswer)
  BY DEF AnyAnswer
<1>2. CASE ViewWillAppear
  <2>1. [kind |-> "votes", read |-> reads] \in VotesRequest
    BY DEF VotesRequest
  <2> QED
    BY <1>2, <2>1 DEF ViewWillAppear, backend, copy, history
<1>3. CASE ViewWillDisappear
  <2>1. <<>> \in Seq(DataVoteCell)
    OBVIOUS
  <2>2. interrupted' \in BOOLEAN /\ shifted' \in BOOLEAN
    BY <1>3, Zenon DEF ViewWillDisappear
  <2> QED
    BY <1>3, <2>1, <2>2 DEF ViewWillDisappear, backend, copy
<1>4. ASSUME NEW index \in DOMAIN itemsDtc, ItemsDelete(index)
      PROVE  TypeOK'
  <2>1. [swipe |-> swipes, index |-> index, poll |-> itemsDtc[index].UUID] \in Deletion
    <3>1. itemsDtc[index] \in DataVoteCell /\ index \in Nat
      OBVIOUS
    <3>2. itemsDtc[index].UUID \in Polls
      BY <3>1 DEF DataVoteCell
    <3> QED
      BY <3>1, <3>2 DEF Deletion
  <2> QED
    BY <1>4, <2>1 DEF ItemsDelete, backend, copy, screen, history
<1>5. ASSUME NEW r \in requests, AnswerVotes(r)
      PROVE  TypeOK'
  <2>1. r.read \in Nat
    BY RequestKinds
  <2>2. [kind |-> "votes", read |-> r.read, docs |-> LocalPolls(ownPolls')] \in VotesAnswer
    BY <1>5, <2>1 DEF AnswerVotes, VotesAnswer, LocalPolls
  <2> QED
    BY <1>5, <2>2 DEF AnswerVotes, backend, screen, history
<1>6. ASSUME NEW r \in requests, AnswerUser(r)
      PROVE  TypeOK'
  <2>1. r.dtc \in DataVoteCell
    BY <1>6, RequestKinds DEF AnswerUser
  <2>2. r.dtc.UUID \in Polls
    BY <2>1 DEF DataVoteCell
  <2>3. ownDoc' \in BOOLEAN
    BY <1>6 DEF AnswerUser
  <2>4. PICK list \in SUBSET (IF ownDoc' THEN voted ELSE {}) :
          mainQueue' = Append(mainQueue, [kind |-> "user", dtc |-> r.dtc,
                                          found |-> ownDoc', list |-> list])
    BY <1>6 DEF AnswerUser
  <2>5. list \subseteq Polls
    OBVIOUS
  <2>6. [kind |-> "user", dtc |-> r.dtc, found |-> ownDoc', list |-> list] \in UserAnswer
    BY <2>1, <2>3, <2>5 DEF UserAnswer
  <2>7. mainQueue' \in Seq(AnyAnswer)
    BY <1>1, <2>4, <2>6 DEF AnyAnswer
  <2> QED
    BY <1>6, <2>2, <2>3, <2>7 DEF AnswerUser, AnyAnswer, backend, screen
<1>7. ASSUME NEW r \in requests, FailRead(r)
      PROVE  TypeOK'
  <2>1. r.kind = "user" => r.dtc.UUID \in Polls
    BY RequestKinds DEF DataVoteCell
  <2> QED
    BY <1>7, <2>1 DEF FailRead, backend, copy, screen
<1>8. ASSUME NEW x \in deletes, AnswerDelete(x)
      PROVE  TypeOK'
  <2>1. x.index \in Nat /\ x.poll \in Polls
    BY DEF Deletion
  <2>2. \A ok \in BOOLEAN : [kind |-> "delete", index |-> x.index, poll |-> x.poll, ok |-> ok]
                              \in DeleteAnswer
    BY <2>1 DEF DeleteAnswer
  <2> QED
    BY <1>8, <2>1, <2>2 DEF AnswerDelete, screen, history
<1>9. ASSUME mainQueue # <<>>
      PROVE  Head(mainQueue) \in AnyAnswer /\ Tail(mainQueue) \in Seq(AnyAnswer)
  BY <1>1, <1>9, HeadTailProperties
<1>10. CASE ReadVotes
  <2> DEFINE answer == Head(mainQueue)
  <2>1. mainQueue # <<>> /\ answer.kind = "votes"
    BY <1>10 DEF ReadVotes, Ready
  <2>2. answer.read \in Nat /\ answer.docs \subseteq Polls
    BY <1>9, <2>1, AnswerKinds
  <2>3. {[kind |-> "user", read |-> answer.read, dtc |-> DataVoteInit(p)] : p \in answer.docs}
          \subseteq UserRequest
    <3> HIDE DEF answer
    <3>1. \A p \in answer.docs : DataVoteInit(p) \in DataVoteCell
      BY <2>2 DEF DataVoteInit, DataVoteCell
    <3>2. \A p \in answer.docs :
            [kind |-> "user", read |-> answer.read, dtc |-> DataVoteInit(p)] \in UserRequest
      BY <2>2, <3>1 DEF UserRequest
    <3> QED
      BY <3>2
  <2>4. mainQueue' \in Seq(AnyAnswer)
    BY <1>9, <1>10, <2>1 DEF ReadVotes
  <2> QED
    BY <1>10, <2>2, <2>3, <2>4 DEF ReadVotes, AnyAnswer, backend, copy, screen
<1>11. CASE ReadUser
  <2> DEFINE answer == Head(mainQueue)
             dtc    == [answer.dtc EXCEPT !.status = (answer.dtc.UUID \in answer.list)]
  <2>1. mainQueue # <<>> /\ answer.kind = "user"
    BY <1>11 DEF ReadUser, Ready
  <2>2. answer.dtc \in DataVoteCell
    BY <1>9, <2>1, AnswerKinds
  <2>3. dtc \in DataVoteCell
    <3> DEFINE row == answer.dtc
               sat == answer.dtc.UUID \in answer.list
    <3>1. row \in DataVoteCell /\ sat \in BOOLEAN
      BY <2>2
    <3> HIDE DEF row, sat
    <3>2. [row EXCEPT !.status = sat] \in DataVoteCell
      BY <3>1 DEF DataVoteCell
    <3> QED
      BY <3>2 DEF row, sat
  <2>4. itemsDtc' \in Seq(DataVoteCell)
    <3>1. itemsDtc' \in {itemsDtc, Append(itemsDtc, dtc)}
      BY <1>11 DEF ReadUser, AppendRow
    <3> HIDE DEF dtc
    <3> QED
      BY <2>3, <3>1
  <2>5. mainQueue' \in Seq(AnyAnswer)
    BY <1>9, <1>11, <2>1 DEF ReadUser
  <2>6. adminStatus' \in BOOLEAN
    BY <1>11, RoleAssumption DEF ReadUser
  <2>7. UNCHANGED <<backend, copy, appeared, crashed, requests, deletes, reads, swipes,
                    history>>
    BY <1>11 DEF ReadUser
  <2> HIDE DEF answer, dtc
  <2> QED
    BY <2>4, <2>5, <2>6, <2>7 DEF AnyAnswer, backend, copy, history
<1>12. CASE RemoveRow
  <2> DEFINE answer == Head(mainQueue)
             row    == RowOf(answer.index)
  <2>1. mainQueue # <<>> /\ mainQueue' \in Seq(AnyAnswer)
    BY <1>9, <1>12 DEF RemoveRow, Ready
  <2>2. CASE row \in DOMAIN itemsDtc /\ itemsDtc' = RemoveAt(itemsDtc, row)
             /\ shifted' = (shifted \/ deletes # {} \/ \E k \in 2..Len(mainQueue) :
                                                          mainQueue[k].kind = "delete")
             /\ expected' = expected \ {itemsDtc[row].UUID}
             /\ undone' = undone \cup ({itemsDtc[row].UUID} \ dead)
             /\ UNCHANGED crashed
    <3> HIDE DEF row
    <3>1. itemsDtc' \in Seq(DataVoteCell)
      BY <2>2, RowRemoved
    <3>2. itemsDtc[row].UUID \in Polls
      <4>1. itemsDtc[row] \in DataVoteCell
        BY <2>2
      <4> QED
        BY <4>1 DEF DataVoteCell
    <3>3. shifted' \in BOOLEAN
      BY <2>2, Zenon
    <3> QED
      BY <1>12, <2>1, <2>2, <3>1, <3>2, <3>3 DEF RemoveRow, AnyAnswer, backend, copy
  <2>3. CASE UNCHANGED <<itemsDtc, expected, shifted, undone>> /\ crashed' \in BOOLEAN
    BY <1>12, <2>1, <2>3 DEF RemoveRow, AnyAnswer, backend, copy
  <2> QED
    BY <1>12, <2>2, <2>3 DEF RemoveRow
<1>13. ASSUME NEW p \in Polls, AddPoll(p) \/ DeletePoll(p) \/ CastVote(p)
       PROVE  TypeOK'
  BY <1>13 DEF AddPoll, DeletePoll, CastVote, copy, screen, history
<1>14. CASE UserWritten
  BY <1>14 DEF UserWritten, copy, screen, history
<1>15. CASE UNCHANGED vars
  BY <1>15 DEF vars
<1> QED
  BY <1>2, <1>3, <1>4, <1>5, <1>6, <1>7, <1>8, <1>10, <1>11, <1>12, <1>13, <1>14, <1>15
  DEF Next

-----------------------------------------------------------------------------
(* Deletions *)

\* A poll that is gone stays gone.
LEMMA DeadGrows ==
  ASSUME [Next]_vars
  PROVE  dead \subseteq dead'
BY DEF Next, vars, ViewWillAppear, ViewWillDisappear, ItemsDelete, AnswerVotes, AnswerUser,
       FailRead, AnswerDelete, ReadVotes, ReadUser, RemoveRow, AddPoll, DeletePoll,
       CastVote, UserWritten, backend

\* DeleteInv for a step that neither removes rows nor takes an answer of a
\* deletion, and appends rows at most.
LEMMA RowsInPlace ==
  ASSUME TypeOK, DeleteInv, dead \subseteq dead',
         UNCHANGED <<deletes, shifted, undone, crashed>>,
         \A k \in DOMAIN itemsDtc : k \in DOMAIN itemsDtc' /\ itemsDtc'[k] = itemsDtc[k],
         \A k \in DOMAIN mainQueue' :
            \/ mainQueue'[k].kind # "delete"
            \/ \E j \in DOMAIN mainQueue : mainQueue'[k] = mainQueue[j]
  PROVE  DeleteInv'
<1>1. \A index, poll : InPlace(index, poll) =>
        index \in DOMAIN itemsDtc' /\ itemsDtc'[index].UUID = poll
  BY DEF InPlace
<1>2. \A k \in DOMAIN mainQueue' : mainQueue'[k].kind = "delete" /\ mainQueue'[k].ok =>
        mainQueue'[k].poll \in dead'
  BY DEF DeleteInv
<1>3. ASSUME ~shifted
      PROVE  /\ undone' = {} /\ ~crashed'
             /\ \A x \in deletes' : InPlace(x.index, x.poll)'
             /\ \A k \in DOMAIN mainQueue' : mainQueue'[k].kind = "delete" =>
                  /\ mainQueue'[k].index \in DOMAIN itemsDtc'
                  /\ itemsDtc'[mainQueue'[k].index].UUID = mainQueue'[k].poll
  BY <1>1, <1>3 DEF DeleteInv, InPlace
<1> QED
  BY <1>2, <1>3 DEF DeleteInv, InPlace

LEMMA NextDeleteInv ==
  ASSUME TypeOK, DeleteInv, [Next]_vars
  PROVE  DeleteInv'
<1>1. dead \subseteq dead'
  BY DeadGrows
<1>2. itemsDtc \in Seq(DataVoteCell) /\ mainQueue \in Seq(AnyAnswer) /\ deletes \subseteq Deletion
  BY DEF TypeOK, AnyAnswer
<1>3. CASE UNCHANGED <<itemsDtc, mainQueue, deletes, shifted, undone, crashed>>
  BY <1>1, <1>3, RowsInPlace
<1>4. CASE ViewWillDisappear
  <2>1. /\ shifted' = (shifted \/ Deleting)
        /\ UNCHANGED <<mainQueue, deletes, undone, crashed, dead>>
    BY <1>4 DEF ViewWillDisappear, backend
  <2>2. ASSUME ~shifted'
        PROVE  ~shifted /\ deletes = {} /\ \A k \in DOMAIN mainQueue : mainQueue[k].kind # "delete"
    BY <2>1, <2>2 DEF Deleting, Queued
  <2> QED
    BY <2>1, <2>2 DEF DeleteInv
<1>5. ASSUME NEW index \in DOMAIN itemsDtc, ItemsDelete(index)
      PROVE  DeleteInv'
  <2> DEFINE x == [swipe |-> swipes, index |-> index, poll |-> itemsDtc[index].UUID]
  <2>1. /\ deletes' = deletes \cup {x}
        /\ UNCHANGED <<itemsDtc, mainQueue, shifted, undone, crashed, dead>>
    BY <1>5 DEF ItemsDelete, backend, screen, history
  <2>2. x.index = index /\ x.poll = itemsDtc[index].UUID
    OBVIOUS
  <2> HIDE DEF x
  <2>3. InPlace(x.index, x.poll)
    BY <2>2 DEF InPlace
  <2> QED
    BY <2>1, <2>3 DEF DeleteInv, InPlace
<1>6. ASSUME NEW a, mainQueue' = Append(mainQueue, a), a.kind # "delete",
             UNCHANGED <<itemsDtc, deletes, shifted, undone, crashed>>
      PROVE  DeleteInv'
  <2>1. \A k \in DOMAIN mainQueue' : \/ mainQueue'[k].kind # "delete"
                                     \/ \E j \in DOMAIN mainQueue : mainQueue'[k] = mainQueue[j]
    BY <1>2, <1>6
  <2> QED
    BY <1>1, <1>6, <2>1, RowsInPlace
<1>7. ASSUME NEW r \in requests, AnswerVotes(r)
      PROVE  DeleteInv'
  <2> DEFINE a == [kind |-> "votes", read |-> r.read, docs |-> LocalPolls(ownPolls')]
  <2>1. /\ mainQueue' = Append(mainQueue, a) /\ a.kind # "delete"
        /\ UNCHANGED <<itemsDtc, deletes, shifted, undone, crashed>>
    BY <1>7 DEF AnswerVotes, screen, history
  <2> HIDE DEF a
  <2> QED
    BY <1>6, <2>1
<1>8. ASSUME NEW r \in requests, AnswerUser(r)
      PROVE  DeleteInv'
  <2>1. PICK list : mainQueue' = Append(mainQueue, [kind |-> "user", dtc |-> r.dtc,
                                                    found |-> ownDoc', list |-> list])
    BY <1>8 DEF AnswerUser
  <2> DEFINE a == [kind |-> "user", dtc |-> r.dtc, found |-> ownDoc', list |-> list]
  <2>2. /\ mainQueue' = Append(mainQueue, a) /\ a.kind # "delete"
        /\ UNCHANGED <<itemsDtc, deletes, shifted, undone, crashed>>
    BY <1>8, <2>1 DEF AnswerUser, screen
  <2> HIDE DEF a
  <2> QED
    BY <1>6, <2>2
<1>9. ASSUME NEW x \in deletes, AnswerDelete(x)
      PROVE  DeleteInv'
  <2>1. PICK ok \in BOOLEAN :
          /\ mainQueue' = Append(mainQueue, [kind |-> "delete", index |-> x.index,
                                             poll |-> x.poll, ok |-> ok])
          /\ dead' = IF ok THEN dead \cup {x.poll} ELSE dead
    BY <1>9 DEF AnswerDelete
  <2> DEFINE a == [kind |-> "delete", index |-> x.index, poll |-> x.poll, ok |-> ok]
  <2>2. /\ mainQueue' = Append(mainQueue, a)
        /\ a.index = x.index /\ a.poll = x.poll
        /\ a.ok => a.poll \in dead'
    BY <2>1
  <2>3. /\ deletes' = deletes \ {x}
        /\ UNCHANGED <<itemsDtc, shifted, undone, crashed>>
    BY <1>9 DEF AnswerDelete, screen, history
  <2> HIDE DEF a
  <2>4. \A k \in DOMAIN mainQueue' : \/ mainQueue'[k] = a
                                     \/ \E j \in DOMAIN mainQueue : mainQueue'[k] = mainQueue[j]
    BY <1>2, <2>2
  <2>5. \A k \in DOMAIN mainQueue' : mainQueue'[k].kind = "delete" /\ mainQueue'[k].ok =>
          mainQueue'[k].poll \in dead'
    BY <1>1, <2>2, <2>4 DEF DeleteInv
  <2>6. ASSUME ~shifted
        PROVE  \A k \in DOMAIN mainQueue' : mainQueue'[k].kind = "delete" =>
                 /\ mainQueue'[k].index \in DOMAIN itemsDtc'
                 /\ itemsDtc'[mainQueue'[k].index].UUID = mainQueue'[k].poll
    BY <2>2, <2>3, <2>4, <2>6 DEF DeleteInv, InPlace
  <2> QED
    BY <2>3, <2>5, <2>6 DEF DeleteInv, InPlace
<1>10. ASSUME mainQueue # <<>>, mainQueue' = Tail(mainQueue)
       PROVE  \A k \in DOMAIN mainQueue' : \E j \in DOMAIN mainQueue : mainQueue'[k] = mainQueue[j]
  BY <1>10, QueueTail
<1>11. CASE ReadVotes
  <2>1. /\ mainQueue # <<>> /\ mainQueue' = Tail(mainQueue)
        /\ UNCHANGED <<itemsDtc, deletes, shifted, undone, crashed>>
    BY <1>11 DEF ReadVotes, Ready, screen
  <2> QED
    BY <1>1, <1>10, <2>1, RowsInPlace
<1>12. CASE ReadUser
  <2> DEFINE answer == Head(mainQueue)
             dtc    == [answer.dtc EXCEPT !.status = (answer.dtc.UUID \in answer.list)]
  <2>1. /\ mainQueue # <<>> /\ mainQueue' = Tail(mainQueue)
        /\ itemsDtc' = Append(itemsDtc, dtc) \/ itemsDtc' = itemsDtc
        /\ UNCHANGED <<deletes, shifted, undone, crashed>>
    BY <1>12 DEF ReadUser, Ready, AppendRow, history
  <2> HIDE DEF dtc
  <2>2. \A k \in DOMAIN itemsDtc : k \in DOMAIN itemsDtc' /\ itemsDtc'[k] = itemsDtc[k]
    <3>1. CASE itemsDtc' = Append(itemsDtc, dtc)
      BY <1>2, <3>1
    <3>2. CASE itemsDtc' = itemsDtc
      BY <3>2
    <3> QED
      BY <2>1, <3>1, <3>2
  <2> QED
    BY <1>1, <1>10, <2>1, <2>2, RowsInPlace
<1>13. CASE RemoveRow
  <2> DEFINE answer == Head(mainQueue)
             row    == RowOf(answer.index)
  <2>1. /\ mainQueue # <<>> /\ mainQueue' = Tail(mainQueue)
        /\ answer.kind = "delete"
        /\ UNCHANGED <<deletes, dead>>
    BY <1>13 DEF RemoveRow, Ready, backend
  <2>2. answer = mainQueue[1] /\ 1 \in DOMAIN mainQueue /\ row = answer.index
    BY <2>1, QueueTail DEF RowOf
  <2> HIDE DEF answer, row
  <2>3. CASE ~answer.ok /\ UNCHANGED <<itemsDtc, crashed, shifted, undone>>
    BY <1>1, <1>10, <2>1, <2>3, RowsInPlace
  <2>4. CASE /\ answer.ok /\ row \in DOMAIN itemsDtc
             /\ shifted' = (shifted \/ deletes # {} \/ \E k \in 2..Len(mainQueue) :
                                                          mainQueue[k].kind = "delete")
             /\ undone' = undone \cup ({itemsDtc[row].UUID} \ dead)
             /\ UNCHANGED crashed
    <3>1. \A k \in DOMAIN mainQueue' : mainQueue'[k].kind = "delete" /\ mainQueue'[k].ok =>
            mainQueue'[k].poll \in dead'
      BY <1>1, <1>10, <2>1 DEF DeleteInv
    <3>2. ASSUME ~shifted'
          PROVE  /\ undone' = {} /\ ~crashed'
                 /\ deletes' = {}
                 /\ \A k \in DOMAIN mainQueue' : mainQueue'[k].kind # "delete"
      <4>1. /\ ~shifted /\ deletes = {}
            /\ \A k \in 2..Len(mainQueue) : mainQueue[k].kind # "delete"
        BY <2>4, <3>2
      <4>2. \A k \in DOMAIN mainQueue' : mainQueue'[k].kind # "delete"
        BY <2>1, <4>1, QueueTail
      <4>3. itemsDtc[row].UUID = answer.poll /\ answer.poll \in dead
        BY <2>1, <2>2, <2>4, <4>1 DEF DeleteInv, InPlace
      <4>4. undone = {} /\ ~crashed
        BY <4>1 DEF DeleteInv
      <4> QED
        BY <2>1, <2>4, <4>1, <4>2, <4>3, <4>4
    <3> QED
      BY <3>1, <3>2 DEF DeleteInv
  <2>5. CASE /\ answer.ok /\ row \notin DOMAIN itemsDtc
             /\ UNCHANGED <<itemsDtc, shifted, undone>>
    <3>1. shifted
      BY <2>1, <2>2, <2>5 DEF DeleteInv, InPlace
    <3>2. \A k \in DOMAIN mainQueue' : mainQueue'[k].kind = "delete" /\ mainQueue'[k].ok =>
            mainQueue'[k].poll \in dead'
      BY <1>1, <1>10, <2>1 DEF DeleteInv
    <3> QED
      BY <2>5, <3>1, <3>2 DEF DeleteInv
  <2> QED
    BY <1>13, <2>3, <2>4, <2>5 DEF RemoveRow, answer, row
<1> QED
  BY <1>3, <1>4, <1>5, <1>7, <1>8, <1>9, <1>11, <1>12, <1>13
  DEF Next, vars, ViewWillAppear, FailRead, AddPoll, DeletePoll, CastVote, UserWritten, screen,
      history

-----------------------------------------------------------------------------
(* Reads *)

\* What the three stages of a row have to do with each other.
LEMMA Stages ==
  ASSUME TypeOK
  PROVE  /\ UserRequests \subseteq requests
         /\ \A r \in requests : r \in UserRequests <=> r.kind = "user"
         /\ \A r \in requests : r.kind \in {"votes", "user"}
         /\ \A r \in UserRequests : r.dtc.UUID \in Asked
         /\ \A k \in UserAnswers : mainQueue[k].dtc.UUID \in Answered
         /\ \A k \in DOMAIN itemsDtc : itemsDtc[k].UUID \in Listed
         /\ Reading <=> requests # {} \/ VotesAnswers # {} \/ UserAnswers # {}
BY RequestKinds DEF TypeOK, UserRequests, UserAnswers, VotesAnswers, Asked, Answered,
                    Listed, Reading, Queued

\* The answer of a deletion, or none, is queued.
LEMMA OtherAnswer ==
  ASSUME TypeOK, NEW a, mainQueue' = Append(mainQueue, a), a.kind = "delete"
  PROVE  /\ UserAnswers' = UserAnswers /\ VotesAnswers' = VotesAnswers
         /\ Answered' = Answered
         /\ \A k \in UserAnswers : mainQueue'[k] = mainQueue[k]
<1>1. \A k \in DOMAIN mainQueue : mainQueue'[k] = mainQueue[k]
  BY QueueAppend
<1>2. UserAnswers' = UserAnswers
  <2>1. UserAnswers' = UserAnswers \cup {k \in {Len(mainQueue) + 1} : a.kind = "user"}
    BY QueueAppend
  <2> QED
    BY <2>1
<1>3. VotesAnswers' = VotesAnswers
  <2>1. VotesAnswers' = VotesAnswers \cup {k \in {Len(mainQueue) + 1} : a.kind = "votes"}
    BY QueueAppend
  <2> QED
    BY <2>1
<1>4. \A k \in UserAnswers : mainQueue'[k] = mainQueue[k]
  BY <1>1 DEF UserAnswers
<1>5. Answered' = Answered
  BY <1>2, <1>4 DEF Answered
<1> QED
  BY <1>2, <1>3, <1>4, <1>5

\* A row appended, a row removed.
LEMMA RowAppended ==
  ASSUME TypeOK, NEW row, itemsDtc' = Append(itemsDtc, row)
  PROVE  LET n == Len(itemsDtc) + 1 IN
         /\ DOMAIN itemsDtc' = DOMAIN itemsDtc \cup {n}
         /\ n \notin DOMAIN itemsDtc
         /\ itemsDtc'[n] = row
         /\ \A k \in DOMAIN itemsDtc : itemsDtc'[k] = itemsDtc[k]
         /\ Listed' = Listed \cup {row.UUID}
<1> DEFINE n == Len(itemsDtc) + 1
<1>1. /\ DOMAIN itemsDtc' = DOMAIN itemsDtc \cup {n}
      /\ n \notin DOMAIN itemsDtc
      /\ itemsDtc'[n] = row
      /\ \A k \in DOMAIN itemsDtc : itemsDtc'[k] = itemsDtc[k]
  BY DEF TypeOK
<1> HIDE DEF n
<1>2. Listed' = Listed \cup {row.UUID}
  BY <1>1 DEF Listed
<1> QED
  BY <1>1, <1>2 DEF n

LEMMA RowTakenOff ==
  ASSUME TypeOK, NEW row \in DOMAIN itemsDtc, itemsDtc' = RemoveAt(itemsDtc, row),
         \A j, k \in DOMAIN itemsDtc : itemsDtc[j].UUID = itemsDtc[k].UUID => j = k
  PROVE  /\ Listed' = Listed \ {itemsDtc[row].UUID}
         /\ \A j, k \in DOMAIN itemsDtc' : itemsDtc'[j].UUID = itemsDtc'[k].UUID => j = k
<1> DEFINE Old(k) == IF k < row THEN k ELSE k + 1
<1>1. /\ itemsDtc \in Seq(DataVoteCell) /\ Len(itemsDtc) \in Nat
      /\ DOMAIN itemsDtc = 1..Len(itemsDtc) /\ row \in 1..Len(itemsDtc)
  BY DEF TypeOK
<1>2. /\ DOMAIN itemsDtc' = 1..(Len(itemsDtc) - 1)
      /\ \A k \in DOMAIN itemsDtc' :
           itemsDtc'[k] = IF k < row THEN itemsDtc[k] ELSE itemsDtc[k + 1]
  BY <1>1, RowRemoved
<1>3. \A k \in DOMAIN itemsDtc' : /\ Old(k) \in DOMAIN itemsDtc /\ Old(k) # row
                                  /\ itemsDtc'[k] = itemsDtc[Old(k)]
  BY <1>1, <1>2
<1>4. \A j, k \in DOMAIN itemsDtc' : Old(j) = Old(k) => j = k
  BY <1>1, <1>2
<1>5. ASSUME NEW j \in DOMAIN itemsDtc, j # row
      PROVE  \E k \in DOMAIN itemsDtc' : Old(k) = j
  <2>1. CASE j < row
    <3>1. j \in DOMAIN itemsDtc' /\ Old(j) = j
      BY <1>1, <1>2, <2>1
    <3> QED
      BY <3>1
  <2>2. CASE ~ (j < row)
    <3>1. j - 1 \in DOMAIN itemsDtc' /\ Old(j - 1) = j
      BY <1>1, <1>2, <1>5, <2>2
    <3> QED
      BY <3>1
  <2> QED
    BY <2>1, <2>2
<1> HIDE DEF Old
<1>6. Listed' \subseteq Listed \ {itemsDtc[row].UUID}
  BY <1>3 DEF Listed
<1>7. Listed \ {itemsDtc[row].UUID} \subseteq Listed'
  <2>1. ASSUME NEW j \in DOMAIN itemsDtc, itemsDtc[j].UUID # itemsDtc[row].UUID
        PROVE  itemsDtc[j].UUID \in Listed'
    <3>1. PICK k \in DOMAIN itemsDtc' : Old(k) = j
      BY <1>5, <2>1
    <3> QED
      BY <1>3, <3>1 DEF Listed
  <2> QED
    BY <2>1 DEF Listed
<1> QED
  BY <1>3, <1>4, <1>6, <1>7

\* A read stays in one piece as long as the view is not left in the middle.
LEMMA ReadStep ==
  ASSUME TypeOK, ReadInv, FoundInv, [Next]_vars, ~interrupted'
  PROVE  OneRead' /\ OneRowEach' /\ Found'
<1>1. ~interrupted
  BY DEF Next, vars, ViewWillAppear, ViewWillDisappear, ItemsDelete, AnswerVotes, AnswerUser,
         FailRead, AnswerDelete, ReadVotes, ReadUser, RemoveRow, AddPoll, DeletePoll,
         CastVote, UserWritten, history
<1>2. OneRead /\ OneRowEach /\ Found
  BY <1>1 DEF ReadInv, FoundInv
<1>3. CASE UNCHANGED <<requests, mainQueue, itemsDtc, appeared, expected, lost>>
  <2>1. /\ UserRequests' = UserRequests /\ UserAnswers' = UserAnswers
        /\ VotesAnswers' = VotesAnswers
        /\ Asked' = Asked /\ Answered' = Answered /\ Listed' = Listed
        /\ Reading' = Reading /\ Starting' = Starting
    BY <1>3 DEF UserRequests, UserAnswers, VotesAnswers, Asked, Answered, Listed, Reading,
                Queued, Starting
  <2>2. OneRead'
    BY <1>2, <1>3, <2>1 DEF OneRead
  <2>3. OneRowEach'
    BY <1>2, <1>3, <2>1 DEF OneRowEach
  <2> QED
    BY <1>2, <1>3, <2>1, <2>2, <2>3 DEF Found
<1>4. CASE ViewWillAppear
  <2>1. /\ requests = {} /\ VotesAnswers = {} /\ UserAnswers = {}
        /\ itemsDtc = <<>> /\ expected = {} /\ lost = {}
    BY <1>2, <1>4, Stages DEF ViewWillAppear, OneRead, Found
  <2>2. /\ requests' = {[kind |-> "votes", read |-> reads]}
        /\ UNCHANGED <<mainQueue, itemsDtc, expected, lost>> /\ appeared'
    BY <1>4, <2>1 DEF ViewWillAppear, history
  <2>3. /\ UserRequests' = {} /\ UserAnswers' = {} /\ VotesAnswers' = {}
        /\ Asked' = {} /\ Answered' = {} /\ Listed' = {}
    BY <2>1, <2>2 DEF UserRequests, UserAnswers, VotesAnswers, Asked, Answered, Listed
  <2>4. OneRead'
    BY <2>1, <2>2, <2>3 DEF OneRead
  <2>5. OneRowEach'
    BY <2>1, <2>2, <2>3 DEF OneRowEach
  <2> QED
    BY <2>1, <2>2, <2>3, <2>4, <2>5 DEF Found
<1>5. CASE ViewWillDisappear
  <2>1. ~Reading
    BY <1>5 DEF ViewWillDisappear
  <2>2. requests = {} /\ VotesAnswers = {} /\ UserAnswers = {}
    BY <2>1, Stages
  <2>3. /\ itemsDtc' = <<>> /\ expected' = {} /\ lost' = {}
        /\ UNCHANGED <<requests, mainQueue>>
    BY <1>5 DEF ViewWillDisappear
  <2>4. /\ UserRequests' = {} /\ UserAnswers' = {} /\ VotesAnswers' = {}
        /\ Asked' = {} /\ Answered' = {} /\ Listed' = {}
        /\ ~Reading'
    BY <2>1, <2>2, <2>3 DEF UserRequests, UserAnswers, VotesAnswers, Asked, Answered, Listed,
                           Reading, Queued
  <2>5. OneRead'
    BY <2>2, <2>3, <2>4 DEF OneRead
  <2>6. OneRowEach'
    BY <2>3, <2>4 DEF OneRowEach
  <2> QED
    BY <2>3, <2>4, <2>5, <2>6 DEF Found
<1>6. ASSUME NEW r \in requests, AnswerVotes(r)
      PROVE  OneRead' /\ OneRowEach' /\ Found'
  <2> DEFINE a == [kind |-> "votes", read |-> r.read, docs |-> LocalPolls(ownPolls')]
             n == Len(mainQueue) + 1
  <2>1. /\ r.kind = "votes" /\ r \notin UserRequests
        /\ requests' = requests \ {r}
        /\ mainQueue' = Append(mainQueue, a) /\ a.kind = "votes"
        /\ UNCHANGED <<itemsDtc, appeared, expected, lost>>
    BY <1>6, Stages DEF AnswerVotes, screen, history
  <2>2. UserRequests # requests /\ Starting
    BY <2>1 DEF Starting
  <2>3. /\ UserRequests = {} /\ UserAnswers = {} /\ VotesAnswers = {}
        /\ itemsDtc = <<>> /\ expected = {} /\ lost = {}
        /\ \A s \in requests : s.kind = "votes" => r = s
    BY <1>2, <2>1, <2>2 DEF OneRead, Found
  <2>4. requests' = {} /\ appeared'
    BY <1>2, <2>1, <2>3, Stages DEF OneRead
  <2> HIDE DEF a
  <2>5. VotesAnswers' = {n} /\ UserAnswers' = {} /\ Answered' = {}
    <3>1. UserAnswers' = {}
      BY <2>1, <2>3, QueueAppend
    <3>2. VotesAnswers' = {n}
      BY <2>1, <2>3, QueueAppend
    <3> QED
      BY <3>1, <3>2 DEF Answered
  <2>6. UserRequests' = {} /\ Asked' = {} /\ Listed' = {}
    BY <2>1, <2>3, <2>4 DEF UserRequests, Asked, Listed
  <2> HIDE DEF n
  <2>7. OneRead'
    BY <2>1, <2>3, <2>4, <2>5, <2>6 DEF OneRead
  <2>8. OneRowEach'
    BY <2>1, <2>3, <2>4, <2>5, <2>6 DEF OneRowEach
  <2> QED
    BY <2>1, <2>3, <2>5, <2>6, <2>7, <2>8 DEF Found
<1>7. ASSUME NEW r \in requests, AnswerUser(r)
      PROVE  OneRead' /\ OneRowEach' /\ Found'
  <2> PICK list : mainQueue' = Append(mainQueue, [kind |-> "user", dtc |-> r.dtc,
                                                 found |-> ownDoc', list |-> list])
    BY <1>7 DEF AnswerUser
  <2> DEFINE a == [kind |-> "user", dtc |-> r.dtc, found |-> ownDoc', list |-> list]
             n == Len(mainQueue) + 1
             u == r.dtc.UUID
  <2>1. /\ r.kind = "user" /\ r \in UserRequests
        /\ requests' = requests \ {r}
        /\ mainQueue' = Append(mainQueue, a) /\ a.kind = "user" /\ a.dtc = r.dtc
        /\ UNCHANGED <<itemsDtc, appeared, expected>>
    BY <1>7, Stages DEF AnswerUser, screen
  <2>1a. (a.found <=> ownDoc') /\ lost' = (IF ownDoc' THEN lost ELSE lost \cup {u})
    BY <1>7 DEF AnswerUser
  <2>2. ~Starting /\ requests = UserRequests /\ VotesAnswers = {} /\ appeared
    BY <1>2, <2>1, Stages DEF OneRead, Starting
  <2>3. u \in Asked /\ u \notin Answered /\ u \notin Listed
    BY <1>2, <2>1, Stages DEF OneRowEach
  <2> HIDE DEF a
  <2>4. /\ VotesAnswers' = {} /\ UserAnswers' = UserAnswers \cup {n}
        /\ n \notin UserAnswers
        /\ mainQueue'[n].dtc.UUID = u /\ mainQueue'[n] = a
        /\ \A k \in UserAnswers : mainQueue'[k] = mainQueue[k]
    BY <2>1, <2>2, QueueAppend DEF UserAnswers
  <2>5. Answered' = Answered \cup {u}
    BY <2>4 DEF Answered
  <2>6. UserRequests' = UserRequests \ {r} /\ requests' = UserRequests'
    BY <2>1, <2>2 DEF UserRequests
  <2>7. Asked' = Asked \ {u}
    BY <1>2, <2>1, <2>6 DEF Asked, OneRowEach
  <2>8. Listed' = Listed
    BY <2>1 DEF Listed
  <2> HIDE DEF n, u
  <2>9. OneRead'
    <3>1. ~Starting'
      BY <2>4, <2>6 DEF Starting
    <3>2. appeared'
      BY <2>1, <2>2
    <3>3. \A x, s \in requests' : x.kind = "votes" /\ s.kind = "votes" => x = s
      BY <1>2, <2>1 DEF OneRead
    <3> QED
      BY <2>4, <2>6, <3>1, <3>2, <3>3 DEF OneRead
  <2>10. OneRowEach'
    <3>1. \A x, s \in UserRequests' : x.dtc.UUID = s.dtc.UUID => x = s
      BY <1>2, <2>6 DEF OneRowEach
    <3>2. \A j, k \in UserAnswers' : mainQueue'[j].dtc.UUID = mainQueue'[k].dtc.UUID => j = k
      <4>1. \A k \in UserAnswers : mainQueue'[k].dtc.UUID \in Answered
        BY <2>4, Stages
      <4>2. \A j, k \in UserAnswers :
              mainQueue[j].dtc.UUID = mainQueue[k].dtc.UUID => j = k
        BY <1>2 DEF OneRowEach
      <4>3. ASSUME NEW j \in UserAnswers', NEW k \in UserAnswers',
                   mainQueue'[j].dtc.UUID = mainQueue'[k].dtc.UUID
            PROVE  j = k
        <5>1. CASE j = n \/ k = n
          BY <2>3, <2>4, <4>1, <4>3, <5>1
        <5>2. CASE j \in UserAnswers /\ k \in UserAnswers
          <6>1. mainQueue[j].dtc.UUID = mainQueue[k].dtc.UUID
            BY <2>4, <4>3, <5>2
          <6> QED
            BY <4>2, <5>2, <6>1
        <5> QED
          BY <2>4, <5>1, <5>2
      <4> QED
        BY <4>3
    <3>3. Asked' \cap Answered' = {} /\ Asked' \cap Listed' = {} /\ Answered' \cap Listed' = {}
      BY <1>2, <2>3, <2>5, <2>7, <2>8 DEF OneRowEach
    <3> QED
      BY <1>2, <2>1, <3>1, <3>2, <3>3 DEF OneRowEach
  <2>11. Found'
    <3>1. /\ expected' = Asked' \cup Answered' \cup Listed' \cup lost'
          /\ lost' \cap (Asked' \cup Listed') = {}
      BY <1>2, <2>1a, <2>1, <2>3, <2>5, <2>7, <2>8 DEF Found
    <3>2. u \notin lost
      BY <1>2, <2>3 DEF Found
    <3>3. mainQueue'[n].found <=> mainQueue'[n].dtc.UUID \notin lost'
      BY <2>1a, <2>4, <3>2
    <3>4. ASSUME NEW k \in UserAnswers
          PROVE  mainQueue'[k].found <=> mainQueue'[k].dtc.UUID \notin lost'
      <4>1. mainQueue[k].dtc.UUID # u /\ mainQueue'[k] = mainQueue[k]
        BY <2>3, <2>4, Stages
      <4>2. mainQueue[k].dtc.UUID \in lost' <=> mainQueue[k].dtc.UUID \in lost
        BY <2>1a, <4>1
      <4>3. mainQueue[k].found <=> mainQueue[k].dtc.UUID \notin lost
        BY <1>2 DEF Found
      <4> QED
        BY <4>1, <4>2, <4>3
    <3> QED
      BY <2>4, <3>1, <3>3, <3>4 DEF Found
  <2> QED
    BY <2>9, <2>10, <2>11
<1>8. ASSUME NEW r \in requests, FailRead(r)
      PROVE  OneRead' /\ OneRowEach' /\ Found'
  <2>1. /\ requests' = requests \ {r}
        /\ lost' = IF r.kind = "user" THEN lost \cup {r.dtc.UUID} ELSE lost
        /\ UNCHANGED <<mainQueue, itemsDtc, appeared, expected>>
    BY <1>8 DEF FailRead, screen
  <2>2. appeared
    BY <1>2, Stages DEF OneRead
  <2>3. /\ UserRequests' = UserRequests \ {r} /\ UserAnswers' = UserAnswers
        /\ VotesAnswers' = VotesAnswers
        /\ Asked' \subseteq Asked /\ Answered' = Answered /\ Listed' = Listed
    BY <2>1 DEF UserRequests, UserAnswers, VotesAnswers, Asked, Answered, Listed
  <2>4. UserRequests' # requests' => UserRequests # requests
    BY <2>1, <2>3
  <2>5. Starting' => Starting
    BY <2>3, <2>4 DEF Starting
  <2>6. OneRead'
    BY <1>2, <2>1, <2>2, <2>3, <2>4, <2>5 DEF OneRead
  <2>7. OneRowEach'
    BY <1>2, <2>1, <2>3 DEF OneRowEach
  <2>8. ASSUME r.kind = "user" PROVE Found'
    <3> DEFINE u == r.dtc.UUID
    <3>1. /\ r \in UserRequests /\ u \in Asked
          /\ u \notin Answered /\ u \notin Listed
      BY <1>2, <2>8, Stages DEF OneRowEach
    <3>2. Asked' = Asked \ {u}
      BY <1>2, <2>3, <3>1 DEF Asked, OneRowEach
    <3>3. lost' = lost \cup {u}
      BY <2>1, <2>8
    <3>4. \A k \in UserAnswers : mainQueue[k].dtc.UUID # u
      BY <3>1, Stages
    <3> HIDE DEF u
    <3> QED
      BY <1>2, <2>1, <2>3, <3>1, <3>2, <3>3, <3>4 DEF Found
  <2>9. ASSUME r.kind # "user" PROVE Found'
    <3>1. UserRequests' = UserRequests
      BY <2>3, <2>9 DEF UserRequests
    <3>2. Asked' = Asked /\ lost' = lost
      BY <2>1, <2>9, <3>1 DEF Asked
    <3> QED
      BY <1>2, <2>1, <2>3, <3>2 DEF Found
  <2> QED
    BY <2>6, <2>7, <2>8, <2>9
<1>9. ASSUME NEW x \in deletes, AnswerDelete(x)
      PROVE  OneRead' /\ OneRowEach' /\ Found'
  <2>1. PICK ok \in BOOLEAN :
          mainQueue' = Append(mainQueue, [kind |-> "delete", index |-> x.index,
                                          poll |-> x.poll, ok |-> ok])
    BY <1>9 DEF AnswerDelete
  <2> DEFINE a == [kind |-> "delete", index |-> x.index, poll |-> x.poll, ok |-> ok]
  <2>2. mainQueue' = Append(mainQueue, a) /\ a.kind = "delete"
    BY <2>1
  <2> HIDE DEF a
  <2>3. UNCHANGED <<requests, itemsDtc, appeared, expected, lost>>
    BY <1>9 DEF AnswerDelete, screen, history
  <2>4. /\ UserAnswers' = UserAnswers /\ VotesAnswers' = VotesAnswers
        /\ Answered' = Answered
        /\ \A k \in UserAnswers : mainQueue'[k] = mainQueue[k]
    BY <2>2, OtherAnswer
  <2>5. UserRequests' = UserRequests /\ Asked' = Asked /\ Listed' = Listed
    BY <2>3 DEF UserRequests, Asked, Listed
  <2>6. Reading' => Reading
    <3>1. Reading' => requests' # {} \/ VotesAnswers' # {} \/ UserAnswers' # {}
      BY DEF Reading, Queued, VotesAnswers, UserAnswers
    <3> QED
      BY <2>3, <2>4, <3>1, Stages
  <2>7. OneRead'
    BY <1>2, <2>3, <2>4, <2>5, <2>6 DEF OneRead, Starting
  <2>8. OneRowEach'
    BY <1>2, <2>3, <2>4, <2>5 DEF OneRowEach
  <2> QED
    BY <1>2, <2>3, <2>4, <2>5, <2>7, <2>8 DEF Found
<1>10. CASE ReadVotes
  <2> DEFINE answer == Head(mainQueue)
             New(p) == [kind |-> "user", read |-> answer.read, dtc |-> DataVoteInit(p)]
  <2>1. /\ mainQueue # <<>> /\ mainQueue' = Tail(mainQueue)
        /\ answer.kind = "votes"
        /\ requests' = requests \cup {New(p) : p \in answer.docs}
        /\ expected' = answer.docs /\ lost' = {}
        /\ UNCHANGED <<itemsDtc, appeared>>
    BY <1>10 DEF ReadVotes, Ready, screen
  <2>2. 1 \in VotesAnswers /\ Starting
    BY <2>1, QueueTail DEF VotesAnswers, Starting
  <2>3. /\ UserRequests = {} /\ UserAnswers = {} /\ itemsDtc = <<>>
        /\ requests = {} /\ appeared'
        /\ \A k \in VotesAnswers : k = 1
    BY <1>2, <2>1, <2>2, Stages DEF OneRead
  <2>4. UserAnswers' = {} /\ VotesAnswers' = {} /\ Answered' = {}
    <3>1. \A k \in DOMAIN mainQueue' : k \in Nat \ {0}
      BY <2>1, QueueTail
    <3>2. VotesAnswers' \subseteq DOMAIN mainQueue' /\ UserAnswers' \subseteq DOMAIN mainQueue'
      BY DEF VotesAnswers, UserAnswers
    <3>3. VotesAnswers' = {}
      <4>1. ASSUME NEW k \in VotesAnswers' PROVE FALSE
        <5>1. k \in Nat \ {0} /\ k + 1 = 1
          BY <2>1, <2>3, <3>1, <3>2, QueueTail
        <5> QED
          BY <5>1
      <4> QED
        BY <4>1
    <3>4. UserAnswers' = {}
      BY <2>1, <2>3, QueueTail
    <3> QED
      BY <3>3, <3>4 DEF Answered
  <2> HIDE DEF answer
  <2>5. \A p : New(p).kind = "user" /\ New(p).dtc.UUID = p
    BY DEF DataVoteInit
  <2> HIDE DEF New
  <2>6. UserRequests' = requests' /\ requests' = {New(p) : p \in answer.docs}
    BY <2>1, <2>3, <2>5 DEF UserRequests
  <2>7. Asked' = answer.docs
    BY <2>5, <2>6 DEF Asked
  <2>8. Listed' = {}
    BY <2>1, <2>3 DEF Listed
  <2>9. OneRead'
    <3>1. ~Starting'
      BY <2>4, <2>6 DEF Starting
    <3> QED
      BY <2>3, <2>4, <2>5, <2>6, <3>1 DEF OneRead
  <2>10. OneRowEach'
    <3>1. \A r, s \in UserRequests' : r.dtc.UUID = s.dtc.UUID => r = s
      BY <2>5, <2>6
    <3> QED
      BY <2>1, <2>3, <2>4, <2>8, <3>1 DEF OneRowEach
  <2> QED
    BY <2>1, <2>4, <2>7, <2>8, <2>9, <2>10 DEF Found
<1>11. CASE ReadUser
  <2> DEFINE answer == Head(mainQueue)
             dtc    == [answer.dtc EXCEPT !.status = (answer.dtc.UUID \in answer.list)]
             u      == answer.dtc.UUID
  <2>1. /\ mainQueue # <<>> /\ mainQueue' = Tail(mainQueue)
        /\ answer.kind = "user"
        /\ UNCHANGED <<requests, appeared, expected, lost>>
    BY <1>11 DEF ReadUser, Ready, history
  <2>2. /\ 1 \in UserAnswers /\ u = mainQueue[1].dtc.UUID
        /\ answer \in AnyAnswer
    BY <2>1, QueueTail DEF UserAnswers
  <2>3. dtc.UUID = u
    <3>1. answer.dtc \in DataVoteCell
      BY <2>1, <2>2, AnswerKinds
    <3> QED
      BY <3>1 DEF DataVoteCell
  <2> HIDE DEF answer, dtc, u
  <2>4. ~Starting /\ appeared /\ u \in Answered /\ u \notin Asked /\ u \notin Listed
    BY <1>2, <2>2, Stages DEF OneRead, OneRowEach
  <2>5. UserRequests' = UserRequests /\ Asked' = Asked
    BY <2>1 DEF UserRequests, Asked
  <2>6. \/ ~answer.found /\ UNCHANGED itemsDtc
        \/ answer.found /\ itemsDtc' = Append(itemsDtc, dtc)
    BY <1>11 DEF ReadUser, AppendRow, answer, dtc
  <2>7. \A k \in UserAnswers' : /\ k \in Nat /\ k # 0 /\ k + 1 \in UserAnswers
                                /\ mainQueue'[k] = mainQueue[k + 1]
    <3>1. \A k \in DOMAIN mainQueue' : k \in Nat \ {0}
      BY <2>1, QueueTail
    <3> QED
      BY <2>1, <3>1, QueueTail DEF UserAnswers
  <2>8. VotesAnswers' = {}
    BY <2>1, <2>4, QueueTail DEF Starting
  <2>9. Answered' = Answered \ {u}
    <3>1. Answered' \subseteq Answered
      BY <2>1, QueueTail
    <3>2. u \notin Answered'
      <4>1. ASSUME NEW k \in UserAnswers', mainQueue'[k].dtc.UUID = u
            PROVE  FALSE
        <5>1. k + 1 = 1 /\ k \in Nat /\ k # 0
          BY <1>2, <2>2, <2>7, <4>1 DEF OneRowEach
        <5> QED
          BY <5>1
      <4> QED
        BY <4>1 DEF Answered
    <3>3. Answered \subseteq Answered' \cup {u}
      BY <2>1, QueueTail DEF u, answer
    <3> QED
      BY <3>1, <3>2, <3>3
  <2>10. OneRead'
    <3>1. ~Starting' /\ requests = UserRequests
      BY <2>1, <2>4, <2>5, <2>8 DEF Starting
    <3> QED
      BY <1>2, <2>1, <2>4, <2>5, <2>8, <3>1 DEF OneRead
  <2>11. \A r, s \in UserRequests' : r.dtc.UUID = s.dtc.UUID => r = s
    BY <1>2, <2>5 DEF OneRowEach
  <2>12. \A j, k \in UserAnswers' : mainQueue'[j].dtc.UUID = mainQueue'[k].dtc.UUID => j = k
    <3>1. ASSUME NEW j \in UserAnswers', NEW k \in UserAnswers',
                 mainQueue'[j].dtc.UUID = mainQueue'[k].dtc.UUID
          PROVE  j = k
      <4>1. j + 1 = k + 1 /\ j \in Nat /\ k \in Nat
        BY <1>2, <2>7, <3>1 DEF OneRowEach
      <4> QED
        BY <4>1
    <3> QED
      BY <3>1
  <2>13. /\ answer.found <=> u \notin lost
         /\ \A k \in UserAnswers' : mainQueue'[k].found <=> mainQueue'[k].dtc.UUID \notin lost'
    <3>1. mainQueue[1].found <=> mainQueue[1].dtc.UUID \notin lost
      BY <1>2, <2>2 DEF Found
    <3>2. answer = mainQueue[1]
      BY <2>1, QueueTail DEF answer
    <3>3. ASSUME NEW k \in UserAnswers'
          PROVE  mainQueue'[k].found <=> mainQueue'[k].dtc.UUID \notin lost'
      <4>1. mainQueue[k + 1].found <=> mainQueue[k + 1].dtc.UUID \notin lost
        BY <1>2, <2>7 DEF Found
      <4> QED
        BY <2>1, <2>7, <4>1
    <3> QED
      BY <2>2, <3>1, <3>2, <3>3
  <2>14. CASE ~answer.found /\ UNCHANGED itemsDtc
    <3>1. Listed' = Listed /\ u \in lost
      BY <2>13, <2>14 DEF Listed
    <3>2. OneRowEach'
      BY <1>2, <2>5, <2>9, <2>11, <2>12, <2>14, <3>1 DEF OneRowEach
    <3>3. Found'
      BY <1>2, <2>1, <2>5, <2>9, <2>13, <3>1 DEF Found
    <3> QED
      BY <2>10, <3>2, <3>3
  <2>15. CASE answer.found /\ itemsDtc' = Append(itemsDtc, dtc)
    <3> DEFINE n == Len(itemsDtc) + 1
    <3>1. /\ DOMAIN itemsDtc' = DOMAIN itemsDtc \cup {n}
          /\ n \notin DOMAIN itemsDtc
          /\ itemsDtc'[n] = dtc
          /\ \A k \in DOMAIN itemsDtc : itemsDtc'[k] = itemsDtc[k]
          /\ Listed' = Listed \cup {u}
      BY <2>3, <2>15, RowAppended
    <3> HIDE DEF n
    <3>2. \A j, k \in DOMAIN itemsDtc' : itemsDtc'[j].UUID = itemsDtc'[k].UUID => j = k
      <4>1. \A k \in DOMAIN itemsDtc : itemsDtc'[k].UUID \in Listed
        BY <3>1, Stages
      <4> QED
        BY <1>2, <2>3, <2>4, <3>1, <4>1 DEF OneRowEach
    <3>3. Asked' \cap Answered' = {} /\ Asked' \cap Listed' = {} /\ Answered' \cap Listed' = {}
      BY <1>2, <2>4, <2>5, <2>9, <3>1 DEF OneRowEach
    <3>4. OneRowEach'
      BY <2>11, <2>12, <3>2, <3>3 DEF OneRowEach
    <3>5. u \notin lost
      BY <2>13, <2>15
    <3>6. Found'
      BY <1>2, <2>1, <2>4, <2>5, <2>9, <2>13, <3>1, <3>5 DEF Found
    <3> QED
      BY <2>10, <3>4, <3>6
  <2> QED
    BY <2>6, <2>14, <2>15
<1>12. CASE RemoveRow
  <2> DEFINE answer == Head(mainQueue)
             row    == RowOf(answer.index)
  <2>1. /\ mainQueue # <<>> /\ mainQueue' = Tail(mainQueue)
        /\ answer.kind = "delete"
        /\ UNCHANGED <<requests, appeared, lost>>
    BY <1>12 DEF RemoveRow, Ready
  <2>2. 1 \notin UserAnswers
    BY <2>1, QueueTail DEF UserAnswers
  <2>3. \A k \in UserAnswers' : /\ k \in Nat /\ k + 1 \in UserAnswers
                                /\ mainQueue'[k] = mainQueue[k + 1]
    BY <2>1, QueueTail DEF UserAnswers
  <2>4. \A k \in VotesAnswers' : k \in Nat /\ k + 1 \in VotesAnswers
    BY <2>1, QueueTail DEF VotesAnswers
  <2>5. Answered' = Answered
    BY <2>1, <2>2, QueueTail
  <2>6. UserRequests' = UserRequests /\ Asked' = Asked
    BY <2>1 DEF UserRequests, Asked
  <2>7. /\ Starting' => Starting
        /\ UserAnswers = {} => UserAnswers' = {}
        /\ VotesAnswers = {} => VotesAnswers' = {}
    BY <2>1, <2>3, <2>4, <2>6 DEF Starting
  <2>8. Reading' => Reading
    <3>1. Reading' => requests' # {} \/ VotesAnswers' # {} \/ UserAnswers' # {}
      BY DEF Reading, Queued, VotesAnswers, UserAnswers
    <3> QED
      BY <2>1, <2>3, <2>4, <3>1, Stages
  <2>9. \A j, k \in UserAnswers' : mainQueue'[j].dtc.UUID = mainQueue'[k].dtc.UUID => j = k
    <3>1. ASSUME NEW j \in UserAnswers', NEW k \in UserAnswers',
                 mainQueue'[j].dtc.UUID = mainQueue'[k].dtc.UUID
          PROVE  j = k
      <4>1. j + 1 = k + 1 /\ j \in Nat /\ k \in Nat
        BY <1>2, <2>3, <3>1 DEF OneRowEach
      <4> QED
        BY <4>1
    <3> QED
      BY <3>1
  <2>10. \A j, k \in VotesAnswers' : j = k
    <3>1. ASSUME NEW j \in VotesAnswers', NEW k \in VotesAnswers'
          PROVE  j = k
      <4>1. j + 1 = k + 1 /\ j \in Nat /\ k \in Nat
        BY <1>2, <2>4 DEF OneRead
      <4> QED
        BY <4>1
    <3> QED
      BY <3>1
  <2>11. CASE UNCHANGED <<itemsDtc, expected>>
    <3>1. Listed' = Listed
      BY <2>11 DEF Listed
    <3>2. OneRead'
      BY <1>2, <2>1, <2>6, <2>7, <2>8, <2>10, <2>11 DEF OneRead
    <3>3. OneRowEach'
      BY <1>2, <2>5, <2>6, <2>9, <2>11, <3>1 DEF OneRowEach
    <3>4. Found'
      BY <1>2, <2>1, <2>3, <2>5, <2>6, <2>11, <3>1 DEF Found
    <3> QED
      BY <3>2, <3>3, <3>4
  <2>12. CASE /\ row \in DOMAIN itemsDtc
              /\ itemsDtc' = RemoveAt(itemsDtc, row)
              /\ expected' = expected \ {itemsDtc[row].UUID}
    <3> HIDE DEF row
    <3>1. /\ Listed' = Listed \ {itemsDtc[row].UUID}
          /\ \A j, k \in DOMAIN itemsDtc' : itemsDtc'[j].UUID = itemsDtc'[k].UUID => j = k
      BY <1>2, <2>12, RowTakenOff DEF OneRowEach
    <3>2. itemsDtc # <<>> /\ itemsDtc[row].UUID \in Listed
      BY <2>12, Stages
    <3>3. appeared /\ ~Starting
      BY <1>2, <3>2 DEF OneRead
    <3>4. OneRead'
      BY <1>2, <2>1, <2>6, <2>7, <2>10, <3>3 DEF OneRead
    <3>5. OneRowEach'
      BY <1>2, <2>5, <2>6, <2>9, <3>1 DEF OneRowEach
    <3>6. Found'
      <4>1. /\ expected' = Asked' \cup Answered' \cup Listed' \cup lost'
            /\ lost' \cap (Asked' \cup Listed') = {}
        BY <1>2, <2>1, <2>5, <2>6, <2>12, <3>1, <3>2 DEF Found, OneRowEach
      <4> QED
        BY <1>2, <2>1, <2>3, <4>1 DEF Found
    <3> QED
      BY <3>4, <3>5, <3>6
  <2> QED
    BY <1>12, <2>11, <2>12 DEF RemoveRow
<1> QED
  BY <1>3, <1>4, <1>5, <1>6, <1>7, <1>8, <1>9, <1>10, <1>11, <1>12
  DEF Next, vars, ItemsDelete, AddPoll, DeletePoll, CastVote, UserWritten, screen, history

-----------------------------------------------------------------------------
(* Theorems *)

LEMMA InitIInv ==
  ASSUME Init
  PROVE  IInv
<1>1. /\ itemsDtc \in Seq(DataVoteCell)
      /\ mainQueue \in Seq(VotesAnswer \cup UserAnswer \cup DeleteAnswer)
      /\ itemsDtc = <<>> /\ DOMAIN itemsDtc = {} /\ DOMAIN mainQueue = {}
      /\ requests = {} /\ deletes = {} /\ expected = {} /\ lost = {} /\ undone = {}
  BY DEF Init
<1>2. /\ appeared \in BOOLEAN /\ adminStatus \in BOOLEAN /\ crashed \in BOOLEAN
      /\ interrupted \in BOOLEAN /\ shifted \in BOOLEAN /\ ~crashed
  BY Zenon DEF Init
<1>3. TypeOK
  BY <1>1, <1>2 DEF Init, TypeOK
<1>4. /\ UserRequests = {} /\ UserAnswers = {} /\ VotesAnswers = {}
      /\ Asked = {} /\ Answered = {} /\ Listed = {}
      /\ ~Reading /\ ~Starting
  BY <1>1 DEF UserRequests, UserAnswers, VotesAnswers, Asked, Answered, Listed, Reading,
              Queued, Starting
<1>5. OneRead /\ OneRowEach
  BY <1>1, <1>4 DEF OneRead, OneRowEach
<1>6. FoundInv
  BY <1>1, <1>4 DEF FoundInv, Found
<1>7. DeleteInv
  BY <1>1, <1>2 DEF DeleteInv
<1> QED
  BY <1>3, <1>5, <1>6, <1>7 DEF IInv, ReadInv

LEMMA Invariance == Spec => []IInv
<1>1. Init => IInv
  BY InitIInv
<1>2. ASSUME IInv, [Next]_vars PROVE IInv'
  <2>1. TypeOK' /\ DeleteInv'
    BY <1>2, NextTypeOK, NextDeleteInv DEF IInv
  <2>2. ReadInv' /\ FoundInv'
    BY <1>2, ReadStep DEF IInv, ReadInv, FoundInv
  <2> QED
    BY <2>1, <2>2 DEF IInv
<1> QED
  BY <1>1, <1>2, PTL DEF Spec

\* Type correctness of the list, the queries and the callbacks.
THEOREM TypeCorrect == Spec => []TypeOK
<1>1. IInv => TypeOK
  BY DEF IInv
<1> QED
  BY <1>1, Invariance, PTL

\* readDataBase appends one row per callback and checks nothing, yet no poll
\* gets two rows unless the view is left in the middle of a read.
THEOREM NoPollTwiceHolds == Spec => []NoPollTwice
<1>1. IInv => NoPollTwice
  BY DEF IInv, ReadInv, OneRowEach, NoPollTwice
<1> QED
  BY <1>1, Invariance, PTL

\* When the last callback of a read has run, the rows are the polls the read
\* found, less the ones deleted since and the ones whose own query of Users
\* failed or found no document, in whatever order the answers came.
THEOREM ListMatchesReadHolds == Spec => []ListMatchesRead
<1>1. ASSUME IInv PROVE ListMatchesRead
  <2>1. ASSUME ~Reading, ~interrupted
        PROVE  Listed = expected \ lost
    <3>1. requests = {} /\ UserAnswers = {}
      BY <1>1, <2>1, Stages DEF IInv
    <3>2. Asked = {} /\ Answered = {}
      BY <3>1 DEF Asked, Answered, UserRequests
    <3> QED
      BY <1>1, <2>1, <3>2 DEF IInv, FoundInv, Found
  <2> QED
    BY <2>1 DEF ListMatchesRead
<1> QED
  BY <1>1, Invariance, PTL

\* itemsDelete uses the index its closure captured: it is in range and is the
\* row of the poll deleted, unless a row was removed or the list emptied while
\* the deletion was pending.
THEOREM DeletedRowLeavesHolds == Spec => []DeletedRowLeaves
<1>1. IInv => DeletedRowLeaves
  BY DEF IInv, DeleteInv, DeletedRowLeaves
<1> QED
  BY <1>1, Invariance, PTL
=============================================================================
