------------------------- MODULE BallotRecordProofs -------------------------
(***************************************************************************)
(* What a user's taps do to the user's list, and the lists to the tallies: *)
(* theorems about Ballot that need the interleaving of taps, queries and   *)
(* writes of one user, or of one poll, to be followed step by step.        *)
(***************************************************************************)
EXTENDS BallotProofs, FiniteSetTheorems

-----------------------------------------------------------------------------
(* One tap at a time *)

Own(u) == {d \in Devices : Email[d] = u}

\* A callback runs where its query was sent from.
AtHome == \A d \in Devices : \A k \in DOMAIN mainQueue[d] : mainQueue[d][k].req.dev = d

\* The user has at most one tap under way and, during one, no writes on any
\* other device; writes are never on two devices at once.
OneTap(u) ==
    /\ \A r, s \in requests : Email[r.dev] = u /\ Email[s.dev] = u => r = s
    /\ \A r \in requests, d \in Devices :
         Email[r.dev] = u /\ Email[d] = u => mainQueue[d] = <<>>
    /\ \A d \in Own(u) : Len(mainQueue[d]) <= 1
    /\ \A d, e \in Own(u) : d # e => mainQueue[d] = <<>> \/ mainQueue[e] = <<>>
    /\ \A r \in requests, e \in Own(u) : Email[r.dev] = u /\ e # r.dev => outbox[e] = <<>>
    /\ \A d, e \in Own(u) : d # e => mainQueue[d] = <<>> \/ outbox[e] = <<>>
    /\ \A d, e \in Own(u) : d # e => outbox[d] = <<>> \/ outbox[e] = <<>>

TapsSerial == AtHome /\ \A u \in Users \ overlapped : OneTap(u)

\* The user's queries, callbacks and taps under way, and the lists that those
\* have read and will write back.
MyRequests(u) == {r \in requests : r.dev \in Own(u)}
MyQueue(u)    == UNION {{mainQueue[d][k] : k \in DOMAIN mainQueue[d]} : d \in Own(u)}
Flight(u)     == MyRequests(u) \cup {cb.req : cb \in MyQueue(u)}
Captured(u)   == {cb.list : cb \in {c \in MyQueue(u) : c.req.kind = "user"}}
                 \cup {r.arrays : r \in {s \in Flight(u) : s.kind = "second"}}

\* The polls of the user's list, of the lists queued and of the list captured
\* grow in this order.
Growing(u) ==
    /\ \A d \in Own(u) : \A j, k \in PendingUser(d) :
         j <= k => PollsOf(outbox[d][j].list) \subseteq PollsOf(outbox[d][k].list)
    /\ \A d \in Own(u) : \A k \in PendingUser(d) :
         (k > applied[d] \/ \A j \in PendingUser(d) : j <= k) =>
           PollsOf(users[u]) \subseteq PollsOf(outbox[d][k].list)
    /\ \A list \in Captured(u) :
         /\ PollsOf(users[u]) \subseteq PollsOf(list)
         /\ \A d \in Own(u) : \A k \in PendingUser(d) :
              PollsOf(outbox[d][k].list) \subseteq PollsOf(list)

ListsGrow == \A u \in Users \ (overlapped \cup replayed) : Growing(u)

-----------------------------------------------------------------------------
(* Lists and intents *)

\* The list the user will have when the queued writes are through: the newest
\* queued one, or else the document.
Writing(u)  == {d \in Own(u) : PendingUser(d) # {}}
Newest(d)   == outbox[d][Max(PendingUser(d))].list
Standing(u) == IF Writing(u) = {} THEN users[u] ELSE Newest(CHOOSE d \in Writing(u) : TRUE)

\* The last queued list the backend went through is the user's list.
AppliedList(u) ==
    \A d \in Own(u) : \A k \in PendingUser(d) :
      k <= applied[d] /\ (\A j \in PendingUser(d) : j <= applied[d] => j <= k) =>
        users[u] = outbox[d][k].list

\* A tap of the user on the poll whose record has not been written yet.
Unwritten(u, p) == \E r \in Flight(u) : r.poll = p /\ r.kind \in {"user", "second"}

Matching(u) ==
    /\ AppliedList(u)
    /\ \A list \in Captured(u) : list = Standing(u)
    /\ \A r \in Flight(u) : RecordsOf(intent[u], r.poll) = {NewRecord(r.poll, r.index)}
    /\ \A p \in Polls : votes[p] # Absent /\ ~Unwritten(u, p) =>
         RecordsOf(Standing(u), p) = RecordsOf(intent[u], p)

\* A poll that a device found missing is gone for good.
GoneIsGone ==
    \A d \in Devices :
      /\ \A p \in Polls : ownVotes[d][p] = Absent => votes[p] = Absent
      /\ \A k \in DOMAIN mainQueue[d] :
           /\ mainQueue[d][k].req.kind \in {"first", "second"}
           /\ mainQueue[d][k].tally = Absent
           => votes[mainQueue[d][k].req.poll] = Absent

ListsMatch == \A u \in Users \ (overlapped \cup faulty) : Matching(u)

-----------------------------------------------------------------------------
(* Facts about queues *)

LEMMA AppendAt ==
  ASSUME NEW S, NEW s \in Seq(S), NEW a
  PROVE  LET n == Len(s) + 1 IN
         /\ n \in Nat /\ n \notin DOMAIN s /\ Len(s) \in Nat
         /\ \A k \in DOMAIN s : k \in Nat /\ k < n /\ 1 <= k
         /\ DOMAIN Append(s, a) = DOMAIN s \cup {n}
         /\ Append(s, a)[n] = a
         /\ \A k \in DOMAIN s : Append(s, a)[k] = s[k]
         /\ Append(s, a) # <<>>
OBVIOUS

LEMMA TailAt ==
  ASSUME NEW S, NEW s \in Seq(S), s # <<>>
  PROVE  /\ Head(s) = s[1] /\ 1 \in DOMAIN s /\ Head(s) \in S
         /\ Tail(s) \in Seq(S) /\ Len(Tail(s)) = Len(s) - 1 /\ Len(s) \in Nat
         /\ \A k \in DOMAIN Tail(s) : /\ k \in Nat /\ 1 < k + 1
                                      /\ k + 1 \in DOMAIN s
                                      /\ Tail(s)[k] = s[k + 1]
         /\ \A k \in DOMAIN s : k = 1 \/ (k \in Nat /\ k - 1 \in DOMAIN Tail(s))
OBVIOUS

LEMMA ShortQueue ==
  ASSUME NEW S, NEW s \in Seq(S), Len(s) <= 1
  PROVE  /\ s # <<>> => DOMAIN s = {1} /\ Head(s) = s[1] /\ Tail(s) = <<>> /\ Len(s) = 1
         /\ s = <<>> => DOMAIN s = {} /\ Len(s) = 0
<1>1. Len(s) \in Nat /\ DOMAIN s = 1..Len(s)
  OBVIOUS
<1>2. ASSUME s # <<>>
      PROVE  DOMAIN s = {1} /\ Head(s) = s[1] /\ Tail(s) = <<>> /\ Len(s) = 1
  <2>1. /\ Head(s) = s[1] /\ 1 \in DOMAIN s /\ Tail(s) \in Seq(S)
        /\ Len(Tail(s)) = Len(s) - 1
    BY <1>2, TailAt
  <2>2. Len(s) = 1
    BY <1>1, <2>1
  <2>3. Tail(s) = <<>>
    <3> DEFINE t == Tail(s)
    <3>1. t \in Seq(S) /\ Len(t) = 0
      BY <2>1, <2>2
    <3> HIDE DEF t
    <3>2. t = <<>>
      BY <3>1, EmptySeq
    <3> QED
      BY <3>2 DEF t
  <2> QED
    BY <1>1, <2>1, <2>2, <2>3
<1> QED
  BY <1>1, <1>2

\* The newest of some positions.
LEMMA MaxIs ==
  ASSUME NEW n \in Nat, NEW S \in SUBSET (1..n), NEW m \in S, \A j \in S : j <= m
  PROVE  Max(S) = m
<1>1. \A x \in S : x \in Int
  OBVIOUS
<1>2. Max(S) \in S /\ \A y \in S : Max(S) >= y
  <2>1. \E x \in S : \A y \in S : x >= y
    BY <1>1
  <2> QED
    BY <2>1 DEF Max
<1>3. m \in Int /\ Max(S) \in Int /\ Max(S) >= m /\ Max(S) <= m
  BY <1>1, <1>2
<1> QED
  BY <1>3

LEMMA LastExists ==
  ASSUME NEW n \in Nat, NEW S \in SUBSET (1..n), S # {}
  PROVE  \E k \in S : \A j \in S : j <= k
<1> DEFINE T == {n - k : k \in S}
           R == {ss \in Nat \X Nat : ss[1] < ss[2]}
<1>1. \A k \in S : n - k \in Nat /\ k \in Nat
  OBVIOUS
<1>2. T \subseteq Nat /\ T # {}
  BY <1>1
<1>3. IsWellFoundedOn(R, Nat)
  BY NatLessThanWellFounded DEF OpToRel
<1>4. PICK x \in T : \A y \in T : ~ (<<y, x>> \in R)
  BY <1>2, <1>3, WFMin
<1>5. PICK k \in S : x = n - k
  OBVIOUS
<1>6. ASSUME NEW j \in S PROVE j <= k
  <2>1. n - j \in T
    OBVIOUS
  <2>2. ~ (n - j < n - k)
    BY <1>1, <1>4, <1>5, <2>1
  <2> QED
    BY <1>1, <2>2
<1> QED
  BY <1>6

-----------------------------------------------------------------------------
(* Whose step it is *)

\* What the device does, or what Firestore does for it.
By(d) ==
    \/ \E p \in Polls, i \in Variants : TabOnCell(d, p, i)
    \/ VoteFirst(d) \/ VoteSecond(d) \/ CountFirst(d) \/ CountSecond(d)
    \/ Apply(d) \/ Acknowledge(d) \/ Resend(d) \/ RejectWrite(d) \/ Refresh(d) \/ Crash(d)
    \/ \E r \in requests :
         /\ r.dev = d
         /\ AnswerUser(r) \/ AnswerVote(r) \/ RecallUser(r) \/ RecallVote(r) \/ FailRead(r)

LEMMA EveryStepIsBySomebody ==
  ASSUME TypeOK, Next
  PROVE  (\E d \in Devices : By(d)) \/ (\E p \in Polls : DeletePoll(p))
<1>1. \A r \in requests : r.dev \in Devices
  BY DEF TypeOK, UserRequest, VoteRequest, Request
<1> QED
  BY <1>1 DEF Next, By

\* What concerns one user.
Untouched(u) ==
    /\ MyRequests(u)' = MyRequests(u)
    /\ \A d \in Own(u) : /\ mainQueue'[d] = mainQueue[d]
                         /\ outbox'[d] = outbox[d]
                         /\ applied'[d] = applied[d]
    /\ users'[u] = users[u]
    /\ intent'[u] = intent[u]

\* The callback at the head of a main queue.
LEMMA AtHead ==
  ASSUME TypeOK, AtHome, NEW d \in Devices, mainQueue[d] # <<>>
  PROVE  LET cb == Head(mainQueue[d]) IN
         /\ cb = mainQueue[d][1] /\ 1 \in DOMAIN mainQueue[d] /\ cb.req.dev = d
         /\ cb \in UserCallback \cup VoteCallback
         /\ cb.req \in UserRequest \cup VoteRequest
         /\ cb.req.kind = "user" <=> cb \in UserCallback
         /\ cb.req.kind \in {"first", "second"} <=> cb \in VoteCallback
<1>1. mainQueue[d] \in Seq(UserCallback \cup VoteCallback)
  BY DEF TypeOK
<1>2. /\ Head(mainQueue[d]) = mainQueue[d][1] /\ 1 \in DOMAIN mainQueue[d]
      /\ Head(mainQueue[d]) \in UserCallback \cup VoteCallback
  BY <1>1, TailAt
<1>3. Head(mainQueue[d]).req.dev = d
  BY <1>2 DEF AtHome
<1>4. \A cb \in UserCallback : cb.req \in UserRequest /\ cb.req.kind = "user"
  BY DEF UserCallback, UserRequest, Request
<1>5. \A cb \in VoteCallback : cb.req \in VoteRequest /\ cb.req.kind \in {"first", "second"}
  BY DEF VoteCallback, VoteRequest, Request
<1> QED
  BY <1>2, <1>3, <1>4, <1>5

\* A device's step touches nothing of anybody but its user.
LEMMA StepsOfOthers ==
  ASSUME TypeOK, AtHome, NEW d \in Devices, By(d), NEW u \in Users, u # Email[d]
  PROVE  Untouched(u)
<1> USE DEF database, sending, copies, history, client
<1>1. d \notin Own(u) /\ \A e \in Own(u) : e # d /\ e \in Devices
  BY DEF Own
<1>2. Email[d] \in Users
  BY EmailAssumption
<1>3. /\ mainQueue \in [Devices -> Seq(UserCallback \cup VoteCallback)]
      /\ outbox \in [Devices -> Seq(Write)] /\ applied \in [Devices -> Nat]
      /\ DOMAIN users = Users /\ DOMAIN intent = Users
  BY DEF TypeOK
<1>4. ASSUME NEW r, r.dev = d, requests' = requests \cup {r} PROVE MyRequests(u)' = MyRequests(u)
  BY <1>1, <1>4 DEF MyRequests
<1>5. ASSUME NEW r, r.dev = d, requests' = requests \ {r} PROVE MyRequests(u)' = MyRequests(u)
  BY <1>1, <1>5 DEF MyRequests
<1>6. ASSUME NEW p \in Polls, NEW i \in Variants, TabOnCell(d, p, i) PROVE Untouched(u)
  <2>1. MyRequests(u)' = MyRequests(u)
    <3> DEFINE r == [kind |-> "user", tap |-> taps, dev |-> d, poll |-> p,
                     index |-> i, arrays |-> {}, extra |-> i]
    <3>1. r.dev = d /\ requests' = requests \cup {r}
      BY <1>6 DEF TabOnCell
    <3> HIDE DEF r
    <3> QED
      BY <1>4, <3>1
  <2>2. intent'[u] = intent[u]
    BY <1>2, <1>3, <1>6 DEF TabOnCell
  <2> QED
    BY <1>6, <2>1, <2>2 DEF TabOnCell, Untouched
<1>7. CASE VoteFirst(d) \/ VoteSecond(d)
  <2>1. mainQueue[d] # <<>>
    BY <1>7 DEF VoteFirst, VoteSecond, Ready
  <2>2. PICK r : r.dev = d /\ requests' = requests \cup {r}
    <3>1. Head(mainQueue[d]).req.dev = d /\ Head(mainQueue[d]).req \in UserRequest \cup VoteRequest
      BY <2>1, AtHead
    <3> DEFINE q == Head(mainQueue[d]).req
    <3>2. \A a, x : /\ [q EXCEPT !.kind = "first", !.arrays = a].dev = d
                    /\ [q EXCEPT !.kind = "second", !.arrays = a, !.extra = x].dev = d
      BY <3>1 DEF UserRequest, VoteRequest, Request
    <3> QED
      BY <1>7, <3>2 DEF VoteFirst, VoteSecond
  <2>3. MyRequests(u)' = MyRequests(u)
    BY <1>4, <2>2
  <2>4. /\ \A e \in Own(u) : mainQueue'[e] = mainQueue[e] /\ outbox'[e] = outbox[e]
        /\ UNCHANGED <<applied, users, intent>>
    BY <1>1, <1>3, <1>7 DEF VoteFirst, VoteSecond
  <2> QED
    BY <2>3, <2>4 DEF Untouched
<1>8. CASE CountFirst(d) \/ CountSecond(d)
  BY <1>1, <1>3, <1>8 DEF CountFirst, CountSecond, Untouched, MyRequests
<1>9. CASE Apply(d)
  BY <1>1, <1>2, <1>3, <1>9 DEF Apply, Untouched, MyRequests
<1>10. CASE Acknowledge(d) \/ Resend(d) \/ RejectWrite(d) \/ Refresh(d)
  BY <1>1, <1>3, <1>10 DEF Acknowledge, Resend, RejectWrite, Refresh, SentAgain, Untouched, MyRequests
<1>11. CASE Crash(d)
  BY <1>1, <1>3, <1>11 DEF Crash, SentAgain, Untouched, MyRequests
<1>12. ASSUME NEW r \in requests, r.dev = d,
              AnswerUser(r) \/ AnswerVote(r) \/ RecallUser(r) \/ RecallVote(r) \/ FailRead(r)
       PROVE  Untouched(u)
  <2>1. MyRequests(u)' = MyRequests(u)
    <3>1. requests' = requests \ {r}
      BY <1>12 DEF AnswerUser, AnswerVote, RecallUser, RecallVote, FailRead
    <3> QED
      BY <1>5, <1>12, <3>1
  <2>2. \A e \in Own(u) : mainQueue'[e] = mainQueue[e]
    BY <1>1, <1>3, <1>12 DEF AnswerUser, AnswerVote, RecallUser, RecallVote, FailRead
  <2>3. UNCHANGED <<outbox, applied, users, intent>>
    BY <1>12 DEF AnswerUser, AnswerVote, RecallUser, RecallVote, FailRead
  <2> QED
    BY <2>1, <2>2, <2>3 DEF Untouched
<1> QED
  BY <1>6, <1>7, <1>8, <1>9, <1>10, <1>11, <1>12 DEF By

-----------------------------------------------------------------------------
(* One tap at a time *)

\* What one tap at a time says of the places where a tap can be.
FlightFacts ==
    \A u \in Users : OneTap(u) =>
      /\ \A r \in requests : r.dev \in Own(u) => Flight(u) = {r} /\ MyQueue(u) = {}
      /\ \A d \in Own(u) : mainQueue[d] # <<>> =>
           /\ Flight(u) = {Head(mainQueue[d]).req}
           /\ MyQueue(u) = {Head(mainQueue[d])}
           /\ MyRequests(u) = {}
           /\ Tail(mainQueue[d]) = <<>>
      /\ MyRequests(u) = {} /\ (\A d \in Own(u) : mainQueue[d] = <<>>) =>
           Flight(u) = {} /\ MyQueue(u) = {}

LEMMA FlightFactsHold == TypeOK => FlightFacts
<1> SUFFICES ASSUME TypeOK, NEW u \in Users, OneTap(u)
             PROVE  /\ \A r \in requests : r.dev \in Own(u) => Flight(u) = {r} /\ MyQueue(u) = {}
                    /\ \A d \in Own(u) : mainQueue[d] # <<>> =>
                         /\ Flight(u) = {Head(mainQueue[d]).req}
                         /\ MyQueue(u) = {Head(mainQueue[d])}
                         /\ MyRequests(u) = {}
                         /\ Tail(mainQueue[d]) = <<>>
                    /\ MyRequests(u) = {} /\ (\A d \in Own(u) : mainQueue[d] = <<>>) =>
                         Flight(u) = {} /\ MyQueue(u) = {}
  BY DEF FlightFacts
<1>1. \A d \in Own(u) : d \in Devices /\ Email[d] = u /\ Len(mainQueue[d]) <= 1
                        /\ mainQueue[d] \in Seq(UserCallback \cup VoteCallback)
  BY DEF Own, OneTap, TypeOK
<1>2. \A d \in Own(u) : mainQueue[d] = <<>> => DOMAIN mainQueue[d] = {}
  OBVIOUS
<1>3. \A d \in Own(u) : mainQueue[d] # <<>> =>
        DOMAIN mainQueue[d] = {1} /\ Head(mainQueue[d]) = mainQueue[d][1] /\ Tail(mainQueue[d]) = <<>>
  BY <1>1, ShortQueue
<1>4. (\A d \in Own(u) : mainQueue[d] = <<>>) => MyQueue(u) = {}
  BY <1>2 DEF MyQueue
<1>5. ASSUME NEW r \in requests, r.dev \in Own(u)
      PROVE  Flight(u) = {r} /\ MyQueue(u) = {}
  <2>1. \A s \in requests : s.dev \in Own(u) => s = r
    BY <1>5 DEF OneTap, Own
  <2>2. \A d \in Own(u) : mainQueue[d] = <<>>
    BY <1>5 DEF OneTap, Own
  <2>3. MyRequests(u) = {r} /\ MyQueue(u) = {}
    BY <1>4, <1>5, <2>1, <2>2 DEF MyRequests
  <2> QED
    BY <2>3 DEF Flight
<1>6. ASSUME NEW d \in Own(u), mainQueue[d] # <<>>
      PROVE  /\ Flight(u) = {Head(mainQueue[d]).req}
             /\ MyQueue(u) = {Head(mainQueue[d])}
             /\ MyRequests(u) = {}
  <2>1. MyRequests(u) = {}
    BY <1>1, <1>6 DEF OneTap, Own, MyRequests
  <2>2. \A e \in Own(u) : e # d => mainQueue[e] = <<>>
    BY <1>6 DEF OneTap
  <2>3. {mainQueue[d][k] : k \in DOMAIN mainQueue[d]} = {Head(mainQueue[d])}
    BY <1>3, <1>6
  <2>4. \A e \in Own(u) : e # d => {mainQueue[e][k] : k \in DOMAIN mainQueue[e]} = {}
    BY <1>2, <2>2
  <2>5. MyQueue(u) = {Head(mainQueue[d])}
    BY <2>3, <2>4 DEF MyQueue
  <2> QED
    BY <2>1, <2>5 DEF Flight
<1> QED
  BY <1>3, <1>4, <1>5, <1>6 DEF Flight

\* The user's part of what is in flight.
LEMMA FlightOfUser ==
  ASSUME TypeOK, AtHome, NEW u \in Users
  PROVE  \A r : r \in InFlight /\ Email[r.dev] = u <=> r \in Flight(u)
<1>1. \A r \in requests : r.dev \in Devices
  BY DEF TypeOK, UserRequest, VoteRequest, Request
<1>2. \A d \in Devices : \A k \in DOMAIN mainQueue[d] : mainQueue[d][k].req.dev = d
  BY DEF AtHome
<1> QED
  BY <1>1, <1>2 DEF InFlight, Flight, MyQueue, MyRequests, Own

\* Callbacks stay where they are run.
LEMMA AtHomeStep ==
  ASSUME TypeOK, AtHome, Next
  PROVE  AtHome'
<1> USE DEF database, sending, copies, history, client
<1>1. mainQueue \in [Devices -> Seq(UserCallback \cup VoteCallback)]
  BY DEF TypeOK
<1>2. \A r \in requests : r.dev \in Devices
  BY DEF TypeOK, UserRequest, VoteRequest, Request
<1>3. ASSUME NEW d \in Devices, NEW cb, cb.req.dev = d,
             mainQueue' = [mainQueue EXCEPT ![d] = Append(@, cb)]
      PROVE  AtHome'
  <2>1. /\ DOMAIN mainQueue'[d] = DOMAIN mainQueue[d] \cup {Len(mainQueue[d]) + 1}
        /\ mainQueue'[d][Len(mainQueue[d]) + 1] = cb
        /\ \A k \in DOMAIN mainQueue[d] : mainQueue'[d][k] = mainQueue[d][k]
    <3>1. mainQueue'[d] = Append(mainQueue[d], cb) /\ mainQueue[d] \in Seq(UserCallback \cup VoteCallback)
      BY <1>1, <1>3
    <3> QED
      BY <3>1, AppendAt
  <2>2. \A e \in Devices : e # d => mainQueue'[e] = mainQueue[e]
    BY <1>1, <1>3
  <2> QED
    BY <1>3, <2>1, <2>2 DEF AtHome
<1>4. ASSUME NEW d \in Devices, mainQueue[d] # <<>>, mainQueue' = [mainQueue EXCEPT ![d] = Tail(@)]
      PROVE  AtHome'
  <2>1. \A k \in DOMAIN mainQueue'[d] : /\ k + 1 \in DOMAIN mainQueue[d]
                                        /\ mainQueue'[d][k] = mainQueue[d][k + 1]
    <3>1. mainQueue'[d] = Tail(mainQueue[d]) /\ mainQueue[d] \in Seq(UserCallback \cup VoteCallback)
      BY <1>1, <1>4
    <3> QED
      BY <1>4, <3>1, TailAt, ZenonT(60)
  <2>2. \A e \in Devices : e # d => mainQueue'[e] = mainQueue[e]
    BY <1>1, <1>4
  <2> QED
    BY <2>1, <2>2 DEF AtHome
<1>5. ASSUME NEW r \in requests, AnswerUser(r) \/ AnswerVote(r) \/ RecallUser(r) \/ RecallVote(r)
      PROVE  AtHome'
  <2>1. PICK cb : cb.req = r /\ mainQueue' = [mainQueue EXCEPT ![r.dev] = Append(@, cb)]
    BY <1>5 DEF AnswerUser, AnswerVote, RecallUser, RecallVote
  <2> QED
    BY <1>2, <1>3, <2>1
<1>6. ASSUME NEW d \in Devices,
             VoteFirst(d) \/ VoteSecond(d) \/ CountFirst(d) \/ CountSecond(d)
      PROVE  AtHome'
  BY <1>4, <1>6 DEF VoteFirst, VoteSecond, CountFirst, CountSecond, Ready
<1>7. ASSUME NEW d \in Devices, Crash(d) PROVE AtHome'
  BY <1>1, <1>7 DEF Crash, AtHome
<1>8. CASE UNCHANGED mainQueue
  BY <1>8 DEF AtHome
<1> QED
  BY <1>5, <1>6, <1>7, <1>8
  DEF Next, TabOnCell, Apply, Acknowledge, Resend, RejectWrite, Refresh, FailRead, DeletePoll

\* What happened once is remembered.
LEMMA HistoryGrows ==
  ASSUME Next
  PROVE  /\ overlapped \subseteq overlapped' /\ faulty \subseteq faulty'
         /\ replayed \subseteq replayed' /\ contended \subseteq contended'
         /\ skewed \subseteq skewed'
BY ZenonT(60) DEF Next, TabOnCell, AnswerUser, AnswerVote, RecallUser, RecallVote, FailRead, VoteFirst,
       VoteSecond, CountFirst, CountSecond, Apply, Acknowledge, Resend, RejectWrite, Refresh,
       Crash, SentAgain, DeletePoll, history

LEMMA OneTapUntouched ==
  ASSUME TypeOK, TypeOK', NEW u \in Users, OneTap(u), Untouched(u)
  PROVE  OneTap(u)'
<1>1. /\ \A r \in requests : r.dev \in Devices
      /\ \A r \in requests' : r.dev \in Devices
  BY DEF TypeOK, UserRequest, VoteRequest, Request
<1>2. \A r \in requests' : Email[r.dev] = u => r \in requests
  BY <1>1 DEF Untouched, MyRequests, Own
<1>3. \A d \in Own(u) : mainQueue'[d] = mainQueue[d] /\ outbox'[d] = outbox[d]
  BY DEF Untouched
<1>4. \A d \in Devices : Email[d] = u <=> d \in Own(u)
  BY DEF Own
<1> QED
  BY <1>1, <1>2, <1>3, <1>4 DEF OneTap, Own

\* The devices of a user: one acts, and the others' queues stay.
LEMMA OneTapShrinks ==
  ASSUME TypeOK, NEW u \in Users, OneTap(u), requests' \subseteq requests,
         \A d \in Own(u) : mainQueue'[d] = mainQueue[d] \/ mainQueue'[d] = <<>>,
         \A d \in Own(u) : outbox[d] = <<>> => outbox'[d] = <<>>
  PROVE  OneTap(u)'
<1>1. \A d \in Own(u) : Len(mainQueue'[d]) <= 1
  <2> SUFFICES ASSUME NEW d \in Own(u) PROVE Len(mainQueue'[d]) <= 1
    OBVIOUS
  <2>1. CASE mainQueue'[d] = mainQueue[d]
    BY <2>1 DEF OneTap
  <2>2. CASE mainQueue'[d] = <<>>
    BY <2>2
  <2> QED
    BY <2>1, <2>2
<1>2. \A d \in Own(u) : mainQueue[d] = <<>> => mainQueue'[d] = <<>>
  OBVIOUS
<1>3. \A d \in Devices : Email[d] = u <=> d \in Own(u)
  BY DEF Own
<1> QED
  BY <1>1, <1>2, <1>3 DEF OneTap, Own

\* A step of the user's own that is not noted as an overlap.
LEMMA OneTapStep ==
  ASSUME TypeOK, TypeOK', AtHome, NEW d \in Devices, By(d), OneTap(Email[d]),
         Email[d] \notin overlapped'
  PROVE  OneTap(Email[d])'
<1> USE DEF database, sending, copies, history, client
<1> DEFINE u == Email[d]
<1>1. /\ u \in Users /\ d \in Own(u) /\ \A e \in Own(u) : e \in Devices
      /\ \A e \in Devices : Email[e] = u <=> e \in Own(u)
  BY EmailAssumption DEF Own
<1>2. /\ mainQueue \in [Devices -> Seq(UserCallback \cup VoteCallback)]
      /\ outbox \in [Devices -> Seq(Write)] /\ applied \in [Devices -> Nat]
  BY DEF TypeOK
<1>3. \A r \in requests : r.dev \in Devices
  BY DEF TypeOK, UserRequest, VoteRequest, Request
<1> HIDE DEF u
<1>4. ASSUME NEW p \in Polls, NEW i \in Variants, TabOnCell(d, p, i) PROVE OneTap(u)'
  <2> DEFINE r == [kind |-> "user", tap |-> taps, dev |-> d, poll |-> p,
                   index |-> i, arrays |-> {}, extra |-> i]
  <2>1. r.dev = d /\ requests' = requests \cup {r} /\ UNCHANGED <<mainQueue, outbox>>
    BY <1>4 DEF TabOnCell
  <2> HIDE DEF r
  <2>2. ~UserBusy(d)
    BY <1>4 DEF TabOnCell
  <2>3. \A s \in requests : Email[s.dev] # u
    BY <2>2 DEF UserBusy, InFlight, u
  <2>4. \A e \in Own(u) : mainQueue[e] = <<>>
    <3> SUFFICES ASSUME NEW e \in Own(u), mainQueue[e] # <<>> PROVE FALSE
      OBVIOUS
    <3>1. Head(mainQueue[e]).req.dev = e /\ 1 \in DOMAIN mainQueue[e] /\ Head(mainQueue[e]) = mainQueue[e][1]
      BY <1>1, AtHead
    <3>2. Head(mainQueue[e]).req \in InFlight
      BY <1>1, <3>1 DEF InFlight
    <3> QED
      BY <1>1, <2>2, <3>1, <3>2 DEF UserBusy, u
  <2>5. \A e \in Own(u) : e # d => outbox[e] = <<>>
    BY <1>1, <2>2 DEF UserBusy, u
  <2>6. \A e \in Own(u) : Len(mainQueue'[e]) <= 1
    BY <2>1 DEF OneTap, u
  <2> QED
    BY <1>1, <2>1, <2>3, <2>4, <2>5, <2>6 DEF OneTap, Own
<1>5. CASE VoteFirst(d) \/ VoteSecond(d)
  <2>1. mainQueue[d] # <<>> /\ mainQueue' = [mainQueue EXCEPT ![d] = Tail(@)]
    BY <1>5 DEF VoteFirst, VoteSecond, Ready
  <2>2. PICK r : r.dev = d /\ requests' = requests \cup {r}
    <3>1. Head(mainQueue[d]).req.dev = d /\ Head(mainQueue[d]).req \in UserRequest \cup VoteRequest
      BY <2>1, AtHead
    <3> DEFINE q == Head(mainQueue[d]).req
    <3>2. \A a, x : /\ [q EXCEPT !.kind = "first", !.arrays = a].dev = d
                    /\ [q EXCEPT !.kind = "second", !.arrays = a, !.extra = x].dev = d
      BY <3>1 DEF UserRequest, VoteRequest, Request
    <3> QED
      BY <1>5, <3>2 DEF VoteFirst, VoteSecond
  <2>3. MyRequests(u) = {} /\ Tail(mainQueue[d]) = <<>>
    BY <1>1, <2>1, FlightFactsHold DEF FlightFacts, u
  <2>4. /\ mainQueue'[d] = <<>> /\ \A e \in Own(u) : e # d => mainQueue'[e] = mainQueue[e]
        /\ \A e \in Own(u) : e # d => outbox'[e] = outbox[e]
    BY <1>1, <1>2, <1>5, <2>1, <2>3 DEF VoteFirst, VoteSecond
  <2>5. \A e \in Own(u) : e # d => mainQueue[e] = <<>> /\ outbox[e] = <<>>
    BY <1>1, <2>1 DEF OneTap, u
  <2>6. \A s \in requests : Email[s.dev] # u
    BY <1>1, <1>3, <2>3 DEF MyRequests
  <2>7. \A e \in Own(u) : mainQueue'[e] = <<>> /\ Len(mainQueue'[e]) <= 1
    BY <2>4, <2>5
  <2> QED
    BY <1>1, <2>2, <2>4, <2>5, <2>6, <2>7 DEF OneTap, Own
<1>6. CASE CountFirst(d) \/ CountSecond(d)
  <2>1. mainQueue[d] # <<>> /\ mainQueue' = [mainQueue EXCEPT ![d] = Tail(@)] /\ requests' = requests
    BY <1>6 DEF CountFirst, CountSecond, Ready
  <2>2. Tail(mainQueue[d]) = <<>> /\ MyRequests(u) = {}
    BY <1>1, <2>1, FlightFactsHold DEF FlightFacts, u
  <2>3. /\ mainQueue'[d] = <<>> /\ \A e \in Own(u) : e # d => mainQueue'[e] = mainQueue[e]
        /\ \A e \in Own(u) : e # d => outbox'[e] = outbox[e]
    BY <1>1, <1>2, <1>6, <2>1, <2>2 DEF CountFirst, CountSecond
  <2>4. \A e \in Own(u) : e # d => mainQueue[e] = <<>> /\ outbox[e] = <<>>
    BY <1>1, <2>1 DEF OneTap, u
  <2>5. \A s \in requests : Email[s.dev] # u
    BY <1>1, <1>3, <2>2 DEF MyRequests
  <2>6. \A e \in Own(u) : mainQueue'[e] = <<>> /\ Len(mainQueue'[e]) <= 1
    BY <2>3, <2>4
  <2> QED
    BY <1>1, <2>1, <2>3, <2>4, <2>5, <2>6 DEF OneTap, Own
<1>7. CASE Apply(d) \/ Acknowledge(d) \/ Resend(d) \/ RejectWrite(d) \/ Refresh(d)
  <2>1. requests' = requests /\ mainQueue' = mainQueue
    BY <1>7 DEF Apply, Acknowledge, Resend, RejectWrite, Refresh
  <2>2. outbox' = outbox \/ (outbox[d] # <<>> /\ \A e \in Own(u) : e # d => outbox'[e] = outbox[e])
    <3>1. applied[d] > 0 => outbox[d] # <<>>
      BY <1>2, QueuedWrites
    <3> QED
      BY <1>1, <1>2, <1>7, <3>1 DEF Apply, Acknowledge, Resend, RejectWrite, Refresh
  <2>3. \A e \in Own(u) : outbox[e] = <<>> => outbox'[e] = <<>>
    BY <2>2
  <2> QED
    BY <1>1, <2>1, <2>3, OneTapShrinks DEF u
<1>8. CASE Crash(d)
  <2>1. /\ requests' \subseteq requests /\ outbox' = outbox
        /\ \A e \in Own(u) : mainQueue'[e] = mainQueue[e] \/ mainQueue'[e] = <<>>
    BY <1>1, <1>2, <1>8 DEF Crash
  <2> QED
    BY <1>1, <2>1, OneTapShrinks DEF u
<1>9. ASSUME NEW r \in requests, r.dev = d,
             AnswerUser(r) \/ AnswerVote(r) \/ RecallUser(r) \/ RecallVote(r)
      PROVE  OneTap(u)'
  <2>1. PICK cb : mainQueue' = [mainQueue EXCEPT ![d] = Append(@, cb)]
    BY <1>9 DEF AnswerUser, AnswerVote, RecallUser, RecallVote
  <2>2. requests' = requests \ {r} /\ outbox' = outbox
    BY <1>9 DEF AnswerUser, AnswerVote, RecallUser, RecallVote
  <2>3. \A s \in requests : Email[s.dev] = u => s = r
    BY <1>9 DEF OneTap, u
  <2>4. \A e \in Own(u) : mainQueue[e] = <<>> /\ (e # d => outbox[e] = <<>>)
    BY <1>1, <1>9 DEF OneTap, u
  <2>5. /\ mainQueue'[d] = Append(mainQueue[d], cb)
        /\ \A e \in Own(u) : e # d => mainQueue'[e] = mainQueue[e]
    BY <1>1, <1>2, <2>1
  <2>6. Len(mainQueue'[d]) <= 1
    <3>1. mainQueue[d] \in Seq(UserCallback \cup VoteCallback) /\ Len(mainQueue[d]) = 0
      BY <1>1, <1>2, <2>4
    <3>2. Len(mainQueue'[d]) = Len(mainQueue[d]) + 1
      BY <2>5, <3>1
    <3> QED
      BY <3>1, <3>2
  <2>7. \A e \in Own(u) : e # d => mainQueue'[e] = <<>> /\ outbox'[e] = <<>>
    BY <2>2, <2>4, <2>5
  <2>8. \A e \in Own(u) : Len(mainQueue'[e]) <= 1
    BY <2>6, <2>7
  <2>9. \A s \in requests' : Email[s.dev] # u
    BY <2>2, <2>3
  <2> QED
    BY <1>1, <2>7, <2>8, <2>9 DEF OneTap, Own
<1>10. ASSUME NEW r \in requests, r.dev = d, FailRead(r) PROVE OneTap(u)'
  <2>1. requests' \subseteq requests /\ mainQueue' = mainQueue /\ outbox' = outbox
    BY <1>10 DEF FailRead
  <2> QED
    BY <1>1, <2>1, OneTapShrinks DEF u
<1> QED
  BY <1>4, <1>5, <1>6, <1>7, <1>8, <1>9, <1>10 DEF By, u

LEMMA TapsSerialStep ==
  ASSUME TypeOK, TypeOK', TapsSerial, Next
  PROVE  TapsSerial'
<1>1. AtHome'
  BY AtHomeStep DEF TapsSerial
<1>2. ASSUME NEW u \in Users, u \notin overlapped' PROVE OneTap(u)'
  <2>1. OneTap(u) /\ AtHome
    BY <1>2, HistoryGrows DEF TapsSerial
  <2>2. ASSUME NEW p \in Polls, DeletePoll(p) PROVE Untouched(u)
    BY <2>2 DEF DeletePoll, Untouched, MyRequests, client, history
  <2>3. ASSUME NEW d \in Devices, By(d), u # Email[d] PROVE Untouched(u)
    BY <2>1, <2>3, StepsOfOthers
  <2>4. ASSUME NEW d \in Devices, By(d), u = Email[d] PROVE OneTap(u)'
    BY <1>2, <2>1, <2>4, OneTapStep
  <2> QED
    BY <2>1, <2>2, <2>3, <2>4, OneTapUntouched, EveryStepIsBySomebody
<1> QED
  BY <1>1, <1>2 DEF TapsSerial

-----------------------------------------------------------------------------
(* The standing list *)

StandingFacts ==
    \A u \in Users : OneTap(u) =>
      /\ (\A d \in Own(u) : PendingUser(d) = {}) => Standing(u) = users[u]
      /\ \A d \in Own(u) : \A k \in PendingUser(d) :
           (\A j \in PendingUser(d) : j <= k) => Standing(u) = outbox[d][k].list
      /\ \A d \in Own(u) : PendingUser(d) # {} =>
           \E k \in PendingUser(d) : \A j \in PendingUser(d) : j <= k
      /\ \A d \in Own(u) : (\A e \in Own(u) : e # d => outbox[e] = <<>>) =>
           LocalUser(d, users[u]) = Standing(u)

LEMMA StandingFactsHold == TypeOK => StandingFacts
<1> SUFFICES ASSUME TypeOK, NEW u \in Users, OneTap(u)
             PROVE  /\ (\A d \in Own(u) : PendingUser(d) = {}) => Standing(u) = users[u]
                    /\ \A d \in Own(u) : \A k \in PendingUser(d) :
                         (\A j \in PendingUser(d) : j <= k) => Standing(u) = outbox[d][k].list
                    /\ \A d \in Own(u) : PendingUser(d) # {} =>
                         \E k \in PendingUser(d) : \A j \in PendingUser(d) : j <= k
                    /\ \A d \in Own(u) : (\A e \in Own(u) : e # d => outbox[e] = <<>>) =>
                         LocalUser(d, users[u]) = Standing(u)
  BY DEF StandingFacts
<1>1. \A d \in Own(u) : /\ Len(outbox[d]) \in Nat
                        /\ PendingUser(d) \in SUBSET (1..Len(outbox[d]))
  <2> SUFFICES ASSUME NEW d \in Own(u)
               PROVE  Len(outbox[d]) \in Nat /\ PendingUser(d) \in SUBSET (1..Len(outbox[d]))
    OBVIOUS
  <2>1. outbox[d] \in Seq(Write)
    BY DEF TypeOK, Own
  <2> QED
    BY <2>1 DEF PendingUser
<1>2. (\A d \in Own(u) : PendingUser(d) = {}) => Standing(u) = users[u]
  BY DEF Standing, Writing
<1>3. ASSUME NEW d \in Own(u), NEW k \in PendingUser(d), \A j \in PendingUser(d) : j <= k
      PROVE  Standing(u) = outbox[d][k].list
  <2>1. \A e \in Own(u) : e # d => PendingUser(e) = {}
    <3> SUFFICES ASSUME NEW e \in Own(u), e # d PROVE PendingUser(e) = {}
      OBVIOUS
    <3>1. outbox[d] # <<>>
      BY <1>3 DEF PendingUser
    <3>2. outbox[e] = <<>>
      BY <3>1 DEF OneTap
    <3> QED
      BY <3>2 DEF PendingUser
  <2>2. Writing(u) = {d}
    BY <1>3, <2>1 DEF Writing
  <2>3. Max(PendingUser(d)) = k
    BY <1>1, <1>3, MaxIs
  <2> QED
    BY <2>2, <2>3 DEF Standing, Newest
<1>4. \A d \in Own(u) : PendingUser(d) # {} =>
        \E k \in PendingUser(d) : \A j \in PendingUser(d) : j <= k
  BY <1>1, LastExists
<1>5. ASSUME NEW d \in Own(u), \A e \in Own(u) : e # d => outbox[e] = <<>>
      PROVE  LocalUser(d, users[u]) = Standing(u)
  <2>1. \A e \in Own(u) : e # d => PendingUser(e) = {}
    BY <1>5 DEF PendingUser
  <2>2. CASE PendingUser(d) = {}
    BY <1>2, <2>1, <2>2 DEF LocalUser
  <2>3. CASE PendingUser(d) # {}
    <3>1. PICK k \in PendingUser(d) : \A j \in PendingUser(d) : j <= k
      BY <1>4, <2>3
    <3>2. Max(PendingUser(d)) = k
      BY <1>1, <3>1, MaxIs
    <3> QED
      BY <1>3, <2>3, <3>1, <3>2 DEF LocalUser
  <2> QED
    BY <2>2, <2>3
<1> QED
  BY <1>2, <1>3, <1>4, <1>5

\* Both hold in the next state as well.
LEMMA FactsNext == TypeOK' => FlightFacts' /\ StandingFacts'
BY FlightFactsHold, StandingFactsHold, PTL

\* The oldest write leaves the queue and the others move up.
LEMMA PendingDropped ==
  ASSUME TypeOK, NEW d \in Devices, outbox[d] # <<>>, outbox'[d] = Tail(outbox[d])
  PROVE  /\ 1 \in DOMAIN outbox[d] /\ Head(outbox[d]) = outbox[d][1]
         /\ \A k \in DOMAIN outbox[d] : k \in Nat /\ 1 <= k
         /\ \A k \in PendingUser(d)' : /\ k \in Nat /\ k + 1 \in PendingUser(d)
                                       /\ outbox'[d][k] = outbox[d][k + 1]
         /\ \A k \in PendingUser(d) : k = 1 \/ k - 1 \in PendingUser(d)'
<1>1. outbox[d] \in Seq(Write)
  BY DEF TypeOK
<1>2. /\ Head(outbox[d]) = outbox[d][1] /\ 1 \in DOMAIN outbox[d]
      /\ \A k \in DOMAIN outbox'[d] : /\ k \in Nat /\ k + 1 \in DOMAIN outbox[d]
                                      /\ outbox'[d][k] = outbox[d][k + 1]
      /\ \A k \in DOMAIN outbox[d] : k = 1 \/ (k \in Nat /\ k - 1 \in DOMAIN outbox'[d])
  BY <1>1, TailAt
<1>3. \A k \in DOMAIN outbox[d] : k \in Nat /\ 1 <= k
  BY <1>1
<1>4. \A k \in PendingUser(d)' : /\ k \in Nat /\ k + 1 \in PendingUser(d)
                                 /\ outbox'[d][k] = outbox[d][k + 1]
  BY <1>2 DEF PendingUser
<1>5. ASSUME NEW k \in PendingUser(d), k # 1 PROVE k - 1 \in PendingUser(d)'
  <2>1. k \in Nat /\ k - 1 \in DOMAIN outbox'[d] /\ (k - 1) + 1 = k
    BY <1>2, <1>5 DEF PendingUser
  <2>2. outbox'[d][k - 1] = outbox[d][k]
    BY <1>2, <2>1
  <2> QED
    BY <2>1, <2>2 DEF PendingUser
<1> QED
  BY <1>2, <1>3, <1>4, <1>5

-----------------------------------------------------------------------------
(* Polls that are gone *)

LEMMA GoneSteps ==
  ASSUME TypeOK, Next
  PROVE  \A p \in Polls : votes[p] = Absent => votes'[p] = Absent
BY ZenonT(60) DEF Next, TabOnCell, AnswerUser, AnswerVote, RecallUser, RecallVote, FailRead, VoteFirst,
       VoteSecond, CountFirst, CountSecond, Apply, Acknowledge, Resend, RejectWrite, Refresh,
       Crash, DeletePoll, TypeOK, database, UpdateData

\* A device sees a poll as missing only when the document it goes by is.
LEMMA LocalGone ==
  ASSUME TypeOK, NEW d \in Devices, NEW p \in Polls, NEW tally, LocalVote(d, p, tally) = Absent
  PROVE  tally = Absent
<1>1. \A k \in DOMAIN outbox[d] : outbox[d][k].to = "vote" => outbox[d][k].tally \in Tally
  <2>1. outbox[d] \in Seq(Write)
    BY DEF TypeOK
  <2>2. \A k \in DOMAIN outbox[d] : outbox[d][k] \in Write
    BY <2>1
  <2> QED
    BY <2>2 DEF Write, UserWrite, VoteWrite
<1>2. Absent \notin Tally
  BY AbsentAssumption DEF Tally
<1> QED
  BY <1>1, <1>2, LocalVoteSource

LEMMA GoneIsGoneStep ==
  ASSUME TypeOK, TypeOK', GoneIsGone, Next
  PROVE  GoneIsGone'
<1> USE DEF database, sending, copies, history, client
<1>1. mainQueue \in [Devices -> Seq(UserCallback \cup VoteCallback)]
  BY DEF TypeOK
<1>2. \A r \in requests : r.dev \in Devices /\ r.poll \in Polls
  BY DEF TypeOK, UserRequest, VoteRequest, Request
<1>3. \A d \in Devices : \A k \in DOMAIN mainQueue[d] : mainQueue[d][k].req.poll \in Polls
  <2> SUFFICES ASSUME NEW d \in Devices, NEW k \in DOMAIN mainQueue[d]
               PROVE  mainQueue[d][k].req.poll \in Polls
    OBVIOUS
  <2>1. mainQueue[d][k] \in UserCallback \cup VoteCallback
    BY <1>1
  <2>2. mainQueue[d][k].req \in UserRequest \cup VoteRequest
    BY <2>1 DEF UserCallback, VoteCallback
  <2> QED
    BY <2>2 DEF UserRequest, VoteRequest, Request
<1>4. ASSUME NEW d \in Devices, NEW p \in Polls, ownVotes'[d][p] = Absent
      PROVE  votes'[p] = Absent
  <2>1. ownVotes \in [Devices -> [Polls -> Tally \cup {Absent}]] /\ Absent \notin Tally
    BY AbsentAssumption DEF TypeOK, Tally
  <2>2. CASE ownVotes'[d][p] = ownVotes[d][p]
    BY <1>4, <2>2, GoneSteps DEF GoneIsGone
  <2>3. ASSUME NEW r \in requests, AnswerVote(r) PROVE votes'[p] = Absent
    <3>1. ownVotes'[d][p] = ownVotes[d][p] \/ ownVotes'[d][p] = votes[p]
      BY <1>2, <2>1, <2>3 DEF AnswerVote, Kept
    <3> QED
      BY <1>4, <2>2, <3>1, GoneSteps
  <2>4. ASSUME NEW e \in Devices, Refresh(e) PROVE votes'[p] = Absent
    <3>1. ownVotes'[d][p] = ownVotes[d][p] \/ ownVotes'[d][p] = votes[p]
      BY <2>1, <2>4 DEF Refresh
    <3> QED
      BY <1>4, <2>2, <3>1, GoneSteps
  <2>5. ASSUME NEW e \in Devices, Acknowledge(e) PROVE votes'[p] = Absent
    <3>1. outbox[e] # <<>> /\ Head(outbox[e]) \in Write
      BY <2>5, QueuedWrites DEF Acknowledge, TypeOK
    <3>2. Head(outbox[e]).to = "vote" => Head(outbox[e]).poll \in Polls /\ Head(outbox[e]).tally \in Tally
      BY <3>1 DEF Write, UserWrite, VoteWrite
    <3>3. ownVotes'[d][p] = ownVotes[d][p] \/ ownVotes[d][p] = Absent \/ ownVotes'[d][p] \in Tally
      <4> DEFINE w == Head(outbox[e])
                 new == Kept(e, ownVotes[e][w.poll], UpdateData(ownVotes[e][w.poll], w.tally))
      <4>1. \/ UNCHANGED ownVotes
            \/ w.to = "vote" /\ ownVotes' = [ownVotes EXCEPT ![e][w.poll] = new]
        BY <2>5 DEF Acknowledge
      <4>2. new = ownVotes[e][w.poll] \/ ownVotes[e][w.poll] = Absent \/ new = w.tally
        BY DEF Kept, UpdateData
      <4> HIDE DEF w, new
      <4>3. CASE w.to = "vote" /\ ownVotes' = [ownVotes EXCEPT ![e][w.poll] = new]
        <5>1. w.poll \in Polls /\ w.tally \in Tally
          BY <3>2, <4>3 DEF w
        <5>2. CASE d = e /\ p = w.poll
          BY <2>1, <4>2, <4>3, <5>1, <5>2
        <5>3. CASE ~ (d = e /\ p = w.poll)
          BY <2>1, <4>3, <5>1, <5>3
        <5> QED
          BY <5>2, <5>3
      <4> QED
        BY <4>1, <4>3
    <3> QED
      BY <1>4, <2>1, <2>2, <3>3, GoneSteps DEF GoneIsGone
  <2>6. CASE UNCHANGED ownVotes
    BY <2>2, <2>6
  <2> QED
    BY <2>3, <2>4, <2>5, <2>6, ZenonT(60)
    DEF Next, TabOnCell, AnswerUser, RecallUser, RecallVote, FailRead, VoteFirst,
        VoteSecond, CountFirst, CountSecond, Apply, Resend, RejectWrite, Crash, DeletePoll
<1>5. ASSUME NEW d \in Devices, NEW k \in DOMAIN mainQueue'[d],
             mainQueue'[d][k].req.kind \in {"first", "second"}, mainQueue'[d][k].tally = Absent
      PROVE  votes'[mainQueue'[d][k].req.poll] = Absent
  <2>1. ASSUME NEW j \in DOMAIN mainQueue[d], mainQueue'[d][k] = mainQueue[d][j]
        PROVE  votes'[mainQueue'[d][k].req.poll] = Absent
    BY <1>3, <1>5, <2>1, GoneSteps DEF GoneIsGone
  <2>2. ASSUME NEW r \in requests, AnswerVote(r) \/ RecallVote(r) \/ AnswerUser(r) \/ RecallUser(r)
        PROVE  votes'[mainQueue'[d][k].req.poll] = Absent
    <3> DEFINE Brings(cb) ==
                 /\ mainQueue' = [mainQueue EXCEPT ![r.dev] = Append(@, cb)]
                 /\ cb.req = r
                 /\ r.kind \in {"first", "second"} =>
                      \/ cb.tally = LocalVote(r.dev, r.poll, votes[r.poll])
                      \/ cb.tally = LocalVote(r.dev, r.poll, ownVotes[r.dev][r.poll])
    <3>1. ASSUME AnswerVote(r) PROVE \E cb : Brings(cb)
      <4>1. Brings([req |-> r, tally |-> LocalVote(r.dev, r.poll, votes[r.poll])])
        BY <3>1 DEF AnswerVote
      <4> HIDE DEF Brings
      <4> QED
        BY <4>1
    <3>2. ASSUME RecallVote(r) PROVE \E cb : Brings(cb)
      <4>1. Brings([req |-> r, tally |-> LocalVote(r.dev, r.poll, ownVotes[r.dev][r.poll])])
        BY <3>2 DEF RecallVote
      <4> HIDE DEF Brings
      <4> QED
        BY <4>1
    <3>3. ASSUME AnswerUser(r) PROVE \E cb : Brings(cb)
      <4>1. Brings([req |-> r, list |-> LocalUser(r.dev, users[Email[r.dev]])])
        BY <3>3 DEF AnswerUser
      <4> HIDE DEF Brings
      <4> QED
        BY <4>1
    <3>4. ASSUME RecallUser(r) PROVE \E cb : Brings(cb)
      <4>1. Brings([req |-> r, list |-> LocalUser(r.dev, ownUser[r.dev])])
        BY <3>4 DEF RecallUser
      <4> HIDE DEF Brings
      <4> QED
        BY <4>1
    <3>5. \E cb : Brings(cb)
      BY <2>2, <3>1, <3>2, <3>3, <3>4
    <3>6. PICK cb : /\ mainQueue' = [mainQueue EXCEPT ![r.dev] = Append(@, cb)]
                    /\ cb.req = r
                    /\ r.kind \in {"first", "second"} =>
                         \/ cb.tally = LocalVote(r.dev, r.poll, votes[r.poll])
                         \/ cb.tally = LocalVote(r.dev, r.poll, ownVotes[r.dev][r.poll])
      BY <3>5
    <3>7. CASE d # r.dev
      BY <1>1, <1>5, <2>1, <3>6, <3>7
    <3>8. CASE d = r.dev
      <4>1. mainQueue[d] \in Seq(UserCallback \cup VoteCallback) /\ mainQueue'[d] = Append(mainQueue[d], cb)
        BY <1>1, <3>6, <3>8
      <4>2. /\ DOMAIN mainQueue'[d] = DOMAIN mainQueue[d] \cup {Len(mainQueue[d]) + 1}
            /\ mainQueue'[d][Len(mainQueue[d]) + 1] = cb
            /\ \A j \in DOMAIN mainQueue[d] : mainQueue'[d][j] = mainQueue[d][j]
        BY <4>1, AppendAt
      <4>3. CASE k \in DOMAIN mainQueue[d]
        BY <2>1, <4>2, <4>3
      <4>4. CASE mainQueue'[d][k] = cb
        <5>1. votes[r.poll] = Absent \/ ownVotes[r.dev][r.poll] = Absent
          BY <1>2, <1>5, <3>6, <4>4, LocalGone
        <5> QED
          BY <1>2, <3>6, <4>4, <5>1, GoneSteps DEF GoneIsGone
      <4> QED
        BY <4>2, <4>3, <4>4
    <3> QED
      BY <3>7, <3>8
  <2>3. ASSUME NEW e \in Devices, mainQueue[e] # <<>>, mainQueue' = [mainQueue EXCEPT ![e] = Tail(@)]
        PROVE  votes'[mainQueue'[d][k].req.poll] = Absent
    <3>1. CASE d # e
      BY <1>1, <1>5, <2>1, <2>3, <3>1
    <3>2. CASE d = e
      <4>1. /\ mainQueue[d] \in Seq(UserCallback \cup VoteCallback) /\ mainQueue[d] # <<>>
            /\ mainQueue'[d] = Tail(mainQueue[d])
        BY <1>1, <2>3, <3>2
      <4>2. \A j \in DOMAIN mainQueue'[d] : /\ j + 1 \in DOMAIN mainQueue[d]
                                            /\ mainQueue'[d][j] = mainQueue[d][j + 1]
        BY <4>1, TailAt
      <4> QED
        BY <2>1, <4>2
    <3> QED
      BY <3>1, <3>2
  <2>4. ASSUME NEW e \in Devices,
               VoteFirst(e) \/ VoteSecond(e) \/ CountFirst(e) \/ CountSecond(e)
        PROVE  votes'[mainQueue'[d][k].req.poll] = Absent
    BY <2>3, <2>4 DEF VoteFirst, VoteSecond, CountFirst, CountSecond, Ready
  <2>5. ASSUME NEW e \in Devices, Crash(e) PROVE votes'[mainQueue'[d][k].req.poll] = Absent
    <3>1. mainQueue'[d] = mainQueue[d] \/ mainQueue'[d] = <<>>
      BY <1>1, <2>5 DEF Crash
    <3> QED
      BY <1>5, <2>1, <3>1
  <2>6. CASE UNCHANGED mainQueue
    BY <1>5, <2>1, <2>6
  <2> QED
    BY <2>2, <2>4, <2>5, <2>6
    DEF Next, TabOnCell, FailRead, Apply, Acknowledge, Resend, RejectWrite, Refresh, DeletePoll
<1> QED
  BY <1>4, <1>5 DEF GoneIsGone

-----------------------------------------------------------------------------
(* Lists and intents *)

\* The writes of a user decide what stands.
LEMMA SameWrites ==
  ASSUME NEW u \in Users, \A d \in Own(u) : outbox'[d] = outbox[d]
  PROVE  /\ \A d \in Own(u) : PendingUser(d)' = PendingUser(d)
         /\ Writing(u)' = Writing(u)
         /\ users'[u] = users[u] \/ Writing(u) # {} => Standing(u)' = Standing(u)
<1>1. \A d \in Own(u) : PendingUser(d)' = PendingUser(d)
  BY DEF PendingUser
<1>2. Writing(u)' = Writing(u)
  BY <1>1 DEF Writing
<1>3. Writing(u) # {} => (CHOOSE d \in Writing(u) : TRUE) \in Own(u)
  BY DEF Writing
<1> DEFINE c == CHOOSE d \in Writing(u) : TRUE
<1>4. Writing(u) # {} => Newest(c)' = Newest(c)
  <2> SUFFICES ASSUME Writing(u) # {} PROVE Newest(c)' = Newest(c)
    OBVIOUS
  <2>1. c' = c
    BY <1>2
  <2>2. c \in Own(u)
    BY <1>3
  <2> HIDE DEF c
  <2> QED
    BY <1>1, <2>1, <2>2 DEF Newest
<1> QED
  BY <1>1, <1>2, <1>4 DEF Standing

LEMMA SameFlight ==
  ASSUME NEW u \in Users, MyRequests(u)' = MyRequests(u),
         \A d \in Own(u) : mainQueue'[d] = mainQueue[d]
  PROVE  /\ MyQueue(u)' = MyQueue(u) /\ Flight(u)' = Flight(u) /\ Captured(u)' = Captured(u)
         /\ \A p : Unwritten(u, p)' <=> Unwritten(u, p)
<1>1. MyQueue(u)' = MyQueue(u)
  BY DEF MyQueue
<1>2. Flight(u)' = Flight(u)
  BY <1>1 DEF Flight
<1>3. Captured(u)' = Captured(u)
  BY <1>1, <1>2 DEF Captured
<1> QED
  BY <1>1, <1>2, <1>3 DEF Unwritten

LEMMA MatchingUntouched ==
  ASSUME NEW u \in Users, Untouched(u), Matching(u),
         \A p \in Polls : votes[p] = Absent => votes'[p] = Absent
  PROVE  Matching(u)'
<1>1. /\ \A d \in Own(u) : PendingUser(d)' = PendingUser(d)
      /\ Standing(u)' = Standing(u)
  BY SameWrites DEF Untouched
<1>2. /\ Flight(u)' = Flight(u) /\ Captured(u)' = Captured(u)
      /\ \A p : Unwritten(u, p)' <=> Unwritten(u, p)
  BY SameFlight DEF Untouched
<1>3. AppliedList(u)'
  BY <1>1 DEF Matching, AppliedList, Untouched
<1>4. \A list \in Captured(u)' : list = Standing(u)'
  BY <1>1, <1>2 DEF Matching
<1>5. \A r \in Flight(u)' : RecordsOf(intent[u]', r.poll) = {NewRecord(r.poll, r.index)}
  BY <1>2 DEF Matching, Untouched
<1>6. \A p \in Polls : votes'[p] # Absent /\ ~Unwritten(u, p)' =>
        RecordsOf(Standing(u)', p) = RecordsOf(intent'[u], p)
  BY <1>1, <1>2 DEF Matching, Untouched
<1> QED
  BY <1>3, <1>4, <1>5, <1>6 DEF Matching

\* A list queued behind everything else is the one that stands.
LEMMA ListAdded ==
  ASSUME TypeOK, TypeOK', NEW u \in Users, OneTap(u)', AppliedList(u),
         NEW d \in Own(u), NEW n \in Nat, applied[d] < n,
         n \in PendingUser(d)', PendingUser(d)' \subseteq PendingUser(d) \cup {n},
         PendingUser(d) \subseteq PendingUser(d)',
         \A k \in PendingUser(d) : k \in Nat /\ k < n /\ outbox'[d][k] = outbox[d][k],
         applied'[d] = applied[d], users'[u] = users[u]
  PROVE  Standing(u)' = outbox'[d][n].list /\ AppliedList(u)'
<1>1. StandingFacts'
  BY FactsNext
<1>2. \A j \in PendingUser(d)' : j <= n
  OBVIOUS
<1>3. Standing(u)' = outbox'[d][n].list
  BY <1>1, <1>2 DEF StandingFacts, Own
<1>4. \A e \in Own(u) : e # d => PendingUser(e)' = {}
  <2> SUFFICES ASSUME NEW e \in Own(u), e # d PROVE PendingUser(e)' = {}
    OBVIOUS
  <2>1. outbox'[d] # <<>>
    BY DEF PendingUser
  <2>2. outbox'[e] = <<>>
    BY <2>1 DEF OneTap, Own
  <2> QED
    BY <2>2 DEF PendingUser
<1>5. ASSUME NEW k \in PendingUser(d)', k <= applied'[d],
             \A j \in PendingUser(d)' : j <= applied'[d] => j <= k
      PROVE  users'[u] = outbox'[d][k].list
  <2>1. applied[d] \in Nat
    BY DEF TypeOK, Own
  <2>2. k \in PendingUser(d)
    BY <1>5, <2>1
  <2> QED
    BY <1>5, <2>2 DEF AppliedList
<1>6. AppliedList(u)'
  BY <1>4, <1>5 DEF AppliedList, Own
<1> QED
  BY <1>3, <1>6

\* Nothing about the lists changes.
LEMMA ListsKept ==
  ASSUME TypeOK, TypeOK', NEW u \in Users, OneTap(u), OneTap(u)',
         \A d \in Own(u) : /\ PendingUser(d)' = PendingUser(d)
                           /\ \A k \in PendingUser(d) : outbox'[d][k] = outbox[d][k],
         users'[u] = users[u] \/ \E d \in Own(u) : PendingUser(d) # {}
  PROVE  /\ Standing(u)' = Standing(u)
         /\ users'[u] = users[u] /\ (\A d \in Own(u) : applied'[d] = applied[d]) =>
              (AppliedList(u) => AppliedList(u)')
<1>1. StandingFacts /\ StandingFacts'
  BY FactsNext, StandingFactsHold
<1>2. Own(u)' = Own(u)
  BY DEF Own
<1>3. ASSUME \A d \in Own(u) : PendingUser(d) = {} PROVE Standing(u)' = Standing(u)
  BY <1>1, <1>2, <1>3 DEF StandingFacts
<1>4. ASSUME NEW d \in Own(u), PendingUser(d) # {} PROVE Standing(u)' = Standing(u)
  <2>1. PICK k \in PendingUser(d) : \A j \in PendingUser(d) : j <= k
    BY <1>1, <1>4 DEF StandingFacts
  <2>2. Standing(u) = outbox[d][k].list
    BY <1>1, <2>1 DEF StandingFacts
  <2>3. k \in PendingUser(d)' /\ \A j \in PendingUser(d)' : j <= k
    BY <2>1
  <2>4. Standing(u)' = outbox'[d][k].list
    BY <1>1, <1>2, <2>3 DEF StandingFacts
  <2> QED
    BY <2>2, <2>4
<1>5. users'[u] = users[u] /\ (\A d \in Own(u) : applied'[d] = applied[d]) =>
        (AppliedList(u) => AppliedList(u)')
  BY <1>2 DEF AppliedList
<1>6. Standing(u)' = Standing(u)
  BY <1>3, <1>4
<1> QED
  BY <1>5, <1>6

\* The same for the backend's steps: going through a write, forgetting how far
\* it got, and the device dropping the oldest write that is through.
LEMMA ListsApplied ==
  ASSUME TypeOK, TypeOK', AtHome, NEW d \in Devices, OneTap(Email[d]), OneTap(Email[d])',
         AppliedList(Email[d]), Apply(d)
  PROVE  Standing(Email[d])' = Standing(Email[d]) /\ AppliedList(Email[d])'
<1> DEFINE u == Email[d]
<1>1. /\ u \in Users /\ d \in Own(u) /\ (\A e \in Own(u) : e \in Devices) /\ Own(u)' = Own(u)
  BY EmailAssumption DEF Own
<1> HIDE DEF u
<1>2. /\ outbox[d] \in Seq(Write) /\ applied[d] \in Nat /\ DOMAIN users = Users
      /\ applied \in [Devices -> Nat]
  BY DEF TypeOK
<1> DEFINE n == applied[d] + 1
<1>3. /\ n \in DOMAIN outbox[d] /\ n \in Nat /\ outbox' = outbox /\ applied'[d] = n
      /\ \/ outbox[d][n].to = "user" /\ users'[u] = outbox[d][n].list
         \/ outbox[d][n].to = "vote" /\ users'[u] = users[u]
  <2>1. applied[d] < Len(outbox[d]) /\ outbox' = outbox /\ applied'[d] = n
    BY <1>2 DEF Apply
  <2>2. n \in Nat /\ n \in DOMAIN outbox[d]
    BY <1>2, <2>1
  <2>3. \/ outbox[d][n].to = "user" /\ users'[u] = outbox[d][n].list
        \/ outbox[d][n].to = "vote" /\ users'[u] = users[u]
    BY <1>1, <1>2 DEF Apply, u
  <2> QED
    BY <2>1, <2>2, <2>3
<1>4. \A k \in PendingUser(d) : k <= n => k <= applied[d] \/ k = n
  BY <1>2 DEF PendingUser
<1> HIDE DEF n
<1>5. \A e \in Own(u) : PendingUser(e)' = PendingUser(e)
  BY <1>3 DEF PendingUser
<1>6. \A e \in Own(u) : e # d => PendingUser(e) = {}
  <2> SUFFICES ASSUME NEW e \in Own(u), e # d PROVE PendingUser(e) = {}
    OBVIOUS
  <2>1. outbox[d] # <<>>
    BY <1>3
  <2>2. outbox[e] = <<>>
    BY <1>1, <2>1 DEF OneTap, u
  <2> QED
    BY <2>2 DEF PendingUser
<1>7. users'[u] = users[u] \/ n \in PendingUser(d)
  BY <1>3 DEF PendingUser
<1>8. Standing(u)' = Standing(u)
  BY <1>1, <1>3, <1>5, <1>7, ListsKept DEF u
<1>9. ASSUME NEW k \in PendingUser(d), k <= n, \A j \in PendingUser(d) : j <= n => j <= k
      PROVE  users'[u] = outbox[d][k].list
  <2>1. CASE n \in PendingUser(d)
    <3>1. k = n
      BY <1>2, <1>3, <1>9, <2>1 DEF PendingUser
    <3> QED
      BY <1>3, <2>1, <3>1 DEF PendingUser
  <2>2. CASE n \notin PendingUser(d)
    <3>1. k <= applied[d] /\ users'[u] = users[u]
      BY <1>4, <1>7, <1>9, <2>2
    <3>2. \A j \in PendingUser(d) : j <= applied[d] => j <= k
      <4>1. \A j \in PendingUser(d) : j \in Nat
        BY <1>2 DEF PendingUser
      <4> QED
        BY <1>2, <1>9, <4>1 DEF n
    <3> QED
      BY <1>1, <1>9, <3>1, <3>2 DEF AppliedList, u
  <2> QED
    BY <2>1, <2>2
<1>10. AppliedList(u)'
  BY <1>1, <1>3, <1>5, <1>6, <1>9 DEF AppliedList
<1> QED
  BY <1>8, <1>10 DEF u

LEMMA ListsAcknowledged ==
  ASSUME TypeOK, TypeOK', AtHome, NEW d \in Devices, OneTap(Email[d]), OneTap(Email[d])',
         AppliedList(Email[d]), Acknowledge(d)
  PROVE  Standing(Email[d])' = Standing(Email[d]) /\ AppliedList(Email[d])'
<1> DEFINE u == Email[d]
<1>1. /\ u \in Users /\ d \in Own(u) /\ (\A e \in Own(u) : e \in Devices) /\ Own(u)' = Own(u)
  BY EmailAssumption DEF Own
<1> HIDE DEF u
<1>2. /\ outbox \in [Devices -> Seq(Write)] /\ applied \in [Devices -> Nat]
  BY DEF TypeOK
<1>3. /\ outbox[d] # <<>> /\ outbox'[d] = Tail(outbox[d]) /\ applied'[d] = applied[d] - 1
      /\ applied[d] > 0 /\ applied[d] \in Nat
  <2>1. applied[d] > 0 /\ outbox'[d] = Tail(outbox[d]) /\ applied'[d] = applied[d] - 1
    BY <1>2 DEF Acknowledge
  <2> QED
    BY <1>2, <2>1, QueuedWrites
<1>4. users' = users /\ \A e \in Own(u) : e # d => PendingUser(e) = {} /\ PendingUser(e)' = {}
  <2>1. users' = users /\ \A e \in Own(u) : e # d => outbox'[e] = outbox[e]
    BY <1>1, <1>2 DEF Acknowledge, database
  <2>2. \A e \in Own(u) : e # d => outbox[e] = <<>>
    BY <1>1, <1>3 DEF OneTap, u
  <2> QED
    BY <2>1, <2>2 DEF PendingUser
<1>5. /\ \A k \in PendingUser(d) : k \in Nat /\ 1 <= k
      /\ \A k \in PendingUser(d)' : /\ k \in Nat /\ k + 1 \in PendingUser(d)
                                    /\ outbox'[d][k] = outbox[d][k + 1]
      /\ \A k \in PendingUser(d) : k = 1 \/ k - 1 \in PendingUser(d)'
  <2>1. \A k \in PendingUser(d) : k \in Nat /\ 1 <= k
    BY <1>2 DEF PendingUser
  <2> QED
    BY <1>3, <2>1, PendingDropped
<1>6. StandingFacts /\ StandingFacts' /\ OneTap(u) /\ OneTap(u)' /\ AppliedList(u)
  BY FactsNext, StandingFactsHold DEF u
<1>7. Standing(u)' = Standing(u)
  <2>1. CASE PendingUser(d)' = {}
    <3>1. Standing(u)' = users[u]
      BY <1>1, <1>4, <1>6, <2>1 DEF StandingFacts
    <3>2. CASE PendingUser(d) = {}
      BY <1>1, <1>4, <1>6, <3>1, <3>2 DEF StandingFacts
    <3>3. CASE PendingUser(d) # {}
      <4>1. 1 \in PendingUser(d) /\ \A j \in PendingUser(d) : j = 1
        BY <1>5, <2>1, <3>3
      <4>2. Standing(u) = outbox[d][1].list
        BY <1>1, <1>6, <4>1 DEF StandingFacts
      <4>3. users[u] = outbox[d][1].list
        BY <1>1, <1>3, <1>6, <4>1 DEF AppliedList
      <4> QED
        BY <3>1, <4>2, <4>3
    <3> QED
      BY <3>2, <3>3
  <2>2. CASE PendingUser(d)' # {}
    <3>1. PICK k \in PendingUser(d)' : \A j \in PendingUser(d)' : j <= k
      BY <1>1, <1>6, <2>2 DEF StandingFacts
    <3>2. Standing(u)' = outbox'[d][k].list
      BY <1>1, <1>6, <3>1 DEF StandingFacts
    <3>3. k + 1 \in PendingUser(d) /\ \A j \in PendingUser(d) : j <= k + 1
      BY <1>5, <3>1
    <3>4. Standing(u) = outbox[d][k + 1].list
      BY <1>1, <1>6, <3>3 DEF StandingFacts
    <3> QED
      BY <1>5, <3>1, <3>2, <3>4
  <2> QED
    BY <2>1, <2>2
<1>8. ASSUME NEW k \in PendingUser(d)', k <= applied'[d],
             \A j \in PendingUser(d)' : j <= applied'[d] => j <= k
      PROVE  users[u] = outbox'[d][k].list
  <2>1. k \in Nat /\ k + 1 \in PendingUser(d) /\ outbox'[d][k] = outbox[d][k + 1]
    BY <1>5
  <2>2. k + 1 <= applied[d]
    BY <1>3, <1>8, <2>1
  <2>3. \A j \in PendingUser(d) : j <= applied[d] => j <= k + 1
    BY <1>3, <1>5, <1>8, <2>1
  <2> QED
    BY <1>1, <1>6, <2>1, <2>2, <2>3 DEF AppliedList
<1>9. AppliedList(u)'
  BY <1>1, <1>4, <1>8 DEF AppliedList
<1> QED
  BY <1>7, <1>9 DEF u

\* What the two operators on lists do to the records of a poll.
LEMMA RecordOperators ==
  ASSUME NEW list, NEW p, NEW i
  PROVE  /\ RecordsOf(ReplaceRecord(list, p, i), p) = {NewRecord(p, i)}
         /\ RecordsOf(list, p) = {} => RecordsOf(AppendRecord(list, p, i), p) = {NewRecord(p, i)}
         /\ \A q : q # p =>
              /\ RecordsOf(ReplaceRecord(list, p, i), q) = RecordsOf(list, q)
              /\ RecordsOf(AppendRecord(list, p, i), q) = RecordsOf(list, q)
<1>1. NewRecord(p, i).voteUUID = p
  BY DEF NewRecord
<1> QED
  BY <1>1 DEF RecordsOf, ReplaceRecord, AppendRecord

\* While a callback of the user waits or runs, it is the user's only tap.
LEMMA AtHeadAlone ==
  ASSUME TypeOK, AtHome, NEW d \in Devices, OneTap(Email[d]), mainQueue[d] # <<>>
  PROVE  LET u  == Email[d]
             cb == Head(mainQueue[d])
         IN  /\ Flight(u) = {cb.req} /\ MyQueue(u) = {cb} /\ MyRequests(u) = {}
             /\ Tail(mainQueue[d]) = <<>>
             /\ cb.req.kind = "user" => Captured(u) = {cb.list}
             /\ cb.req.kind = "second" => Captured(u) = {cb.req.arrays}
             /\ \A e \in Own(u) : e # d => mainQueue[e] = <<>> /\ outbox[e] = <<>>
             /\ cb.req.dev = d /\ cb.req.poll \in Polls /\ cb.req.index \in Variants
             /\ cb.req.arrays \in SUBSET Record
             /\ cb.req.kind = "user" => cb.list \in SUBSET Record
<1> DEFINE u  == Email[d]
           cb == Head(mainQueue[d])
<1>1. u \in Users /\ d \in Own(u)
  BY EmailAssumption DEF Own
<1>2. /\ Flight(u) = {cb.req} /\ MyQueue(u) = {cb} /\ MyRequests(u) = {}
      /\ Tail(mainQueue[d]) = <<>>
  BY <1>1, FlightFactsHold DEF FlightFacts
<1>3. /\ cb.req.dev = d /\ cb.req \in UserRequest \cup VoteRequest
      /\ cb.req.kind = "user" => cb \in UserCallback
  BY AtHead
<1>4. /\ cb.req.poll \in Polls /\ cb.req.index \in Variants /\ cb.req.arrays \in SUBSET Record
  BY <1>3 DEF UserRequest, VoteRequest, Request
<1>5. cb.req.kind = "user" => cb.list \in SUBSET Record
  BY <1>3 DEF UserCallback
<1>6. \A e \in Own(u) : e # d => mainQueue[e] = <<>> /\ outbox[e] = <<>>
  BY <1>1 DEF OneTap
<1> HIDE DEF u, cb
<1>7. cb.req.kind = "user" => Captured(u) = {cb.list}
  BY <1>2 DEF Captured
<1>8. cb.req.kind = "second" => Captured(u) = {cb.req.arrays}
  BY <1>2 DEF Captured
<1> QED
  BY <1>2, <1>3, <1>4, <1>5, <1>6, <1>7, <1>8 DEF u, cb

\* After a callback the user's taps are a request, if it sent one, or none.
LEMMA CallbackDone ==
  ASSUME TypeOK, TypeOK', AtHome, NEW d \in Devices, OneTap(Email[d]), OneTap(Email[d])',
         mainQueue[d] # <<>>, mainQueue' = [mainQueue EXCEPT ![d] = Tail(@)]
  PROVE  LET u == Email[d] IN
         /\ \A r \in requests' : r.dev = d => Flight(u)' = {r} /\ MyQueue(u)' = {}
         /\ requests' = requests =>
              Flight(u)' = {} /\ MyQueue(u)' = {} /\ MyRequests(u)' = {} /\ Captured(u)' = {}
<1> DEFINE u == Email[d]
<1>1. u \in Users /\ d \in Own(u) /\ Own(u)' = Own(u) /\ \A e \in Own(u) : e \in Devices
  BY EmailAssumption DEF Own
<1>2. /\ MyRequests(u) = {} /\ Tail(mainQueue[d]) = <<>>
      /\ \A e \in Own(u) : e # d => mainQueue[e] = <<>>
  BY AtHeadAlone
<1>3. \A e \in Own(u) : mainQueue'[e] = <<>>
  BY <1>1, <1>2 DEF TypeOK
<1>4. FlightFacts' /\ OneTap(u)'
  BY FactsNext
<1> HIDE DEF u
<1>5. \A r \in requests' : r.dev = d => Flight(u)' = {r} /\ MyQueue(u)' = {}
  BY <1>1, <1>4 DEF FlightFacts
<1>6. requests' = requests => MyRequests(u)' = {}
  BY <1>1, <1>2 DEF MyRequests
<1>7. requests' = requests => Flight(u)' = {} /\ MyQueue(u)' = {}
  BY <1>1, <1>3, <1>4, <1>6 DEF FlightFacts
<1>8. requests' = requests => Captured(u)' = {}
  BY <1>7 DEF Captured
<1> QED
  BY <1>5, <1>6, <1>7, <1>8 DEF u

-----------------------------------------------------------------------------
(* What the steps of one user's tap do *)

\* A list is queued behind the others; the lists queued stay as they are.
ListQueued(d, n, list) ==
    /\ n \in Nat /\ applied[d] < n
    /\ PendingUser(d)' = PendingUser(d) \cup {n}
    /\ \A k \in PendingUser(d) : k \in Nat /\ k < n /\ outbox'[d][k] = outbox[d][k]
    /\ outbox'[d][n].list = list

ListsStay(d) ==
    /\ PendingUser(d)' = PendingUser(d)
    /\ \A k \in PendingUser(d) : outbox'[d][k] = outbox[d][k]

\* The same for the tallies of a poll.
TallyQueued(d, p, n, tally) ==
    /\ n \in Nat /\ applied[d] < n
    /\ PendingVote(d, p)' = PendingVote(d, p) \cup {n}
    /\ \A k \in PendingVote(d, p) : k \in Nat /\ k < n /\ outbox'[d][k] = outbox[d][k]
    /\ outbox'[d][n].tally = tally

TalliesStay(d, p) ==
    /\ PendingVote(d, p)' = PendingVote(d, p)
    /\ \A k \in PendingVote(d, p) : outbox'[d][k] = outbox[d][k]

OneTallyQueued(d, q, n, tally) ==
    \A p \in Polls : IF p = q THEN TallyQueued(d, p, n, tally) ELSE TalliesStay(d, p)

LEMMA OneQueued ==
  ASSUME TypeOK, TypeOK', NEW d \in Devices, NEW w, outbox'[d] = Append(outbox[d], w)
  PROVE  LET n == Len(outbox[d]) + 1 IN
         /\ w.to = "user" => ListQueued(d, n, w.list) /\ \A p \in Polls : TalliesStay(d, p)
         /\ w.to = "vote" => ListsStay(d) /\ OneTallyQueued(d, w.poll, n, w.tally)
<1>1. outbox[d] \in Seq(Write) /\ applied[d] \in Nat /\ applied[d] <= Len(outbox[d])
  BY DEF TypeOK
<1> DEFINE n == Len(outbox[d]) + 1
<1>2. /\ n \in Nat /\ n \notin DOMAIN outbox[d] /\ Len(outbox[d]) \in Nat
      /\ \A k \in DOMAIN outbox[d] : k \in Nat /\ k < n
      /\ DOMAIN outbox'[d] = DOMAIN outbox[d] \cup {n}
      /\ outbox'[d][n] = w
      /\ \A k \in DOMAIN outbox[d] : outbox'[d][k] = outbox[d][k]
  BY <1>1, AppendAt
<1>3. applied[d] < n
  BY <1>1, <1>2
<1> HIDE DEF n
<1>4. w.to = "user" => /\ PendingUser(d)' = PendingUser(d) \cup {n}
                       /\ \A p \in Polls : PendingVote(d, p)' = PendingVote(d, p)
  BY <1>2 DEF PendingUser, PendingVote
<1>5. w.to = "vote" => /\ PendingUser(d)' = PendingUser(d)
                       /\ \A p \in Polls : p = w.poll => PendingVote(d, p)' = PendingVote(d, p) \cup {n}
                       /\ \A p \in Polls : p # w.poll => PendingVote(d, p)' = PendingVote(d, p)
  BY <1>2 DEF PendingUser, PendingVote
<1>6. /\ \A k \in PendingUser(d) : k \in Nat /\ k < n /\ outbox'[d][k] = outbox[d][k]
      /\ \A p : \A k \in PendingVote(d, p) : k \in Nat /\ k < n /\ outbox'[d][k] = outbox[d][k]
  BY <1>2 DEF PendingUser, PendingVote
<1>7. /\ w.to = "user" => ListQueued(d, n, w.list) /\ \A p \in Polls : TalliesStay(d, p)
      /\ w.to = "vote" => ListsStay(d) /\ OneTallyQueued(d, w.poll, n, w.tally)
  BY <1>2, <1>3, <1>4, <1>5, <1>6
  DEF ListQueued, ListsStay, TallyQueued, TalliesStay, OneTallyQueued
<1> QED
  BY <1>7 DEF n

\* voteSecond queues two writes at once, the list behind the tally.
LEMMA TwoQueued ==
  ASSUME TypeOK, NEW d \in Devices, NEW v, NEW w, v.to = "vote", w.to = "user",
         outbox'[d] = outbox[d] \o <<v, w>>
  PROVE  /\ ListQueued(d, Len(outbox[d]) + 2, w.list)
         /\ OneTallyQueued(d, v.poll, Len(outbox[d]) + 1, v.tally)
         /\ outbox'[d] # outbox[d]
<1>1. outbox[d] \in Seq(Write) /\ applied[d] \in Nat /\ applied[d] <= Len(outbox[d])
  BY DEF TypeOK
<1> DEFINE n == Len(outbox[d]) + 2
           m == Len(outbox[d]) + 1
<1>2. /\ n \in Nat /\ m \in Nat /\ Len(outbox[d]) \in Nat /\ m < n
      /\ \A k \in DOMAIN outbox[d] : k \in Nat /\ k < m /\ outbox'[d][k] = outbox[d][k]
      /\ DOMAIN outbox'[d] = DOMAIN outbox[d] \cup {m, n}
      /\ outbox'[d][m] = v
      /\ outbox'[d][n] = w
  BY <1>1, SMTT(30)
<1>3. applied[d] < n /\ applied[d] < m /\ m \notin DOMAIN outbox[d]
  BY <1>1, <1>2
<1> HIDE DEF n, m
<1>4. /\ PendingUser(d)' = PendingUser(d) \cup {n}
      /\ \A p \in Polls : p = v.poll => PendingVote(d, p)' = PendingVote(d, p) \cup {m}
      /\ \A p \in Polls : p # v.poll => PendingVote(d, p)' = PendingVote(d, p)
  BY <1>2 DEF PendingUser, PendingVote
<1>5. \A k \in DOMAIN outbox[d] : /\ k \in Nat /\ k < n /\ k < m /\ outbox'[d][k] = outbox[d][k]
  BY <1>2, SMTT(30)
<1>6. /\ \A k \in PendingUser(d) : k \in Nat /\ k < n /\ outbox'[d][k] = outbox[d][k]
      /\ \A p : \A k \in PendingVote(d, p) : k \in Nat /\ k < m /\ outbox'[d][k] = outbox[d][k]
  BY <1>5 DEF PendingUser, PendingVote
<1>7. /\ ListQueued(d, n, w.list) /\ OneTallyQueued(d, v.poll, m, v.tally)
      /\ outbox'[d] # outbox[d]
  BY <1>2, <1>3, <1>4, <1>6 DEF ListQueued, TallyQueued, TalliesStay, OneTallyQueued
<1> QED
  BY <1>7 DEF n, m

\* What an answer brings: the document as the device sees it, or else the
\* answer is noted as outdated.
Brings(r, cb) ==
    /\ mainQueue' = [mainQueue EXCEPT ![r.dev] = Append(@, cb)]
    /\ cb.req = r
    /\ r.kind = "user" => cb.list = LocalUser(r.dev, users[Email[r.dev]])
    /\ r.kind \in {"first", "second"} /\ r.poll \notin contended' =>
         cb.tally = LocalVote(r.dev, r.poll, votes[r.poll])

LEMMA AnswerIs ==
  ASSUME NEW r \in requests, Email[r.dev] \notin overlapped',
         AnswerUser(r) \/ AnswerVote(r) \/ RecallUser(r) \/ RecallVote(r)
  PROVE  \E cb : Brings(r, cb)
<1> DEFINE list  == LocalUser(r.dev, users[Email[r.dev]])
           tally == LocalVote(r.dev, r.poll, votes[r.poll])
           other == LocalVote(r.dev, r.poll, ownVotes[r.dev][r.poll])
           a     == [req |-> r, list |-> list]
           b     == [req |-> r, tally |-> tally]
           c     == [req |-> r, tally |-> other]
<1>1. /\ RecallUser(r) => LocalUser(r.dev, ownUser[r.dev]) = list
      /\ RecallVote(r) /\ r.poll \notin contended' => other = tally
  BY DEF RecallUser, RecallVote
<1>2. \/ r.kind = "user" /\ mainQueue' = [mainQueue EXCEPT ![r.dev] = Append(@, a)]
      \/ r.kind \in {"first", "second"} /\ mainQueue' = [mainQueue EXCEPT ![r.dev] = Append(@, b)]
      \/ /\ r.kind \in {"first", "second"} /\ mainQueue' = [mainQueue EXCEPT ![r.dev] = Append(@, c)]
         /\ r.poll \notin contended' => other = tally
  BY <1>1 DEF AnswerUser, AnswerVote, RecallUser, RecallVote
<1>3. /\ a.req = r /\ a.list = list /\ b.req = r /\ b.tally = tally
      /\ c.req = r /\ c.tally = other
  OBVIOUS
<1> HIDE DEF a, b, c, list, tally, other
<1>4. CASE r.kind = "user" /\ mainQueue' = [mainQueue EXCEPT ![r.dev] = Append(@, a)]
  <2>1. Brings(r, a)
    BY <1>3, <1>4 DEF Brings, list
  <2> QED
    BY <2>1
<1>5. CASE r.kind \in {"first", "second"} /\ mainQueue' = [mainQueue EXCEPT ![r.dev] = Append(@, b)]
  <2>1. Brings(r, b)
    BY <1>3, <1>5 DEF Brings, tally
  <2> QED
    BY <2>1
<1>6. CASE /\ r.kind \in {"first", "second"} /\ mainQueue' = [mainQueue EXCEPT ![r.dev] = Append(@, c)]
           /\ r.poll \notin contended' => other = tally
  <2>1. Brings(r, c)
    BY <1>3, <1>6 DEF Brings, tally
  <2> QED
    BY <2>1
<1> QED
  BY <1>2, <1>4, <1>5, <1>6

\* The tap: the request q is sent.
Asks(d, p, i, q) ==
    /\ Flight(Email[d]) = {} /\ Flight(Email[d])' = {q}
    /\ MyQueue(Email[d])' = {} /\ Captured(Email[d])' = {}
    /\ q.dev = d /\ q.kind = "user" /\ q.poll = p /\ q.index = i
    /\ UNCHANGED <<outbox, applied, users, votes>>

LEMMA AskMoves ==
  ASSUME TypeOK, TypeOK', AtHome, NEW d \in Devices, OneTap(Email[d]), OneTap(Email[d])',
         Email[d] \notin overlapped', NEW p \in Polls, NEW i \in Variants, TabOnCell(d, p, i)
  PROVE  \E q : Asks(d, p, i, q)
<1> DEFINE u == Email[d]
           q == [kind |-> "user", tap |-> taps, dev |-> d, poll |-> p,
                 index |-> i, arrays |-> {}, extra |-> i]
<1>1. u \in Users /\ d \in Own(u) /\ \A e \in Own(u) : e \in Devices
  BY EmailAssumption DEF Own
<1>2. q.dev = d /\ q.kind = "user" /\ q.poll = p /\ q.index = i /\ q \in requests'
  BY DEF TabOnCell
<1>3. UNCHANGED <<outbox, applied, users, votes>>
  BY DEF TabOnCell, database, sending
<1>4. Flight(u) = {}
  <2>1. ~UserBusy(d)
    BY DEF TabOnCell
  <2> QED
    BY <1>1, <2>1, FlightOfUser DEF UserBusy
<1> HIDE DEF u, q
<1>5. OneTap(u) /\ OneTap(u)' /\ FlightFacts'
  BY FactsNext DEF u
<1>6. Flight(u)' = {q} /\ MyQueue(u)' = {}
  BY <1>1, <1>2, <1>5 DEF FlightFacts, Own
<1>7. Captured(u)' = {}
  BY <1>2, <1>6 DEF Captured
<1>8. Asks(d, p, i, q)
  BY <1>2, <1>3, <1>4, <1>6, <1>7 DEF Asks, u
<1> QED
  BY <1>8

\* The answer cb to the query r.
Answers(d, r, cb) ==
    /\ Flight(Email[d]) = {r} /\ Flight(Email[d])' = {r} /\ MyQueue(Email[d])' = {cb}
    /\ r.dev = d /\ Brings(r, cb)
    /\ \A list \in Captured(Email[d])' : list \in Captured(Email[d]) \/ list = Standing(Email[d])
    /\ UNCHANGED <<outbox, applied, users, votes, intent>>

LEMMA AnswerMoves ==
  ASSUME TypeOK, TypeOK', AtHome, NEW d \in Devices, OneTap(Email[d]), OneTap(Email[d])',
         Email[d] \notin overlapped', NEW r \in requests, r.dev = d,
         AnswerUser(r) \/ AnswerVote(r) \/ RecallUser(r) \/ RecallVote(r)
  PROVE  \E cb : Answers(d, r, cb)
<1> DEFINE u == Email[d]
<1>1. u \in Users /\ d \in Own(u) /\ (\A e \in Own(u) : e \in Devices) /\ Own(u)' = Own(u)
  BY EmailAssumption DEF Own
<1>2. /\ UNCHANGED <<outbox, applied, users, votes, intent>>
      /\ mainQueue \in [Devices -> Seq(UserCallback \cup VoteCallback)]
  BY DEF AnswerUser, AnswerVote, RecallUser, RecallVote, TypeOK, database, sending, history
<1>3. PICK cb : Brings(r, cb)
  BY AnswerIs
<1>4. /\ mainQueue' = [mainQueue EXCEPT ![d] = Append(@, cb)] /\ cb.req = r
      /\ r.kind = "user" => cb.list = LocalUser(d, users[u])
  BY <1>3 DEF Brings
<1> HIDE DEF u
<1>5. /\ OneTap(u) /\ OneTap(u)' /\ FlightFacts /\ FlightFacts' /\ StandingFacts /\ Email[r.dev] = u
  BY FactsNext, FlightFactsHold, StandingFactsHold DEF u
<1>6. Flight(u) = {r}
  BY <1>1, <1>5 DEF FlightFacts
<1>7. mainQueue[d] = <<>> /\ \A e \in Own(u) : e # d => outbox[e] = <<>>
  BY <1>1, <1>5 DEF OneTap
<1>8. mainQueue'[d] # <<>> /\ Head(mainQueue'[d]) = cb
  <2>1. mainQueue'[d] = Append(<<>>, cb)
    BY <1>2, <1>4, <1>7
  <2> QED
    BY <2>1
<1>9. Flight(u)' = {r} /\ MyQueue(u)' = {cb}
  BY <1>1, <1>4, <1>5, <1>8 DEF FlightFacts
<1>10. LocalUser(d, users[u]) = Standing(u)
  BY <1>1, <1>5, <1>7 DEF StandingFacts
<1>11. \A list \in Captured(u)' : list \in Captured(u) \/ list = Standing(u)
  <2> SUFFICES ASSUME NEW list \in Captured(u)' PROVE list \in Captured(u) \/ list = Standing(u)
    OBVIOUS
  <2>1. \/ r.kind = "user" /\ list = cb.list
        \/ r.kind = "second" /\ list = r.arrays
    BY <1>4, <1>9 DEF Captured
  <2>2. r.kind = "second" => r.arrays \in Captured(u)
    BY <1>6 DEF Captured
  <2> QED
    BY <1>4, <1>10, <2>1, <2>2
<1>12. Answers(d, r, cb)
  BY <1>2, <1>3, <1>6, <1>9, <1>11 DEF Answers, u
<1> QED
  BY <1>12

\* The callbacks of tabOnCell: the request q for the poll follows the one
\* for the user.
Follows(d, kind, q) ==
    LET u  == Email[d]
        cb == Head(mainQueue[d])
    IN  /\ mainQueue[d] # <<>> /\ cb.req.kind = "user" /\ cb.req.dev = d
        /\ cb.req.poll \in Polls /\ cb.req.index \in Variants
        /\ Flight(u) = {cb.req} /\ MyQueue(u) = {cb} /\ Captured(u) = {cb.list}
        /\ Flight(u)' = {q} /\ MyQueue(u)' = {}
        /\ q.dev = d /\ q.kind = kind /\ q.arrays = cb.list
        /\ q.poll = cb.req.poll /\ q.index = cb.req.index
        /\ UNCHANGED <<applied, users, votes, intent>>

LEMMA FirstMoves ==
  ASSUME TypeOK, TypeOK', AtHome, NEW d \in Devices, OneTap(Email[d]), OneTap(Email[d])',
         VoteFirst(d)
  PROVE  LET cb == Head(mainQueue[d])
             n  == Len(outbox[d]) + 1
         IN  /\ RecordsOf(cb.list, cb.req.poll) = {} /\ Captured(Email[d])' = {}
             /\ ListQueued(d, n, AppendRecord(cb.list, cb.req.poll, cb.req.index))
             /\ \A p \in Polls : TalliesStay(d, p)
             /\ \E q : Follows(d, "first", q)
<1> DEFINE u  == Email[d]
           cb == Head(mainQueue[d])
           w  == [to |-> "user", list |-> AppendRecord(cb.list, cb.req.poll, cb.req.index)]
           q  == [cb.req EXCEPT !.kind = "first", !.arrays = cb.list]
<1>1. /\ mainQueue[d] # <<>> /\ cb.req.kind = "user" /\ RecordsOf(cb.list, cb.req.poll) = {}
      /\ mainQueue' = [mainQueue EXCEPT ![d] = Tail(@)]
      /\ q \in requests' /\ UNCHANGED <<applied, users, votes, intent>>
      /\ outbox'[d] = Append(outbox[d], w)
  BY DEF VoteFirst, Ready, database, history, TypeOK
<1>2. /\ Flight(u) = {cb.req} /\ Captured(u) = {cb.list} /\ MyQueue(u) = {cb}
      /\ cb.req.poll \in Polls /\ cb.req.index \in Variants /\ cb.req.dev = d
  BY <1>1, AtHeadAlone
<1>3. /\ q.dev = d /\ q.poll = cb.req.poll /\ q.index = cb.req.index /\ q.kind = "first"
      /\ q.arrays = cb.list
  <2>1. cb.req \in UserRequest \cup VoteRequest
    BY <1>1, AtHead
  <2> QED
    BY <1>2, <2>1 DEF UserRequest, VoteRequest, Request
<1>4. w.to = "user" /\ w.list = AppendRecord(cb.list, cb.req.poll, cb.req.index)
  OBVIOUS
<1> HIDE DEF w, q
<1>5. ListQueued(d, Len(outbox[d]) + 1, w.list) /\ \A p \in Polls : TalliesStay(d, p)
  BY <1>1, <1>4, OneQueued
<1>6. Flight(u)' = {q} /\ MyQueue(u)' = {}
  BY <1>1, <1>3, CallbackDone
<1> HIDE DEF u, cb
<1>7. Captured(u)' = {}
  BY <1>3, <1>6 DEF Captured
<1>8. Follows(d, "first", q)
  BY <1>1, <1>2, <1>3, <1>6 DEF Follows, u, cb
<1> QED
  BY <1>1, <1>4, <1>5, <1>7, <1>8 DEF u, cb

LEMMA SecondMoves ==
  ASSUME TypeOK, TypeOK', AtHome, NEW d \in Devices, OneTap(Email[d]), OneTap(Email[d])',
         VoteSecond(d)
  PROVE  /\ outbox' = outbox /\ Captured(Email[d])' = Captured(Email[d])
         /\ \E q : Follows(d, "second", q) /\ NewRecord(q.poll, q.extra) \in q.arrays
<1> DEFINE u  == Email[d]
           cb == Head(mainQueue[d])
<1>1. /\ mainQueue[d] # <<>> /\ cb.req.kind = "user"
      /\ mainQueue' = [mainQueue EXCEPT ![d] = Tail(@)]
      /\ UNCHANGED <<applied, users, votes, intent>> /\ outbox' = outbox
  BY DEF VoteSecond, Ready, database, history, sending
<1>2. /\ Flight(u) = {cb.req} /\ Captured(u) = {cb.list} /\ MyQueue(u) = {cb}
      /\ cb.req.poll \in Polls /\ cb.req.index \in Variants /\ cb.req.dev = d
      /\ cb.list \in SUBSET Record
  BY <1>1, AtHeadAlone
<1>3. PICK q \in requests' : /\ q.dev = d /\ q.kind = "second" /\ q.arrays = cb.list
                             /\ q.poll = cb.req.poll /\ q.index = cb.req.index
                             /\ NewRecord(q.poll, q.extra) \in cb.list
  <2>1. cb.req \in UserRequest \cup VoteRequest
    BY <1>1, AtHead
  <2>2. PICK old \in RecordsOf(cb.list, cb.req.poll) :
          [cb.req EXCEPT !.kind = "second", !.arrays = cb.list, !.extra = old.voteVariantID] \in requests'
    BY DEF VoteSecond
  <2> DEFINE q == [cb.req EXCEPT !.kind = "second", !.arrays = cb.list, !.extra = old.voteVariantID]
  <2>3. /\ q.dev = d /\ q.kind = "second" /\ q.arrays = cb.list
        /\ q.poll = cb.req.poll /\ q.index = cb.req.index /\ q.extra = old.voteVariantID
    BY <1>2, <2>1 DEF UserRequest, VoteRequest, Request
  <2> HIDE DEF q
  <2>4. q \in requests'
    BY <2>2 DEF q
  <2>5. NewRecord(cb.req.poll, old.voteVariantID) = old /\ old \in cb.list
    BY <1>2, <2>2 DEF RecordsOf, NewRecord, Record
  <2> QED
    BY <2>3, <2>4, <2>5
<1>4. Flight(u)' = {q} /\ MyQueue(u)' = {}
  BY <1>1, <1>3, CallbackDone
<1> HIDE DEF u, cb
<1>5. Captured(u)' = {cb.list}
  BY <1>3, <1>4 DEF Captured
<1>6. Follows(d, "second", q)
  BY <1>1, <1>2, <1>3, <1>4 DEF Follows, u, cb
<1> QED
  BY <1>1, <1>2, <1>3, <1>5, <1>6 DEF u

\* The callbacks of voteFirst and voteSecond: the tap is through.
Counts(d, kind) ==
    LET u  == Email[d]
        cb == Head(mainQueue[d])
    IN  /\ mainQueue[d] # <<>> /\ cb.req.kind = kind /\ cb.req.dev = d
        /\ cb.req.poll \in Polls /\ cb.req.index \in Variants
        /\ Flight(u) = {cb.req} /\ MyQueue(u) = {cb}
        /\ Flight(u)' = {} /\ MyQueue(u)' = {} /\ Captured(u)' = {}
        /\ \A e \in Own(u) : e # d => outbox'[e] = outbox[e]
        /\ UNCHANGED <<applied, users, votes, intent>>

LEMMA CountFirstMoves ==
  ASSUME TypeOK, TypeOK', AtHome, NEW d \in Devices, OneTap(Email[d]), OneTap(Email[d])',
         CountFirst(d)
  PROVE  LET cb == Head(mainQueue[d])
             n  == Len(outbox[d]) + 1
         IN  /\ Counts(d, "first")
             /\ \/ cb.tally = Absent /\ outbox' = outbox
                \/ /\ cb.tally # Absent
                   /\ ListsStay(d)
                   /\ OneTallyQueued(d, cb.req.poll, n, AddVote(cb.tally, cb.req.index))
<1> DEFINE u  == Email[d]
           cb == Head(mainQueue[d])
           w  == [to |-> "vote", poll |-> cb.req.poll, tally |-> AddVote(cb.tally, cb.req.index)]
<1>1. u \in Users /\ d \in Own(u) /\ \A e \in Own(u) : e \in Devices
  BY EmailAssumption DEF Own
<1>2. /\ mainQueue[d] # <<>> /\ cb.req.kind = "first"
      /\ mainQueue' = [mainQueue EXCEPT ![d] = Tail(@)] /\ requests' = requests
      /\ UNCHANGED <<applied, users, votes, intent>>
      /\ DOMAIN outbox = Devices
  BY DEF CountFirst, Ready, database, TypeOK
<1>3. /\ Flight(u) = {cb.req} /\ MyQueue(u) = {cb}
      /\ cb.req.poll \in Polls /\ cb.req.index \in Variants /\ cb.req.dev = d
  BY <1>2, AtHeadAlone
<1>4. /\ \A e \in Own(u) : e # d => outbox'[e] = outbox[e]
      /\ \/ cb.tally = Absent /\ outbox' = outbox
         \/ cb.tally # Absent /\ outbox'[d] = Append(outbox[d], w)
  BY <1>1, <1>2 DEF CountFirst
<1>5. w.to = "vote" /\ w.poll = cb.req.poll /\ w.tally = AddVote(cb.tally, cb.req.index)
  OBVIOUS
<1>6. Flight(u)' = {} /\ MyQueue(u)' = {} /\ Captured(u)' = {}
  BY <1>2, CallbackDone
<1> HIDE DEF w
<1>7. outbox'[d] = Append(outbox[d], w) =>
        ListsStay(d) /\ OneTallyQueued(d, w.poll, Len(outbox[d]) + 1, w.tally)
  BY <1>5, OneQueued
<1>8. Counts(d, "first")
  BY <1>2, <1>3, <1>4, <1>6 DEF Counts
<1> HIDE DEF cb, u
<1> QED
  BY <1>4, <1>5, <1>7, <1>8 DEF cb

LEMMA CountSecondMoves ==
  ASSUME TypeOK, TypeOK', AtHome, NEW d \in Devices, OneTap(Email[d]), OneTap(Email[d])',
         CountSecond(d)
  PROVE  LET cb == Head(mainQueue[d])
             p  == cb.req.poll
             i  == cb.req.index
             x  == cb.req.extra
             n  == Len(outbox[d])
         IN  /\ Counts(d, "second") /\ Captured(Email[d]) = {cb.req.arrays}
             /\ \/ cb.tally = Absent /\ outbox' = outbox
                \/ /\ cb.tally # Absent
                   /\ ListQueued(d, n + 2, ReplaceRecord(cb.req.arrays, p, i))
                   /\ OneTallyQueued(d, p, n + 1, MoveVote(cb.tally, i, x))
                   /\ i = x \/ cb.tally[x] = cb.tally[i] + 1 \/ p \in skewed'
<1> DEFINE u  == Email[d]
           cb == Head(mainQueue[d])
           p  == cb.req.poll
           i  == cb.req.index
           x  == cb.req.extra
           v  == [to |-> "vote", poll |-> p, tally |-> MoveVote(cb.tally, i, x)]
           w  == [to |-> "user", list |-> ReplaceRecord(cb.req.arrays, p, i)]
<1>1. u \in Users /\ d \in Own(u) /\ \A e \in Own(u) : e \in Devices
  BY EmailAssumption DEF Own
<1>2. /\ mainQueue[d] # <<>> /\ cb.req.kind = "second"
      /\ mainQueue' = [mainQueue EXCEPT ![d] = Tail(@)] /\ requests' = requests
      /\ UNCHANGED <<applied, users, votes, intent>>
      /\ DOMAIN outbox = Devices
  BY DEF CountSecond, Ready, database, TypeOK
<1>3. /\ Flight(u) = {cb.req} /\ MyQueue(u) = {cb} /\ Captured(u) = {cb.req.arrays}
      /\ p \in Polls /\ i \in Variants /\ cb.req.dev = d
  BY <1>2, AtHeadAlone
<1>4. /\ \A e \in Own(u) : e # d => outbox'[e] = outbox[e]
      /\ \/ cb.tally = Absent /\ outbox' = outbox
         \/ /\ cb.tally # Absent /\ outbox'[d] = outbox[d] \o <<v, w>>
            /\ i = x \/ cb.tally[x] = cb.tally[i] + 1 \/ p \in skewed'
  BY <1>1, <1>2 DEF CountSecond
<1>5. /\ v.to = "vote" /\ v.poll = p /\ v.tally = MoveVote(cb.tally, i, x)
      /\ w.to = "user" /\ w.list = ReplaceRecord(cb.req.arrays, p, i)
  OBVIOUS
<1>6. Flight(u)' = {} /\ MyQueue(u)' = {} /\ Captured(u)' = {}
  BY <1>2, CallbackDone
<1> HIDE DEF v, w
<1>7. outbox'[d] = outbox[d] \o <<v, w>> =>
        /\ ListQueued(d, Len(outbox[d]) + 2, w.list)
        /\ OneTallyQueued(d, v.poll, Len(outbox[d]) + 1, v.tally)
  BY <1>5, TwoQueued
<1>8. Counts(d, "second")
  BY <1>2, <1>3, <1>4, <1>6 DEF Counts
<1> HIDE DEF cb, u, p, i, x
<1>9. \/ cb.tally = Absent /\ outbox' = outbox
      \/ /\ cb.tally # Absent
         /\ ListQueued(d, Len(outbox[d]) + 2, ReplaceRecord(cb.req.arrays, p, i))
         /\ OneTallyQueued(d, p, Len(outbox[d]) + 1, MoveVote(cb.tally, i, x))
         /\ i = x \/ cb.tally[x] = cb.tally[i] + 1 \/ p \in skewed'
  BY <1>4, <1>5, <1>7
<1> QED
  BY <1>3, <1>8, <1>9 DEF cb, u, p, i, x

-----------------------------------------------------------------------------
(* Every step keeps the lists matching the taps *)

LEMMA MatchingAsk ==
  ASSUME TypeOK, TypeOK', AtHome, NEW d \in Devices, OneTap(Email[d]), OneTap(Email[d])',
         Matching(Email[d]), Email[d] \notin overlapped',
         NEW p \in Polls, NEW i \in Variants, TabOnCell(d, p, i)
  PROVE  Matching(Email[d])'
<1> DEFINE u == Email[d]
<1>1. u \in Users
  BY EmailAssumption
<1>2. PICK q : Asks(d, p, i, q)
  BY AskMoves
<1>3. intent'[u] = {r \in intent[u] : r.voteUUID # p} \cup {NewRecord(p, i)}
  BY <1>1 DEF TabOnCell, TypeOK, NewRecord
<1> HIDE DEF u
<1>4. /\ Flight(u) = {} /\ Flight(u)' = {q} /\ Captured(u)' = {}
      /\ q.kind = "user" /\ q.poll = p /\ q.index = i
      /\ outbox' = outbox /\ applied' = applied /\ users' = users /\ votes' = votes
  BY <1>2 DEF Asks, u
<1>5. OneTap(u) /\ OneTap(u)' /\ Matching(u)
  BY DEF u
<1>6. \A e \in Own(u) : PendingUser(e)' = PendingUser(e)
  BY <1>4 DEF PendingUser
<1>7. Standing(u)' = Standing(u) /\ AppliedList(u)'
  BY <1>1, <1>4, <1>5, <1>6, ListsKept DEF Matching
<1>8. RecordsOf(intent'[u], p) = {NewRecord(p, i)}
  BY <1>3 DEF RecordsOf, NewRecord
<1>9. \A x \in Polls : x # p => RecordsOf(intent'[u], x) = RecordsOf(intent[u], x)
  BY <1>3 DEF RecordsOf, NewRecord
<1>10. \A x \in Polls : ~Unwritten(u, x) /\ (Unwritten(u, x)' <=> x = p)
  BY <1>4 DEF Unwritten
<1>11. \A r \in Flight(u)' : RecordsOf(intent'[u], r.poll) = {NewRecord(r.poll, r.index)}
  BY <1>4, <1>8
<1>12. \A x \in Polls : votes'[x] # Absent /\ ~Unwritten(u, x)' =>
         RecordsOf(Standing(u)', x) = RecordsOf(intent'[u], x)
  BY <1>4, <1>5, <1>7, <1>9, <1>10 DEF Matching
<1>13. Matching(u)'
  BY <1>4, <1>7, <1>11, <1>12 DEF Matching
<1> QED
  BY <1>13 DEF u

LEMMA MatchingAnswer ==
  ASSUME TypeOK, TypeOK', AtHome, NEW d \in Devices, OneTap(Email[d]), OneTap(Email[d])',
         Matching(Email[d]), Email[d] \notin overlapped', NEW r \in requests, r.dev = d,
         AnswerUser(r) \/ AnswerVote(r) \/ RecallUser(r) \/ RecallVote(r)
  PROVE  Matching(Email[d])'
<1> DEFINE u == Email[d]
<1>1. u \in Users
  BY EmailAssumption
<1>2. PICK cb : Answers(d, r, cb)
  BY AnswerMoves
<1> HIDE DEF u
<1>3. /\ Flight(u) = {r} /\ Flight(u)' = {r}
      /\ \A list \in Captured(u)' : list \in Captured(u) \/ list = Standing(u)
      /\ outbox' = outbox /\ applied' = applied /\ users' = users /\ votes' = votes
      /\ intent' = intent
  BY <1>2 DEF Answers, u
<1>4. OneTap(u) /\ OneTap(u)' /\ Matching(u)
  BY DEF u
<1>5. \A e \in Own(u) : PendingUser(e)' = PendingUser(e)
  BY <1>3 DEF PendingUser
<1>6. Standing(u)' = Standing(u) /\ AppliedList(u)'
  BY <1>1, <1>3, <1>4, <1>5, ListsKept DEF Matching
<1>7. \A x \in Polls : Unwritten(u, x)' <=> Unwritten(u, x)
  BY <1>3 DEF Unwritten
<1>8. Matching(u)'
  BY <1>3, <1>4, <1>6, <1>7 DEF Matching
<1> QED
  BY <1>8 DEF u

\* Every list written is made of the one that stands.
LEMMA MatchingFirst ==
  ASSUME TypeOK, TypeOK', AtHome, NEW d \in Devices, OneTap(Email[d]), OneTap(Email[d])',
         Matching(Email[d]), VoteFirst(d)
  PROVE  Matching(Email[d])'
<1> DEFINE u  == Email[d]
           cb == Head(mainQueue[d])
           p  == cb.req.poll
           i  == cb.req.index
           n  == Len(outbox[d]) + 1
           new == AppendRecord(cb.list, p, i)
<1>1. u \in Users /\ d \in Own(u)
  BY EmailAssumption DEF Own
<1>2. RecordsOf(cb.list, p) = {} /\ ListQueued(d, n, new) /\ Captured(u)' = {}
  BY FirstMoves
<1>3. PICK q : Follows(d, "first", q)
  BY FirstMoves
<1>4. /\ cb.req.kind = "user" /\ p \in Polls /\ Flight(u) = {cb.req} /\ Captured(u) = {cb.list}
      /\ Flight(u)' = {q} /\ q.kind = "first" /\ q.poll = p /\ q.index = i
      /\ applied' = applied /\ users' = users /\ votes' = votes /\ intent' = intent
  BY <1>3 DEF Follows
<1>5. /\ RecordsOf(new, p) = {NewRecord(p, i)}
      /\ \A x : x # p => RecordsOf(new, x) = RecordsOf(cb.list, x)
  BY <1>2, RecordOperators
<1> HIDE DEF u, n, new
<1>6. OneTap(u)' /\ Matching(u) /\ cb.list = Standing(u)
  BY <1>4 DEF Matching, u
<1>7. Standing(u)' = new /\ AppliedList(u)'
  BY <1>1, <1>2, <1>4, <1>6, ListAdded DEF ListQueued, Matching
<1>8. RecordsOf(intent'[u], p) = {NewRecord(p, i)}
  BY <1>4, <1>6 DEF Matching
<1> HIDE DEF p, i, cb
<1>9. \A x \in Polls : ~Unwritten(u, x)' /\ (x # p => ~Unwritten(u, x))
  BY <1>4 DEF Unwritten, p
<1>10. \A r \in Flight(u)' : RecordsOf(intent'[u], r.poll) = {NewRecord(r.poll, r.index)}
  BY <1>4, <1>8
<1>11. ASSUME NEW x \in Polls, votes'[x] # Absent
       PROVE  RecordsOf(Standing(u)', x) = RecordsOf(intent'[u], x)
  <2>1. CASE x = p
    BY <1>5, <1>7, <1>8, <2>1
  <2>2. CASE x # p
    <3>1. RecordsOf(Standing(u), x) = RecordsOf(intent[u], x)
      BY <1>4, <1>6, <1>9, <1>11, <2>2 DEF Matching
    <3> QED
      BY <1>4, <1>5, <1>6, <1>7, <2>2, <3>1
  <2> QED
    BY <2>1, <2>2
<1>12. Matching(u)'
  BY <1>2, <1>7, <1>10, <1>11 DEF Matching
<1> QED
  BY <1>12 DEF u

LEMMA MatchingSecond ==
  ASSUME TypeOK, TypeOK', AtHome, NEW d \in Devices, OneTap(Email[d]), OneTap(Email[d])',
         Matching(Email[d]), VoteSecond(d)
  PROVE  Matching(Email[d])'
<1> DEFINE u  == Email[d]
           cb == Head(mainQueue[d])
<1>1. u \in Users
  BY EmailAssumption
<1>2. outbox' = outbox /\ Captured(u)' = Captured(u)
  BY SecondMoves
<1>3. PICK q : Follows(d, "second", q)
  BY SecondMoves
<1>4. /\ cb.req.kind = "user" /\ Flight(u) = {cb.req} /\ Flight(u)' = {q}
      /\ q.kind = "second" /\ q.poll = cb.req.poll /\ q.index = cb.req.index
      /\ applied' = applied /\ users' = users /\ votes' = votes /\ intent' = intent
  BY <1>3 DEF Follows
<1> HIDE DEF u, cb
<1>5. OneTap(u) /\ OneTap(u)' /\ Matching(u)
  BY DEF u
<1>6. \A e \in Own(u) : PendingUser(e)' = PendingUser(e)
  BY <1>2 DEF PendingUser
<1>7. Standing(u)' = Standing(u) /\ AppliedList(u)'
  BY <1>1, <1>2, <1>4, <1>5, <1>6, ListsKept DEF Matching
<1>8. \A x \in Polls : Unwritten(u, x)' <=> Unwritten(u, x)
  BY <1>4 DEF Unwritten
<1>9. \A r \in Flight(u)' : RecordsOf(intent'[u], r.poll) = {NewRecord(r.poll, r.index)}
  BY <1>4, <1>5 DEF Matching
<1>10. Matching(u)'
  BY <1>2, <1>4, <1>5, <1>7, <1>8, <1>9 DEF Matching
<1> QED
  BY <1>10 DEF u

LEMMA MatchingCount ==
  ASSUME TypeOK, TypeOK', AtHome, GoneIsGone, NEW d \in Devices, OneTap(Email[d]),
         OneTap(Email[d])', Matching(Email[d]), CountFirst(d) \/ CountSecond(d)
  PROVE  Matching(Email[d])'
<1> DEFINE u  == Email[d]
           cb == Head(mainQueue[d])
           p  == cb.req.poll
           i  == cb.req.index
           new == ReplaceRecord(cb.req.arrays, p, i)
<1>1. u \in Users /\ d \in Own(u)
  BY EmailAssumption DEF Own
<1>2. /\ CountFirst(d) => Counts(d, "first") /\ (outbox' = outbox \/ ListsStay(d))
      /\ CountSecond(d) =>
           /\ Counts(d, "second") /\ Captured(u) = {cb.req.arrays}
           /\ (cb.tally = Absent /\ outbox' = outbox) \/ ListQueued(d, Len(outbox[d]) + 2, new)
  BY CountFirstMoves, CountSecondMoves
<1>3. /\ Flight(u) = {cb.req} /\ Flight(u)' = {} /\ Captured(u)' = {} /\ p \in Polls
      /\ \A e \in Own(u) : e # d => outbox'[e] = outbox[e]
      /\ applied' = applied /\ users' = users /\ votes' = votes /\ intent' = intent
      /\ mainQueue[d] # <<>>
  BY <1>2 DEF Counts
<1>4. CountFirst(d) => cb.req.kind = "first"
  BY <1>2 DEF Counts
<1>5. CountSecond(d) => cb.req.kind = "second"
  BY <1>2 DEF Counts
<1>6. CountSecond(d) /\ cb.tally = Absent => votes[p] = Absent
  <2>1. cb = mainQueue[d][1] /\ 1 \in DOMAIN mainQueue[d]
    BY <1>3, AtHead
  <2> QED
    BY <1>5, <2>1 DEF GoneIsGone
<1>7. /\ RecordsOf(new, p) = {NewRecord(p, i)}
      /\ \A x : x # p => RecordsOf(new, x) = RecordsOf(cb.req.arrays, x)
  BY RecordOperators
<1> HIDE DEF u, new
<1>8. OneTap(u) /\ OneTap(u)' /\ Matching(u)
  BY DEF u
<1>9. RecordsOf(intent[u], p) = {NewRecord(p, i)}
  BY <1>3, <1>8 DEF Matching
<1> HIDE DEF cb, p, i
<1>10. \A x \in Polls : ~Unwritten(u, x)'
  BY <1>3 DEF Unwritten
<1>11. \A x \in Polls : CountFirst(d) \/ x # p => ~Unwritten(u, x)
  BY <1>3, <1>4 DEF Unwritten, p
<1>12. ASSUME outbox' = outbox \/ ListsStay(d), CountFirst(d) \/ votes[p] = Absent
       PROVE  Matching(u)'
  <2>1. \A e \in Own(u) : /\ PendingUser(e)' = PendingUser(e)
                          /\ \A k \in PendingUser(e) : outbox'[e][k] = outbox[e][k]
    BY <1>3, <1>12 DEF ListsStay, PendingUser
  <2>2. Standing(u)' = Standing(u) /\ AppliedList(u)'
    BY <1>1, <1>3, <1>8, <2>1, ListsKept DEF Matching
  <2>3. \A x \in Polls : votes'[x] # Absent => RecordsOf(Standing(u)', x) = RecordsOf(intent'[u], x)
    BY <1>3, <1>8, <1>11, <1>12, <2>2 DEF Matching
  <2> QED
    BY <1>3, <2>2, <2>3 DEF Matching
<1>13. ASSUME CountSecond(d), ListQueued(d, Len(outbox[d]) + 2, new) PROVE Matching(u)'
  <2>1. Standing(u)' = new /\ AppliedList(u)'
    BY <1>1, <1>3, <1>8, <1>13, ListAdded DEF ListQueued, Matching
  <2>2. cb.req.arrays = Standing(u)
    BY <1>2, <1>8, <1>13 DEF Matching
  <2>3. ASSUME NEW x \in Polls, votes'[x] # Absent
        PROVE  RecordsOf(Standing(u)', x) = RecordsOf(intent'[u], x)
    <3>1. CASE x = p
      BY <1>3, <1>7, <1>9, <2>1, <3>1
    <3>2. CASE x # p
      <4>1. RecordsOf(Standing(u), x) = RecordsOf(intent[u], x)
        BY <1>3, <1>8, <1>11, <2>3, <3>2 DEF Matching
      <4> QED
        BY <1>3, <1>7, <2>1, <2>2, <3>2, <4>1
    <3> QED
      BY <3>1, <3>2
  <2> QED
    BY <1>3, <2>1, <2>3 DEF Matching
<1>14. Matching(u)'
  BY <1>2, <1>6, <1>12, <1>13
<1> QED
  BY <1>14 DEF u

\* The user's lists move, but no tap and no callback.
LEMMA MatchingBackend ==
  ASSUME TypeOK, NEW d \in Devices, Matching(Email[d]),
         Standing(Email[d])' = Standing(Email[d]), AppliedList(Email[d])',
         UNCHANGED <<requests, mainQueue, intent>>,
         \A p \in Polls : votes[p] = Absent => votes'[p] = Absent
  PROVE  Matching(Email[d])'
<1> DEFINE u == Email[d]
<1>1. u \in Users /\ MyRequests(u)' = MyRequests(u) /\ \A e \in Own(u) : mainQueue'[e] = mainQueue[e]
  BY EmailAssumption DEF MyRequests
<1>2. /\ Flight(u)' = Flight(u) /\ Captured(u)' = Captured(u)
      /\ \A p : Unwritten(u, p)' <=> Unwritten(u, p)
  BY <1>1, SameFlight
<1> HIDE DEF u
<1>3. Matching(u) /\ Standing(u)' = Standing(u) /\ AppliedList(u)'
  BY DEF u
<1>4. Matching(u)'
  BY <1>2, <1>3 DEF Matching
<1> QED
  BY <1>4 DEF u

LEMMA MatchingStep ==
  ASSUME TypeOK, TypeOK', AtHome, GoneIsGone, Next, NEW d \in Devices, By(d),
         OneTap(Email[d]), OneTap(Email[d])', Matching(Email[d]),
         Email[d] \notin overlapped', Email[d] \notin faulty'
  PROVE  Matching(Email[d])'
<1> DEFINE u == Email[d]
<1>1. u \in Users /\ AppliedList(u)
  BY EmailAssumption DEF Matching
<1>2. \A p \in Polls : votes[p] = Absent => votes'[p] = Absent
  BY GoneSteps
<1>3. ASSUME NEW p \in Polls, NEW i \in Variants, TabOnCell(d, p, i) PROVE Matching(u)'
  BY <1>3, MatchingAsk
<1>4. CASE VoteFirst(d)
  BY <1>4, MatchingFirst
<1>5. CASE VoteSecond(d)
  BY <1>5, MatchingSecond
<1>6. CASE CountFirst(d) \/ CountSecond(d)
  BY <1>6, MatchingCount
<1>7. CASE Apply(d)
  <2>1. UNCHANGED <<requests, mainQueue, intent>>
    BY <1>7 DEF Apply, history
  <2>2. Standing(u)' = Standing(u) /\ AppliedList(u)'
    BY <1>1, <1>7, ListsApplied
  <2> QED
    BY <1>2, <2>1, <2>2, MatchingBackend
<1>8. CASE Acknowledge(d)
  <2>1. UNCHANGED <<requests, mainQueue, intent>>
    BY <1>8 DEF Acknowledge, history
  <2>2. Standing(u)' = Standing(u) /\ AppliedList(u)'
    BY <1>1, <1>8, ListsAcknowledged
  <2> QED
    BY <1>2, <2>1, <2>2, MatchingBackend
<1>9. CASE Resend(d)
  <2>1. UNCHANGED <<requests, mainQueue, intent, users, outbox>> /\ applied' = [applied EXCEPT ![d] = 0]
    BY <1>9 DEF Resend, SentAgain, database
  <2>2. Standing(u)' = Standing(u)
    BY <1>1, <2>1, SameWrites
  <2>3. AppliedList(u)'
    <3>1. \A e \in Own(u) : PendingUser(e)' = PendingUser(e)
      BY <2>1 DEF PendingUser
    <3>2. \A k \in PendingUser(d) : ~ (k <= 0)
      <4>1. outbox[d] \in Seq(Write)
        BY DEF TypeOK
      <4> QED
        BY <4>1 DEF PendingUser
    <3>3. applied'[d] = 0 /\ \A e \in Own(u) : e # d => applied'[e] = applied[e]
      BY <2>1 DEF Own, TypeOK
    <3> QED
      BY <1>1, <2>1, <3>1, <3>2, <3>3 DEF AppliedList, Own
  <2> QED
    BY <1>2, <2>1, <2>2, <2>3, MatchingBackend
<1>10. CASE Refresh(d)
  <2>1. Untouched(u)
    BY <1>10 DEF Refresh, Untouched, MyRequests, database, sending, history
  <2> QED
    BY <1>1, <1>2, <2>1, MatchingUntouched
<1>11. CASE RejectWrite(d) \/ Crash(d)
  BY <1>11 DEF RejectWrite, Crash
<1>12. ASSUME NEW r \in requests, r.dev = d,
              AnswerUser(r) \/ AnswerVote(r) \/ RecallUser(r) \/ RecallVote(r) \/ FailRead(r)
       PROVE  Matching(u)'
  <2>1. CASE FailRead(r)
    BY <1>12, <2>1 DEF FailRead
  <2> QED
    BY <1>12, <2>1, MatchingAnswer
<1> QED
  BY <1>3, <1>4, <1>5, <1>6, <1>7, <1>8, <1>9, <1>10, <1>11, <1>12 DEF By

LEMMA ListsMatchStep ==
  ASSUME TypeOK, TypeOK', TapsSerial, TapsSerial', GoneIsGone, ListsMatch, Next
  PROVE  ListsMatch'
<1>1. AtHome /\ overlapped \subseteq overlapped' /\ faulty \subseteq faulty'
  BY HistoryGrows DEF TapsSerial
<1>2. ASSUME NEW u \in Users, u \notin overlapped', u \notin faulty' PROVE Matching(u)'
  <2>1. OneTap(u) /\ OneTap(u)' /\ Matching(u)
    BY <1>1, <1>2 DEF TapsSerial, ListsMatch
  <2>2. ASSUME NEW p \in Polls, DeletePoll(p) PROVE Untouched(u)
    BY <2>2 DEF DeletePoll, Untouched, MyRequests, client, history
  <2>3. ASSUME NEW d \in Devices, By(d), u # Email[d] PROVE Untouched(u)
    BY <1>1, <2>3, StepsOfOthers
  <2>4. ASSUME NEW d \in Devices, By(d), u = Email[d] PROVE Matching(u)'
    BY <1>1, <1>2, <2>1, <2>4, MatchingStep
  <2> QED
    BY <2>1, <2>2, <2>3, <2>4, GoneSteps, MatchingUntouched, EveryStepIsBySomebody
<1> QED
  BY <1>2 DEF ListsMatch

-----------------------------------------------------------------------------
(* The user's list is what the user tapped *)

RecordInv == TypeOK /\ TapsSerial /\ GoneIsGone /\ ListsMatch

LEMMA RecordInit == Init => RecordInv
<1> SUFFICES ASSUME Init PROVE RecordInv
  OBVIOUS
<1>1. TypeOK
  BY DEF Init, TypeOK, Tally
<1>2. /\ requests = {} /\ \A d \in Devices : mainQueue[d] = <<>> /\ outbox[d] = <<>>
      /\ DOMAIN <<>> = {}
  BY DEF Init
<1>3. \A d \in Devices : DOMAIN mainQueue[d] = {} /\ PendingUser(d) = {} /\ Len(mainQueue[d]) <= 1
  BY <1>2 DEF PendingUser
<1>4. TapsSerial
  BY <1>2, <1>3 DEF TapsSerial, AtHome, OneTap, Own
<1>5. GoneIsGone
  BY <1>3 DEF GoneIsGone, Init
<1>6. ASSUME NEW u \in Users PROVE Matching(u)
  <2>1. MyRequests(u) = {} /\ MyQueue(u) = {}
    BY <1>2, <1>3 DEF MyRequests, MyQueue, Own
  <2>2. Flight(u) = {}
    BY <2>1 DEF Flight
  <2>3. Captured(u) = {}
    BY <2>1, <2>2 DEF Captured
  <2>4. Standing(u) = {} /\ intent[u] = {}
    BY <1>3 DEF Standing, Writing, Own, Init
  <2> QED
    BY <1>3, <2>2, <2>3, <2>4 DEF Matching, AppliedList, Own
<1> QED
  BY <1>1, <1>4, <1>5, <1>6 DEF RecordInv, ListsMatch

LEMMA RecordStep == RecordInv /\ TypeOK' /\ [Next]_vars => RecordInv'
<1> SUFFICES ASSUME RecordInv, TypeOK', [Next]_vars PROVE RecordInv'
  OBVIOUS
<1>1. CASE Next
  BY <1>1, TapsSerialStep, GoneIsGoneStep, ListsMatchStep DEF RecordInv
<1>2. CASE UNCHANGED vars
  <2>1. TapsSerial'
    BY <1>2 DEF vars, RecordInv, TapsSerial, AtHome, OneTap, Own
  <2>2. GoneIsGone'
    BY <1>2 DEF vars, RecordInv, GoneIsGone
  <2>3. ListsMatch'
    <3>1. \A u \in Users : Untouched(u)
      BY <1>2 DEF vars, Untouched, MyRequests
    <3> QED
      BY <1>2, <3>1, MatchingUntouched DEF vars, RecordInv, ListsMatch
  <2> QED
    BY <2>1, <2>2, <2>3 DEF RecordInv
<1> QED
  BY <1>1, <1>2

\* When a user's taps and writes are through, the user's list names in every
\* poll that still exists the variant tapped last, unless the user's taps
\* overlapped or something failed: voteFirst and voteSecond put the new record
\* into a list that no other write of the user can have overtaken.
THEOREM RecordsMatchTapsHolds == Spec => []RecordsMatchTaps
<1>1. RecordInv => RecordsMatchTaps
  <2> SUFFICES ASSUME RecordInv, NEW u \in Users \ (overlapped \cup faulty), Resting(u),
                      NEW p \in Polls, votes[p] # Absent
               PROVE  RecordsOf(users[u], p) = RecordsOf(intent[u], p)
    BY DEF RecordsMatchTaps
  <2>1. Matching(u) /\ TypeOK /\ AtHome /\ OneTap(u)
    BY DEF RecordInv, ListsMatch, TapsSerial
  <2>2. Flight(u) = {}
    BY <2>1, FlightOfUser DEF Resting
  <2>3. \A d \in Own(u) : PendingUser(d) = {}
    BY DEF Resting, Own, PendingUser
  <2>4. Standing(u) = users[u]
    BY <2>1, <2>3, StandingFactsHold DEF StandingFacts
  <2> QED
    BY <2>1, <2>2, <2>4 DEF Matching, Unwritten
<1> QED
  BY <1>1, RecordInit, RecordStep, TypeCorrect, PTL DEF Spec

-----------------------------------------------------------------------------
(* No recorded vote is lost *)

\* Neither operator takes a poll off a list.
LEMMA PollsKept ==
  ASSUME NEW list, NEW p, NEW i
  PROVE  /\ PollsOf(list) \subseteq PollsOf(AppendRecord(list, p, i))
         /\ PollsOf(list) \subseteq PollsOf(ReplaceRecord(list, p, i))
<1>1. NewRecord(p, i).voteUUID = p
  BY DEF NewRecord
<1>2. PollsOf(list) \subseteq PollsOf(AppendRecord(list, p, i))
  BY DEF PollsOf, AppendRecord
<1>3. ASSUME NEW r \in list PROVE r.voteUUID \in PollsOf(ReplaceRecord(list, p, i))
  <2>1. CASE r.voteUUID = p
    BY <1>1, <2>1 DEF PollsOf, ReplaceRecord
  <2>2. CASE r.voteUUID # p
    BY <2>2 DEF PollsOf, ReplaceRecord, RecordsOf
  <2> QED
    BY <2>1, <2>2
<1> QED
  BY <1>2, <1>3 DEF PollsOf

\* The list that stands has every poll of the others.
LEMMA StandingTop ==
  ASSUME TypeOK, NEW u \in Users, OneTap(u), Growing(u)
  PROVE  /\ PollsOf(users[u]) \subseteq PollsOf(Standing(u))
         /\ \A d \in Own(u) : \A k \in PendingUser(d) :
              PollsOf(outbox[d][k].list) \subseteq PollsOf(Standing(u))
<1>1. StandingFacts
  BY StandingFactsHold
<1>2. ASSUME NEW d \in Own(u), PendingUser(d) # {}
      PROVE  /\ PollsOf(users[u]) \subseteq PollsOf(Standing(u))
             /\ \A k \in PendingUser(d) : PollsOf(outbox[d][k].list) \subseteq PollsOf(Standing(u))
  <2>1. PICK m \in PendingUser(d) : \A j \in PendingUser(d) : j <= m
    BY <1>1, <1>2 DEF StandingFacts
  <2>2. Standing(u) = outbox[d][m].list
    BY <1>1, <2>1 DEF StandingFacts
  <2> QED
    BY <2>1, <2>2 DEF Growing
<1>3. CASE \A d \in Own(u) : PendingUser(d) = {}
  BY <1>1, <1>3 DEF StandingFacts
<1> QED
  BY <1>2, <1>3

LEMMA GrowingKept ==
  ASSUME TypeOK, NEW u \in Users, OneTap(u), Growing(u),
         \A d \in Own(u) : /\ PendingUser(d)' = PendingUser(d)
                           /\ \A k \in PendingUser(d) : outbox'[d][k] = outbox[d][k]
                           /\ applied'[d] = applied[d],
         users'[u] = users[u],
         \A list \in Captured(u)' : list \in Captured(u) \/ list = Standing(u)
  PROVE  Growing(u)'
<1>1. /\ PollsOf(users[u]) \subseteq PollsOf(Standing(u))
      /\ \A d \in Own(u) : \A k \in PendingUser(d) :
           PollsOf(outbox[d][k].list) \subseteq PollsOf(Standing(u))
  BY StandingTop
<1>2. Own(u)' = Own(u)
  BY DEF Own
<1>3. ASSUME NEW list \in Captured(u)'
      PROVE  /\ PollsOf(users'[u]) \subseteq PollsOf(list)
             /\ \A d \in Own(u) : \A k \in PendingUser(d)' :
                  PollsOf(outbox'[d][k].list) \subseteq PollsOf(list)
  <2>1. CASE list \in Captured(u)
    BY <2>1 DEF Growing
  <2>2. CASE list = Standing(u)
    BY <1>1, <2>2
  <2> QED
    BY <2>1, <2>2
<1>4. \A d \in Own(u) : \A j, k \in PendingUser(d)' :
        j <= k => PollsOf(outbox'[d][j].list) \subseteq PollsOf(outbox'[d][k].list)
  BY DEF Growing
<1>5. \A d \in Own(u) : \A k \in PendingUser(d)' :
        (k > applied'[d] \/ \A j \in PendingUser(d)' : j <= k) =>
           PollsOf(users'[u]) \subseteq PollsOf(outbox'[d][k].list)
  BY DEF Growing
<1> QED
  BY <1>2, <1>3, <1>4, <1>5 DEF Growing, PollsOf

LEMMA GrowingAdded ==
  ASSUME TypeOK, TypeOK', NEW u \in Users, OneTap(u)', Growing(u),
         NEW d \in Own(u), NEW n \in Nat, applied[d] < n,
         PendingUser(d)' = PendingUser(d) \cup {n},
         \A k \in PendingUser(d) : k \in Nat /\ k < n /\ outbox'[d][k] = outbox[d][k],
         applied'[d] = applied[d], users'[u] = users[u], Captured(u)' = {},
         NEW list \in Captured(u), PollsOf(list) \subseteq PollsOf(outbox'[d][n].list)
  PROVE  Growing(u)'
<1>1. Own(u)' = Own(u)
  BY DEF Own
<1>2. \A e \in Own(u) : e # d => PendingUser(e)' = {}
  <2> SUFFICES ASSUME NEW e \in Own(u), e # d PROVE PendingUser(e)' = {}
    OBVIOUS
  <2>1. outbox'[d] # <<>>
    BY DEF PendingUser
  <2>2. outbox'[e] = <<>>
    BY <2>1 DEF OneTap, Own
  <2> QED
    BY <2>2 DEF PendingUser
<1> DEFINE new == outbox'[d][n].list
<1>3. /\ PollsOf(users[u]) \subseteq PollsOf(new)
      /\ \A k \in PendingUser(d) : PollsOf(outbox[d][k].list) \subseteq PollsOf(new)
  BY DEF Growing
<1> HIDE DEF new
<1>4. ASSUME NEW j \in PendingUser(d)', NEW k \in PendingUser(d)', j <= k
      PROVE  PollsOf(outbox'[d][j].list) \subseteq PollsOf(outbox'[d][k].list)
  <2>1. CASE k = n /\ j = n
    BY <2>1
  <2>2. CASE k = n /\ j # n
    BY <1>3, <2>2 DEF new
  <2>3. CASE k # n
    <3>1. k \in PendingUser(d) /\ j \in PendingUser(d)
      BY <1>4, <2>3
    <3> QED
      BY <1>4, <3>1 DEF Growing
  <2> QED
    BY <2>1, <2>2, <2>3
<1>5. ASSUME NEW k \in PendingUser(d)', k > applied'[d] \/ \A j \in PendingUser(d)' : j <= k
      PROVE  PollsOf(users'[u]) \subseteq PollsOf(outbox'[d][k].list)
  <2>1. CASE k = n
    BY <1>3, <2>1 DEF new
  <2>2. CASE k # n
    <3>1. k \in PendingUser(d) /\ k > applied[d]
      BY <1>5, <2>2
    <3> QED
      BY <3>1 DEF Growing
  <2> QED
    BY <2>1, <2>2
<1> QED
  BY <1>1, <1>2, <1>4, <1>5 DEF Growing, PollsOf

\* The backend goes through a list that has every poll of the one before.
LEMMA GrowingApplied ==
  ASSUME TypeOK, NEW d \in Devices, OneTap(Email[d]), Growing(Email[d]), Apply(d)
  PROVE  Growing(Email[d])' /\ PollsOf(users[Email[d]]) \subseteq PollsOf(users'[Email[d]])
<1> DEFINE u == Email[d]
           n == applied[d] + 1
<1>1. u \in Users /\ d \in Own(u) /\ (\A e \in Own(u) : e \in Devices) /\ Own(u)' = Own(u)
  BY EmailAssumption DEF Own
<1>2. /\ outbox[d] \in Seq(Write) /\ applied[d] \in Nat /\ DOMAIN users = Users
      /\ applied \in [Devices -> Nat]
  BY DEF TypeOK
<1>3. /\ n \in DOMAIN outbox[d] /\ n \in Nat /\ outbox' = outbox /\ applied'[d] = n
      /\ n > applied[d] /\ requests' = requests /\ mainQueue' = mainQueue
  BY <1>2 DEF Apply
<1>4. \/ outbox[d][n].to = "user" /\ users'[u] = outbox[d][n].list
      \/ outbox[d][n].to = "vote" /\ users'[u] = users[u]
  BY <1>1, <1>2 DEF Apply
<1>5. \A k \in PendingUser(d) : k \in Nat /\ (k > n => k > applied[d])
  BY <1>2 DEF PendingUser
<1> HIDE DEF u, n
<1>6. \A e \in Own(u) : PendingUser(e)' = PendingUser(e)
  BY <1>3 DEF PendingUser
<1>7. \A e \in Own(u) : e # d => PendingUser(e) = {}
  <2> SUFFICES ASSUME NEW e \in Own(u), e # d PROVE PendingUser(e) = {}
    OBVIOUS
  <2>1. outbox[d] # <<>>
    BY <1>3
  <2>2. outbox[e] = <<>>
    BY <1>1, <2>1 DEF OneTap, u
  <2> QED
    BY <2>2 DEF PendingUser
<1>8. Captured(u)' = Captured(u)
  BY <1>1, <1>3, SameFlight DEF MyRequests
<1>9. Growing(u)
  BY DEF u
<1>10. /\ \A k \in PendingUser(d) : (k > n \/ \A j \in PendingUser(d) : j <= k) =>
            PollsOf(users'[u]) \subseteq PollsOf(outbox[d][k].list)
       /\ \A list \in Captured(u) : PollsOf(users'[u]) \subseteq PollsOf(list)
       /\ PollsOf(users[u]) \subseteq PollsOf(users'[u])
  <2>1. CASE users'[u] = users[u]
    BY <1>1, <1>5, <1>9, <2>1 DEF Growing
  <2>2. CASE outbox[d][n].to = "user" /\ users'[u] = outbox[d][n].list
    <3>1. n \in PendingUser(d)
      BY <1>3, <2>2 DEF PendingUser
    <3>2. \A k \in PendingUser(d) : (k > n \/ \A j \in PendingUser(d) : j <= k) => n <= k
      BY <1>3, <1>5, <3>1
    <3> QED
      BY <1>1, <1>3, <1>9, <2>2, <3>1, <3>2 DEF Growing
  <2> QED
    BY <1>4, <2>1, <2>2
<1>11. /\ \A e \in Own(u) : \A j, k \in PendingUser(e)' :
            j <= k => PollsOf(outbox'[e][j].list) \subseteq PollsOf(outbox'[e][k].list)
       /\ \A list \in Captured(u)' : \A e \in Own(u) : \A k \in PendingUser(e)' :
            PollsOf(outbox'[e][k].list) \subseteq PollsOf(list)
  <2>1. outbox' = outbox /\ \A e \in Own(u) : PendingUser(e)' = PendingUser(e)
    BY <1>3, <1>6
  <2>2. \A e \in Own(u) : \A j, k \in PendingUser(e) :
          j <= k => PollsOf(outbox[e][j].list) \subseteq PollsOf(outbox[e][k].list)
    BY <1>9 DEF Growing
  <2>3. \A list \in Captured(u) : \A e \in Own(u) : \A k \in PendingUser(e) :
          PollsOf(outbox[e][k].list) \subseteq PollsOf(list)
    BY <1>9 DEF Growing
  <2>4. \A e \in Own(u) : \A j, k \in PendingUser(e)' :
          j <= k => PollsOf(outbox'[e][j].list) \subseteq PollsOf(outbox'[e][k].list)
    BY <2>1, <2>2
  <2>5. \A list \in Captured(u)' : \A e \in Own(u) : \A k \in PendingUser(e)' :
          PollsOf(outbox'[e][k].list) \subseteq PollsOf(list)
    BY <1>8, <2>1, <2>3
  <2> QED
    BY <2>4, <2>5
<1>12. \A e \in Own(u) : \A k \in PendingUser(e)' :
         (k > applied'[e] \/ \A j \in PendingUser(e)' : j <= k) =>
           PollsOf(users'[u]) \subseteq PollsOf(outbox'[e][k].list)
  BY <1>1, <1>3, <1>6, <1>7, <1>10
<1>13. \A list \in Captured(u)' : PollsOf(users'[u]) \subseteq PollsOf(list)
  BY <1>8, <1>10
<1>14. Growing(u)'
  BY <1>1, <1>11, <1>12, <1>13 DEF Growing, PollsOf
<1> QED
  BY <1>10, <1>14 DEF u

\* The oldest write leaves, because it is through or because it was refused.
LEMMA GrowingDropped ==
  ASSUME TypeOK, NEW d \in Devices, OneTap(Email[d]), Growing(Email[d]),
         Acknowledge(d) \/ RejectWrite(d)
  PROVE  Growing(Email[d])'
<1> DEFINE u == Email[d]
<1>1. u \in Users /\ d \in Own(u) /\ (\A e \in Own(u) : e \in Devices) /\ Own(u)' = Own(u)
  BY EmailAssumption DEF Own
<1>2. outbox \in [Devices -> Seq(Write)] /\ applied \in [Devices -> Nat]
  BY DEF TypeOK
<1>3. /\ outbox'[d] = Tail(outbox[d]) /\ applied[d] \in Nat
      /\ applied'[d] = applied[d] - 1 \/ (applied'[d] = 0 /\ applied[d] = 0)
      /\ users' = users /\ requests' = requests /\ mainQueue' = mainQueue
      /\ \A e \in Own(u) : e # d => outbox'[e] = outbox[e]
  BY <1>1, <1>2 DEF Acknowledge, RejectWrite, database
<1>4. outbox[d] # <<>>
  BY <1>2, QueuedWrites DEF Acknowledge, RejectWrite
<1>5. /\ \A k \in PendingUser(d)' : /\ k \in Nat /\ k + 1 \in PendingUser(d)
                                    /\ outbox'[d][k] = outbox[d][k + 1]
      /\ \A k \in PendingUser(d) : k = 1 \/ k - 1 \in PendingUser(d)'
  BY <1>3, <1>4, PendingDropped
<1>6. \A k \in PendingUser(d) : k \in Nat /\ 1 <= k
  BY <1>2 DEF PendingUser
<1> HIDE DEF u
<1>7. Growing(u) /\ Captured(u)' = Captured(u)
  BY <1>1, <1>3, SameFlight DEF MyRequests, u
<1>8. \A e \in Own(u) : e # d => PendingUser(e)' = {}
  <2>1. \A e \in Own(u) : e # d => outbox'[e] = <<>>
    BY <1>1, <1>3, <1>4 DEF OneTap, u
  <2> QED
    BY <2>1 DEF PendingUser
<1>9. ASSUME NEW j \in PendingUser(d)', NEW k \in PendingUser(d)', j <= k
      PROVE  PollsOf(outbox'[d][j].list) \subseteq PollsOf(outbox'[d][k].list)
  <2>1. /\ j + 1 \in PendingUser(d) /\ k + 1 \in PendingUser(d) /\ j + 1 <= k + 1
        /\ outbox'[d][j] = outbox[d][j + 1] /\ outbox'[d][k] = outbox[d][k + 1]
    BY <1>5, <1>9
  <2> QED
    BY <1>1, <1>7, <2>1 DEF Growing
<1>10. ASSUME NEW k \in PendingUser(d)', k > applied'[d] \/ \A j \in PendingUser(d)' : j <= k
       PROVE  PollsOf(users'[u]) \subseteq PollsOf(outbox'[d][k].list)
  <2>1. k + 1 \in PendingUser(d) /\ outbox'[d][k] = outbox[d][k + 1] /\ k \in Nat
    BY <1>5
  <2>2. k + 1 > applied[d] \/ \A j \in PendingUser(d) : j <= k + 1
    <3>1. CASE k > applied'[d]
      BY <1>3, <2>1, <3>1
    <3>2. CASE \A j \in PendingUser(d)' : j <= k
      BY <1>5, <1>6, <2>1, <3>2
    <3> QED
      BY <1>10, <3>1, <3>2
  <2>3. \A i \in PendingUser(d) : (i > applied[d] \/ \A j \in PendingUser(d) : j <= i) =>
          PollsOf(users[u]) \subseteq PollsOf(outbox[d][i].list)
    BY <1>1, <1>7 DEF Growing
  <2>4. PollsOf(users[u]) \subseteq PollsOf(outbox[d][k + 1].list)
    BY <2>1, <2>2, <2>3
  <2> QED
    BY <1>3, <2>1, <2>4
<1>11. \A list \in Captured(u)' : /\ PollsOf(users'[u]) \subseteq PollsOf(list)
                                  /\ \A k \in PendingUser(d)' : PollsOf(outbox'[d][k].list) \subseteq PollsOf(list)
  <2> SUFFICES ASSUME NEW list \in Captured(u)
               PROVE  /\ PollsOf(users'[u]) \subseteq PollsOf(list)
                      /\ \A k \in PendingUser(d)' : PollsOf(outbox'[d][k].list) \subseteq PollsOf(list)
    BY <1>7
  <2>1. /\ PollsOf(users[u]) \subseteq PollsOf(list)
        /\ \A k \in PendingUser(d) : PollsOf(outbox[d][k].list) \subseteq PollsOf(list)
    BY <1>1, <1>7 DEF Growing
  <2> QED
    BY <1>3, <1>5, <2>1
<1>12. Growing(u)'
  BY <1>1, <1>8, <1>9, <1>10, <1>11 DEF Growing, PollsOf
<1> QED
  BY <1>12 DEF u

\* A step of the user's own that is neither an overlap nor a replay.
LEMMA GrowingStep ==
  ASSUME TypeOK, TypeOK', AtHome, NEW d \in Devices, By(d),
         OneTap(Email[d]), OneTap(Email[d])', Growing(Email[d]),
         Email[d] \notin overlapped', Email[d] \notin replayed'
  PROVE  Growing(Email[d])' /\ PollsOf(users[Email[d]]) \subseteq PollsOf(users'[Email[d]])
<1> USE DEF database, sending, copies, history
<1> DEFINE u == Email[d]
<1>1. u \in Users /\ d \in Own(u) /\ (\A e \in Own(u) : e \in Devices) /\ Own(u)' = Own(u)
  BY EmailAssumption DEF Own
<1> HIDE DEF u
<1>2. /\ OneTap(u) /\ OneTap(u)' /\ Growing(u) /\ FlightFacts /\ FlightFacts' /\ StandingFacts
      /\ u = Email[d]
  BY FactsNext, FlightFactsHold, StandingFactsHold DEF u
<1>3. outbox' = outbox => \A e \in Own(u) : PendingUser(e)' = PendingUser(e)
  BY DEF PendingUser
<1>4. ASSUME outbox' = outbox, applied' = applied, users' = users,
             \A list \in Captured(u)' : list \in Captured(u) \/ list = Standing(u)
      PROVE  Growing(u)'
  BY <1>1, <1>2, <1>3, <1>4, GrowingKept
<1>5. ASSUME NEW p \in Polls, NEW i \in Variants, TabOnCell(d, p, i) PROVE Growing(u)' /\ users' = users
  <2>1. PICK q : Asks(d, p, i, q)
    BY <1>5, AskMoves
  <2>2. outbox' = outbox /\ applied' = applied /\ users' = users /\ Captured(u)' = {}
    BY <1>2, <2>1 DEF Asks
  <2> QED
    BY <1>4, <2>2
<1>6. CASE VoteFirst(d)
  <2> DEFINE cb == Head(mainQueue[d])
             n  == Len(outbox[d]) + 1
             new == AppendRecord(cb.list, cb.req.poll, cb.req.index)
  <2>1. Captured(u)' = {} /\ ListQueued(d, n, new)
    BY <1>2, <1>6, FirstMoves
  <2>2. PICK q : Follows(d, "first", q)
    BY <1>6, FirstMoves
  <2>3. Captured(u) = {cb.list} /\ users' = users /\ applied' = applied
    BY <1>2, <2>2 DEF Follows
  <2>4. PollsOf(cb.list) \subseteq PollsOf(new)
    BY PollsKept
  <2> HIDE DEF n, cb, new
  <2>5. Growing(u)'
    BY <1>1, <1>2, <2>1, <2>3, <2>4, GrowingAdded DEF ListQueued
  <2> QED
    BY <2>3, <2>5 DEF u
<1>7. CASE VoteSecond(d)
  <2>1. outbox' = outbox /\ Captured(u)' = Captured(u)
    BY <1>2, <1>7, SecondMoves
  <2>2. users' = users /\ applied' = applied
    BY <1>7 DEF VoteSecond
  <2>3. Growing(u)'
    BY <1>4, <2>1, <2>2
  <2> QED
    BY <2>2, <2>3 DEF u
<1>8. CASE CountFirst(d) \/ CountSecond(d)
  <2> DEFINE cb == Head(mainQueue[d])
             n  == Len(outbox[d]) + 2
             new == ReplaceRecord(cb.req.arrays, cb.req.poll, cb.req.index)
  <2>1. /\ CountFirst(d) => Counts(d, "first") /\ (outbox' = outbox \/ ListsStay(d))
        /\ CountSecond(d) => /\ Counts(d, "second") /\ Captured(u) = {cb.req.arrays}
                             /\ outbox' = outbox \/ ListQueued(d, n, new)
    BY <1>2, CountFirstMoves, CountSecondMoves
  <2>2. /\ users' = users /\ applied' = applied /\ Captured(u)' = {}
        /\ \A e \in Own(u) : e # d => outbox'[e] = outbox[e]
    BY <1>2, <1>8, <2>1 DEF Counts
  <2>3. PollsOf(cb.req.arrays) \subseteq PollsOf(new)
    BY PollsKept
  <2> HIDE DEF n, cb, new
  <2>4. ASSUME outbox' = outbox \/ ListsStay(d) PROVE Growing(u)'
    <3>1. \A e \in Own(u) : /\ PendingUser(e)' = PendingUser(e)
                            /\ \A k \in PendingUser(e) : outbox'[e][k] = outbox[e][k]
      BY <2>2, <2>4 DEF ListsStay, PendingUser
    <3> QED
      BY <1>1, <1>2, <2>2, <3>1, GrowingKept
  <2>5. ASSUME CountSecond(d), ListQueued(d, n, new) PROVE Growing(u)'
    BY <1>1, <1>2, <2>1, <2>2, <2>3, <2>5, GrowingAdded DEF ListQueued
  <2>6. Growing(u)'
    BY <1>8, <2>1, <2>4, <2>5
  <2> QED
    BY <2>2, <2>6 DEF u
<1>9. CASE Apply(d)
  BY <1>9, GrowingApplied
<1>10. CASE Acknowledge(d) \/ RejectWrite(d)
  <2>1. users' = users
    BY <1>10 DEF Acknowledge, RejectWrite
  <2> QED
    BY <1>10, <2>1, GrowingDropped
<1>11. CASE Resend(d)
  BY <1>11 DEF Resend, SentAgain
<1>12. CASE Refresh(d)
  <2>1. /\ outbox' = outbox /\ applied' = applied /\ users' = users
        /\ requests' = requests /\ mainQueue' = mainQueue
    BY <1>12 DEF Refresh
  <2>2. Captured(u)' = Captured(u)
    BY <1>1, <2>1, SameFlight DEF MyRequests
  <2> QED
    BY <1>4, <2>1, <2>2 DEF u
<1>13. ASSUME Crash(d) \/ \E r \in requests : FailRead(r) PROVE Growing(u)' /\ users' = users
  <2>1. /\ outbox' = outbox /\ users' = users /\ requests' \subseteq requests
        /\ \A e \in Own(u) : mainQueue'[e] = mainQueue[e] \/ mainQueue'[e] = <<>>
    BY <1>1, <1>13 DEF Crash, FailRead, TypeOK
  <2>2. applied' = applied
    <3>1. CASE Crash(d)
      <4>1. applied[d] = 0 /\ applied' = [applied EXCEPT ![d] = 0]
        BY <3>1 DEF Crash, SentAgain
      <4> QED
        BY <4>1 DEF TypeOK
    <3> QED
      BY <1>13, <3>1 DEF FailRead
  <2>3. MyRequests(u)' \subseteq MyRequests(u) /\ MyQueue(u)' \subseteq MyQueue(u)
    BY <1>1, <2>1 DEF MyRequests, MyQueue
  <2>4. Flight(u)' \subseteq Flight(u)
    BY <2>3 DEF Flight
  <2>5. Captured(u)' \subseteq Captured(u)
    BY <2>3, <2>4 DEF Captured
  <2> QED
    BY <1>4, <2>1, <2>2, <2>5
<1>14. ASSUME NEW r \in requests, r.dev = d,
              AnswerUser(r) \/ AnswerVote(r) \/ RecallUser(r) \/ RecallVote(r)
       PROVE  Growing(u)' /\ users' = users
  <2>1. PICK cb : Answers(d, r, cb)
    BY <1>14, AnswerMoves
  <2>2. /\ outbox' = outbox /\ applied' = applied /\ users' = users
        /\ \A list \in Captured(u)' : list \in Captured(u) \/ list = Standing(u)
    BY <1>2, <2>1 DEF Answers
  <2> QED
    BY <1>4, <2>2
<1> QED
  BY <1>5, <1>6, <1>7, <1>8, <1>9, <1>10, <1>11, <1>12, <1>13, <1>14 DEF By, u

LEMMA GrowingUntouched ==
  ASSUME NEW u \in Users, Untouched(u), Growing(u)
  PROVE  Growing(u)'
<1>1. \A d \in Own(u) : PendingUser(d)' = PendingUser(d)
  BY SameWrites DEF Untouched
<1>2. Captured(u)' = Captured(u)
  BY SameFlight DEF Untouched
<1>3. /\ \A d \in Own(u) : \A j, k \in PendingUser(d)' :
           j <= k => PollsOf(outbox'[d][j].list) \subseteq PollsOf(outbox'[d][k].list)
      /\ \A list \in Captured(u)' :
           /\ PollsOf(users'[u]) \subseteq PollsOf(list)
           /\ \A d \in Own(u) : \A k \in PendingUser(d)' :
                PollsOf(outbox'[d][k].list) \subseteq PollsOf(list)
  BY <1>1, <1>2 DEF Growing, Untouched
<1>4. \A d \in Own(u) : \A k \in PendingUser(d)' :
        (k > applied'[d] \/ \A j \in PendingUser(d)' : j <= k) =>
          PollsOf(users'[u]) \subseteq PollsOf(outbox'[d][k].list)
  BY <1>1 DEF Growing, Untouched
<1>5. Own(u)' = Own(u)
  BY DEF Own
<1> QED
  BY <1>3, <1>4, <1>5 DEF Growing, PollsOf

LEMMA ListsGrowStep ==
  ASSUME TypeOK, TypeOK', TapsSerial, TapsSerial', ListsGrow, Next
  PROVE  /\ ListsGrow'
         /\ \A u \in Users \ (overlapped' \cup replayed') : PollsOf(users[u]) \subseteq PollsOf(users'[u])
<1>1. AtHome /\ overlapped \subseteq overlapped' /\ replayed \subseteq replayed'
  BY HistoryGrows DEF TapsSerial
<1>2. ASSUME NEW u \in Users, u \notin overlapped', u \notin replayed'
      PROVE  Growing(u)' /\ PollsOf(users[u]) \subseteq PollsOf(users'[u])
  <2>1. OneTap(u) /\ OneTap(u)' /\ Growing(u)
    BY <1>1, <1>2 DEF TapsSerial, ListsGrow
  <2>2. ASSUME NEW p \in Polls, DeletePoll(p) PROVE Untouched(u)
    BY <2>2 DEF DeletePoll, Untouched, MyRequests, client, history
  <2>3. ASSUME NEW d \in Devices, By(d), u # Email[d] PROVE Untouched(u)
    BY <1>1, <2>3, StepsOfOthers
  <2>4. ASSUME NEW d \in Devices, By(d), u = Email[d]
        PROVE  Growing(u)' /\ PollsOf(users[u]) \subseteq PollsOf(users'[u])
    BY <1>1, <1>2, <2>1, <2>4, GrowingStep
  <2>5. ASSUME Untouched(u) PROVE Growing(u)' /\ PollsOf(users[u]) \subseteq PollsOf(users'[u])
    BY <2>1, <2>5, GrowingUntouched DEF Untouched
  <2> QED
    BY <2>2, <2>3, <2>4, <2>5, EveryStepIsBySomebody
<1> QED
  BY <1>2 DEF ListsGrow

\* Whatever the others do and whatever fails, no step takes a poll off the
\* list of a user whose taps did not overlap and whose writes were not sent
\* twice: the lists read, queued and applied only ever grow, in this order.
THEOREM RecordedVotesKeptHolds == Spec => RecordedVotesKept
<1> DEFINE GrowInv == TypeOK /\ TapsSerial /\ ListsGrow
<1>1. Init => GrowInv
  <2> SUFFICES ASSUME Init PROVE GrowInv
    OBVIOUS
  <2>1. TypeOK /\ TapsSerial
    BY RecordInit DEF RecordInv
  <2>2. requests = {} /\ \A d \in Devices : mainQueue[d] = <<>> /\ outbox[d] = <<>>
    BY DEF Init
  <2>3. \A d \in Devices : DOMAIN mainQueue[d] = {} /\ PendingUser(d) = {}
    BY <2>2 DEF PendingUser
  <2>4. ASSUME NEW u \in Users PROVE Growing(u)
    <3>1. MyRequests(u) = {} /\ MyQueue(u) = {}
      BY <2>2, <2>3 DEF MyRequests, MyQueue, Own
    <3>2. Captured(u) = {}
      BY <3>1 DEF Captured, Flight
    <3> QED
      BY <2>3, <3>2 DEF Growing, Own
  <2> QED
    BY <2>1, <2>4 DEF ListsGrow
<1>2. GrowInv /\ TypeOK' /\ [Next]_vars =>
        /\ GrowInv'
        /\ [\A u \in Users \ (overlapped' \cup replayed') :
              PollsOf(users[u]) \subseteq PollsOf(users'[u])]_vars
  <2> SUFFICES ASSUME GrowInv, TypeOK', [Next]_vars
               PROVE  /\ GrowInv'
                      /\ \/ \A u \in Users \ (overlapped' \cup replayed') :
                              PollsOf(users[u]) \subseteq PollsOf(users'[u])
                         \/ UNCHANGED vars
    OBVIOUS
  <2>1. CASE Next
    <3>1. TapsSerial'
      BY <2>1, TapsSerialStep
    <3> QED
      BY <2>1, <3>1, ListsGrowStep
  <2>2. CASE UNCHANGED vars
    <3>1. \A u \in Users : Untouched(u)
      BY <2>2 DEF vars, Untouched, MyRequests
    <3>2. ListsGrow'
      BY <2>2, <3>1, GrowingUntouched DEF vars, ListsGrow
    <3>3. TapsSerial'
      BY <2>2 DEF vars, TapsSerial, AtHome, OneTap, Own
    <3> QED
      BY <2>2, <3>2, <3>3
  <2> QED
    BY <2>1, <2>2
<1> QED
  BY <1>1, <1>2, TypeCorrect, PTL DEF Spec, RecordedVotesKept

-----------------------------------------------------------------------------
(* Tallies and lists *)

\* The taps on the poll that are under way.
On(p) == {r \in UNION {Flight(u) : u \in Users} : r.poll = p}

\* There is at most one, and only one device, that of the tap, has tallies of
\* the poll queued.
OnePoll(p) ==
    /\ \A r, s \in On(p) : r = s
    /\ \A r \in On(p), e \in Devices : e # r.dev => PendingVote(e, p) = {}
    /\ \A d, e \in Devices : d # e => PendingVote(d, p) = {} \/ PendingVote(e, p) = {}

\* The tally the poll will have when the queued writes are through.
Counting(p)       == {d \in Devices : PendingVote(d, p) # {}}
NewestTally(d, p) == outbox[d][Max(PendingVote(d, p))].tally
StandingTally(p)  == IF Counting(p) = {} THEN votes[p]
                     ELSE NewestTally(CHOOSE d \in Counting(p) : TRUE, p)

\* The last queued tally the backend went through is the poll's tally.
AppliedTally(p) ==
    \A d \in Devices : \A k \in PendingVote(d, p) :
      k <= applied[d] /\ (\A j \in PendingVote(d, p) : j <= applied[d] => j <= k) =>
        votes[p] = outbox[d][k].tally

Supporters(p, v) == {u \in Users : NewRecord(p, v) \in Standing(u)}

\* voteFirst has written the record and not yet counted it.
Uncounted(p, v) == \E r \in On(p) : r.kind = "first" /\ r.index = v

TallyRead(p) ==
    \A u \in Users : \A cb \in MyQueue(u) :
      cb.req.kind \in {"first", "second"} /\ cb.req.poll = p => cb.tally = StandingTally(p)

Counted(p) ==
    \A v \in Variants :
      StandingTally(p)[v] = Cardinality(Supporters(p, v)) - (IF Uncounted(p, v) THEN 1 ELSE 0)

Balanced(p) == AppliedTally(p) /\ TallyRead(p) /\ Counted(p)
Exact(p)    == votes[p] # Absent => Balanced(p)

\* What voteSecond takes for the variant voted for before, is.
Recorded(u) ==
    \A r \in Flight(u) : r.kind = "second" => NewRecord(r.poll, r.extra) \in r.arrays

TalliesMatch ==
    overlapped = {} /\ faulty = {} =>
      /\ \A u \in Users : Recorded(u)
      /\ \A p \in Polls \ contended : OnePoll(p)
      /\ \A p \in Polls \ (contended \cup skewed) : Exact(p)

\* The tallies queued move up when the oldest write leaves.
LEMMA VotesDropped ==
  ASSUME TypeOK, NEW d \in Devices, outbox[d] # <<>>, outbox'[d] = Tail(outbox[d]), NEW p \in Polls
  PROVE  /\ \A k \in PendingVote(d, p)' : /\ k \in Nat /\ k + 1 \in PendingVote(d, p)
                                          /\ outbox'[d][k] = outbox[d][k + 1]
         /\ \A k \in PendingVote(d, p) : k = 1 \/ (k \in Nat /\ k - 1 \in PendingVote(d, p)')
         /\ \A k \in PendingVote(d, p) : k \in Nat /\ 1 <= k
<1>1. outbox[d] \in Seq(Write)
  BY DEF TypeOK
<1>2. /\ \A k \in DOMAIN outbox'[d] : /\ k \in Nat /\ k + 1 \in DOMAIN outbox[d]
                                      /\ outbox'[d][k] = outbox[d][k + 1]
      /\ \A k \in DOMAIN outbox[d] : k = 1 \/ (k \in Nat /\ k - 1 \in DOMAIN outbox'[d])
  BY <1>1, TailAt
<1>3. \A k \in DOMAIN outbox[d] : k \in Nat /\ 1 <= k
  BY <1>1
<1>4. \A k \in PendingVote(d, p)' : /\ k \in Nat /\ k + 1 \in PendingVote(d, p)
                                    /\ outbox'[d][k] = outbox[d][k + 1]
  BY <1>2 DEF PendingVote
<1>5. ASSUME NEW k \in PendingVote(d, p), k # 1 PROVE k \in Nat /\ k - 1 \in PendingVote(d, p)'
  <2>1. k \in Nat /\ k - 1 \in DOMAIN outbox'[d] /\ (k - 1) + 1 = k
    BY <1>2, <1>5 DEF PendingVote
  <2>2. outbox'[d][k - 1] = outbox[d][k]
    BY <1>2, <2>1
  <2> QED
    BY <2>1, <2>2 DEF PendingVote
<1>6. \A k \in PendingVote(d, p) : k \in Nat /\ 1 <= k
  BY <1>3 DEF PendingVote
<1> QED
  BY <1>4, <1>5, <1>6

\* What one tap at a time on the poll says of its tallies.
TallyFacts ==
    \A p \in Polls : OnePoll(p) =>
      /\ (\A d \in Devices : PendingVote(d, p) = {}) => StandingTally(p) = votes[p]
      /\ \A d \in Devices : \A k \in PendingVote(d, p) :
           (\A j \in PendingVote(d, p) : j <= k) => StandingTally(p) = outbox[d][k].tally
      /\ \A d \in Devices : PendingVote(d, p) # {} =>
           \E k \in PendingVote(d, p) : \A j \in PendingVote(d, p) : j <= k
      /\ \A d \in Devices : votes[p] # Absent /\ (\A e \in Devices : e # d => PendingVote(e, p) = {}) =>
           LocalVote(d, p, votes[p]) = StandingTally(p)
      /\ votes[p] # Absent => StandingTally(p) \in Tally

LEMMA TallyFactsHold == TypeOK => TallyFacts
<1> SUFFICES ASSUME TypeOK, NEW p \in Polls, OnePoll(p)
             PROVE  /\ (\A d \in Devices : PendingVote(d, p) = {}) => StandingTally(p) = votes[p]
                    /\ \A d \in Devices : \A k \in PendingVote(d, p) :
                         (\A j \in PendingVote(d, p) : j <= k) => StandingTally(p) = outbox[d][k].tally
                    /\ \A d \in Devices : PendingVote(d, p) # {} =>
                         \E k \in PendingVote(d, p) : \A j \in PendingVote(d, p) : j <= k
                    /\ \A d \in Devices :
                         votes[p] # Absent /\ (\A e \in Devices : e # d => PendingVote(e, p) = {}) =>
                           LocalVote(d, p, votes[p]) = StandingTally(p)
                    /\ votes[p] # Absent => StandingTally(p) \in Tally
  BY DEF TallyFacts
<1>1. \A d \in Devices : /\ Len(outbox[d]) \in Nat
                         /\ PendingVote(d, p) \in SUBSET (1..Len(outbox[d]))
                         /\ \A k \in PendingVote(d, p) : outbox[d][k].tally \in Tally
  <2> SUFFICES ASSUME NEW d \in Devices
               PROVE  /\ Len(outbox[d]) \in Nat /\ PendingVote(d, p) \in SUBSET (1..Len(outbox[d]))
                      /\ \A k \in PendingVote(d, p) : outbox[d][k].tally \in Tally
    OBVIOUS
  <2>1. outbox[d] \in Seq(Write)
    BY DEF TypeOK
  <2>2. \A k \in DOMAIN outbox[d] : outbox[d][k] \in Write
    BY <2>1
  <2>3. \A k \in PendingVote(d, p) : outbox[d][k].tally \in Tally
    BY <2>2 DEF PendingVote, Write, UserWrite, VoteWrite
  <2> QED
    BY <2>1, <2>3 DEF PendingVote
<1>2. (\A d \in Devices : PendingVote(d, p) = {}) => StandingTally(p) = votes[p]
  BY DEF StandingTally, Counting
<1>3. ASSUME NEW d \in Devices, NEW k \in PendingVote(d, p), \A j \in PendingVote(d, p) : j <= k
      PROVE  StandingTally(p) = outbox[d][k].tally
  <2>1. \A e \in Devices : e # d => PendingVote(e, p) = {}
    BY <1>3 DEF OnePoll
  <2>2. Counting(p) = {d}
    BY <1>3, <2>1 DEF Counting
  <2>3. Max(PendingVote(d, p)) = k
    BY <1>1, <1>3, MaxIs
  <2> QED
    BY <2>2, <2>3 DEF StandingTally, NewestTally
<1>4. \A d \in Devices : PendingVote(d, p) # {} =>
        \E k \in PendingVote(d, p) : \A j \in PendingVote(d, p) : j <= k
  BY <1>1, LastExists
<1>5. ASSUME NEW d \in Devices, votes[p] # Absent, \A e \in Devices : e # d => PendingVote(e, p) = {}
      PROVE  LocalVote(d, p, votes[p]) = StandingTally(p)
  <2>1. CASE PendingVote(d, p) = {}
    BY <1>2, <1>5, <2>1 DEF LocalVote
  <2>2. CASE PendingVote(d, p) # {}
    <3>1. PICK k \in PendingVote(d, p) : \A j \in PendingVote(d, p) : j <= k
      BY <1>4, <2>2
    <3>2. Max(PendingVote(d, p)) = k
      BY <1>1, <3>1, MaxIs
    <3> QED
      BY <1>3, <1>5, <2>2, <3>1, <3>2 DEF LocalVote
  <2> QED
    BY <2>1, <2>2
<1>6. ASSUME votes[p] # Absent PROVE StandingTally(p) \in Tally
  <2>1. CASE \A d \in Devices : PendingVote(d, p) = {}
    BY <1>2, <1>6, <2>1 DEF TypeOK
  <2>2. ASSUME NEW d \in Devices, PendingVote(d, p) # {} PROVE StandingTally(p) \in Tally
    <3>1. PICK k \in PendingVote(d, p) : \A j \in PendingVote(d, p) : j <= k
      BY <1>4, <2>2
    <3> QED
      BY <1>1, <1>3, <3>1
  <2> QED
    BY <2>1, <2>2
<1> QED
  BY <1>2, <1>3, <1>4, <1>5, <1>6

LEMMA TallyFactsNext == TypeOK' => TallyFacts'
BY TallyFactsHold, PTL

\* A tally queued behind the others is the one that stands.
LEMMA TallyAdded ==
  ASSUME TypeOK, TypeOK', NEW p \in Polls, OnePoll(p)', AppliedTally(p),
         NEW d \in Devices, NEW n, NEW tally, TallyQueued(d, p, n, tally),
         applied'[d] = applied[d], votes'[p] = votes[p]
  PROVE  StandingTally(p)' = tally /\ AppliedTally(p)'
<1> USE DEF TallyQueued
<1>1. TallyFacts'
  BY TallyFactsNext
<1>2. n \in PendingVote(d, p)' /\ \A j \in PendingVote(d, p)' : j <= n
  OBVIOUS
<1>3. StandingTally(p)' = tally
  BY <1>1, <1>2 DEF TallyFacts
<1>4. \A e \in Devices : e # d => PendingVote(e, p)' = {}
  BY <1>2 DEF OnePoll
<1>5. ASSUME NEW k \in PendingVote(d, p)', k <= applied'[d],
             \A j \in PendingVote(d, p)' : j <= applied'[d] => j <= k
      PROVE  votes'[p] = outbox'[d][k].tally
  <2>1. applied[d] \in Nat
    BY DEF TypeOK
  <2>2. k \in PendingVote(d, p)
    BY <1>5, <2>1
  <2> QED
    BY <1>5, <2>2 DEF AppliedTally
<1>6. AppliedTally(p)'
  BY <1>4, <1>5 DEF AppliedTally
<1> QED
  BY <1>3, <1>6

\* Nothing about the tallies of the poll changes.
LEMMA TalliesKept ==
  ASSUME TypeOK, TypeOK', NEW p \in Polls, OnePoll(p), OnePoll(p)',
         \A d \in Devices : TalliesStay(d, p),
         votes'[p] = votes[p] \/ \E d \in Devices : PendingVote(d, p) # {}
  PROVE  /\ StandingTally(p)' = StandingTally(p)
         /\ votes'[p] = votes[p] /\ (\A d \in Devices : applied'[d] = applied[d]) =>
              (AppliedTally(p) => AppliedTally(p)')
<1> USE DEF TalliesStay
<1>1. TallyFacts /\ TallyFacts'
  BY TallyFactsHold, TallyFactsNext
<1>2. ASSUME \A d \in Devices : PendingVote(d, p) = {} PROVE StandingTally(p)' = StandingTally(p)
  BY <1>1, <1>2 DEF TallyFacts
<1>3. ASSUME NEW d \in Devices, PendingVote(d, p) # {} PROVE StandingTally(p)' = StandingTally(p)
  <2>1. PICK k \in PendingVote(d, p) : \A j \in PendingVote(d, p) : j <= k
    BY <1>1, <1>3 DEF TallyFacts
  <2>2. StandingTally(p) = outbox[d][k].tally
    BY <1>1, <2>1 DEF TallyFacts
  <2>3. k \in PendingVote(d, p)' /\ \A j \in PendingVote(d, p)' : j <= k
    BY <2>1
  <2>4. StandingTally(p)' = outbox'[d][k].tally
    BY <1>1, <2>3 DEF TallyFacts
  <2> QED
    BY <2>1, <2>2, <2>4
<1>4. votes'[p] = votes[p] /\ (\A d \in Devices : applied'[d] = applied[d]) =>
        (AppliedTally(p) => AppliedTally(p)')
  BY DEF AppliedTally
<1>5. StandingTally(p)' = StandingTally(p)
  BY <1>2, <1>3
<1> QED
  BY <1>4, <1>5

\* The backend goes through a write of the device.
LEMMA TalliesApplied ==
  ASSUME TypeOK, TypeOK', NEW d \in Devices, Apply(d), NEW p \in Polls, OnePoll(p), OnePoll(p)',
         AppliedTally(p), votes[p] # Absent
  PROVE  StandingTally(p)' = StandingTally(p) /\ AppliedTally(p)'
<1>1. /\ outbox[d] \in Seq(Write) /\ applied[d] \in Nat /\ DOMAIN votes = Polls
      /\ applied \in [Devices -> Nat]
  BY DEF TypeOK
<1> DEFINE n == applied[d] + 1
<1>2. applied[d] < Len(outbox[d]) /\ outbox' = outbox /\ applied' = [applied EXCEPT ![d] = n]
  BY DEF Apply
<1>3. n \in DOMAIN outbox[d] /\ n \in Nat /\ applied'[d] = n
  BY <1>1, <1>2
<1>4. \A e \in Devices : e # d => applied'[e] = applied[e]
  BY <1>1, <1>2
<1>5. \/ outbox[d][n].to = "vote" /\ outbox[d][n].poll = p /\ votes'[p] = outbox[d][n].tally
      \/ votes'[p] = votes[p] /\ ~ (outbox[d][n].to = "vote" /\ outbox[d][n].poll = p)
  BY <1>1 DEF Apply, UpdateData
<1>6. \A k \in PendingVote(d, p) : k \in Nat /\ (k <= n => k <= applied[d] \/ k = n)
  BY <1>1 DEF PendingVote
<1> HIDE DEF n
<1>7. \A e \in Devices : TalliesStay(e, p)
  BY <1>2 DEF TalliesStay, PendingVote
<1>8. \/ n \in PendingVote(d, p) /\ votes'[p] = outbox[d][n].tally
      \/ n \notin PendingVote(d, p) /\ votes'[p] = votes[p]
  BY <1>3, <1>5 DEF PendingVote
<1>9. StandingTally(p)' = StandingTally(p)
  BY <1>7, <1>8, TalliesKept
<1>10. ASSUME NEW k \in PendingVote(d, p), k <= n, \A j \in PendingVote(d, p) : j <= n => j <= k
       PROVE  votes'[p] = outbox[d][k].tally
  <2>1. CASE n \in PendingVote(d, p)
    <3>1. k = n
      <4>1. n \in Nat /\ k \in Nat /\ n <= n
        BY <1>3, <1>6
      <4>2. n <= k /\ k <= n
        BY <1>10, <2>1, <4>1
      <4> QED
        BY <4>1, <4>2
    <3> QED
      BY <1>8, <2>1, <3>1
  <2>2. CASE n \notin PendingVote(d, p)
    <3>1. k <= applied[d]
      BY <1>6, <1>10, <2>2
    <3>2. \A j \in PendingVote(d, p) : j <= applied[d] => j <= k
      <4>1. \A j \in PendingVote(d, p) : j <= applied[d] => j <= n
        BY <1>1, <1>6 DEF n
      <4> QED
        BY <1>10, <4>1
    <3> QED
      BY <1>8, <2>2, <3>1, <3>2 DEF AppliedTally
  <2> QED
    BY <2>1, <2>2
<1>11. ASSUME n \in PendingVote(d, p) PROVE \A e \in Devices : e # d => PendingVote(e, p) = {}
  BY <1>11 DEF OnePoll
<1>12. ASSUME NEW e \in Devices, e # d, NEW k \in PendingVote(e, p), k <= applied[e],
              \A j \in PendingVote(e, p) : j <= applied[e] => j <= k
       PROVE  votes'[p] = outbox[e][k].tally
  <2>1. votes'[p] = votes[p]
    BY <1>8, <1>11, <1>12
  <2> QED
    BY <1>12, <2>1 DEF AppliedTally
<1>13. \A e \in Devices : PendingVote(e, p)' = PendingVote(e, p)
  BY <1>7 DEF TalliesStay
<1>14. AppliedTally(p)'
  BY <1>2, <1>3, <1>4, <1>10, <1>12, <1>13 DEF AppliedTally
<1> QED
  BY <1>9, <1>14

\* The oldest write of the device is through and leaves.
LEMMA TalliesAcknowledged ==
  ASSUME TypeOK, TypeOK', NEW d \in Devices, Acknowledge(d), NEW p \in Polls, OnePoll(p),
         OnePoll(p)', AppliedTally(p)
  PROVE  /\ StandingTally(p)' = StandingTally(p) /\ AppliedTally(p)'
<1>1. outbox \in [Devices -> Seq(Write)] /\ applied \in [Devices -> Nat]
  BY DEF TypeOK
<1>2. /\ outbox'[d] = Tail(outbox[d]) /\ applied'[d] = applied[d] - 1 /\ applied[d] > 0
      /\ applied[d] \in Nat /\ votes' = votes
      /\ \A e \in Devices : e # d => outbox'[e] = outbox[e] /\ applied'[e] = applied[e]
  BY <1>1 DEF Acknowledge, database
<1>3. outbox[d] # <<>> /\ outbox[d] \in Seq(Write)
  BY <1>1, <1>2, QueuedWrites
<1>4. /\ \A k \in PendingVote(d, p)' : /\ k \in Nat /\ k + 1 \in PendingVote(d, p)
                                       /\ outbox'[d][k] = outbox[d][k + 1]
      /\ \A k \in PendingVote(d, p) : k = 1 \/ (k \in Nat /\ k - 1 \in PendingVote(d, p)')
      /\ \A k \in PendingVote(d, p) : k \in Nat /\ 1 <= k
  BY <1>2, <1>3, VotesDropped
<1>5. \A e \in Devices : e # d => PendingVote(e, p)' = PendingVote(e, p)
  BY <1>2 DEF PendingVote
<1>6. TallyFacts /\ TallyFacts'
  BY TallyFactsHold, TallyFactsNext
<1>7. ASSUME NEW k \in PendingVote(d, p)', k <= applied'[d],
             \A j \in PendingVote(d, p)' : j <= applied'[d] => j <= k
      PROVE  votes[p] = outbox'[d][k].tally
  <2>1. k \in Nat /\ k + 1 \in PendingVote(d, p) /\ outbox'[d][k] = outbox[d][k + 1]
    BY <1>4
  <2>2. k + 1 <= applied[d]
    BY <1>2, <1>7, <2>1
  <2>3. \A j \in PendingVote(d, p) : j <= applied[d] => j <= k + 1
    BY <1>2, <1>4, <1>7, <2>1
  <2> QED
    BY <2>1, <2>2, <2>3 DEF AppliedTally
<1>8. AppliedTally(p)'
  BY <1>2, <1>5, <1>7, ZenonT(60) DEF AppliedTally
<1>9. CASE PendingVote(d, p) = {}
  <2>1. PendingVote(d, p)' = {}
    BY <1>4, <1>9
  <2>2. \A e \in Devices : TalliesStay(e, p)
    BY <1>2, <1>5, <1>9, <2>1 DEF TalliesStay
  <2> QED
    BY <1>2, <1>8, <2>2, TalliesKept
<1>10. CASE PendingVote(d, p) # {}
  <2>1. \A e \in Devices : e # d => PendingVote(e, p) = {} /\ PendingVote(e, p)' = {}
    BY <1>5, <1>10 DEF OnePoll
  <2>2. CASE PendingVote(d, p)' = {}
    <3>1. 1 \in PendingVote(d, p) /\ \A j \in PendingVote(d, p) : j = 1
      BY <1>4, <1>10, <2>2
    <3>2. StandingTally(p) = outbox[d][1].tally
      BY <1>6, <3>1 DEF TallyFacts
    <3>3. votes[p] = outbox[d][1].tally
      BY <1>2, <3>1 DEF AppliedTally
    <3>4. StandingTally(p)' = votes[p]
      BY <1>2, <1>6, <2>1, <2>2 DEF TallyFacts
    <3> QED
      BY <1>8, <3>2, <3>3, <3>4
  <2>3. CASE PendingVote(d, p)' # {}
    <3>1. PICK k \in PendingVote(d, p)' : \A j \in PendingVote(d, p)' : j <= k
      BY <1>6, <2>3 DEF TallyFacts
    <3>2. StandingTally(p)' = outbox'[d][k].tally
      BY <1>6, <3>1 DEF TallyFacts
    <3>3. k + 1 \in PendingVote(d, p) /\ \A j \in PendingVote(d, p) : j <= k + 1
      BY <1>4, <3>1
    <3>4. StandingTally(p) = outbox[d][k + 1].tally
      BY <1>6, <3>3 DEF TallyFacts
    <3> QED
      BY <1>4, <1>8, <3>1, <3>2, <3>4
  <2> QED
    BY <2>2, <2>3
<1> QED
  BY <1>9, <1>10

-----------------------------------------------------------------------------
(* One tap at a time on a poll *)

\* The taps of everybody else.
Elsewhere(u) == UNION {Flight(x) : x \in Users \ {u}}

\* A step of the device's leaves everybody else alone.
LEMMA OthersStay ==
  ASSUME TypeOK, AtHome, NEW d \in Devices, By(d)
  PROVE  LET u == Email[d] IN
         /\ Elsewhere(u)' = Elsewhere(u)
         /\ \A r \in Elsewhere(u) : r.dev # d
         /\ \A p : On(p) = {r \in Flight(u) \cup Elsewhere(u) : r.poll = p}
         /\ \A p : On(p)' = {r \in Flight(u)' \cup Elsewhere(u) : r.poll = p}
         /\ \A x \in Users : x # u => /\ Flight(x)' = Flight(x) /\ MyQueue(x)' = MyQueue(x)
                                      /\ Standing(x)' = Standing(x)
         /\ \A e \in Devices : e # d => outbox'[e] = outbox[e] /\ applied'[e] = applied[e]
<1> DEFINE u == Email[d]
<1>1. u \in Users
  BY EmailAssumption
<1>2. ASSUME NEW x \in Users, x # u
      PROVE  Flight(x)' = Flight(x) /\ MyQueue(x)' = MyQueue(x) /\ Standing(x)' = Standing(x)
  <2>1. Untouched(x)
    BY <1>2, StepsOfOthers
  <2>2. Flight(x)' = Flight(x) /\ MyQueue(x)' = MyQueue(x)
    BY <1>2, <2>1, SameFlight DEF Untouched
  <2>3. Standing(x)' = Standing(x)
    BY <1>2, <2>1, SameWrites DEF Untouched
  <2> QED
    BY <2>2, <2>3
<1>3. \A x \in Users : \A r \in Flight(x) : Email[r.dev] = x
  BY FlightOfUser
<1> HIDE DEF u
<1>4. \A r \in Elsewhere(u) : r.dev # d
  BY <1>3 DEF Elsewhere, u
<1>5. Elsewhere(u)' = Elsewhere(u)
  BY <1>2 DEF Elsewhere
<1>6. \A p : On(p) = {r \in Flight(u) \cup Elsewhere(u) : r.poll = p}
  BY <1>1 DEF On, Elsewhere
<1>7. \A p : On(p)' = {r \in Flight(u)' \cup Elsewhere(u) : r.poll = p}
  BY <1>1, <1>2 DEF On, Elsewhere
<1>8. \A e \in Devices : e # d => outbox'[e] = outbox[e] /\ applied'[e] = applied[e]
  BY DEF By, TabOnCell, AnswerUser, AnswerVote, RecallUser, RecallVote, FailRead, VoteFirst,
         VoteSecond, CountFirst, CountSecond, Apply, Acknowledge, Resend, RejectWrite, Refresh,
         Crash, SentAgain, sending, TypeOK
<1> QED
  BY <1>2, <1>4, <1>5, <1>6, <1>7, <1>8 DEF u

\* No new tap on the poll, and no tallies of it on further devices.
LEMMA OnePollKept ==
  ASSUME NEW p \in Polls, OnePoll(p), On(p)' \subseteq On(p),
         \A e \in Devices : PendingVote(e, p) = {} => PendingVote(e, p)' = {}
  PROVE  OnePoll(p)'
BY DEF OnePoll

LEMMA OnePollStep ==
  ASSUME TypeOK, TypeOK', AtHome, NEW d \in Devices, By(d), OneTap(Email[d]), OneTap(Email[d])',
         Email[d] \notin overlapped', Email[d] \notin faulty',
         NEW p \in Polls, OnePoll(p), p \notin contended'
  PROVE  OnePoll(p)'
<1> DEFINE u == Email[d]
<1>1. u \in Users
  BY EmailAssumption
<1>2. /\ \A r \in Elsewhere(u) : r.dev # d
      /\ On(p) = {r \in Flight(u) \cup Elsewhere(u) : r.poll = p}
      /\ On(p)' = {r \in Flight(u)' \cup Elsewhere(u) : r.poll = p}
      /\ \A e \in Devices : e # d => outbox'[e] = outbox[e]
  BY OthersStay
<1> HIDE DEF u
<1>3. \A e \in Devices : outbox'[e] = outbox[e] => PendingVote(e, p)' = PendingVote(e, p)
  BY DEF PendingVote
<1>4. ASSUME PendingVote(d, p) = {} => PendingVote(d, p)' = {}, Flight(u)' \subseteq Flight(u)
      PROVE  OnePoll(p)'
  BY <1>2, <1>3, <1>4, OnePollKept
<1>5. ASSUME NEW q \in Polls, NEW i \in Variants, TabOnCell(d, q, i) PROVE OnePoll(p)'
  <2>1. PICK r : Asks(d, q, i, r)
    BY <1>5, AskMoves
  <2>2. /\ Flight(u)' = {r} /\ r.dev = d /\ r.poll = q /\ outbox' = outbox
    BY <2>1 DEF Asks, u
  <2>3. \A e \in Devices : PendingVote(e, p)' = PendingVote(e, p)
    BY <1>3, <2>2
  <2>4. CASE q # p
    <3>1. On(p)' \subseteq On(p)
      BY <1>2, <2>2, <2>4
    <3> QED
      BY <2>3, <3>1, OnePollKept
  <2>5. CASE q = p
    <3>1. ~PollBusy(d, p)
      BY <1>5, <2>5 DEF TabOnCell
    <3>2. On(p) = {}
      <4>1. \A x \in Users : Flight(x) \subseteq InFlight
        BY FlightOfUser
      <4> QED
        BY <3>1, <4>1 DEF PollBusy, On
    <3>3. On(p)' \subseteq {r}
      BY <1>2, <2>2, <3>2
    <3>4. \A e \in Devices : e # d => PendingVote(e, p) = {}
      BY <3>1 DEF PollBusy
    <3> QED
      BY <2>2, <2>3, <3>3, <3>4 DEF OnePoll
  <2> QED
    BY <2>4, <2>5
<1>6. ASSUME VoteFirst(d) \/ VoteSecond(d) PROVE OnePoll(p)'
  <2> DEFINE cb == Head(mainQueue[d])
  <2>1. PICK r, kind : Follows(d, kind, r)
    BY <1>6, FirstMoves, SecondMoves
  <2>2. PendingVote(d, p)' = PendingVote(d, p)
    BY <1>3, <1>6, FirstMoves, SecondMoves DEF TalliesStay
  <2>3. /\ Flight(u) = {cb.req} /\ Flight(u)' = {r} /\ r.dev = d /\ r.poll = cb.req.poll
        /\ cb.req.dev = d
    BY <2>1 DEF Follows, u
  <2> HIDE DEF cb
  <2>4. \A e \in Devices : PendingVote(e, p)' = PendingVote(e, p)
    BY <1>2, <1>3, <2>2
  <2>5. CASE r.poll # p
    <3>1. On(p)' \subseteq On(p)
      BY <1>2, <2>3, <2>5
    <3> QED
      BY <2>4, <3>1, OnePollKept
  <2>6. CASE r.poll = p
    <3>1. cb.req \in On(p)
      BY <1>2, <2>3, <2>6
    <3>2. \A s \in Elsewhere(u) : s.poll # p
      BY <1>2, <2>3, <3>1 DEF OnePoll
    <3>3. On(p)' \subseteq {r}
      BY <1>2, <2>3, <3>2
    <3> QED
      BY <2>3, <2>4, <3>1, <3>3 DEF OnePoll
  <2> QED
    BY <2>5, <2>6
<1>7. ASSUME CountFirst(d) \/ CountSecond(d) PROVE OnePoll(p)'
  <2> DEFINE cb == Head(mainQueue[d])
  <2>1. \E kind : Counts(d, kind)
    BY <1>7, CountFirstMoves, CountSecondMoves
  <2>2. Flight(u) = {cb.req} /\ Flight(u)' = {} /\ cb.req.dev = d
    BY <2>1 DEF Counts, u
  <2>3. cb.req.poll # p => PendingVote(d, p)' = PendingVote(d, p)
    BY <1>3, <1>7, CountFirstMoves, CountSecondMoves DEF TalliesStay, OneTallyQueued
  <2> HIDE DEF cb
  <2>4. CASE cb.req.poll # p
    BY <1>4, <2>2, <2>3, <2>4
  <2>5. CASE cb.req.poll = p
    <3>1. cb.req \in On(p)
      BY <1>2, <2>2, <2>5
    <3>2. \A e \in Devices : e # d => PendingVote(e, p) = {} /\ PendingVote(e, p)' = {}
      BY <1>2, <1>3, <2>2, <3>1 DEF OnePoll
    <3>3. \A s \in Elsewhere(u) : s.poll # p
      BY <1>2, <2>2, <3>1 DEF OnePoll
    <3>4. On(p)' = {}
      BY <1>2, <2>2, <3>3
    <3> QED
      BY <3>2, <3>4 DEF OnePoll
  <2> QED
    BY <2>4, <2>5
<1>8. ASSUME Apply(d) \/ Acknowledge(d) \/ Resend(d) \/ Refresh(d) PROVE OnePoll(p)'
  <2>1. requests' = requests /\ mainQueue' = mainQueue
    BY <1>8 DEF Apply, Acknowledge, Resend, Refresh
  <2>2. Flight(u)' = Flight(u)
    BY <1>1, <2>1, SameFlight DEF MyRequests
  <2>3. PendingVote(d, p) = {} => PendingVote(d, p)' = {}
    <3>1. CASE outbox' = outbox
      BY <1>3, <3>1
    <3>2. CASE Acknowledge(d)
      <4>1. outbox \in [Devices -> Seq(Write)] /\ applied[d] > 0 /\ outbox'[d] = Tail(outbox[d])
        BY <3>2 DEF Acknowledge, TypeOK
      <4>2. outbox[d] # <<>>
        BY <4>1, QueuedWrites
      <4> QED
        BY <4>1, <4>2, VotesDropped
    <3> QED
      BY <1>8, <3>1, <3>2 DEF Apply, Resend, Refresh, sending
  <2> QED
    BY <1>4, <2>2, <2>3
<1>9. ASSUME RejectWrite(d) \/ Crash(d) \/ \E r \in requests : r.dev = d /\ FailRead(r) PROVE FALSE
  BY <1>9 DEF RejectWrite, Crash, FailRead
<1>10. ASSUME NEW r \in requests, r.dev = d,
              AnswerUser(r) \/ AnswerVote(r) \/ RecallUser(r) \/ RecallVote(r)
       PROVE  OnePoll(p)'
  <2>1. PICK cb : Answers(d, r, cb)
    BY <1>10, AnswerMoves
  <2>2. Flight(u)' = Flight(u) /\ outbox' = outbox
    BY <2>1 DEF Answers, u
  <2> QED
    BY <1>3, <1>4, <2>2
<1> QED
  BY <1>5, <1>6, <1>7, <1>8, <1>9, <1>10 DEF By

LEMMA RecordedStep ==
  ASSUME TypeOK, TypeOK', AtHome, NEW d \in Devices, By(d), OneTap(Email[d]), OneTap(Email[d])',
         Email[d] \notin overlapped', Email[d] \notin faulty', Recorded(Email[d])
  PROVE  Recorded(Email[d])'
<1> DEFINE u == Email[d]
<1>1. u \in Users
  BY EmailAssumption
<1> HIDE DEF u
<1>2. Recorded(u) /\ u = Email[d]
  BY DEF u
<1>3. ASSUME Flight(u)' \subseteq Flight(u) PROVE Recorded(u)'
  BY <1>2, <1>3 DEF Recorded
<1>4. ASSUME NEW q \in Polls, NEW i \in Variants, TabOnCell(d, q, i) PROVE Recorded(u)'
  <2>1. PICK r : Asks(d, q, i, r)
    BY <1>4, AskMoves
  <2> QED
    BY <1>2, <2>1 DEF Asks, Recorded
<1>5. CASE VoteFirst(d)
  <2>1. PICK r : Follows(d, "first", r)
    BY <1>5, FirstMoves
  <2> QED
    BY <1>2, <2>1 DEF Follows, Recorded
<1>6. CASE VoteSecond(d)
  <2>1. PICK r : Follows(d, "second", r) /\ NewRecord(r.poll, r.extra) \in r.arrays
    BY <1>6, SecondMoves
  <2> QED
    BY <1>2, <2>1 DEF Follows, Recorded
<1>7. ASSUME CountFirst(d) \/ CountSecond(d) PROVE Recorded(u)'
  <2>1. \E kind : Counts(d, kind)
    BY <1>7, CountFirstMoves, CountSecondMoves
  <2> QED
    BY <1>2, <1>3, <2>1 DEF Counts
<1>8. ASSUME Apply(d) \/ Acknowledge(d) \/ Resend(d) \/ Refresh(d) PROVE Recorded(u)'
  <2>1. requests' = requests /\ mainQueue' = mainQueue
    BY <1>8 DEF Apply, Acknowledge, Resend, Refresh
  <2>2. Flight(u)' = Flight(u)
    BY <1>1, <2>1, SameFlight DEF MyRequests
  <2> QED
    BY <1>3, <2>2
<1>9. ASSUME RejectWrite(d) \/ Crash(d) \/ \E r \in requests : r.dev = d /\ FailRead(r) PROVE FALSE
  BY <1>9 DEF RejectWrite, Crash, FailRead
<1>10. ASSUME NEW r \in requests, r.dev = d,
              AnswerUser(r) \/ AnswerVote(r) \/ RecallUser(r) \/ RecallVote(r)
       PROVE  Recorded(u)'
  <2>1. PICK cb : Answers(d, r, cb)
    BY <1>10, AnswerMoves
  <2> QED
    BY <1>2, <1>3, <2>1 DEF Answers
<1> QED
  BY <1>2, <1>4, <1>5, <1>6, <1>7, <1>8, <1>9, <1>10 DEF By

-----------------------------------------------------------------------------
(* Every step keeps the tallies matching the lists *)

\* The user's tap on the poll has written its record and not been counted.
Awaiting(u, p, v) == \E r \in Flight(u) : r.poll = p /\ r.kind = "first" /\ r.index = v

LEMMA UncountedIs ==
  ASSUME NEW p, NEW v
  PROVE  /\ Uncounted(p, v) <=> \E u \in Users : Awaiting(u, p, v)
         /\ Uncounted(p, v)' <=> \E u \in Users : Awaiting(u, p, v)'
BY DEF Uncounted, Awaiting, On

LEMMA AmongRecords ==
  ASSUME NEW list, NEW p, NEW v
  PROVE  NewRecord(p, v) \in list <=> NewRecord(p, v) \in RecordsOf(list, p)
BY DEF RecordsOf, NewRecord

LEMMA TalliesElsewhere ==
  ASSUME TypeOK, AtHome, NEW d \in Devices, By(d), NEW p
  PROVE  \A e \in Devices : e # d => TalliesStay(e, p)
<1>1. \A e \in Devices : e # d => outbox'[e] = outbox[e]
  BY OthersStay
<1> QED
  BY <1>1 DEF TalliesStay, PendingVote

\* The step changes neither the poll's tally nor anybody's record of the poll.
LEMMA BalancedKept ==
  ASSUME TypeOK, AtHome, NEW d \in Devices, By(d), NEW p \in Polls, Balanced(p),
         StandingTally(p)' = StandingTally(p), AppliedTally(p)',
         RecordsOf(Standing(Email[d])', p) = RecordsOf(Standing(Email[d]), p),
         \A cb \in MyQueue(Email[d])' :
           cb.req.kind \in {"first", "second"} /\ cb.req.poll = p =>
             cb \in MyQueue(Email[d]) \/ cb.tally = StandingTally(p),
         \A v \in Variants : Awaiting(Email[d], p, v)' <=> Awaiting(Email[d], p, v)
  PROVE  Balanced(p)'
<1> DEFINE u == Email[d]
<1>1. \A x \in Users : x # u => /\ Flight(x)' = Flight(x) /\ MyQueue(x)' = MyQueue(x)
                                /\ Standing(x)' = Standing(x)
  BY OthersStay
<1> HIDE DEF u
<1>2. \A x \in Users : RecordsOf(Standing(x)', p) = RecordsOf(Standing(x), p)
  BY <1>1 DEF u
<1>3. \A v \in Variants : Supporters(p, v)' = Supporters(p, v)
  <2> SUFFICES ASSUME NEW v \in Variants, NEW x \in Users
               PROVE  NewRecord(p, v) \in Standing(x)' <=> NewRecord(p, v) \in Standing(x)
    BY DEF Supporters
  <2>1. /\ NewRecord(p, v) \in Standing(x)' <=> NewRecord(p, v) \in RecordsOf(Standing(x)', p)
        /\ NewRecord(p, v) \in Standing(x) <=> NewRecord(p, v) \in RecordsOf(Standing(x), p)
    BY AmongRecords
  <2> QED
    BY <1>2, <2>1
<1>4. \A v \in Variants : Uncounted(p, v)' <=> Uncounted(p, v)
  <2>1. \A x \in Users, v \in Variants : Awaiting(x, p, v)' <=> Awaiting(x, p, v)
    BY <1>1 DEF u, Awaiting
  <2> QED
    BY <2>1, UncountedIs
<1>5. Counted(p)'
  BY <1>3, <1>4 DEF Balanced, Counted
<1>6. TallyRead(p)'
  BY <1>1 DEF Balanced, TallyRead, u
<1> QED
  BY <1>5, <1>6 DEF Balanced

\* Taps and answers: no write is queued or goes through.
LEMMA BalancedAsk ==
  ASSUME TypeOK, TypeOK', AtHome, NEW d \in Devices, OneTap(Email[d]), OneTap(Email[d])',
         Email[d] \notin overlapped', NEW q \in Polls, NEW i \in Variants, TabOnCell(d, q, i),
         NEW p \in Polls, OnePoll(p), OnePoll(p)', Balanced(p)
  PROVE  Balanced(p)'
<1> DEFINE u == Email[d]
<1>1. By(d) /\ u \in Users
  BY EmailAssumption DEF By
<1>2. PICK r : Asks(d, q, i, r)
  BY AskMoves
<1>3. /\ Flight(u) = {} /\ Flight(u)' = {r} /\ r.kind = "user" /\ MyQueue(u)' = {}
      /\ UNCHANGED <<outbox, applied, users, votes>>
  BY <1>2 DEF Asks
<1>4. \A e \in Devices : TalliesStay(e, p)
  BY <1>3 DEF TalliesStay, PendingVote
<1>5. StandingTally(p)' = StandingTally(p) /\ AppliedTally(p)'
  BY <1>3, <1>4, TalliesKept DEF Balanced
<1>6. Standing(u)' = Standing(u)
  BY <1>1, <1>3, SameWrites
<1> HIDE DEF u
<1>7. \A v \in Variants : ~Awaiting(u, p, v)' /\ ~Awaiting(u, p, v)
  BY <1>3 DEF Awaiting
<1> QED
  BY <1>1, <1>3, <1>5, <1>6, <1>7, BalancedKept DEF u

LEMMA BalancedAnswer ==
  ASSUME TypeOK, TypeOK', AtHome, NEW d \in Devices, OneTap(Email[d]), OneTap(Email[d])',
         Email[d] \notin overlapped', NEW r \in requests, r.dev = d,
         AnswerUser(r) \/ AnswerVote(r) \/ RecallUser(r) \/ RecallVote(r),
         NEW p \in Polls, OnePoll(p), OnePoll(p)', Balanced(p), votes[p] # Absent, p \notin contended'
  PROVE  Balanced(p)'
<1> DEFINE u == Email[d]
<1>1. By(d) /\ u \in Users
  BY EmailAssumption DEF By
<1>2. PICK cb : Answers(d, r, cb)
  BY AnswerMoves
<1>3. /\ Flight(u) = {r} /\ Flight(u)' = {r} /\ MyQueue(u)' = {cb}
      /\ UNCHANGED <<outbox, applied, users, votes>> /\ Brings(r, cb)
  BY <1>2 DEF Answers
<1>4. \A e \in Devices : TalliesStay(e, p)
  BY <1>3 DEF TalliesStay, PendingVote
<1>5. StandingTally(p)' = StandingTally(p) /\ AppliedTally(p)'
  BY <1>3, <1>4, TalliesKept DEF Balanced
<1>6. Standing(u)' = Standing(u)
  BY <1>1, <1>3, SameWrites
<1> HIDE DEF u
<1>7. \A v \in Variants : Awaiting(u, p, v)' <=> Awaiting(u, p, v)
  BY <1>3 DEF Awaiting
<1>8. ASSUME cb.req.kind \in {"first", "second"}, cb.req.poll = p
      PROVE  cb.tally = StandingTally(p)
  <2>1. cb.tally = LocalVote(d, p, votes[p]) /\ cb.req = r
    BY <1>3, <1>8 DEF Brings
  <2>2. r \in On(p)
    BY <1>1, <1>3, <1>8, <2>1 DEF On
  <2>3. \A e \in Devices : e # d => PendingVote(e, p) = {}
    BY <2>2 DEF OnePoll
  <2>4. TallyFacts
    BY TallyFactsHold
  <2>5. LocalVote(d, p, votes[p]) = StandingTally(p)
    BY <2>3, <2>4 DEF TallyFacts
  <2> QED
    BY <2>1, <2>5
<1> QED
  BY <1>1, <1>3, <1>5, <1>6, <1>7, <1>8, BalancedKept DEF u

LEMMA BalancedSecond ==
  ASSUME TypeOK, TypeOK', AtHome, NEW d \in Devices, OneTap(Email[d]), OneTap(Email[d])',
         VoteSecond(d), NEW p \in Polls, OnePoll(p), OnePoll(p)', Balanced(p)
  PROVE  Balanced(p)'
<1> DEFINE u == Email[d]
<1>1. By(d) /\ u \in Users
  BY EmailAssumption DEF By
<1>2. PICK r : Follows(d, "second", r)
  BY SecondMoves
<1>3. /\ Flight(u)' = {r} /\ r.kind = "second" /\ MyQueue(u)' = {}
      /\ UNCHANGED <<applied, users, votes>>
      /\ \A s \in Flight(u) : s.kind = "user"
  BY <1>2 DEF Follows
<1>4. outbox' = outbox
  BY SecondMoves
<1>5. \A e \in Devices : TalliesStay(e, p)
  BY <1>4 DEF TalliesStay, PendingVote
<1>6. StandingTally(p)' = StandingTally(p) /\ AppliedTally(p)'
  BY <1>3, <1>5, TalliesKept DEF Balanced
<1>7. Standing(u)' = Standing(u)
  BY <1>1, <1>3, <1>4, SameWrites
<1> HIDE DEF u
<1>8. \A v \in Variants : ~Awaiting(u, p, v)' /\ ~Awaiting(u, p, v)
  BY <1>3 DEF Awaiting
<1> QED
  BY <1>1, <1>3, <1>6, <1>7, <1>8, BalancedKept DEF u

\* The backend's steps: no tap moves.
LEMMA BalancedBackend ==
  ASSUME TypeOK, AtHome, NEW d \in Devices, By(d), UNCHANGED <<requests, mainQueue>>,
         NEW p \in Polls, Balanced(p), StandingTally(p)' = StandingTally(p), AppliedTally(p)',
         Standing(Email[d])' = Standing(Email[d])
  PROVE  Balanced(p)'
<1> DEFINE u == Email[d]
<1>1. u \in Users /\ MyRequests(u)' = MyRequests(u) /\ \A e \in Own(u) : mainQueue'[e] = mainQueue[e]
  BY EmailAssumption DEF MyRequests
<1>2. Flight(u)' = Flight(u) /\ MyQueue(u)' = MyQueue(u)
  BY <1>1, SameFlight
<1> HIDE DEF u
<1>3. \A v \in Variants : Awaiting(u, p, v)' <=> Awaiting(u, p, v)
  BY <1>2 DEF Awaiting
<1> QED
  BY <1>2, <1>3, BalancedKept DEF u

\* Counting people.
LEMMA OneMore ==
  ASSUME NEW S \in SUBSET Users, NEW u \in Users
  PROVE  /\ Cardinality(S) \in Nat
         /\ u \notin S => Cardinality(S \cup {u}) = Cardinality(S) + 1
         /\ u \in S => Cardinality(S \ {u}) = Cardinality(S) - 1
<1>1. IsFiniteSet(S)
  BY UsersAssumption, FS_Subset
<1>2. Cardinality(S) \in Nat
  BY <1>1, FS_CardinalityType
<1>3. u \notin S => Cardinality(S \cup {u}) = Cardinality(S) + 1
  BY <1>1, FS_AddElement
<1>4. u \in S => Cardinality(S \ {u}) = Cardinality(S) - 1
  BY <1>1, FS_RemoveElement
<1> QED
  BY <1>2, <1>3, <1>4

\* The record is written: one more than the tally says is recorded.
LEMMA BalancedFirst ==
  ASSUME TypeOK, TypeOK', AtHome, NEW d \in Devices, OneTap(Email[d]), OneTap(Email[d])',
         Matching(Email[d]), VoteFirst(d),
         NEW p \in Polls, OnePoll(p), OnePoll(p)', Balanced(p)
  PROVE  Balanced(p)'
<1> DEFINE u   == Email[d]
           cb  == Head(mainQueue[d])
           q   == cb.req.poll
           i   == cb.req.index
           n   == Len(outbox[d]) + 1
           new == AppendRecord(cb.list, q, i)
<1>1. By(d) /\ u \in Users /\ d \in Own(u)
  BY EmailAssumption DEF By, Own
<1>2. RecordsOf(cb.list, q) = {} /\ ListQueued(d, n, new) /\ \A x \in Polls : TalliesStay(d, x)
  BY FirstMoves
<1>3. PICK r : Follows(d, "first", r)
  BY FirstMoves
<1>4. /\ cb.req.kind = "user" /\ i \in Variants /\ Flight(u) = {cb.req} /\ Captured(u) = {cb.list}
      /\ Flight(u)' = {r} /\ r.kind = "first" /\ r.poll = q /\ r.index = i /\ MyQueue(u)' = {}
      /\ applied' = applied /\ users' = users /\ votes' = votes
  BY <1>3 DEF Follows
<1>5. /\ RecordsOf(new, q) = {NewRecord(q, i)}
      /\ \A x : x # q => RecordsOf(new, x) = RecordsOf(cb.list, x)
  BY <1>2, RecordOperators
<1>6. \A e \in Devices : TalliesStay(e, p)
  BY <1>1, <1>2, TalliesElsewhere
<1>7. StandingTally(p)' = StandingTally(p) /\ AppliedTally(p)'
  BY <1>4, <1>6, TalliesKept DEF Balanced
<1> HIDE DEF u, n, new
<1>8. OneTap(u)' /\ AppliedList(u) /\ cb.list = Standing(u)
  BY <1>4 DEF Matching, u
<1>9. Standing(u)' = new
  BY <1>1, <1>2, <1>4, <1>8, ListAdded DEF ListQueued
<1> HIDE DEF cb, q, i
<1>10. CASE p # q
  <2>1. \A v \in Variants : ~Awaiting(u, p, v)' /\ ~Awaiting(u, p, v)
    BY <1>4, <1>10 DEF Awaiting
  <2>2. RecordsOf(Standing(u)', p) = RecordsOf(Standing(u), p)
    BY <1>5, <1>8, <1>9, <1>10
  <2> QED
    BY <1>1, <1>4, <1>7, <2>1, <2>2, BalancedKept DEF u
<1>11. CASE p = q
  <2>1. cb.req \in On(p) /\ r \in On(p)'
    BY <1>1, <1>4, <1>11 DEF On, q
  <2>2. On(p) = {cb.req} /\ On(p)' = {r}
    BY <2>1 DEF OnePoll
  <2>3. \A v \in Variants : ~Uncounted(p, v) /\ (Uncounted(p, v)' <=> v = i)
    BY <1>4, <2>2 DEF Uncounted
  <2>4. \A x \in Users : x # u => MyQueue(x)' = MyQueue(x) /\ Standing(x)' = Standing(x)
    BY <1>1, OthersStay DEF u
  <2>5. \A v \in Variants : /\ NewRecord(p, v) \notin Standing(u)
                            /\ NewRecord(p, v) \in Standing(u)' <=> v = i
    <3> SUFFICES ASSUME NEW v \in Variants
                 PROVE  /\ NewRecord(p, v) \notin Standing(u)
                        /\ NewRecord(p, v) \in Standing(u)' <=> v = i
      OBVIOUS
    <3>1. NewRecord(p, v) = NewRecord(p, i) <=> v = i
      BY DEF NewRecord
    <3> QED
      BY <1>2, <1>5, <1>8, <1>9, <1>11, <3>1, AmongRecords
  <2>6. \A v \in Variants : /\ u \notin Supporters(p, v)
                            /\ v # i => Supporters(p, v)' = Supporters(p, v)
    BY <2>4, <2>5 DEF Supporters
  <2>7. \A v \in Variants : v = i => Supporters(p, v)' = Supporters(p, v) \cup {u}
    BY <1>1, <2>4, <2>5 DEF Supporters
  <2>8. \A v \in Variants : v = i => Cardinality(Supporters(p, v)') = Cardinality(Supporters(p, v)) + 1
    BY <1>1, <2>6, <2>7, OneMore DEF Supporters
  <2>9. \A v \in Variants : Cardinality(Supporters(p, v)) \in Nat
    BY <1>1, OneMore DEF Supporters
  <2>10. Counted(p)'
    <3> SUFFICES ASSUME NEW v \in Variants
                 PROVE  StandingTally(p)'[v] =
                          Cardinality(Supporters(p, v)') - (IF Uncounted(p, v)' THEN 1 ELSE 0)
      BY DEF Counted
    <3>1. StandingTally(p)[v] = Cardinality(Supporters(p, v)) - 0
      BY <2>3 DEF Balanced, Counted
    <3>2. CASE v = i
      BY <1>7, <2>3, <2>8, <2>9, <3>1, <3>2
    <3>3. CASE v # i
      BY <1>7, <2>3, <2>6, <3>1, <3>3
    <3> QED
      BY <3>2, <3>3
  <2>11. TallyRead(p)'
    BY <1>4, <1>7, <2>4 DEF Balanced, TallyRead
  <2> QED
    BY <1>7, <2>10, <2>11 DEF Balanced
<1> QED
  BY <1>10, <1>11

\* What the callbacks of voteFirst and voteSecond have read of the poll.
LEMMA CallbackRead ==
  ASSUME TypeOK, AtHome, NEW d \in Devices, NEW kind, Counts(d, kind), kind \in {"first", "second"},
         NEW p \in Polls, OnePoll(p), Balanced(p), votes[p] # Absent,
         p = Head(mainQueue[d]).req.poll
  PROVE  LET cb == Head(mainQueue[d]) IN
         /\ cb.tally = StandingTally(p) /\ cb.tally \in Tally /\ cb.tally # Absent
         /\ On(p) = {cb.req} /\ \A v : Uncounted(p, v) <=> kind = "first" /\ v = cb.req.index
<1> DEFINE u  == Email[d]
           cb == Head(mainQueue[d])
<1>1. u \in Users /\ Flight(u) = {cb.req} /\ MyQueue(u) = {cb} /\ cb.req.kind = kind
  BY EmailAssumption DEF Counts
<1> HIDE DEF u, cb
<1>2. p = cb.req.poll
  BY DEF cb
<1>3. cb.tally = StandingTally(p)
  BY <1>1, <1>2 DEF Balanced, TallyRead
<1>4. StandingTally(p) \in Tally
  BY TallyFactsHold DEF TallyFacts
<1>5. Absent \notin Tally
  BY AbsentAssumption DEF Tally
<1>6. cb.req \in On(p)
  BY <1>1, <1>2 DEF On
<1>7. On(p) = {cb.req}
  BY <1>6 DEF OnePoll
<1>8. \A v : Uncounted(p, v) <=> kind = "first" /\ v = cb.req.index
  BY <1>1, <1>7 DEF Uncounted
<1> QED
  BY <1>3, <1>4, <1>5, <1>7, <1>8 DEF cb

\* After them no tap on the poll is under way.
LEMMA NoTapLeft ==
  ASSUME TypeOK, AtHome, NEW d \in Devices, By(d), NEW kind, Counts(d, kind),
         NEW p \in Polls, OnePoll(p), p = Head(mainQueue[d]).req.poll
  PROVE  On(p)' = {} /\ TallyRead(p)'
<1> DEFINE u  == Email[d]
           cb == Head(mainQueue[d])
<1>1. /\ u \in Users /\ Flight(u) = {cb.req} /\ Flight(u)' = {} /\ MyQueue(u)' = {}
  BY EmailAssumption DEF Counts
<1>2. \A x \in Users : x # u => Flight(x)' = Flight(x) /\ MyQueue(x)' = MyQueue(x)
  BY OthersStay
<1>3. \A x \in Users : \A r \in Flight(x) : Email[r.dev] = x
  BY FlightOfUser
<1> HIDE DEF u, cb
<1>4. p = cb.req.poll
  BY DEF cb
<1>5. cb.req \in On(p) /\ Email[cb.req.dev] = u
  BY <1>1, <1>3, <1>4 DEF On
<1>6. \A x \in Users : x # u => \A r \in Flight(x) : r.poll # p
  BY <1>3, <1>5 DEF On, OnePoll
<1>7. On(p)' = {}
  BY <1>1, <1>2, <1>6 DEF On
<1>8. \A x \in Users : \A c \in MyQueue(x) : c.req \in Flight(x)
  BY DEF Flight
<1>9. TallyRead(p)'
  BY <1>1, <1>2, <1>6, <1>8 DEF TallyRead
<1> QED
  BY <1>7, <1>9

\* The vote of voteFirst is counted.
LEMMA BalancedCountFirst ==
  ASSUME TypeOK, TypeOK', AtHome, NEW d \in Devices, OneTap(Email[d]), OneTap(Email[d])',
         CountFirst(d), NEW p \in Polls, OnePoll(p), OnePoll(p)', Balanced(p), votes[p] # Absent
  PROVE  Balanced(p)'
<1> DEFINE u  == Email[d]
           cb == Head(mainQueue[d])
           i  == cb.req.index
           n  == Len(outbox[d]) + 1
<1>1. By(d) /\ u \in Users /\ d \in Own(u)
  BY EmailAssumption DEF By, Own
<1>2. /\ Counts(d, "first")
      /\ \/ cb.tally = Absent /\ outbox' = outbox
         \/ ListsStay(d) /\ OneTallyQueued(d, cb.req.poll, n, AddVote(cb.tally, i))
  BY CountFirstMoves
<1>3. /\ Flight(u) = {cb.req} /\ Flight(u)' = {} /\ MyQueue(u)' = {} /\ i \in Variants
      /\ \A e \in Own(u) : e # d => outbox'[e] = outbox[e]
      /\ applied' = applied /\ users' = users /\ votes' = votes
  BY <1>2 DEF Counts
<1> HIDE DEF u, cb, i, n
<1>4. OneTap(u) /\ OneTap(u)'
  BY DEF u
<1>5. \A e \in Own(u) : /\ PendingUser(e)' = PendingUser(e)
                        /\ \A k \in PendingUser(e) : outbox'[e][k] = outbox[e][k]
  BY <1>2, <1>3 DEF ListsStay, PendingUser
<1>6. Standing(u)' = Standing(u)
  BY <1>1, <1>3, <1>4, <1>5, ListsKept
<1>7. CASE p # cb.req.poll
  <2>1. TalliesStay(d, p)
    BY <1>2, <1>7 DEF OneTallyQueued, TalliesStay, PendingVote
  <2>2. \A e \in Devices : TalliesStay(e, p)
    BY <1>1, <2>1, TalliesElsewhere
  <2>3. StandingTally(p)' = StandingTally(p) /\ AppliedTally(p)'
    BY <1>3, <2>2, TalliesKept DEF Balanced
  <2>4. \A v \in Variants : ~Awaiting(u, p, v)' /\ ~Awaiting(u, p, v)
    BY <1>3, <1>7 DEF Awaiting
  <2> QED
    BY <1>1, <1>3, <1>6, <2>3, <2>4, BalancedKept DEF u
<1>8. CASE p = cb.req.poll
  <2>1. /\ cb.tally = StandingTally(p) /\ cb.tally \in Tally /\ cb.tally # Absent
        /\ \A v : Uncounted(p, v) <=> v = i
    BY <1>2, <1>8, CallbackRead DEF cb, i
  <2>2. On(p)' = {} /\ TallyRead(p)'
    BY <1>1, <1>2, <1>8, NoTapLeft DEF cb
  <2>3. \A v \in Variants : ~Uncounted(p, v)'
    BY <2>2 DEF Uncounted
  <2>4. TallyQueued(d, p, n, AddVote(cb.tally, i))
    BY <1>2, <1>8, <2>1 DEF OneTallyQueued
  <2>5. StandingTally(p)' = AddVote(cb.tally, i) /\ AppliedTally(p)'
    BY <1>3, <2>4, TallyAdded DEF Balanced
  <2>6. \A v \in Variants : Supporters(p, v)' = Supporters(p, v)
    <3>1. \A x \in Users : Standing(x)' = Standing(x)
      BY <1>1, <1>6, OthersStay DEF u
    <3> QED
      BY <3>1 DEF Supporters
  <2>7. \A v \in Variants : Cardinality(Supporters(p, v)) \in Nat
    BY <1>1, OneMore DEF Supporters
  <2>8. Counted(p)'
    <3> SUFFICES ASSUME NEW v \in Variants
                 PROVE  StandingTally(p)'[v] =
                          Cardinality(Supporters(p, v)') - (IF Uncounted(p, v)' THEN 1 ELSE 0)
      BY DEF Counted
    <3>1. cb.tally[v] = Cardinality(Supporters(p, v)) - (IF v = i THEN 1 ELSE 0)
      BY <2>1 DEF Balanced, Counted
    <3>2. AddVote(cb.tally, i)[v] = cb.tally[v] + (IF v = i THEN 1 ELSE 0)
      BY <1>3, <2>1, <2>7, <3>1 DEF AddVote, Tally
    <3> QED
      BY <2>3, <2>5, <2>6, <2>7, <3>1, <3>2
  <2> QED
    BY <2>2, <2>5, <2>8 DEF Balanced
<1> QED
  BY <1>7, <1>8

\* A change of vote between counters one apart, and one that changes nothing.
LEMMA Moved ==
  ASSUME NEW tally \in Tally, NEW i \in Variants, NEW x \in Variants,
         i = x \/ tally[x] = tally[i] + 1
  PROVE  \A v \in Variants :
           MoveVote(tally, i, x)[v] = IF i = x THEN tally[v]
                                      ELSE IF v = x THEN tally[v] - 1
                                      ELSE IF v = i THEN tally[v] + 1
                                      ELSE tally[v]
<1> SUFFICES ASSUME NEW v \in Variants
             PROVE  MoveVote(tally, i, x)[v] = IF i = x THEN tally[v]
                                               ELSE IF v = x THEN tally[v] - 1
                                               ELSE IF v = i THEN tally[v] + 1
                                               ELSE tally[v]
  OBVIOUS
<1> DEFINE dec == [tally EXCEPT ![x] = @ - 1]
<1>1. /\ dec \in Tally /\ dec[x] = tally[x] - 1 /\ (v # x => dec[v] = tally[v])
      /\ tally[v] \in Int /\ tally[x] \in Int
  BY DEF Tally
<1>2. MoveVote(tally, i, x) = [dec EXCEPT ![i] = dec[x] + 1]
  BY DEF MoveVote
<1> HIDE DEF dec
<1>3. MoveVote(tally, i, x)[v] = IF v = i THEN dec[x] + 1 ELSE dec[v]
  BY <1>1, <1>2 DEF Tally
<1>4. CASE v = i
  BY <1>1, <1>3, <1>4
<1>5. CASE v # i
  BY <1>1, <1>3, <1>5
<1> QED
  BY <1>4, <1>5

\* The vote of voteSecond is moved, together with the record.
LEMMA BalancedCountSecond ==
  ASSUME TypeOK, TypeOK', AtHome, ListsSingle, NEW d \in Devices, OneTap(Email[d]),
         OneTap(Email[d])', Matching(Email[d]), Recorded(Email[d]), CountSecond(d),
         NEW p \in Polls, OnePoll(p), OnePoll(p)', Balanced(p), votes[p] # Absent, p \notin skewed'
  PROVE  Balanced(p)'
<1> DEFINE u   == Email[d]
           cb  == Head(mainQueue[d])
           q   == cb.req.poll
           i   == cb.req.index
           x   == cb.req.extra
           n   == Len(outbox[d])
           old == cb.req.arrays
           new == ReplaceRecord(old, q, i)
<1>1. By(d) /\ u \in Users /\ d \in Own(u)
  BY EmailAssumption DEF By, Own
<1>2. /\ Counts(d, "second") /\ Captured(u) = {old}
      /\ \/ cb.tally = Absent /\ outbox' = outbox
         \/ /\ ListQueued(d, n + 2, new) /\ OneTallyQueued(d, q, n + 1, MoveVote(cb.tally, i, x))
            /\ i = x \/ cb.tally[x] = cb.tally[i] + 1 \/ q \in skewed'
  BY CountSecondMoves
<1>3. /\ Flight(u) = {cb.req} /\ Flight(u)' = {} /\ MyQueue(u)' = {} /\ i \in Variants
      /\ \A e \in Own(u) : e # d => outbox'[e] = outbox[e]
      /\ applied' = applied /\ users' = users /\ votes' = votes
      /\ cb.req.kind = "second" /\ mainQueue[d] # <<>>
  BY <1>2 DEF Counts
<1>4. x \in Variants /\ Single(old)
  <2>1. cb.req \in UserRequest \cup VoteRequest
    BY <1>3, AtHead
  <2>2. mainQueue' = [mainQueue EXCEPT ![d] = Tail(@)]
    BY DEF CountSecond
  <2>3. cb \in SingleCallback
    BY <1>3, <2>2, DropHeadSingle
  <2> QED
    BY <2>1, <2>3 DEF SingleCallback, UserRequest, VoteRequest, Request
<1>5. /\ RecordsOf(new, q) = {NewRecord(q, i)}
      /\ \A y : y # q => RecordsOf(new, y) = RecordsOf(old, y)
  BY RecordOperators
<1>6. old = Standing(u) /\ AppliedList(u) /\ NewRecord(q, x) \in old
  BY <1>2, <1>3 DEF Matching, Recorded
<1> HIDE DEF u, cb, q, i, x, n, old, new
<1>7. OneTap(u) /\ OneTap(u)'
  BY DEF u
<1>8. ListQueued(d, n + 2, new) => Standing(u)' = new
  BY <1>1, <1>3, <1>6, <1>7, ListAdded DEF ListQueued
<1>9. outbox' = outbox => Standing(u)' = Standing(u)
  BY <1>1, <1>3, SameWrites
<1>10. CASE p # q
  <2>1. TalliesStay(d, p)
    BY <1>2, <1>10 DEF OneTallyQueued, TalliesStay, PendingVote
  <2>2. \A e \in Devices : TalliesStay(e, p)
    BY <1>1, <2>1, TalliesElsewhere
  <2>3. StandingTally(p)' = StandingTally(p) /\ AppliedTally(p)'
    BY <1>3, <2>2, TalliesKept DEF Balanced
  <2>4. \A v \in Variants : ~Awaiting(u, p, v)' /\ ~Awaiting(u, p, v)
    BY <1>3, <1>10 DEF Awaiting, q
  <2>5. RecordsOf(Standing(u)', p) = RecordsOf(Standing(u), p)
    BY <1>2, <1>5, <1>6, <1>8, <1>9, <1>10
  <2> QED
    BY <1>1, <1>3, <2>3, <2>4, <2>5, BalancedKept DEF u
<1>11. CASE p = q
  <2>1. /\ cb.tally = StandingTally(p) /\ cb.tally \in Tally /\ cb.tally # Absent
        /\ \A v : ~Uncounted(p, v)
    BY <1>2, <1>11, CallbackRead DEF cb, q
  <2>2. On(p)' = {} /\ TallyRead(p)'
    BY <1>1, <1>2, <1>11, NoTapLeft DEF cb, q
  <2>3. \A v \in Variants : ~Uncounted(p, v)'
    BY <2>2 DEF Uncounted
  <2>4. /\ TallyQueued(d, p, n + 1, MoveVote(cb.tally, i, x)) /\ Standing(u)' = new
        /\ i = x \/ cb.tally[x] = cb.tally[i] + 1
    BY <1>2, <1>8, <1>11, <2>1 DEF OneTallyQueued
  <2>5. StandingTally(p)' = MoveVote(cb.tally, i, x) /\ AppliedTally(p)'
    BY <1>3, <2>4, TallyAdded DEF Balanced
  <2>6. \A v \in Variants : /\ NewRecord(p, v) \in Standing(u) <=> v = x
                            /\ NewRecord(p, v) \in Standing(u)' <=> v = i
    <3> SUFFICES ASSUME NEW v \in Variants
                 PROVE  /\ NewRecord(p, v) \in Standing(u) <=> v = x
                        /\ NewRecord(p, v) \in Standing(u)' <=> v = i
      OBVIOUS
    <3>1. /\ NewRecord(p, v) = NewRecord(p, i) <=> v = i
          /\ NewRecord(p, v) = NewRecord(p, x) <=> v = x
          /\ NewRecord(p, v).voteUUID = p /\ NewRecord(p, x).voteUUID = p
      BY DEF NewRecord
    <3>2. NewRecord(p, v) \in Standing(u) <=> v = x
      BY <1>4, <1>6, <1>11, <3>1 DEF Single
    <3>3. NewRecord(p, v) \in Standing(u)' <=> v = i
      BY <1>5, <1>11, <2>4, <3>1, AmongRecords
    <3> QED
      BY <3>2, <3>3
  <2>7. \A y \in Users : y # u => Standing(y)' = Standing(y)
    BY <1>1, OthersStay DEF u
  <2>8. \A v \in Variants :
          Supporters(p, v)' = IF i = x THEN Supporters(p, v)
                              ELSE IF v = x THEN Supporters(p, v) \ {u}
                              ELSE IF v = i THEN Supporters(p, v) \cup {u}
                              ELSE Supporters(p, v)
    BY <1>1, <2>6, <2>7 DEF Supporters
  <2>9. \A v \in Variants : /\ u \in Supporters(p, v) <=> v = x
                            /\ Supporters(p, v) \in SUBSET Users
    BY <1>1, <2>6 DEF Supporters
  <2>10. Counted(p)'
    <3> SUFFICES ASSUME NEW v \in Variants
                 PROVE  StandingTally(p)'[v] =
                          Cardinality(Supporters(p, v)') - (IF Uncounted(p, v)' THEN 1 ELSE 0)
      BY DEF Counted
    <3>1. cb.tally[v] = Cardinality(Supporters(p, v)) - 0
      BY <2>1 DEF Balanced, Counted
    <3>2. MoveVote(cb.tally, i, x)[v] = IF i = x THEN cb.tally[v]
                                        ELSE IF v = x THEN cb.tally[v] - 1
                                        ELSE IF v = i THEN cb.tally[v] + 1
                                        ELSE cb.tally[v]
      BY <1>3, <1>4, <2>1, <2>4, Moved
    <3>3. /\ Cardinality(Supporters(p, v)) \in Nat
          /\ v # x => Cardinality(Supporters(p, v) \cup {u}) = Cardinality(Supporters(p, v)) + 1
          /\ v = x => Cardinality(Supporters(p, v) \ {u}) = Cardinality(Supporters(p, v)) - 1
      BY <1>1, <2>9, OneMore
    <3>4. Cardinality(Supporters(p, v)') = IF i = x THEN Cardinality(Supporters(p, v))
                                           ELSE IF v = x THEN Cardinality(Supporters(p, v)) - 1
                                           ELSE IF v = i THEN Cardinality(Supporters(p, v)) + 1
                                           ELSE Cardinality(Supporters(p, v))
      BY <2>8, <3>3
    <3> QED
      BY <2>3, <2>5, <3>1, <3>2, <3>3, <3>4
  <2> QED
    BY <2>2, <2>5, <2>10 DEF Balanced
<1> QED
  BY <1>10, <1>11

LEMMA BalancedStep ==
  ASSUME TypeOK, TypeOK', AtHome, ListsSingle, NEW d \in Devices, By(d), OneTap(Email[d]),
         OneTap(Email[d])', Matching(Email[d]), Recorded(Email[d]),
         Email[d] \notin overlapped', Email[d] \notin faulty',
         NEW p \in Polls, OnePoll(p), OnePoll(p)', Balanced(p), votes[p] # Absent,
         p \notin contended', p \notin skewed'
  PROVE  Balanced(p)'
<1> DEFINE u == Email[d]
<1>1. u \in Users /\ AppliedList(u) /\ AppliedTally(p)
  BY EmailAssumption DEF Matching, Balanced
<1>2. ASSUME NEW q \in Polls, NEW i \in Variants, TabOnCell(d, q, i) PROVE Balanced(p)'
  BY <1>2, BalancedAsk
<1>3. CASE VoteFirst(d)
  BY <1>3, BalancedFirst
<1>4. CASE VoteSecond(d)
  BY <1>4, BalancedSecond
<1>5. CASE CountFirst(d)
  BY <1>5, BalancedCountFirst
<1>6. CASE CountSecond(d)
  BY <1>6, BalancedCountSecond
<1>7. CASE Apply(d)
  <2>1. UNCHANGED <<requests, mainQueue>>
    BY <1>7 DEF Apply
  <2>2. Standing(u)' = Standing(u)
    BY <1>1, <1>7, ListsApplied
  <2>3. StandingTally(p)' = StandingTally(p) /\ AppliedTally(p)'
    BY <1>1, <1>7, TalliesApplied
  <2> QED
    BY <2>1, <2>2, <2>3, BalancedBackend
<1>8. CASE Acknowledge(d)
  <2>1. UNCHANGED <<requests, mainQueue>>
    BY <1>8 DEF Acknowledge
  <2>2. Standing(u)' = Standing(u)
    BY <1>1, <1>8, ListsAcknowledged
  <2>3. StandingTally(p)' = StandingTally(p) /\ AppliedTally(p)'
    BY <1>1, <1>8, TalliesAcknowledged
  <2> QED
    BY <2>1, <2>2, <2>3, BalancedBackend
<1>9. CASE Resend(d) \/ Refresh(d)
  <2>1. UNCHANGED <<requests, mainQueue, users, votes, outbox>>
    BY <1>9 DEF Resend, Refresh, database, sending
  <2>2. \A e \in Devices : applied'[e] = applied[e] \/ (e = d /\ applied'[d] = 0)
    BY <1>9 DEF Resend, Refresh, SentAgain, sending, TypeOK
  <2>3. Standing(u)' = Standing(u)
    BY <1>1, <2>1, SameWrites
  <2>4. \A e \in Devices : TalliesStay(e, p) /\ PendingVote(e, p)' = PendingVote(e, p)
    BY <2>1 DEF TalliesStay, PendingVote
  <2>5. StandingTally(p)' = StandingTally(p)
    BY <2>1, <2>4, TalliesKept
  <2>6. \A k \in PendingVote(d, p) : ~ (k <= 0)
    <3>1. outbox[d] \in Seq(Write)
      BY DEF TypeOK
    <3> QED
      BY <3>1 DEF PendingVote
  <2>7. AppliedTally(p)'
    BY <1>1, <2>1, <2>2, <2>4, <2>6 DEF AppliedTally
  <2> QED
    BY <2>1, <2>3, <2>5, <2>7, BalancedBackend
<1>10. CASE RejectWrite(d) \/ Crash(d)
  BY <1>10 DEF RejectWrite, Crash
<1>11. ASSUME NEW r \in requests, r.dev = d,
              AnswerUser(r) \/ AnswerVote(r) \/ RecallUser(r) \/ RecallVote(r) \/ FailRead(r)
       PROVE  Balanced(p)'
  <2>1. CASE FailRead(r)
    BY <1>11, <2>1 DEF FailRead
  <2> QED
    BY <1>11, <2>1, BalancedAnswer
<1> QED
  BY <1>2, <1>3, <1>4, <1>5, <1>6, <1>7, <1>8, <1>9, <1>10, <1>11 DEF By

\* Nothing concerning the poll moves.
LEMMA PollUntouched ==
  ASSUME TypeOK, TypeOK', NEW p \in Polls, OnePoll(p),
         UNCHANGED <<requests, mainQueue, outbox, applied, users>>
  PROVE  /\ \A u \in Users : Recorded(u) => Recorded(u)'
         /\ OnePoll(p)'
         /\ votes'[p] = votes[p] /\ Balanced(p) => Balanced(p)'
<1>1. \A u \in Users : Flight(u)' = Flight(u) /\ MyQueue(u)' = MyQueue(u)
  BY SameFlight DEF MyRequests
<1>2. \A u \in Users : Standing(u)' = Standing(u)
  BY SameWrites
<1>3. On(p)' = On(p)
  BY <1>1 DEF On
<1>4. \A d \in Devices : TalliesStay(d, p) /\ PendingVote(d, p)' = PendingVote(d, p)
  BY DEF TalliesStay, PendingVote
<1>5. \A u \in Users : Recorded(u) => Recorded(u)'
  BY <1>1 DEF Recorded
<1>6. OnePoll(p)'
  BY <1>3, <1>4 DEF OnePoll
<1>7. ASSUME votes'[p] = votes[p], Balanced(p) PROVE Balanced(p)'
  <2>1. StandingTally(p)' = StandingTally(p) /\ AppliedTally(p)'
    BY <1>4, <1>6, <1>7, TalliesKept DEF Balanced
  <2>2. \A v \in Variants : /\ Supporters(p, v)' = Supporters(p, v)
                            /\ Uncounted(p, v)' <=> Uncounted(p, v)
    BY <1>2, <1>3 DEF Supporters, Uncounted
  <2>3. Counted(p)'
    BY <1>7, <2>1, <2>2 DEF Balanced, Counted
  <2>4. TallyRead(p)'
    BY <1>1, <1>7, <2>1 DEF Balanced, TallyRead
  <2> QED
    BY <2>1, <2>3, <2>4 DEF Balanced
<1> QED
  BY <1>5, <1>6, <1>7

LEMMA TalliesMatchStep ==
  ASSUME RecordInv, RecordInv', ListsSingle, TalliesMatch, Next
  PROVE  TalliesMatch'
<1> SUFFICES ASSUME overlapped' = {}, faulty' = {} PROVE TalliesMatch'
  BY DEF TalliesMatch
<1>1. TypeOK /\ TypeOK' /\ AtHome
  BY DEF RecordInv, TapsSerial
<1>2. overlapped = {} /\ faulty = {} /\ contended \subseteq contended' /\ skewed \subseteq skewed'
  BY <1>1, HistoryGrows
<1>3. /\ \A u \in Users : Recorded(u)
      /\ \A p \in Polls \ contended' : OnePoll(p)
      /\ \A p \in Polls \ (contended' \cup skewed') : Exact(p)
  BY <1>2 DEF TalliesMatch
<1>4. \A u \in Users : OneTap(u) /\ OneTap(u)' /\ Matching(u)
  BY <1>2 DEF RecordInv, TapsSerial, ListsMatch
<1>5. ASSUME NEW q \in Polls, DeletePoll(q) PROVE TalliesMatch'
  <2>1. /\ UNCHANGED <<requests, mainQueue, outbox, applied, users>>
        /\ \A p \in Polls : p # q => votes'[p] = votes[p]
        /\ votes'[q] = Absent
    BY <1>1, <1>5 DEF DeletePoll, client, TypeOK
  <2>2. ASSUME NEW p \in Polls \ contended' PROVE OnePoll(p)'
    BY <1>1, <1>3, <2>1, PollUntouched
  <2>3. ASSUME NEW p \in Polls \ (contended' \cup skewed') PROVE Exact(p)'
    BY <1>1, <1>3, <2>1, PollUntouched DEF Exact
  <2>4. ASSUME NEW u \in Users PROVE Recorded(u)'
    <3>1. Flight(u)' = Flight(u)
      BY <2>1, SameFlight DEF MyRequests
    <3> QED
      BY <1>3, <3>1 DEF Recorded
  <2> QED
    BY <2>2, <2>3, <2>4 DEF TalliesMatch
<1>6. ASSUME NEW d \in Devices, By(d) PROVE TalliesMatch'
  <2>1. Email[d] \in Users
    BY EmailAssumption
  <2>2. OneTap(Email[d]) /\ OneTap(Email[d])' /\ Matching(Email[d]) /\ Recorded(Email[d])
    BY <1>3, <1>4, <2>1
  <2>3. ASSUME NEW u \in Users PROVE Recorded(u)'
    <3>1. CASE u = Email[d]
      BY <1>1, <1>6, <2>2, <3>1, RecordedStep
    <3>2. CASE u # Email[d]
      <4>1. Flight(u)' = Flight(u)
        BY <1>1, <1>6, <3>2, OthersStay
      <4> QED
        BY <1>3, <4>1 DEF Recorded
    <3> QED
      BY <3>1, <3>2
  <2>4. ASSUME NEW p \in Polls \ contended' PROVE OnePoll(p)'
    BY <1>1, <1>3, <1>6, <2>2, <2>4, OnePollStep
  <2>5. ASSUME NEW p \in Polls \ (contended' \cup skewed') PROVE Exact(p)'
    <3> SUFFICES ASSUME votes'[p] # Absent PROVE Balanced(p)'
      BY DEF Exact
    <3>1. votes[p] # Absent /\ OnePoll(p) /\ OnePoll(p)'
      BY <1>1, <1>3, <2>4, GoneSteps
    <3>2. Balanced(p)
      BY <1>3, <3>1 DEF Exact
    <3> QED
      BY <1>1, <1>6, <2>2, <3>1, <3>2, BalancedStep
  <2> QED
    BY <2>3, <2>4, <2>5 DEF TalliesMatch
<1> QED
  BY <1>1, <1>5, <1>6, EveryStepIsBySomebody

TallyInv == RecordInv /\ ListsSingle /\ TalliesMatch

LEMMA TallyInit == Init => TallyInv
<1> SUFFICES ASSUME Init PROVE TallyInv
  OBVIOUS
<1>1. RecordInv /\ TypeOK
  BY RecordInit DEF RecordInv
<1>2. ListsSingle
  BY DEF Init, ListsSingle, SingleList, Single
<1>3. /\ requests = {} /\ \A d \in Devices : mainQueue[d] = <<>> /\ outbox[d] = <<>>
      /\ DOMAIN <<>> = {}
  BY DEF Init
<1>4. \A d \in Devices : DOMAIN mainQueue[d] = {} /\ PendingUser(d) = {}
  BY <1>3 DEF PendingUser
<1>5. \A d \in Devices, p \in Polls : PendingVote(d, p) = {}
  BY <1>3 DEF PendingVote
<1>6. \A u \in Users : MyRequests(u) = {} /\ MyQueue(u) = {}
  BY <1>3, <1>4 DEF MyRequests, MyQueue, Own
<1>7. \A u \in Users : Flight(u) = {} /\ Standing(u) = {}
  BY <1>4, <1>6 DEF Flight, Standing, Writing, Own, Init
<1>8. \A u \in Users : Recorded(u)
  BY <1>7 DEF Recorded
<1>9. ASSUME NEW p \in Polls PROVE OnePoll(p) /\ Balanced(p)
  <2>1. On(p) = {}
    BY <1>7 DEF On
  <2>2. OnePoll(p)
    BY <1>5, <2>1 DEF OnePoll
  <2>3. StandingTally(p) = votes[p]
    BY <1>5 DEF StandingTally, Counting
  <2>4. Counted(p)
    <3>1. Cardinality({}) = 0
      BY FS_EmptySet
    <3>2. \A v \in Variants : Supporters(p, v) = {} /\ ~Uncounted(p, v) /\ votes[p][v] = 0
      BY <1>7, <2>1 DEF Supporters, Uncounted, Init
    <3> QED
      BY <2>3, <3>1, <3>2 DEF Counted
  <2>5. AppliedTally(p) /\ TallyRead(p)
    BY <1>5, <1>6 DEF AppliedTally, TallyRead
  <2> QED
    BY <2>2, <2>4, <2>5 DEF Balanced
<1> QED
  BY <1>1, <1>2, <1>8, <1>9 DEF TallyInv, TalliesMatch, Exact

LEMMA TallyStep == TallyInv /\ TypeOK' /\ [Next]_vars => TallyInv'
<1> SUFFICES ASSUME TallyInv, TypeOK', [Next]_vars PROVE TallyInv'
  OBVIOUS
<1>1. RecordInv /\ RecordInv' /\ ListsSingle /\ ListsSingle' /\ TypeOK
  BY RecordStep, SingleStep DEF TallyInv, RecordInv
<1>2. CASE Next
  BY <1>1, <1>2, TalliesMatchStep DEF TallyInv
<1>3. CASE UNCHANGED vars
  <2>1. /\ UNCHANGED <<requests, mainQueue, outbox, applied, users, votes>>
        /\ UNCHANGED <<overlapped, faulty, contended, skewed>>
    BY <1>3 DEF vars
  <2>2. \A u \in Users : Flight(u)' = Flight(u)
    BY <2>1, SameFlight DEF MyRequests
  <2>3. \A u \in Users : Recorded(u) => Recorded(u)'
    BY <2>2 DEF Recorded
  <2>4. \A p \in Polls : OnePoll(p) => OnePoll(p)' /\ (Balanced(p) => Balanced(p)')
    BY <1>1, <2>1, PollUntouched
  <2>5. contended \subseteq contended \cup skewed
    OBVIOUS
  <2>6. TalliesMatch'
    BY <2>1, <2>3, <2>4, <2>5 DEF TallyInv, TalliesMatch, Exact
  <2> QED
    BY <1>1, <2>6 DEF TallyInv
<1> QED
  BY <1>2, <1>3

\* When no tap on a poll is under way and every write is through, the poll's
\* counters are the numbers of users recorded for its variants, unless taps on
\* it overlapped, something failed, or a vote was moved between counters that
\* were not one apart: voteFirst and voteSecond count exactly what they record.
THEOREM TallyExactHolds == Spec => []TallyExact
<1>1. TallyInv => TallyExact
  <2> SUFFICES ASSUME TallyInv, NEW p \in Polls \ (contended \cup skewed), overlapped = {},
                      faulty = {}, votes[p] # Absent, Settled(p), NEW v \in Variants
               PROVE  votes[p][v] = Cardinality(Voters(p, v))
    BY DEF TallyExact
  <2>1. /\ TypeOK /\ AtHome /\ OnePoll(p) /\ Balanced(p) /\ \A u \in Users : OneTap(u)
    BY DEF TallyInv, RecordInv, TapsSerial, TalliesMatch, Exact
  <2>2. /\ \A d \in Devices : PendingVote(d, p) = {}
        /\ \A d \in Devices : PendingUser(d) = {}
    BY DEF Settled, PendingVote, PendingUser
  <2>3. StandingTally(p) = votes[p]
    BY <2>1, <2>2, TallyFactsHold DEF TallyFacts
  <2>4. \A u \in Users : Standing(u) = users[u]
    BY <2>1, <2>2, StandingFactsHold DEF StandingFacts, Own
  <2>5. On(p) = {}
    BY <2>1, FlightOfUser DEF On, Settled
  <2>6. ~Uncounted(p, v) /\ Supporters(p, v) = Voters(p, v)
    BY <2>4, <2>5 DEF Uncounted, Supporters, Voters
  <2>7. votes[p][v] = Cardinality(Voters(p, v)) - 0
    BY <2>1, <2>3, <2>6 DEF Balanced, Counted
  <2>8. Cardinality(Voters(p, v)) \in Nat
    <3>1. IsFiniteSet(Voters(p, v))
      BY UsersAssumption, FS_Subset DEF Voters
    <3> QED
      BY <3>1, FS_CardinalityType
  <2> QED
    BY <2>7, <2>8
<1> QED
  BY <1>1, TallyInit, TallyStep, TypeCorrect, PTL DEF Spec
=============================================================================
