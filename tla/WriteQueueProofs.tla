-------------------------- MODULE WriteQueueProofs --------------------------
(***************************************************************************)
(* Theorems about WriteQueue, for any users, any size of the pipeline and  *)
(* any number of writes and faults.  Four layers of inductive invariants,  *)
(* each resting on the ones before it:                                     *)
(*   Base        the queue on disk, the pipeline, the stream               *)
(*   AppliedInv  how far the backend is ahead of the acknowledgements      *)
(*   LogInv      what the backend applied last of the writes decided       *)
(*   ViewInv     what of this session's writes is in the cache             *)
(* and Served, that a pipeline that is not empty has its stream started.   *)
(***************************************************************************)
EXTENDS WriteQueue, TLAPS, SequenceTheorems, FiniteSetTheorems, WellFoundedInduction

-----------------------------------------------------------------------------
(* The inductive invariants *)

\* Batches are queued in the order of their ids and of their writes.
Ascending(batches) ==
    \A i, j \in DOMAIN batches : i < j =>
      batches[i].id < batches[j].id /\ batches[i].write < batches[j].write

\* A user's queue on disk: the ids are in use, what is acknowledged was applied,
\* and completion blocks wait for batches that are not acknowledged.
QueueOk(batches, acked, waiting, next, authors, done, u) ==
    /\ Ascending(batches)
    /\ \A k \in DOMAIN batches :
         /\ batches[k].id < next
         /\ batches[k].write \in DOMAIN authors /\ authors[batches[k].write] = u
         /\ batches[k].id <= acked => batches[k].write \in Range(done)
    /\ acked >= Unknown
    /\ batches # <<>> => acked <= batches[Len(batches)].id
    /\ \A b \in waiting : \E k \in DOMAIN batches : b = batches[k] /\ b.id > acked

\* Every user's queue is in order; ids never run ahead of the writes.
QueueInv ==
    /\ nextBatchID <= Len(author)
    /\ \A u \in Users : QueueOk(queue[u], lastAcked[u], blocks[u], nextBatchID, author, log, u)

\* The first h batches are the acknowledged ones.
SplitAt(batches, acked, h) ==
    /\ h \in Nat /\ h <= Len(batches)
    /\ \A k \in DOMAIN batches : batches[k].id <= acked <=> k <= h

\* The pipeline comes behind them; lastBatchSeen tells where it ends.
PipeOk(r, batches, acked, h) ==
    /\ h + Len(r.pending) <= Len(batches)
    /\ Len(r.pending) <= MaxPendingWrites
    /\ \A k \in DOMAIN r.pending : r.pending[k] = batches[h + k]
    /\ \A k \in DOMAIN batches :
         batches[k].id <= r.lastBatchSeen \/ batches[k].id <= acked <=> k <= h + Len(r.pending)

\* There is no room in it, or nothing more to send.
Full(r, batches, h) ==
    Len(r.pending) = MaxPendingWrites \/ h + Len(r.pending) = Len(batches)

\* What is held are the acknowledged batches of the user at work.
PipelineInv ==
    /\ lastAcked[user] < nextBatchID
    /\ remote.lastBatchSeen < nextBatchID
    /\ \A k \in DOMAIN held : held[k].batch = queue[user][k]
    /\ SplitAt(queue[user], lastAcked[user], Len(held))
    /\ Len(held) > 0 => queue[user][Len(held)].id = lastAcked[user]
    /\ PipeOk(remote, queue[user], lastAcked[user], Len(held))
    /\ Full(remote, queue[user], Len(held))

\* Responses under way, but for one that ends the stream.
Answered(r) == IF Ended(r) THEN Len(r.responses) - 1 ELSE Len(r.responses)

\* Before the handshake is complete only the handshake and its answer are on
\* their way.
HandshakeOk(r) ==
    \/ r.requests = <<Handshake>> /\ Answered(r) = 0
    \/ /\ r.requests = <<>> /\ Answered(r) = 1
       /\ r.responses[1].type = "handshake"

\* Afterwards the answers under way are those to the first writes of the
\* pipeline, the last ones the backend has applied; the others are requested.
WritesOk(r, done) ==
    /\ Answered(r) + Len(r.requests) = Len(r.pending)
    /\ Answered(r) <= Len(done)
    /\ \A k \in 1 .. Answered(r) :
         /\ r.responses[k].type = "ack"
         /\ r.responses[k].version = Len(done) - Answered(r) + k
         /\ done[r.responses[k].version] = r.pending[k].write
    /\ \A k \in DOMAIN r.requests : r.requests[k] = r.pending[Answered(r) + k].write

\* A stream that is not open carries nothing, and nothing follows its end.
StreamOk(r, done) ==
    /\ r.state # "Open" => r.requests = <<>> /\ r.responses = <<>>
    /\ r.state \in {"Auth", "Backoff"} => ~r.handshakeComplete
    /\ \A k \in DOMAIN r.responses : r.responses[k].type \in Closing => k = Len(r.responses)
    /\ r.state = "Open" /\ ~r.handshakeComplete => HandshakeOk(r)
    /\ r.state = "Open" /\ r.handshakeComplete => WritesOk(r, done)

\* The backend has answered the handshake.
Greeted(r) == r.state = "Open" /\ (r.handshakeComplete \/ r.requests = <<>>)

\* The stream of the user at work; the backend is through with earlier ones
\* when it answers the handshake.
StreamInv == StreamOk(remote, log) /\ (Greeted(remote) => halfClosed = <<>>)

\* TypeOK, but for the counts of applied writes, which AppliedInv bounds.
Typed ==
    /\ queue \in [Users -> Seq(Batch)]
    /\ lastAcked \in [Users -> Int]
    /\ cache \in Document
    /\ remoteVersion \in Nat
    /\ user \in Users
    /\ nextBatchID \in Nat
    /\ blocks \in [Users -> SUBSET Batch]
    /\ held \in Seq(Result)
    /\ remote \in Remote
    /\ listening \in BOOLEAN
    /\ floor \in Nat
    /\ log \in Seq(Nat)
    /\ halfClosed \in Seq(Nat)
    /\ faults \in Nat
    /\ author \in Seq(Users)
    /\ refused \subseteq Nat
    /\ mine \subseteq Nat
    /\ applied \in [Users -> Int]

\* The first layer.
Base == Typed /\ QueueInv /\ PipelineInv /\ StreamInv

-----------------------------------------------------------------------------
(* Facts about sets of numbers and about sequences *)

\* A set of natural numbers has a least one.
LEMMA MinFacts ==
  ASSUME NEW S \in SUBSET Nat, S # {}
  PROVE  Min(S) \in S /\ \A y \in S : Min(S) <= y
<1> DEFINE R == {ss \in Nat \X Nat : ss[1] < ss[2]}
<1>1. IsWellFoundedOn(R, Nat)
  BY NatLessThanWellFounded DEF OpToRel
<1>2. PICK x \in S : \A y \in S : ~ (<<y, x>> \in R)
  <2> HIDE DEF R
  <2> QED
    BY <1>1, WFMin
<1>3. ASSUME NEW y \in S PROVE x <= y
  <2>1. y \in Nat /\ x \in Nat
    OBVIOUS
  <2>2. ~ (y < x)
    BY <1>2, <2>1
  <2> QED
    BY <2>1, <2>2
<1> QED
  BY <1>3 DEF Min

\* A bounded set of integers has a greatest one.
LEMMA MaxFacts ==
  ASSUME NEW S \in SUBSET Int, S # {}, NEW n \in Int, \A x \in S : x <= n
  PROVE  Max(S) \in S /\ \A y \in S : y <= Max(S)
<1> DEFINE T == {n - k : k \in S}
<1>1. T \in SUBSET Nat /\ T # {}
  <2>1. \A k \in S : n - k \in Nat
    OBVIOUS
  <2> QED
    BY <2>1
<1>2. Min(T) \in T /\ \A y \in T : Min(T) <= y
  <2> HIDE DEF T
  <2> QED
    BY <1>1, MinFacts
<1>3. PICK k \in S : Min(T) = n - k
  BY <1>2
<1>4. ASSUME NEW j \in S PROVE k >= j
  <2>1. n - j \in T
    OBVIOUS
  <2>2. n - k <= n - j
    BY <1>2, <1>3, <2>1
  <2> QED
    BY <2>2
<1>5. Max(S) \in S /\ \A y \in S : Max(S) >= y
  BY <1>4 DEF Max
<1> QED
  BY <1>5

\* The larger and the smaller of two numbers.
LEMMA PairFacts ==
  ASSUME NEW a \in Int, NEW b \in Int
  PROVE  /\ Max({a, b}) = IF a >= b THEN a ELSE b
         /\ Min({a, b}) = IF a <= b THEN a ELSE b
<1>1. \E x \in {a, b} : \A y \in {a, b} : x >= y
  OBVIOUS
<1>2. Max({a, b}) \in {a, b} /\ \A y \in {a, b} : Max({a, b}) >= y
  BY <1>1 DEF Max
<1>3. \E x \in {a, b} : \A y \in {a, b} : x <= y
  OBVIOUS
<1>4. Min({a, b}) \in {a, b} /\ \A y \in {a, b} : Min({a, b}) <= y
  BY <1>3 DEF Min
<1> QED
  BY <1>2, <1>4

\* The parts of a queue.
LEMMA BatchFacts ==
  ASSUME NEW q \in Seq(Batch)
  PROVE  /\ Len(q) \in Nat /\ DOMAIN q = 1 .. Len(q)
         /\ \A k \in DOMAIN q : q[k] \in Batch /\ q[k].id \in Nat /\ q[k].write \in Nat
<1>1. Len(q) \in Nat /\ DOMAIN q = 1 .. Len(q)
  OBVIOUS
<1>2. ASSUME NEW k \in DOMAIN q PROVE q[k] \in Batch /\ q[k].id \in Nat /\ q[k].write \in Nat
  <2>1. q[k] \in Batch
    OBVIOUS
  <2> QED
    BY <2>1 DEF Batch
<1> QED
  BY <1>1, <1>2

\* Where the elements of sequences are that were put together, ...
LEMMA ConcatAt ==
  ASSUME NEW S, NEW s \in Seq(S), NEW t \in Seq(S)
  PROVE  /\ s \o t \in Seq(S) /\ Len(s \o t) = Len(s) + Len(t)
         /\ Len(s) \in Nat /\ DOMAIN s = 1 .. Len(s) /\ Len(t) \in Nat /\ DOMAIN t = 1 .. Len(t)
         /\ DOMAIN (s \o t) = 1 .. Len(s) + Len(t)
         /\ \A k \in 1 .. Len(s) : (s \o t)[k] = s[k]
         /\ \A k \in 1 .. Len(t) : (s \o t)[Len(s) + k] = t[k]
OBVIOUS

\* ... extended by an element, ...
LEMMA AppendAt ==
  ASSUME NEW S, NEW s \in Seq(S), NEW a \in S
  PROVE  /\ Append(s, a) \in Seq(S) /\ Append(s, a) # <<>>
         /\ Len(s) \in Nat /\ DOMAIN s = 1 .. Len(s) /\ Len(Append(s, a)) = Len(s) + 1
         /\ DOMAIN Append(s, a) = 1 .. Len(s) + 1
         /\ Append(s, a)[Len(s) + 1] = a
         /\ \A k \in DOMAIN s : Append(s, a)[k] = s[k]
OBVIOUS

\* ... or lost the first one.
LEMMA TailAt ==
  ASSUME NEW S, NEW s \in Seq(S), s # <<>>
  PROVE  /\ Head(s) = s[1] /\ 1 \in DOMAIN s /\ Head(s) \in S
         /\ Len(s) \in Nat /\ DOMAIN s = 1 .. Len(s) /\ Len(s) >= 1
         /\ Tail(s) \in Seq(S) /\ Len(Tail(s)) = Len(s) - 1
         /\ DOMAIN Tail(s) = 1 .. Len(s) - 1
         /\ \A k \in DOMAIN Tail(s) : k + 1 \in DOMAIN s /\ Tail(s)[k] = s[k + 1]
OBVIOUS

\* t is s without its positions m + 1 to m + n.
Cut(s, t, m, n) ==
    /\ Len(t) = Len(s) - n
    /\ \A k \in 1 .. m : t[k] = s[k]
    /\ \A k \in m + 1 .. Len(t) : t[k] = s[k + n]

\* Keeping all positions but an interval is a cut.
LEMMA KeptFacts ==
  ASSUME NEW S, NEW s \in Seq(S), NEW m \in Nat, NEW n \in Nat, m + n <= Len(s),
         NEW K, K = {k \in DOMAIN s : k <= m \/ k > m + n}
  PROVE  Kept(s, K) \in Seq(S) /\ Cut(s, Kept(s, K), m, n)
<1> DEFINE size     == Len(s)
           upto(k)  == {j \in K : j <= k}
           place(k) == Cardinality(upto(k))
           nth(i)   == CHOOSE k \in K : place(k) = i
           at(i)    == IF i <= m THEN i ELSE i + n
<1>1. size \in Nat /\ DOMAIN s = 1 .. size /\ m + n <= size
  OBVIOUS
<1>2. \A k : k \in K <=> k \in 1 .. size /\ (k <= m \/ k > m + n)
  BY <1>1
<1> HIDE DEF size
<1>3. ASSUME NEW k \in 0 .. m PROVE upto(k) = 1 .. k /\ IsFiniteSet(upto(k)) /\ place(k) = k
  <2>1. \A j : j \in K /\ j <= k <=> j \in 1 .. k
    BY <1>1, <1>2
  <2>2. upto(k) = 1 .. k
    BY <2>1
  <2>3. IsFiniteSet(1 .. k) /\ Cardinality(1 .. k) = k
    BY FS_Interval
  <2> QED
    BY <2>2, <2>3
<1>4. ASSUME NEW k \in m + n .. size
      PROVE  IsFiniteSet(upto(k)) /\ place(k) = k - n
  <2>1. \A j : j \in K /\ j <= k <=> j \in 1 .. m \/ j \in m + n + 1 .. k
    BY <1>1, <1>2
  <2>2. upto(k) = (1 .. m) \cup (m + n + 1 .. k)
    BY <2>1
  <2>3. IsFiniteSet(1 .. m) /\ Cardinality(1 .. m) = m
    BY FS_Interval
  <2>4. IsFiniteSet(m + n + 1 .. k) /\ Cardinality(m + n + 1 .. k) = k - m - n
    <3>1. m + n + 1 \in Int /\ k \in Int /\ (m + n + 1 > k => k = m + n)
      BY <1>1
    <3>2. /\ IsFiniteSet(m + n + 1 .. k)
          /\ Cardinality(m + n + 1 .. k) = IF m + n + 1 > k THEN 0 ELSE k - (m + n + 1) + 1
      BY <3>1, FS_Interval
    <3> QED
      BY <3>1, <3>2
  <2>5. (1 .. m) \cap (m + n + 1 .. k) = {}
    BY <1>1
  <2>6. Cardinality({}) = 0
    BY FS_EmptySet
  <2> DEFINE A == 1 .. m
             B == m + n + 1 .. k
  <2>7. /\ IsFiniteSet(A \cup B)
        /\ Cardinality(A \cup B) = Cardinality(A) + Cardinality(B) - Cardinality(A \cap B)
    <3> HIDE DEF A, B
    <3>1. IsFiniteSet(A) /\ IsFiniteSet(B)
      BY <2>3, <2>4 DEF A, B
    <3> QED
      BY <3>1, FS_Union
  <2> QED
    <3>1. Cardinality(upto(k)) = m + (k - m - n) - 0 /\ IsFiniteSet(upto(k))
      BY <2>2, <2>3, <2>4, <2>5, <2>6, <2>7
    <3>2. k \in Int
      BY <1>1
    <3> HIDE DEF upto
    <3> QED
      BY <3>1, <3>2
<1>5. Cardinality(K) = size - n
  <2>1. upto(size) = K
    BY <1>1, <1>2
  <2>2. place(size) = size - n
    BY <1>1, <1>4
  <2> QED
    BY <2>1, <2>2
<1> DEFINE before(k) == place(k) = k
           behind(k) == place(k) = k - n
<1>a. (\A k \in 0 .. m : before(k)) /\ (\A k \in m + n .. size : behind(k))
  BY <1>3, <1>4
<1> HIDE DEF place, upto
<1>b. /\ \A k \in 0 .. m : place(k) = k
      /\ \A k \in m + n .. size : place(k) = k - n
  BY <1>a
<1> HIDE DEF before, behind
<1>6. ASSUME NEW i \in 1 .. size - n
      PROVE  nth(i) = at(i) /\ at(i) \in K /\ at(i) \in 1 .. size
  <2>1. at(i) \in K /\ at(i) \in 1 .. size
    BY <1>1, <1>2
  <2>2. place(at(i)) = i
    <3>1. CASE i <= m
      BY <1>b, <3>1
    <3>2. CASE i > m
      <4>1. at(i) = i + n /\ i + n \in m + n .. size
        BY <1>1, <3>2
      <4>2. place(i + n) = i + n - n
        BY <1>b, <4>1
      <4> QED
        BY <4>1, <4>2
    <3> QED
      BY <1>1, <3>1, <3>2
  <2>3. ASSUME NEW k \in K, place(k) = i PROVE k = at(i)
    <3>1. k \in 1 .. size /\ (k <= m \/ k > m + n)
      BY <1>2
    <3>2. CASE k <= m
      <4>1. place(k) = k
        BY <1>b, <3>1, <3>2
      <4> QED
        BY <2>3, <3>2, <4>1
    <3>3. CASE k > m + n
      <4>1. place(k) = k - n
        BY <1>1, <1>b, <3>1, <3>3
      <4> QED
        BY <1>1, <2>3, <3>1, <3>3, <4>1
    <3> QED
      BY <3>1, <3>2, <3>3
  <2> HIDE DEF place, at
  <2> QED
    BY <2>1, <2>2, <2>3
<1>7. Kept(s, K) = [i \in 1 .. size - n |-> s[nth(i)]]
  <2>1. Kept(s, K) = [i \in 1 .. Cardinality(K) |-> s[nth(i)]]
    BY DEF Kept, place, upto
  <2> HIDE DEF nth
  <2> QED
    BY <1>5, <2>1
<1> HIDE DEF nth
<1> DEFINE t == [i \in 1 .. size - n |-> s[at(i)]]
<1>8. Kept(s, K) = t
  <2> HIDE DEF at
  <2> QED
    BY <1>6, <1>7
<1>9. t \in Seq(S) /\ Len(t) = size - n
  <2>1. size - n \in Nat
    BY <1>1
  <2>2. \A i \in 1 .. size - n : s[at(i)] \in S
    BY <1>1, <1>6
  <2> HIDE DEF at
  <2> QED
    BY <2>1, <2>2
<1>10. \A k \in 1 .. m : t[k] = s[k]
  BY <1>1
<1>11. \A k \in m + 1 .. size - n : t[k] = s[k + n]
  BY <1>1
<1> HIDE DEF t
<1> QED
  BY <1>8, <1>9, <1>10, <1>11 DEF Cut, size

\* Removing the batches of an interval is a cut.
LEMMA WithoutFacts ==
  ASSUME NEW q \in Seq(Batch), Ascending(q), NEW m \in Nat, NEW n \in Nat, m + n <= Len(q),
         NEW ids, ids = {q[k].id : k \in m + 1 .. m + n}
  PROVE  Without(q, ids) \in Seq(Batch) /\ Cut(q, Without(q, ids), m, n)
<1> DEFINE K == {k \in DOMAIN q : q[k].id \notin ids}
<1>1. DOMAIN q = 1 .. Len(q) /\ Len(q) \in Nat /\ \A k \in DOMAIN q : q[k].id \in Nat
  BY BatchFacts
<1>2. \A i, j \in DOMAIN q : q[i].id = q[j].id => i = j
  BY <1>1 DEF Ascending
<1>3. ASSUME NEW k \in DOMAIN q PROVE q[k].id \in ids <=> k \in m + 1 .. m + n
  <2>1. \A j \in m + 1 .. m + n : j \in DOMAIN q
    BY <1>1
  <2>2. q[k].id \in ids <=> \E j \in m + 1 .. m + n : q[k].id = q[j].id
    OBVIOUS
  <2> QED
    BY <1>2, <2>1, <2>2
<1>4. K = {k \in DOMAIN q : k <= m \/ k > m + n}
  BY <1>1, <1>3
<1> HIDE DEF K
<1>5. Kept(q, K) \in Seq(Batch) /\ Cut(q, Kept(q, K), m, n)
  BY <1>4, KeptFacts
<1> QED
  BY <1>5 DEF K, Without

\* The batches after the first h are those with a higher id.
LEMMA AfterFacts ==
  ASSUME NEW q \in Seq(Batch), NEW acked \in Int, NEW h, SplitAt(q, acked, h)
  PROVE  After(q, acked) \in Seq(Batch) /\ Cut(q, After(q, acked), 0, h)
<1> DEFINE later == {k \in DOMAIN q : q[k].id > acked}
           n     == Len(q)
<1>1. /\ n \in Nat /\ DOMAIN q = 1 .. n /\ h \in Nat /\ h <= n
      /\ \A k \in DOMAIN q : q[k].id \in Nat
  BY BatchFacts DEF SplitAt
<1>2. \A k \in DOMAIN q : k \in later <=> k > h
  BY <1>1 DEF SplitAt
<1>3. CASE h = n
  <2>1. later = {}
    BY <1>1, <1>2, <1>3
  <2> DEFINE t == After(q, acked)
  <2>2. t = <<>>
    BY <2>1 DEF After
  <2>3. t \in Seq(Batch) /\ Len(t) = 0
    BY <2>2
  <2> HIDE DEF t
  <2>4. Len(t) = n - h
    BY <1>1, <1>3, <2>3
  <2>5. /\ \A k \in 1 .. 0 : t[k] = q[k]
        /\ \A k \in 0 + 1 .. Len(t) : t[k] = q[k + h]
    BY <2>3
  <2>6. t \in Seq(Batch) /\ Cut(q, t, 0, h)
    BY <2>3, <2>4, <2>5 DEF Cut
  <2> QED
    BY <2>6 DEF t
<1>4. CASE h < n
  <2>1. h + 1 \in later /\ later \in SUBSET Nat
    BY <1>1, <1>2, <1>4
  <2>2. Min(later) \in later /\ \A y \in later : Min(later) <= y
    <3> HIDE DEF later
    <3> QED
      BY <2>1, MinFacts
  <2>3. Min(later) = h + 1
    <3> DEFINE x == Min(later)
    <3>1. x \in DOMAIN q /\ x \in later /\ x <= h + 1
      BY <2>1, <2>2
    <3>2. x > h
      BY <1>2, <3>1
    <3>3. x \in Nat
      BY <2>1, <3>1
    <3> HIDE DEF x
    <3>4. x = h + 1
      BY <1>1, <3>1, <3>2, <3>3
    <3> QED
      BY <3>4 DEF x
  <2>4. After(q, acked) = SubSeq(q, h + 1, n)
    BY <2>1, <2>3 DEF After
  <2>5. /\ SubSeq(q, h + 1, n) \in Seq(Batch) /\ Len(SubSeq(q, h + 1, n)) = n - h
        /\ \A k \in 1 .. n - h : SubSeq(q, h + 1, n)[k] = q[k + h]
    BY <1>1, <1>4, SMTT(30)
  <2> DEFINE t == After(q, acked)
  <2>6. t \in Seq(Batch) /\ Len(t) = n - h /\ \A k \in 1 .. n - h : t[k] = q[k + h]
    BY <2>4, <2>5
  <2> HIDE DEF t
  <2>7. Cut(q, t, 0, h)
    BY <1>1, <2>6 DEF Cut
  <2> QED
    BY <2>6, <2>7 DEF t
<1> HIDE DEF n
<1>5. h = n \/ h < n
  BY <1>1
<1> QED
  BY <1>3, <1>4, <1>5

\* There is such an h.
LEMMA SplitExists ==
  ASSUME NEW q \in Seq(Batch), Ascending(q), NEW acked \in Int
  PROVE  \E h \in Nat : SplitAt(q, acked, h)
<1> DEFINE later == {k \in DOMAIN q : q[k].id > acked}
           n     == Len(q)
<1>1. n \in Nat /\ DOMAIN q = 1 .. n /\ \A k \in DOMAIN q : q[k].id \in Nat
  BY BatchFacts
<1>2. CASE later = {}
  <2>1. SplitAt(q, acked, n)
    BY <1>1, <1>2 DEF SplitAt
  <2> QED
    BY <1>1, <2>1
<1>3. CASE later # {}
  <2>1. Min(later) \in later /\ \A y \in later : Min(later) <= y
    <3>1. later \in SUBSET Nat
      BY <1>1
    <3> HIDE DEF later
    <3> QED
      BY <1>3, <3>1, MinFacts
  <2> DEFINE h == Min(later) - 1
  <2>2. h \in Nat /\ h <= n /\ h + 1 \in DOMAIN q /\ q[h + 1].id > acked
    BY <1>1, <2>1
  <2>3. ASSUME NEW k \in DOMAIN q PROVE q[k].id <= acked <=> k <= h
    <3>1. CASE k <= h
      <4>1. k \notin later
        <5>1. k \in later => Min(later) <= k
          BY <2>1
        <5>2. ~ (h + 1 <= k) /\ h + 1 = Min(later)
          BY <1>1, <2>1, <2>2, <3>1
        <5> HIDE DEF later
        <5> QED
          BY <5>1, <5>2
      <4> QED
        BY <1>1, <3>1, <4>1
    <3>2. CASE k = h + 1
      BY <1>1, <2>2, <3>2
    <3>3. CASE k > h + 1
      <4>1. q[h + 1].id < q[k].id
        BY <2>2, <3>3 DEF Ascending
      <4> QED
        BY <1>1, <2>2, <3>3, <4>1
    <3> QED
      BY <1>1, <2>2, <3>1, <3>2, <3>3
  <2> QED
    BY <2>2, <2>3 DEF SplitAt
<1> QED
  BY <1>2, <1>3

-----------------------------------------------------------------------------
(* What fillWritePipeline does *)

\* The fields of the remote store.
LEMMA RemoteFields ==
  ASSUME NEW r \in Remote
  PROVE  /\ r.pending \in Seq(Batch) /\ r.lastBatchSeen \in Int /\ r.state \in StreamState
         /\ r.handshakeComplete \in BOOLEAN /\ r.idle \in BOOLEAN
         /\ r.requests \in Seq(Nat) /\ r.responses \in Seq(Response)
BY DEF Remote

\* How many batches a pipeline has gained.
Gained(r, d) == Len(d.pending) - Len(r.pending)

\* d is r with more batches in its pipeline.  They are sent at once on a stream
\* past its handshake, and start a stream that is down.
Fills(r, d, q) ==
    /\ d \in Remote /\ d.responses = r.responses
    /\ Gained(r, d) \in Nat
    /\ \A k \in DOMAIN r.pending : d.pending[k] = r.pending[k]
    /\ d.lastBatchSeen = r.lastBatchSeen \/ \E k \in DOMAIN q : d.lastBatchSeen = q[k].id
    /\ \/ /\ d.state = r.state /\ d.handshakeComplete = r.handshakeComplete
          /\ d.requests = r.requests
          /\ Gained(r, d) # 0 => IsStarted(r) /\ ~r.handshakeComplete
       \/ /\ ~IsStarted(r) /\ d.state \in {"Auth", "Backoff"} /\ ~d.handshakeComplete
          /\ d.requests = r.requests
       \/ /\ IsStarted(r) /\ d.state = r.state /\ r.handshakeComplete /\ d.handshakeComplete
          /\ Len(d.requests) = Len(r.requests) + Gained(r, d)
          /\ \A k \in DOMAIN r.requests : d.requests[k] = r.requests[k]
          /\ \A k \in 1 .. Gained(r, d) :
               d.requests[Len(r.requests) + k] = d.pending[Len(r.pending) + k].write

\* The pipeline is filled from the batches behind it.
LEMMA FillFacts ==
  ASSUME NEW r \in Remote, NEW q \in Seq(Batch), Ascending(q), NEW acked \in Int, NEW h,
         SplitAt(q, acked, h), PipeOk(r, q, acked, h)
  PROVE  /\ Fills(r, FillWritePipeline(r, q, acked), q)
         /\ PipeOk(FillWritePipeline(r, q, acked), q, acked, h)
         /\ Full(FillWritePipeline(r, q, acked), q, h)
<1> DEFINE seen   == Max({r.lastBatchSeen, acked})
           unseen == After(q, seen)
           room   == MaxPendingWrites - Len(r.pending)
           c      == Min({room, Len(unseen)})
           new    == SubSeq(unseen, 1, c)
           p      == Len(r.pending)
           filled == [r EXCEPT !.pending = @ \o new, !.lastBatchSeen = Last(new).id]
           d      == FillWritePipeline(r, q, acked)
           n      == Len(q)
<1>1. /\ r.pending \in Seq(Batch) /\ r.lastBatchSeen \in Int /\ r.state \in StreamState
      /\ r.handshakeComplete \in BOOLEAN /\ r.requests \in Seq(Nat)
      /\ r.responses \in Seq(Response)
  BY RemoteFields
<1>2. /\ n \in Nat /\ DOMAIN q = 1 .. n
      /\ \A k \in DOMAIN q : q[k] \in Batch /\ q[k].id \in Nat /\ q[k].write \in Nat
  BY BatchFacts
<1>3. /\ p \in Nat /\ DOMAIN r.pending = 1 .. p /\ h \in Nat /\ h <= n /\ h + p <= n
      /\ p <= MaxPendingWrites
  BY <1>1 DEF PipeOk, SplitAt
<1>4. MaxPendingWrites \in Nat
  BY PipelineAssumption
<1>5. seen \in Int /\ \A x \in Int : x <= seen <=> x <= r.lastBatchSeen \/ x <= acked
  <2>1. seen = IF r.lastBatchSeen >= acked THEN r.lastBatchSeen ELSE acked
    BY <1>1, PairFacts
  <2> HIDE DEF seen
  <2> QED
    BY <1>1, <2>1
<1> HIDE DEF seen, n, p
<1>6. SplitAt(q, seen, h + p)
  <2>1. \A k \in DOMAIN q : q[k].id <= seen <=> k <= h + p
    BY <1>2, <1>5 DEF PipeOk, p
  <2> QED
    BY <1>3, <2>1 DEF SplitAt, n
<1>7. unseen \in Seq(Batch) /\ Cut(q, unseen, 0, h + p)
  BY <1>5, <1>6, AfterFacts
<1> HIDE DEF unseen
<1>8. /\ Len(unseen) = n - h - p /\ Len(unseen) \in Nat
      /\ \A k \in 1 .. Len(unseen) : unseen[k] = q[k + (h + p)]
  <2>1. Len(unseen) = n - (h + p)
    BY <1>7 DEF Cut, n
  <2>2. Len(unseen) \in Nat
    BY <1>7
  <2>3. \A k \in 0 + 1 .. Len(unseen) : unseen[k] = q[k + (h + p)]
    BY <1>7 DEF Cut
  <2> QED
    BY <1>2, <1>3, <2>1, <2>2, <2>3
<1>9. room \in Nat /\ room = MaxPendingWrites - p
  BY <1>3, <1>4 DEF p
<1> HIDE DEF room
<1>10. c = IF room <= Len(unseen) THEN room ELSE Len(unseen)
  <2>1. room \in Int /\ Len(unseen) \in Int
    BY <1>8, <1>9
  <2> QED
    BY <2>1, PairFacts
<1> HIDE DEF c
<1>11. /\ c \in Nat /\ c <= Len(unseen) /\ h + p + c <= n /\ p + c <= MaxPendingWrites
       /\ p + c = MaxPendingWrites \/ h + (p + c) = n
  BY <1>2, <1>3, <1>4, <1>8, <1>9, <1>10
<1>12. new \in Seq(Batch) /\ Len(new) = c /\ \A k \in 1 .. c : new[k] = unseen[k]
  BY <1>7, <1>8, <1>11
<1> HIDE DEF new
<1>13. \A k \in 1 .. c : new[k] = q[h + (p + k)] /\ h + (p + k) \in DOMAIN q
  BY <1>2, <1>3, <1>8, <1>11, <1>12
<1>14. new = <<>> <=> c = 0
  BY <1>12
<1>15. CASE c = 0
  <2>1. d = r \/ d = MarkIdle(r)
    BY <1>14, <1>15 DEF FillWritePipeline, new, unseen, seen, room, c
  <2>2. /\ d \in Remote /\ d.pending = r.pending /\ d.lastBatchSeen = r.lastBatchSeen
        /\ d.state = r.state /\ d.handshakeComplete = r.handshakeComplete
        /\ d.requests = r.requests /\ d.responses = r.responses
    BY <2>1 DEF MarkIdle, Remote
  <2> HIDE DEF d
  <2>3. Gained(r, d) = 0
    BY <1>3, <2>2 DEF Gained, p
  <2>4. Fills(r, d, q)
    BY <2>2, <2>3 DEF Fills
  <2>5. PipeOk(d, q, acked, h)
    BY <2>2 DEF PipeOk
  <2>6. Full(d, q, h)
    BY <1>3, <1>11, <1>15, <2>2 DEF Full, p, n
  <2> QED
    BY <2>4, <2>5, <2>6 DEF d
<1>16. CASE c # 0
  <2>1. Last(new) = new[c]
    BY <1>12 DEF Last
  <2>2. Last(new) = q[h + (p + c)] /\ h + (p + c) \in DOMAIN q
    BY <1>11, <1>13, <1>16, <2>1
  <2> DEFINE z == h + (p + c)
  <2>3. /\ filled \in Remote /\ filled.pending = r.pending \o new /\ filled.lastBatchSeen = q[z].id
        /\ filled.state = r.state /\ filled.handshakeComplete = r.handshakeComplete
        /\ filled.requests = r.requests /\ filled.responses = r.responses
    <3>1. r.pending \o new \in Seq(Batch) /\ q[z].id \in Int
      BY <1>1, <1>2, <1>12, <2>2
    <3> QED
      BY <2>2, <3>1 DEF Remote
  <2>4. /\ WritesOf(new) \in Seq(Nat) /\ Len(WritesOf(new)) = c
        /\ \A k \in 1 .. c : WritesOf(new)[k] = new[k].write
    <3>1. DOMAIN new = 1 .. c /\ \A k \in 1 .. c : new[k].write \in Nat
      BY <1>2, <1>12, <1>13
    <3>2. WritesOf(new) = [k \in 1 .. c |-> new[k].write]
      BY <3>1 DEF WritesOf
    <3> QED
      BY <1>11, <3>1, <3>2
  <2> DEFINE sent == [filled EXCEPT !.requests = @ \o WritesOf(new), !.idle = FALSE]
  <2>5. \/ ~IsStarted(r) /\ d = Start(filled)
        \/ IsStarted(r) /\ r.handshakeComplete /\ d = sent
        \/ IsStarted(r) /\ ~r.handshakeComplete /\ d = filled
    BY <1>14, <1>16 DEF FillWritePipeline, new, unseen, seen, room, c
  <2> HIDE DEF filled
  <2>6. /\ sent \in Remote
        /\ sent = [filled EXCEPT !.requests = r.requests \o WritesOf(new), !.idle = FALSE]
    <3>1. r.requests \o WritesOf(new) \in Seq(Nat)
      BY <1>1, <2>4
    <3> QED
      BY <2>3, <3>1 DEF Remote
  <2>7. /\ Start(filled) \in Remote /\ Start(filled).state \in {"Auth", "Backoff"}
        /\ ~Start(filled).handshakeComplete /\ Start(filled).requests = r.requests
        /\ Start(filled).responses = r.responses /\ Start(filled).pending = filled.pending
        /\ Start(filled).lastBatchSeen = filled.lastBatchSeen
    BY <2>3 DEF Start, Remote, StreamState
  <2>8. /\ sent.state = r.state /\ sent.handshakeComplete = r.handshakeComplete
        /\ sent.requests = r.requests \o WritesOf(new)
        /\ sent.responses = r.responses /\ sent.pending = filled.pending
        /\ sent.lastBatchSeen = filled.lastBatchSeen
    BY <2>3, <2>6 DEF Remote
  <2> HIDE DEF sent, d, z
  <2>9. /\ d \in Remote /\ d.responses = r.responses /\ d.pending = r.pending \o new
        /\ d.lastBatchSeen = q[z].id
    BY <2>3, <2>5, <2>6, <2>7, <2>8
  <2>10. /\ Len(d.pending) = p + c
         /\ DOMAIN d.pending = 1 .. p + c
         /\ \A k \in 1 .. p : d.pending[k] = r.pending[k]
         /\ \A k \in 1 .. c : d.pending[p + k] = new[k]
    <3> DEFINE s == r.pending
    <3>1. s \in Seq(Batch) /\ Len(s) = p
      BY <1>1 DEF p
    <3> HIDE DEF s
    <3>2. /\ Len(s \o new) = Len(s) + Len(new)
          /\ DOMAIN (s \o new) = 1 .. Len(s) + Len(new)
          /\ \A k \in 1 .. Len(s) : (s \o new)[k] = s[k]
          /\ \A k \in 1 .. Len(new) : (s \o new)[Len(s) + k] = new[k]
      <4>1. new \in Seq(Batch) /\ s \in Seq(Batch)
        BY <1>12, <3>1
      <4> QED
        BY <4>1, ConcatAt
    <3>3. d.pending = s \o new
      BY <2>9 DEF s
    <3>4. /\ Len(d.pending) = p + c
          /\ DOMAIN d.pending = 1 .. p + c
          /\ \A k \in 1 .. p : d.pending[k] = s[k]
          /\ \A k \in 1 .. c : d.pending[p + k] = new[k]
      BY <1>12, <3>1, <3>2, <3>3, Zenon
    <3> QED
      BY <3>4 DEF s
  <2>11. Gained(r, d) = c
    <3>1. Gained(r, d) = (p + c) - p
      BY <2>10 DEF Gained, p
    <3> QED
      BY <1>3, <1>11, <3>1
  <2>12. Fills(r, d, q)
    <3>1. CASE ~IsStarted(r) /\ d = Start(filled)
      BY <1>3, <1>11, <2>2, <2>7, <2>9, <2>10, <2>11, <3>1 DEF Fills, z
    <3>2. CASE IsStarted(r) /\ ~r.handshakeComplete /\ d = filled
      BY <1>3, <1>11, <2>2, <2>3, <2>9, <2>10, <2>11, <3>2 DEF Fills, z
    <3>3. CASE IsStarted(r) /\ r.handshakeComplete /\ d = sent
      <4>1. d.requests = r.requests \o WritesOf(new) /\ d.state = r.state /\ d.handshakeComplete
        BY <2>8, <3>3
      <4>2. /\ Len(d.requests) = Len(r.requests) + c
            /\ \A k \in DOMAIN r.requests : d.requests[k] = r.requests[k]
            /\ \A k \in 1 .. c : d.requests[Len(r.requests) + k] = WritesOf(new)[k]
        <5> DEFINE s == r.requests
                   t == WritesOf(new)
        <5>1. s \in Seq(Nat) /\ t \in Seq(Nat) /\ Len(t) = c /\ DOMAIN s = 1 .. Len(s)
          BY <1>1, <2>4
        <5> HIDE DEF s, t
        <5>2. /\ Len(s \o t) = Len(s) + Len(t)
              /\ \A k \in 1 .. Len(s) : (s \o t)[k] = s[k]
              /\ \A k \in 1 .. Len(t) : (s \o t)[Len(s) + k] = t[k]
          <6>1. s \in Seq(Nat) /\ t \in Seq(Nat)
            BY <5>1
          <6> QED
            BY <6>1, ConcatAt
        <5>3. d.requests = s \o t
          BY <4>1 DEF s, t
        <5>4. /\ Len(d.requests) = Len(s) + c
              /\ \A k \in DOMAIN s : d.requests[k] = s[k]
              /\ \A k \in 1 .. c : d.requests[Len(s) + k] = t[k]
          BY <5>1, <5>2, <5>3, Zenon
        <5> QED
          BY <5>4 DEF s, t
      <4>3. \A k \in 1 .. c : d.requests[Len(r.requests) + k] = d.pending[p + k].write
        BY <2>4, <2>10, <4>2
      <4> QED
        BY <1>3, <1>11, <2>2, <2>9, <2>10, <2>11, <3>3, <4>1, <4>2, <4>3 DEF Fills, z, p
    <3> QED
      BY <2>5, <3>1, <3>2, <3>3
  <2>13. \A k \in DOMAIN d.pending : d.pending[k] = q[h + k]
    <3> SUFFICES ASSUME NEW k \in 1 .. p + c PROVE d.pending[k] = q[h + k]
      BY <2>10
    <3>1. CASE k <= p
      <4>1. k \in 1 .. p
        BY <1>3, <1>11, <3>1
      <4>2. r.pending[k] = q[h + k]
        BY <1>3, <4>1 DEF PipeOk
      <4> QED
        BY <2>10, <4>1, <4>2
    <3>2. CASE k > p
      <4>1. k - p \in 1 .. c /\ p + (k - p) = k
        BY <1>3, <1>11, <3>2
      <4> QED
        BY <1>13, <2>10, <4>1
    <3> QED
      BY <1>3, <3>1, <3>2
  <2>14. ASSUME NEW k \in DOMAIN q
         PROVE  q[k].id <= d.lastBatchSeen \/ q[k].id <= acked <=> k <= z
    <3>1. z \in DOMAIN q /\ z \in Nat /\ h <= z
      BY <1>3, <1>11, <2>2 DEF z
    <3>2. /\ k < z => q[k].id < q[z].id
          /\ k > z => q[z].id < q[k].id
      BY <3>1 DEF Ascending
    <3>3. q[k].id \in Nat /\ q[z].id \in Nat /\ k \in Nat
      BY <1>2, <3>1
    <3>4. q[k].id <= q[z].id <=> k <= z
      BY <3>1, <3>2, <3>3
    <3>5. q[k].id <= acked => k <= h
      BY DEF SplitAt
    <3> QED
      BY <1>3, <2>9, <3>1, <3>3, <3>4, <3>5
  <2>15. PipeOk(d, q, acked, h)
    <3>1. h + Len(d.pending) = z
      BY <2>10 DEF z
    <3>2. h + Len(d.pending) <= Len(q) /\ Len(d.pending) <= MaxPendingWrites
      BY <1>3, <1>11, <2>10 DEF n
    <3> QED
      BY <2>13, <2>14, <3>1, <3>2 DEF PipeOk
  <2>16. Full(d, q, h)
    BY <1>11, <2>10 DEF Full, n
  <2> QED
    BY <2>12, <2>15, <2>16 DEF d
<1> QED
  BY <1>15, <1>16

-----------------------------------------------------------------------------
(* The stream *)

\* What was answered and what was ended depends on the responses only.
LEMMA AnsweredSame ==
  ASSUME NEW r, NEW d, d.responses = r.responses
  PROVE  Ended(d) = Ended(r) /\ Answered(d) = Answered(r)
BY DEF Answered, Ended

\* Answers are counted with natural numbers.
LEMMA AnsweredFacts ==
  ASSUME NEW r \in Remote
  PROVE  /\ Answered(r) \in Nat /\ Answered(r) <= Len(r.responses)
         /\ Ended(r) => r.responses # <<>> /\ Answered(r) = Len(r.responses) - 1
         /\ ~Ended(r) => Answered(r) = Len(r.responses)
<1>1. r.responses \in Seq(Response)
  BY RemoteFields
<1>2. Len(r.responses) \in Nat /\ (r.responses # <<>> => Len(r.responses) >= 1)
  BY <1>1
<1> QED
  BY <1>2 DEF Answered, Ended

\* Filling the pipeline keeps the stream in order.
LEMMA StreamFill ==
  ASSUME NEW r \in Remote, NEW d, NEW q, Fills(r, d, q), NEW done, StreamOk(r, done)
  PROVE  StreamOk(d, done) /\ (Greeted(d) => Greeted(r))
<1> DEFINE g == Gained(r, d)
           A == Answered(r)
           p == Len(r.pending)
           m == Len(r.requests)
<1>1. /\ d \in Remote /\ d.responses = r.responses /\ g \in Nat
      /\ \A k \in DOMAIN r.pending : d.pending[k] = r.pending[k]
  BY DEF Fills
<1>2. Answered(d) = A /\ A \in Nat /\ A <= Len(r.responses)
  BY <1>1, AnsweredSame, AnsweredFacts
<1>3. /\ r.pending \in Seq(Batch) /\ d.pending \in Seq(Batch)
      /\ r.requests \in Seq(Nat) /\ d.requests \in Seq(Nat)
      /\ r.handshakeComplete \in BOOLEAN
  BY <1>1, RemoteFields
<1>4. /\ p \in Nat /\ DOMAIN r.pending = 1 .. p /\ m \in Nat /\ DOMAIN r.requests = 1 .. m
      /\ Len(d.pending) \in Nat /\ Len(d.pending) = p + g
      /\ Len(d.requests) \in Nat /\ DOMAIN d.requests = 1 .. Len(d.requests)
  <2>1. /\ p \in Nat /\ DOMAIN r.pending = 1 .. p /\ m \in Nat /\ DOMAIN r.requests = 1 .. m
        /\ Len(d.pending) \in Nat /\ Len(d.requests) \in Nat
        /\ DOMAIN d.requests = 1 .. Len(d.requests)
    BY <1>3
  <2>2. Len(d.pending) = p + g
    BY <2>1 DEF Gained
  <2> QED
    BY <2>1, <2>2
<1> HIDE DEF g, A, p, m
<1>5. CASE /\ d.state = r.state /\ d.handshakeComplete = r.handshakeComplete
           /\ d.requests = r.requests
           /\ g # 0 => IsStarted(r) /\ ~r.handshakeComplete
  <2>1. CASE r.state = "Open" /\ r.handshakeComplete
    <3>1. g = 0
      BY <1>5, <2>1
    <3>2. Len(d.pending) = p
      BY <1>4, <3>1
    <3>3. WritesOk(r, done)
      BY <2>1 DEF StreamOk
    <3>4. /\ A + m = p /\ A <= Len(done)
          /\ \A k \in 1 .. A : /\ r.responses[k].type = "ack"
                               /\ r.responses[k].version = Len(done) - A + k
                               /\ done[r.responses[k].version] = r.pending[k].write
          /\ \A k \in 1 .. m : r.requests[k] = r.pending[A + k].write
      BY <1>4, <3>3 DEF WritesOk, A, m, p
    <3>5. /\ \A k \in 1 .. A : d.pending[k] = r.pending[k]
          /\ \A k \in 1 .. m : d.pending[A + k] = r.pending[A + k]
      <4>1. \A k \in 1 .. A : k \in DOMAIN r.pending
        BY <1>2, <1>4, <3>4
      <4>2. \A k \in 1 .. m : A + k \in DOMAIN r.pending
        BY <1>2, <1>4, <3>4
      <4> QED
        BY <1>1, <4>1, <4>2
    <3>6. WritesOk(d, done)
      BY <1>1, <1>2, <1>4, <1>5, <3>2, <3>4, <3>5 DEF WritesOk, m
    <3> QED
      BY <1>1, <1>5, <2>1, <3>6 DEF StreamOk, Greeted
  <2>2. CASE ~ (r.state = "Open" /\ r.handshakeComplete)
    BY <1>1, <1>2, <1>5, <2>2 DEF StreamOk, HandshakeOk, Greeted, A
  <2> QED
    BY <2>1, <2>2
<1>6. CASE /\ ~IsStarted(r) /\ d.state \in {"Auth", "Backoff"} /\ ~d.handshakeComplete
           /\ d.requests = r.requests
  <2>1. r.state # "Open"
    BY <1>6 DEF IsStarted
  <2> QED
    BY <1>1, <1>6, <2>1 DEF StreamOk, Greeted
<1>7. CASE /\ IsStarted(r) /\ d.state = r.state /\ r.handshakeComplete /\ d.handshakeComplete
           /\ Len(d.requests) = m + g
           /\ \A k \in DOMAIN r.requests : d.requests[k] = r.requests[k]
           /\ \A k \in 1 .. g : d.requests[m + k] = d.pending[p + k].write
  <2>1. r.state = "Open"
    BY <1>7 DEF IsStarted, StreamOk
  <2>2. WritesOk(r, done)
    BY <1>7, <2>1 DEF StreamOk
  <2>3. /\ A + m = p /\ A <= Len(done)
        /\ \A k \in 1 .. A : /\ r.responses[k].type = "ack"
                             /\ r.responses[k].version = Len(done) - A + k
                             /\ done[r.responses[k].version] = r.pending[k].write
        /\ \A k \in 1 .. m : r.requests[k] = r.pending[A + k].write
    BY <1>4, <2>2 DEF WritesOk, A, m, p
  <2>4. \A k \in 1 .. A : d.pending[k] = r.pending[k]
    <3>1. \A k \in 1 .. A : k \in DOMAIN r.pending
      BY <1>2, <1>4, <2>3
    <3> QED
      BY <1>1, <3>1
  <2>5. ASSUME NEW k \in 1 .. m + g PROVE d.requests[k] = d.pending[A + k].write
    <3>1. CASE k <= m
      <4>1. k \in 1 .. m /\ A + k \in 1 .. p
        BY <1>1, <1>2, <1>4, <2>3, <3>1
      <4>2. d.pending[A + k] = r.pending[A + k]
        BY <1>1, <1>4, <4>1
      <4> QED
        BY <1>4, <1>7, <2>3, <4>1, <4>2
    <3>2. CASE k > m
      <4> DEFINE i == k - m
      <4>1. i \in 1 .. g /\ k = m + i /\ A + k = p + i
        BY <1>1, <1>2, <1>4, <2>3, <3>2
      <4> HIDE DEF i
      <4>2. d.requests[m + i] = d.pending[p + i].write
        BY <1>7, <4>1
      <4> QED
        BY <4>1, <4>2
    <3> QED
      BY <1>1, <1>4, <3>1, <3>2
  <2>6. A + Len(d.requests) = Len(d.pending)
    BY <1>1, <1>2, <1>4, <1>7, <2>3
  <2>7. \A k \in DOMAIN d.requests : d.requests[k] = d.pending[A + k].write
    BY <1>4, <1>7, <2>5
  <2>8. WritesOk(d, done)
    BY <1>1, <1>2, <2>3, <2>4, <2>6, <2>7 DEF WritesOk
  <2> QED
    BY <1>1, <1>7, <2>1, <2>8 DEF StreamOk, Greeted
<1> QED
  BY <1>5, <1>6, <1>7 DEF Fills, g, m, p

\* A stream that is down, or starts, has nothing on its way.
Down(r) == r \in Remote /\ r.state \in {"Initial", "Error"} /\ r.requests = <<>> /\ r.responses = <<>>

\* It is in order, also when it is started again.
LEMMA DownFacts ==
  ASSUME NEW r, Down(r), NEW done
  PROVE  /\ StreamOk(r, done) /\ ~Greeted(r)
         /\ RestartIfNeeded(r) \in Remote
         /\ StreamOk(RestartIfNeeded(r), done) /\ ~Greeted(RestartIfNeeded(r))
         /\ RestartIfNeeded(r).state # "Open"
         /\ RestartIfNeeded(r).pending = r.pending
         /\ RestartIfNeeded(r).lastBatchSeen = r.lastBatchSeen
<1>1. \A k \in DOMAIN <<>> : FALSE
  OBVIOUS
<1>2. StreamOk(r, done) /\ ~Greeted(r)
  BY <1>1 DEF Down, StreamOk, Greeted
<1> DEFINE d == Start(r)
<1>3. /\ d \in Remote /\ d.state \in {"Auth", "Backoff"} /\ ~d.handshakeComplete
      /\ d.requests = r.requests /\ d.responses = r.responses
      /\ d.pending = r.pending /\ d.lastBatchSeen = r.lastBatchSeen
  BY DEF Start, Remote, StreamState, Down
<1> HIDE DEF d
<1>4. StreamOk(d, done) /\ ~Greeted(d) /\ d.state # "Open"
  BY <1>1, <1>3 DEF Down, StreamOk, Greeted
<1>5. RestartIfNeeded(r) = d \/ RestartIfNeeded(r) = r
  BY DEF RestartIfNeeded, d
<1>6. r \in Remote /\ r.state # "Open"
  BY DEF Down
<1> QED
  BY <1>2, <1>3, <1>4, <1>5, <1>6

\* Closing takes a stream down and leaves the pipeline.
LEMMA CloseFacts ==
  ASSUME NEW r \in Remote, NEW final \in {"Initial", "Error"}
  PROVE  /\ Down(Close(r, final)) /\ Close(r, final).pending = r.pending
         /\ Close(r, final).lastBatchSeen = r.lastBatchSeen
<1>1. <<>> \in Seq(Nat) /\ <<>> \in Seq(Response)
  OBVIOUS
<1> QED
  BY <1>1 DEF Close, Remote, StreamState, Down

-----------------------------------------------------------------------------
(* The queue on disk *)

\* A queue stays in order when ids, authors and the log only grow.
LEMMA QueueMore ==
  ASSUME NEW q \in Seq(Batch), NEW a, NEW w, NEW next, NEW au, NEW done, NEW u,
         QueueOk(q, a, w, next, au, done, u),
         NEW next2, \A k \in DOMAIN q : q[k].id < next2,
         NEW au2, \A k \in DOMAIN au : k \in DOMAIN au2 /\ au2[k] = au[k],
         NEW done2, Range(done) \subseteq Range(done2)
  PROVE  QueueOk(q, a, w, next2, au2, done2, u)
BY DEF QueueOk

\* Where the elements of a cut sequence come from.
LEMMA CutAt ==
  ASSUME NEW S, NEW s \in Seq(S), NEW t \in Seq(S), NEW m \in Nat, NEW n \in Nat,
         m + n <= Len(s), Cut(s, t, m, n)
  PROVE  /\ Len(s) \in Nat /\ DOMAIN s = 1 .. Len(s) /\ Len(t) \in Nat /\ DOMAIN t = 1 .. Len(t)
         /\ Len(t) = Len(s) - n
         /\ \A k \in DOMAIN t : k <= m => k \in DOMAIN s /\ t[k] = s[k]
         /\ \A k \in DOMAIN t : k > m => k + n \in DOMAIN s /\ t[k] = s[k + n]
<1>1. /\ Len(s) \in Nat /\ DOMAIN s = 1 .. Len(s) /\ Len(t) \in Nat /\ DOMAIN t = 1 .. Len(t)
  OBVIOUS
<1>2. /\ Len(t) = Len(s) - n
      /\ \A k \in 1 .. m : t[k] = s[k]
      /\ \A k \in m + 1 .. Len(t) : t[k] = s[k + n]
  BY DEF Cut
<1>3. ASSUME NEW k \in DOMAIN t, k <= m PROVE k \in DOMAIN s /\ t[k] = s[k]
  <2>1. k \in 1 .. m /\ k \in 1 .. Len(s)
    BY <1>1, <1>3
  <2> QED
    BY <1>1, <1>2, <2>1
<1>4. ASSUME NEW k \in DOMAIN t, k > m PROVE k + n \in DOMAIN s /\ t[k] = s[k + n]
  <2>1. k \in m + 1 .. Len(t) /\ k + n \in 1 .. Len(s)
    BY <1>1, <1>2, <1>4
  <2> QED
    BY <1>1, <1>2, <2>1
<1> QED
  BY <1>1, <1>2, <1>3, <1>4

\* A cut queue is ascending and has what was not cut out.
LEMMA CutQueue ==
  ASSUME NEW q \in Seq(Batch), Ascending(q), NEW t \in Seq(Batch), NEW m \in Nat, NEW n \in Nat,
         m + n <= Len(q), Cut(q, t, m, n)
  PROVE  /\ Ascending(t)
         /\ \A k \in DOMAIN t : \E j \in DOMAIN q : t[k] = q[j]
         /\ \A j \in DOMAIN q : j <= m \/ j > m + n => \E k \in DOMAIN t : t[k] = q[j]
<1>1. /\ Len(q) \in Nat /\ DOMAIN q = 1 .. Len(q) /\ Len(t) \in Nat /\ DOMAIN t = 1 .. Len(t)
      /\ Len(t) = Len(q) - n
      /\ \A k \in DOMAIN t : k <= m => k \in DOMAIN q /\ t[k] = q[k]
      /\ \A k \in DOMAIN t : k > m => k + n \in DOMAIN q /\ t[k] = q[k + n]
  BY CutAt
<1> DEFINE at(k) == IF k <= m THEN k ELSE k + n
<1>2. \A k \in DOMAIN t : at(k) \in DOMAIN q /\ t[k] = q[at(k)]
  BY <1>1
<1>3. \A i, j \in DOMAIN t : i < j => at(i) < at(j)
  BY <1>1
<1>4. Ascending(t)
  <2> HIDE DEF at
  <2> QED
    BY <1>2, <1>3 DEF Ascending
<1>5. ASSUME NEW j \in DOMAIN q, j <= m \/ j > m + n
      PROVE  \E k \in DOMAIN t : t[k] = q[j]
  <2>1. CASE j <= m
    <3>1. j \in DOMAIN t
      BY <1>1, <2>1
    <3> QED
      BY <1>1, <2>1, <3>1
  <2>2. CASE j > m + n
    <3>1. j - n \in DOMAIN t /\ j - n > m /\ (j - n) + n = j
      BY <1>1, <2>2
    <3> QED
      BY <1>1, <3>1
  <2> QED
    BY <1>5, <2>1, <2>2
<1> QED
  BY <1>2, <1>4, <1>5

\* So it stays in order, for the blocks that do not wait for what was cut out.
LEMMA QueueCut ==
  ASSUME NEW q \in Seq(Batch), NEW a, NEW w, NEW next, NEW au, NEW done, NEW u,
         QueueOk(q, a, w, next, au, done, u),
         NEW t \in Seq(Batch), NEW m \in Nat, NEW n \in Nat, m + n <= Len(q), Cut(q, t, m, n),
         t # <<>> => a <= t[Len(t)].id,
         NEW w2 \in SUBSET w, \A b \in w2 : \A k \in m + 1 .. m + n : b # q[k]
  PROVE  QueueOk(t, a, w2, next, au, done, u)
<1>1. Ascending(q)
  BY DEF QueueOk
<1>2. /\ Ascending(t)
      /\ \A k \in DOMAIN t : \E j \in DOMAIN q : t[k] = q[j]
      /\ \A j \in DOMAIN q : j <= m \/ j > m + n => \E k \in DOMAIN t : t[k] = q[j]
  BY <1>1, CutQueue
<1>3. \A k \in DOMAIN t : /\ t[k].id < next
                          /\ t[k].write \in DOMAIN au /\ au[t[k].write] = u
                          /\ t[k].id <= a => t[k].write \in Range(done)
  BY <1>2 DEF QueueOk
<1>4. ASSUME NEW b \in w2 PROVE \E k \in DOMAIN t : b = t[k] /\ b.id > a
  <2>1. PICK j \in DOMAIN q : b = q[j] /\ b.id > a
    BY DEF QueueOk
  <2>2. j \in Nat
    OBVIOUS
  <2>3. j <= m \/ j > m + n
    <3>1. j \notin m + 1 .. m + n
      BY <2>1
    <3> QED
      BY <2>2, <3>1
  <2> QED
    BY <1>2, <2>1, <2>3
<1> QED
  BY <1>2, <1>3, <1>4 DEF QueueOk

\* A new batch is queued last.
LEMMA QueueAppend ==
  ASSUME NEW q \in Seq(Batch), NEW a \in Int, NEW w, NEW next \in Nat, NEW U,
         NEW au \in Seq(U), NEW done, NEW u \in U,
         QueueOk(q, a, w, next, au, done, u), a < next,
         NEW b, b = [id |-> next, write |-> Len(au) + 1]
  PROVE  /\ b \in Batch /\ Append(q, b) \in Seq(Batch)
         /\ QueueOk(Append(q, b), a, w \cup {b}, next + 1, Append(au, u), done, u)
<1> DEFINE t == Append(q, b)
           n == Len(q)
           v == Append(au, u)
<1>1. /\ n \in Nat /\ DOMAIN q = 1 .. n
      /\ \A k \in DOMAIN q : q[k] \in Batch /\ q[k].id \in Nat /\ q[k].write \in Nat
  BY BatchFacts
<1>2. Len(au) \in Nat /\ DOMAIN au = 1 .. Len(au)
  OBVIOUS
<1>3. b \in Batch /\ b.id = next /\ b.write = Len(au) + 1
  BY <1>2 DEF Batch
<1>4. /\ t \in Seq(Batch) /\ t # <<>> /\ Len(t) = n + 1 /\ DOMAIN t = 1 .. n + 1
      /\ t[n + 1] = b /\ \A k \in DOMAIN q : t[k] = q[k]
  BY <1>3, AppendAt
<1>5. /\ Len(v) = Len(au) + 1 /\ DOMAIN v = 1 .. Len(au) + 1
      /\ v[Len(au) + 1] = u /\ \A k \in DOMAIN au : v[k] = au[k]
  BY AppendAt
<1> HIDE DEF t, n, v
<1>6. \A k \in DOMAIN q : /\ q[k].id < next /\ q[k].write \in 1 .. Len(au)
                          /\ au[q[k].write] = u
                          /\ q[k].id <= a => q[k].write \in Range(done)
  BY <1>2 DEF QueueOk
<1>7. \A k \in DOMAIN t : (k \in DOMAIN q /\ t[k] = q[k]) \/ (k = n + 1 /\ t[k] = b)
  BY <1>1, <1>4
<1>8. Ascending(t)
  <2> SUFFICES ASSUME NEW i \in DOMAIN t, NEW j \in DOMAIN t, i < j
               PROVE  t[i].id < t[j].id /\ t[i].write < t[j].write
    BY DEF Ascending
  <2>1. i \in DOMAIN q /\ t[i] = q[i]
    BY <1>1, <1>4, <1>7
  <2>2. CASE j \in DOMAIN q /\ t[j] = q[j]
    BY <2>1, <2>2 DEF QueueOk, Ascending
  <2>3. CASE t[j] = b
    BY <1>1, <1>2, <1>3, <1>6, <2>1, <2>3
  <2> QED
    BY <1>7, <2>2, <2>3
<1>9. ASSUME NEW k \in DOMAIN t
      PROVE  /\ t[k].id < next + 1
             /\ t[k].write \in DOMAIN v /\ v[t[k].write] = u
             /\ t[k].id <= a => t[k].write \in Range(done)
  <2>1. CASE k \in DOMAIN q /\ t[k] = q[k]
    <3>1. q[k].id \in Nat /\ q[k].id < next + 1
      BY <1>1, <1>6, <2>1
    <3>2. q[k].write \in DOMAIN au /\ q[k].write \in DOMAIN v
      BY <1>2, <1>5, <1>6, <2>1
    <3> QED
      BY <1>5, <1>6, <2>1, <3>1, <3>2
  <2>2. CASE t[k] = b
    BY <1>2, <1>3, <1>5, <2>2
  <2> QED
    BY <1>7, <2>1, <2>2
<1>10. a <= t[Len(t)].id
  BY <1>3, <1>4
<1>11. ASSUME NEW x \in w \cup {b} PROVE \E k \in DOMAIN t : x = t[k] /\ x.id > a
  <2>1. CASE x \in w
    <3>1. PICK k \in DOMAIN q : x = q[k] /\ x.id > a
      BY <2>1 DEF QueueOk
    <3>2. k \in DOMAIN t
      BY <1>1, <1>4
    <3> QED
      BY <1>4, <3>1, <3>2
  <2>2. CASE x = b
    <3>1. n + 1 \in DOMAIN t
      BY <1>1, <1>4
    <3> QED
      BY <1>3, <1>4, <2>2, <3>1
  <2> QED
    BY <2>1, <2>2
<1>12. a >= Unknown
  BY DEF QueueOk
<1>13. QueueOk(t, a, w \cup {b}, next + 1, v, done, u)
  BY <1>8, <1>9, <1>10, <1>11, <1>12 DEF QueueOk
<1> QED
  BY <1>3, <1>4, <1>13 DEF t, v

\* The first unacknowledged batch is acknowledged.
LEMMA QueueAck ==
  ASSUME NEW q \in Seq(Batch), NEW a \in Int, NEW w, NEW next, NEW au, NEW done, NEW u,
         QueueOk(q, a, w, next, au, done, u), NEW h, SplitAt(q, a, h), h + 1 <= Len(q),
         NEW b, b = q[h + 1], b.write \in Range(done)
  PROVE  /\ QueueOk(q, b.id, {x \in w : x.id # b.id}, next, au, done, u)
         /\ SplitAt(q, b.id, h + 1)
<1> DEFINE n == Len(q)
<1>1. /\ n \in Nat /\ DOMAIN q = 1 .. n
      /\ \A k \in DOMAIN q : q[k] \in Batch /\ q[k].id \in Nat /\ q[k].write \in Nat
  BY BatchFacts
<1>2. h \in Nat /\ h + 1 <= n /\ \A k \in DOMAIN q : q[k].id <= a <=> k <= h
  BY DEF SplitAt
<1> HIDE DEF n
<1>3. h + 1 \in DOMAIN q /\ b.id \in Nat
  BY <1>1, <1>2
<1>4. \A i, j \in DOMAIN q : i < j => q[i].id < q[j].id
  BY DEF QueueOk, Ascending
<1>5. ASSUME NEW k \in DOMAIN q PROVE q[k].id <= b.id <=> k <= h + 1
  <2>1. k < h + 1 \/ k = h + 1 \/ k > h + 1
    BY <1>1, <1>2
  <2>2. k < h + 1 => q[k].id < b.id
    BY <1>3, <1>4
  <2>3. k > h + 1 => b.id < q[k].id
    BY <1>3, <1>4
  <2>4. q[k].id \in Nat /\ k \in Nat
    BY <1>1
  <2>5. k = h + 1 => q[k].id = b.id
    OBVIOUS
  <2> QED
    BY <1>2, <1>3, <2>1, <2>2, <2>3, <2>4, <2>5
<1>6. SplitAt(q, b.id, h + 1)
  BY <1>1, <1>2, <1>5 DEF SplitAt, n
<1>7. \A k \in DOMAIN q : q[k].id <= b.id => q[k].write \in Range(done)
  <2> SUFFICES ASSUME NEW k \in DOMAIN q, k <= h + 1 PROVE q[k].write \in Range(done)
    BY <1>5
  <2>1. CASE k = h + 1
    BY <2>1
  <2>2. CASE k <= h
    BY <1>2, <2>2 DEF QueueOk
  <2> QED
    BY <1>1, <1>2, <2>1, <2>2
<1>8. b.id <= q[Len(q)].id
  <2>1. n \in DOMAIN q /\ q[n].id \in Nat
    BY <1>1, <1>2
  <2>2. h + 1 < n => b.id < q[n].id
    BY <1>3, <1>4, <2>1
  <2>3. h + 1 = n => b.id = q[n].id
    OBVIOUS
  <2> QED
    BY <1>1, <1>2, <1>3, <2>1, <2>2, <2>3 DEF n
<1>9. ASSUME NEW x \in w, x.id # b.id PROVE \E k \in DOMAIN q : x = q[k] /\ x.id > b.id
  <2>1. PICK k \in DOMAIN q : x = q[k] /\ x.id > a
    BY DEF QueueOk
  <2>2. x.id \in Nat /\ k \in Nat
    BY <1>1, <2>1
  <2>3. k > h
    BY <1>1, <1>2, <2>1, <2>2
  <2>4. k # h + 1
    BY <1>9, <2>1
  <2>5. k > h + 1
    BY <1>2, <2>2, <2>3, <2>4
  <2> QED
    BY <1>3, <1>4, <2>1, <2>5
<1>10. b.id >= Unknown
  BY <1>3 DEF Unknown
<1>11. QueueOk(q, b.id, {x \in w : x.id # b.id}, next, au, done, u)
  BY <1>7, <1>8, <1>9, <1>10 DEF QueueOk
<1> QED
  BY <1>6, <1>11


-----------------------------------------------------------------------------
(* The pipeline, when the queue changes *)

\* It depends on the batches under way and the last one seen only.
LEMMA PipeSame ==
  ASSUME NEW r, NEW d, d.pending = r.pending, d.lastBatchSeen = r.lastBatchSeen,
         NEW q, NEW acked, NEW h
  PROVE  /\ PipeOk(r, q, acked, h) => PipeOk(d, q, acked, h)
         /\ Full(r, q, h) => Full(d, q, h)
BY DEF PipeOk, Full

\* Taking acknowledged batches off the queue moves it forward.
LEMMA PipeRelease ==
  ASSUME NEW q \in Seq(Batch), NEW t \in Seq(Batch), NEW acked, NEW h, NEW n \in Nat, n <= h,
         SplitAt(q, acked, h), Cut(q, t, 0, n), NEW r \in Remote, PipeOk(r, q, acked, h)
  PROVE  /\ SplitAt(t, acked, h - n) /\ PipeOk(r, t, acked, h - n)
         /\ Full(r, q, h) => Full(r, t, h - n)
<1> DEFINE p == r.pending
           l == Len(p)
<1>1. h \in Nat /\ h <= Len(q) /\ \A k \in DOMAIN q : q[k].id <= acked <=> k <= h
  BY DEF SplitAt
<1>2. /\ Len(q) \in Nat /\ DOMAIN q = 1 .. Len(q) /\ Len(t) \in Nat /\ DOMAIN t = 1 .. Len(t)
      /\ Len(t) = Len(q) - n
      /\ \A k \in DOMAIN t : k > 0 => k + n \in DOMAIN q /\ t[k] = q[k + n]
  <2>1. 0 \in Nat /\ 0 + n <= Len(q)
    BY <1>1
  <2> QED
    BY <2>1, CutAt
<1>3. \A k \in DOMAIN t : k \in Nat /\ k + n \in DOMAIN q /\ t[k] = q[k + n]
  BY <1>2
<1>4. l \in Nat /\ DOMAIN p = 1 .. l
  BY RemoteFields, BatchFacts
<1>5. /\ h + l <= Len(q) /\ l <= MaxPendingWrites
      /\ \A k \in DOMAIN p : p[k] = q[h + k]
      /\ \A k \in DOMAIN q : q[k].id <= r.lastBatchSeen \/ q[k].id <= acked <=> k <= h + l
  BY DEF PipeOk
<1> HIDE DEF p, l
<1>num. /\ h \in Nat /\ l \in Nat /\ Len(q) \in Nat /\ Len(t) \in Nat
        /\ Len(t) = Len(q) - n /\ h + l <= Len(q)
  BY <1>1, <1>2, <1>4, <1>5
<1>6. h - n \in Nat /\ h - n <= Len(t) /\ h - n + l <= Len(t)
  BY <1>num
<1>shift. \A k \in Nat : (k + n <= h <=> k <= h - n) /\ (k + n <= h + l <=> k <= h - n + l)
  BY <1>num
<1>place. \A k \in 1 .. l : h - n + k \in 1 .. Len(t) /\ h - n + k + n = h + k
  BY <1>num
<1>7. ASSUME NEW k \in DOMAIN t
      PROVE  /\ t[k].id <= acked <=> k <= h - n
             /\ t[k].id <= r.lastBatchSeen \/ t[k].id <= acked <=> k <= h - n + l
  <2>1. k \in Nat /\ k + n \in DOMAIN q /\ t[k] = q[k + n]
    BY <1>3
  <2>2. /\ q[k + n].id <= acked <=> k + n <= h
        /\ q[k + n].id <= r.lastBatchSeen \/ q[k + n].id <= acked <=> k + n <= h + l
    BY <1>1, <1>5, <2>1
  <2>3. k \in Nat
    BY <2>1
  <2>4. (k + n <= h <=> k <= h - n) /\ (k + n <= h + l <=> k <= h - n + l)
    BY <1>shift, <2>3
  <2> QED
    BY <2>1, <2>2, <2>4
<1>8. ASSUME NEW k \in DOMAIN p
      PROVE  p[k] = t[h - n + k]
  <2>0. k \in 1 .. l
    BY <1>4
  <2>1. h - n + k \in 1 .. Len(t) /\ h - n + k + n = h + k
    BY <1>place, <2>0
  <2>2. h - n + k \in DOMAIN t
    BY <1>2, <2>1
  <2> QED
    BY <1>3, <1>5, <2>1, <2>2
<1>9. SplitAt(t, acked, h - n)
  BY <1>6, <1>7 DEF SplitAt
<1>10. PipeOk(r, t, acked, h - n)
  BY <1>5, <1>6, <1>7, <1>8 DEF PipeOk, p, l
<1>11. Full(r, q, h) => Full(r, t, h - n)
  <2>1. h + l = Len(q) => h - n + l = Len(t)
    BY <1>num
  <2> QED
    BY <2>1 DEF Full, p, l
<1> QED
  BY <1>9, <1>10, <1>11

\* A refused batch leaves queue and pipeline together.
LEMMA PipeRefuse ==
  ASSUME NEW q \in Seq(Batch), NEW t \in Seq(Batch), NEW acked, NEW h, h + 1 <= Len(q),
         SplitAt(q, acked, h), Cut(q, t, h, 1), NEW r \in Remote, PipeOk(r, q, acked, h),
         r.pending # <<>>, NEW d, d.pending = Tail(r.pending), d.lastBatchSeen = r.lastBatchSeen
  PROVE  SplitAt(t, acked, h) /\ PipeOk(d, t, acked, h)
<1> DEFINE p == r.pending
           l == Len(p)
           e == Tail(p)
<1>1. h \in Nat /\ h <= Len(q) /\ \A k \in DOMAIN q : q[k].id <= acked <=> k <= h
  BY DEF SplitAt
<1>2. /\ Len(q) \in Nat /\ DOMAIN q = 1 .. Len(q) /\ Len(t) \in Nat /\ DOMAIN t = 1 .. Len(t)
      /\ Len(t) = Len(q) - 1
      /\ \A k \in DOMAIN t : k <= h => k \in DOMAIN q /\ t[k] = q[k]
      /\ \A k \in DOMAIN t : k > h => k + 1 \in DOMAIN q /\ t[k] = q[k + 1]
  <2>1. 1 \in Nat
    OBVIOUS
  <2> QED
    BY <1>1, <2>1, CutAt
<1>3. p \in Seq(Batch) /\ p # <<>>
  BY RemoteFields
<1>4. /\ l \in Nat /\ DOMAIN p = 1 .. l /\ l >= 1
      /\ Len(e) = l - 1 /\ DOMAIN e = 1 .. l - 1
      /\ \A k \in DOMAIN e : k + 1 \in DOMAIN p /\ e[k] = p[k + 1]
  BY <1>3, TailAt
<1>5. /\ h + l <= Len(q) /\ l <= MaxPendingWrites
      /\ \A k \in DOMAIN p : p[k] = q[h + k]
      /\ \A k \in DOMAIN q : q[k].id <= r.lastBatchSeen \/ q[k].id <= acked <=> k <= h + l
  BY DEF PipeOk
<1>6. MaxPendingWrites \in Nat
  BY PipelineAssumption
<1> HIDE DEF p, l, e
<1>num. /\ h \in Nat /\ l \in Nat /\ l >= 1 /\ Len(q) \in Nat /\ Len(t) \in Nat
        /\ Len(t) = Len(q) - 1 /\ h + l <= Len(q)
  BY <1>1, <1>2, <1>4, <1>5
<1>7. h <= Len(t) /\ h + (l - 1) <= Len(t) /\ l - 1 <= MaxPendingWrites
  BY <1>num, <1>5, <1>6
<1>shift. \A k \in Nat : k > h =>
            ~(k <= h) /\ ~(k + 1 <= h) /\ (k + 1 <= h + l <=> k <= h + (l - 1))
  BY <1>num
<1>place. \A k \in 1 .. l - 1 : h + k > h /\ h + k \in 1 .. Len(t) /\ h + k + 1 = h + (k + 1)
  BY <1>num
<1>8. ASSUME NEW k \in DOMAIN t
      PROVE  /\ t[k].id <= acked <=> k <= h
             /\ t[k].id <= r.lastBatchSeen \/ t[k].id <= acked <=> k <= h + (l - 1)
  <2>1. k \in Nat
    BY <1>2
  <2>2. CASE k <= h
    <3>1. k \in DOMAIN q /\ t[k] = q[k] /\ k <= h + (l - 1)
      BY <1>1, <1>2, <1>4, <2>1, <2>2
    <3> QED
      BY <1>1, <2>2, <3>1
  <2>3. CASE k > h
    <3>1. k + 1 \in DOMAIN q /\ t[k] = q[k + 1]
      BY <1>2, <2>3
    <3>2. ~(k <= h) /\ ~(k + 1 <= h) /\ (k + 1 <= h + l <=> k <= h + (l - 1))
      BY <1>shift, <2>1, <2>3
    <3>3. /\ q[k + 1].id <= acked <=> k + 1 <= h
          /\ q[k + 1].id <= r.lastBatchSeen \/ q[k + 1].id <= acked <=> k + 1 <= h + l
      BY <1>1, <1>5, <3>1
    <3> QED
      BY <3>1, <3>2, <3>3
  <2> QED
    BY <1>1, <2>1, <2>2, <2>3
<1>9. ASSUME NEW k \in DOMAIN e
      PROVE  e[k] = t[h + k]
  <2>1. k \in 1 .. l - 1 /\ k + 1 \in DOMAIN p /\ e[k] = p[k + 1]
    BY <1>4
  <2>2. h + k > h /\ h + k \in 1 .. Len(t) /\ h + k + 1 = h + (k + 1)
    BY <1>place, <2>1
  <2>3. h + k \in DOMAIN t
    BY <1>2, <2>2
  <2> QED
    BY <1>2, <1>5, <2>1, <2>2, <2>3
<1>10. SplitAt(t, acked, h)
  BY <1>1, <1>7, <1>8 DEF SplitAt
<1>11. d.pending = e /\ d.lastBatchSeen = r.lastBatchSeen
  BY DEF e, p
<1>12. PipeOk(d, t, acked, h)
  BY <1>4, <1>7, <1>8, <1>9, <1>11 DEF PipeOk
<1> QED
  BY <1>10, <1>12

\* An acknowledged batch leaves the pipeline for the ones in front of it.
LEMMA PipeAck ==
  ASSUME NEW q \in Seq(Batch), Ascending(q), NEW acked \in Int, NEW h, SplitAt(q, acked, h),
         NEW r \in Remote, PipeOk(r, q, acked, h), r.pending # <<>>,
         NEW d, d.pending = Tail(r.pending), d.lastBatchSeen = r.lastBatchSeen
  PROVE  /\ h + 1 <= Len(q) /\ Head(r.pending) = q[h + 1]
         /\ PipeOk(d, q, q[h + 1].id, h + 1)
<1> DEFINE p == r.pending
           l == Len(p)
           e == Tail(p)
           n == Len(q)
<1>1. h \in Nat /\ h <= n /\ \A k \in DOMAIN q : q[k].id <= acked <=> k <= h
  BY DEF SplitAt
<1>2. n \in Nat /\ DOMAIN q = 1 .. n /\ \A k \in DOMAIN q : q[k].id \in Nat
  BY BatchFacts
<1>3. p \in Seq(Batch) /\ p # <<>> /\ r.lastBatchSeen \in Int
  BY RemoteFields
<1>4. /\ l \in Nat /\ DOMAIN p = 1 .. l /\ l >= 1 /\ Head(p) = p[1] /\ 1 \in DOMAIN p
      /\ Len(e) = l - 1 /\ DOMAIN e = 1 .. l - 1
      /\ \A k \in DOMAIN e : k + 1 \in DOMAIN p /\ e[k] = p[k + 1]
  BY <1>3, TailAt
<1>5. /\ h + l <= n /\ l <= MaxPendingWrites
      /\ \A k \in DOMAIN p : p[k] = q[h + k]
      /\ \A k \in DOMAIN q : q[k].id <= r.lastBatchSeen \/ q[k].id <= acked <=> k <= h + l
  BY DEF PipeOk
<1>6. MaxPendingWrites \in Nat
  BY PipelineAssumption
<1>7. Head(p) = q[h + 1]
  BY <1>4, <1>5
<1> HIDE DEF p, l, e, n
<1>8. /\ h + 1 <= n /\ h + 1 \in DOMAIN q /\ h + 1 + (l - 1) = h + l
      /\ l - 1 <= MaxPendingWrites /\ h + 1 <= h + l /\ ~(h + 1 <= h)
  BY <1>1, <1>2, <1>4, <1>5, <1>6
<1>9. q[h + 1].id > acked /\ q[h + 1].id <= r.lastBatchSeen
  BY <1>1, <1>2, <1>5, <1>8
<1>10. ASSUME NEW k \in DOMAIN q
       PROVE  q[k].id <= r.lastBatchSeen \/ q[k].id <= q[h + 1].id <=> k <= h + l
  <2>1. q[k].id \in Nat /\ q[h + 1].id \in Nat
    BY <1>2, <1>8
  <2>2. q[k].id <= r.lastBatchSeen \/ q[k].id <= acked <=> k <= h + l
    BY <1>5
  <2>3. q[k].id <= acked => q[k].id <= q[h + 1].id
    BY <1>9, <2>1
  <2>4. q[k].id <= q[h + 1].id => q[k].id <= r.lastBatchSeen
    BY <1>3, <1>9, <2>1
  <2> QED
    BY <2>2, <2>3, <2>4
<1>11. ASSUME NEW k \in DOMAIN e
       PROVE  e[k] = q[h + 1 + k]
  <2>1. k + 1 \in DOMAIN p /\ e[k] = p[k + 1] /\ h + (k + 1) = h + 1 + k
    BY <1>1, <1>4
  <2> QED
    BY <1>5, <2>1
<1>12. d.pending = e /\ d.lastBatchSeen = r.lastBatchSeen
  BY DEF e, p
<1>13. PipeOk(d, q, q[h + 1].id, h + 1)
  BY <1>4, <1>5, <1>8, <1>10, <1>11, <1>12 DEF PipeOk, n
<1> QED
  BY <1>7, <1>8, <1>13 DEF p, n

\* An empty one fits in front of everything.
LEMMA PipeFresh ==
  ASSUME NEW q \in Seq(Batch), NEW acked \in Int, acked >= Unknown, NEW h, SplitAt(q, acked, h)
  PROVE  FreshRemote \in Remote /\ Down(FreshRemote) /\ PipeOk(FreshRemote, q, acked, h)
<1>1. FreshRemote \in Remote
  BY DEF FreshRemote, Remote, StreamState, Unknown
<1>2. /\ FreshRemote.pending = <<>> /\ FreshRemote.lastBatchSeen = -1 /\ FreshRemote.state = "Initial"
      /\ FreshRemote.requests = <<>> /\ FreshRemote.responses = <<>>
  BY DEF FreshRemote, Unknown
<1>3. h \in Nat /\ h <= Len(q) /\ \A k \in DOMAIN q : q[k].id <= acked <=> k <= h
  BY DEF SplitAt
<1>4. \A k \in DOMAIN q : q[k].id \in Nat /\ ~(q[k].id <= -1)
  BY BatchFacts
<1>5. MaxPendingWrites \in Nat
  BY PipelineAssumption
<1>6. Len(<<>>) = 0 /\ DOMAIN <<>> = {} /\ h + 0 = h /\ 0 <= MaxPendingWrites
  BY <1>3, <1>5
<1>7. PipeOk(FreshRemote, q, acked, h)
  BY <1>2, <1>3, <1>4, <1>6 DEF PipeOk
<1> QED
  BY <1>1, <1>2, <1>7 DEF Down

-----------------------------------------------------------------------------
(* Starting a mutation queue *)

\* The next batch id is above every id in use and never above the one in use.
LEMMA NextIdFacts ==
  ASSUME Typed, QueueInv
  PROVE  /\ LoadNextBatchID \in Nat /\ LoadNextBatchID <= nextBatchID
         /\ \A u \in Users : \A k \in DOMAIN queue[u] : queue[u][k].id < LoadNextBatchID
<1> DEFINE ids == UNION {{queue[u][k].id : k \in DOMAIN queue[u]} : u \in Users}
           S   == {Unknown} \cup ids
<1>1. nextBatchID \in Nat /\ nextBatchID - 1 \in Int
  BY DEF Typed
<1>2. ASSUME NEW u \in Users, NEW k \in DOMAIN queue[u]
      PROVE  queue[u][k].id \in Nat /\ queue[u][k].id < nextBatchID
  <2>1. queue[u] \in Seq(Batch)
    BY DEF Typed
  <2>2. queue[u][k].id \in Nat
    BY <2>1, BatchFacts
  <2>3. queue[u][k].id < nextBatchID
    BY DEF QueueInv, QueueOk
  <2> QED
    BY <2>2, <2>3
<1>3. \A i \in ids : \E u \in Users : \E k \in DOMAIN queue[u] : i = queue[u][k].id
  BY Zenon
<1>4. \A u \in Users : \A k \in DOMAIN queue[u] : queue[u][k].id \in ids
  <2>1. TAKE u \in Users
  <2>2. TAKE k \in DOMAIN queue[u]
  <2>3. queue[u][k].id \in {queue[u][j].id : j \in DOMAIN queue[u]}
    BY Zenon
  <2> QED
    BY <2>3
<1> HIDE DEF ids
<1>5. \A i \in ids : i \in Nat /\ i < nextBatchID
  BY <1>2, <1>3
<1>6. S \in SUBSET Int /\ S # {} /\ \A x \in S : x <= nextBatchID - 1
  BY <1>1, <1>5 DEF Unknown
<1>7. Unknown \in S /\ \A i \in ids : i \in S
  OBVIOUS
<1> HIDE DEF S
<1>8. Max(S) \in S /\ \A y \in S : y <= Max(S)
  BY <1>1, <1>6, MaxFacts
<1>9. LoadNextBatchID = 1 + Max(S)
  BY DEF LoadNextBatchID, S, ids
<1> DEFINE m == Max(S)
<1>10. m \in Int /\ m >= -1 /\ m <= nextBatchID - 1
  BY <1>6, <1>7, <1>8 DEF Unknown
<1>11. \A i \in ids : i \in Nat /\ i <= m
  BY <1>5, <1>7, <1>8
<1>12. LoadNextBatchID = 1 + m
  BY <1>9
<1> HIDE DEF m
<1>13. 1 + m \in Nat /\ 1 + m <= nextBatchID /\ \A i \in ids : i < 1 + m
  BY <1>1, <1>10, <1>11
<1> QED
  BY <1>4, <1>12, <1>13

\* start drops what is acknowledged and leaves a queue that is in order.
LEMMA StartFacts ==
  ASSUME Typed, QueueInv, NEW u \in Users, NEW a, a = StartedAcked(u),
         NEW t, t = After(queue[u], a)
  PROVE  /\ a \in Int /\ a >= Unknown /\ a < LoadNextBatchID
         /\ t \in Seq(Batch) /\ SplitAt(t, a, 0)
         /\ \E h \in Nat : SplitAt(queue[u], a, h) /\ Cut(queue[u], t, 0, h)
         /\ QueueOk(t, a, blocks[u], LoadNextBatchID, author, log, u)
         /\ a = lastAcked[u] \/ queue[u] = <<>>
<1> DEFINE q == queue[u]
           c == lastAcked[u]
           w == blocks[u]
           n == LoadNextBatchID
<1>1. /\ q \in Seq(Batch) /\ c \in Int /\ n \in Nat
      /\ \A k \in DOMAIN q : q[k].id < n
      /\ QueueOk(q, c, w, nextBatchID, author, log, u)
  BY NextIdFacts DEF Typed, QueueInv
<1>2. a = IF c >= n THEN Unknown ELSE c
  BY DEF StartedAcked
<1>3. c >= n => q = <<>>
  <2>1. SUFFICES ASSUME q # <<>> PROVE c < n
    BY <1>1
  <2>2. Len(q) \in DOMAIN q /\ q[Len(q)].id \in Nat
    <3>1. Len(q) \in Nat /\ DOMAIN q = 1 .. Len(q) /\ \A k \in DOMAIN q : q[k].id \in Nat
      BY <1>1, BatchFacts
    <3>2. Len(q) # 0
      BY <1>1, <2>1, EmptySeq
    <3>3. Len(q) \in DOMAIN q
      BY <3>1, <3>2
    <3> QED
      BY <3>1, <3>3
  <2>3. c <= q[Len(q)].id /\ q[Len(q)].id < n
    BY <1>1, <2>1, <2>2 DEF QueueOk
  <2> QED
    BY <1>1, <2>2, <2>3
<1>4. c \in Int /\ n \in Nat /\ c >= -1
  BY <1>1 DEF QueueOk, Unknown
<1> HIDE DEF q, c, w, n
<1>5. a \in Int /\ a >= -1 /\ a < n
  BY <1>2, <1>4 DEF Unknown
<1>6. a = c \/ q = <<>>
  BY <1>2, <1>3
<1>7. QueueOk(q, a, w, nextBatchID, author, log, u)
  <2>1. CASE a = c
    BY <1>1, <2>1
  <2>2. CASE q = <<>>
    BY <1>1, <1>5, <2>2 DEF QueueOk, Unknown
  <2> QED
    BY <1>6, <2>1, <2>2
<1>8. Ascending(q)
  BY <1>7 DEF QueueOk
<1>9. PICK h \in Nat : SplitAt(q, a, h)
  BY <1>1, <1>5, <1>8, SplitExists
<1>10. t = After(q, a)
  BY DEF q
<1>11. t \in Seq(Batch) /\ Cut(q, t, 0, h)
  BY <1>1, <1>5, <1>9, <1>10, AfterFacts
<1>12. h <= Len(q) /\ \A k \in DOMAIN q : q[k].id <= a <=> k <= h
  BY <1>9 DEF SplitAt
<1>13. /\ Len(q) \in Nat /\ DOMAIN q = 1 .. Len(q) /\ Len(t) \in Nat /\ DOMAIN t = 1 .. Len(t)
       /\ \A k \in DOMAIN t : k > 0 => k + h \in DOMAIN q /\ t[k] = q[k + h]
  <2>1. 0 \in Nat /\ 0 + h <= Len(q)
    BY <1>12
  <2> QED
    BY <1>1, <1>11, <2>1, CutAt
<1>14. \A k \in DOMAIN t : k + h \in DOMAIN q /\ t[k] = q[k + h] /\ ~(k + h <= h)
  BY <1>13
<1>15. \A k \in DOMAIN t : t[k].id \in Nat /\ t[k].id > a
  <2>1. TAKE k \in DOMAIN t
  <2>2. t[k].id \in Nat
    BY <1>11, BatchFacts
  <2>3. ~(t[k].id <= a)
    BY <1>12, <1>14
  <2> QED
    BY <1>5, <2>2, <2>3
<1>16. SplitAt(t, a, 0)
  <2>1. \A k \in DOMAIN t : k \in Nat /\ ~(k <= 0)
    BY <1>13
  <2>2. \A k \in DOMAIN t : ~(t[k].id <= a)
    BY <1>5, <1>15
  <2>3. 0 \in Nat /\ 0 <= Len(t)
    BY <1>13
  <2> QED
    BY <2>1, <2>2, <2>3 DEF SplitAt
<1>17. t # <<>> => a <= t[Len(t)].id
  <2>1. ASSUME t # <<>> PROVE Len(t) \in DOMAIN t
    BY <1>11, <1>13, <2>1, EmptySeq
  <2>2. \A k \in DOMAIN t : a <= t[k].id
    BY <1>5, <1>15
  <2> QED
    BY <2>1, <2>2
<1>18. \A b \in w : \A k \in 0 + 1 .. 0 + h : b # q[k]
  <2>1. \A b \in w : ~(b.id <= a)
    <3>1. \A b \in w : \E k \in DOMAIN q : b = q[k] /\ b.id > a
      BY <1>7 DEF QueueOk
    <3>2. \A k \in DOMAIN q : q[k].id \in Nat
      BY <1>1, BatchFacts
    <3> QED
      BY <1>5, <3>1, <3>2
  <2>2. \A k \in 0 + 1 .. 0 + h : k \in DOMAIN q /\ k <= h
    BY <1>12, <1>13
  <2> QED
    BY <1>12, <2>1, <2>2
<1>19. QueueOk(t, a, w, nextBatchID, author, log, u)
  <2>1. 0 \in Nat /\ 0 + h <= Len(q) /\ w \in SUBSET w
    BY <1>12
  <2> QED
    BY <1>1, <1>7, <1>11, <1>17, <1>18, <2>1, QueueCut
<1>20. \A k \in DOMAIN t : t[k].id < n
  BY <1>1, <1>14 DEF n, q
<1>21. QueueOk(t, a, w, n, author, log, u)
  BY <1>11, <1>19, <1>20 DEF QueueOk
<1> QED
  BY <1>5, <1>6, <1>9, <1>11, <1>16, <1>21 DEF q, c, w, n, Unknown

\* Fewer blocks wait.
LEMMA QueueFewer ==
  ASSUME NEW q, NEW a, NEW w, NEW next, NEW au, NEW done, NEW u,
         QueueOk(q, a, w, next, au, done, u), NEW w2 \in SUBSET w
  PROVE  QueueOk(q, a, w2, next, au, done, u)
BY DEF QueueOk

-----------------------------------------------------------------------------
(* Requests and answers *)

\* An answer taken off is one less, ...
LEMMA AnsweredTail ==
  ASSUME NEW r \in Remote, r.responses # <<>>, Head(r.responses).type \notin Closing,
         NEW d \in Remote, d.responses = Tail(r.responses)
  PROVE  /\ Answered(r) >= 1 /\ Answered(d) = Answered(r) - 1
         /\ Len(r.responses) \in Nat /\ DOMAIN r.responses = 1 .. Len(r.responses)
         /\ Head(r.responses) = r.responses[1] /\ r.responses[1] \in Response
         /\ Len(d.responses) = Len(r.responses) - 1
         /\ DOMAIN d.responses = 1 .. Len(r.responses) - 1
         /\ \A k \in DOMAIN d.responses : k + 1 \in DOMAIN r.responses /\ d.responses[k] = r.responses[k + 1]
<1> DEFINE s == r.responses
           t == d.responses
           n == Len(s)
<1>1. s \in Seq(Response) /\ s # <<>>
  BY RemoteFields
<1>2. /\ Head(s) = s[1] /\ 1 \in DOMAIN s /\ Head(s) \in Response
      /\ n \in Nat /\ DOMAIN s = 1 .. n /\ n >= 1
      /\ Tail(s) \in Seq(Response) /\ Len(Tail(s)) = n - 1
      /\ DOMAIN Tail(s) = 1 .. n - 1
      /\ \A k \in DOMAIN Tail(s) : k + 1 \in DOMAIN s /\ Tail(s)[k] = s[k + 1]
  BY <1>1, TailAt
<1>3. /\ t \in Seq(Response) /\ Len(t) = n - 1 /\ DOMAIN t = 1 .. n - 1
      /\ \A k \in DOMAIN t : k + 1 \in DOMAIN s /\ t[k] = s[k + 1]
  BY <1>2
<1>4. s[1].type \notin Closing
  BY <1>2
<1>5. Last(s) = s[n] /\ Last(t) = t[n - 1]
  BY <1>3 DEF Last
<1>6. (Ended(r) <=> s # <<>> /\ s[n].type \in Closing) /\ (Ended(d) <=> t # <<>> /\ t[n - 1].type \in Closing)
  BY <1>5 DEF Ended
<1>7. /\ Answered(r) = IF Ended(r) THEN n - 1 ELSE n
      /\ Answered(d) = IF Ended(d) THEN n - 1 - 1 ELSE n - 1
  BY <1>3 DEF Answered
<1>8. n = 1 => t = <<>>
  BY <1>3, EmptySeq
<1> HIDE DEF s, t, n
<1>9. ASSUME n > 1 PROVE t # <<>> /\ t[n - 1] = s[n]
  <2>1. n - 1 \in 1 .. n - 1 /\ n - 1 + 1 = n
    BY <1>2, <1>9
  <2>2. n - 1 \in DOMAIN t
    BY <1>3, <2>1
  <2>3. t[n - 1] = s[n - 1 + 1]
    BY <1>3, <2>2
  <2> QED
    BY <2>1, <2>2, <2>3
<1>10. Ended(d) <=> Ended(r)
  <2>1. CASE n = 1
    BY <1>4, <1>6, <1>8, <2>1
  <2>2. CASE n > 1
    BY <1>1, <1>6, <1>9, <2>2
  <2> QED
    BY <1>2, <2>1, <2>2
<1>11. Ended(r) => n > 1
  BY <1>2, <1>4, <1>6
<1>12. Answered(r) >= 1 /\ Answered(d) = Answered(r) - 1
  <2>1. CASE Ended(r)
    BY <1>2, <1>7, <1>10, <1>11, <2>1
  <2>2. CASE ~Ended(r)
    BY <1>2, <1>7, <1>10, <2>2
  <2> QED
    BY <2>1, <2>2
<1> QED
  BY <1>2, <1>3, <1>12 DEF s, t, n

\* ... and an answer sent is one more, unless it ends the stream.
LEMMA AnsweredMore ==
  ASSUME NEW r \in Remote, ~Ended(r), NEW x \in Response, NEW d, d.responses = Append(r.responses, x)
  PROVE  /\ Answered(d) = IF x.type \in Closing THEN Answered(r) ELSE Answered(r) + 1
         /\ Answered(r) \in Nat /\ Len(r.responses) = Answered(r)
         /\ DOMAIN r.responses = 1 .. Answered(r)
         /\ Len(d.responses) = Answered(r) + 1 /\ DOMAIN d.responses = 1 .. Answered(r) + 1
         /\ d.responses[Answered(r) + 1] = x
         /\ \A k \in 1 .. Answered(r) : d.responses[k] = r.responses[k]
<1> DEFINE s == r.responses
           t == d.responses
           n == Len(s)
<1>1. s \in Seq(Response)
  BY RemoteFields
<1>2. /\ t # <<>> /\ n \in Nat /\ DOMAIN s = 1 .. n /\ Len(t) = n + 1
      /\ DOMAIN t = 1 .. n + 1 /\ t[n + 1] = x
      /\ \A k \in DOMAIN s : t[k] = s[k]
  BY <1>1, AppendAt
<1>3. Answered(r) = n
  BY DEF Answered
<1>4. Last(t) = x
  BY <1>2 DEF Last
<1>5. Ended(d) <=> x.type \in Closing
  BY <1>2, <1>4 DEF Ended
<1>6. Answered(d) = IF x.type \in Closing THEN n + 1 - 1 ELSE n + 1
  BY <1>2, <1>5 DEF Answered
<1> HIDE DEF s, t, n
<1>7. n + 1 - 1 = n
  BY <1>2
<1> QED
  BY <1>2, <1>3, <1>6, <1>7 DEF s, t, n

\* Nothing but the last response ends a stream.
LEMMA NotEnded ==
  ASSUME NEW r \in Remote, NEW done, StreamOk(r, done), ~Ended(r)
  PROVE  \A k \in DOMAIN r.responses : r.responses[k].type \notin Closing
<1>1. SUFFICES ASSUME NEW k \in DOMAIN r.responses, r.responses[k].type \in Closing PROVE FALSE
  OBVIOUS
<1>2. k = Len(r.responses)
  BY <1>1 DEF StreamOk
<1>3. r.responses # <<>> /\ Last(r.responses) = r.responses[k]
  BY <1>1, <1>2 DEF Last
<1> QED
  BY <1>1, <1>3 DEF Ended

\* What carries an acknowledgement is past its handshake; the answer is the one
\* to the first write of the pipeline.  Without it the stream is in order.
LEMMA StreamAck ==
  ASSUME NEW r \in Remote, NEW done \in Seq(Nat), StreamOk(r, done), r.state = "Open",
         r.responses # <<>>, Head(r.responses).type = "ack",
         NEW d \in Remote, d.responses = Tail(r.responses), d.pending = Tail(r.pending),
         d.state = "Open", d.handshakeComplete = r.handshakeComplete, d.requests = r.requests
  PROVE  /\ r.handshakeComplete /\ r.pending # <<>> /\ Head(r.pending) \in Batch
         /\ Head(r.responses).version \in DOMAIN done
         /\ done[Head(r.responses).version] = Head(r.pending).write
         /\ StreamOk(d, done)
<1> DEFINE A == Answered(r)
           p == r.pending
           l == Len(p)
           m == Len(r.requests)
           n == Len(done)
           s == r.responses
           t == d.responses
<1>0. Head(s).type \notin Closing
  BY DEF Closing
<1>1. /\ A >= 1 /\ Answered(d) = A - 1
      /\ Len(s) \in Nat /\ DOMAIN s = 1 .. Len(s) /\ Head(s) = s[1]
      /\ Len(t) = Len(s) - 1 /\ DOMAIN t = 1 .. Len(s) - 1
      /\ \A k \in DOMAIN t : k + 1 \in DOMAIN s /\ t[k] = s[k + 1]
  BY <1>0, AnsweredTail
<1>2. A \in Nat /\ n \in Nat /\ DOMAIN done = 1 .. n
  BY AnsweredFacts
<1>3. r.handshakeComplete
  <2>1. SUFFICES ASSUME ~r.handshakeComplete PROVE FALSE
    BY RemoteFields
  <2>2. HandshakeOk(r)
    BY <2>1 DEF StreamOk
  <2>3. A = 0 \/ s[1].type = "handshake"
    BY <2>2 DEF HandshakeOk
  <2> QED
    BY <1>1, <2>3
<1>4. WritesOk(r, done)
  BY <1>3 DEF StreamOk
<1>5. /\ A + m = l /\ A <= n
      /\ \A k \in 1 .. A : /\ s[k].type = "ack" /\ s[k].version = n - A + k
                           /\ done[s[k].version] = p[k].write
      /\ \A k \in DOMAIN r.requests : r.requests[k] = p[A + k].write
  BY <1>4 DEF WritesOk
<1>6. p \in Seq(Batch) /\ m \in Nat /\ DOMAIN r.requests = 1 .. m
  BY RemoteFields
<1>7. l \in Nat /\ l >= 1
  <2>1. A + m = l /\ A >= 1 /\ A \in Nat /\ m \in Nat
    BY <1>1, <1>2, <1>5, <1>6
  <2> HIDE DEF A, m, l
  <2> QED
    BY <2>1
<1>8. p # <<>>
  BY <1>7, EmptySeq
<1>9. /\ Head(p) = p[1] /\ Head(p) \in Batch /\ Len(Tail(p)) = l - 1
      /\ DOMAIN Tail(p) = 1 .. l - 1
      /\ \A k \in DOMAIN Tail(p) : k + 1 \in DOMAIN p /\ Tail(p)[k] = p[k + 1]
  BY <1>6, <1>8, TailAt
<1> DEFINE e == d.pending
<1>10. Len(e) = l - 1 /\ \A k \in 1 .. l - 1 : e[k] = p[k + 1]
  BY <1>9
<1> HIDE DEF A, p, l, m, n, s, t, e
<1>11. 1 \in 1 .. A /\ n - A + 1 \in DOMAIN done
  BY <1>1, <1>2, <1>5
<1>12. s[1].version \in DOMAIN done /\ done[s[1].version] = p[1].write
  BY <1>5, <1>11
<1>13. /\ A - 1 + m = l - 1 /\ A - 1 <= n
       /\ \A k \in 1 .. A - 1 : k + 1 \in 1 .. A /\ k \in 1 .. l - 1 /\ n - A + (k + 1) = n - (A - 1) + k
       /\ \A k \in 1 .. m : A - 1 + k \in 1 .. l - 1 /\ A - 1 + k + 1 = A + k
  BY <1>1, <1>2, <1>5, <1>6, <1>7
<1>14. A <= Len(s)
  BY AnsweredFacts DEF A, s
<1>15. \A k \in 1 .. A - 1 : k \in DOMAIN t
  <2>1. \A k \in 1 .. A - 1 : k \in 1 .. Len(s) - 1
    BY <1>1, <1>2, <1>14
  <2> QED
    BY <1>1, <2>1
<1>16. ASSUME NEW k \in 1 .. A - 1
       PROVE  /\ t[k].type = "ack" /\ t[k].version = n - (A - 1) + k
              /\ done[t[k].version] = e[k].write
  <2>1. k + 1 \in 1 .. A /\ k \in 1 .. l - 1 /\ n - A + (k + 1) = n - (A - 1) + k
    BY <1>13
  <2>2. t[k] = s[k + 1] /\ e[k] = p[k + 1]
    BY <1>1, <1>10, <1>15, <2>1
  <2> QED
    BY <1>5, <2>1, <2>2
<1>17. ASSUME NEW k \in 1 .. m
       PROVE  r.requests[k] = e[A - 1 + k].write
  <2>1. A - 1 + k \in 1 .. l - 1 /\ A - 1 + k + 1 = A + k
    BY <1>13
  <2>2. e[A - 1 + k] = p[A - 1 + k + 1]
    BY <1>10, <2>1
  <2> QED
    BY <1>5, <1>6, <2>1, <2>2
<1>18. WritesOk(d, done)
  BY <1>1, <1>6, <1>10, <1>13, <1>16, <1>17 DEF WritesOk, m, n, t, e
<1>19. \A k \in DOMAIN t : t[k].type \in Closing => k = Len(t)
  <2>1. TAKE k \in DOMAIN t
  <2>2. k \in Nat /\ k + 1 \in DOMAIN s /\ t[k] = s[k + 1]
    BY <1>1
  <2>3. s[k + 1].type \in Closing => k + 1 = Len(s)
    BY <2>2 DEF StreamOk, s
  <2> QED
    BY <1>1, <2>2, <2>3
<1>20. StreamOk(d, done)
  BY <1>3, <1>18, <1>19 DEF StreamOk, t
<1> QED
  BY <1>1, <1>3, <1>8, <1>9, <1>12, <1>20 DEF s, p

-----------------------------------------------------------------------------
(* Steps of the stream *)

\* Batches under way are in the user's queue, and writes are not the handshake.
LEMMA PendingFacts ==
  ASSUME Base
  PROVE  \A k \in DOMAIN remote.pending :
           /\ remote.pending[k] \in Batch /\ Len(held) + k \in DOMAIN queue[user]
           /\ remote.pending[k] = queue[user][Len(held) + k]
           /\ remote.pending[k].write \in DOMAIN author
           /\ author[remote.pending[k].write] = user
           /\ remote.pending[k].write # Handshake
<1>1. TAKE k \in DOMAIN remote.pending
<1> DEFINE p == remote.pending
           q == queue[user]
           h == Len(held)
<1>2. p \in Seq(Batch) /\ q \in Seq(Batch) /\ user \in Users
  BY RemoteFields DEF Base, Typed
<1>3. h \in Nat /\ h + Len(p) <= Len(q) /\ p[k] = q[h + k]
  BY DEF Base, PipelineInv, PipeOk, SplitAt
<1>4. /\ Len(p) \in Nat /\ DOMAIN p = 1 .. Len(p) /\ p[k] \in Batch
      /\ Len(q) \in Nat /\ DOMAIN q = 1 .. Len(q)
  BY <1>2, BatchFacts
<1>5. h + k \in DOMAIN q
  <2>1. k \in 1 .. Len(p) /\ h \in Nat /\ Len(p) \in Nat /\ Len(q) \in Nat /\ h + Len(p) <= Len(q)
    BY <1>3, <1>4
  <2> HIDE DEF p, q, h
  <2>2. h + k \in 1 .. Len(q)
    BY <2>1
  <2> QED
    BY <1>4, <2>2
<1>6. QueueOk(q, lastAcked[user], blocks[user], nextBatchID, author, log, user)
  BY <1>2 DEF Base, QueueInv
<1>7. q[h + k].write \in DOMAIN author /\ author[q[h + k].write] = user
  BY <1>5, <1>6 DEF QueueOk
<1>8. \A i \in DOMAIN author : i # 0
  BY DEF Base, Typed
<1> QED
  BY <1>3, <1>4, <1>5, <1>7, <1>8 DEF Handshake

\* A step that leaves disk and pipeline alone keeps the queue and the pipeline,
\* also when the backend applies a write.
LEMMA Carried ==
  ASSUME Base, UNCHANGED <<queue, lastAcked, user, nextBatchID, blocks, held, author>>,
         remote'.pending = remote.pending, remote'.lastBatchSeen = remote.lastBatchSeen,
         Range(log) \subseteq Range(log')
  PROVE  QueueInv' /\ PipelineInv'
<1>1. QueueInv'
  <2>1. nextBatchID' <= Len(author')
    BY DEF Base, QueueInv
  <2>2. ASSUME NEW u \in Users
        PROVE  QueueOk(queue[u], lastAcked[u], blocks[u], nextBatchID, author, log', u)
    <3>1. QueueOk(queue[u], lastAcked[u], blocks[u], nextBatchID, author, log, u)
      BY DEF Base, QueueInv
    <3> QED
      BY <3>1 DEF QueueOk
  <2> QED
    BY <2>1, <2>2 DEF QueueInv
<1>2. PipelineInv'
  <2>1. /\ PipeOk(remote', queue[user], lastAcked[user], Len(held))
        /\ Full(remote', queue[user], Len(held))
    BY PipeSame DEF Base, PipelineInv
  <2>2. /\ queue' = queue /\ lastAcked' = lastAcked /\ user' = user /\ nextBatchID' = nextBatchID
        /\ held' = held
    OBVIOUS
  <2> QED
    BY <2>1, <2>2 DEF Base, PipelineInv
<1> QED
  BY <1>1, <1>2

\* The token: the handshake is the first request.
LEMMA TokenArrivedBase == Base /\ TokenArrived => Base'
<1> SUFFICES ASSUME Base, TokenArrived PROVE Base'
  OBVIOUS
<1> USE DEF TokenArrived, local, watch, backend, history
<1> DEFINE d == remote'
<1>1. remote \in Remote /\ remote.state = "Auth"
  BY DEF Base, Typed
<1>2. d = [remote EXCEPT !.state = "Open", !.requests = <<Handshake>>]
  OBVIOUS
<1>3. d \in Remote
  <2> DEFINE s == <<Handshake>>
  <2>1. s \in Seq(Nat)
    BY DEF Handshake
  <2> HIDE DEF s
  <2>2. [remote EXCEPT !.state = "Open", !.requests = s] \in Remote
    BY <1>1, <2>1 DEF Remote, StreamState
  <2> QED
    BY <1>2, <2>2 DEF s
<1>4. /\ d.pending = remote.pending /\ d.lastBatchSeen = remote.lastBatchSeen /\ d.state = "Open"
      /\ d.handshakeComplete = remote.handshakeComplete
      /\ d.requests = <<Handshake>> /\ d.responses = remote.responses
  BY <1>1, <1>2 DEF Remote
<1> HIDE DEF d
<1>5. ~remote.handshakeComplete /\ remote.responses = <<>>
  BY <1>1 DEF Base, StreamInv, StreamOk
<1>6. HandshakeOk(d)
  BY <1>4, <1>5 DEF HandshakeOk, Answered, Ended
<1>7. StreamOk(d, log) /\ ~Greeted(d)
  BY <1>4, <1>5, <1>6 DEF StreamOk, Greeted
<1>8. log' = log
  OBVIOUS
<1>9. QueueInv' /\ PipelineInv'
  BY <1>4, <1>8, Carried DEF d
<1>10. Typed'
  BY <1>3 DEF Base, Typed, d
<1>11. StreamInv'
  BY <1>7, <1>8 DEF StreamInv, d
<1> QED
  BY <1>9, <1>10, <1>11 DEF Base

\* The end of a backoff.
LEMMA BackoffElapsedBase == Base /\ BackoffElapsed => Base'
<1> SUFFICES ASSUME Base, BackoffElapsed PROVE Base'
  OBVIOUS
<1> USE DEF BackoffElapsed, local, watch, backend, history
<1> DEFINE d == remote'
<1>1. remote \in Remote /\ remote.state = "Backoff"
  BY DEF Base, Typed
<1>2. d = [remote EXCEPT !.handshakeComplete = FALSE, !.state = "Auth"]
  BY <1>1 DEF Start, Remote
<1>3. d \in Remote
  BY <1>1, <1>2 DEF Remote, StreamState
<1>4. /\ d.pending = remote.pending /\ d.lastBatchSeen = remote.lastBatchSeen /\ d.state = "Auth"
      /\ d.handshakeComplete = FALSE
      /\ d.requests = remote.requests /\ d.responses = remote.responses
  BY <1>1, <1>2 DEF Remote
<1> HIDE DEF d
<1>5. remote.requests = <<>> /\ remote.responses = <<>>
  BY <1>1 DEF Base, StreamInv, StreamOk
<1>7. StreamOk(d, log) /\ ~Greeted(d)
  BY <1>4, <1>5 DEF StreamOk, Greeted
<1>8. log' = log
  OBVIOUS
<1>9. QueueInv' /\ PipelineInv'
  BY <1>4, <1>8, Carried DEF d
<1>10. Typed'
  BY <1>3 DEF Base, Typed, d
<1>11. StreamInv'
  BY <1>7, <1>8 DEF StreamInv, d
<1> QED
  BY <1>9, <1>10, <1>11 DEF Base

\* A stream that is closed, and started again when something waits for it.
LEMMA ClosedBase ==
  ASSUME Base, NEW final \in {"Initial", "Error"}, remote' = RestartIfNeeded(Close(remote, final)),
         UNCHANGED <<local, watch, backend, history>>, faults' \in Nat
  PROVE  Base'
<1> USE DEF local, watch, backend, history
<1> DEFINE c == Close(remote, final)
           d == remote'
<1>1. remote \in Remote
  BY DEF Base, Typed
<1>2. Down(c) /\ c.pending = remote.pending /\ c.lastBatchSeen = remote.lastBatchSeen
  BY <1>1, CloseFacts
<1> HIDE DEF c
<1>3. d = RestartIfNeeded(c)
  BY DEF c
<1>4. /\ d \in Remote /\ StreamOk(d, log) /\ ~Greeted(d)
      /\ d.pending = remote.pending /\ d.lastBatchSeen = remote.lastBatchSeen
  BY <1>2, <1>3, DownFacts
<1> HIDE DEF d
<1>8. log' = log
  OBVIOUS
<1>9. QueueInv' /\ PipelineInv'
  BY <1>4, <1>8, Carried DEF d
<1>10. Typed'
  BY <1>4 DEF Base, Typed, d
<1>11. StreamInv'
  BY <1>4, <1>8 DEF StreamInv, d
<1> QED
  BY <1>9, <1>10, <1>11 DEF Base

\* The timer of an idle stream, ...
LEMMA IdleTimerBase == Base /\ IdleTimer => Base'
<1> SUFFICES ASSUME Base, IdleTimer PROVE Base'
  OBVIOUS
<1>1. faults' \in Nat
  BY DEF IdleTimer, Base, Typed
<1> QED
  BY <1>1, ClosedBase DEF IdleTimer

\* ... an interruption reported by the backend ...
LEMMA StreamFailedBase == Base /\ StreamFailed => Base'
<1> SUFFICES ASSUME Base, StreamFailed PROVE Base'
  OBVIOUS
<1>1. faults' \in Nat
  BY DEF StreamFailed, Base, Typed
<1> QED
  BY <1>1, ClosedBase DEF StreamFailed, Interrupted

\* ... and a connection that breaks.
LEMMA ConnectionLostBase == Base /\ ConnectionLost => Base'
<1> SUFFICES ASSUME Base, ConnectionLost PROVE Base'
  OBVIOUS
<1>1. faults' \in Nat
  BY DEF ConnectionLost, Base, Typed
<1> QED
  BY <1>1, ClosedBase DEF ConnectionLost, Interrupted

-----------------------------------------------------------------------------
(* Steps of the backend, and the handshake *)

\* A stream the backend listens to, and its first request.
LEMMA ListensFacts ==
  ASSUME Base, Listens(remote)
  PROVE  /\ remote \in Remote /\ remote.state = "Open" /\ ~Ended(remote)
         /\ remote.requests \in Seq(Nat) /\ remote.requests # <<>>
         /\ Head(remote.requests) = remote.requests[1] /\ Head(remote.requests) \in Nat
         /\ Tail(remote.requests) \in Seq(Nat) /\ Len(remote.requests) >= 1
         /\ Len(Tail(remote.requests)) = Len(remote.requests) - 1
         /\ \A k \in 1 .. Len(remote.requests) - 1 : Tail(remote.requests)[k] = remote.requests[k + 1]
         /\ Head(remote.requests) = Handshake <=> ~remote.handshakeComplete
<1> DEFINE s == remote.requests
<1>1. remote \in Remote /\ remote.state = "Open" /\ ~Ended(remote) /\ s # <<>>
  BY DEF Base, Typed, Listens
<1>2. s \in Seq(Nat) /\ remote.handshakeComplete \in BOOLEAN /\ remote.pending \in Seq(Batch)
  BY <1>1, RemoteFields
<1>3. /\ Head(s) = s[1] /\ 1 \in DOMAIN s /\ Head(s) \in Nat
      /\ Len(s) \in Nat /\ DOMAIN s = 1 .. Len(s) /\ Len(s) >= 1
      /\ Tail(s) \in Seq(Nat) /\ Len(Tail(s)) = Len(s) - 1
      /\ DOMAIN Tail(s) = 1 .. Len(s) - 1
      /\ \A k \in DOMAIN Tail(s) : k + 1 \in DOMAIN s /\ Tail(s)[k] = s[k + 1]
  BY <1>1, <1>2, TailAt
<1>4. CASE remote.handshakeComplete
  <2>1. WritesOk(remote, log)
    BY <1>1, <1>4 DEF Base, StreamInv, StreamOk
  <2>2. /\ Answered(remote) + Len(s) = Len(remote.pending)
        /\ s[1] = remote.pending[Answered(remote) + 1].write
    BY <1>3, <2>1 DEF WritesOk
  <2>3. /\ Answered(remote) \in Nat /\ Len(remote.pending) \in Nat
        /\ DOMAIN remote.pending = 1 .. Len(remote.pending)
    BY <1>1, <1>2, AnsweredFacts, BatchFacts
  <2> HIDE DEF s
  <2>4. Answered(remote) + 1 \in DOMAIN remote.pending
    <3> DEFINE a == Answered(remote)
               l == Len(remote.pending)
    <3>1. a \in Nat /\ l \in Nat /\ a + Len(s) = l /\ Len(s) \in Nat /\ Len(s) >= 1
      BY <1>3, <2>2, <2>3
    <3> HIDE DEF a, l
    <3>2. a + 1 \in 1 .. l
      BY <3>1
    <3> QED
      BY <2>3, <3>2 DEF a, l
  <2>5. s[1] # Handshake
    BY <2>2, <2>4, PendingFacts
  <2> QED
    BY <1>1, <1>2, <1>3, <1>4, <2>5 DEF s
<1>5. CASE ~remote.handshakeComplete
  <2>1. HandshakeOk(remote)
    BY <1>1, <1>5 DEF Base, StreamInv, StreamOk
  <2>2. s = <<Handshake>>
    BY <1>1, <2>1 DEF HandshakeOk
  <2>3. s[1] = Handshake
    BY <2>2
  <2> QED
    BY <1>1, <1>2, <1>3, <1>5, <2>3
<1> QED
  BY <1>2, <1>4, <1>5

\* The backend answers the handshake.
LEMMA AnswerHandshakeBase == Base /\ AnswerHandshake => Base'
<1> SUFFICES ASSUME Base, AnswerHandshake PROVE Base'
  OBVIOUS
<1> USE DEF AnswerHandshake, local, watch, backend, history
<1> DEFINE d == remote'
           x == [type |-> "handshake", version |-> 0]
<1>1. /\ remote \in Remote /\ remote.state = "Open" /\ ~Ended(remote)
      /\ Tail(remote.requests) \in Seq(Nat) /\ ~remote.handshakeComplete /\ remote.requests # <<>>
  BY ListensFacts
<1>2. x \in Response /\ x.type = "handshake" /\ x.type \notin Closing
  BY DEF Response, Closing
<1>3. remote.responses \in Seq(Response)
  BY <1>1, RemoteFields
<1> DEFINE s == Tail(remote.requests)
           t == Append(remote.responses, x)
<1>4. s \in Seq(Nat) /\ t \in Seq(Response)
  BY <1>1, <1>2, <1>3, AppendAt
<1>5. d = [remote EXCEPT !.requests = s, !.responses = t]
  OBVIOUS
<1>6. HandshakeOk(remote)
  BY <1>1 DEF Base, StreamInv, StreamOk
<1>7. remote.requests = <<Handshake>> /\ Answered(remote) = 0
  BY <1>1, <1>6 DEF HandshakeOk
<1>8. s = <<>>
  BY <1>7
<1> HIDE DEF s, t, d
<1>9. d \in Remote
  BY <1>1, <1>4, <1>5 DEF Remote
<1>10. /\ d.pending = remote.pending /\ d.lastBatchSeen = remote.lastBatchSeen /\ d.state = "Open"
       /\ d.handshakeComplete = remote.handshakeComplete
       /\ d.requests = <<>> /\ d.responses = Append(remote.responses, x)
  BY <1>1, <1>5, <1>8 DEF Remote, t
<1> HIDE DEF x
<1>11. /\ Answered(d) = Answered(remote) + 1
       /\ Len(d.responses) = Answered(remote) + 1 /\ DOMAIN d.responses = 1 .. Answered(remote) + 1
       /\ d.responses[Answered(remote) + 1] = x
  BY <1>1, <1>2, <1>10, AnsweredMore
<1>12. Answered(d) = 1 /\ Len(d.responses) = 1 /\ DOMAIN d.responses = 1 .. 1 /\ d.responses[1] = x
  BY <1>7, <1>11
<1>13. HandshakeOk(d)
  BY <1>2, <1>10, <1>12 DEF HandshakeOk
<1>14. StreamOk(d, log)
  BY <1>1, <1>2, <1>10, <1>12, <1>13 DEF StreamOk
<1>15. log' = log /\ halfClosed' = <<>>
  OBVIOUS
<1>16. QueueInv' /\ PipelineInv'
  BY <1>10, <1>15, Carried DEF d
<1>17. applied' \in [Users -> Int]
  BY DEF Base, Typed
<1>18. Typed'
  BY <1>9, <1>17 DEF Base, Typed, d
<1>19. StreamInv'
  BY <1>14, <1>15 DEF StreamInv, d
<1> QED
  BY <1>16, <1>18, <1>19 DEF Base

\* The backend applies a write: the answer is for the batch behind those that
\* are answered.
LEMMA ApplyWriteBase == Base /\ ApplyWrite => Base'
<1> SUFFICES ASSUME Base, ApplyWrite PROVE Base'
  OBVIOUS
<1> USE DEF ApplyWrite, local, watch, backend, history
<1> DEFINE d == remote'
           q == remote.requests
           p == remote.pending
           n == Len(log)
           x == [type |-> "ack", version |-> n + 1]
           A == Answered(remote)
           m == Len(q)
           f == log'
<1>1. /\ remote \in Remote /\ remote.state = "Open" /\ ~Ended(remote)
      /\ q \in Seq(Nat) /\ q # <<>>
      /\ Head(q) = q[1] /\ Head(q) \in Nat
      /\ Tail(q) \in Seq(Nat) /\ m >= 1
      /\ Len(Tail(q)) = m - 1
      /\ \A k \in 1 .. m - 1 : Tail(q)[k] = q[k + 1]
      /\ Head(q) = Handshake <=> ~remote.handshakeComplete
  BY ListensFacts
<1>2. remote.handshakeComplete
  BY <1>1
<1>3. remote.responses \in Seq(Response) /\ p \in Seq(Batch) /\ log \in Seq(Nat)
  BY <1>1, RemoteFields DEF Base, Typed
<1>4. /\ f \in Seq(Nat) /\ n \in Nat /\ DOMAIN log = 1 .. n /\ Len(f) = n + 1
      /\ DOMAIN f = 1 .. n + 1
      /\ f[n + 1] = q[1] /\ \A k \in DOMAIN log : f[k] = log[k]
  <2>1. f = Append(log, Head(q))
    OBVIOUS
  <2>2. Head(q) \in Nat
    BY <1>1
  <2>3. /\ Append(log, Head(q)) \in Seq(Nat) /\ n \in Nat /\ DOMAIN log = 1 .. n
        /\ Len(Append(log, Head(q))) = n + 1
        /\ DOMAIN Append(log, Head(q)) = 1 .. n + 1
        /\ Append(log, Head(q))[n + 1] = Head(q)
        /\ \A k \in DOMAIN log : Append(log, Head(q))[k] = log[k]
    BY <1>3, <2>2, AppendAt
  <2> QED
    BY <1>1, <2>1, <2>3
<1>5. x \in Response /\ x.type = "ack" /\ x.version = n + 1 /\ x.type \notin Closing
  BY <1>4 DEF Response, Closing
<1> DEFINE s == Tail(q)
           t == Append(remote.responses, x)
<1>6. s \in Seq(Nat) /\ t \in Seq(Response)
  BY <1>1, <1>3, <1>5, AppendAt
<1>7. d = [remote EXCEPT !.requests = s, !.responses = t]
  BY <1>4
<1>8. WritesOk(remote, log)
  BY <1>1, <1>2 DEF Base, StreamInv, StreamOk
<1>9. /\ A + m = Len(p) /\ A <= n
      /\ \A k \in 1 .. A : /\ remote.responses[k].type = "ack"
                           /\ remote.responses[k].version = n - A + k
                           /\ log[remote.responses[k].version] = p[k].write
      /\ \A k \in 1 .. m : q[k] = p[A + k].write
  BY <1>1, <1>8 DEF WritesOk
<1>10. m \in Nat /\ A \in Nat
  BY <1>1, AnsweredFacts
<1> HIDE DEF s, t, d, x, A, n, m, f
<1>11. d \in Remote
  BY <1>1, <1>6, <1>7 DEF Remote
<1>12. /\ d.pending = p /\ d.lastBatchSeen = remote.lastBatchSeen /\ d.state = "Open"
       /\ d.handshakeComplete = remote.handshakeComplete
       /\ d.requests = s /\ d.responses = Append(remote.responses, x)
  BY <1>1, <1>7 DEF Remote, t
<1> DEFINE e == d.responses
<1>13. /\ Answered(d) = A + 1 /\ DOMAIN remote.responses = 1 .. A
       /\ Len(e) = A + 1 /\ DOMAIN e = 1 .. A + 1 /\ e[A + 1] = x
       /\ \A k \in 1 .. A : e[k] = remote.responses[k]
  BY <1>1, <1>5, <1>12, AnsweredMore DEF A
<1> HIDE DEF e
<1>num. \A k \in 1 .. A : n - A + k \in 1 .. n /\ n + 1 - (A + 1) + k = n - A + k
  <2>1. n \in Nat /\ A \in Nat /\ A <= n
    BY <1>4, <1>9, <1>10
  <2> QED
    BY <2>1
<1>14. ASSUME NEW k \in 1 .. A + 1
       PROVE  /\ e[k].type = "ack" /\ e[k].version = n + 1 - (A + 1) + k
              /\ f[e[k].version] = p[k].write
  <2>1. CASE k = A + 1
    <3>1. n + 1 - (A + 1) + (A + 1) = n + 1 /\ 1 \in 1 .. m
      BY <1>1, <1>4, <1>10
    <3>2. e[k] = x
      BY <1>13, <2>1
    <3>3. f[n + 1] = p[A + 1].write
      BY <1>4, <1>9, <3>1
    <3> QED
      BY <1>5, <2>1, <3>1, <3>2, <3>3
  <2>2. CASE k # A + 1
    <3>1. k \in 1 .. A
      BY <1>10, <2>2
    <3>2. n - A + k \in 1 .. n /\ n + 1 - (A + 1) + k = n - A + k
      BY <1>num, <3>1
    <3>3. e[k] = remote.responses[k] /\ f[n - A + k] = log[n - A + k]
      BY <1>4, <1>13, <3>1, <3>2
    <3> QED
      BY <1>9, <3>1, <3>2, <3>3
  <2> QED
    BY <2>1, <2>2
<1>15. Len(s) = m - 1 /\ \A k \in 1 .. m - 1 : s[k] = p[A + 1 + k].write
  <2>1. Len(s) = m - 1
    BY <1>1 DEF s
  <2>2. ASSUME NEW k \in 1 .. m - 1 PROVE s[k] = p[A + 1 + k].write
    <3>1. k + 1 \in 1 .. m /\ A + (k + 1) = A + 1 + k
      BY <1>10
    <3> QED
      BY <1>1, <1>9, <3>1 DEF s
  <2> QED
    BY <2>1, <2>2
<1>16. A + 1 + (m - 1) = Len(p) /\ A + 1 <= n + 1
  BY <1>4, <1>9, <1>10
<1>17. DOMAIN s = 1 .. m - 1
  BY <1>6, <1>15
<1>18. WritesOk(d, f)
  <2>1. /\ Answered(d) = A + 1 /\ d.pending = p /\ d.requests = s /\ d.responses = e
        /\ Len(f) = n + 1 /\ Len(s) = m - 1
    BY <1>4, <1>12, <1>13, <1>15 DEF e
  <2>2. \A k \in DOMAIN s : s[k] = p[A + 1 + k].write
    BY <1>15, <1>17
  <2> HIDE DEF p, q
  <2>3. Answered(d) + Len(d.requests) = Len(d.pending) /\ Answered(d) <= Len(f)
    BY <1>16, <2>1
  <2>4. ASSUME NEW k \in 1 .. Answered(d)
        PROVE  /\ d.responses[k].type = "ack"
               /\ d.responses[k].version = Len(f) - Answered(d) + k
               /\ f[d.responses[k].version] = d.pending[k].write
    <3>1. k \in 1 .. A + 1
      BY <2>1
    <3>2. /\ e[k].type = "ack" /\ e[k].version = n + 1 - (A + 1) + k
          /\ f[e[k].version] = p[k].write
      BY <1>14, <3>1
    <3>3. d.responses[k] = e[k] /\ d.pending[k] = p[k]
      BY <2>1
    <3>4. Len(f) - Answered(d) + k = n + 1 - (A + 1) + k
      <4> DEFINE b == Answered(d)
                 c == Len(f)
      <4>1. c = n + 1 /\ b = A + 1 /\ n \in Nat /\ A \in Nat
        BY <1>4, <1>10, <2>1
      <4>2. k \in Nat
        BY <1>10, <3>1
      <4> HIDE DEF b, c
      <4>3. c - b + k = n + 1 - (A + 1) + k
        BY ONLY <4>1, <4>2
      <4> QED
        BY <4>3 DEF b, c
    <3> QED
      BY <3>2, <3>3, <3>4, Zenon
  <2>5. \A k \in DOMAIN d.requests : d.requests[k] = d.pending[Answered(d) + k].write
    BY <2>1, <2>2
  <2> QED
    BY <2>3, <2>4, <2>5 DEF WritesOk
<1>19. \A k \in DOMAIN e : e[k].type \notin Closing
  BY <1>13, <1>14 DEF Closing
<1>20. StreamOk(d, f)
  BY <1>2, <1>12, <1>18, <1>19 DEF StreamOk, e
<1>21. Range(log) \subseteq Range(f)
  <2>1. \A k \in DOMAIN log : k \in DOMAIN f
    BY <1>4
  <2> QED
    BY <1>4, <2>1 DEF Range
<1>22. QueueInv' /\ PipelineInv'
  BY <1>12, <1>21, Carried DEF d, f
<1>23. applied' \in [Users -> Int]
  BY DEF Base, Typed
<1>24. Typed'
  BY <1>4, <1>11, <1>23 DEF Base, Typed, d, f
<1>25. StreamInv'
  <2>1. Greeted(remote) /\ halfClosed' = halfClosed
    BY <1>1, <1>2 DEF Greeted
  <2> QED
    BY <1>20, <2>1 DEF Base, StreamInv, d, f
<1> QED
  BY <1>22, <1>24, <1>25 DEF Base

\* The backend ends the stream, behind what it has answered.
LEMMA EndStreamBase == ASSUME NEW type \in Closing PROVE Base /\ EndStream(type) => Base'
<1> SUFFICES ASSUME Base, EndStream(type) PROVE Base'
  OBVIOUS
<1> USE DEF EndStream, local, watch, backend, history
<1> DEFINE d == remote'
           x == [type |-> type, version |-> 0]
           A == Answered(remote)
<1>1. /\ remote \in Remote /\ remote.state = "Open" /\ ~Ended(remote) /\ StreamOk(remote, log)
      /\ faults' \in Nat
  BY DEF Base, Typed, StreamInv
<1>2. x \in Response /\ x.type \in Closing
  BY DEF Response
<1>3. remote.responses \in Seq(Response) /\ remote.handshakeComplete \in BOOLEAN
  BY <1>1, RemoteFields
<1> DEFINE t == Append(remote.responses, x)
<1>4. t \in Seq(Response)
  BY <1>2, <1>3, AppendAt
<1>5. d = [remote EXCEPT !.responses = t]
  OBVIOUS
<1> HIDE DEF t, d, x, A
<1>6. d \in Remote
  BY <1>1, <1>4, <1>5 DEF Remote
<1>7. /\ d.pending = remote.pending /\ d.lastBatchSeen = remote.lastBatchSeen /\ d.state = "Open"
      /\ d.handshakeComplete = remote.handshakeComplete
      /\ d.requests = remote.requests /\ d.responses = Append(remote.responses, x)
  BY <1>1, <1>5 DEF Remote, t
<1>8. /\ Answered(d) = A /\ A \in Nat /\ Len(d.responses) = A + 1 /\ DOMAIN d.responses = 1 .. A + 1
      /\ DOMAIN remote.responses = 1 .. A
      /\ \A k \in 1 .. A : d.responses[k] = remote.responses[k]
  BY <1>1, <1>2, <1>7, AnsweredMore DEF A
<1>9. \A k \in DOMAIN d.responses : d.responses[k].type \in Closing => k = Len(d.responses)
  <2>1. \A k \in 1 .. A : remote.responses[k].type \notin Closing
    BY <1>1, <1>8, NotEnded
  <2>2. \A k \in 1 .. A + 1 : k = A + 1 \/ k \in 1 .. A
    BY <1>8
  <2> QED
    BY <1>8, <2>1, <2>2
<1>10. ASSUME ~remote.handshakeComplete PROVE HandshakeOk(d)
  <2>1. HandshakeOk(remote)
    BY <1>1, <1>10 DEF StreamOk
  <2>2. CASE remote.requests = <<Handshake>> /\ A = 0
    BY <1>7, <1>8, <2>2 DEF HandshakeOk
  <2>3. CASE remote.requests = <<>> /\ A = 1 /\ remote.responses[1].type = "handshake"
    <3>1. d.responses[1] = remote.responses[1]
      BY <1>8, <2>3
    <3> QED
      BY <1>7, <1>8, <2>3, <3>1 DEF HandshakeOk
  <2> QED
    BY <2>1, <2>2, <2>3 DEF HandshakeOk, A
<1>11. ASSUME remote.handshakeComplete PROVE WritesOk(d, log)
  <2>1. WritesOk(remote, log)
    BY <1>1, <1>11 DEF StreamOk
  <2>2. /\ A + Len(remote.requests) = Len(remote.pending) /\ A <= Len(log)
        /\ \A k \in 1 .. A : /\ remote.responses[k].type = "ack"
                             /\ remote.responses[k].version = Len(log) - A + k
                             /\ log[remote.responses[k].version] = remote.pending[k].write
        /\ \A k \in DOMAIN remote.requests : remote.requests[k] = remote.pending[A + k].write
    BY <2>1 DEF WritesOk, A
  <2> QED
    BY <1>7, <1>8, <2>2 DEF WritesOk
<1>12. StreamOk(d, log) /\ (Greeted(d) => Greeted(remote))
  BY <1>3, <1>7, <1>9, <1>10, <1>11, <1>1 DEF StreamOk, Greeted
<1>13. log' = log /\ halfClosed' = halfClosed
  OBVIOUS
<1>14. QueueInv' /\ PipelineInv'
  BY <1>7, <1>13, Carried DEF d
<1>15. Typed'
  BY <1>1, <1>6 DEF Base, Typed, d
<1>16. StreamInv'
  BY <1>12, <1>13 DEF Base, StreamInv, d
<1> QED
  BY <1>14, <1>15, <1>16 DEF Base

\* The handshake is complete: the whole pipeline is requested.
LEMMA HandshakeDoneBase == Base /\ HandshakeDone => Base'
<1> SUFFICES ASSUME Base, HandshakeDone PROVE Base'
  OBVIOUS
<1> USE DEF HandshakeDone, local, watch, backend, history
<1> DEFINE d == remote'
           A == Answered(remote)
           s == remote.responses
           p == remote.pending
           t == Tail(s)
           q == remote.requests \o WritesOf(p)
<1>1. /\ remote \in Remote /\ remote.state = "Open" /\ StreamOk(remote, log)
      /\ s # <<>> /\ Head(s).type = "handshake"
  BY DEF Base, Typed, StreamInv, Received
<1>2. s \in Seq(Response) /\ p \in Seq(Batch) /\ remote.requests \in Seq(Nat)
  BY <1>1, RemoteFields
<1>3. t \in Seq(Response)
  BY <1>1, <1>2, TailAt
<1>4. /\ Len(p) \in Nat /\ DOMAIN p = 1 .. Len(p)
      /\ \A k \in DOMAIN p : p[k].write \in Nat
  BY <1>2, BatchFacts
<1>5. WritesOf(p) \in Seq(Nat) /\ Len(WritesOf(p)) = Len(p) /\ DOMAIN WritesOf(p) = 1 .. Len(p)
      /\ \A k \in DOMAIN p : WritesOf(p)[k] = p[k].write
  <2> HIDE DEF p
  <2> QED
    BY <1>4 DEF WritesOf
<1>6. q \in Seq(Nat)
  BY <1>2, <1>5, ConcatAt
<1>7. d = [remote EXCEPT !.handshakeComplete = TRUE, !.idle = FALSE, !.responses = t, !.requests = q]
  OBVIOUS
<1> HIDE DEF d, t, q
<1>8. d \in Remote
  BY <1>1, <1>3, <1>6, <1>7 DEF Remote
<1>9. /\ d.pending = p /\ d.lastBatchSeen = remote.lastBatchSeen /\ d.state = "Open"
      /\ d.handshakeComplete = TRUE /\ d.requests = q /\ d.responses = Tail(s)
  BY <1>1, <1>7 DEF Remote, t
<1> DEFINE e == d.responses
<1>10. /\ A >= 1 /\ Answered(d) = A - 1
       /\ Len(s) \in Nat /\ DOMAIN s = 1 .. Len(s) /\ Head(s) = s[1]
       /\ Len(e) = Len(s) - 1 /\ DOMAIN e = 1 .. Len(s) - 1
       /\ \A k \in DOMAIN e : k + 1 \in DOMAIN s /\ e[k] = s[k + 1]
  <2>1. Head(s).type \notin Closing
    BY <1>1 DEF Closing
  <2> QED
    BY <1>1, <1>8, <1>9, <2>1, AnsweredTail
<1>11. A \in Nat
  BY <1>1, AnsweredFacts
<1>12. ~remote.handshakeComplete
  <2>1. SUFFICES ASSUME remote.handshakeComplete PROVE FALSE
    OBVIOUS
  <2>2. WritesOk(remote, log)
    BY <1>1, <2>1 DEF StreamOk
  <2>3. 1 \in 1 .. A
    BY <1>10, <1>11
  <2>4. s[1].type = "ack"
    BY <2>2, <2>3 DEF WritesOk
  <2> QED
    BY <1>1, <1>10, <2>4
<1>13. HandshakeOk(remote)
  BY <1>1, <1>12 DEF StreamOk
<1>14. remote.requests = <<>> /\ A = 1
  BY <1>10, <1>13 DEF HandshakeOk
<1>15. q = WritesOf(p)
  BY <1>5, <1>14 DEF q
<1>16. Answered(d) = 0
  BY <1>10, <1>14
<1> HIDE DEF A, s, p, e
<1>17. WritesOk(d, log)
  <2>1. Len(log) \in Nat
    BY DEF Base, Typed
  <2>2. Len(d.requests) = Len(d.pending) /\ DOMAIN d.requests = DOMAIN d.pending
        /\ \A k \in DOMAIN d.pending : d.requests[k] = d.pending[k].write
    BY <1>4, <1>5, <1>9, <1>15
  <2>3. Len(d.pending) \in Nat /\ \A k \in DOMAIN d.pending : 0 + k = k
    BY <1>4, <1>9
  <2>4. 0 + Len(d.requests) = Len(d.pending) /\ 0 <= Len(log) /\ 1 .. 0 = {}
    BY <2>1, <2>2, <2>3
  <2> QED
    BY <1>16, <2>2, <2>3, <2>4 DEF WritesOk
<1>18. \A k \in DOMAIN e : e[k].type \in Closing => k = Len(e)
  <2>1. TAKE k \in DOMAIN e
  <2>2. k \in Nat /\ k + 1 \in DOMAIN s /\ e[k] = s[k + 1]
    BY <1>10
  <2>3. s[k + 1].type \in Closing => k + 1 = Len(s)
    BY <1>1, <2>2 DEF StreamOk, s
  <2> QED
    BY <1>10, <2>2, <2>3
<1>19. StreamOk(d, log)
  BY <1>9, <1>17, <1>18 DEF StreamOk, e
<1>20. Greeted(remote)
  BY <1>1, <1>14 DEF Greeted
<1>21. log' = log /\ halfClosed' = halfClosed
  OBVIOUS
<1>22. QueueInv' /\ PipelineInv'
  BY <1>9, <1>21, Carried DEF d, p
<1>23. Typed'
  BY <1>8 DEF Base, Typed, d
<1>24. StreamInv'
  BY <1>19, <1>20, <1>21 DEF Base, StreamInv, d
<1> QED
  BY <1>22, <1>23, <1>24 DEF Base

\* The backend works off a stream that was left: the stream in use has not been
\* greeted.
LEMMA ApplyHalfClosedBase == Base /\ ApplyHalfClosed => Base'
<1> SUFFICES ASSUME Base, ApplyHalfClosed PROVE Base'
  OBVIOUS
<1> USE DEF ApplyHalfClosed, local, watch, backend, history
<1> DEFINE f == log'
           x == Head(halfClosed)
<1>1. log \in Seq(Nat) /\ halfClosed \in Seq(Nat) /\ halfClosed # <<>>
  BY DEF Base, Typed
<1>2. x \in Nat /\ Tail(halfClosed) \in Seq(Nat)
  BY <1>1, TailAt
<1>3. f = Append(log, x)
  OBVIOUS
<1> HIDE DEF x
<1>4. /\ Append(log, x) \in Seq(Nat) /\ DOMAIN log = 1 .. Len(log) /\ Len(log) \in Nat
      /\ DOMAIN Append(log, x) = 1 .. Len(log) + 1
      /\ \A k \in DOMAIN log : Append(log, x)[k] = log[k]
  BY <1>1, <1>2, AppendAt
<1>5. Range(log) \subseteq Range(f)
  <2>1. \A k \in DOMAIN log : k \in DOMAIN f /\ f[k] = log[k]
    BY <1>3, <1>4
  <2> QED
    BY <2>1 DEF Range
<1>6. remote' = remote /\ ~Greeted(remote)
  BY <1>1 DEF Base, StreamInv
<1>7. StreamOk(remote, f)
  BY <1>6 DEF Base, StreamInv, StreamOk, Greeted
<1>8. QueueInv' /\ PipelineInv'
  BY <1>5, <1>6, Carried
<1>9. applied' \in [Users -> Int] /\ halfClosed' \in Seq(Nat) /\ log' \in Seq(Nat)
  <2> DEFINE v == author[Head(halfClosed)]
  <2>1. applied \in [Users -> Int] /\ applied' = [applied EXCEPT ![v] = @ + 1]
    BY DEF Base, Typed
  <2> HIDE DEF v
  <2>2. applied' \in [Users -> Int]
    <3>1. \A u \in Users : applied[u] \in Int /\ applied[u] + 1 \in Int
      BY <2>1
    <3>2. CASE v \in Users
      BY <2>1, <3>1, <3>2
    <3>3. CASE v \notin Users
      <4>1. applied' = applied
        BY <2>1, <3>3
      <4> QED
        BY <2>1, <4>1
    <3> QED
      BY <3>2, <3>3
  <2>3. halfClosed' \in Seq(Nat)
    BY <1>2
  <2> QED
    BY <1>3, <1>4, <2>2, <2>3
<1>10. Typed'
  BY <1>9 DEF Base, Typed
<1>11. StreamInv'
  BY <1>6, <1>7 DEF StreamInv
<1> QED
  BY <1>8, <1>10, <1>11 DEF Base

-----------------------------------------------------------------------------
(* Steps that fill the pipeline *)

\* What fillWritePipeline means for the invariant.
LEMMA Filled ==
  ASSUME NEW r \in Remote, NEW q \in Seq(Batch), Ascending(q), NEW acked \in Int, NEW h,
         SplitAt(q, acked, h), PipeOk(r, q, acked, h), NEW next, r.lastBatchSeen < next,
         \A k \in DOMAIN q : q[k].id < next, NEW done, StreamOk(r, done),
         NEW d, d = FillWritePipeline(r, q, acked)
  PROVE  /\ d \in Remote /\ PipeOk(d, q, acked, h) /\ Full(d, q, h)
         /\ d.lastBatchSeen < next
         /\ StreamOk(d, done) /\ (Greeted(d) => Greeted(r))
<1>1. Fills(r, d, q) /\ PipeOk(d, q, acked, h) /\ Full(d, q, h)
  BY FillFacts
<1>2. StreamOk(d, done) /\ (Greeted(d) => Greeted(r))
  BY <1>1, StreamFill
<1>3. /\ d \in Remote
      /\ (d.lastBatchSeen = r.lastBatchSeen \/ \E k \in DOMAIN q : d.lastBatchSeen = q[k].id)
  BY <1>1 DEF Fills
<1> QED
  BY <1>1, <1>2, <1>3

\* A new batch comes behind the pipeline.
LEMMA PipeAppend ==
  ASSUME NEW q \in Seq(Batch), NEW acked \in Int, NEW h, SplitAt(q, acked, h),
         NEW r \in Remote, PipeOk(r, q, acked, h),
         NEW b \in Batch, acked < b.id, r.lastBatchSeen < b.id
  PROVE  /\ SplitAt(Append(q, b), acked, h) /\ PipeOk(r, Append(q, b), acked, h)
         /\ \A k \in 1 .. h : Append(q, b)[k] = q[k]
<1> DEFINE n == Len(q)
           l == Len(r.pending)
           t == Append(q, b)
<1>1. /\ t \in Seq(Batch) /\ n \in Nat /\ DOMAIN q = 1 .. n /\ Len(t) = n + 1
      /\ DOMAIN t = 1 .. n + 1
      /\ t[n + 1] = b /\ \A k \in DOMAIN q : t[k] = q[k]
  BY AppendAt
<1>2. h \in Nat /\ h <= n /\ \A k \in DOMAIN q : q[k].id <= acked <=> k <= h
  BY DEF SplitAt
<1>3. /\ h + l <= n /\ l <= MaxPendingWrites
      /\ \A k \in DOMAIN r.pending : r.pending[k] = q[h + k]
      /\ \A k \in DOMAIN q : q[k].id <= r.lastBatchSeen \/ q[k].id <= acked <=> k <= h + l
  BY DEF PipeOk
<1>4. l \in Nat /\ DOMAIN r.pending = 1 .. l /\ r.lastBatchSeen \in Int /\ b.id \in Nat
  BY RemoteFields, BatchFacts DEF Batch
<1> HIDE DEF n, l, t
<1>num. /\ n \in Nat /\ h \in Nat /\ l \in Nat /\ h <= n /\ h + l <= n
  BY <1>1, <1>2, <1>3, <1>4
<1>5. ~(b.id <= acked) /\ ~(b.id <= r.lastBatchSeen)
  BY <1>4
<1>6. h <= n + 1 /\ h + l <= n + 1 /\ ~(n + 1 <= h) /\ ~(n + 1 <= h + l)
  BY <1>num
<1>7. \A k \in 1 .. n + 1 : k \in 1 .. n \/ k = n + 1
  BY <1>num
<1>8. \A k \in 1 .. l : h + k \in 1 .. n
  BY <1>num
<1>9. \A k \in 1 .. h : k \in 1 .. n
  BY <1>num
<1>10. ASSUME NEW k \in DOMAIN t
       PROVE  /\ t[k].id <= acked <=> k <= h
              /\ t[k].id <= r.lastBatchSeen \/ t[k].id <= acked <=> k <= h + l
  <2>1. CASE k \in DOMAIN q
    BY <1>1, <1>2, <1>3, <2>1
  <2>2. CASE k = n + 1
    BY <1>1, <1>5, <1>6, <2>2
  <2> QED
    BY <1>1, <1>7, <2>1, <2>2
<1>11. SplitAt(t, acked, h)
  BY <1>1, <1>2, <1>6, <1>10 DEF SplitAt
<1>12. \A k \in DOMAIN r.pending : r.pending[k] = t[h + k]
  BY <1>1, <1>3, <1>4, <1>8
<1>13. PipeOk(r, t, acked, h)
  BY <1>1, <1>3, <1>6, <1>10, <1>12 DEF PipeOk, l
<1>14. \A k \in 1 .. h : t[k] = q[k]
  BY <1>1, <1>9
<1> QED
  BY <1>11, <1>13, <1>14 DEF t

\* A write is queued and joins the pipeline when there is room.
LEMMA WriteMutationsBase == Base /\ WriteMutations => Base'
<1> SUFFICES ASSUME Base, WriteMutations PROVE Base'
  OBVIOUS
<1> DEFINE q  == queue[user]
           a  == lastAcked[user]
           h  == Len(held)
           nx == nextBatchID
           w  == blocks[user]
           b  == [id |-> nx, write |-> Len(author) + 1]
           t  == Append(q, b)
           v  == Append(author, user)
           d  == remote'
<1>1. /\ queue' = [queue EXCEPT ![user] = t] /\ nextBatchID' = nx + 1
      /\ blocks' = [blocks EXCEPT ![user] = w \cup {b}]
      /\ d = FillWritePipeline(remote, queue'[user], a)
      /\ author' = v /\ mine' = mine \cup {Len(author) + 1}
      /\ UNCHANGED <<lastAcked, cache, remoteVersion, user, held, watch, backend,
                     faults, refused, applied>>
  BY DEF WriteMutations
<1>2. /\ queue \in [Users -> Seq(Batch)] /\ lastAcked \in [Users -> Int] /\ user \in Users
      /\ nx \in Nat /\ blocks \in [Users -> SUBSET Batch] /\ remote \in Remote
      /\ author \in Seq(Users) /\ mine \subseteq Nat /\ held \in Seq(Result)
  BY DEF Base, Typed
<1>3. q \in Seq(Batch) /\ a \in Int /\ w \in SUBSET Batch
  BY <1>2
<1>4. /\ QueueOk(q, a, w, nx, author, log, user) /\ nx <= Len(author)
      /\ a < nx /\ remote.lastBatchSeen < nx
      /\ SplitAt(q, a, h) /\ PipeOk(remote, q, a, h)
      /\ \A k \in DOMAIN held : held[k].batch = q[k]
      /\ h > 0 => q[h].id = a
      /\ StreamOk(remote, log) /\ (Greeted(remote) => halfClosed = <<>>)
  BY <1>2 DEF Base, QueueInv, PipelineInv, StreamInv
<1>5. b \in Batch /\ t \in Seq(Batch) /\ QueueOk(t, a, w \cup {b}, nx + 1, v, log, user)
  BY <1>2, <1>3, <1>4, QueueAppend
<1>6. b.id = nx
  OBVIOUS
<1>7. /\ v \in Seq(Users) /\ Len(author) \in Nat /\ Len(v) = Len(author) + 1
      /\ \A k \in DOMAIN author : k \in DOMAIN v /\ v[k] = author[k]
  <2>1. /\ v \in Seq(Users) /\ Len(author) \in Nat /\ Len(v) = Len(author) + 1
        /\ DOMAIN author = 1 .. Len(author) /\ DOMAIN v = 1 .. Len(author) + 1
        /\ \A k \in DOMAIN author : v[k] = author[k]
    BY <1>2, AppendAt
  <2> QED
    BY <2>1
<1>8. queue'[user] = t /\ \A u \in Users : u # user => queue'[u] = queue[u]
  BY <1>1, <1>2
<1>9. blocks'[user] = w \cup {b} /\ \A u \in Users : u # user => blocks'[u] = blocks[u]
  BY <1>1, <1>2
<1>10. h \in Nat /\ DOMAIN held = 1 .. h
  BY <1>2
<1>11. Len(author) + 1 \in Nat
  BY <1>7
<1> HIDE DEF q, a, h, nx, w, b, t, v, d
<1>12. SplitAt(t, a, h) /\ PipeOk(remote, t, a, h) /\ \A k \in 1 .. h : t[k] = q[k]
  <2>1. b \in Batch /\ a < b.id /\ remote.lastBatchSeen < b.id
    BY <1>4, <1>5, <1>6
  <2>2. remote \in Remote /\ q \in Seq(Batch) /\ a \in Int
    BY <1>2, <1>3
  <2>3. SplitAt(q, a, h) /\ PipeOk(remote, q, a, h)
    BY <1>4
  <2>4. /\ SplitAt(Append(q, b), a, h) /\ PipeOk(remote, Append(q, b), a, h)
        /\ \A k \in 1 .. h : Append(q, b)[k] = q[k]
    BY <2>1, <2>2, <2>3, PipeAppend
  <2> QED
    BY <2>4 DEF t
<1>13. Ascending(t) /\ \A k \in DOMAIN t : t[k].id < nx + 1
  BY <1>5 DEF QueueOk
<1>14. remote.lastBatchSeen \in Int /\ remote.lastBatchSeen < nx + 1 /\ a < nx + 1 /\ nx + 1 \in Nat
  BY <1>2, <1>3, <1>4, RemoteFields
<1>15. /\ d \in Remote /\ PipeOk(d, t, a, h) /\ Full(d, t, h) /\ d.lastBatchSeen < nx + 1
       /\ StreamOk(d, log) /\ (Greeted(d) => Greeted(remote))
  <2>1. d = FillWritePipeline(remote, t, a)
    BY <1>1, <1>8
  <2> QED
    BY <1>2, <1>3, <1>4, <1>5, <1>12, <1>13, <1>14, <2>1, Filled
<1>16. \A u \in Users : QueueOk(queue'[u], lastAcked[u], blocks'[u], nx + 1, v, log, u)
  <2>1. TAKE u \in Users
  <2>2. CASE u = user
    BY <1>5, <1>8, <1>9, <2>2 DEF a
  <2>3. CASE u # user
    <3>1. QueueOk(queue[u], lastAcked[u], blocks[u], nx, author, log, u) /\ queue[u] \in Seq(Batch)
      BY <1>2 DEF Base, QueueInv, nx
    <3>2. \A k \in DOMAIN queue[u] : queue[u][k].id < nx /\ queue[u][k].id \in Nat
      BY <3>1, BatchFacts DEF QueueOk
    <3>3. \A k \in DOMAIN queue[u] : queue[u][k].id < nx + 1
      BY <1>2, <3>2
    <3>4. QueueOk(queue[u], lastAcked[u], blocks[u], nx + 1, v, log, u)
      BY <1>7, <3>1, <3>3, QueueMore
    <3> QED
      BY <1>8, <1>9, <2>3, <3>4
  <2> QED
    BY <2>2, <2>3
<1>17. nx + 1 <= Len(v)
  BY <1>2, <1>4, <1>7
<1>18. UNCHANGED <<lastAcked, user, log, halfClosed, held>>
  BY <1>1 DEF backend
<1>19. QueueInv'
  BY <1>1, <1>16, <1>17, <1>18 DEF QueueInv
<1>20. \A k \in DOMAIN held : held[k].batch = t[k]
  BY <1>4, <1>10, <1>12
<1>21. h > 0 => t[h].id = a
  <2>1. h > 0 => h \in 1 .. h
    BY <1>10
  <2> QED
    BY <1>4, <1>12, <2>1
<1>22. PipelineInv'
  BY <1>1, <1>8, <1>12, <1>14, <1>15, <1>18, <1>20, <1>21 DEF PipelineInv, d, a, h
<1>23. StreamInv'
  BY <1>4, <1>15, <1>18 DEF StreamInv, d
<1>24. Typed'
  <2>1. queue' \in [Users -> Seq(Batch)] /\ blocks' \in [Users -> SUBSET Batch]
    BY <1>1, <1>2, <1>3, <1>5
  <2>2. mine' \subseteq Nat
    BY <1>1, <1>2, <1>11
  <2> QED
    BY <1>1, <1>7, <1>14, <1>15, <2>1, <2>2 DEF Base, Typed, watch, backend, d
<1> QED
  BY <1>19, <1>22, <1>23, <1>24 DEF Base

-----------------------------------------------------------------------------
(* Acknowledgements and refusals *)

\* The last result decides about the document.
LEMMA ApplyResultsFacts ==
  ASSUME NEW doc \in Document, NEW results \in Seq(Result)
  PROVE  ApplyResults(doc, results) \in Document
<1>1. ASSUME results # <<>> PROVE Last(results).batch.write \in Nat
  <2>1. Len(results) \in Nat /\ DOMAIN results = 1 .. Len(results) /\ Len(results) # 0
    BY <1>1, EmptySeq
  <2>2. Len(results) \in DOMAIN results
    BY <2>1
  <2>3. results[Len(results)] \in Result
    BY <2>2
  <2> QED
    BY <2>3 DEF Last, Result, Batch
<1> QED
  BY <1>1 DEF ApplyResults, Document

\* A step that changes the queue of the user at work only.
LEMMA QueueInvAt ==
  ASSUME Typed, QueueInv, UNCHANGED <<nextBatchID, author, log>>,
         \A u \in Users : u # user =>
           queue'[u] = queue[u] /\ lastAcked'[u] = lastAcked[u] /\ blocks'[u] = blocks[u],
         QueueOk(queue'[user], lastAcked'[user], blocks'[user], nextBatchID, author, log, user)
  PROVE  QueueInv'
<1>1. ASSUME NEW u \in Users
      PROVE  QueueOk(queue'[u], lastAcked'[u], blocks'[u], nextBatchID, author, log, u)
  <2>1. CASE u = user
    BY <2>1
  <2>2. CASE u # user
    <3>1. QueueOk(queue[u], lastAcked[u], blocks[u], nextBatchID, author, log, u)
      BY DEF QueueInv
    <3>2. queue'[u] = queue[u] /\ lastAcked'[u] = lastAcked[u] /\ blocks'[u] = blocks[u]
      BY <2>2
    <3> QED
      BY <3>1, <3>2
  <2> QED
    BY <2>1, <2>2
<1>2. nextBatchID' <= Len(author')
  BY DEF QueueInv
<1>3. nextBatchID' = nextBatchID /\ author' = author /\ log' = log
  OBVIOUS
<1> QED
  BY <1>1, <1>2, <1>3 DEF QueueInv

\* The invariant, for the user at work.
LEMMA UserFacts ==
  ASSUME Base
  PROVE  /\ user \in Users /\ queue[user] \in Seq(Batch) /\ lastAcked[user] \in Int
         /\ blocks[user] \in SUBSET Batch /\ remote \in Remote /\ nextBatchID \in Nat
         /\ held \in Seq(Result) /\ Len(held) \in Nat /\ DOMAIN held = 1 .. Len(held)
         /\ QueueOk(queue[user], lastAcked[user], blocks[user], nextBatchID, author, log, user)
         /\ Ascending(queue[user])
         /\ lastAcked[user] < nextBatchID /\ remote.lastBatchSeen < nextBatchID
         /\ \A k \in DOMAIN held : held[k].batch = queue[user][k]
         /\ SplitAt(queue[user], lastAcked[user], Len(held))
         /\ Len(held) > 0 => queue[user][Len(held)].id = lastAcked[user]
         /\ PipeOk(remote, queue[user], lastAcked[user], Len(held))
         /\ Full(remote, queue[user], Len(held))
         /\ StreamOk(remote, log) /\ (Greeted(remote) => halfClosed = <<>>)
<1>1. user \in Users /\ queue[user] \in Seq(Batch) /\ lastAcked[user] \in Int
      /\ blocks[user] \in SUBSET Batch /\ remote \in Remote /\ nextBatchID \in Nat
      /\ held \in Seq(Result)
  BY DEF Base, Typed
<1>2. Len(held) \in Nat /\ DOMAIN held = 1 .. Len(held)
  BY <1>1
<1>3. QueueOk(queue[user], lastAcked[user], blocks[user], nextBatchID, author, log, user)
  BY <1>1 DEF Base, QueueInv
<1>4. Ascending(queue[user])
  BY <1>3 DEF QueueOk
<1> QED
  BY <1>1, <1>2, <1>3, <1>4 DEF Base, PipelineInv, StreamInv

\* The first batch of the pipeline, the version an answer gives it, and the
\* remote store without them.
Oldest == Head(remote.pending)
Answer == Head(remote.responses).version
Behind == [remote EXCEPT !.pending = Tail(@), !.responses = Tail(@)]

\* What WriteAcknowledged does: the batch behind the held ones is acknowledged,
\* and it is held or leaves the queue.
LEMMA Acknowledged ==
  ASSUME Base, WriteAcknowledged
  PROVE  /\ remote.state = "Open" /\ remote.handshakeComplete /\ remote.pending # <<>>
         /\ Oldest \in Batch /\ Oldest = queue[user][Len(held) + 1]
         /\ Len(held) + 1 <= Len(queue[user])
         /\ Answer \in DOMAIN log /\ log[Answer] = Oldest.write
         /\ Behind \in Remote /\ Behind.pending = Tail(remote.pending)
         /\ Behind.lastBatchSeen = remote.lastBatchSeen
         /\ StreamOk(Behind, log)
         /\ lastAcked' = [lastAcked EXCEPT ![user] = Oldest.id]
         /\ blocks' = [blocks EXCEPT ![user] = {x \in blocks[user] : x.id # Oldest.id}]
         /\ remote' = FillWritePipeline(Behind, queue'[user], Oldest.id)
         /\ \/ /\ held' = Append(held, [batch |-> Oldest, version |-> Answer])
               /\ queue' = queue /\ cache' = cache
            \/ /\ held = <<>> /\ held' = <<>> /\ UpTo(Answer, remoteVersion, listening)
               /\ cache' = ApplyResults(cache, <<[batch |-> Oldest, version |-> Answer]>>)
               /\ queue'[user] \in Seq(Batch) /\ Cut(queue[user], queue'[user], 0, 1)
               /\ queue' = [queue EXCEPT ![user] = queue'[user]]
<1> DEFINE b == Oldest
           v == Answer
           r == Behind
<1>0. /\ b = Head(remote.pending) /\ v = Head(remote.responses).version
      /\ r = [remote EXCEPT !.pending = Tail(@), !.responses = Tail(@)]
  BY DEF Oldest, Answer, Behind
<1> HIDE DEF b, v, r
<1> USE <1>0
<1> DEFINE q == queue[user]
           h == Len(held)
           p == remote.pending
           s == remote.responses
           e == Tail(p)
           t == Tail(s)
           x == [batch |-> b, version |-> v]
<1>1. /\ remote.state = "Open" /\ s # <<>> /\ Head(s).type = "ack"
      /\ lastAcked' = [lastAcked EXCEPT ![user] = b.id]
      /\ blocks' = [blocks EXCEPT ![user] = {y \in blocks[user] : y.id # b.id}]
      /\ remote' = FillWritePipeline(r, queue'[user], b.id)
      /\ \/ held' = Append(held, x) /\ queue' = queue /\ cache' = cache
         \/ /\ ~ShouldHold(v) /\ held' = held
            /\ cache' = ApplyResults(cache, <<x>>)
            /\ Release(<<x>>)
  BY DEF WriteAcknowledged, Received, ProcessUserCallbacks
<1>2. /\ remote \in Remote /\ StreamOk(remote, log) /\ q \in Seq(Batch) /\ Ascending(q)
      /\ lastAcked[user] \in Int /\ SplitAt(q, lastAcked[user], h)
      /\ PipeOk(remote, q, lastAcked[user], h)
      /\ user \in Users /\ h \in Nat
  BY UserFacts
<1>3. log \in Seq(Nat) /\ queue \in [Users -> Seq(Batch)]
  BY DEF Base, Typed
<1>4. s \in Seq(Response) /\ p \in Seq(Batch) /\ remote.handshakeComplete \in BOOLEAN
  BY <1>2, RemoteFields
<1>5. t \in Seq(Response)
  BY <1>1, <1>4, TailAt
<1>6. p # <<>>
  <2>1. 1 <= Answered(remote) /\ Answered(remote) \in Nat
    <3>1. Head(s).type \notin Closing /\ s # <<>>
      BY <1>1 DEF Closing
    <3>2. /\ [remote EXCEPT !.responses = t] \in Remote
          /\ [remote EXCEPT !.responses = t].responses = t
      BY <1>2, <1>5 DEF Remote
    <3>3. Answered(remote) >= 1
      BY <1>2, <3>1, <3>2, AnsweredTail
    <3>4. Answered(remote) \in Nat
      BY <1>2, AnsweredFacts
    <3> QED
      BY <3>3, <3>4
  <2>2. CASE remote.handshakeComplete
    <3>1. Answered(remote) + Len(remote.requests) = Len(p)
      BY <1>1, <1>2, <2>2 DEF StreamOk, WritesOk
    <3>2. Len(remote.requests) \in Nat
      BY <1>2, RemoteFields
    <3>3. Len(p) # 0
      <4> DEFINE i == Answered(remote)
                 j == Len(remote.requests)
                 k == Len(p)
      <4>1. 1 <= i /\ i \in Nat /\ j \in Nat /\ i + j = k
        BY <2>1, <3>1, <3>2
      <4> HIDE DEF i, j, k
      <4>2. k # 0
        BY <4>1
      <4> QED
        BY <4>2 DEF k
    <3> QED
      BY <3>3
  <2>3. CASE ~remote.handshakeComplete
    <3>1. HandshakeOk(remote)
      BY <1>1, <1>2, <2>3 DEF StreamOk
    <3>2. s[1].type = "handshake"
      BY <2>1, <3>1 DEF HandshakeOk
    <3>3. Head(s) = s[1]
      BY <1>1, <1>4, TailAt
    <3> QED
      BY <1>1, <3>2, <3>3
  <2> QED
    BY <1>4, <2>2, <2>3
<1>7. e \in Seq(Batch)
  BY <1>4, <1>6, TailAt
<1>8. r = [remote EXCEPT !.pending = e, !.responses = t]
  OBVIOUS
<1> HIDE DEF e, t
<1>9. /\ r \in Remote /\ r.pending = e /\ r.responses = t /\ r.state = remote.state
      /\ r.handshakeComplete = remote.handshakeComplete /\ r.requests = remote.requests
      /\ r.lastBatchSeen = remote.lastBatchSeen
  BY <1>2, <1>5, <1>7, <1>8 DEF Remote
<1>10. /\ remote.handshakeComplete /\ b \in Batch /\ v \in DOMAIN log /\ log[v] = b.write
       /\ StreamOk(r, log)
  <2>1. /\ remote \in Remote /\ log \in Seq(Nat) /\ StreamOk(remote, log) /\ remote.state = "Open"
        /\ remote.responses # <<>> /\ Head(remote.responses).type = "ack"
    BY <1>1, <1>2, <1>3
  <2>2. /\ r \in Remote /\ r.responses = Tail(remote.responses) /\ r.pending = Tail(remote.pending)
        /\ r.state = "Open" /\ r.handshakeComplete = remote.handshakeComplete
        /\ r.requests = remote.requests
    BY <1>1, <1>9 DEF e, t
  <2>3. /\ remote.handshakeComplete /\ Head(remote.pending) \in Batch
        /\ Head(remote.responses).version \in DOMAIN log
        /\ log[Head(remote.responses).version] = Head(remote.pending).write
        /\ StreamOk(r, log)
    BY <2>1, <2>2, StreamAck
  <2> QED
    BY <2>3
<1>11. h + 1 <= Len(q) /\ b = q[h + 1]
  BY <1>2, <1>6, <1>9, PipeAck DEF e
<1>12. ASSUME ~ShouldHold(v), held' = held, Release(<<x>>)
       PROVE  /\ held = <<>> /\ held' = <<>> /\ UpTo(v, remoteVersion, listening)
              /\ queue'[user] \in Seq(Batch) /\ Cut(q, queue'[user], 0, 1)
              /\ queue' = [queue EXCEPT ![user] = queue'[user]]
  <2>1. held = <<>> /\ UpTo(v, remoteVersion, listening)
    BY <1>12 DEF ShouldHold
  <2>2. h = 0
    BY <2>1
  <2>3. b = q[1] /\ 1 <= Len(q)
    BY <1>11, <2>2
  <2> DEFINE ids == {<<x>>[k].batch.id : k \in DOMAIN <<x>>}
  <2>4. ids = {b.id}
    <3>1. DOMAIN <<x>> = {1} /\ <<x>>[1] = x
      OBVIOUS
    <3>2. x.batch = b
      OBVIOUS
    <3> HIDE DEF x
    <3> QED
      BY <3>1, <3>2
  <2>5. {b.id} = {q[k].id : k \in 0 + 1 .. 0 + 1}
    <3>1. 0 + 1 .. 0 + 1 = {1}
      OBVIOUS
    <3> HIDE DEF q
    <3> QED
      BY <2>3, <3>1
  <2>6. queue' = [queue EXCEPT ![user] = Without(q, ids)]
    BY <1>12 DEF Release
  <2> HIDE DEF ids
  <2>7. 0 \in Nat /\ 1 \in Nat /\ 0 + 1 <= Len(q) /\ ids = {q[k].id : k \in 0 + 1 .. 0 + 1}
    BY <2>3, <2>4, <2>5
  <2> DEFINE y == Without(q, ids)
  <2>8. y \in Seq(Batch) /\ Cut(q, y, 0, 1)
    BY <1>2, <2>7, WithoutFacts
  <2>9. queue' = [queue EXCEPT ![user] = y]
    BY <2>6
  <2> HIDE DEF y
  <2>10. queue'[user] = y
    BY <1>2, <1>3, <2>9
  <2> QED
    BY <1>12, <2>1, <2>8, <2>9, <2>10
<1> QED
  BY <1>1, <1>6, <1>9, <1>10, <1>11, <1>12 DEF e, b, v, r

\* The queue that is left behind an acknowledged batch.
LEMMA AcknowledgedQueue ==
  ASSUME Base, WriteAcknowledged
  PROVE  /\ queue'[user] \in Seq(Batch) /\ queue' \in [Users -> Seq(Batch)]
         /\ \A u \in Users : u # user => queue'[u] = queue[u]
         /\ QueueOk(queue'[user], Oldest.id, {x \in blocks[user] : x.id # Oldest.id}, nextBatchID,
                    author, log, user)
         /\ SplitAt(queue'[user], Oldest.id, Len(held'))
         /\ PipeOk(Behind, queue'[user], Oldest.id, Len(held'))
         /\ \A k \in DOMAIN held' : held'[k].batch = queue'[user][k]
         /\ Len(held') > 0 => queue'[user][Len(held')].id = Oldest.id
         /\ held' \in Seq(Result) /\ cache' \in Document
<1> DEFINE b == Oldest
           r == Behind
           q == queue[user]
           h == Len(held)
           a == lastAcked[user]
           w == {x \in blocks[user] : x.id # b.id}
           v == Answer
           x == [batch |-> b, version |-> v]
           t == queue'[user]
<1>1. /\ b \in Batch /\ b = q[h + 1] /\ h + 1 <= Len(q)
      /\ v \in DOMAIN log /\ log[v] = b.write
      /\ r \in Remote /\ r.pending = Tail(remote.pending) /\ r.lastBatchSeen = remote.lastBatchSeen
      /\ remote.pending # <<>>
      /\ \/ held' = Append(held, x) /\ queue' = queue /\ cache' = cache
         \/ /\ held = <<>> /\ held' = <<>>
            /\ cache' = ApplyResults(cache, <<x>>)
            /\ t \in Seq(Batch) /\ Cut(q, t, 0, 1)
            /\ queue' = [queue EXCEPT ![user] = t]
  BY Acknowledged
<1>2. /\ q \in Seq(Batch) /\ Ascending(q) /\ a \in Int /\ SplitAt(q, a, h)
      /\ PipeOk(remote, q, a, h)
      /\ QueueOk(q, a, blocks[user], nextBatchID, author, log, user)
      /\ held \in Seq(Result) /\ h \in Nat /\ DOMAIN held = 1 .. h
      /\ \A k \in DOMAIN held : held[k].batch = q[k]
      /\ remote \in Remote /\ user \in Users
  BY UserFacts
<1>3. queue \in [Users -> Seq(Batch)] /\ log \in Seq(Nat) /\ cache \in Document
  BY DEF Base, Typed
<1>4. PipeOk(r, q, b.id, h + 1)
  <2>1. PipeOk(r, q, q[h + 1].id, h + 1)
    BY <1>1, <1>2, PipeAck DEF Oldest
  <2> QED
    BY <1>1, <2>1
<1>5. b.write \in Range(log)
  BY <1>1 DEF Range
<1>6. QueueOk(q, b.id, w, nextBatchID, author, log, user) /\ SplitAt(q, b.id, h + 1)
  <2>1. /\ q \in Seq(Batch) /\ a \in Int /\ SplitAt(q, a, h) /\ h + 1 <= Len(q) /\ b = q[h + 1]
        /\ QueueOk(q, a, blocks[user], nextBatchID, author, log, user)
    BY <1>1, <1>2
  <2> HIDE DEF q, a, h, b
  <2> QED
    BY <1>5, <2>1, QueueAck
<1>7. v \in Nat
  BY <1>1, <1>3
<1>8. x \in Result /\ x.batch = b
  BY <1>1, <1>7 DEF Result
<1>9. b.id \in Nat
  BY <1>1 DEF Batch
<1> HIDE DEF q, h, a, w, v, x, t, b, r
<1>10. CASE held' = Append(held, x) /\ queue' = queue /\ cache' = cache
  <2>1. /\ held' \in Seq(Result) /\ Len(held') = h + 1 /\ DOMAIN held' = 1 .. h + 1
        /\ held'[h + 1] = x /\ \A k \in DOMAIN held : held'[k] = held[k]
    <3>1. /\ Append(held, x) \in Seq(Result) /\ Len(Append(held, x)) = Len(held) + 1
          /\ DOMAIN Append(held, x) = 1 .. Len(held) + 1
          /\ Append(held, x)[Len(held) + 1] = x
          /\ \A k \in DOMAIN held : Append(held, x)[k] = held[k]
      BY <1>2, <1>8, AppendAt
    <3> QED
      BY <1>10, <3>1 DEF h
  <2>2. t = q
    BY <1>10 DEF t, q
  <2>3. \A k \in DOMAIN held' : held'[k].batch = q[k]
    <3>0. h \in Nat
      BY <1>2
    <3>1. \A k \in 1 .. h + 1 : k \in 1 .. h \/ k = h + 1
      BY <3>0
    <3> QED
      BY <1>1, <1>2, <1>8, <2>1, <3>1
  <2>4. q[h + 1].id = b.id
    BY <1>1
  <2> QED
    BY <1>2, <1>3, <1>4, <1>6, <1>10, <2>1, <2>2, <2>3, <2>4 DEF t, w, b, r
<1>11. CASE /\ held = <<>> /\ held' = <<>>
            /\ cache' = ApplyResults(cache, <<x>>)
            /\ t \in Seq(Batch) /\ Cut(q, t, 0, 1)
            /\ queue' = [queue EXCEPT ![user] = t]
  <2>1. h = 0 /\ Len(held') = 0 /\ DOMAIN held' = {} /\ held' \in Seq(Result)
    BY <1>11 DEF h
  <2>2. h + 1 = 1 /\ h + 1 - 1 = 0 /\ 1 \in Nat /\ 1 <= h + 1 /\ 0 + 1 <= Len(q) /\ 0 \in Nat
    BY <1>1, <2>1
  <2> DEFINE i == h + 1
  <2>3. i - 1 = 0 /\ 1 <= i /\ SplitAt(q, b.id, i) /\ PipeOk(r, q, b.id, i)
    BY <1>4, <1>6, <2>2
  <2> HIDE DEF i
  <2>4. SplitAt(t, b.id, 0) /\ PipeOk(r, t, b.id, 0)
    <3>1. q \in Seq(Batch) /\ t \in Seq(Batch) /\ Cut(q, t, 0, 1) /\ r \in Remote /\ 1 \in Nat
      BY <1>1, <1>2, <1>11
    <3>2. SplitAt(t, b.id, i - 1) /\ PipeOk(r, t, b.id, i - 1)
      BY <2>3, <3>1, PipeRelease
    <3> QED
      BY <2>3, <3>2
  <2>5. t # <<>> => b.id <= t[Len(t)].id
    <3>1. SUFFICES ASSUME t # <<>> PROVE b.id <= t[Len(t)].id
      OBVIOUS
    <3>2. Len(t) \in Nat /\ Len(t) # 0 /\ DOMAIN t = 1 .. Len(t)
      BY <1>11, <3>1, EmptySeq
    <3>3. Len(t) \in DOMAIN t /\ ~(Len(t) <= 0)
      BY <3>2
    <3>4. t[Len(t)].id \in Nat
      BY <1>11, <3>3, BatchFacts
    <3>5. ~(t[Len(t)].id <= b.id)
      BY <2>4, <3>3 DEF SplitAt
    <3> QED
      BY <1>9, <3>4, <3>5
  <2>6. w \in SUBSET w /\ \A y \in w : \A k \in 0 + 1 .. 0 + 1 : y # q[k]
    <3>1. \A k \in 0 + 1 .. 0 + 1 : k = h + 1
      BY <2>2
    <3> QED
      BY <1>1, <3>1 DEF w
  <2>7. QueueOk(t, b.id, w, nextBatchID, author, log, user)
    BY <1>2, <1>6, <1>11, <2>2, <2>5, <2>6, QueueCut
  <2>8. queue' \in [Users -> Seq(Batch)] /\ \A u \in Users : u # user => queue'[u] = queue[u]
    BY <1>2, <1>3, <1>11
  <2>9. cache' \in Document
    <3>1. <<x>> \in Seq(Result)
      BY <1>8
    <3> QED
      BY <1>3, <1>11, <3>1, ApplyResultsFacts
  <2> QED
    BY <1>11, <2>1, <2>4, <2>7, <2>8, <2>9 DEF t, w, b, r
<1> QED
  BY <1>1, <1>10, <1>11 DEF t, x, q, b, r

\* An acknowledgement makes room in the pipeline.
LEMMA WriteAcknowledgedBase == Base /\ WriteAcknowledged => Base'
<1> SUFFICES ASSUME Base, WriteAcknowledged PROVE Base'
  OBVIOUS
<1> DEFINE b == Oldest
           r == Behind
           w == {x \in blocks[user] : x.id # b.id}
           t == queue'[user]
           d == remote'
           g == Len(held')
<1>1. /\ remote.state = "Open" /\ remote.handshakeComplete
      /\ b \in Batch /\ b = queue[user][Len(held) + 1] /\ Len(held) + 1 <= Len(queue[user])
      /\ r \in Remote /\ r.lastBatchSeen = remote.lastBatchSeen /\ StreamOk(r, log)
      /\ lastAcked' = [lastAcked EXCEPT ![user] = b.id]
      /\ blocks' = [blocks EXCEPT ![user] = w]
      /\ d = FillWritePipeline(r, t, b.id)
  BY Acknowledged
<1>2. /\ t \in Seq(Batch) /\ queue' \in [Users -> Seq(Batch)]
      /\ \A u \in Users : u # user => queue'[u] = queue[u]
      /\ QueueOk(t, b.id, w, nextBatchID, author, log, user)
      /\ SplitAt(t, b.id, g) /\ PipeOk(r, t, b.id, g)
      /\ \A k \in DOMAIN held' : held'[k].batch = t[k]
      /\ g > 0 => t[g].id = b.id
      /\ held' \in Seq(Result) /\ cache' \in Document
  BY AcknowledgedQueue
<1>3. /\ user \in Users /\ queue[user] \in Seq(Batch) /\ blocks[user] \in SUBSET Batch
      /\ QueueOk(queue[user], lastAcked[user], blocks[user], nextBatchID, author, log, user)
      /\ remote.lastBatchSeen < nextBatchID /\ (Greeted(remote) => halfClosed = <<>>)
      /\ Len(held) \in Nat
  BY UserFacts
<1>4. /\ lastAcked \in [Users -> Int] /\ blocks \in [Users -> SUBSET Batch]
      /\ applied \in [Users -> Int]
  BY DEF Base, Typed
<1>5. UNCHANGED <<remoteVersion, user, nextBatchID, watch, backend, faults, author, refused, mine>>
      /\ applied' = [applied EXCEPT ![user] = @ - 1]
  BY DEF WriteAcknowledged
<1>6. b.id \in Nat /\ b.id < nextBatchID
  <2>1. Len(queue[user]) \in Nat /\ DOMAIN queue[user] = 1 .. Len(queue[user])
    BY <1>3, BatchFacts
  <2>2. Len(held) + 1 \in DOMAIN queue[user]
    BY <1>1, <1>3, <2>1
  <2> QED
    BY <1>1, <1>3, <2>2 DEF QueueOk, Batch
<1> HIDE DEF b, r, w, t, d, g
<1>7. Ascending(t) /\ \A k \in DOMAIN t : t[k].id < nextBatchID
  BY <1>2 DEF QueueOk
<1>8. /\ d \in Remote /\ PipeOk(d, t, b.id, g) /\ Full(d, t, g) /\ d.lastBatchSeen < nextBatchID
      /\ StreamOk(d, log)
  <2>1. r.lastBatchSeen < nextBatchID /\ b.id \in Int
    BY <1>1, <1>3, <1>6
  <2>2. /\ r \in Remote /\ t \in Seq(Batch) /\ SplitAt(t, b.id, g) /\ PipeOk(r, t, b.id, g)
        /\ StreamOk(r, log) /\ d = FillWritePipeline(r, t, b.id)
    BY <1>1, <1>2
  <2> QED
    BY <1>7, <2>1, <2>2, Filled
<1>9. halfClosed = <<>>
  BY <1>1, <1>3 DEF Greeted
<1>10. /\ lastAcked' \in [Users -> Int] /\ lastAcked'[user] = b.id
       /\ blocks' \in [Users -> SUBSET Batch] /\ blocks'[user] = w
       /\ \A u \in Users : u # user => lastAcked'[u] = lastAcked[u] /\ blocks'[u] = blocks[u]
  <2>1. w \in SUBSET Batch
    BY <1>3 DEF w
  <2> QED
    BY <1>1, <1>3, <1>4, <1>6, <2>1
<1>11. /\ remoteVersion' = remoteVersion /\ user' = user /\ nextBatchID' = nextBatchID
       /\ listening' = listening /\ floor' = floor /\ log' = log /\ halfClosed' = halfClosed
       /\ faults' = faults /\ author' = author /\ refused' = refused /\ mine' = mine
  BY <1>5 DEF watch, backend
<1>12. QueueInv'
  BY <1>2, <1>10, <1>11, QueueInvAt DEF Base, t
<1>13. PipelineInv'
  BY <1>2, <1>6, <1>8, <1>10, <1>11 DEF PipelineInv, t, d, g
<1>14. StreamInv'
  BY <1>8, <1>9, <1>11 DEF StreamInv, d
<1>15. applied' \in [Users -> Int]
  BY <1>3, <1>4, <1>5
<1>16. Typed'
  BY <1>2, <1>8, <1>10, <1>11, <1>15 DEF Base, Typed, d
<1> QED
  BY <1>12, <1>13, <1>14, <1>16 DEF Base

\* What WriteRefused does: the batch behind the acknowledged ones leaves the
\* queue, whatever was applied of it.
LEMMA Refused ==
  ASSUME Base, WriteRefused
  PROVE  /\ remote.pending # <<>> /\ Oldest \in Batch
         /\ Oldest = queue[user][Len(held) + 1] /\ Len(held) + 1 <= Len(queue[user])
         /\ queue'[user] \in Seq(Batch) /\ Cut(queue[user], queue'[user], Len(held), 1)
         /\ queue' = [queue EXCEPT ![user] = queue'[user]]
         /\ blocks' = [blocks EXCEPT ![user] = {x \in blocks[user] : x.id # Oldest.id}]
<1> DEFINE b == Oldest
           q == queue[user]
           h == Len(held)
           a == lastAcked[user]
           t == Without(q, {b.id})
<1>1. /\ remote.pending # <<>>
      /\ queue' = [queue EXCEPT ![user] = t]
      /\ blocks' = [blocks EXCEPT ![user] = {x \in blocks[user] : x.id # b.id}]
  BY DEF WriteRefused, ProcessUserCallbacks, Oldest
<1>2. /\ q \in Seq(Batch) /\ Ascending(q) /\ a \in Int /\ SplitAt(q, a, h)
      /\ PipeOk(remote, q, a, h)
      /\ remote \in Remote /\ user \in Users /\ h \in Nat
  BY UserFacts
<1>3. queue \in [Users -> Seq(Batch)] /\ remote.pending \in Seq(Batch)
  BY <1>2, RemoteFields DEF Base, Typed
<1>4. b \in Batch
  BY <1>1, <1>3, TailAt DEF Oldest
<1>5. h + 1 <= Len(q) /\ b = q[h + 1]
  <2> DEFINE d == [remote EXCEPT !.pending = Tail(remote.pending)]
  <2>1. d.pending = Tail(remote.pending) /\ d.lastBatchSeen = remote.lastBatchSeen
    BY <1>2 DEF Remote
  <2> HIDE DEF d
  <2>2. h + 1 <= Len(q) /\ Head(remote.pending) = q[h + 1]
    BY <1>1, <1>2, <2>1, PipeAck
  <2> QED
    BY <2>2 DEF Oldest
<1>6. {b.id} = {q[k].id : k \in h + 1 .. h + 1}
  <2> HIDE DEF q, h, b
  <2>1. h + 1 .. h + 1 = {h + 1}
    BY <1>2
  <2> QED
    BY <1>5, <2>1
<1>7. t \in Seq(Batch) /\ Cut(q, t, h, 1)
  <2>1. 1 \in Nat /\ h \in Nat /\ h + 1 <= Len(q)
    BY <1>2, <1>5
  <2> QED
    BY <1>2, <1>6, <2>1, WithoutFacts
<1> HIDE DEF t
<1>8. queue'[user] = t
  BY <1>1, <1>2, <1>3
<1> QED
  BY <1>1, <1>4, <1>5, <1>7, <1>8

\* A refusal ends the stream; the pipeline goes on with the batches behind.
LEMMA WriteRefusedBase == Base /\ WriteRefused => Base' /\ ~Greeted(remote')
<1> SUFFICES ASSUME Base, WriteRefused PROVE Base' /\ ~Greeted(remote')
  OBVIOUS
<1> DEFINE b == Oldest
           q == queue[user]
           h == Len(held)
           a == lastAcked[user]
           w == {x \in blocks[user] : x.id # b.id}
           c == Close(remote, "Initial")
           r == [c EXCEPT !.pending = Tail(c.pending)]
           t == queue'[user]
           e == FillWritePipeline(r, t, a)
           d == remote'
<1>1. /\ remote.pending # <<>> /\ b \in Batch /\ b = q[h + 1] /\ h + 1 <= Len(q)
      /\ t \in Seq(Batch) /\ Cut(q, t, h, 1)
      /\ queue' = [queue EXCEPT ![user] = t]
      /\ blocks' = [blocks EXCEPT ![user] = w]
  BY Refused
<1>2. /\ q \in Seq(Batch) /\ Ascending(q) /\ a \in Int /\ SplitAt(q, a, h)
      /\ PipeOk(remote, q, a, h)
      /\ QueueOk(q, a, blocks[user], nextBatchID, author, log, user)
      /\ \A k \in DOMAIN held : held[k].batch = q[k]
      /\ h > 0 => q[h].id = a
      /\ remote \in Remote /\ user \in Users /\ h \in Nat /\ DOMAIN held = 1 .. h
      /\ a < nextBatchID /\ remote.lastBatchSeen < nextBatchID
      /\ blocks[user] \in SUBSET Batch
  BY UserFacts
<1>3. /\ queue \in [Users -> Seq(Batch)] /\ blocks \in [Users -> SUBSET Batch]
      /\ refused \subseteq Nat /\ mine \subseteq Nat
  BY DEF Base, Typed
<1>4. /\ d = RestartIfNeeded(e)
      /\ refused' = refused \cup {b.write} /\ mine' = mine \ {b.write}
      /\ UNCHANGED <<lastAcked, cache, remoteVersion, user, nextBatchID, held,
                     watch, backend, faults, author, applied>>
  BY DEF WriteRefused, Oldest
<1>5. Down(c) /\ c.pending = remote.pending /\ c.lastBatchSeen = remote.lastBatchSeen
  BY <1>2, CloseFacts
<1>6. Tail(c.pending) \in Seq(Batch)
  <2>1. remote.pending \in Seq(Batch)
    BY <1>2, RemoteFields
  <2> QED
    BY <1>1, <1>5, <2>1, TailAt
<1>7. b.id \in Nat /\ b.write \in Nat
  BY <1>1 DEF Batch
<1> HIDE DEF c, b
<1>8. /\ Down(r) /\ r \in Remote /\ r.pending = Tail(remote.pending)
      /\ r.lastBatchSeen = remote.lastBatchSeen
  BY <1>5, <1>6 DEF Down, Remote
<1> HIDE DEF q, h, a, w, r, t, e, d
<1>9. SplitAt(t, a, h) /\ PipeOk(r, t, a, h)
  BY <1>1, <1>2, <1>8, PipeRefuse
<1>10. /\ Len(q) \in Nat /\ Len(t) \in Nat /\ DOMAIN t = 1 .. Len(t) /\ Len(t) = Len(q) - 1
       /\ \A k \in DOMAIN t : k <= h => k \in DOMAIN q /\ t[k] = q[k]
  <2>1. 1 \in Nat /\ h + 1 <= Len(q)
    BY <1>1
  <2> QED
    BY <1>1, <1>2, <2>1, CutAt
<1>11. h <= Len(t)
  BY <1>1, <1>2, <1>10
<1>12. \A k \in 1 .. h : k \in DOMAIN t /\ t[k] = q[k]
  <2>1. \A k \in 1 .. h : k \in 1 .. Len(t) /\ k <= h
    BY <1>2, <1>10, <1>11
  <2> QED
    BY <1>10, <2>1
<1>13. \A k \in DOMAIN held : held[k].batch = t[k]
  BY <1>2, <1>12
<1>14. h > 0 => t[h].id = a
  <2>1. h > 0 => h \in 1 .. h
    BY <1>2
  <2> QED
    BY <1>2, <1>12, <2>1
<1>15. t # <<>> => a <= t[Len(t)].id
  <2>1. SUFFICES ASSUME t # <<>> PROVE a <= t[Len(t)].id
    OBVIOUS
  <2>2. Len(t) # 0
    BY <1>1, <2>1, EmptySeq
  <2>3. CASE Len(t) = h
    <3>1. h > 0
      BY <1>2, <2>2, <2>3
    <3> QED
      BY <1>2, <1>14, <2>3, <3>1
  <2>4. CASE Len(t) # h
    <3>1. Len(t) \in DOMAIN t /\ ~(Len(t) <= h)
      BY <1>2, <1>10, <1>11, <2>2, <2>4
    <3>2. ~(t[Len(t)].id <= a)
      BY <1>9, <3>1 DEF SplitAt
    <3>3. t[Len(t)].id \in Nat
      BY <1>1, <3>1, BatchFacts
    <3> QED
      BY <1>2, <3>2, <3>3
  <2> QED
    BY <2>3, <2>4
<1>16. QueueOk(t, a, w, nextBatchID, author, log, user)
  <2>1. w \in SUBSET blocks[user] /\ \A x \in w : \A k \in h + 1 .. h + 1 : x # q[k]
    <3>1. \A k \in h + 1 .. h + 1 : k = h + 1
      BY <1>2
    <3> QED
      BY <1>1, <3>1 DEF w
  <2>2. 1 \in Nat /\ h + 1 <= Len(q)
    BY <1>1
  <2> QED
    BY <1>1, <1>2, <1>15, <2>1, <2>2, QueueCut
<1>17. Ascending(t) /\ \A k \in DOMAIN t : t[k].id < nextBatchID
  BY <1>16 DEF QueueOk
<1>18. StreamOk(r, log) /\ ~Greeted(r)
  BY <1>8, DownFacts
<1>19. /\ e \in Remote /\ PipeOk(e, t, a, h) /\ Full(e, t, h) /\ e.lastBatchSeen < nextBatchID
       /\ StreamOk(e, log) /\ ~Greeted(e) /\ Fills(r, e, t)
  <2>1. r.lastBatchSeen < nextBatchID /\ e = FillWritePipeline(r, t, a)
    BY <1>2, <1>8 DEF e
  <2>2. /\ r \in Remote /\ t \in Seq(Batch) /\ Ascending(t) /\ a \in Int /\ SplitAt(t, a, h)
        /\ PipeOk(r, t, a, h)
    BY <1>1, <1>2, <1>8, <1>9, <1>17
  <2>3. /\ e \in Remote /\ PipeOk(e, t, a, h) /\ Full(e, t, h) /\ e.lastBatchSeen < nextBatchID
        /\ StreamOk(e, log) /\ (Greeted(e) => Greeted(r))
    BY <1>17, <1>18, <2>1, <2>2, Filled
  <2>4. Fills(r, e, t)
    BY <2>1, <2>2, FillFacts
  <2> QED
    BY <1>18, <2>3, <2>4
<1>20. /\ d \in Remote /\ d.pending = e.pending /\ d.lastBatchSeen = e.lastBatchSeen
       /\ StreamOk(d, log) /\ ~Greeted(d)
  <2>1. CASE IsStarted(e)
    <3>1. d = e
      BY <1>4, <2>1 DEF RestartIfNeeded
    <3> QED
      BY <1>19, <3>1
  <2>2. CASE ~IsStarted(e)
    <3>1. ~IsStarted(r)
      BY <1>8 DEF Down, IsStarted
    <3>2. e.state = r.state /\ e.requests = r.requests /\ e.responses = r.responses
      BY <1>19, <2>2, <3>1 DEF Fills, IsStarted
    <3>3. Down(e)
      BY <1>8, <1>19, <3>2 DEF Down
    <3> QED
      BY <1>4, <3>3, DownFacts
  <2> QED
    BY <2>1, <2>2
<1>21. PipeOk(d, t, a, h) /\ Full(d, t, h)
  BY <1>19, <1>20, PipeSame
<1>22. /\ queue' \in [Users -> Seq(Batch)] /\ blocks' \in [Users -> SUBSET Batch]
       /\ blocks'[user] = w
       /\ \A u \in Users : u # user => queue'[u] = queue[u] /\ blocks'[u] = blocks[u]
  <2>1. w \in SUBSET Batch
    BY <1>2 DEF w
  <2> QED
    BY <1>1, <1>2, <1>3, <2>1
<1>23. /\ lastAcked' = lastAcked /\ cache' = cache /\ held' = held /\ applied' = applied
       /\ remoteVersion' = remoteVersion /\ user' = user /\ nextBatchID' = nextBatchID
       /\ listening' = listening /\ floor' = floor /\ log' = log /\ halfClosed' = halfClosed
       /\ faults' = faults /\ author' = author
  BY <1>4 DEF watch, backend
<1>24. QueueInv'
  BY <1>16, <1>22, <1>23, QueueInvAt DEF Base, t, a
<1>25. PipelineInv'
  BY <1>2, <1>9, <1>13, <1>14, <1>19, <1>20, <1>21, <1>23 DEF PipelineInv, t, d, a, h
<1>26. StreamInv'
  BY <1>20, <1>23 DEF StreamInv, d
<1>27. Typed'
  <2>1. refused' \subseteq Nat /\ mine' \subseteq Nat
    BY <1>3, <1>4, <1>7
  <2> QED
    BY <1>20, <1>22, <1>23, <2>1 DEF Base, Typed, d
<1> QED
  BY <1>20, <1>24, <1>25, <1>26, <1>27 DEF Base, d

-----------------------------------------------------------------------------
(* Users and restarts *)

\* What was under way of a stream that is left are writes of the pipeline.
LEMMA SentFacts ==
  ASSUME Base
  PROVE  /\ Sent(remote) \in Seq(Nat)
         /\ Sent(remote) # <<>> =>
              /\ remote.state = "Open" /\ remote.handshakeComplete /\ ~Ended(remote)
              /\ Sent(remote) = remote.requests
<1> DEFINE s == remote.requests
           K == {k \in DOMAIN s : s[k] # Handshake}
<1>1. remote \in Remote /\ StreamOk(remote, log)
  BY UserFacts
<1>2. s \in Seq(Nat) /\ remote.handshakeComplete \in BOOLEAN /\ remote.pending \in Seq(Batch)
  BY <1>1, RemoteFields
<1>3. Sent(remote) = IF Ended(remote) THEN <<>> ELSE Kept(s, K)
  BY DEF Sent
<1>4. Len(s) \in Nat /\ DOMAIN s = 1 .. Len(s)
  BY <1>2
<1>5. CASE Ended(remote)
  BY <1>3, <1>5
<1>6. CASE ~Ended(remote) /\ remote.state = "Open" /\ remote.handshakeComplete
  <2>1. WritesOk(remote, log)
    BY <1>1, <1>6 DEF StreamOk
  <2>2. /\ Answered(remote) + Len(s) = Len(remote.pending)
        /\ \A k \in DOMAIN s : s[k] = remote.pending[Answered(remote) + k].write
    BY <2>1 DEF WritesOk
  <2>3. /\ Answered(remote) \in Nat /\ Len(remote.pending) \in Nat
        /\ DOMAIN remote.pending = 1 .. Len(remote.pending)
    BY <1>1, <1>2, AnsweredFacts
  <2>4. \A k \in 1 .. Len(s) : Answered(remote) + k \in 1 .. Len(remote.pending)
    <3> DEFINE i == Answered(remote)
               j == Len(s)
               l == Len(remote.pending)
    <3>1. i \in Nat /\ j \in Nat /\ l \in Nat /\ i + j = l
      BY <1>4, <2>2, <2>3
    <3> HIDE DEF i, j, l
    <3>2. \A k \in 1 .. j : i + k \in 1 .. l
      BY <3>1
    <3> QED
      BY <3>2 DEF i, j, l
  <2>5. \A k \in DOMAIN s : s[k] # Handshake
    BY <1>4, <2>2, <2>3, <2>4, PendingFacts
  <2> HIDE DEF s
  <2>6. K = {k \in DOMAIN s : k <= 0 \/ k > 0 + 0}
    BY <1>4, <2>5
  <2>7. 0 \in Nat /\ 0 + 0 <= Len(s)
    BY <1>4
  <2> HIDE DEF K
  <2>8. Kept(s, K) \in Seq(Nat) /\ Cut(s, Kept(s, K), 0, 0)
    BY <1>2, <2>6, <2>7, KeptFacts
  <2> DEFINE t == Kept(s, K)
  <2>9. /\ Len(t) \in Nat /\ DOMAIN t = 1 .. Len(t) /\ Len(t) = Len(s) - 0
        /\ \A k \in DOMAIN t : k > 0 => k + 0 \in DOMAIN s /\ t[k] = s[k + 0]
    BY <1>2, <2>7, <2>8, CutAt
  <2>10. t \in Seq(Nat)
    BY <2>8
  <2> HIDE DEF t
  <2>11. Len(t) = Len(s) /\ \A k \in 1 .. Len(s) : t[k] = s[k]
    <3>1. Len(t) = Len(s)
      BY <1>4, <2>9
    <3>2. \A k \in 1 .. Len(s) : k + 0 = k /\ k > 0
      BY <1>4
    <3> QED
      BY <2>9, <3>1, <3>2
  <2>12. t = s
    BY <1>2, <2>10, <2>11, SeqEqual
  <2>13. Sent(remote) = t
    BY <1>3, <1>6 DEF t
  <2> QED
    BY <1>6, <2>10, <2>12, <2>13 DEF s
<1>7. CASE ~Ended(remote) /\ ~(remote.state = "Open" /\ remote.handshakeComplete)
  <2>1. s = <<>> \/ s = <<Handshake>>
    BY <1>1, <1>7 DEF StreamOk, HandshakeOk
  <2>2. K = {}
    BY <2>1
  <2> HIDE DEF K
  <2>3. Kept(s, K) = <<>>
    <3>1. Cardinality({}) = 0 /\ 1 .. 0 = {}
      BY FS_EmptySet
    <3>2. Kept(s, {}) = [n \in 1 .. 0 |-> s[CHOOSE k \in {} : Cardinality({j \in {} : j <= k}) = n]]
      BY <3>1 DEF Kept
    <3>3. Kept(s, {}) = <<>>
      BY <3>1, <3>2
    <3> QED
      BY <2>2, <3>3
  <2> QED
    BY <1>3, <1>7, <2>3
<1> QED
  BY <1>5, <1>6, <1>7

\* Starting a queue leaves what is not acknowledged, and a pipeline of it.
LEMMA Started ==
  ASSUME Base, NEW u \in Users, StartMutationQueue(u), UNCHANGED <<author, log>>,
         blocks' \in [Users -> SUBSET Batch], \A x \in Users : blocks'[x] \subseteq blocks[x]
  PROVE  /\ QueueInv' /\ PipelineInv'
         /\ queue' \in [Users -> Seq(Batch)] /\ lastAcked' \in [Users -> Int] /\ user' \in Users
         /\ nextBatchID' \in Nat /\ held' \in Seq(Result) /\ mine' \subseteq Nat
         /\ remote' \in Remote /\ StreamOk(remote', log) /\ ~Greeted(remote')
<1> DEFINE a == StartedAcked(u)
           t == After(queue[u], a)
           n == LoadNextBatchID
           d == remote'
<1>1. /\ user' = u /\ nextBatchID' = n
      /\ lastAcked' = [lastAcked EXCEPT ![u] = a] /\ queue' = [queue EXCEPT ![u] = t]
      /\ held' = <<>> /\ d = FillWritePipeline(FreshRemote, queue'[u], a) /\ mine' = {}
      /\ author' = author /\ log' = log
  BY DEF StartMutationQueue
<1>2. Typed /\ QueueInv
  BY DEF Base
<1>3. /\ queue \in [Users -> Seq(Batch)] /\ lastAcked \in [Users -> Int] /\ nextBatchID \in Nat
      /\ author \in Seq(Users) /\ nextBatchID <= Len(author)
  BY <1>2 DEF Typed, QueueInv
<1>4. /\ a \in Int /\ a >= Unknown /\ a < n /\ t \in Seq(Batch) /\ SplitAt(t, a, 0)
      /\ QueueOk(t, a, blocks[u], n, author, log, u)
  BY <1>2, StartFacts
<1>5. /\ n \in Nat /\ n <= nextBatchID
      /\ \A x \in Users : \A k \in DOMAIN queue[x] : queue[x][k].id < n
  BY <1>2, NextIdFacts
<1> HIDE DEF a, t, n, d
<1>6. n <= Len(author) /\ 0 \in Nat
  BY <1>3, <1>5
<1>7. /\ queue'[u] = t /\ lastAcked'[u] = a
      /\ \A x \in Users : x # u => queue'[x] = queue[x] /\ lastAcked'[x] = lastAcked[x]
      /\ queue' \in [Users -> Seq(Batch)] /\ lastAcked' \in [Users -> Int]
  BY <1>1, <1>3, <1>4
<1>8. ASSUME NEW x \in Users
      PROVE  QueueOk(queue'[x], lastAcked'[x], blocks'[x], n, author, log, x)
  <2>1. CASE x = u
    <3>1. QueueOk(t, a, blocks'[u], n, author, log, u)
      BY <1>4, QueueFewer
    <3> QED
      BY <1>7, <2>1, <3>1
  <2>2. CASE x # u
    <3>1. QueueOk(queue[x], lastAcked[x], blocks[x], nextBatchID, author, log, x)
      BY <1>2 DEF QueueInv
    <3>2. QueueOk(queue[x], lastAcked[x], blocks[x], n, author, log, x)
      BY <1>5, <3>1 DEF QueueOk
    <3>3. QueueOk(queue[x], lastAcked[x], blocks'[x], n, author, log, x)
      BY <3>2, QueueFewer
    <3> QED
      BY <1>7, <2>2, <3>3
  <2> QED
    BY <2>1, <2>2
<1>9. QueueInv'
  BY <1>1, <1>6, <1>8 DEF QueueInv
<1>10. FreshRemote \in Remote /\ Down(FreshRemote) /\ PipeOk(FreshRemote, t, a, 0)
  BY <1>4, PipeFresh
<1>11. StreamOk(FreshRemote, log) /\ ~Greeted(FreshRemote)
  BY <1>10, DownFacts
<1>12. Ascending(t) /\ \A k \in DOMAIN t : t[k].id < n
  BY <1>4 DEF QueueOk
<1>13. /\ d \in Remote /\ PipeOk(d, t, a, 0) /\ Full(d, t, 0) /\ d.lastBatchSeen < n
       /\ StreamOk(d, log) /\ ~Greeted(d)
  <2>1. FreshRemote.lastBatchSeen < n /\ d = FillWritePipeline(FreshRemote, t, a)
    BY <1>1, <1>5, <1>7 DEF FreshRemote, Unknown
  <2>2. /\ FreshRemote \in Remote /\ t \in Seq(Batch) /\ a \in Int /\ SplitAt(t, a, 0)
        /\ PipeOk(FreshRemote, t, a, 0) /\ StreamOk(FreshRemote, log)
    BY <1>4, <1>10, <1>11
  <2>3. /\ d \in Remote /\ PipeOk(d, t, a, 0) /\ Full(d, t, 0) /\ d.lastBatchSeen < n
        /\ StreamOk(d, log) /\ (Greeted(d) => Greeted(FreshRemote))
    BY <1>12, <2>1, <2>2, Filled
  <2> QED
    BY <1>11, <2>3
<1>14. Len(<<>>) = 0 /\ DOMAIN <<>> = {} /\ <<>> \in Seq(Result) /\ ~(0 > 0)
  OBVIOUS
<1>15. PipelineInv'
  BY <1>1, <1>4, <1>7, <1>13, <1>14 DEF PipelineInv, d
<1> QED
  BY <1>1, <1>5, <1>7, <1>9, <1>13, <1>14, <1>15 DEF d

\* Another user signs in, ...
LEMMA UserDidChangeBase == ASSUME NEW u \in Users PROVE Base /\ UserDidChange(u) => Base'
<1> SUFFICES ASSUME Base, UserDidChange(u) PROVE Base'
  OBVIOUS
<1>1. /\ StartMutationQueue(u) /\ faults' = faults + 1 /\ halfClosed' = halfClosed \o Sent(remote)
      /\ UNCHANGED <<cache, remoteVersion, blocks, watch, log, author, refused, applied>>
  BY DEF UserDidChange
<1>2. /\ blocks \in [Users -> SUBSET Batch] /\ halfClosed \in Seq(Nat) /\ faults \in Nat
  BY DEF Base, Typed
<1>3. /\ QueueInv' /\ PipelineInv'
      /\ queue' \in [Users -> Seq(Batch)] /\ lastAcked' \in [Users -> Int] /\ user' \in Users
      /\ nextBatchID' \in Nat /\ held' \in Seq(Result) /\ mine' \subseteq Nat
      /\ remote' \in Remote /\ StreamOk(remote', log) /\ ~Greeted(remote')
  <2>1. blocks' \in [Users -> SUBSET Batch] /\ \A x \in Users : blocks'[x] \subseteq blocks[x]
    BY <1>1, <1>2
  <2> QED
    BY <1>1, <2>1, Started
<1>4. halfClosed' \in Seq(Nat)
  BY <1>1, <1>2, SentFacts, ConcatAt
<1>5. /\ cache' = cache /\ remoteVersion' = remoteVersion /\ blocks' = blocks /\ log' = log
      /\ listening' = listening /\ floor' = floor /\ author' = author /\ refused' = refused
      /\ applied' = applied /\ faults' \in Nat
  BY <1>1, <1>2 DEF watch
<1>6. StreamInv'
  BY <1>3, <1>5 DEF StreamInv
<1>7. Typed'
  BY <1>3, <1>4, <1>5 DEF Base, Typed
<1> QED
  BY <1>3, <1>6, <1>7 DEF Base

\* ... or the app is started again.
LEMMA RestartBase == Base /\ Restart => Base'
<1> SUFFICES ASSUME Base, Restart PROVE Base'
  OBVIOUS
<1>1. /\ StartMutationQueue(user) /\ faults' = faults + 1
      /\ \E n \in 0 .. Len(Sent(remote)) :
           halfClosed' = halfClosed \o SubSeq(Sent(remote), 1, n)
      /\ blocks' = [u \in Users |-> {}] /\ listening' = FALSE
      /\ UNCHANGED <<cache, remoteVersion, floor, log, author, refused, applied>>
  BY DEF Restart
<1>2. /\ blocks \in [Users -> SUBSET Batch] /\ halfClosed \in Seq(Nat) /\ faults \in Nat
      /\ user \in Users
  BY DEF Base, Typed
<1>3. blocks' \in [Users -> SUBSET Batch] /\ \A x \in Users : blocks'[x] \subseteq blocks[x]
  BY <1>1, <1>2
<1>4. /\ QueueInv' /\ PipelineInv'
      /\ queue' \in [Users -> Seq(Batch)] /\ lastAcked' \in [Users -> Int] /\ user' \in Users
      /\ nextBatchID' \in Nat /\ held' \in Seq(Result) /\ mine' \subseteq Nat
      /\ remote' \in Remote /\ StreamOk(remote', log) /\ ~Greeted(remote')
  BY <1>1, <1>2, <1>3, Started
<1>5. halfClosed' \in Seq(Nat)
  <2>1. PICK n \in 0 .. Len(Sent(remote)) : halfClosed' = halfClosed \o SubSeq(Sent(remote), 1, n)
    BY <1>1
  <2> DEFINE s == Sent(remote)
  <2>2. s \in Seq(Nat)
    BY SentFacts
  <2>3. n \in 0 .. Len(s)
    BY <2>1
  <2> HIDE DEF s
  <2>4. SubSeq(s, 1, n) \in Seq(Nat)
    BY <2>2, <2>3
  <2>5. halfClosed' = halfClosed \o SubSeq(s, 1, n)
    BY <2>1 DEF s
  <2> HIDE <2>1
  <2> QED
    BY <1>2, <2>4, <2>5, ConcatAt
<1>6. /\ cache' = cache /\ remoteVersion' = remoteVersion /\ log' = log /\ listening' \in BOOLEAN
      /\ floor' = floor /\ author' = author /\ refused' = refused
      /\ applied' = applied /\ faults' \in Nat
  <2>1. listening' \in BOOLEAN
    BY <1>1, Zenon
  <2> QED
    BY <1>1, <1>2, <2>1
<1>7. StreamInv'
  BY <1>4, <1>6 DEF StreamInv
<1>8. Typed'
  BY <1>3, <1>4, <1>5, <1>6 DEF Base, Typed
<1> QED
  BY <1>4, <1>7, <1>8 DEF Base

-----------------------------------------------------------------------------
(* Held results *)

\* p has the first n elements of s, and e those behind them.
Parts(s, p, e, n) ==
    /\ n \in 0 .. Len(s) /\ Len(p) = n /\ Len(e) = Len(s) - n
    /\ \A k \in 1 .. n : p[k] = s[k]
    /\ \A k \in 1 .. Len(s) - n : e[k] = s[n + k]

\* The end of a sequence.
LEMMA SuffixAt ==
  ASSUME NEW S, NEW s \in Seq(S), NEW m \in 1 .. Len(s)
  PROVE  /\ SubSeq(s, m, Len(s)) \in Seq(S) /\ Len(SubSeq(s, m, Len(s))) = Len(s) - m + 1
         /\ \A k \in 1 .. Len(s) - m + 1 : SubSeq(s, m, Len(s))[k] = s[m + k - 1]
OBVIOUS

\* The results released are the first of those held.
LEMMA ReleasableFacts ==
  ASSUME Base, NEW seen \in Nat, NEW targets \in BOOLEAN
  PROVE  LET p == Releasable(seen, targets)
             e == SubSeq(held, Len(p) + 1, Len(held))
         IN  /\ p \in Seq(Result) /\ e \in Seq(Result)
             /\ \E n \in Nat : Parts(held, p, e, n)
             /\ \A k \in DOMAIN p : UpTo(p[k].version, seen, targets)
             /\ e # <<>> => ~UpTo(e[1].version, seen, targets)
<1> DEFINE early == {k \in DOMAIN held : ~UpTo(held[k].version, seen, targets)}
           p == Releasable(seen, targets)
           h == Len(held)
           e == SubSeq(held, Len(p) + 1, h)
<1>1. held \in Seq(Result) /\ h \in Nat /\ DOMAIN held = 1 .. h
  BY UserFacts
<1>2. p = IF early = {} THEN held ELSE SubSeq(held, 1, Min(early) - 1)
  BY DEF Releasable
<1>3. \A k \in DOMAIN held : k \in early <=> ~UpTo(held[k].version, seen, targets)
  OBVIOUS
<1>4. early \in SUBSET (DOMAIN held)
  OBVIOUS
<1> HIDE DEF early, h
<1>5. CASE early = {}
  <2>1. p = held
    BY <1>2, <1>5
  <2>2. e = <<>> /\ e \in Seq(Result) /\ Len(e) = 0
    BY <1>1, <2>1 DEF h
  <2> HIDE DEF p, e
  <2>3. Parts(held, p, e, h)
    <3>1. h \in 0 .. h /\ h - h = 0 /\ 1 .. 0 = {}
      BY <1>1
    <3> QED
      BY <2>1, <2>2, <3>1 DEF Parts, h
  <2>4. \A k \in DOMAIN p : UpTo(p[k].version, seen, targets)
    BY <1>3, <1>5, <2>1
  <2> QED
    BY <1>1, <2>1, <2>2, <2>3, <2>4 DEF p, e, h
<1>6. CASE early # {}
  <2> DEFINE m == Min(early)
             n == m - 1
  <2>1. m \in early /\ \A k \in early : m <= k
    <3>1. early \in SUBSET Nat
      BY <1>1, <1>4
    <3> QED
      BY <1>6, <3>1, MinFacts
  <2>2. m \in 1 .. h
    BY <1>1, <1>4, <2>1
  <2>3. p = SubSeq(held, 1, n)
    BY <1>2, <1>6
  <2> HIDE DEF m
  <2>4. n \in 0 .. h /\ n + 1 = m /\ n \in Nat /\ \A k \in 1 .. n : k \in 1 .. h /\ ~(m <= k)
    BY <1>1, <2>2
  <2> HIDE DEF n
  <2>5. p \in Seq(Result) /\ Len(p) = n /\ DOMAIN p = 1 .. n /\ \A k \in 1 .. n : p[k] = held[k]
    BY <1>1, <2>3, <2>4 DEF h
  <2>6. e = SubSeq(held, m, h)
    BY <2>4, <2>5
  <2>7. /\ e \in Seq(Result) /\ Len(e) = h - m + 1
        /\ \A k \in 1 .. h - m + 1 : e[k] = held[m + k - 1]
    <3>1. held \in Seq(Result) /\ m \in 1 .. Len(held)
      BY <1>1, <2>2 DEF h
    <3>2. /\ SubSeq(held, m, Len(held)) \in Seq(Result)
          /\ Len(SubSeq(held, m, Len(held))) = Len(held) - m + 1
          /\ \A k \in 1 .. Len(held) - m + 1 : SubSeq(held, m, Len(held))[k] = held[m + k - 1]
      BY <3>1, SuffixAt
    <3> HIDE DEF e
    <3> QED
      BY <2>6, <3>2 DEF h
  <2> HIDE DEF p, e
  <2>8. h - m + 1 = h - n /\ \A k \in 1 .. h - n : m + k - 1 = n + k
    BY <1>1, <2>2, <2>4
  <2>9. Parts(held, p, e, n)
    <3>1. Len(e) = h - n /\ \A k \in 1 .. h - n : e[k] = held[n + k]
      BY <2>7, <2>8
    <3> QED
      BY <2>4, <2>5, <3>1 DEF Parts, h
  <2>10. \A k \in DOMAIN p : UpTo(p[k].version, seen, targets)
    BY <1>1, <1>3, <2>1, <2>4, <2>5
  <2>11. ~UpTo(e[1].version, seen, targets)
    <3>1. 1 \in 1 .. h - m + 1 /\ m + 1 - 1 = m
      BY <1>1, <2>2
    <3>2. e[1] = held[m]
      BY <2>7, <3>1
    <3> QED
      BY <1>3, <1>4, <2>1, <3>2
  <2> QED
    BY <2>4, <2>5, <2>7, <2>9, <2>10, <2>11 DEF p, e, h
<1> QED
  BY <1>5, <1>6

\* Released batches leave the queue in front.
LEMMA Released ==
  ASSUME Base, NEW p \in Seq(Result), held' \in Seq(Result), NEW n \in Nat, Parts(held, p, held', n),
         Release(p), UNCHANGED <<lastAcked, user, nextBatchID, blocks, author, log, remote>>
  PROVE  /\ QueueInv' /\ PipelineInv'
         /\ queue' \in [Users -> Seq(Batch)] /\ n <= Len(held)
         /\ Cut(queue[user], queue'[user], 0, n)
         /\ \A u \in Users : u # user => queue'[u] = queue[u]
<1> DEFINE q   == queue[user]
           a   == lastAcked[user]
           h   == Len(held)
           ids == {p[k].batch.id : k \in DOMAIN p}
           t   == Without(q, ids)
           g   == Len(held')
<1>1. /\ q \in Seq(Batch) /\ Ascending(q) /\ a \in Int /\ SplitAt(q, a, h)
      /\ PipeOk(remote, q, a, h)
      /\ Full(remote, q, h)
      /\ QueueOk(q, a, blocks[user], nextBatchID, author, log, user)
      /\ \A k \in DOMAIN held : held[k].batch = q[k]
      /\ h > 0 => q[h].id = a
      /\ remote \in Remote /\ user \in Users /\ h \in Nat /\ DOMAIN held = 1 .. h
      /\ a < nextBatchID /\ remote.lastBatchSeen < nextBatchID
  BY UserFacts
<1>2. queue \in [Users -> Seq(Batch)] /\ queue' = [queue EXCEPT ![user] = t]
  BY DEF Base, Typed, Release
<1>3. /\ n \in 0 .. h /\ Len(p) = n /\ g = h - n
      /\ \A k \in 1 .. n : p[k] = held[k]
      /\ \A k \in 1 .. h - n : held'[k] = held[n + k]
  BY DEF Parts
<1>4. /\ h <= Len(q) /\ Len(q) \in Nat /\ DOMAIN q = 1 .. Len(q)
      /\ \A k \in DOMAIN q : q[k].id \in Nat
      /\ \A k \in DOMAIN q : q[k].id <= a <=> k <= h
  BY <1>1, BatchFacts DEF SplitAt
<1>5. DOMAIN p = 1 .. n /\ DOMAIN held' = 1 .. g
  BY <1>3
<1>6. \A k \in DOMAIN p : p[k].batch.id = q[k].id
  <2>1. \A k \in 1 .. n : k \in 1 .. h
    BY <1>1, <1>3
  <2> QED
    BY <1>1, <1>3, <1>5, <2>1
<1>7. ids = {q[k].id : k \in 0 + 1 .. 0 + n}
  <2>1. 0 + 1 .. 0 + n = DOMAIN p
    BY <1>5
  <2> HIDE DEF q
  <2> QED
    BY <1>6, <2>1
<1>8. t \in Seq(Batch) /\ Cut(q, t, 0, n)
  <2>1. 0 \in Nat /\ 0 + n <= Len(q)
    BY <1>1, <1>3, <1>4
  <2> HIDE DEF ids, q
  <2> QED
    BY <1>1, <1>7, <2>1, WithoutFacts
<1> HIDE DEF t, ids, q, a, h, g
<1>9. /\ queue'[user] = t /\ queue' \in [Users -> Seq(Batch)]
      /\ \A u \in Users : u # user => queue'[u] = queue[u]
  BY <1>1, <1>2, <1>8
<1>10. n <= h /\ h - n \in Nat /\ 0 \in Nat /\ 0 + n <= Len(q)
  BY <1>1, <1>3, <1>4
<1>11. SplitAt(t, a, h - n) /\ PipeOk(remote, t, a, h - n) /\ Full(remote, t, h - n)
  BY <1>1, <1>8, <1>10, PipeRelease
<1>12. /\ Len(t) \in Nat /\ DOMAIN t = 1 .. Len(t) /\ Len(t) = Len(q) - n
       /\ \A k \in DOMAIN t : k > 0 => k + n \in DOMAIN q /\ t[k] = q[k + n]
  BY <1>1, <1>8, <1>10, CutAt
<1>13. \A k \in DOMAIN t : t[k] = q[k + n]
  BY <1>12
<1>14. t # <<>> => a <= t[Len(t)].id
  <2>1. SUFFICES ASSUME t # <<>> PROVE a <= t[Len(t)].id
    OBVIOUS
  <2>2. Len(t) # 0
    BY <1>8, <2>1, EmptySeq
  <2>3. Len(t) \in DOMAIN t /\ Len(t) + n = Len(q) /\ Len(q) # 0
    BY <1>4, <1>12, <2>2
  <2>4. t[Len(t)] = q[Len(q)]
    BY <1>13, <2>3
  <2>5. q # <<>>
    BY <1>1, <2>3, EmptySeq
  <2> QED
    BY <1>1, <2>4, <2>5 DEF QueueOk
<1>15. \A x \in blocks[user] : \A k \in 0 + 1 .. 0 + n : x # q[k]
  <2>1. \A x \in blocks[user] : \E k \in DOMAIN q : x = q[k] /\ x.id > a
    BY <1>1 DEF QueueOk
  <2>2. \A x \in blocks[user] : ~(x.id <= a)
    BY <1>1, <1>4, <2>1
  <2>3. \A k \in 0 + 1 .. 0 + n : k \in 1 .. Len(q) /\ k <= h
    BY <1>1, <1>3, <1>4
  <2> QED
    BY <1>4, <2>2, <2>3
<1>16. QueueOk(t, a, blocks[user], nextBatchID, author, log, user)
  <2>1. blocks[user] \in SUBSET blocks[user]
    OBVIOUS
  <2> QED
    BY <1>1, <1>8, <1>10, <1>14, <1>15, <2>1, QueueCut
<1>17. /\ lastAcked' = lastAcked /\ user' = user /\ nextBatchID' = nextBatchID /\ blocks' = blocks
       /\ author' = author /\ log' = log /\ remote' = remote
  OBVIOUS
<1>18. QueueInv'
  BY <1>9, <1>16, <1>17, QueueInvAt, SMTT(30) DEF Base, a
<1>19. \A k \in 1 .. h - n : n + k \in 1 .. h /\ k \in 1 .. Len(t) /\ k + n = n + k
  BY <1>1, <1>3, <1>4, <1>12, SMTT(30)
<1>20. ASSUME NEW k \in DOMAIN held' PROVE held'[k].batch = t[k]
  <2>1. k \in 1 .. h - n
    BY <1>3, <1>5
  <2>2. n + k \in DOMAIN held /\ k \in DOMAIN t /\ k + n = n + k
    BY <1>1, <1>12, <1>19, <2>1
  <2>3. held'[k] = held[n + k] /\ t[k] = q[n + k]
    BY <1>3, <1>13, <2>1, <2>2
  <2> QED
    BY <1>1, <2>2, <2>3
<1>21. g > 0 => t[g].id = a
  <2>1. ASSUME g > 0 PROVE g \in 1 .. h - n /\ n + g = h /\ h > 0
    BY <1>1, <1>3, <1>10, <2>1, SMTT(40)
  <2> QED
    BY <1>1, <1>12, <1>13, <1>19, <2>1
<1>22. PipelineInv'
  <2>1. SplitAt(t, a, g) /\ PipeOk(remote, t, a, g) /\ Full(remote, t, g)
    BY <1>3, <1>11
  <2> QED
    BY <1>1, <1>9, <1>17, <1>20, <1>21, <2>1 DEF PipelineInv, a, g
<1> QED
  BY <1>8, <1>9, <1>10, <1>18, <1>22 DEF q, h

\* The last listener leaves: everything held is released.
LEMMA UnlistenFacts ==
  ASSUME Base, Unlisten
  PROVE  /\ QueueInv' /\ PipelineInv' /\ queue' \in [Users -> Seq(Batch)]
         /\ Cut(queue[user], queue'[user], 0, Len(held))
         /\ \A u \in Users : u # user => queue'[u] = queue[u]
<1>1. /\ held' = <<>> /\ Release(held)
      /\ UNCHANGED <<lastAcked, user, nextBatchID, blocks, author, log, remote>>
  BY DEF Unlisten, backend, history
<1>2. held \in Seq(Result) /\ Len(held) \in Nat
  BY UserFacts
<1>3. held' \in Seq(Result) /\ Parts(held, held, held', Len(held))
  <2>1. Len(held) \in 0 .. Len(held) /\ Len(held) - Len(held) = 0 /\ 1 .. 0 = {} /\ Len(<<>>) = 0
    BY <1>2
  <2> QED
    BY <1>1, <2>1 DEF Parts
<1> QED
  BY <1>1, <1>2, <1>3, Released

\* So the queue and the pipeline stay in order.
LEMMA UnlistenBase == Base /\ Unlisten => Base'
<1> SUFFICES ASSUME Base, Unlisten PROVE Base'
  OBVIOUS
<1>1. QueueInv' /\ PipelineInv' /\ queue' \in [Users -> Seq(Batch)]
  BY UnlistenFacts
<1>2. /\ listening' \in BOOLEAN /\ cache' = ApplyResults(cache, held) /\ held' = <<>>
      /\ UNCHANGED <<lastAcked, remoteVersion, user, nextBatchID, blocks, remote,
                     floor, backend, faults, history>>
  <2>1. listening' \in BOOLEAN
    BY Zenon DEF Unlisten
  <2> QED
    BY <2>1 DEF Unlisten
<1>3. cache' \in Document /\ held' \in Seq(Result)
  BY <1>2, ApplyResultsFacts DEF Base, Typed
<1>4. StreamInv'
  BY <1>2 DEF Base, StreamInv, backend
<1>5. Typed'
  BY <1>1, <1>2, <1>3 DEF Base, Typed, backend, history
<1> QED
  BY <1>1, <1>4, <1>5 DEF Base

\* A snapshot arrives: what it has caught up with is released.
LEMMA ApplyRemoteEventFacts ==
  ASSUME Base, NEW version \in DOMAIN log, ApplyRemoteEvent(version)
  PROVE  /\ QueueInv' /\ PipelineInv' /\ queue' \in [Users -> Seq(Batch)]
         /\ held' \in Seq(Result)
         /\ \E n \in Nat :
              /\ Parts(held, Releasable(version, TRUE), held', n)
              /\ n <= Len(held) /\ Cut(queue[user], queue'[user], 0, n)
         /\ \A u \in Users : u # user => queue'[u] = queue[u]
<1> DEFINE p == Releasable(version, TRUE)
<1>1. /\ held' = SubSeq(held, Len(p) + 1, Len(held)) /\ Release(p)
      /\ UNCHANGED <<lastAcked, user, nextBatchID, blocks, author, log, remote>>
  BY DEF ApplyRemoteEvent, backend, history
<1>2. version \in Nat
  BY DEF Base, Typed
<1>3. p \in Seq(Result) /\ held' \in Seq(Result) /\ \E n \in Nat : Parts(held, p, held', n)
  BY <1>1, <1>2, ReleasableFacts
<1> HIDE DEF p
<1>4. PICK n \in Nat : Parts(held, p, held', n)
  BY <1>3
<1>5. /\ QueueInv' /\ PipelineInv' /\ queue' \in [Users -> Seq(Batch)]
      /\ n <= Len(held) /\ Cut(queue[user], queue'[user], 0, n)
      /\ \A u \in Users : u # user => queue'[u] = queue[u]
  BY <1>1, <1>3, <1>4, Released
<1> QED
  BY <1>3, <1>4, <1>5 DEF p

\* So they stay in order here, too.
LEMMA ApplyRemoteEventBase ==
  ASSUME NEW version \in DOMAIN log PROVE Base /\ ApplyRemoteEvent(version) => Base'
<1> SUFFICES ASSUME Base, ApplyRemoteEvent(version) PROVE Base'
  OBVIOUS
<1>1. QueueInv' /\ PipelineInv' /\ queue' \in [Users -> Seq(Batch)] /\ held' \in Seq(Result)
  BY ApplyRemoteEventFacts
<1> DEFINE p == Releasable(version, TRUE)
<1>2. /\ remoteVersion' = version
      /\ cache' = ApplyResults([write |-> log[version], version |-> version], p)
      /\ UNCHANGED <<lastAcked, user, nextBatchID, blocks, remote, watch,
                     backend, faults, history>>
  BY DEF ApplyRemoteEvent
<1>3. version \in Nat /\ log[version] \in Nat
  BY DEF Base, Typed
<1>4. p \in Seq(Result)
  BY <1>3, ReleasableFacts
<1>5. cache' \in Document
  <2>1. [write |-> log[version], version |-> version] \in Document
    BY <1>3 DEF Document
  <2> QED
    BY <1>2, <1>4, <2>1, ApplyResultsFacts
<1> HIDE DEF p
<1>6. StreamInv'
  BY <1>2 DEF Base, StreamInv, backend
<1>7. Typed'
  BY <1>1, <1>2, <1>3, <1>5 DEF Base, Typed, watch, backend, history
<1> QED
  BY <1>1, <1>6, <1>7 DEF Base

\* The first listener comes.
LEMMA ListenBase == Base /\ Listen => Base'
<1> SUFFICES ASSUME Base, Listen PROVE Base'
  OBVIOUS
<1>1. /\ UNCHANGED <<local, remote, backend, faults, history>> /\ floor' = Len(log)
  BY DEF Listen
<1>2. listening' \in BOOLEAN
  BY Zenon DEF Listen
<1>3. floor' \in Nat
  BY <1>1 DEF Base, Typed
<1>4. QueueInv' /\ PipelineInv'
  BY <1>1, Carried DEF local, backend, history
<1>5. StreamInv'
  BY <1>1 DEF Base, StreamInv, backend
<1>6. Typed'
  BY <1>1, <1>2, <1>3 DEF Base, Typed, local, backend, history
<1> QED
  BY <1>4, <1>5, <1>6 DEF Base

\* At the beginning there is nothing.
LEMMA InitBase == Init => Base
<1> SUFFICES ASSUME Init PROVE Base
  OBVIOUS
<1>1. /\ <<>> \in Seq(Batch) /\ <<>> \in Seq(Result) /\ <<>> \in Seq(Nat) /\ <<>> \in Seq(Users)
      /\ Len(<<>>) = 0 /\ DOMAIN <<>> = {}
  OBVIOUS
<1>2. Unknown \in Int /\ Unknown >= Unknown /\ Unknown < 0
  BY DEF Unknown
<1>3. SplitAt(<<>>, Unknown, 0)
  BY <1>1 DEF SplitAt
<1>4. FreshRemote \in Remote /\ Down(FreshRemote) /\ PipeOk(FreshRemote, <<>>, Unknown, 0)
  BY <1>1, <1>2, <1>3, PipeFresh
<1>5. Full(FreshRemote, <<>>, 0)
  BY <1>1 DEF Full, FreshRemote
<1>6. StreamInv
  BY <1>4, DownFacts DEF Init, StreamInv
<1>7. \A u \in Users : QueueOk(<<>>, Unknown, {}, 0, <<>>, <<>>, u)
  BY <1>1, <1>2 DEF QueueOk, Ascending
<1>8. QueueInv
  <2>1. /\ nextBatchID = 0 /\ author = <<>> /\ log = <<>>
        /\ \A u \in Users : queue[u] = <<>> /\ lastAcked[u] = Unknown /\ blocks[u] = {}
    BY DEF Init
  <2>2. nextBatchID <= Len(author)
    BY <1>1, <2>1
  <2>3. \A u \in Users : QueueOk(queue[u], lastAcked[u], blocks[u], nextBatchID, author, log, u)
    BY <1>7, <2>1, Zenon
  <2> QED
    BY <2>2, <2>3 DEF QueueInv
<1>9. PipelineInv
  <2>1. /\ nextBatchID = 0 /\ held = <<>> /\ remote = FreshRemote /\ user \in Users
        /\ queue[user] = <<>> /\ lastAcked[user] = Unknown
    BY DEF Init
  <2>2. FreshRemote.lastBatchSeen < 0
    BY <1>2 DEF FreshRemote
  <2> QED
    BY <1>1, <1>2, <1>3, <1>4, <1>5, <2>1, <2>2 DEF PipelineInv
<1>10. Typed
  <2>1. cache \in Document
    BY DEF Init, Document
  <2>2. /\ queue \in [Users -> Seq(Batch)] /\ lastAcked \in [Users -> Int]
        /\ blocks \in [Users -> SUBSET Batch] /\ applied \in [Users -> Int]
    BY <1>1, <1>2 DEF Init
  <2>3. /\ remoteVersion \in Nat /\ user \in Users /\ nextBatchID \in Nat /\ floor \in Nat
        /\ faults \in Nat /\ refused \subseteq Nat /\ mine \subseteq Nat
    BY DEF Init
  <2>4. listening \in BOOLEAN
    BY Zenon DEF Init
  <2>5. /\ held \in Seq(Result) /\ log \in Seq(Nat) /\ halfClosed \in Seq(Nat)
        /\ author \in Seq(Users)
        /\ remote \in Remote
    BY <1>1, <1>4 DEF Init
  <2> QED
    BY <2>1, <2>2, <2>3, <2>4, <2>5 DEF Typed
<1> QED
  BY <1>6, <1>8, <1>9, <1>10 DEF Base

\* Every step keeps the first layer.
LEMMA NextBase == Base /\ [Next]_vars => Base'
<1> SUFFICES ASSUME Base, [Next]_vars PROVE Base'
  OBVIOUS
<1>1. CASE WriteMutations
  BY <1>1, WriteMutationsBase
<1>2. CASE TokenArrived
  BY <1>2, TokenArrivedBase
<1>3. CASE BackoffElapsed
  BY <1>3, BackoffElapsedBase
<1>4. CASE IdleTimer
  BY <1>4, IdleTimerBase
<1>5. CASE AnswerHandshake
  BY <1>5, AnswerHandshakeBase
<1>6. CASE ApplyWrite
  BY <1>6, ApplyWriteBase
<1>7. CASE \E type \in Closing : EndStream(type)
  BY <1>7, EndStreamBase
<1>8. CASE ApplyHalfClosed
  BY <1>8, ApplyHalfClosedBase
<1>9. CASE HandshakeDone
  BY <1>9, HandshakeDoneBase
<1>10. CASE WriteAcknowledged
  BY <1>10, WriteAcknowledgedBase
<1>11. CASE StreamFailed
  BY <1>11, StreamFailedBase
<1>12. CASE WriteRefused
  BY <1>12, WriteRefusedBase
<1>13. CASE ConnectionLost
  BY <1>13, ConnectionLostBase
<1>14. CASE \E u \in Users : UserDidChange(u)
  BY <1>14, UserDidChangeBase
<1>15. CASE Restart
  BY <1>15, RestartBase
<1>16. CASE Listen
  BY <1>16, ListenBase
<1>17. CASE Unlisten
  BY <1>17, UnlistenBase
<1>18. CASE \E version \in DOMAIN log : ApplyRemoteEvent(version)
  BY <1>18, ApplyRemoteEventBase
<1>19. CASE UNCHANGED vars
  BY <1>19 DEF vars, Base, Typed, QueueInv, PipelineInv, StreamInv
<1> QED
  BY <1>1, <1>2, <1>3, <1>4, <1>5, <1>6, <1>7, <1>8, <1>9, <1>10, <1>11, <1>12, <1>13,
     <1>14, <1>15, <1>16, <1>17, <1>18, <1>19 DEF Next

\* So it always holds.
LEMMA AlwaysBase == Spec => []Base
BY InitBase, NextBase, PTL DEF Spec

-----------------------------------------------------------------------------
(* What follows: the pipeline, the answers, the batch ids *)

\* What is left of a sequence behind its first n elements.
LEMMA RestAt ==
  ASSUME NEW S, NEW s \in Seq(S), NEW n \in Nat, n <= Len(s)
  PROVE  /\ SubSeq(s, n + 1, Len(s)) \in Seq(S) /\ Len(SubSeq(s, n + 1, Len(s))) = Len(s) - n
         /\ \A k \in 1 .. Len(s) - n : SubSeq(s, n + 1, Len(s))[k] = s[n + k]
OBVIOUS

\* Where the unacknowledged batches of a user are.
Suffix(q, x, h) ==
    /\ x \in Seq(Batch) /\ h \in Nat /\ h <= Len(q) /\ Len(x) = Len(q) - h
    /\ Len(x) \in Nat /\ DOMAIN x = 1 .. Len(x)
    /\ \A k \in 1 .. Len(x) : x[k] = q[h + k] /\ h + k \in DOMAIN q

\* They come behind the acknowledged ones.
LEMMA SuffixFacts ==
  ASSUME NEW q \in Seq(Batch), NEW acked \in Int, NEW h, SplitAt(q, acked, h)
  PROVE  Suffix(q, After(q, acked), h)
<1> DEFINE x == After(q, acked)
<1>1. x \in Seq(Batch) /\ Cut(q, x, 0, h)
  BY AfterFacts
<1>2. h \in Nat /\ h <= Len(q)
  BY DEF SplitAt
<1> HIDE DEF x
<1>3. /\ Len(q) \in Nat /\ DOMAIN q = 1 .. Len(q) /\ Len(x) \in Nat /\ DOMAIN x = 1 .. Len(x)
      /\ Len(x) = Len(q) - h
      /\ \A k \in DOMAIN x : k > 0 => k + h \in DOMAIN q /\ x[k] = q[k + h]
  <2>1. 0 \in Nat /\ 0 + h <= Len(q)
    BY <1>2
  <2> QED
    BY <1>1, <1>2, <2>1, CutAt
<1>4. \A k \in 1 .. Len(x) : k > 0 /\ k + h = h + k
  BY <1>2, <1>3
<1>5. \A k \in 1 .. Len(x) : x[k] = q[h + k] /\ h + k \in DOMAIN q
  BY <1>3, <1>4
<1> QED
  BY <1>1, <1>2, <1>3, <1>5 DEF Suffix, x

\* For the user at work they come behind what is held, for others somewhere.
LEMMA UnackedFacts ==
  ASSUME Base
  PROVE  /\ Suffix(queue[user], Unacked(user), Len(held))
         /\ \A u \in Users : \E h \in Nat :
              /\ SplitAt(queue[u], lastAcked[u], h) /\ Suffix(queue[u], Unacked(u), h)
              /\ u = user => h = Len(held)
<1>1. Suffix(queue[user], Unacked(user), Len(held))
  BY UserFacts, SuffixFacts DEF Unacked
<1>2. ASSUME NEW u \in Users
      PROVE  \E h \in Nat : /\ SplitAt(queue[u], lastAcked[u], h) /\ Suffix(queue[u], Unacked(u), h)
                            /\ u = user => h = Len(held)
  <2>1. CASE u = user
    <3>1. /\ Len(held) \in Nat /\ SplitAt(queue[u], lastAcked[u], Len(held))
          /\ Suffix(queue[u], Unacked(u), Len(held))
      BY <1>1, <2>1, UserFacts
    <3> QED
      BY <3>1
  <2>2. CASE u # user
    <3>1. queue[u] \in Seq(Batch) /\ lastAcked[u] \in Int
      BY DEF Base, Typed
    <3>2. Ascending(queue[u])
      BY DEF Base, QueueInv, QueueOk
    <3>3. PICK h \in Nat : SplitAt(queue[u], lastAcked[u], h)
      BY <3>1, <3>2, SplitExists
    <3>4. Suffix(queue[u], Unacked(u), h)
      BY <3>1, <3>3, SuffixFacts DEF Unacked
    <3> QED
      BY <2>2, <3>3, <3>4
  <2> QED
    BY <2>1, <2>2
<1> QED
  BY <1>1, <1>2

\* The pipeline is the beginning of the unacknowledged batches.
LEMMA PipelineAt ==
  ASSUME Base
  PROVE  /\ remote.pending \in Seq(Batch) /\ Len(remote.pending) \in Nat
         /\ DOMAIN remote.pending = 1 .. Len(remote.pending)
         /\ Len(remote.pending) <= Len(Unacked(user)) /\ Len(remote.pending) <= MaxPendingWrites
         /\ Len(remote.pending) = Len(Unacked(user)) \/ Len(remote.pending) = MaxPendingWrites
         /\ \A k \in 1 .. Len(remote.pending) : remote.pending[k] = Unacked(user)[k]
<1> DEFINE p == remote.pending
           x == Unacked(user)
           q == queue[user]
           h == Len(held)
<1>1. /\ remote \in Remote /\ q \in Seq(Batch) /\ h \in Nat
      /\ PipeOk(remote, q, lastAcked[user], h) /\ Full(remote, q, h)
  BY UserFacts
<1>2. p \in Seq(Batch) /\ Len(p) \in Nat /\ DOMAIN p = 1 .. Len(p)
  BY <1>1, RemoteFields, BatchFacts
<1>3. Suffix(q, x, h)
  BY UnackedFacts
<1>4. /\ Len(x) \in Nat /\ Len(x) = Len(q) - h /\ \A k \in 1 .. Len(x) : x[k] = q[h + k]
  BY <1>3 DEF Suffix
<1>5. /\ h + Len(p) <= Len(q) /\ Len(p) <= MaxPendingWrites
      /\ \A k \in DOMAIN p : p[k] = q[h + k]
      /\ Len(p) = MaxPendingWrites \/ h + Len(p) = Len(q)
  BY <1>1 DEF PipeOk, Full
<1>6. Len(q) \in Nat
  BY <1>1, BatchFacts
<1> HIDE DEF p, x, q, h
<1>7. Len(p) <= Len(x) /\ (h + Len(p) = Len(q) => Len(p) = Len(x))
  <2> DEFINE i == Len(p)
             j == Len(x)
             l == Len(q)
  <2>1. i \in Nat /\ j \in Nat /\ l \in Nat /\ h \in Nat /\ j = l - h /\ h + i <= l
    BY <1>1, <1>2, <1>4, <1>5, <1>6
  <2> HIDE DEF i, j, l
  <2>2. i <= j /\ (h + i = l => i = j)
    BY <2>1
  <2> QED
    BY <2>2 DEF i, j, l
<1>8. \A k \in 1 .. Len(p) : k \in 1 .. Len(x)
  BY <1>2, <1>4, <1>7
<1>9. \A k \in 1 .. Len(p) : p[k] = x[k]
  BY <1>2, <1>4, <1>5, <1>8
<1> QED
  BY <1>2, <1>5, <1>7, <1>9 DEF p, x

\* fillWritePipeline: the pipeline is the beginning of the unacknowledged
\* batches, and as long as can be.
THEOREM PipelineIsPrefixHolds == Spec => []PipelineIsPrefix
<1>1. Base => PipelineIsPrefix
  <2> SUFFICES ASSUME Base PROVE PipelineIsPrefix
    OBVIOUS
  <2> DEFINE p == remote.pending
             x == Unacked(user)
             m == MaxPendingWrites
  <2>1. /\ p \in Seq(Batch) /\ Len(p) \in Nat /\ Len(p) <= Len(x) /\ Len(p) <= m
        /\ Len(p) = Len(x) \/ Len(p) = m
        /\ \A k \in 1 .. Len(p) : p[k] = x[k]
    BY PipelineAt
  <2>2. x \in Seq(Batch) /\ Len(x) \in Nat
    BY UnackedFacts DEF Suffix
  <2>3. m \in Nat
    BY PipelineAssumption
  <2> HIDE DEF p, x, m
  <2>4. SubSeq(p, 1, Len(p)) = SubSeq(x, 1, Len(p))
    <3>1. /\ SubSeq(p, 1, Len(p)) \in Seq(Batch) /\ SubSeq(x, 1, Len(p)) \in Seq(Batch)
          /\ Len(SubSeq(p, 1, Len(p))) = Len(p) /\ Len(SubSeq(x, 1, Len(p))) = Len(p)
          /\ \A k \in 1 .. Len(p) : SubSeq(p, 1, Len(p))[k] = SubSeq(x, 1, Len(p))[k]
      BY <2>1, <2>2
    <3> QED
      BY <3>1, SeqEqual
  <2>5. IsPrefix(p, x)
    BY <2>1, <2>4 DEF IsPrefix
  <2>6. Min({m, Len(x)}) = Len(p)
    <3>1. Min({m, Len(x)}) = IF m <= Len(x) THEN m ELSE Len(x)
      <4>1. m \in Int /\ Len(x) \in Int
        BY <2>2, <2>3
      <4> QED
        BY <4>1, PairFacts
    <3> QED
      BY <2>1, <2>2, <2>3, <3>1
  <2> QED
    BY <2>5, <2>6 DEF PipelineIsPrefix, p, x, m
<1> QED
  BY <1>1, AlwaysBase, PTL

\* The acknowledgements under way are the first responses.
LEMMA AcksAt ==
  ASSUME Base
  PROVE  /\ remote.state = "Open" /\ remote.handshakeComplete =>
              Acks = 1 .. Answered(remote) /\ Cardinality(Acks) = Answered(remote)
         /\ ~(remote.state = "Open" /\ remote.handshakeComplete) => Acks = {}
<1> DEFINE A == Answered(remote)
           s == remote.responses
<1>1. remote \in Remote /\ StreamOk(remote, log)
  BY UserFacts
<1>2. s \in Seq(Response) /\ remote.handshakeComplete \in BOOLEAN
  BY <1>1, RemoteFields
<1>3. /\ Len(s) \in Nat /\ DOMAIN s = 1 .. Len(s) /\ A \in Nat /\ A <= Len(s)
      /\ Ended(remote) => s # <<>> /\ A = Len(s) - 1
      /\ ~Ended(remote) => A = Len(s)
  BY <1>1, <1>2, AnsweredFacts
<1>num. A \in Nat
  BY <1>1, AnsweredFacts
<1>4. \A k \in DOMAIN s : k \in 1 .. A \/ s[k].type \in Closing
  <2>1. CASE Ended(remote)
    <3>1. Last(s).type \in Closing /\ Last(s) = s[Len(s)]
      BY <2>1 DEF Ended, Last
    <3>2. \A k \in 1 .. Len(s) : k \in 1 .. A \/ k = Len(s)
      BY <1>3, <2>1
    <3> QED
      BY <1>3, <3>1, <3>2
  <2>2. CASE ~Ended(remote)
    BY <1>3, <2>2
  <2> QED
    BY <2>1, <2>2
<1>5. \A k \in 1 .. A : k \in DOMAIN s
  BY <1>3
<1>6. ASSUME remote.state = "Open", remote.handshakeComplete
      PROVE  Acks = 1 .. A /\ Cardinality(Acks) = A
  <2>1. \A k \in 1 .. A : s[k].type = "ack"
    BY <1>1, <1>6 DEF StreamOk, WritesOk
  <2> HIDE DEF A, s
  <2>2. \A k \in DOMAIN s : s[k].type = "ack" <=> k \in 1 .. A
    BY <1>4, <2>1 DEF Closing
  <2>3. Acks = 1 .. A
    BY <1>5, <2>2 DEF Acks, s
  <2>4. Cardinality(1 .. A) = A
    <3>1. 1 \in Int /\ A \in Int /\ A \in Nat
      BY <1>num
    <3>2. Cardinality(1 .. A) = IF 1 > A THEN 0 ELSE A - 1 + 1
      BY <3>1, FS_Interval
    <3> QED
      BY <3>1, <3>2
  <2> QED
    BY <2>3, <2>4
<1>7. ASSUME ~(remote.state = "Open" /\ remote.handshakeComplete)
      PROVE  Acks = {}
  <2>1. \A k \in 1 .. A : s[k].type # "ack"
    <3>1. CASE remote.state = "Open"
      <4>1. HandshakeOk(remote)
        BY <1>1, <1>2, <1>7, <3>1 DEF StreamOk
      <4>2. A = 0 \/ (A = 1 /\ s[1].type = "handshake")
        BY <4>1 DEF HandshakeOk
      <4>3. CASE A = 0
        BY <4>3
      <4>4. CASE A = 1 /\ s[1].type = "handshake"
        <5>1. \A k \in 1 .. A : k = 1
          BY <4>4
        <5> QED
          BY <4>4, <5>1
      <4> QED
        BY <4>2, <4>3, <4>4
    <3>2. CASE remote.state # "Open"
      <4>1. s = <<>>
        BY <1>1, <3>2 DEF StreamOk
      <4>2. DOMAIN s = {}
        BY <4>1
      <4> QED
        BY <1>5, <4>2
    <3> QED
      BY <3>1, <3>2
  <2> HIDE DEF A, s
  <2>2. \A k \in DOMAIN s : s[k].type # "ack"
    BY <1>4, <2>1 DEF Closing
  <2> QED
    BY <2>2 DEF Acks, s
<1> QED
  BY <1>6, <1>7

\* writeStreamDidReceiveResponse: the n-th answer under way is the one to the
\* n-th batch of the pipeline, and the rest of it is requested.
THEOREM AnswersMatchPipelineHolds == Spec => []AnswersMatchPipeline
<1>1. Base => AnswersMatchPipeline
  <2> SUFFICES ASSUME Base PROVE AnswersMatchPipeline
    OBVIOUS
  <2> DEFINE A == Answered(remote)
             p == remote.pending
             l == Len(p)
             s == remote.responses
             q == remote.requests
  <2>1. CASE remote.state = "Open" /\ remote.handshakeComplete
    <3>1. Acks = 1 .. A /\ Cardinality(Acks) = A
      BY <2>1, AcksAt
    <3>2. remote \in Remote /\ WritesOk(remote, log)
      BY <2>1, UserFacts DEF StreamOk
    <3>3. /\ A + Len(q) = l
          /\ \A k \in 1 .. A : log[s[k].version] = p[k].write
          /\ \A k \in DOMAIN q : q[k] = p[A + k].write
      BY <3>2 DEF WritesOk
    <3>4. /\ p \in Seq(Batch) /\ l \in Nat /\ A \in Nat /\ q \in Seq(Nat)
          /\ Len(q) \in Nat /\ DOMAIN q = 1 .. Len(q)
      BY <3>2, RemoteFields, BatchFacts, AnsweredFacts
    <3> HIDE DEF A, p, l, s, q
    <3>5. A <= l /\ A + 1 \in 1 .. l + 1 /\ Len(q) = l - A
      <4> DEFINE m == Len(q)
      <4>1. m \in Nat /\ A \in Nat /\ l \in Nat /\ A + m = l
        BY <3>3, <3>4
      <4> HIDE DEF m
      <4>2. A <= l /\ A + 1 \in 1 .. l + 1 /\ m = l - A
        BY <4>1
      <4> QED
        BY <4>2 DEF m
    <3>6. \A n \in Acks : n <= l /\ log[s[n].version] = p[n].write
      <4>1. \A n \in 1 .. A : n <= l
        BY <3>4, <3>5
      <4> QED
        BY <3>1, <3>3, <4>1
    <3> DEFINE r == SubSeq(p, A + 1, l)
    <3>7. /\ r \in Seq(Batch) /\ Len(r) = l - A /\ DOMAIN r = 1 .. l - A
          /\ \A k \in 1 .. l - A : r[k] = p[A + k]
      <4>1. /\ SubSeq(p, A + 1, l) \in Seq(Batch) /\ Len(SubSeq(p, A + 1, l)) = l - A
            /\ \A k \in 1 .. l - A : SubSeq(p, A + 1, l)[k] = p[A + k]
        BY <3>4, <3>5, RestAt DEF l
      <4> QED
        BY <4>1
    <3> HIDE DEF r
    <3>8. q = WritesOf(r)
      <4>1. DOMAIN q = DOMAIN r /\ \A k \in DOMAIN q : q[k] = r[k].write
        BY <3>3, <3>4, <3>5, <3>7
      <4>2. q = [k \in DOMAIN q |-> q[k]]
        BY <3>4
      <4> QED
        BY <4>1, <4>2 DEF WritesOf
    <3> QED
      BY <3>1, <3>6, <3>8 DEF AnswersMatchPipeline, A, p, l, s, q, r
  <2>2. CASE ~(remote.state = "Open" /\ remote.handshakeComplete)
    <3>1. Acks = {}
      BY <2>2, AcksAt
    <3> QED
      BY <2>2, <3>1 DEF AnswersMatchPipeline
  <2> QED
    BY <2>1, <2>2
<1> QED
  BY <1>1, AlwaysBase, PTL

\* A completion block waits only for its own write.
LEMMA BlocksAt ==
  ASSUME Base, NEW u \in Users
  PROVE  blocks[u] \subseteq Range(Unacked(u))
<1> DEFINE q == queue[u]
           a == lastAcked[u]
           x == Unacked(u)
<1>1. /\ q \in Seq(Batch) /\ a \in Int
      /\ QueueOk(q, a, blocks[u], nextBatchID, author, log, u)
  BY DEF Base, Typed, QueueInv
<1>2. PICK h \in Nat : SplitAt(q, a, h) /\ Suffix(q, x, h)
  BY UnackedFacts
<1>3. Len(q) \in Nat /\ DOMAIN q = 1 .. Len(q) /\ \A k \in DOMAIN q : q[k].id \in Nat
  BY <1>1, BatchFacts
<1>4. \A b \in blocks[u] : \E k \in DOMAIN q : b = q[k] /\ q[k].id > a
  BY <1>1 DEF QueueOk
<1>5. \A k \in DOMAIN q : q[k].id > a => k > h
  BY <1>1, <1>2, <1>3 DEF SplitAt
<1>6. /\ Len(x) \in Nat /\ Len(x) = Len(q) - h /\ DOMAIN x = 1 .. Len(x)
      /\ \A k \in 1 .. Len(x) : x[k] = q[h + k]
  BY <1>2 DEF Suffix
<1> HIDE DEF q, a, x
<1>7. \A k \in DOMAIN q : k > h => k - h \in DOMAIN x /\ h + (k - h) = k
  BY <1>3, <1>6
<1>8. \A k \in DOMAIN q : k > h => q[k] \in Range(x)
  <2>1. TAKE k \in DOMAIN q
  <2>2. HAVE k > h
  <2>3. k - h \in DOMAIN x /\ h + (k - h) = k
    BY <1>7, <2>2
  <2>4. x[k - h] = q[k]
    BY <1>6, <2>3
  <2> QED
    BY <2>3, <2>4 DEF Range
<1> QED
  BY <1>4, <1>5, <1>8 DEF x

\* The assertions of FSTLevelDBMutationQueue and FSTLocalStore hold: batches
\* are acknowledged in order, only queued batches are rejected or held, and an
\* acknowledgement is reset only on an empty queue.
THEOREM BatchIdsAgreeHolds == Spec => []BatchIdsAgree
<1>1. Base => BatchIdsAgree
  <2> SUFFICES ASSUME Base PROVE BatchIdsAgree
    OBVIOUS
  <2> DEFINE p == remote.pending
             q == queue[user]
             h == Len(held)
             a == lastAcked[user]
  <2>1. /\ q \in Seq(Batch) /\ a \in Int /\ h \in Nat /\ DOMAIN held = 1 .. h
        /\ SplitAt(q, a, h) /\ PipeOk(remote, q, a, h)
        /\ \A k \in DOMAIN held : held[k].batch = q[k]
    BY UserFacts
  <2>2. p \in Seq(Batch) /\ Len(p) \in Nat /\ DOMAIN p = 1 .. Len(p)
    BY PipelineAt
  <2>3. Len(q) \in Nat /\ DOMAIN q = 1 .. Len(q) /\ \A k \in DOMAIN q : q[k].id \in Nat
    BY <2>1, BatchFacts
  <2>4. /\ h + Len(p) <= Len(q) /\ \A k \in DOMAIN p : p[k] = q[h + k]
    BY <2>1 DEF PipeOk
  <2>5. \A k \in DOMAIN q : q[k].id <= a <=> k <= h
    BY <2>1 DEF SplitAt
  <2>6. h <= Len(q)
    BY <2>1 DEF SplitAt
  <2> HIDE DEF p, q, h, a
  <2>7. \A k \in DOMAIN p : h + k \in DOMAIN q /\ ~(h + k <= h)
    BY <2>1, <2>2, <2>3, <2>4
  <2>8. p # <<>> => Head(p).id > a
    <3>1. HAVE p # <<>>
    <3>2. Head(p) = p[1] /\ 1 \in DOMAIN p
      BY <2>2, <3>1, TailAt
    <3>3. p[1] = q[h + 1] /\ h + 1 \in DOMAIN q /\ ~(q[h + 1].id <= a)
      BY <2>4, <2>5, <2>7, <3>2
    <3>4. q[h + 1].id \in Nat
      BY <2>3, <3>3
    <3>5. q[h + 1].id > a
      BY <2>1, <3>3, <3>4
    <3> QED
      BY <3>2, <3>3, <3>5
  <2>9. \A k \in DOMAIN p : p[k] \in Range(q)
    BY <2>4, <2>7 DEF Range
  <2>10. \A k \in DOMAIN held : held[k].batch \in Range(q)
    <3>1. \A k \in DOMAIN held : k \in DOMAIN q
      BY <2>1, <2>3, <2>6
    <3> QED
      BY <2>1, <3>1 DEF Range
  <2>11. \A u \in Users : lastAcked[u] >= LoadNextBatchID => queue[u] = <<>>
    <3>1. TAKE u \in Users
    <3>2. HAVE lastAcked[u] >= LoadNextBatchID
    <3>3. Typed /\ QueueInv
      BY DEF Base
    <3> DEFINE b == StartedAcked(u)
    <3>4. b < LoadNextBatchID /\ (b = lastAcked[u] \/ queue[u] = <<>>)
      BY <3>3, StartFacts
    <3>5. LoadNextBatchID \in Nat /\ lastAcked[u] \in Int
      BY <3>3, NextIdFacts DEF Typed
    <3> HIDE DEF b
    <3> QED
      BY <3>2, <3>4, <3>5
  <2>12. \A u \in Users : blocks[u] \subseteq Range(Unacked(u))
    BY BlocksAt
  <2> QED
    BY <2>8, <2>9, <2>10, <2>11, <2>12 DEF BatchIdsAgree, p, q, a
<1> QED
  BY <1>1, AlwaysBase, PTL

-----------------------------------------------------------------------------
(* No write is lost *)

\* What a step takes off the disk was applied or is refused.
Decided ==
    \A u \in Users : \A b \in Range(queue[u]) \ Range(queue'[u]) :
      b.write \in Range(log) \cup refused'

\* A cut takes off nothing but its interval.
LEMMA CutLoss ==
  ASSUME NEW q \in Seq(Batch), Ascending(q), NEW t \in Seq(Batch), NEW m \in Nat, NEW n \in Nat,
         m + n <= Len(q), Cut(q, t, m, n)
  PROVE  \A b \in Range(q) \ Range(t) : \E j \in DOMAIN q : b = q[j] /\ m < j /\ j <= m + n
<1>1. \A j \in DOMAIN q : j <= m \/ j > m + n => \E k \in DOMAIN t : t[k] = q[j]
  BY CutQueue
<1>2. \A j \in DOMAIN q : j \in Nat
  BY BatchFacts
<1>3. ASSUME NEW b \in Range(q) \ Range(t)
      PROVE  \E j \in DOMAIN q : b = q[j] /\ m < j /\ j <= m + n
  <2>1. PICK j \in DOMAIN q : b = q[j]
    BY DEF Range
  <2>2. ~(j <= m \/ j > m + n)
    BY <1>1, <2>1 DEF Range
  <2>3. m < j /\ j <= m + n
    BY <1>2, <2>2
  <2> QED
    BY <2>1, <2>3
<1> QED
  BY <1>3

\* Acknowledged batches that leave the queue were applied.
LEMMA AckedDecided ==
  ASSUME Base, NEW u \in Users, NEW h \in Nat, SplitAt(queue[u], lastAcked[u], h),
         queue'[u] \in Seq(Batch), NEW n \in Nat, n <= h, Cut(queue[u], queue'[u], 0, n)
  PROVE  \A b \in Range(queue[u]) \ Range(queue'[u]) : b.write \in Range(log)
<1> DEFINE q == queue[u]
           t == queue'[u]
<1>1. /\ q \in Seq(Batch) /\ QueueOk(q, lastAcked[u], blocks[u], nextBatchID, author, log, u)
      /\ t \in Seq(Batch)
  BY DEF Base, Typed, QueueInv
<1>2. Ascending(q) /\ \A k \in DOMAIN q : q[k].id <= lastAcked[u] => q[k].write \in Range(log)
  BY <1>1 DEF QueueOk
<1>3. h <= Len(q) /\ \A k \in DOMAIN q : k <= h => q[k].id <= lastAcked[u]
  BY DEF SplitAt
<1>4. Len(q) \in Nat /\ \A k \in DOMAIN q : k \in Nat
  BY <1>1, BatchFacts
<1>5. Cut(q, t, 0, n)
  OBVIOUS
<1> HIDE DEF q, t
<1>6. 0 \in Nat /\ 0 + n <= Len(q)
  BY <1>3, <1>4
<1>7. \A b \in Range(q) \ Range(t) : \E j \in DOMAIN q : b = q[j] /\ 0 < j /\ j <= 0 + n
  BY <1>1, <1>2, <1>5, <1>6, CutLoss
<1>8. \A j \in DOMAIN q : j <= 0 + n => j <= h
  BY <1>4
<1>9. \A b \in Range(q) \ Range(t) : b.write \in Range(log)
  BY <1>2, <1>3, <1>7, <1>8
<1> QED
  BY <1>9 DEF q, t

\* So releasing what is held loses nothing.
LEMMA ReleaseDecided ==
  ASSUME Base, queue'[user] \in Seq(Batch), NEW n \in Nat, n <= Len(held),
         Cut(queue[user], queue'[user], 0, n), \A u \in Users : u # user => queue'[u] = queue[u]
  PROVE  Decided
<1>1. /\ user \in Users /\ Len(held) \in Nat /\ SplitAt(queue[user], lastAcked[user], Len(held))
  BY UserFacts
<1>2. \A b \in Range(queue[user]) \ Range(queue'[user]) : b.write \in Range(log)
  BY <1>1, AckedDecided
<1> QED
  BY <1>2 DEF Decided

\* A new write leaves nothing out.
LEMMA WriteDecided == Base /\ WriteMutations => Decided
<1> SUFFICES ASSUME Base, WriteMutations PROVE Decided
  OBVIOUS
<1> DEFINE b == [id |-> nextBatchID, write |-> Len(author) + 1]
           t == Append(queue[user], b)
<1>1. queue' = [queue EXCEPT ![user] = t]
  BY DEF WriteMutations
<1>2. /\ queue \in [Users -> Seq(Batch)] /\ user \in Users /\ nextBatchID \in Nat
      /\ author \in Seq(Users)
  BY DEF Base, Typed
<1>3. b \in Batch
  <2>1. Len(author) + 1 \in Nat
    BY <1>2
  <2> QED
    BY <1>2, <2>1 DEF Batch
<1> HIDE DEF b
<1>4. /\ DOMAIN t = 1 .. Len(queue[user]) + 1 /\ DOMAIN queue[user] = 1 .. Len(queue[user])
      /\ Len(queue[user]) \in Nat /\ \A k \in DOMAIN queue[user] : t[k] = queue[user][k]
  <2>1. queue[user] \in Seq(Batch)
    BY <1>2
  <2> QED
    BY <1>3, <2>1, AppendAt
<1> HIDE DEF t
<1>5. \A k \in DOMAIN queue[user] : k \in DOMAIN t
  BY <1>4
<1>6. \A x \in Range(queue[user]) : x \in Range(t)
  BY <1>4, <1>5 DEF Range
<1>7. queue'[user] = t /\ \A u \in Users : u # user => queue'[u] = queue[u]
  BY <1>1, <1>2
<1> QED
  BY <1>6, <1>7 DEF Decided

\* An acknowledged batch was applied.
LEMMA AcknowledgeDecided == Base /\ WriteAcknowledged => Decided
<1> SUFFICES ASSUME Base, WriteAcknowledged PROVE Decided
  OBVIOUS
<1> DEFINE q == queue[user]
           t == queue'[user]
           b == Oldest
<1>1. /\ b = q[Len(held) + 1] /\ Len(held) + 1 <= Len(q)
      /\ Answer \in DOMAIN log /\ log[Answer] = b.write
      /\ queue' = queue \/ (held = <<>> /\ Cut(q, t, 0, 1))
  BY Acknowledged
<1>2. t \in Seq(Batch) /\ \A u \in Users : u # user => queue'[u] = queue[u]
  BY AcknowledgedQueue
<1>3. q \in Seq(Batch) /\ Ascending(q) /\ user \in Users
  BY UserFacts
<1>4. b.write \in Range(log)
  BY <1>1 DEF Range
<1>5. CASE queue' = queue
  BY <1>5 DEF Decided
<1>6. CASE held = <<>> /\ Cut(q, t, 0, 1)
  <2>1. b = q[1] /\ 0 + 1 <= Len(q) /\ 0 \in Nat /\ 1 \in Nat
    BY <1>1, <1>6
  <2>2. \A k \in DOMAIN q : k \in Nat
    BY <1>3, BatchFacts
  <2> HIDE DEF q, t, b
  <2>3. \A x \in Range(q) \ Range(t) : \E j \in DOMAIN q : x = q[j] /\ 0 < j /\ j <= 0 + 1
    BY <1>2, <1>3, <1>6, <2>1, CutLoss
  <2>4. \A j \in DOMAIN q : 0 < j /\ j <= 0 + 1 => j = 1
    BY <2>2
  <2>5. \A x \in Range(q) \ Range(t) : x = b
    BY <2>1, <2>3, <2>4
  <2>6. \A x \in Range(q) \ Range(t) : x.write \in Range(log)
    BY <1>4, <2>5
  <2> QED
    BY <1>2, <2>6 DEF Decided, q, t
<1> QED
  BY <1>1, <1>5, <1>6

\* A refused batch is charged with the error.
LEMMA RefuseDecided == Base /\ WriteRefused => Decided
<1> SUFFICES ASSUME Base, WriteRefused PROVE Decided
  OBVIOUS
<1> DEFINE q == queue[user]
           t == queue'[user]
           b == Oldest
           h == Len(held)
<1>1. /\ b = q[h + 1] /\ h + 1 <= Len(q) /\ t \in Seq(Batch) /\ Cut(q, t, h, 1)
      /\ queue' = [queue EXCEPT ![user] = t]
  BY Refused
<1>2. q \in Seq(Batch) /\ Ascending(q) /\ user \in Users /\ h \in Nat
  BY UserFacts
<1>3. b.write \in refused'
  BY DEF WriteRefused, Oldest
<1>4. queue \in [Users -> Seq(Batch)]
  BY DEF Base, Typed
<1>5. \A u \in Users : u # user => queue'[u] = queue[u]
  BY <1>1, <1>4
<1>6. \A k \in DOMAIN q : k \in Nat
  BY <1>2, BatchFacts
<1> HIDE DEF q, t, b, h
<1>7. 1 \in Nat
  OBVIOUS
<1>8. \A x \in Range(q) \ Range(t) : \E j \in DOMAIN q : x = q[j] /\ h < j /\ j <= h + 1
  BY <1>1, <1>2, <1>7, CutLoss
<1>9. \A j \in DOMAIN q : h < j /\ j <= h + 1 => j = h + 1
  BY <1>2, <1>6
<1>10. \A x \in Range(q) \ Range(t) : x = b
  BY <1>1, <1>8, <1>9
<1>11. \A x \in Range(q) \ Range(t) : x.write \in refused'
  BY <1>3, <1>10
<1> QED
  BY <1>5, <1>11 DEF Decided, q, t

\* start removes acknowledged batches only.
LEMMA StartDecided ==
  ASSUME Base, NEW u \in Users, StartMutationQueue(u)
  PROVE  Decided
<1> DEFINE a == StartedAcked(u)
           t == After(queue[u], a)
<1>1. Typed /\ QueueInv
  BY DEF Base
<1>2. queue' = [queue EXCEPT ![u] = t]
  BY DEF StartMutationQueue
<1>3. queue \in [Users -> Seq(Batch)]
  BY <1>1 DEF Typed
<1>4. /\ t \in Seq(Batch) /\ (a = lastAcked[u] \/ queue[u] = <<>>)
      /\ \E h \in Nat : SplitAt(queue[u], a, h) /\ Cut(queue[u], t, 0, h)
  BY <1>1, StartFacts
<1> HIDE DEF a, t
<1>5. queue'[u] = t /\ \A x \in Users : x # u => queue'[x] = queue[x]
  BY <1>2, <1>3
<1>6. CASE queue[u] = <<>>
  <2>1. Range(queue[u]) = {}
    BY <1>6 DEF Range
  <2> QED
    BY <1>5, <2>1 DEF Decided
<1>7. CASE a = lastAcked[u]
  <2>1. PICK h \in Nat : SplitAt(queue[u], a, h) /\ Cut(queue[u], t, 0, h)
    BY <1>4
  <2>2. /\ SplitAt(queue[u], lastAcked[u], h) /\ queue'[u] \in Seq(Batch) /\ h <= h
        /\ Cut(queue[u], queue'[u], 0, h)
    BY <1>4, <1>5, <1>7, <2>1
  <2>3. \A b \in Range(queue[u]) \ Range(queue'[u]) : b.write \in Range(log)
    BY <2>2, AckedDecided
  <2> QED
    BY <1>5, <2>3 DEF Decided
<1> QED
  BY <1>4, <1>6, <1>7

\* A write leaves the disk only after the backend applied it or a permanent
\* error was charged to it; no crash, sign-out or broken stream loses one.
THEOREM NothingLostHolds == Spec => NothingLost
<1>1. Base /\ [Next]_vars => [\A u \in Users : \A b \in Range(queue[u]) \ Range(queue'[u]) :
                                b.write \in Range(log) \cup refused']_vars
  <2> SUFFICES ASSUME Base, Next PROVE Decided
    BY DEF Decided
  <2>1. CASE queue' = queue
    BY <2>1 DEF Decided
  <2>2. CASE WriteMutations
    BY <2>2, WriteDecided
  <2>3. CASE WriteAcknowledged
    BY <2>3, AcknowledgeDecided
  <2>4. CASE WriteRefused
    BY <2>4, RefuseDecided
  <2>5. CASE Restart
    BY <2>5, StartDecided, UserFacts DEF Restart
  <2>6. ASSUME NEW u \in Users, UserDidChange(u) PROVE Decided
    BY <2>6, StartDecided DEF UserDidChange
  <2>7. CASE Unlisten
    <3>1. /\ queue' \in [Users -> Seq(Batch)] /\ Cut(queue[user], queue'[user], 0, Len(held))
          /\ \A u \in Users : u # user => queue'[u] = queue[u]
      BY <2>7, UnlistenFacts
    <3>2. queue'[user] \in Seq(Batch) /\ Len(held) \in Nat /\ Len(held) <= Len(held)
      BY <3>1, UserFacts
    <3> QED
      BY <3>1, <3>2, ReleaseDecided
  <2>8. ASSUME NEW version \in DOMAIN log, ApplyRemoteEvent(version) PROVE Decided
    <3>1. /\ queue' \in [Users -> Seq(Batch)]
          /\ \E n \in Nat : n <= Len(held) /\ Cut(queue[user], queue'[user], 0, n)
          /\ \A u \in Users : u # user => queue'[u] = queue[u]
      BY <2>8, ApplyRemoteEventFacts
    <3>2. queue'[user] \in Seq(Batch)
      BY <3>1, UserFacts
    <3> QED
      BY <3>1, <3>2, ReleaseDecided
  <2>9. CASE ~WriteMutations /\ ~WriteAcknowledged /\ ~WriteRefused /\ ~Restart
             /\ ~(\E u \in Users : UserDidChange(u)) /\ ~Unlisten
             /\ ~(\E version \in DOMAIN log : ApplyRemoteEvent(version))
    <3>1. queue' = queue
      BY <2>9 DEF Next, TokenArrived, BackoffElapsed, IdleTimer, AnswerHandshake, ApplyWrite,
         EndStream, ApplyHalfClosed, HandshakeDone, StreamFailed, ConnectionLost, Listen, local
    <3> QED
      BY <2>1, <3>1
  <2> QED
    BY <2>2, <2>3, <2>4, <2>5, <2>6, <2>7, <2>8, <2>9
<1> QED
  BY <1>1, AlwaysBase, PTL DEF Spec, NothingLost

-----------------------------------------------------------------------------
(* The unacknowledged batches of each user, step by step *)

\* What is behind an empty queue is empty.
LEMMA AfterEmpty == ASSUME NEW acked PROVE After(<<>>, acked) = <<>>
<1>1. {k \in DOMAIN <<>> : <<>>[k].id > acked} = {}
  OBVIOUS
<1> QED
  BY <1>1 DEF After

\* Two suffixes from the same place are the same, and one from the next place
\* is the tail of the other.
LEMMA SuffixSame ==
  ASSUME NEW q, NEW x, NEW y, NEW h, Suffix(q, x, h), Suffix(q, y, h)
  PROVE  x = y
<1>1. x \in Seq(Batch) /\ y \in Seq(Batch) /\ Len(x) = Len(y) /\ Len(x) \in Nat
  BY DEF Suffix
<1>2. \A k \in 1 .. Len(x) : x[k] = y[k]
  BY DEF Suffix
<1> QED
  BY <1>1, <1>2, SeqEqual

\* The tail of a suffix.
LEMMA SuffixTail ==
  ASSUME NEW q \in Seq(Batch), NEW x, NEW y, NEW h, Suffix(q, x, h), Suffix(q, y, h + 1)
  PROVE  x # <<>> /\ y = Tail(x) /\ x[1] = q[h + 1] /\ Len(y) = Len(x) - 1
<1>1. /\ x \in Seq(Batch) /\ y \in Seq(Batch) /\ h \in Nat
      /\ Len(x) = Len(q) - h /\ Len(y) = Len(q) - (h + 1) /\ h + 1 <= Len(q)
      /\ Len(x) \in Nat /\ Len(y) \in Nat
  BY DEF Suffix
<1>2. /\ \A k \in 1 .. Len(x) : x[k] = q[h + k]
      /\ \A k \in 1 .. Len(y) : y[k] = q[h + 1 + k]
  BY DEF Suffix
<1>3. Len(x) >= 1 /\ Len(y) = Len(x) - 1
  <2> DEFINE i == Len(x)
             j == Len(y)
             l == Len(q)
  <2>1. /\ i \in Nat /\ j \in Nat /\ h \in Nat /\ l \in Nat
        /\ i = l - h /\ j = l - (h + 1) /\ h + 1 <= l
    BY <1>1
  <2> HIDE DEF i, j, l
  <2>2. i >= 1 /\ j = i - 1
    BY <2>1
  <2> QED
    BY <2>2 DEF i, j
<1>4. x # <<>>
  BY <1>1, <1>3
<1>5. /\ Tail(x) \in Seq(Batch) /\ Len(Tail(x)) = Len(x) - 1
      /\ DOMAIN Tail(x) = 1 .. Len(x) - 1
      /\ \A k \in DOMAIN Tail(x) : k + 1 \in DOMAIN x /\ Tail(x)[k] = x[k + 1]
      /\ DOMAIN x = 1 .. Len(x)
  BY <1>1, <1>4, TailAt
<1>6. \A k \in 1 .. Len(y) : y[k] = Tail(x)[k]
  <2>1. TAKE k \in 1 .. Len(y)
  <2>2. k \in DOMAIN Tail(x) /\ k + 1 \in 1 .. Len(x)
    BY <1>3, <1>5
  <2>3. Tail(x)[k] = q[h + (k + 1)]
    BY <1>2, <1>5, <2>2
  <2>4. h + (k + 1) = h + 1 + k
    BY <1>1
  <2> QED
    BY <1>2, <2>3, <2>4
<1>7. y = Tail(x)
  BY <1>1, <1>3, <1>5, <1>6, SeqEqual
<1> QED
  BY <1>1, <1>2, <1>3, <1>4, <1>7

\* Taking acknowledged batches off changes nothing behind them.
LEMMA CutUnacked ==
  ASSUME NEW q \in Seq(Batch), NEW t \in Seq(Batch), NEW acked \in Int, NEW h, NEW g,
         SplitAt(q, acked, h), SplitAt(t, acked, g), NEW n \in Nat, g = h - n, Cut(q, t, 0, n)
  PROVE  After(t, acked) = After(q, acked)
<1> DEFINE x == After(q, acked)
           y == After(t, acked)
<1>1. Suffix(q, x, h) /\ Suffix(t, y, g)
  BY SuffixFacts
<1> HIDE DEF x, y
<1>2. /\ x \in Seq(Batch) /\ y \in Seq(Batch) /\ h \in Nat /\ g \in Nat
      /\ Len(x) \in Nat /\ Len(y) \in Nat
      /\ Len(x) = Len(q) - h /\ Len(y) = Len(t) - g /\ h <= Len(q)
      /\ \A k \in 1 .. Len(x) : x[k] = q[h + k] /\ h + k \in DOMAIN q
      /\ \A k \in 1 .. Len(y) : y[k] = t[g + k] /\ g + k \in DOMAIN t
  BY <1>1 DEF Suffix
<1>3. Len(q) \in Nat /\ Len(t) \in Nat
  OBVIOUS
<1>4. 0 + n <= Len(q) /\ 0 \in Nat
  BY <1>2, <1>3
<1>5. Len(t) = Len(q) - n /\ \A k \in DOMAIN t : k > 0 => k + n \in DOMAIN q /\ t[k] = q[k + n]
  BY <1>4, CutAt
<1>num. /\ Len(x) = Len(y)
        /\ \A k \in 1 .. Len(x) : k \in 1 .. Len(y) /\ g + k > 0 /\ (g + k) + n = h + k
  <2> DEFINE i == Len(x)
             j == Len(y)
             l == Len(q)
             m == Len(t)
  <2>1. /\ i \in Nat /\ j \in Nat /\ l \in Nat /\ m \in Nat /\ h \in Nat /\ g \in Nat
        /\ i = l - h /\ j = m - g /\ m = l - n /\ g = h - n
    BY <1>2, <1>3, <1>5
  <2> HIDE DEF i, j, l, m
  <2>2. i = j
    BY <2>1
  <2>3. \A k \in 1 .. i : k \in 1 .. j /\ g + k > 0 /\ (g + k) + n = h + k
    BY <2>1, <2>2
  <2> QED
    BY <2>2, <2>3 DEF i, j
<1>6. Len(x) = Len(y)
  BY <1>num
<1>7. \A k \in 1 .. Len(x) : y[k] = x[k]
  <2>1. TAKE k \in 1 .. Len(x)
  <2>2. k \in 1 .. Len(y) /\ g + k > 0 /\ (g + k) + n = h + k
    BY <1>num
  <2>3. y[k] = t[g + k] /\ g + k \in DOMAIN t
    BY <1>2, <2>2
  <2>4. t[g + k] = q[(g + k) + n]
    BY <1>5, <2>2, <2>3
  <2> QED
    BY <1>2, <2>2, <2>3, <2>4
<1> QED
  BY <1>2, <1>6, <1>7, SeqEqual DEF x, y

\* A new write joins the unacknowledged ones of the user at work, at their end.
LEMMA WriteUnacked ==
  ASSUME Base, WriteMutations
  PROVE  \E b \in Batch : /\ Unacked(user)' = Append(Unacked(user), b)
                          /\ b.write = Len(author) + 1
                          /\ \A u \in Users : u # user => Unacked(u)' = Unacked(u)
<1> DEFINE q == queue[user]
           a == lastAcked[user]
           h == Len(held)
           b == [id |-> nextBatchID, write |-> Len(author) + 1]
           t == Append(q, b)
           x == Unacked(user)
           y == Unacked(user)'
<1>1. /\ queue' = [queue EXCEPT ![user] = t] /\ lastAcked' = lastAcked /\ user' = user
  BY DEF WriteMutations
<1>2. /\ q \in Seq(Batch) /\ a \in Int /\ remote \in Remote /\ SplitAt(q, a, h)
      /\ PipeOk(remote, q, a, h) /\ a < nextBatchID /\ remote.lastBatchSeen < nextBatchID
      /\ nextBatchID \in Nat /\ user \in Users
  BY UserFacts
<1>3. queue \in [Users -> Seq(Batch)] /\ author \in Seq(Users)
  BY DEF Base, Typed
<1>4. b \in Batch /\ b.id = nextBatchID /\ b.write = Len(author) + 1
  <2>1. Len(author) + 1 \in Nat
    BY <1>3
  <2> QED
    BY <1>2, <2>1 DEF Batch
<1>5. y = After(t, a)
  BY <1>1, <1>2, <1>3 DEF Unacked
<1>6. Suffix(q, x, h)
  BY <1>2, SuffixFacts DEF Unacked
<1> HIDE DEF q, a, h, b, x, y
<1>7. t \in Seq(Batch) /\ SplitAt(t, a, h)
  <2>1. a < b.id /\ remote.lastBatchSeen < b.id
    BY <1>2, <1>4
  <2> QED
    BY <1>2, <1>4, <2>1, PipeAppend, AppendAt
<1>8. Suffix(t, y, h)
  BY <1>2, <1>5, <1>7, SuffixFacts
<1>9. /\ Len(t) = Len(q) + 1 /\ Len(q) \in Nat /\ DOMAIN q = 1 .. Len(q)
      /\ t[Len(q) + 1] = b /\ \A k \in DOMAIN q : t[k] = q[k]
  BY <1>2, <1>4, AppendAt
<1> HIDE DEF t
<1>10. /\ x \in Seq(Batch) /\ y \in Seq(Batch) /\ h \in Nat /\ h <= Len(q)
       /\ Len(x) \in Nat /\ Len(y) \in Nat /\ Len(x) = Len(q) - h /\ Len(y) = Len(t) - h
       /\ \A k \in 1 .. Len(x) : x[k] = q[h + k] /\ h + k \in DOMAIN q
       /\ \A k \in 1 .. Len(y) : y[k] = t[h + k]
  BY <1>6, <1>8 DEF Suffix
<1>11. Len(y) = Len(x) + 1 /\ h + (Len(x) + 1) = Len(q) + 1
  <2> DEFINE i == Len(x)
             j == Len(y)
             l == Len(q)
             m == Len(t)
  <2>1. /\ i \in Nat /\ j \in Nat /\ l \in Nat /\ h \in Nat
        /\ i = l - h /\ j = m - h /\ m = l + 1
    BY <1>9, <1>10
  <2> HIDE DEF i, j, l, m
  <2>2. j = i + 1 /\ h + (i + 1) = l + 1
    BY <2>1
  <2> QED
    BY <2>2 DEF i, j, l
<1>12. /\ Append(x, b) \in Seq(Batch) /\ Len(Append(x, b)) = Len(x) + 1
       /\ Append(x, b)[Len(x) + 1] = b /\ \A k \in DOMAIN x : Append(x, b)[k] = x[k]
       /\ DOMAIN x = 1 .. Len(x)
  <2>1. x \in Seq(Batch) /\ b \in Batch
    BY <1>4, <1>10
  <2> QED
    BY <2>1, AppendAt
<1>13. \A k \in 1 .. Len(x) + 1 : k \in 1 .. Len(x) \/ k = Len(x) + 1
  <2> DEFINE i == Len(x)
  <2>1. i \in Nat
    BY <1>10
  <2> HIDE DEF i
  <2>2. \A k \in 1 .. i + 1 : k \in 1 .. i \/ k = i + 1
    BY <2>1
  <2> QED
    BY <2>2 DEF i
<1>14. \A k \in 1 .. Len(x) : k \in 1 .. Len(y)
  BY <1>10, <1>11
<1>15. Len(x) + 1 \in 1 .. Len(y)
  BY <1>10, <1>11
<1>16. \A k \in 1 .. Len(y) : y[k] = Append(x, b)[k]
  <2>1. \A k \in 1 .. Len(x) : y[k] = Append(x, b)[k]
    BY <1>9, <1>10, <1>12, <1>14
  <2>2. y[Len(x) + 1] = b
    BY <1>9, <1>10, <1>11, <1>15
  <2> QED
    BY <1>11, <1>12, <1>13, <2>1, <2>2
<1>17. y = Append(x, b)
  BY <1>10, <1>11, <1>12, <1>16, SeqEqual
<1>18. \A u \in Users : u # user => Unacked(u)' = Unacked(u)
  <2>1. \A u \in Users : u # user => queue'[u] = queue[u]
    BY <1>1, <1>3
  <2> QED
    BY <1>1, <2>1 DEF Unacked
<1> QED
  BY <1>4, <1>17, <1>18 DEF x, y

\* A release leaves them alone.
LEMMA ReleaseUnacked ==
  ASSUME Base, UNCHANGED lastAcked, queue'[user] \in Seq(Batch), NEW n \in Nat, n <= Len(held),
         Cut(queue[user], queue'[user], 0, n), \A u \in Users : u # user => queue'[u] = queue[u]
  PROVE  \A u \in Users : Unacked(u)' = Unacked(u)
<1> DEFINE q == queue[user]
           t == queue'[user]
           a == lastAcked[user]
           h == Len(held)
<1>1. /\ q \in Seq(Batch) /\ a \in Int /\ remote \in Remote /\ SplitAt(q, a, h)
      /\ PipeOk(remote, q, a, h) /\ h \in Nat
  BY UserFacts
<1>2. t \in Seq(Batch) /\ Cut(q, t, 0, n) /\ n <= h
  OBVIOUS
<1> HIDE DEF q, t, a, h
<1>3. SplitAt(t, a, h - n)
  BY <1>1, <1>2, PipeRelease
<1>4. After(t, a) = After(q, a)
  BY <1>1, <1>2, <1>3, CutUnacked
<1> QED
  BY <1>4 DEF Unacked, q, t, a

\* So does start: what is removed and what is forgotten is acknowledged.
LEMMA StartUnacked ==
  ASSUME Base, NEW u \in Users, StartMutationQueue(u)
  PROVE  \A x \in Users : Unacked(x)' = Unacked(x)
<1> DEFINE a == StartedAcked(u)
           q == queue[u]
           t == After(q, a)
<1>1. Typed /\ QueueInv
  BY DEF Base
<1>2. queue' = [queue EXCEPT ![u] = t] /\ lastAcked' = [lastAcked EXCEPT ![u] = a]
  BY DEF StartMutationQueue
<1>3. queue \in [Users -> Seq(Batch)] /\ lastAcked \in [Users -> Int]
  BY <1>1 DEF Typed
<1>4. /\ a \in Int /\ t \in Seq(Batch) /\ SplitAt(t, a, 0)
      /\ \E h \in Nat : SplitAt(q, a, h) /\ Cut(q, t, 0, h)
      /\ a = lastAcked[u] \/ q = <<>>
  BY <1>1, StartFacts
<1>5. q \in Seq(Batch) /\ t = After(q, a)
  BY <1>3
<1> HIDE DEF a, t
<1>6. /\ queue'[u] = t /\ lastAcked'[u] = a
      /\ \A x \in Users : x # u => queue'[x] = queue[x] /\ lastAcked'[x] = lastAcked[x]
  BY <1>2, <1>3
<1>7. After(t, a) = After(q, a)
  <2>1. PICK h \in Nat : SplitAt(q, a, h) /\ Cut(q, t, 0, h)
    BY <1>4
  <2>2. 0 = h - h
    OBVIOUS
  <2> QED
    BY <1>4, <1>5, <2>1, <2>2, CutUnacked
<1>8. After(q, a) = After(q, lastAcked[u])
  <2>1. CASE a = lastAcked[u]
    BY <2>1
  <2>2. CASE q = <<>>
    BY <2>2, AfterEmpty
  <2> QED
    BY <1>4, <2>1, <2>2
<1> QED
  BY <1>6, <1>7, <1>8 DEF Unacked

\* A refusal takes the first one.
LEMMA RefuseUnacked ==
  ASSUME Base, WriteRefused
  PROVE  /\ Unacked(user) # <<>> /\ Unacked(user)' = Tail(Unacked(user))
         /\ Unacked(user)[1] = Oldest
         /\ \A u \in Users : u # user => Unacked(u)' = Unacked(u)
<1> DEFINE q == queue[user]
           t == queue'[user]
           a == lastAcked[user]
           h == Len(held)
           x == Unacked(user)
           y == Unacked(user)'
<1>1. /\ Oldest = q[h + 1] /\ h + 1 <= Len(q) /\ t \in Seq(Batch) /\ Cut(q, t, h, 1)
      /\ queue' = [queue EXCEPT ![user] = t] /\ remote.pending # <<>>
  BY Refused
<1>2. /\ q \in Seq(Batch) /\ a \in Int /\ remote \in Remote /\ SplitAt(q, a, h)
      /\ PipeOk(remote, q, a, h) /\ h \in Nat /\ user \in Users
  BY UserFacts
<1>3. queue \in [Users -> Seq(Batch)] /\ lastAcked' = lastAcked /\ user' = user
  BY DEF Base, Typed, WriteRefused
<1>4. y = After(t, a)
  BY <1>3 DEF Unacked
<1>5. SplitAt(t, a, h)
  <2> DEFINE d == [remote EXCEPT !.pending = Tail(remote.pending)]
  <2>1. d.pending = Tail(remote.pending) /\ d.lastBatchSeen = remote.lastBatchSeen
    BY <1>2 DEF Remote
  <2> HIDE DEF d, q, t, a, h
  <2> QED
    BY <1>1, <1>2, <2>1, PipeRefuse
<1>6. Suffix(q, x, h) /\ Suffix(t, y, h)
  BY <1>1, <1>2, <1>4, <1>5, SuffixFacts DEF Unacked
<1> HIDE DEF q, t, a, h, x, y
<1>7. /\ Len(q) \in Nat /\ Len(t) \in Nat /\ DOMAIN t = 1 .. Len(t) /\ Len(t) = Len(q) - 1
      /\ \A k \in DOMAIN t : k > h => k + 1 \in DOMAIN q /\ t[k] = q[k + 1]
  <2>1. 1 \in Nat
    OBVIOUS
  <2> QED
    BY <1>1, <1>2, <2>1, CutAt
<1>8. Suffix(q, y, h + 1)
  <2>1. /\ y \in Seq(Batch) /\ Len(y) = Len(t) - h /\ Len(y) \in Nat /\ DOMAIN y = 1 .. Len(y)
        /\ \A k \in 1 .. Len(y) : y[k] = t[h + k] /\ h + k \in DOMAIN t
    BY <1>6 DEF Suffix
  <2>2. Len(y) = Len(q) - (h + 1) /\ h + 1 \in Nat
    BY <1>2, <1>7, <2>1
  <2>3. \A k \in 1 .. Len(y) : h + k > h /\ h + k + 1 = h + 1 + k
    BY <1>2, <2>1
  <2>4. \A k \in 1 .. Len(y) : y[k] = q[h + 1 + k] /\ h + 1 + k \in DOMAIN q
    <3>1. TAKE k \in 1 .. Len(y)
    <3>2. h + k + 1 \in DOMAIN q /\ t[h + k] = q[h + k + 1]
      BY <1>7, <2>1, <2>3
    <3> QED
      BY <2>1, <2>3, <3>2
  <2> QED
    BY <1>1, <2>1, <2>2, <2>4 DEF Suffix
<1>9. x # <<>> /\ y = Tail(x) /\ x[1] = q[h + 1]
  BY <1>2, <1>6, <1>8, SuffixTail
<1>10. \A u \in Users : u # user => Unacked(u)' = Unacked(u)
  <2>1. \A u \in Users : u # user => queue'[u] = queue[u]
    BY <1>1, <1>3
  <2> QED
    BY <1>3, <2>1 DEF Unacked
<1> QED
  BY <1>1, <1>9, <1>10 DEF x, y

\* So does an acknowledgement.
LEMMA AcknowledgeUnacked ==
  ASSUME Base, WriteAcknowledged
  PROVE  /\ Unacked(user) # <<>> /\ Unacked(user)' = Tail(Unacked(user))
         /\ Unacked(user)[1] = Oldest
         /\ \A u \in Users : u # user => Unacked(u)' = Unacked(u)
<1> DEFINE q == queue[user]
           t == queue'[user]
           a == lastAcked[user]
           h == Len(held)
           b == Oldest
           x == Unacked(user)
           y == Unacked(user)'
<1>1. /\ b \in Batch /\ b = q[h + 1] /\ h + 1 <= Len(q)
      /\ Answer \in DOMAIN log /\ log[Answer] = b.write
      /\ lastAcked' = [lastAcked EXCEPT ![user] = b.id]
      /\ \/ held' = Append(held, [batch |-> b, version |-> Answer]) /\ queue' = queue
         \/ held = <<>> /\ held' = <<>> /\ Cut(q, t, 0, 1)
  BY Acknowledged
<1>2. /\ t \in Seq(Batch) /\ SplitAt(t, b.id, Len(held'))
      /\ \A u \in Users : u # user => queue'[u] = queue[u]
  BY AcknowledgedQueue
<1>3. /\ q \in Seq(Batch) /\ a \in Int /\ SplitAt(q, a, h) /\ h \in Nat /\ user \in Users
      /\ QueueOk(q, a, blocks[user], nextBatchID, author, log, user)
  BY UserFacts
<1>4. lastAcked \in [Users -> Int] /\ user' = user
  BY DEF Base, Typed, WriteAcknowledged
<1>5. lastAcked'[user] = b.id /\ \A u \in Users : u # user => lastAcked'[u] = lastAcked[u]
  BY <1>1, <1>3, <1>4
<1>6. y = After(t, b.id)
  BY <1>4, <1>5 DEF Unacked
<1>7. b.id \in Int
  BY <1>1 DEF Batch
<1>8. b.write \in Range(log)
  BY <1>1 DEF Range
<1>9. Suffix(q, x, h)
  BY <1>3, SuffixFacts DEF Unacked
<1> HIDE DEF q, t, a, h, b, x, y
<1>10. SplitAt(q, b.id, h + 1)
  BY <1>1, <1>3, <1>8, QueueAck
<1>11. y = After(q, b.id)
  <2>1. CASE queue' = queue
    <3>1. t = q
      BY <2>1 DEF t, q
    <3> QED
      BY <1>6, <3>1
  <2>2. CASE held = <<>> /\ held' = <<>> /\ Cut(q, t, 0, 1)
    <3>1. h = 0 /\ Len(held') = 0
      BY <2>2 DEF h
    <3>2. SplitAt(t, b.id, 0) /\ 0 = h + 1 - 1 /\ 1 \in Nat
      BY <1>2, <3>1
    <3> QED
      BY <1>2, <1>3, <1>6, <1>7, <1>10, <2>2, <3>2, CutUnacked
  <2> QED
    BY <1>1, <2>1, <2>2
<1>12. Suffix(q, y, h + 1)
  BY <1>3, <1>7, <1>10, <1>11, SuffixFacts
<1>13. x # <<>> /\ y = Tail(x) /\ x[1] = q[h + 1]
  BY <1>3, <1>9, <1>12, SuffixTail
<1>14. \A u \in Users : u # user => Unacked(u)' = Unacked(u)
  BY <1>2, <1>5 DEF Unacked
<1> QED
  BY <1>1, <1>13, <1>14 DEF x, y, b

\* All other steps leave them alone, too.
LEMMA StepUnacked ==
  ASSUME Base, [Next]_vars
  PROVE  \/ WriteMutations \/ WriteAcknowledged \/ WriteRefused
         \/ \A u \in Users : Unacked(u)' = Unacked(u)
<1>1. CASE UNCHANGED <<queue, lastAcked>>
  BY <1>1 DEF Unacked
<1>2. CASE \E u \in Users : UserDidChange(u)
  <2>1. PICK u \in Users : StartMutationQueue(u)
    BY <1>2 DEF UserDidChange
  <2> QED
    BY <2>1, StartUnacked
<1>3. CASE Restart
  <2>1. PICK u \in Users : u = user
    BY UserFacts
  <2>2. StartMutationQueue(u)
    BY <1>3, <2>1 DEF Restart
  <2> QED
    BY <2>2, StartUnacked
<1>4. CASE Unlisten
  <2>1. UNCHANGED lastAcked
    BY <1>4 DEF Unlisten
  <2>2. /\ queue' \in [Users -> Seq(Batch)] /\ Cut(queue[user], queue'[user], 0, Len(held))
        /\ \A u \in Users : u # user => queue'[u] = queue[u]
    BY <1>4, UnlistenFacts
  <2>3. Len(held) \in Nat /\ user \in Users
    BY UserFacts
  <2>4. queue'[user] \in Seq(Batch) /\ Len(held) <= Len(held)
    BY <2>2, <2>3
  <2> QED
    BY <2>1, <2>2, <2>3, <2>4, ReleaseUnacked
<1>5. CASE \E version \in DOMAIN log : ApplyRemoteEvent(version)
  <2>1. PICK version \in DOMAIN log : ApplyRemoteEvent(version)
    BY <1>5
  <2>2. UNCHANGED lastAcked
    BY <2>1 DEF ApplyRemoteEvent
  <2>3. queue' \in [Users -> Seq(Batch)] /\ \A u \in Users : u # user => queue'[u] = queue[u]
    BY <2>1, ApplyRemoteEventFacts
  <2>4. PICK n \in Nat : n <= Len(held) /\ Cut(queue[user], queue'[user], 0, n)
    BY <2>1, ApplyRemoteEventFacts
  <2>5. queue'[user] \in Seq(Batch)
    BY <2>3, UserFacts
  <2> QED
    BY <2>2, <2>3, <2>4, <2>5, ReleaseUnacked
<1>6. \/ WriteMutations \/ WriteAcknowledged \/ WriteRefused
      \/ (\E u \in Users : UserDidChange(u)) \/ Restart \/ Unlisten
      \/ (\E version \in DOMAIN log : ApplyRemoteEvent(version))
      \/ UNCHANGED <<queue, lastAcked>>
  BY DEF Next, vars, TokenArrived, BackoffElapsed, IdleTimer, AnswerHandshake, ApplyWrite,
         ApplyHalfClosed, EndStream, HandshakeDone, StreamFailed, ConnectionLost, Listen, local
<1> QED
  BY <1>1, <1>2, <1>3, <1>4, <1>5, <1>6

-----------------------------------------------------------------------------
(* How far the backend is *)

\* A stream that was left brings the writes of one user, behind those applied.
Awaited(u) ==
    /\ applied[u] + Len(halfClosed) <= Len(Unacked(u))
    /\ \A k \in 1 .. Len(halfClosed) : halfClosed[k] = Unacked(u)[applied[u] + k].write

\* The second layer: the backend is never further than the unacknowledged
\* writes; on a stream that has been greeted it has gone through those that
\* are answered.
AppliedInv ==
    /\ \A u \in Users : applied[u] \in Nat /\ applied[u] <= Len(Unacked(u))
    /\ Greeted(remote) =>
         applied[user] = IF remote.handshakeComplete THEN Answered(remote) ELSE 0
    /\ halfClosed # <<>> => \E u \in Users : Awaited(u)

\* On a stream past its handshake everything unanswered is requested.
LEMMA GreetedFacts ==
  ASSUME Base, AppliedInv, remote.state = "Open", remote.handshakeComplete
  PROVE  /\ halfClosed = <<>> /\ applied[user] = Answered(remote)
         /\ Answered(remote) \in Nat /\ Len(remote.requests) \in Nat
         /\ Len(Unacked(user)) \in Nat /\ Unacked(user) \in Seq(Batch)
         /\ Answered(remote) + Len(remote.requests) <= Len(Unacked(user))
         /\ \A k \in 1 .. Len(remote.requests) :
              remote.requests[k] = Unacked(user)[Answered(remote) + k].write
<1> DEFINE A == Answered(remote)
           s == remote.requests
           p == remote.pending
           x == Unacked(user)
<1>1. Greeted(remote)
  BY DEF Greeted
<1>2. halfClosed = <<>> /\ applied[user] = A
  BY <1>1 DEF Base, StreamInv, AppliedInv
<1>3. remote \in Remote /\ WritesOk(remote, log)
  BY UserFacts DEF StreamOk
<1>4. A \in Nat /\ s \in Seq(Nat)
  BY <1>3, AnsweredFacts, RemoteFields
<1>5. Len(s) \in Nat /\ DOMAIN s = 1 .. Len(s)
  BY <1>4
<1>6. A + Len(s) = Len(p) /\ \A k \in DOMAIN s : s[k] = p[A + k].write
  BY <1>3 DEF WritesOk
<1>7. Len(p) \in Nat /\ Len(p) <= Len(x) /\ \A k \in 1 .. Len(p) : p[k] = x[k]
  BY PipelineAt
<1>8. x \in Seq(Batch) /\ Len(x) \in Nat
  BY UnackedFacts DEF Suffix
<1> HIDE DEF A, s, p, x
<1>9. A + Len(s) <= Len(x) /\ \A k \in 1 .. Len(s) : A + k \in 1 .. Len(p)
  <2> DEFINE i == Len(s)
             l == Len(p)
             m == Len(x)
  <2>1. A \in Nat /\ i \in Nat /\ l \in Nat /\ m \in Nat /\ A + i = l /\ l <= m
    BY <1>4, <1>5, <1>6, <1>7, <1>8
  <2> HIDE DEF i, l, m
  <2>2. A + i <= m /\ \A k \in 1 .. i : A + k \in 1 .. l
    BY <2>1
  <2> QED
    BY <2>2 DEF i, l, m
<1>10. \A k \in 1 .. Len(s) : s[k] = x[A + k].write
  <2>1. TAKE k \in 1 .. Len(s)
  <2>2. A + k \in 1 .. Len(p)
    BY <1>9
  <2>3. p[A + k] = x[A + k]
    BY <1>7, <2>2
  <2>4. s[k] = p[A + k].write
    BY <1>5, <1>6
  <2> QED
    BY <2>3, <2>4
<1> QED
  BY <1>2, <1>4, <1>5, <1>8, <1>9, <1>10 DEF A, s, x

\* Steps that leave all this alone, but for a stream that is given up.
LEMMA AppliedSame ==
  ASSUME AppliedInv, UNCHANGED <<applied, halfClosed>>,
         \A u \in Users : Unacked(u)' = Unacked(u),
         Greeted(remote') => /\ user' = user /\ Greeted(remote)
                             /\ remote'.handshakeComplete = remote.handshakeComplete
                             /\ Answered(remote') = Answered(remote)
  PROVE  AppliedInv'
<1>1. \A u \in Users : applied'[u] \in Nat /\ applied'[u] <= Len(Unacked(u)')
  BY DEF AppliedInv
<1>2. Greeted(remote)' => applied'[user'] = (IF remote.handshakeComplete THEN Answered(remote) ELSE 0)'
  <2>1. Greeted(remote)' = Greeted(remote') /\ Answered(remote)' = Answered(remote')
    BY DEF Greeted, Answered, Ended
  <2> QED
    BY <2>1 DEF AppliedInv
<1>3. ASSUME NEW u \in Users, Awaited(u) PROVE Awaited(u)'
  BY <1>3 DEF Awaited
<1>4. halfClosed' # <<>> => \E u \in Users : Awaited(u)'
  BY <1>3 DEF AppliedInv
<1> QED
  BY <1>1, <1>2, <1>4 DEF AppliedInv

\* At the beginning nothing is.
LEMMA InitApplied == Init => AppliedInv
<1> SUFFICES ASSUME Init PROVE AppliedInv
  OBVIOUS
<1>1. ~Greeted(remote)
  BY DEF Init, Greeted, FreshRemote
<1>2. \A u \in Users : applied[u] = 0 /\ Unacked(u) = <<>>
  <2>1. \A u \in Users : queue[u] = <<>> /\ applied[u] = 0
    BY DEF Init
  <2> QED
    BY <2>1, AfterEmpty DEF Unacked
<1>3. Len(<<>>) = 0
  OBVIOUS
<1>4. \A u \in Users : applied[u] \in Nat /\ applied[u] <= Len(Unacked(u))
  BY <1>2, <1>3
<1>5. halfClosed = <<>>
  BY DEF Init
<1> QED
  BY <1>1, <1>4, <1>5 DEF AppliedInv

\* A step that leaves the disk alone leaves them unacknowledged.
LEMMA SameUnacked ==
  ASSUME UNCHANGED <<queue, lastAcked>>
  PROVE  \A u \in Users : Unacked(u)' = Unacked(u)
BY DEF Unacked

\* The stream is opened, given up or ended: nothing is greeted or counted anew.
LEMMA TokenApplied == Base /\ AppliedInv /\ TokenArrived => AppliedInv'
<1> SUFFICES ASSUME Base, AppliedInv, TokenArrived PROVE AppliedInv'
  OBVIOUS
<1>1. /\ remote.state = "Auth" /\ UNCHANGED <<queue, lastAcked, applied, halfClosed>>
      /\ remote' = [remote EXCEPT !.state = "Open", !.requests = <<Handshake>>]
  BY DEF TokenArrived, local, backend, history
<1>2. remote \in Remote /\ ~remote.handshakeComplete
  BY <1>1, UserFacts DEF StreamOk
<1>3. remote'.handshakeComplete = remote.handshakeComplete /\ remote'.requests = <<Handshake>>
  BY <1>1, <1>2 DEF Remote
<1>4. <<Handshake>> # <<>>
  OBVIOUS
<1>5. ~Greeted(remote')
  BY <1>2, <1>3, <1>4 DEF Greeted
<1> QED
  BY <1>1, <1>5, SameUnacked, AppliedSame

\* The end of a backoff.
LEMMA BackoffApplied == Base /\ AppliedInv /\ BackoffElapsed => AppliedInv'
<1> SUFFICES ASSUME Base, AppliedInv, BackoffElapsed PROVE AppliedInv'
  OBVIOUS
<1>1. /\ UNCHANGED <<queue, lastAcked, applied, halfClosed>>
      /\ remote' = Start([remote EXCEPT !.state = "Initial"])
  BY DEF BackoffElapsed, local, backend, history
<1>2. remote \in Remote
  BY UserFacts
<1>3. remote'.state = "Auth"
  BY <1>1, <1>2 DEF Start, Remote
<1>4. ~Greeted(remote')
  BY <1>3 DEF Greeted
<1> QED
  BY <1>1, <1>4, SameUnacked, AppliedSame

\* A stream that is closed has been greeted by nobody.
LEMMA ClosedApplied ==
  ASSUME Base, AppliedInv, NEW final \in {"Initial", "Error"},
         remote' = RestartIfNeeded(Close(remote, final)),
         UNCHANGED <<queue, lastAcked, applied, halfClosed>>
  PROVE  AppliedInv'
<1> DEFINE c == Close(remote, final)
<1>1. Down(c)
  BY UserFacts, CloseFacts
<1>2. remote' = RestartIfNeeded(c)
  OBVIOUS
<1> HIDE DEF c
<1>3. ~Greeted(remote')
  BY <1>1, <1>2, DownFacts
<1> QED
  BY <1>3, SameUnacked, AppliedSame

\* The timer, an interruption, a connection that breaks.
LEMMA InterruptedApplied ==
  Base /\ AppliedInv /\ (IdleTimer \/ StreamFailed \/ ConnectionLost) => AppliedInv'
<1>1. ASSUME Base, AppliedInv, IdleTimer PROVE AppliedInv'
  BY <1>1, ClosedApplied DEF IdleTimer, local, backend, history
<1>2. ASSUME Base, AppliedInv, StreamFailed PROVE AppliedInv'
  BY <1>2, ClosedApplied DEF StreamFailed, Interrupted, local, backend, history
<1>3. ASSUME Base, AppliedInv, ConnectionLost PROVE AppliedInv'
  BY <1>3, ClosedApplied DEF ConnectionLost, Interrupted, local, backend, history
<1> QED
  BY <1>1, <1>2, <1>3

\* The backend ends the stream.
LEMMA EndApplied == ASSUME NEW type \in Closing PROVE Base /\ AppliedInv /\ EndStream(type) => AppliedInv'
<1> SUFFICES ASSUME Base, AppliedInv, EndStream(type) PROVE AppliedInv'
  OBVIOUS
<1> DEFINE x == [type |-> type, version |-> 0]
           d == remote'
<1>1. /\ remote.state = "Open" /\ ~Ended(remote)
      /\ UNCHANGED <<queue, lastAcked, user, applied, halfClosed>>
      /\ d = [remote EXCEPT !.responses = Append(@, x)]
  BY DEF EndStream, local, backend, history
<1>2. remote \in Remote
  BY UserFacts
<1>3. x \in Response /\ x.type \in Closing
  BY DEF Response
<1> HIDE DEF x
<1>4. /\ d.state = remote.state /\ d.handshakeComplete = remote.handshakeComplete
      /\ d.requests = remote.requests /\ d.responses = Append(remote.responses, x)
  BY <1>1, <1>2 DEF Remote
<1> HIDE DEF d
<1>5. Answered(d) = Answered(remote)
  BY <1>1, <1>2, <1>3, <1>4, AnsweredMore
<1>6. Greeted(d) => Greeted(remote)
  BY <1>4 DEF Greeted
<1> QED
  BY <1>1, <1>4, <1>5, <1>6, SameUnacked, AppliedSame DEF d

\* The watch stream does not touch any of it.
LEMMA WatchApplied ==
  Base /\ AppliedInv /\ (Listen \/ Unlisten \/ \E version \in DOMAIN log : ApplyRemoteEvent(version))
    => AppliedInv'
<1> SUFFICES ASSUME Base, AppliedInv,
                    Listen \/ Unlisten \/ \E version \in DOMAIN log : ApplyRemoteEvent(version)
             PROVE  AppliedInv'
  OBVIOUS
<1>1. UNCHANGED <<lastAcked, user, remote, applied, halfClosed>>
  BY DEF Listen, Unlisten, ApplyRemoteEvent, local, backend, history
<1>2. CASE Listen
  BY <1>1, <1>2, SameUnacked, AppliedSame DEF Listen, local
<1>3. CASE Unlisten
  <2>1. /\ queue' \in [Users -> Seq(Batch)] /\ Cut(queue[user], queue'[user], 0, Len(held))
        /\ \A u \in Users : u # user => queue'[u] = queue[u]
    BY <1>3, UnlistenFacts
  <2>2. queue'[user] \in Seq(Batch) /\ Len(held) \in Nat /\ Len(held) <= Len(held)
    BY <2>1, UserFacts
  <2>3. \A u \in Users : Unacked(u)' = Unacked(u)
    BY <1>1, <2>1, <2>2, ReleaseUnacked
  <2> QED
    BY <1>1, <2>3, AppliedSame
<1>4. ASSUME NEW version \in DOMAIN log, ApplyRemoteEvent(version) PROVE AppliedInv'
  <2>1. /\ queue' \in [Users -> Seq(Batch)]
        /\ \E n \in Nat : n <= Len(held) /\ Cut(queue[user], queue'[user], 0, n)
        /\ \A u \in Users : u # user => queue'[u] = queue[u]
    BY <1>4, ApplyRemoteEventFacts
  <2>2. queue'[user] \in Seq(Batch)
    BY <2>1, UserFacts
  <2>3. \A u \in Users : Unacked(u)' = Unacked(u)
    BY <1>1, <2>1, <2>2, ReleaseUnacked
  <2> QED
    BY <1>1, <2>3, AppliedSame
<1> QED
  BY <1>2, <1>3, <1>4

\* Filling the pipeline does not change what has been greeted or answered.
LEMMA FillKeeps ==
  ASSUME NEW r \in Remote, NEW q, NEW acked, NEW d, d = FillWritePipeline(r, q, acked)
  PROVE  /\ Answered(d) = Answered(r)
         /\ Greeted(d) => Greeted(r) /\ d.handshakeComplete = r.handshakeComplete
<1> DEFINE seen   == Max({r.lastBatchSeen, acked})
           unseen == After(q, seen)
           room   == MaxPendingWrites - Len(r.pending)
           new    == SubSeq(unseen, 1, Min({room, Len(unseen)}))
           filled == [r EXCEPT !.pending = @ \o new, !.lastBatchSeen = Last(new).id]
           sent   == [filled EXCEPT !.requests = @ \o WritesOf(new), !.idle = FALSE]
<1>1. d = FillWritePipeline(r, q, acked)
  OBVIOUS
<1>2. \/ d = r \/ d = MarkIdle(r) \/ d = Start(filled) \/ d = filled
      \/ IsStarted(r) /\ r.handshakeComplete /\ d = sent
  <2> HIDE DEF filled, sent
  <2>1. FillWritePipeline(r, q, acked) =
          CASE new = <<>> /\ r.pending = <<>> -> MarkIdle(r)
            [] new = <<>> /\ r.pending # <<>> -> r
            [] new # <<>> /\ ~IsStarted(r)    -> Start(filled)
            [] new # <<>> /\ IsStarted(r)     -> IF r.handshakeComplete THEN sent ELSE filled
    BY DEF FillWritePipeline, filled, sent
  <2> HIDE DEF new
  <2> QED
    BY <1>1, <2>1
<1> HIDE DEF new
<1>3. /\ filled.state = r.state /\ filled.handshakeComplete = r.handshakeComplete
      /\ filled.requests = r.requests /\ filled.responses = r.responses
  BY DEF Remote
<1>4. MarkIdle(r).state = r.state /\ MarkIdle(r).handshakeComplete = r.handshakeComplete
      /\ MarkIdle(r).requests = r.requests /\ MarkIdle(r).responses = r.responses
  BY DEF Remote, MarkIdle
<1>5. Start(filled).state # "Open" /\ Start(filled).responses = r.responses
  BY DEF Remote, Start
<1>6. /\ sent.state = r.state /\ sent.handshakeComplete = r.handshakeComplete
      /\ sent.responses = r.responses
  BY DEF Remote
<1> HIDE DEF filled, sent
<1>7. d.responses = r.responses
  BY <1>2, <1>3, <1>4, <1>5, <1>6
<1>8. Greeted(d) => Greeted(r) /\ d.handshakeComplete = r.handshakeComplete
  BY <1>2, <1>3, <1>4, <1>5, <1>6 DEF Greeted
<1> QED
  BY <1>7, <1>8, AnsweredSame

\* The app writes.
LEMMA WriteApplied == Base /\ AppliedInv /\ WriteMutations => AppliedInv'
<1> SUFFICES ASSUME Base, AppliedInv, WriteMutations PROVE AppliedInv'
  OBVIOUS
<1> DEFINE x == Unacked(user)
<1>1. /\ UNCHANGED <<user, applied, halfClosed>>
      /\ remote' = FillWritePipeline(remote, queue'[user], lastAcked[user])
  BY DEF WriteMutations, backend
<1>2. PICK b \in Batch : /\ Unacked(user)' = Append(x, b)
                         /\ \A u \in Users : u # user => Unacked(u)' = Unacked(u)
  BY WriteUnacked
<1>3. x \in Seq(Batch) /\ remote \in Remote
  <2>1. x \in Seq(Batch)
    BY UnackedFacts DEF Suffix
  <2>2. remote \in Remote
    BY UserFacts
  <2> QED
    BY <2>1, <2>2
<1>4. /\ Answered(remote') = Answered(remote)
      /\ Greeted(remote') => Greeted(remote) /\ remote'.handshakeComplete = remote.handshakeComplete
  BY <1>1, <1>3, FillKeeps
<1>5. /\ Len(x) \in Nat /\ DOMAIN x = 1 .. Len(x) /\ Len(Append(x, b)) = Len(x) + 1
      /\ \A k \in DOMAIN x : Append(x, b)[k] = x[k]
  <2> HIDE DEF x
  <2> QED
    BY <1>3, AppendAt
<1>6. ASSUME NEW u \in Users
      PROVE  /\ applied'[u] \in Nat /\ applied'[u] <= Len(Unacked(u)')
             /\ Awaited(u) => Awaited(u)'
  <2>1. applied[u] \in Nat /\ applied[u] <= Len(Unacked(u))
    BY DEF AppliedInv
  <2>2. CASE u # user
    BY <1>1, <1>2, <2>1, <2>2 DEF Awaited
  <2>3. CASE u = user
    <3> DEFINE a == applied[user]
               s == halfClosed
    <3>1. a \in Nat /\ a <= Len(x)
      BY <2>1, <2>3
    <3>2. applied'[u] \in Nat /\ applied'[u] <= Len(Append(x, b))
      <4> DEFINE l == Len(x)
      <4>1. l \in Nat /\ a \in Nat /\ a <= l
        BY <1>5, <3>1
      <4> HIDE DEF l, a
      <4>2. a <= l + 1
        BY <4>1
      <4> QED
        BY <1>1, <1>5, <2>3, <4>1, <4>2 DEF l, a
    <3>3. ASSUME Awaited(u) PROVE Awaited(u)'
      <4>1. a + Len(s) <= Len(x) /\ \A k \in 1 .. Len(s) : s[k] = x[a + k].write
        BY <2>3, <3>3 DEF Awaited
      <4>2. Len(s) \in Nat
        BY DEF Base, Typed
      <4>num. a + Len(s) <= Len(x) + 1 /\ \A k \in 1 .. Len(s) : a + k \in 1 .. Len(x)
        <5> DEFINE l == Len(x)
                   m == Len(s)
        <5>1. l \in Nat /\ a \in Nat /\ m \in Nat /\ a + m <= l
          BY <1>5, <3>1, <4>1, <4>2
        <5> HIDE DEF l, a, m
        <5>2. a + m <= l + 1 /\ \A k \in 1 .. m : a + k \in 1 .. l
          BY <5>1
        <5> QED
          BY <5>2 DEF l, m
      <4>3. a + Len(s) <= Len(Append(x, b))
        BY <1>5, <4>num
      <4> HIDE DEF a, s, x
      <4>4. \A k \in 1 .. Len(s) : s[k] = Append(x, b)[a + k].write
        <5>1. TAKE k \in 1 .. Len(s)
        <5>2. a + k \in DOMAIN x
          BY <1>5, <4>num
        <5> QED
          BY <1>5, <4>1, <5>2
      <4>5. a' = a /\ s' = s /\ user' = user
        BY <1>1 DEF a, s
      <4>6. Awaited(user)'
        BY <1>1, <1>2, <4>3, <4>4, <4>5 DEF Awaited, a, s
      <4>7. Unacked(u)' = Unacked(user)'
        BY <1>1, <2>3
      <4> QED
        BY <1>1, <2>3, <4>6, <4>7 DEF Awaited
    <3>4. Unacked(u)' = Append(x, b)
      BY <1>1, <1>2, <2>3
    <3> QED
      BY <3>2, <3>3, <3>4
  <2> QED
    BY <2>2, <2>3
<1>7. Greeted(remote)' => applied'[user'] = (IF remote.handshakeComplete THEN Answered(remote) ELSE 0)'
  <2>1. Greeted(remote)' = Greeted(remote') /\ Answered(remote)' = Answered(remote')
    BY DEF Greeted, Answered, Ended
  <2> QED
    BY <1>1, <1>4, <2>1 DEF AppliedInv
<1>8. halfClosed' # <<>> => \E u \in Users : Awaited(u)'
  BY <1>1, <1>6 DEF AppliedInv
<1> QED
  BY <1>6, <1>7, <1>8 DEF AppliedInv

\* The backend answers the handshake: it begins with the oldest write.
LEMMA AnswerApplied == Base /\ AppliedInv /\ AnswerHandshake => AppliedInv'
<1> SUFFICES ASSUME Base, AppliedInv, AnswerHandshake PROVE AppliedInv'
  OBVIOUS
<1>1. /\ applied' = [applied EXCEPT ![user] = 0] /\ halfClosed = <<>>
      /\ UNCHANGED <<queue, lastAcked, user, halfClosed>>
      /\ remote' = [remote EXCEPT !.requests = Tail(@),
                    !.responses = Append(@, [type |-> "handshake", version |-> 0])]
  BY DEF AnswerHandshake, local, backend
<1>2. ~remote.handshakeComplete /\ remote \in Remote
  BY ListensFacts DEF AnswerHandshake
<1>3. remote'.handshakeComplete = remote.handshakeComplete
  BY <1>1, <1>2 DEF Remote
<1>4. applied \in [Users -> Int] /\ user \in Users
  BY DEF Base, Typed
<1>5. applied'[user] = 0 /\ \A u \in Users : u # user => applied'[u] = applied[u]
  BY <1>1, <1>4
<1>6. \A u \in Users : Unacked(u)' = Unacked(u)
  BY <1>1, SameUnacked
<1>7. ASSUME NEW u \in Users PROVE applied'[u] \in Nat /\ applied'[u] <= Len(Unacked(u)')
  <2>1. applied[u] \in Nat /\ applied[u] <= Len(Unacked(u))
    BY DEF AppliedInv
  <2>2. Len(Unacked(u)) \in Nat
    BY UnackedFacts DEF Suffix
  <2>3. CASE u = user
    <3>1. Unacked(u)' = Unacked(u) /\ applied'[u] = 0
      BY <1>5, <1>6, <2>3
    <3> QED
      BY <2>2, <3>1
  <2>4. CASE u # user
    BY <1>5, <1>6, <2>1, <2>4
  <2> QED
    BY <2>3, <2>4
<1> QED
  BY <1>1, <1>2, <1>3, <1>5, <1>7 DEF AppliedInv

\* The backend applies a write of the stream.
LEMMA ApplyApplied ==
  ASSUME Base, AppliedInv, ApplyWrite
  PROVE  /\ AppliedInv' /\ applied[user] < Len(Unacked(user))
         /\ Head(remote.requests) = Unacked(user)[applied[user] + 1].write
<1> DEFINE x == Unacked(user)
           A == Answered(remote)
           s == remote.requests
           a == [type |-> "ack", version |-> Len(log) + 1]
           d == remote'
<1>1. /\ remote \in Remote /\ remote.state = "Open" /\ ~Ended(remote) /\ s \in Seq(Nat)
      /\ s # <<>> /\ Head(s) = s[1] /\ Len(s) >= 1 /\ remote.handshakeComplete
  BY ListensFacts DEF ApplyWrite
<1>2. /\ applied' = [applied EXCEPT ![user] = applied[user] + 1]
      /\ UNCHANGED <<queue, lastAcked, user, halfClosed>>
      /\ log' = Append(log, Head(s))
      /\ d = [remote EXCEPT !.requests = Tail(@),
                !.responses = Append(@, [type |-> "ack", version |-> Len(log')])]
  BY DEF ApplyWrite, local, watch
<1>3. log \in Seq(Nat) /\ applied \in [Users -> Int] /\ user \in Users /\ Head(s) \in Nat
  <2>1. Head(s) \in Nat
    BY <1>1, TailAt
  <2> QED
    BY <2>1 DEF Base, Typed
<1>4. Len(log') = Len(log) + 1 /\ Len(log) \in Nat
  <2> DEFINE w == Head(s)
  <2>1. w \in Nat
    BY <1>3
  <2>2. log' = Append(log, w)
    BY <1>2
  <2> HIDE DEF w
  <2> QED
    BY <1>3, <2>1, <2>2, AppendAt
<1>5. a \in Response /\ a.type \notin Closing
  BY <1>4 DEF Response, Closing
<1>6. /\ d.handshakeComplete = remote.handshakeComplete
      /\ d.responses = Append(remote.responses, a)
  BY <1>1, <1>2, <1>4 DEF Remote
<1> HIDE DEF a, d
<1>7. Answered(d) = A + 1
  BY <1>1, <1>5, <1>6, AnsweredMore
<1>8. /\ halfClosed = <<>> /\ applied[user] = A /\ A \in Nat /\ Len(s) \in Nat
      /\ Len(x) \in Nat /\ A + Len(s) <= Len(x)
      /\ \A k \in 1 .. Len(s) : s[k] = x[A + k].write
  BY <1>1, GreetedFacts
<1> HIDE DEF A, s, x
<1>9. A + 1 <= Len(x) /\ A < Len(x) /\ A + 1 \in Nat /\ 1 \in 1 .. Len(s)
  <2> DEFINE l == Len(x)
             m == Len(s)
  <2>1. l \in Nat /\ m \in Nat /\ A \in Nat /\ A + m <= l /\ m >= 1
    BY <1>1, <1>8
  <2> HIDE DEF l, m
  <2>2. A + 1 <= l /\ A < l /\ A + 1 \in Nat /\ 1 \in 1 .. m
    BY <2>1
  <2> QED
    BY <2>2 DEF l, m
<1>10. Head(s) = x[A + 1].write
  BY <1>1, <1>8, <1>9
<1>11. applied'[user] = A + 1 /\ \A u \in Users : u # user => applied'[u] = applied[u]
  BY <1>2, <1>3, <1>8
<1>12. \A u \in Users : Unacked(u)' = Unacked(u)
  BY <1>2, SameUnacked
<1>13. ASSUME NEW u \in Users PROVE applied'[u] \in Nat /\ applied'[u] <= Len(Unacked(u)')
  <2>1. applied[u] \in Nat /\ applied[u] <= Len(Unacked(u))
    BY DEF AppliedInv
  <2>2. CASE u = user
    BY <1>9, <1>11, <1>12, <2>2 DEF x
  <2>3. CASE u # user
    BY <1>11, <1>12, <2>1, <2>3
  <2> QED
    BY <2>2, <2>3
<1>14. Answered(remote)' = A + 1 /\ remote'.handshakeComplete
  <2>1. Answered(remote)' = Answered(d)
    BY DEF Answered, Ended, d
  <2> QED
    BY <1>1, <1>6, <1>7, <2>1 DEF d
<1>15. AppliedInv'
  BY <1>2, <1>8, <1>11, <1>13, <1>14 DEF AppliedInv
<1> QED
  BY <1>8, <1>9, <1>10, <1>15 DEF x, s

\* The client learns of the handshake.
LEMMA HandshakeApplied == Base /\ AppliedInv /\ HandshakeDone => AppliedInv'
<1> SUFFICES ASSUME Base, AppliedInv, HandshakeDone PROVE AppliedInv'
  OBVIOUS
<1> DEFINE d == remote'
           s == remote.responses
           q == remote.requests \o WritesOf(remote.pending)
           t == Tail(s)
<1>1. /\ UNCHANGED <<queue, lastAcked, user, applied, halfClosed>>
      /\ remote.state = "Open" /\ s # <<>> /\ Head(s).type = "handshake"
      /\ d = [remote EXCEPT !.handshakeComplete = TRUE, !.idle = FALSE, !.responses = t,
                            !.requests = q]
  BY DEF HandshakeDone, Received, local, backend, history
<1>2. remote \in Remote /\ StreamOk(remote, log)
  BY UserFacts
<1>3. d \in Remote
  BY HandshakeDoneBase DEF Base, Typed
<1> HIDE DEF t, q, d
<1>4. d.handshakeComplete = TRUE /\ d.responses = Tail(remote.responses)
  BY <1>1, <1>2 DEF Remote, t
<1>5. /\ Answered(remote) >= 1 /\ Answered(d) = Answered(remote) - 1 /\ Head(s) = s[1]
  <2>1. Head(s).type \notin Closing
    BY <1>1 DEF Closing
  <2> QED
    BY <1>1, <1>2, <1>3, <1>4, <2>1, AnsweredTail
<1>6. Answered(remote) \in Nat
  BY <1>2, AnsweredFacts
<1>7. ~remote.handshakeComplete
  <2>1. SUFFICES ASSUME remote.handshakeComplete PROVE FALSE
    OBVIOUS
  <2>2. WritesOk(remote, log)
    BY <1>1, <1>2, <2>1 DEF StreamOk
  <2>3. 1 \in 1 .. Answered(remote)
    BY <1>5, <1>6
  <2>4. s[1].type = "ack"
    BY <2>2, <2>3 DEF WritesOk
  <2> QED
    BY <1>1, <1>5, <2>4
<1>8. HandshakeOk(remote)
  BY <1>1, <1>2, <1>7 DEF StreamOk
<1>9. Answered(remote) = 1 /\ Greeted(remote)
  BY <1>1, <1>5, <1>8 DEF HandshakeOk, Greeted
<1>10. Answered(d) = 0 /\ applied[user] = 0
  BY <1>5, <1>7, <1>9 DEF AppliedInv
<1>11. Answered(remote)' = 0 /\ remote'.handshakeComplete
  <2>1. Answered(remote)' = Answered(d)
    BY DEF Answered, Ended, d
  <2> QED
    BY <1>4, <1>10, <2>1 DEF d
<1>12. \A u \in Users : Unacked(u)' = Unacked(u)
  BY <1>1, SameUnacked
<1>13. \A u \in Users : Awaited(u) => Awaited(u)'
  BY <1>1, <1>12 DEF Awaited
<1> QED
  BY <1>1, <1>10, <1>11, <1>12, <1>13 DEF AppliedInv

\* Unacknowledged batches are writes of their user.
LEMMA UnackedAuthor ==
  ASSUME Base, NEW u \in Users, NEW k \in 1 .. Len(Unacked(u))
  PROVE  /\ Unacked(u)[k].write \in DOMAIN author /\ author[Unacked(u)[k].write] = u
         /\ \E j \in DOMAIN queue[u] : Unacked(u)[k] = queue[u][j] /\ queue[u][j].id > lastAcked[u]
<1>1. PICK h \in Nat : SplitAt(queue[u], lastAcked[u], h) /\ Suffix(queue[u], Unacked(u), h)
  BY UnackedFacts
<1>2. Unacked(u)[k] = queue[u][h + k] /\ h + k \in DOMAIN queue[u]
  BY <1>1 DEF Suffix
<1>3. queue[u] \in Seq(Batch) /\ lastAcked[u] \in Int
  BY DEF Base, Typed
<1>4. QueueOk(queue[u], lastAcked[u], blocks[u], nextBatchID, author, log, u)
  BY DEF Base, QueueInv
<1>5. queue[u][h + k].id \in Nat
  BY <1>2, <1>3, BatchFacts
<1>6. k \in Nat /\ k >= 1
  <2> DEFINE l == Len(Unacked(u))
  <2>1. l \in Nat
    BY UnackedFacts DEF Suffix
  <2> HIDE DEF l
  <2>2. \A i \in 1 .. l : i \in Nat /\ i >= 1
    BY <2>1
  <2> QED
    BY <2>2 DEF l
<1>7. ~(h + k <= h)
  BY <1>6
<1>8. ~(queue[u][h + k].id <= lastAcked[u])
  BY <1>1, <1>2, <1>7 DEF SplitAt
<1>9. queue[u][h + k].id > lastAcked[u]
  BY <1>3, <1>5, <1>8
<1> QED
  BY <1>2, <1>4, <1>9 DEF QueueOk

\* The backend applies a write of a stream that was left.
LEMMA HalfClosedApplied ==
  ASSUME Base, AppliedInv, ApplyHalfClosed
  PROVE  /\ AppliedInv'
         /\ \E u \in Users : /\ author[Head(halfClosed)] = u /\ applied[u] < Len(Unacked(u))
                             /\ Head(halfClosed) = Unacked(u)[applied[u] + 1].write
<1> DEFINE s == halfClosed
           w == Head(s)
<1>1. /\ s # <<>> /\ s' = Tail(s) /\ applied' = [applied EXCEPT ![author[w]] = @ + 1]
      /\ UNCHANGED <<queue, lastAcked, user, remote>>
  BY DEF ApplyHalfClosed, local
<1>2. s \in Seq(Nat) /\ applied \in [Users -> Int]
  BY DEF Base, Typed
<1>3. /\ w = s[1] /\ Len(s) \in Nat /\ Len(s) >= 1 /\ Len(Tail(s)) = Len(s) - 1
      /\ DOMAIN Tail(s) = 1 .. Len(s) - 1
      /\ \A k \in DOMAIN Tail(s) : k + 1 \in DOMAIN s /\ Tail(s)[k] = s[k + 1]
      /\ DOMAIN s = 1 .. Len(s)
  <2>1. s # <<>> /\ s \in Seq(Nat)
    BY <1>1, <1>2
  <2> HIDE DEF s
  <2> QED
    BY <2>1, TailAt
<1>4. ~Greeted(remote)
  BY <1>1 DEF Base, StreamInv
<1>5. PICK u \in Users : Awaited(u)
  BY <1>1 DEF AppliedInv
<1> DEFINE x == Unacked(u)
           a == applied[u]
<1>6. a + Len(s) <= Len(x) /\ \A k \in 1 .. Len(s) : s[k] = x[a + k].write
  BY <1>5 DEF Awaited
<1>7. a \in Nat /\ Len(x) \in Nat
  BY UnackedFacts DEF Suffix, AppliedInv
<1>num. /\ a < Len(x) /\ a + 1 <= Len(x) /\ a + 1 \in 1 .. Len(x) /\ 1 \in 1 .. Len(s)
        /\ a + 1 + (Len(s) - 1) <= Len(x) /\ a + 1 \in Nat
        /\ \A k \in 1 .. Len(s) - 1 : k + 1 \in 1 .. Len(s) /\ a + 1 + k = a + (k + 1)
  <2> DEFINE l == Len(x)
             m == Len(s)
  <2>1. l \in Nat /\ m \in Nat /\ a \in Nat /\ a + m <= l /\ m >= 1
    BY <1>3, <1>6, <1>7
  <2> HIDE DEF l, m, a
  <2>2. /\ a < l /\ a + 1 <= l /\ a + 1 \in 1 .. l /\ 1 \in 1 .. m
        /\ a + 1 + (m - 1) <= l /\ a + 1 \in Nat
        /\ \A k \in 1 .. m - 1 : k + 1 \in 1 .. m /\ a + 1 + k = a + (k + 1)
    BY <2>1
  <2> QED
    BY <2>2 DEF l, m
<1>8. w = x[a + 1].write
  BY <1>3, <1>6, <1>num
<1>9. author[w] = u
  BY <1>8, <1>num, UnackedAuthor
<1> HIDE DEF w
<1>10. applied'[u] = a + 1 /\ \A v \in Users : v # u => applied'[v] = applied[v]
  BY <1>1, <1>2, <1>9
<1>11. \A v \in Users : Unacked(v)' = Unacked(v)
  BY <1>1, SameUnacked
<1>12. ASSUME NEW v \in Users PROVE applied'[v] \in Nat /\ applied'[v] <= Len(Unacked(v)')
  <2>1. applied[v] \in Nat /\ applied[v] <= Len(Unacked(v))
    BY DEF AppliedInv
  <2>2. CASE v = u
    <3>1. Unacked(v)' = x /\ applied'[v] = a + 1
      BY <1>10, <1>11, <2>2
    <3> QED
      BY <1>num, <3>1
  <2>3. CASE v # u
    BY <1>10, <1>11, <2>1, <2>3
  <2> QED
    BY <2>2, <2>3
<1> HIDE DEF x, a, s
<1>13. /\ applied'[u] + Len(s') <= Len(x)
       /\ \A k \in 1 .. Len(s') : s'[k] = x[applied'[u] + k].write
  <2>1. Len(s') = Len(s) - 1
    BY <1>1, <1>3
  <2>2. applied'[u] + Len(s') <= Len(x)
    BY <1>10, <1>num, <2>1
  <2>3. \A k \in 1 .. Len(s) - 1 : Tail(s)[k] = x[a + 1 + k].write
    <3>1. TAKE k \in 1 .. Len(s) - 1
    <3>2. k + 1 \in 1 .. Len(s) /\ a + 1 + k = a + (k + 1)
      BY <1>num
    <3>3. Tail(s)[k] = s[k + 1]
      BY <1>3
    <3> QED
      BY <1>6, <3>2, <3>3
  <2> QED
    BY <1>1, <1>10, <2>1, <2>2, <2>3
<1>14. Awaited(u)'
  <2>1. Unacked(u)' = x
    BY <1>11 DEF x
  <2> QED
    BY <1>13, <2>1 DEF Awaited, s
<1>15. AppliedInv'
  <2>1. ~Greeted(remote)'
    BY <1>1, <1>4 DEF Greeted
  <2> QED
    BY <1>12, <1>14, <2>1 DEF AppliedInv
<1> QED
  BY <1>8, <1>9, <1>15, <1>num DEF x, a, s, w

\* A batch is acknowledged: one less, and one less of those applied.
LEMMA AcknowledgeApplied ==
  ASSUME Base, AppliedInv, WriteAcknowledged
  PROVE  AppliedInv' /\ applied[user] > 0
<1> DEFINE A == Answered(remote)
           x == Unacked(user)
           d == remote'
<1>1. /\ remote.state = "Open" /\ remote.handshakeComplete
      /\ Behind \in Remote /\ d = FillWritePipeline(Behind, queue'[user], Oldest.id)
  BY Acknowledged
<1>2. /\ applied' = [applied EXCEPT ![user] = @ - 1] /\ UNCHANGED <<user, halfClosed>>
      /\ remote.responses # <<>> /\ Head(remote.responses).type = "ack"
  BY DEF WriteAcknowledged, Received, backend
<1>3. remote \in Remote /\ user \in Users /\ applied \in [Users -> Int]
  BY UserFacts DEF Base, Typed
<1>4. /\ Behind.responses = Tail(remote.responses)
      /\ Behind.handshakeComplete = remote.handshakeComplete
  BY <1>3 DEF Behind, Remote
<1>5. A >= 1 /\ Answered(Behind) = A - 1
  <2>1. Head(remote.responses).type \notin Closing
    BY <1>2 DEF Closing
  <2> QED
    BY <1>1, <1>2, <1>3, <1>4, <2>1, AnsweredTail
<1>6. /\ Answered(d) = Answered(Behind)
      /\ Greeted(d) => d.handshakeComplete = Behind.handshakeComplete
  BY <1>1, FillKeeps
<1>7. /\ halfClosed = <<>> /\ applied[user] = A /\ A \in Nat
      /\ Len(x) \in Nat /\ x \in Seq(Batch)
  BY <1>1, GreetedFacts
<1>8. x # <<>> /\ Unacked(user)' = Tail(x) /\ \A u \in Users : u # user => Unacked(u)' = Unacked(u)
  BY AcknowledgeUnacked
<1>9. Len(Tail(x)) = Len(x) - 1
  <2>1. x # <<>> /\ x \in Seq(Batch)
    BY <1>7, <1>8
  <2> HIDE DEF x
  <2> QED
    BY <2>1, TailAt
<1> HIDE DEF A, x, d
<1>10. applied'[user] = A - 1 /\ \A u \in Users : u # user => applied'[u] = applied[u]
  BY <1>2, <1>3, <1>7
<1>11. ASSUME NEW u \in Users PROVE applied'[u] \in Nat /\ applied'[u] <= Len(Unacked(u)')
  <2>1. applied[u] \in Nat /\ applied[u] <= Len(Unacked(u))
    BY DEF AppliedInv
  <2>2. CASE u = user
    <3>1. applied'[u] = A - 1 /\ Unacked(u)' = Tail(x) /\ A <= Len(x)
      <4>1. applied'[u] = A - 1
        BY <1>10, <2>2
      <4>2. Unacked(u)' = Tail(x)
        <5>1. Unacked(u)' = Unacked(user)'
          BY <1>2, <2>2
        <5> QED
          BY <1>8, <5>1
      <4>3. A <= Len(x)
        BY <1>7, <2>1, <2>2 DEF x
      <4> QED
        BY <4>1, <4>2, <4>3
    <3>2. A - 1 \in Nat /\ A - 1 <= Len(x) - 1
      BY <1>5, <1>7, <3>1
    <3> QED
      BY <1>9, <3>1, <3>2
  <2>3. CASE u # user
    BY <1>8, <1>10, <2>1, <2>3
  <2> QED
    BY <2>2, <2>3
<1>12. Greeted(remote)' => /\ remote'.handshakeComplete
                           /\ Answered(remote)' = A - 1
  <2>1. Greeted(remote)' = Greeted(d) /\ Answered(remote)' = Answered(d)
    BY DEF Greeted, Answered, Ended, d
  <2> QED
    BY <1>1, <1>4, <1>5, <1>6, <2>1 DEF d
<1>13. AppliedInv'
  BY <1>2, <1>7, <1>10, <1>11, <1>12 DEF AppliedInv
<1> QED
  BY <1>5, <1>7, <1>13

\* A batch is refused: the backend has applied nothing that is not answered.
LEMMA RefuseApplied ==
  ASSUME Base, AppliedInv, WriteRefused
  PROVE  AppliedInv' /\ applied[user] = 0
<1> DEFINE s == remote.responses
           x == Unacked(user)
<1>1. /\ remote.state = "Open" /\ s # <<>> /\ Head(s).type = "permanent"
      /\ remote.handshakeComplete /\ UNCHANGED <<user, applied, halfClosed>>
  BY DEF WriteRefused, Received, backend
<1>2. remote \in Remote /\ StreamOk(remote, log)
  BY UserFacts
<1>3. s \in Seq(Response)
  BY <1>2, RemoteFields
<1>4. Len(s) = 1 /\ Head(s) = s[1]
  <2>1. Head(s) = s[1] /\ 1 \in DOMAIN s
    <3> HIDE DEF s
    <3> QED
      BY <1>1, <1>3, TailAt
  <2>2. s[1].type \in Closing
    BY <1>1, <2>1 DEF Closing
  <2> QED
    BY <1>2, <2>1, <2>2 DEF StreamOk
<1>5. Ended(remote)
  <2>1. Last(s) = s[1]
    BY <1>4 DEF Last
  <2> QED
    BY <1>1, <1>4, <2>1 DEF Ended, Closing
<1>6. Answered(remote) = 0
  BY <1>4, <1>5 DEF Answered
<1>7. applied[user] = 0 /\ halfClosed = <<>>
  BY <1>1, <1>6, GreetedFacts
<1>8. ~Greeted(remote')
  BY WriteRefusedBase
<1>9. /\ x # <<>> /\ Unacked(user)' = Tail(x) /\ x \in Seq(Batch)
      /\ \A u \in Users : u # user => Unacked(u)' = Unacked(u)
  <2>1. x \in Seq(Batch)
    BY UnackedFacts DEF Suffix
  <2> QED
    BY <2>1, RefuseUnacked
<1>10. Len(Tail(x)) \in Nat
  <2>1. Tail(x) \in Seq(Batch)
    <3> HIDE DEF x
    <3> QED
      BY <1>9, TailAt
  <2> HIDE DEF x
  <2> QED
    BY <2>1
<1>11. ASSUME NEW u \in Users PROVE applied'[u] \in Nat /\ applied'[u] <= Len(Unacked(u)')
  <2>1. applied[u] \in Nat /\ applied[u] <= Len(Unacked(u))
    BY DEF AppliedInv
  <2>2. CASE u = user
    <3>1. Unacked(u)' = Tail(x)
      <4>1. Unacked(u)' = Unacked(user)'
        BY <1>1, <2>2
      <4> QED
        BY <1>9, <4>1
    <3>2. applied'[u] = 0
      BY <1>1, <1>7, <2>2
    <3> HIDE DEF x
    <3> QED
      BY <1>10, <3>1, <3>2
  <2>3. CASE u # user
    BY <1>1, <1>9, <2>1, <2>3
  <2> QED
    BY <2>2, <2>3
<1>12. ~Greeted(remote)'
  BY <1>8 DEF Greeted
<1>13. AppliedInv'
  BY <1>1, <1>7, <1>11, <1>12 DEF AppliedInv
<1> QED
  BY <1>7, <1>13

\* A user leaves or the process ends: of the requests under way the backend
\* gets the first ones.
LEMMA StartApplied ==
  ASSUME Base, AppliedInv, NEW u \in Users, StartMutationQueue(u), applied' = applied,
         ~Greeted(remote'), NEW n \in 0 .. Len(Sent(remote)),
         halfClosed' = halfClosed \o SubSeq(Sent(remote), 1, n)
  PROVE  AppliedInv'
<1> DEFINE s == Sent(remote)
           p == SubSeq(s, 1, n)
           x == Unacked(user)
           a == applied[user]
<1>1. \A v \in Users : Unacked(v)' = Unacked(v)
  BY StartUnacked
<1>2. s \in Seq(Nat) /\ halfClosed \in Seq(Nat) /\ Len(s) \in Nat
  BY SentFacts DEF Base, Typed
<1>3. n \in Nat /\ n <= Len(s)
  BY <1>2
<1>4. p \in Seq(Nat) /\ Len(p) = n /\ \A k \in 1 .. n : p[k] = s[k]
  <2> HIDE DEF s
  <2> QED
    BY <1>2, <1>3
<1>5. halfClosed' = halfClosed \o p
  OBVIOUS
<1>6. CASE s = <<>>
  <2>1. p = <<>>
    <3>1. n = 0
      BY <1>3, <1>6
    <3> HIDE DEF p
    <3> QED
      BY <1>4, <3>1, EmptySeq
  <2> HIDE DEF p
  <2>2. halfClosed' = halfClosed
    BY <1>2, <1>5, <2>1
  <2> QED
    BY <1>1, <2>2, AppliedSame
<1>7. CASE s # <<>>
  <2>1. remote.state = "Open" /\ remote.handshakeComplete /\ s = remote.requests
    BY <1>7, SentFacts
  <2>2. /\ halfClosed = <<>> /\ a = Answered(remote) /\ a \in Nat /\ Len(x) \in Nat
        /\ a + Len(s) <= Len(x) /\ \A k \in 1 .. Len(s) : s[k] = x[a + k].write
    BY <2>1, GreetedFacts
  <2> HIDE DEF s, p, x
  <2>3. halfClosed' = p
    <3>1. <<>> \o p = p
      BY <1>4
    <3> QED
      BY <1>5, <2>2, <3>1
  <2> HIDE DEF a
  <2>4. a + n <= Len(x) /\ \A k \in 1 .. n : k \in 1 .. Len(s)
    BY <1>2, <1>3, <2>2
  <2>5. PICK v \in Users : v = user
    BY UserFacts
  <2>6. Unacked(v)' = x /\ applied'[v] = a
    BY <1>1, <2>5 DEF x, a
  <2>7. Awaited(v)'
    <3>1. /\ a + Len(p) <= Len(x)
          /\ \A k \in 1 .. Len(p) : p[k] = x[a + k].write
      BY <1>4, <2>2, <2>4
    <3> QED
      BY <2>3, <2>6, <3>1 DEF Awaited
  <2>8. \A w \in Users : applied'[w] \in Nat /\ applied'[w] <= Len(Unacked(w)')
    BY <1>1 DEF AppliedInv
  <2>9. ~Greeted(remote)'
    BY DEF Greeted
  <2> QED
    BY <2>7, <2>8, <2>9 DEF AppliedInv
<1> QED
  BY <1>6, <1>7

\* Another user signs in, ...
LEMMA ChangeApplied ==
  ASSUME NEW u \in Users PROVE Base /\ AppliedInv /\ UserDidChange(u) => AppliedInv'
<1> SUFFICES ASSUME Base, AppliedInv, UserDidChange(u) PROVE AppliedInv'
  OBVIOUS
<1> DEFINE s == Sent(remote)
<1>1. /\ StartMutationQueue(u) /\ halfClosed' = halfClosed \o s
      /\ UNCHANGED <<author, log, applied, blocks>>
  BY DEF UserDidChange
<1>2. blocks' \in [Users -> SUBSET Batch] /\ \A x \in Users : blocks'[x] \subseteq blocks[x]
  BY <1>1 DEF Base, Typed
<1>3. ~Greeted(remote')
  BY <1>1, <1>2, Started
<1>4. s \in Seq(Nat)
  BY SentFacts
<1>5. Len(s) \in 0 .. Len(s) /\ SubSeq(s, 1, Len(s)) = s
  <2> HIDE DEF s
  <2>1. Len(s) \in Nat
    BY <1>4
  <2>2. Len(s) \in 0 .. Len(s)
    BY <2>1
  <2>3. SubSeq(s, 1, Len(s)) = s
    BY <1>4
  <2> QED
    BY <2>2, <2>3
<1> HIDE DEF s
<1>6. PICK n \in 0 .. Len(s) : halfClosed' = halfClosed \o SubSeq(s, 1, n)
  BY <1>1, <1>5
<1> QED
  BY <1>1, <1>3, <1>6, StartApplied DEF s

\* ... or the app is launched again.
LEMMA RestartApplied == Base /\ AppliedInv /\ Restart => AppliedInv'
<1> SUFFICES ASSUME Base, AppliedInv, Restart PROVE AppliedInv'
  OBVIOUS
<1>1. /\ StartMutationQueue(user) /\ UNCHANGED <<author, log, applied>>
      /\ blocks' = [u \in Users |-> {}]
  BY DEF Restart
<1>2. PICK n \in 0 .. Len(Sent(remote)) : halfClosed' = halfClosed \o SubSeq(Sent(remote), 1, n)
  BY DEF Restart
<1>3. blocks' \in [Users -> SUBSET Batch] /\ \A x \in Users : blocks'[x] \subseteq blocks[x]
  BY <1>1
<1>4. PICK u \in Users : u = user
  BY UserFacts
<1>5. StartMutationQueue(u)
  BY <1>1, <1>4
<1>6. ~Greeted(remote')
  BY <1>1, <1>3, <1>5, Started
<1> QED
  BY <1>1, <1>2, <1>5, <1>6, StartApplied

\* Every step keeps the second layer.
LEMMA NextApplied == Base /\ AppliedInv /\ [Next]_vars => AppliedInv'
<1> SUFFICES ASSUME Base, AppliedInv, [Next]_vars PROVE AppliedInv'
  OBVIOUS
<1>1. CASE WriteMutations
  BY <1>1, WriteApplied
<1>2. CASE TokenArrived
  BY <1>2, TokenApplied
<1>3. CASE BackoffElapsed
  BY <1>3, BackoffApplied
<1>4. CASE IdleTimer \/ StreamFailed \/ ConnectionLost
  BY <1>4, InterruptedApplied
<1>5. CASE AnswerHandshake
  BY <1>5, AnswerApplied
<1>6. CASE ApplyWrite
  BY <1>6, ApplyApplied
<1>7. CASE \E type \in Closing : EndStream(type)
  BY <1>7, EndApplied
<1>8. CASE ApplyHalfClosed
  BY <1>8, HalfClosedApplied
<1>9. CASE HandshakeDone
  BY <1>9, HandshakeApplied
<1>10. CASE WriteAcknowledged
  BY <1>10, AcknowledgeApplied
<1>11. CASE WriteRefused
  BY <1>11, RefuseApplied
<1>12. CASE \E u \in Users : UserDidChange(u)
  BY <1>12, ChangeApplied
<1>13. CASE Restart
  BY <1>13, RestartApplied
<1>14. CASE Listen \/ Unlisten \/ \E version \in DOMAIN log : ApplyRemoteEvent(version)
  BY <1>14, WatchApplied
<1>15. CASE UNCHANGED vars
  <2>1. UNCHANGED <<queue, lastAcked, applied, halfClosed, user, remote>>
    BY <1>15 DEF vars
  <2> QED
    BY <2>1, SameUnacked, AppliedSame
<1> QED
  BY <1>1, <1>2, <1>3, <1>4, <1>5, <1>6, <1>7, <1>8, <1>9, <1>10, <1>11, <1>12, <1>13,
     <1>14, <1>15 DEF Next

\* So both layers always hold.
LEMMA AlwaysApplied == Spec => [](Base /\ AppliedInv)
BY InitBase, NextBase, InitApplied, NextApplied, PTL DEF Spec

-----------------------------------------------------------------------------
(* What the SDK promises *)

\* TypeOK always holds: every write, batch, result and answer is one, and the
\* backend is never behind the first unacknowledged write.
THEOREM TypeCorrect == Spec => []TypeOK
<1>1. Base /\ AppliedInv => TypeOK
  <2> SUFFICES ASSUME Base, AppliedInv PROVE TypeOK
    OBVIOUS
  <2>1. applied \in [Users -> Int] /\ \A u \in Users : applied[u] \in Nat
    BY DEF Base, Typed, AppliedInv
  <2>2. applied \in [Users -> Nat]
    BY <2>1
  <2> QED
    BY <2>2 DEF Base, Typed, TypeOK
<1> QED
  BY <1>1, AlwaysApplied, PTL

\* The outbox of each user, as WriteQueue instantiates Outbox with it.
Outstanding == [u \in Users |-> WritesOf(Unacked(u))]

\* The writes of batches, ...
LEMMA WritesAt ==
  ASSUME NEW s \in Seq(Batch)
  PROVE  /\ WritesOf(s) \in Seq(Nat) /\ Len(WritesOf(s)) = Len(s) /\ Len(s) \in Nat
         /\ \A k \in 1 .. Len(s) : WritesOf(s)[k] = s[k].write
<1>1. Len(s) \in Nat /\ DOMAIN s = 1 .. Len(s) /\ \A k \in DOMAIN s : s[k].write \in Nat
  BY BatchFacts
<1>2. WritesOf(s) = [k \in 1 .. Len(s) |-> s[k].write]
  BY <1>1 DEF WritesOf
<1> QED
  BY <1>1, <1>2

\* ... with one more, ...
LEMMA WritesAppend ==
  ASSUME NEW s \in Seq(Batch), NEW b \in Batch
  PROVE  /\ WritesOf(Append(s, b)) = Append(WritesOf(s), b.write)
         /\ b.write \in Nat
<1> DEFINE x == WritesOf(Append(s, b))
           y == Append(WritesOf(s), b.write)
           w == WritesOf(s)
           n == Len(s)
<1>1. b.write \in Nat
  BY DEF Batch
<1>2. w \in Seq(Nat) /\ Len(w) = n /\ n \in Nat /\ \A k \in 1 .. n : w[k] = s[k].write
  BY WritesAt
<1>3. /\ Append(s, b) \in Seq(Batch) /\ Len(Append(s, b)) = n + 1 /\ DOMAIN s = 1 .. n
      /\ Append(s, b)[n + 1] = b /\ \A k \in DOMAIN s : Append(s, b)[k] = s[k]
  BY AppendAt
<1>4. x \in Seq(Nat) /\ Len(x) = n + 1 /\ \A k \in 1 .. n + 1 : x[k] = Append(s, b)[k].write
  BY <1>3, WritesAt
<1> HIDE DEF w, n, x
<1>5. /\ y \in Seq(Nat) /\ Len(y) = n + 1 /\ y[n + 1] = b.write
      /\ \A k \in 1 .. n : y[k] = w[k]
  BY <1>1, <1>2, AppendAt DEF w
<1> HIDE DEF y
<1>6. \A k \in 1 .. n + 1 : k \in 1 .. n \/ k = n + 1
  BY <1>2
<1>7. \A k \in 1 .. n : k \in 1 .. n + 1
  BY <1>2
<1>8. n + 1 \in 1 .. n + 1
  BY <1>2
<1>9. \A k \in 1 .. n + 1 : x[k] = y[k]
  <2>1. \A k \in 1 .. n : x[k] = y[k]
    <3>1. TAKE k \in 1 .. n
    <3>2. x[k] = s[k].write
      BY <1>3, <1>4, <1>7
    <3> QED
      BY <1>2, <1>5, <3>2
  <2>2. x[n + 1] = y[n + 1]
    BY <1>3, <1>4, <1>5, <1>8
  <2> QED
    BY <1>6, <2>1, <2>2
<1>10. x = y
  BY <1>4, <1>5, <1>9, SeqEqual
<1> QED
  BY <1>1, <1>10 DEF x, y

\* ... and without the first.
LEMMA WritesTail ==
  ASSUME NEW s \in Seq(Batch), s # <<>>
  PROVE  WritesOf(Tail(s)) = Tail(WritesOf(s)) /\ WritesOf(s) # <<>>
<1> DEFINE w == WritesOf(s)
           x == WritesOf(Tail(s))
           y == Tail(w)
           n == Len(s)
<1>1. w \in Seq(Nat) /\ Len(w) = n /\ \A k \in 1 .. n : w[k] = s[k].write
  BY WritesAt
<1>2. /\ n \in Nat /\ n >= 1 /\ Tail(s) \in Seq(Batch) /\ Len(Tail(s)) = n - 1
      /\ DOMAIN Tail(s) = 1 .. n - 1
      /\ \A k \in DOMAIN Tail(s) : k + 1 \in DOMAIN s /\ Tail(s)[k] = s[k + 1]
      /\ DOMAIN s = 1 .. n
  BY TailAt
<1>3. x \in Seq(Nat) /\ Len(x) = n - 1 /\ \A k \in 1 .. n - 1 : x[k] = Tail(s)[k].write
  <2>1. Tail(s) \in Seq(Batch) /\ Len(Tail(s)) = n - 1
    BY <1>2
  <2> HIDE DEF n
  <2>2. /\ x \in Seq(Nat) /\ Len(x) = Len(Tail(s))
        /\ \A k \in 1 .. Len(Tail(s)) : x[k] = Tail(s)[k].write
    BY <2>1, WritesAt
  <2> QED
    BY <2>1, <2>2
<1> HIDE DEF w, n, x
<1>4. w # <<>>
  <2>1. Len(w) # 0
    BY <1>1, <1>2
  <2> QED
    BY <1>1, <2>1, EmptySeq
<1>5. /\ y \in Seq(Nat) /\ Len(y) = n - 1 /\ DOMAIN y = 1 .. n - 1
      /\ \A k \in DOMAIN y : y[k] = w[k + 1]
  BY <1>1, <1>4, TailAt
<1> HIDE DEF y
<1>6. \A k \in 1 .. n - 1 : x[k] = y[k]
  <2>1. TAKE k \in 1 .. n - 1
  <2>2. k + 1 \in 1 .. n /\ Tail(s)[k] = s[k + 1]
    BY <1>2
  <2>3. w[k + 1] = s[k + 1].write
    BY <1>1, <2>2
  <2>4. y[k] = w[k + 1]
    BY <1>5
  <2> QED
    BY <1>3, <2>2, <2>3, <2>4
<1>7. x = y
  BY <1>3, <1>5, <1>6, SeqEqual
<1> QED
  BY <1>4, <1>7 DEF w, x, y

\* A step that concerns one user changes one entry of the outbox.
LEMMA OutboxStep ==
  ASSUME NEW c \in Users, \A u \in Users : u # c => Unacked(u)' = Unacked(u)
  PROVE  Outstanding' = [Outstanding EXCEPT ![c] = WritesOf(Unacked(c)')]
<1>1. Outstanding' = [u \in Users |-> WritesOf(Unacked(u)')]
  BY DEF Outstanding, WritesOf
<1>2. \A u \in Users : u # c => WritesOf(Unacked(u)') = WritesOf(Unacked(u))
  OBVIOUS
<1> QED
  BY <1>1, <1>2 DEF Outstanding

\* Without a change it stays.
LEMMA OutboxSame ==
  ASSUME \A u \in Users : Unacked(u)' = Unacked(u)
  PROVE  Outstanding' = Outstanding
<1>1. Outstanding' = [u \in Users |-> WritesOf(Unacked(u)')]
  BY DEF Outstanding, WritesOf
<1>2. \A u \in Users : WritesOf(Unacked(u)') = WritesOf(Unacked(u))
  OBVIOUS
<1> QED
  BY <1>1, <1>2 DEF Outstanding

\* A write is issued.
LEMMA WriteIssues ==
  ASSUME Base, WriteMutations
  PROVE  \E c \in Users : Promise!Issue(c)
<1>1. PICK b \in Batch : /\ Unacked(user)' = Append(Unacked(user), b)
                         /\ \A u \in Users : u # user => Unacked(u)' = Unacked(u)
  BY WriteUnacked
<1>2. PICK c \in Users : c = user
  BY UserFacts
<1>3. applied' = applied /\ user' = user
  BY DEF WriteMutations
<1> DEFINE x == Unacked(c)
           s == WritesOf(x)
           t == WritesOf(Unacked(c)')
<1>4. x \in Seq(Batch)
  BY UnackedFacts DEF Suffix
<1>5. Unacked(c)' = Append(x, b)
  <2>1. Unacked(c)' = Unacked(user)' /\ Unacked(c) = Unacked(user)
    BY <1>2, <1>3
  <2> QED
    BY <1>1, <2>1
<1>6. Outstanding' = [Outstanding EXCEPT ![c] = t]
  BY <1>1, <1>2, OutboxStep
<1>7. Outstanding[c] = s
  BY DEF Outstanding
<1> HIDE DEF x
<1>8. t = Append(s, b.write) /\ b.write \in Nat
  BY <1>4, <1>5, WritesAppend
<1>9. s \in Seq(Nat)
  BY <1>4, WritesAt
<1> HIDE DEF s, t
<1>10. t \in Seq(Nat) /\ Promise!IsStrictPrefix(s, t)
  <2> DEFINE a == b.write
  <2>1. s \in Seq(Nat) /\ a \in Nat /\ t = Append(s, a)
    BY <1>8, <1>9
  <2> HIDE DEF a
  <2>2. /\ t \in Seq(Nat) /\ Len(t) = Len(s) + 1 /\ Len(s) \in Nat
        /\ SubSeq(s, 1, Len(s)) = SubSeq(t, 1, Len(s))
    BY <2>1
  <2>3. s # t /\ Len(s) <= Len(t)
    BY <2>2
  <2> QED
    BY <2>2, <2>3 DEF Promise!IsStrictPrefix, Promise!IsPrefix
<1>11. Outstanding'[c] = t
  BY <1>6 DEF Outstanding
<1>12. /\ Promise!IsStrictPrefix(Outstanding[c], Outstanding'[c])
       /\ Outstanding'[c] \in Seq(Nat)
       /\ Outstanding' = [Outstanding EXCEPT ![c] = Outstanding'[c]]
  BY <1>6, <1>7, <1>10, <1>11
<1>13. Promise!Issue(c)
  BY <1>3, <1>12 DEF Promise!Issue, Outstanding
<1> QED
  BY <1>13

\* A write is applied, on the stream at work or on one that was left.
LEMMA BackendApplies ==
  ASSUME NEW c \in Users, Base, applied[c] < Len(Unacked(c)),
         applied' = [applied EXCEPT ![c] = @ + 1], UNCHANGED <<queue, lastAcked>>
  PROVE  Promise!Apply(c)
<1>1. Outstanding' = Outstanding
  BY SameUnacked, OutboxSame
<1>2. Len(Outstanding[c]) = Len(Unacked(c))
  <2>1. Unacked(c) \in Seq(Batch)
    BY UnackedFacts DEF Suffix
  <2>2. Outstanding[c] = WritesOf(Unacked(c))
    BY DEF Outstanding
  <2> QED
    BY <2>1, <2>2, WritesAt
<1>3. applied[c] < Len(Outstanding[c])
  BY <1>2
<1> QED
  BY <1>1, <1>3 DEF Promise!Apply, Outstanding

\* The first write leaves the outbox of the user at work.
LEMMA FirstLeaves ==
  ASSUME Base, NEW c \in Users, c = user, user' = user, Unacked(user) # <<>>,
         Unacked(user)' = Tail(Unacked(user)),
         \A u \in Users : u # user => Unacked(u)' = Unacked(u)
  PROVE  /\ Outstanding' = [Outstanding EXCEPT ![c] = Tail(@)]
         /\ Outstanding[c] # <<>>
<1> DEFINE x == Unacked(c)
<1>1. x \in Seq(Batch)
  BY UnackedFacts DEF Suffix
<1>2. Unacked(c)' = Unacked(user)' /\ Unacked(c) = Unacked(user)
  OBVIOUS
<1>3. x # <<>> /\ Unacked(c)' = Tail(x)
  BY <1>2
<1>4. Outstanding' = [Outstanding EXCEPT ![c] = WritesOf(Unacked(c)')]
  BY OutboxStep
<1>5. Outstanding[c] = WritesOf(x)
  BY DEF Outstanding
<1> HIDE DEF x
<1>6. WritesOf(Tail(x)) = Tail(WritesOf(x)) /\ WritesOf(x) # <<>>
  BY <1>1, <1>3, WritesTail
<1> QED
  BY <1>3, <1>4, <1>5, <1>6

\* The SDK keeps the promise that Ballot builds on: writes reach the backend in
\* their order, only an applied one is acknowledged, and after a broken stream,
\* a restart or a refusal they start again from the oldest.
THEOREM ImplementsOutbox == Spec => IsOutbox
<1>1. Init => Promise!Init
  <2> SUFFICES ASSUME Init PROVE Promise!Init
    OBVIOUS
  <2>1. \A u \in Users : queue[u] = <<>> /\ applied = [x \in Users |-> 0]
    BY DEF Init
  <2>2. \A u \in Users : Unacked(u) = <<>>
    BY <2>1, AfterEmpty DEF Unacked
  <2>3. WritesOf(<<>>) = <<>>
    BY DEF WritesOf
  <2>4. \A u \in Users : WritesOf(Unacked(u)) = <<>>
    BY <2>2, <2>3
  <2>5. Outstanding = [u \in Users |-> <<>>]
    BY <2>4 DEF Outstanding
  <2>6. applied = [u \in Users |-> 0]
    BY DEF Init
  <2> QED
    BY <2>5, <2>6 DEF Promise!Init, Outstanding
<1>2. Base /\ AppliedInv /\ [Next]_vars => [Promise!Next]_(Promise!vars)
  <2> SUFFICES ASSUME Base, AppliedInv, [Next]_vars
               PROVE  (\E c \in Users : \/ Promise!Issue(c) \/ Promise!Apply(c)
                                        \/ Promise!Settle(c) \/ Promise!Refuse(c)
                                        \/ Promise!Resend(c))
                      \/ UNCHANGED <<Outstanding, applied>>
    BY DEF Promise!vars, Promise!Next, Outstanding
  <2>0. PICK c \in Users : c = user
    BY UserFacts
  <2>1. CASE WriteMutations
    BY <2>1, WriteIssues
  <2>2. CASE AnswerHandshake
    <3>1. applied' = [applied EXCEPT ![user] = 0] /\ UNCHANGED <<queue, lastAcked>>
      BY <2>2 DEF AnswerHandshake, local
    <3>2. Outstanding' = Outstanding
      BY <3>1, SameUnacked, OutboxSame
    <3>3. Promise!Resend(c)
      BY <2>0, <3>1, <3>2 DEF Promise!Resend, Outstanding
    <3> QED
      BY <3>3
  <2>3. CASE ApplyWrite
    <3>1. applied[c] < Len(Unacked(c))
      BY <2>0, <2>3, ApplyApplied
    <3>2. applied' = [applied EXCEPT ![c] = @ + 1] /\ UNCHANGED <<queue, lastAcked>>
      BY <2>0, <2>3 DEF ApplyWrite, local
    <3>3. Promise!Apply(c)
      BY <3>1, <3>2, BackendApplies
    <3> QED
      BY <3>3
  <2>4. CASE ApplyHalfClosed
    <3>1. PICK u \in Users : author[Head(halfClosed)] = u /\ applied[u] < Len(Unacked(u))
      BY <2>4, HalfClosedApplied
    <3>2. applied' = [applied EXCEPT ![u] = @ + 1] /\ UNCHANGED <<queue, lastAcked>>
      BY <2>4, <3>1 DEF ApplyHalfClosed, local
    <3>3. Promise!Apply(u)
      BY <3>1, <3>2, BackendApplies
    <3> QED
      BY <3>3
  <2>5. CASE WriteAcknowledged
    <3>1. applied' = [applied EXCEPT ![c] = @ - 1] /\ user' = user
      BY <2>0, <2>5 DEF WriteAcknowledged
    <3>2. applied[c] > 0
      BY <2>0, <2>5, AcknowledgeApplied
    <3>3. Outstanding' = [Outstanding EXCEPT ![c] = Tail(@)]
      BY <2>0, <2>5, <3>1, AcknowledgeUnacked, FirstLeaves
    <3>4. Promise!Settle(c)
      BY <3>1, <3>2, <3>3 DEF Promise!Settle, Outstanding
    <3> QED
      BY <3>4
  <2>6. CASE WriteRefused
    <3>1. applied' = applied /\ user' = user
      BY <2>6 DEF WriteRefused
    <3>2. applied[c] = 0
      BY <2>0, <2>6, RefuseApplied
    <3>3. Outstanding' = [Outstanding EXCEPT ![c] = Tail(@)] /\ Outstanding[c] # <<>>
      BY <2>0, <2>6, <3>1, RefuseUnacked, FirstLeaves
    <3>4. Promise!Refuse(c)
      BY <3>1, <3>2, <3>3 DEF Promise!Refuse, Outstanding
    <3> QED
      BY <3>4
  <2>7. CASE applied' = applied /\ \A u \in Users : Unacked(u)' = Unacked(u)
    BY <2>7, OutboxSame
  <2>8. \/ WriteMutations \/ AnswerHandshake \/ ApplyWrite \/ ApplyHalfClosed
        \/ WriteAcknowledged \/ WriteRefused \/ applied' = applied
    BY DEF Next, vars, TokenArrived, BackoffElapsed, IdleTimer, EndStream, HandshakeDone,
           StreamFailed, ConnectionLost, UserDidChange, Restart, Listen, Unlisten,
           ApplyRemoteEvent, history
  <2> QED
    BY <2>1, <2>2, <2>3, <2>4, <2>5, <2>6, <2>7, <2>8, StepUnacked
<1> QED
  BY <1>1, <1>2, AlwaysApplied, PTL DEF Spec, IsOutbox, Promise!Spec

-----------------------------------------------------------------------------
(* What the backend ends with *)

\* Writes of a user that are not acknowledged, ...
Queued(u) == {Unacked(u)[k].write : k \in 1 .. Len(Unacked(u))}

\* ... and those that are off the queue without having been refused.
Settled(u) == Newest(u) \ Queued(u)

\* Position v of the log has the newest settled write of u, and what follows
\* will be overwritten, was given up, or is not by u.
SettledAt(u, v) ==
    /\ log[v] \in Settled(u)
    /\ \A n \in Settled(u) : n <= log[v]
    /\ \A w \in DOMAIN log : w > v =>
         log[w] \in refused \/ log[w] \in Queued(u) \/ author[log[w]] # u

\* The third layer: writes are settled in their order, and the backend's last
\* one by a user that counts is the newest that is settled.
LogInv ==
    /\ \A v \in DOMAIN log : log[v] \in DOMAIN author
    /\ \A u \in Users : \A n \in Settled(u), m \in Queued(u) : n < m
    /\ \A u \in Users : Settled(u) # {} => \E v \in DOMAIN log : SettledAt(u, v)

\* Unacknowledged writes are in the order of their numbers.
LEMMA UnackedOrder ==
  ASSUME Base, NEW u \in Users, NEW i \in 1 .. Len(Unacked(u)), NEW j \in 1 .. Len(Unacked(u)), i < j
  PROVE  Unacked(u)[i].write < Unacked(u)[j].write
<1>1. PICK h \in Nat : Suffix(queue[u], Unacked(u), h)
  BY UnackedFacts
<1>2. /\ Unacked(u)[i] = queue[u][h + i] /\ h + i \in DOMAIN queue[u]
      /\ Unacked(u)[j] = queue[u][h + j] /\ h + j \in DOMAIN queue[u]
  BY <1>1 DEF Suffix
<1>3. Len(Unacked(u)) \in Nat
  BY <1>1 DEF Suffix
<1>4. h + i < h + j
  <2> DEFINE l == Len(Unacked(u))
  <2>1. l \in Nat /\ i \in 1 .. l /\ j \in 1 .. l
    BY <1>3
  <2> HIDE DEF l
  <2> QED
    BY <2>1
<1>5. Ascending(queue[u])
  BY DEF Base, QueueInv, QueueOk
<1> QED
  BY <1>2, <1>4, <1>5 DEF Ascending

\* Without the first of them one number is missing, the smallest.
LEMMA QueuedTail ==
  ASSUME Base, NEW u \in Users, Unacked(u) # <<>>, Unacked(u)' = Tail(Unacked(u))
  PROVE  /\ Unacked(u)[1].write \in Queued(u) /\ Unacked(u)[1].write \in Nat
         /\ Queued(u)' = Queued(u) \ {Unacked(u)[1].write}
         /\ \A m \in Queued(u)' : Unacked(u)[1].write < m
<1> DEFINE x == Unacked(u)
           n == Len(x)
           t == Tail(x)
<1>1. x \in Seq(Batch)
  BY UnackedFacts DEF Suffix
<1>2. /\ n \in Nat /\ n >= 1 /\ t \in Seq(Batch) /\ Len(t) = n - 1
      /\ \A k \in 1 .. n - 1 : k + 1 \in 1 .. n /\ t[k] = x[k + 1]
      /\ 1 \in 1 .. n
  <2> HIDE DEF x
  <2>1. x # <<>>
    BY DEF x
  <2>2. /\ 1 \in DOMAIN x /\ Len(x) \in Nat /\ DOMAIN x = 1 .. Len(x) /\ Len(x) >= 1
        /\ Tail(x) \in Seq(Batch) /\ Len(Tail(x)) = Len(x) - 1
        /\ DOMAIN Tail(x) = 1 .. Len(x) - 1
        /\ \A k \in DOMAIN Tail(x) : k + 1 \in DOMAIN x /\ Tail(x)[k] = x[k + 1]
    BY <1>1, <2>1, TailAt
  <2> QED
    BY <2>2
<1>3. \A i, j \in 1 .. n : i < j => x[i].write < x[j].write
  BY UnackedOrder
<1>4. x[1].write \in Nat
  <2>1. DOMAIN x = 1 .. n
    BY <1>1, BatchFacts
  <2> QED
    BY <1>1, <1>2, <2>1, BatchFacts
<1>5. Queued(u) = {x[k].write : k \in 1 .. n}
  BY DEF Queued
<1>6. Queued(u)' = {t[k].write : k \in 1 .. Len(t)}
  BY DEF Queued
<1> HIDE DEF x, n, t
<1>7. \A k \in 1 .. n - 1 : 1 < k + 1
  BY <1>2
<1>8. \A m \in Queued(u)' : m \in Queued(u) /\ x[1].write < m
  <2>1. TAKE m \in Queued(u)'
  <2>2. PICK k \in 1 .. n - 1 : m = t[k].write
    BY <1>2, <1>6
  <2>3. k + 1 \in 1 .. n /\ m = x[k + 1].write /\ 1 < k + 1
    BY <1>2, <1>7, <2>2
  <2> QED
    BY <1>2, <1>3, <1>5, <2>3
<1>num. \A k \in 1 .. n : k = 1 \/ (k - 1 \in 1 .. n - 1 /\ k - 1 + 1 = k)
  BY <1>2
<1>9. \A m \in Queued(u) : m = x[1].write \/ m \in Queued(u)'
  <2>1. TAKE m \in Queued(u)
  <2>2. PICK k \in 1 .. n : m = x[k].write
    BY <1>5
  <2>3. CASE k = 1
    BY <2>2, <2>3
  <2>4. CASE k - 1 \in 1 .. n - 1 /\ k - 1 + 1 = k
    <3>1. t[k - 1] = x[k]
      BY <1>2, <2>4
    <3> QED
      BY <1>2, <1>6, <2>2, <2>4, <3>1
  <2> QED
    BY <1>num, <2>3, <2>4
<1>10. x[1].write \notin Queued(u)'
  BY <1>4, <1>8
<1>11. Queued(u)' = Queued(u) \ {x[1].write}
  BY <1>8, <1>9, <1>10
<1>12. x[1].write \in Queued(u)
  BY <1>2, <1>5
<1> QED
  BY <1>4, <1>8, <1>11, <1>12 DEF x

\* They are writes of their user.
LEMMA QueuedAuthor ==
  ASSUME Base, NEW u \in Users, NEW m \in Queued(u)
  PROVE  m \in DOMAIN author /\ author[m] = u
<1>1. PICK k \in 1 .. Len(Unacked(u)) : m = Unacked(u)[k].write
  BY DEF Queued
<1> QED
  BY <1>1, UnackedAuthor

\* Numbers of writes.
LEMMA AuthorFacts ==
  ASSUME Base
  PROVE  /\ author \in Seq(Users) /\ Len(author) \in Nat /\ DOMAIN author = 1 .. Len(author)
         /\ \A n \in DOMAIN author : n \in Nat
         /\ log \in Seq(Nat) /\ Len(log) \in Nat /\ DOMAIN log = 1 .. Len(log)
         /\ \A v \in DOMAIN log : v \in Nat /\ log[v] \in Nat
<1>1. author \in Seq(Users) /\ log \in Seq(Nat)
  BY DEF Base, Typed
<1>2. Len(author) \in Nat /\ DOMAIN author = 1 .. Len(author)
  BY <1>1
<1>3. Len(log) \in Nat /\ DOMAIN log = 1 .. Len(log) /\ \A v \in DOMAIN log : log[v] \in Nat
  BY <1>1
<1> QED
  BY <1>1, <1>2, <1>3

\* Steps that decide nothing.
LEMMA LogSame ==
  ASSUME LogInv, UNCHANGED <<author, refused, log>>, \A u \in Users : Unacked(u)' = Unacked(u)
  PROVE  LogInv'
<1>1. \A u \in Users : Queued(u)' = Queued(u)
  BY DEF Queued
<1>2. \A u \in Users : Settled(u)' = Settled(u)
  BY <1>1 DEF Settled, Newest
<1>3. ASSUME NEW u \in Users, NEW v \in DOMAIN log, SettledAt(u, v) PROVE SettledAt(u, v)'
  BY <1>1, <1>2, <1>3 DEF SettledAt
<1>4. \A v \in DOMAIN log' : log'[v] \in DOMAIN author'
  BY DEF LogInv
<1>5. \A u \in Users : \A n \in Settled(u)', m \in Queued(u)' : n < m
  BY <1>1, <1>2 DEF LogInv
<1>6. ASSUME NEW u \in Users, Settled(u)' # {} PROVE \E v \in DOMAIN log' : SettledAt(u, v)'
  <2>1. PICK v \in DOMAIN log : SettledAt(u, v)
    BY <1>2, <1>6 DEF LogInv
  <2> QED
    BY <1>3, <2>1
<1> QED
  BY <1>4, <1>5, <1>6 DEF LogInv

\* A new write has the highest number.
LEMMA LogWrite == Base /\ LogInv /\ WriteMutations => LogInv'
<1> SUFFICES ASSUME Base, LogInv, WriteMutations PROVE LogInv'
  OBVIOUS
<1> DEFINE n == Len(author) + 1
<1>1. author' = Append(author, user) /\ UNCHANGED <<log, refused, user>>
  BY DEF WriteMutations, backend
<1>2. /\ DOMAIN author' = 1 .. n /\ author'[n] = user /\ DOMAIN author = 1 .. Len(author)
      /\ \A k \in DOMAIN author : author'[k] = author[k]
  <2>1. author \in Seq(Users) /\ user \in Users
    BY AuthorFacts, UserFacts
  <2> QED
    BY <1>1, <2>1, AppendAt
<1>3. Len(author) \in Nat
  BY AuthorFacts
<1>4. /\ \A k \in DOMAIN author : k \in DOMAIN author' /\ k < n
      /\ \A k \in DOMAIN author' : k \in DOMAIN author \/ k = n
      /\ n \notin DOMAIN author /\ n \in DOMAIN author'
  BY <1>2, <1>3
<1>5. PICK b \in Batch : /\ Unacked(user)' = Append(Unacked(user), b) /\ b.write = n
                         /\ \A u \in Users : u # user => Unacked(u)' = Unacked(u)
  BY WriteUnacked
<1> HIDE DEF n
<1>6. \A u \in Users : u # user => Queued(u)' = Queued(u)
  BY <1>5 DEF Queued
<1>7. ASSUME NEW u \in Users, u = user PROVE Queued(u)' = Queued(u) \cup {n}
  <2> DEFINE x == Unacked(u)
             t == Unacked(u)'
             i == Len(x)
  <2>1. t = Append(x, b)
    <3>1. Unacked(u)' = Unacked(user)' /\ Unacked(u) = Unacked(user)
      BY <1>1, <1>7
    <3> QED
      BY <1>5, <3>1
  <2>2. x \in Seq(Batch)
    BY UnackedFacts DEF Suffix
  <2>3. Queued(u) = {x[k].write : k \in 1 .. i} /\ Queued(u)' = {t[k].write : k \in 1 .. Len(t)}
    BY DEF Queued
  <2> HIDE DEF x, t
  <2>4. /\ i \in Nat /\ DOMAIN x = 1 .. i /\ Len(t) = i + 1 /\ t[i + 1] = b
        /\ \A k \in DOMAIN x : t[k] = x[k]
    BY <2>1, <2>2, AppendAt
  <2> HIDE DEF i
  <2>5. /\ \A k \in 1 .. i + 1 : k \in 1 .. i \/ k = i + 1
        /\ \A k \in 1 .. i : k \in 1 .. i + 1
        /\ i + 1 \in 1 .. i + 1
    BY <2>4
  <2>6. \A m \in Queued(u)' : m \in Queued(u) \cup {n}
    BY <1>5, <2>3, <2>4, <2>5
  <2>7. \A m \in Queued(u) : m \in Queued(u)'
    BY <2>3, <2>4, <2>5
  <2>8. n \in Queued(u)'
    BY <1>5, <2>3, <2>4, <2>5
  <2> QED
    BY <2>6, <2>7, <2>8
<1>8. ASSUME NEW u \in Users PROVE Settled(u)' = Settled(u)
  <2>1. \A k : k \in Newest(u) <=> k \in DOMAIN author /\ k \notin refused /\ author[k] = u
    BY DEF Newest
  <2>2. \A k : k \in Newest(u)' <=> k \in DOMAIN author' /\ k \notin refused /\ author'[k] = u
    BY <1>1 DEF Newest
  <2>3. CASE u = user
    <3>1. \A k \in DOMAIN author : k \in Newest(u)' <=> k \in Newest(u)
      BY <1>2, <1>4, <2>1, <2>2
    <3>2. \A k : k \in Settled(u)' <=> k \in Settled(u)
      BY <1>4, <1>7, <2>1, <2>2, <2>3, <3>1 DEF Settled
    <3> QED
      BY <3>2
  <2>4. CASE u # user
    <3>1. \A k : k \in Newest(u)' <=> k \in Newest(u)
      BY <1>2, <1>4, <2>1, <2>2, <2>4
    <3> QED
      BY <1>6, <2>4, <3>1 DEF Settled
  <2> QED
    BY <2>3, <2>4
<1>9. \A v \in DOMAIN log' : log'[v] \in DOMAIN author'
  BY <1>1, <1>4 DEF LogInv
<1>10. ASSUME NEW u \in Users, NEW k \in Settled(u)', NEW m \in Queued(u)' PROVE k < m
  <2>1. k \in Settled(u) /\ k \in DOMAIN author
    BY <1>8 DEF Settled, Newest
  <2>2. CASE m \in Queued(u)
    BY <2>1, <2>2 DEF LogInv
  <2>3. CASE m \notin Queued(u)
    <3>1. m = n
      BY <1>6, <1>7, <2>3
    <3> QED
      BY <1>4, <2>1, <3>1
  <2> QED
    BY <2>2, <2>3
<1>11. ASSUME NEW u \in Users, Settled(u)' # {} PROVE \E v \in DOMAIN log' : SettledAt(u, v)'
  <2>1. PICK v \in DOMAIN log : SettledAt(u, v)
    BY <1>8, <1>11 DEF LogInv
  <2>2. Queued(u) \subseteq Queued(u)'
    BY <1>6, <1>7
  <2>3. \A w \in DOMAIN log : author'[log[w]] = author[log[w]]
    BY <1>2 DEF LogInv
  <2>4. SettledAt(u, v)'
    BY <1>1, <1>8, <2>1, <2>2, <2>3 DEF SettledAt
  <2> QED
    BY <1>1, <2>1, <2>4
<1> QED
  BY <1>9, <1>10, <1>11 DEF LogInv

\* The backend applies a write that is not acknowledged.
LEMMA LogGrows ==
  ASSUME Base, LogInv, NEW c \in Users, NEW m \in Queued(c), log' = Append(log, m),
         UNCHANGED <<author, refused, queue, lastAcked>>
  PROVE  LogInv'
<1>1. \A u \in Users : Queued(u)' = Queued(u) /\ Settled(u)' = Settled(u)
  <2>1. \A u \in Users : Unacked(u)' = Unacked(u)
    BY SameUnacked
  <2> QED
    BY <2>1 DEF Queued, Settled, Newest
<1>2. m \in DOMAIN author /\ author[m] = c
  BY QueuedAuthor
<1>3. log \in Seq(Nat) /\ m \in Nat
  BY <1>2, AuthorFacts
<1>4. /\ Len(log) \in Nat /\ DOMAIN log = 1 .. Len(log) /\ DOMAIN log' = 1 .. Len(log) + 1
      /\ log'[Len(log) + 1] = m /\ \A k \in DOMAIN log : log'[k] = log[k]
  BY <1>3, AppendAt
<1>5. /\ \A k \in DOMAIN log' : k \in DOMAIN log \/ k = Len(log) + 1
      /\ \A k \in DOMAIN log : k \in DOMAIN log'
  BY <1>4
<1>6. \A v \in DOMAIN log' : log'[v] \in DOMAIN author'
  BY <1>2, <1>4, <1>5 DEF LogInv
<1>7. \A u \in Users : \A n \in Settled(u)', k \in Queued(u)' : n < k
  BY <1>1 DEF LogInv
<1>8. ASSUME NEW u \in Users, Settled(u)' # {} PROVE \E v \in DOMAIN log' : SettledAt(u, v)'
  <2>1. PICK v \in DOMAIN log : SettledAt(u, v)
    BY <1>1, <1>8 DEF LogInv
  <2>2. m \in Queued(u) \/ author[m] # u
    BY <1>2
  <2>3. \A w \in DOMAIN log' : w > v =>
          log'[w] \in refused' \/ log'[w] \in Queued(u)' \/ author'[log'[w]] # u
    BY <1>1, <1>4, <1>5, <2>1, <2>2 DEF SettledAt
  <2>4. log'[v] \in Settled(u)' /\ \A n \in Settled(u)' : n <= log'[v]
    BY <1>1, <1>4, <2>1 DEF SettledAt
  <2>5. SettledAt(u, v)'
    BY <2>3, <2>4 DEF SettledAt
  <2> QED
    BY <1>5, <2>1, <2>5
<1> QED
  BY <1>6, <1>7, <1>8 DEF LogInv

\* Behind the answer at hand the log has only writes still to be answered.
LEMMA AnswersAhead ==
  ASSUME Base, WriteAcknowledged
  PROVE  \A w \in DOMAIN log : w > Answer =>
           \E k \in 1 .. Len(Unacked(user)) : k # 1 /\ log[w] = Unacked(user)[k].write
<1> DEFINE A == Answered(remote)
           p == remote.pending
           s == remote.responses
           L == Len(log)
<1>1. /\ remote.state = "Open" /\ remote.handshakeComplete /\ remote \in Remote
      /\ s # <<>> /\ Head(s).type = "ack"
  BY Acknowledged, UserFacts DEF WriteAcknowledged, Received
<1>2. WritesOk(remote, log)
  BY <1>1, UserFacts DEF StreamOk
<1>3. s \in Seq(Response)
  BY <1>1, RemoteFields
<1>4. Head(s) = s[1] /\ Len(s) \in Nat /\ Len(s) >= 1
  <2> HIDE DEF s
  <2> QED
    BY <1>1, <1>3, TailAt
<1>5. A >= 1 /\ A \in Nat
  <2>1. Ended(remote) => Len(s) # 1
    <3>1. Len(s) = 1 => Last(s) = Head(s)
      BY <1>4 DEF Last
    <3> QED
      BY <1>1, <3>1 DEF Ended, Closing
  <2>2. A = IF Ended(remote) THEN Len(s) - 1 ELSE Len(s)
    BY DEF Answered
  <2> HIDE DEF A
  <2> DEFINE l == Len(s)
  <2>3. l \in Nat /\ l >= 1 /\ (Ended(remote) => l # 1) /\ A = IF Ended(remote) THEN l - 1 ELSE l
    BY <1>4, <2>1, <2>2
  <2> HIDE DEF l
  <2> QED
    BY <2>3
<1>6. /\ A <= L
      /\ \A k \in 1 .. A : s[k].version = L - A + k /\ log[s[k].version] = p[k].write
      /\ A + Len(remote.requests) = Len(p)
  BY <1>2 DEF WritesOk
<1>7. L \in Nat /\ DOMAIN log = 1 .. L /\ Len(remote.requests) \in Nat /\ Len(p) \in Nat
  BY <1>1, AuthorFacts, RemoteFields
<1>8. Answer = L - A + 1
  BY <1>4, <1>5, <1>6 DEF Answer
<1>9. Len(p) <= Len(Unacked(user)) /\ \A k \in 1 .. Len(p) : p[k] = Unacked(user)[k]
  BY PipelineAt
<1>10. Len(Unacked(user)) \in Nat
  BY UnackedFacts DEF Suffix
<1> HIDE DEF A, p, s, L
<1>11. ASSUME NEW w \in DOMAIN log, w > Answer
       PROVE  \E k \in 1 .. Len(Unacked(user)) : k # 1 /\ log[w] = Unacked(user)[k].write
  <2> DEFINE k == w - (L - A)
             m == Len(p)
             l == Len(Unacked(user))
             r == Len(remote.requests)
  <2>1. /\ w \in 1 .. L /\ w > L - A + 1 /\ L \in Nat /\ A \in Nat /\ m \in Nat /\ l \in Nat
        /\ A + r = m /\ m <= l /\ r \in Nat
    BY <1>5, <1>6, <1>7, <1>8, <1>9, <1>10, <1>11
  <2> HIDE DEF m, l, r
  <2>2. k \in 1 .. A /\ k \in 1 .. m /\ k \in 1 .. l /\ k # 1 /\ L - A + k = w
    BY <2>1
  <2> HIDE DEF k
  <2>3. log[w] = p[k].write
    BY <1>6, <2>2
  <2>4. p[k] = Unacked(user)[k]
    BY <1>9, <2>2 DEF m
  <2> QED
    BY <2>2, <2>3, <2>4 DEF l
<1> QED
  BY <1>11

\* An acknowledged write is the newest that is settled, and the last applied.
LEMMA LogAcknowledge == Base /\ LogInv /\ WriteAcknowledged => LogInv'
<1> SUFFICES ASSUME Base, LogInv, WriteAcknowledged PROVE LogInv'
  OBVIOUS
<1> DEFINE o == Oldest.write
<1>1. UNCHANGED <<log, author, refused, user>>
  BY DEF WriteAcknowledged, backend
<1>2. PICK c \in Users : c = user
  BY UserFacts
<1>3. /\ Unacked(c) # <<>> /\ Unacked(c)' = Tail(Unacked(c)) /\ Unacked(c)[1] = Oldest
      /\ \A u \in Users : u # c => Unacked(u)' = Unacked(u)
  <2>1. Unacked(c)' = Unacked(user)' /\ Unacked(c) = Unacked(user)
    BY <1>1, <1>2
  <2> QED
    BY <1>2, <2>1, AcknowledgeUnacked
<1>4. /\ o \in Queued(c) /\ o \in Nat /\ Queued(c)' = Queued(c) \ {o}
      /\ \A m \in Queued(c)' : o < m
  <2>1. Unacked(c)[1].write = o
    BY <1>3
  <2> HIDE DEF o
  <2> QED
    BY <1>3, <2>1, QueuedTail
<1>5. o \in DOMAIN author /\ author[o] = c
  BY <1>4, QueuedAuthor
<1>6. Answer \in DOMAIN log /\ log[Answer] = o
  BY Acknowledged
<1>7. \A w \in DOMAIN log : w > Answer => log[w] \in Queued(c)'
  <2>1. TAKE w \in DOMAIN log
  <2>2. SUFFICES ASSUME w > Answer PROVE log[w] \in Queued(c)'
    OBVIOUS
  <2>3. PICK k \in 1 .. Len(Unacked(c)) : k # 1 /\ log[w] = Unacked(c)[k].write
    BY <1>2, <2>2, AnswersAhead
  <2>4. log[w] \in Queued(c)
    BY <2>3 DEF Queued
  <2>5. 1 \in 1 .. Len(Unacked(c)) /\ 1 < k
    <3>1. Len(Unacked(c)) \in Nat
      BY UnackedFacts DEF Suffix
    <3> DEFINE l == Len(Unacked(c))
    <3>2. l \in Nat /\ k \in 1 .. l /\ k # 1
      BY <2>3, <3>1
    <3> HIDE DEF l
    <3>3. 1 \in 1 .. l /\ 1 < k
      BY <3>2
    <3> QED
      BY <3>3 DEF l
  <2>6. o < log[w]
    BY <1>3, <2>3, <2>5, UnackedOrder
  <2>7. log[w] # o
    BY <1>4, <2>6
  <2> QED
    BY <1>4, <2>4, <2>7
<1> HIDE DEF o
<1>8. \A u \in Users : u # c => Queued(u)' = Queued(u) /\ Settled(u)' = Settled(u)
  BY <1>1, <1>3 DEF Queued, Settled, Newest
<1>9. Newest(c)' = Newest(c) /\ (o \in refused \/ o \in Newest(c))
  BY <1>1, <1>5 DEF Newest
<1>10. /\ \A n \in Settled(c)' : n = o \/ n \in Settled(c)
       /\ \A n \in Settled(c) : n \in Settled(c)' /\ n < o
       /\ o \in refused \/ o \in Settled(c)'
       /\ o \in refused => Settled(c)' = Settled(c)
  <2>1. \A n \in Settled(c)' : n = o \/ n \in Settled(c)
    BY <1>4, <1>9 DEF Settled
  <2>2. \A n \in Settled(c) : n \in Settled(c)' /\ n < o
    BY <1>4, <1>9 DEF Settled, LogInv
  <2>3. o \in refused \/ o \in Settled(c)'
    BY <1>4, <1>9 DEF Settled
  <2>4. o \in refused => o \notin Settled(c)'
    BY <1>1 DEF Settled, Newest
  <2> QED
    BY <2>1, <2>2, <2>3, <2>4
<1>11. \A v \in DOMAIN log' : log'[v] \in DOMAIN author'
  BY <1>1 DEF LogInv
<1>12. ASSUME NEW u \in Users, NEW n \in Settled(u)', NEW m \in Queued(u)' PROVE n < m
  <2>1. CASE u # c
    BY <1>8, <2>1 DEF LogInv
  <2>2. CASE u = c
    <3>1. m \in Queued(c) /\ o < m
      BY <1>4, <2>2
    <3>2. CASE n = o
      BY <3>1, <3>2
    <3>3. CASE n # o
      BY <1>10, <2>2, <3>1, <3>3 DEF LogInv
    <3> QED
      BY <3>2, <3>3
  <2> QED
    BY <2>1, <2>2
<1>13. ASSUME NEW u \in Users, Settled(u)' # {} PROVE \E v \in DOMAIN log' : SettledAt(u, v)'
  <2>1. CASE u # c
    <3>1. PICK v \in DOMAIN log : SettledAt(u, v)
      BY <1>8, <1>13, <2>1 DEF LogInv
    <3>2. SettledAt(u, v)'
      BY <1>1, <1>8, <2>1, <3>1 DEF SettledAt
    <3> QED
      BY <1>1, <3>1, <3>2
  <2>2. CASE u = c /\ o \in refused
    <3>1. PICK v \in DOMAIN log : SettledAt(u, v)
      BY <1>10, <1>13, <2>2 DEF LogInv
    <3>2. \A m \in Queued(u) : m \in Queued(u)' \/ m \in refused
      BY <1>4, <2>2
    <3>3. SettledAt(u, v)'
      BY <1>1, <1>10, <2>2, <3>1, <3>2 DEF SettledAt
    <3> QED
      BY <1>1, <3>1, <3>3
  <2>3. CASE u = c /\ o \notin refused
    <3>1. \A n \in Settled(u)' : n <= o
      <4>1. TAKE n \in Settled(u)'
      <4>2. n = o \/ n < o
        BY <1>10, <2>3
      <4>3. n \in DOMAIN author
        BY <1>1 DEF Settled, Newest
      <4>4. n \in Nat
        BY <4>3, AuthorFacts
      <4> QED
        BY <1>4, <4>2, <4>4
    <3>2. log'[Answer] \in Settled(u)' /\ \A n \in Settled(u)' : n <= log'[Answer]
      BY <1>1, <1>6, <1>10, <2>3, <3>1
    <3>3. \A w \in DOMAIN log' : w > Answer => log'[w] \in Queued(u)'
      BY <1>1, <1>7, <2>3
    <3> DEFINE v == Answer
    <3> HIDE DEF v
    <3>4. PICK y \in DOMAIN log : y = Answer
      BY <1>6
    <3>5. SettledAt(u, y)'
      BY <3>2, <3>3, <3>4 DEF SettledAt
    <3> QED
      BY <1>1, <3>5
  <2> QED
    BY <2>1, <2>2, <2>3
<1> QED
  BY <1>11, <1>12, <1>13 DEF LogInv

\* A refused write does not count.
LEMMA LogRefuse == Base /\ LogInv /\ WriteRefused => LogInv'
<1> SUFFICES ASSUME Base, LogInv, WriteRefused PROVE LogInv'
  OBVIOUS
<1> DEFINE o == Oldest.write
<1>1. UNCHANGED <<log, author, user>> /\ refused' = refused \cup {o}
  BY DEF WriteRefused, backend, Oldest
<1>2. PICK c \in Users : c = user
  BY UserFacts
<1>3. /\ Unacked(c) # <<>> /\ Unacked(c)' = Tail(Unacked(c)) /\ Unacked(c)[1] = Oldest
      /\ \A u \in Users : u # c => Unacked(u)' = Unacked(u)
  <2>1. Unacked(c)' = Unacked(user)' /\ Unacked(c) = Unacked(user)
    BY <1>1, <1>2
  <2> QED
    BY <1>2, <2>1, RefuseUnacked
<1>4. o \in Queued(c) /\ Queued(c)' = Queued(c) \ {o}
  <2>1. Unacked(c)[1].write = o
    BY <1>3
  <2> HIDE DEF o
  <2> QED
    BY <1>3, <2>1, QueuedTail
<1>5. author[o] = c
  BY <1>4, QueuedAuthor
<1> HIDE DEF o
<1>6. \A u \in Users : u # c => Queued(u)' = Queued(u)
  BY <1>3 DEF Queued
<1>7. \A u \in Users : Settled(u)' = Settled(u)
  <2>1. TAKE u \in Users
  <2>2. \A n : n \in Newest(u)' <=> n \in Newest(u) /\ n # o
    BY <1>1 DEF Newest
  <2>3. CASE u = c
    BY <1>4, <2>2, <2>3 DEF Settled
  <2>4. CASE u # c
    <3>1. o \notin Newest(u)
      BY <1>5, <2>4 DEF Newest
    <3> QED
      BY <1>6, <2>2, <2>4, <3>1 DEF Settled
  <2> QED
    BY <2>3, <2>4
<1>8. \A u \in Users : /\ \A m \in Queued(u)' : m \in Queued(u)
                       /\ \A m \in Queued(u) : m \in Queued(u)' \/ m \in refused'
  BY <1>1, <1>4, <1>6
<1>9. \A v \in DOMAIN log' : log'[v] \in DOMAIN author'
  BY <1>1 DEF LogInv
<1>10. \A u \in Users : \A n \in Settled(u)', m \in Queued(u)' : n < m
  BY <1>7, <1>8 DEF LogInv
<1>11. ASSUME NEW u \in Users, Settled(u)' # {} PROVE \E v \in DOMAIN log' : SettledAt(u, v)'
  <2>1. PICK v \in DOMAIN log : SettledAt(u, v)
    BY <1>7, <1>11 DEF LogInv
  <2>2. SettledAt(u, v)'
    BY <1>1, <1>7, <1>8, <2>1 DEF SettledAt
  <2> QED
    BY <1>1, <2>1, <2>2
<1> QED
  BY <1>9, <1>10, <1>11 DEF LogInv

\* Nothing is settled at the beginning.
LEMMA InitLog == Init => LogInv
<1> SUFFICES ASSUME Init PROVE LogInv
  OBVIOUS
<1>1. log = <<>> /\ author = <<>> /\ DOMAIN <<>> = {}
  BY DEF Init
<1>2. \A u \in Users : Settled(u) = {}
  BY <1>1 DEF Settled, Newest
<1> QED
  BY <1>1, <1>2 DEF LogInv

\* Every step keeps the third layer.
LEMMA NextLog == Base /\ AppliedInv /\ LogInv /\ [Next]_vars => LogInv'
<1> SUFFICES ASSUME Base, AppliedInv, LogInv, [Next]_vars PROVE LogInv'
  OBVIOUS
<1>1. ASSUME NEW c \in Users, applied[c] < Len(Unacked(c))
      PROVE  Unacked(c)[applied[c] + 1].write \in Queued(c)
  <2> DEFINE a == applied[c]
             l == Len(Unacked(c))
  <2>1. a \in Nat /\ l \in Nat /\ a < l
    BY <1>1, UnackedFacts DEF AppliedInv, Suffix
  <2> HIDE DEF a, l
  <2>2. a + 1 \in 1 .. l
    BY <2>1
  <2> QED
    BY <2>2 DEF Queued, a, l
<1>2. CASE WriteMutations
  BY <1>2, LogWrite
<1>3. CASE ApplyWrite
  <2>1. PICK c \in Users : c = user
    BY UserFacts
  <2>2. /\ applied[c] < Len(Unacked(c))
        /\ Head(remote.requests) = Unacked(c)[applied[c] + 1].write
    BY <1>3, <2>1, ApplyApplied
  <2>3. PICK m \in Queued(c) : m = Head(remote.requests)
    BY <1>1, <2>2
  <2>4. log' = Append(log, m) /\ UNCHANGED <<author, refused, queue, lastAcked>>
    BY <1>3, <2>3 DEF ApplyWrite, local
  <2> QED
    BY <2>4, LogGrows
<1>4. CASE ApplyHalfClosed
  <2>1. PICK c \in Users : /\ applied[c] < Len(Unacked(c))
                           /\ Head(halfClosed) = Unacked(c)[applied[c] + 1].write
    BY <1>4, HalfClosedApplied
  <2>2. PICK m \in Queued(c) : m = Head(halfClosed)
    BY <1>1, <2>1
  <2>3. log' = Append(log, m) /\ UNCHANGED <<author, refused, queue, lastAcked>>
    BY <1>4, <2>2 DEF ApplyHalfClosed, local
  <2> QED
    BY <2>3, LogGrows
<1>5. CASE WriteAcknowledged
  BY <1>5, LogAcknowledge
<1>6. CASE WriteRefused
  BY <1>6, LogRefuse
<1>7. CASE UNCHANGED <<author, refused, log>> /\ \A u \in Users : Unacked(u)' = Unacked(u)
  BY <1>7, LogSame
<1>8. \/ WriteMutations \/ ApplyWrite \/ ApplyHalfClosed \/ WriteAcknowledged \/ WriteRefused
      \/ UNCHANGED <<author, refused, log>>
  BY DEF Next, vars, TokenArrived, BackoffElapsed, IdleTimer, AnswerHandshake, EndStream,
         HandshakeDone, StreamFailed, ConnectionLost, UserDidChange, Restart, Listen, Unlisten,
         ApplyRemoteEvent, backend, history
<1> QED
  BY <1>2, <1>3, <1>4, <1>5, <1>6, <1>7, <1>8, StepUnacked

\* So all three always hold.
LEMMA AlwaysLog == Spec => [](Base /\ AppliedInv /\ LogInv)
BY InitBase, NextBase, InitApplied, NextApplied, InitLog, NextLog, PTL DEF Spec

\* The last write of a user that counts is the newest, once all are decided,
\* no matter how often broken streams, restarts and changes of user made the
\* backend apply older ones again.
THEOREM NewestWinsHolds == Spec => []NewestWins
<1>1. Base /\ LogInv => NewestWins
  <2> SUFFICES ASSUME Base, LogInv, NEW u \in Users, Unacked(u) = <<>>, Newest(u) # {}
               PROVE  \E v \in DOMAIN log :
                        /\ log[v] = Max(Newest(u))
                        /\ \A w \in DOMAIN log : w > v =>
                             log[w] \in refused \/ author[log[w]] # u
    BY DEF NewestWins
  <2>1. Queued(u) = {}
    <3>1. Len(<<>>) = 0 /\ 1 .. 0 = {}
      OBVIOUS
    <3> QED
      BY <3>1 DEF Queued
  <2>2. Settled(u) = Newest(u)
    BY <2>1 DEF Settled
  <2>3. PICK v \in DOMAIN log : SettledAt(u, v)
    BY <2>2 DEF LogInv
  <2>4. Newest(u) \in SUBSET Int /\ log[v] \in Int
    BY AuthorFacts DEF Newest
  <2>5. log[v] \in Newest(u) /\ \A n \in Newest(u) : n <= log[v]
    BY <2>2, <2>3 DEF SettledAt
  <2>6. Max(Newest(u)) \in Newest(u) /\ \A n \in Newest(u) : n <= Max(Newest(u))
    <3> DEFINE S == Newest(u)
               y == log[v]
    <3>1. S \in SUBSET Int /\ S # {} /\ y \in Int /\ \A x \in S : x <= y
      BY <2>4, <2>5
    <3> HIDE DEF S, y
    <3>2. Max(S) \in S /\ \A n \in S : n <= Max(S)
      BY <3>1, MaxFacts
    <3> QED
      BY <3>2 DEF S
  <2>7. log[v] = Max(Newest(u))
    <3> DEFINE a == Max(Newest(u))
               b == log[v]
    <3>1. a \in Int /\ b \in Int /\ a <= b /\ b <= a
      BY <2>4, <2>5, <2>6
    <3> HIDE DEF a, b
    <3>2. a = b
      BY <3>1
    <3> QED
      BY <3>2 DEF a, b
  <2>8. \A w \in DOMAIN log : w > v => log[w] \in refused \/ author[log[w]] # u
    BY <2>1, <2>3 DEF SettledAt
  <2> QED
    BY <2>7, <2>8
<1> QED
  BY <1>1, AlwaysLog, PTL

-----------------------------------------------------------------------------
(* What the device shows *)

\* The writes of some batches.
Writes(batches) == {batches[k].write : k \in DOMAIN batches}

\* The writes of this session that are off the queue.
Done == mine \ Writes(queue[user])

\* Writes of this session are newer than what was queued before it; they leave
\* the queue in their order.
MineInOrder ==
    /\ mine \subseteq DOMAIN author
    /\ \A k \in DOMAIN queue[user] : queue[user][k].write \notin mine =>
         \A n \in mine : queue[user][k].write < n
    /\ \A k \in DOMAIN queue[user] : \A n \in Done : n < queue[user][k].write

\* Version v has the write of batch k; what follows was refused, or comes from
\* that batch or the ones behind it.
LaidDown(k, v) ==
    /\ log[v] = queue[user][k].write
    /\ \A w \in DOMAIN log : w > v =>
         \/ log[w] \in refused
         \/ \E j \in DOMAIN queue[user] : j >= k /\ log[w] = queue[user][j].write

\* A copy of the document is its version or a later one.
CopyOk(doc) == doc.version = 0 \/ \E o \in DOMAIN log : o >= doc.version /\ doc.write = log[o]

\* Version p has the newest write that is off the queue; the cache has it or a
\* later one, and will not get an earlier one from the watch stream.
ShownAt(p) ==
    /\ log[p] \in Done /\ \A n \in Done : n <= log[p]
    /\ \A w \in DOMAIN log : w > p =>
         log[w] \in refused \/ log[w] \in Writes(queue[user]) \/ log[w] = log[p]
    /\ listening => floor >= p \/ remoteVersion >= p
    /\ \E w \in DOMAIN log : w >= p /\ cache.write = log[w]

\* The fourth layer: what is off the queue is in the cache.
ViewInv ==
    /\ MineInOrder
    /\ \A k \in DOMAIN held : held[k].version \in DOMAIN log /\ LaidDown(k, held[k].version)
    /\ halfClosed # <<>> => held = <<>> /\ Done = {}
    /\ CopyOk(cache)
    /\ Done # {} => \E p \in DOMAIN log : ShownAt(p)

\* Steps of the stream that apply and answer nothing.
LEMMA ViewSame ==
  ASSUME ViewInv, UNCHANGED <<queue, user, mine, author, log, refused, held, halfClosed,
                              cache, listening, floor, remoteVersion>>
  PROVE  ViewInv'
<1>1. Done' = Done
  BY DEF Done, Writes
<1>2. MineInOrder'
  BY <1>1 DEF ViewInv, MineInOrder
<1>3. \A k \in DOMAIN held' : held'[k].version \in DOMAIN log' /\ LaidDown(k, held[k].version)'
  BY DEF ViewInv, LaidDown
<1>4. CopyOk(cache)'
  BY DEF ViewInv, CopyOk
<1>5. ASSUME NEW p \in DOMAIN log, ShownAt(p) PROVE ShownAt(p)'
  BY <1>1, <1>5 DEF ShownAt, Writes
<1>6. Done' # {} => \E p \in DOMAIN log' : ShownAt(p)'
  BY <1>1, <1>5 DEF ViewInv
<1> QED
  BY <1>1, <1>2, <1>3, <1>4, <1>6 DEF ViewInv

\* The backend applies a write that is behind what is held.
LEMMA ViewGrows ==
  ASSUME Base, ViewInv, NEW j \in DOMAIN queue[user], \A k \in DOMAIN held : j >= k,
         log' = Append(log, queue[user][j].write),
         UNCHANGED <<queue, user, mine, author, refused, held, halfClosed,
                     cache, listening, floor, remoteVersion>>
  PROVE  ViewInv'
<1> DEFINE m == queue[user][j].write
<1>1. Done' = Done
  BY DEF Done, Writes
<1>2. MineInOrder'
  BY <1>1 DEF ViewInv, MineInOrder
<1>3. log \in Seq(Nat) /\ m \in Nat
  <2>1. queue[user] \in Seq(Batch)
    BY UserFacts
  <2> QED
    BY <2>1, AuthorFacts, BatchFacts
<1>4. log' = Append(log, m)
  OBVIOUS
<1> HIDE DEF m
<1>5. /\ Len(log) \in Nat /\ DOMAIN log = 1 .. Len(log) /\ DOMAIN log' = 1 .. Len(log) + 1
      /\ log'[Len(log) + 1] = m /\ \A k \in DOMAIN log : log'[k] = log[k]
  BY <1>3, <1>4, AppendAt
<1>6. /\ \A k \in DOMAIN log' : k \in DOMAIN log \/ k = Len(log) + 1
      /\ \A k \in DOMAIN log : k \in DOMAIN log'
  BY <1>5
<1>7. \A w \in DOMAIN log' : (w \in DOMAIN log /\ log'[w] = log[w]) \/ log'[w] = m
  BY <1>5, <1>6
<1>8. ASSUME NEW k \in DOMAIN held
      PROVE  held[k].version \in DOMAIN log' /\ LaidDown(k, held[k].version)'
  <2> DEFINE v == held[k].version
  <2>1. v \in DOMAIN log /\ LaidDown(k, v)
    BY DEF ViewInv
  <2> HIDE DEF v
  <2>2. log'[v] = queue[user][k].write
    BY <1>5, <2>1 DEF LaidDown
  <2>3. \A w \in DOMAIN log' : w > v =>
          \/ log'[w] \in refused
          \/ \E i \in DOMAIN queue[user] : i >= k /\ log'[w] = queue[user][i].write
    BY <1>7, <2>1 DEF LaidDown, m
  <2>4. LaidDown(k, v)'
    <3>1. v' = v
      BY DEF v
    <3> QED
      BY <2>2, <2>3, <3>1 DEF LaidDown
  <2> QED
    BY <1>6, <2>1, <2>4 DEF v
<1>9. CopyOk(cache)'
  BY <1>5, <1>6 DEF ViewInv, CopyOk
<1>10. m \in Writes(queue[user])
  BY DEF Writes, m
<1>11. ASSUME NEW p \in DOMAIN log, ShownAt(p) PROVE ShownAt(p)'
  <2>1. log'[p] = log[p] /\ Writes(queue[user])' = Writes(queue[user])
    BY <1>5 DEF Writes
  <2>2. \A w \in DOMAIN log' : w > p =>
          log'[w] \in refused \/ log'[w] \in Writes(queue[user]) \/ log'[w] = log[p]
    BY <1>7, <1>10, <1>11 DEF ShownAt
  <2>3. \E w \in DOMAIN log' : w >= p /\ cache.write = log'[w]
    BY <1>5, <1>6, <1>11 DEF ShownAt
  <2> QED
    BY <1>1, <1>11, <2>1, <2>2, <2>3 DEF ShownAt
<1>12. Done' # {} => \E p \in DOMAIN log' : ShownAt(p)'
  BY <1>1, <1>6, <1>11 DEF ViewInv
<1>13. \A k \in DOMAIN held' : held'[k].version \in DOMAIN log' /\ LaidDown(k, held[k].version)'
  BY <1>8
<1> QED
  BY <1>1, <1>2, <1>9, <1>12, <1>13 DEF ViewInv

\* ... on the stream at work: the request is the next unacknowledged write.
LEMMA ViewApply == Base /\ AppliedInv /\ ViewInv /\ ApplyWrite => ViewInv'
<1> SUFFICES ASSUME Base, AppliedInv, ViewInv, ApplyWrite PROVE ViewInv'
  OBVIOUS
<1> DEFINE a == applied[user]
           x == Unacked(user)
           h == Len(held)
<1>1. a < Len(x) /\ Head(remote.requests) = x[a + 1].write
  BY ApplyApplied
<1>2. Suffix(queue[user], x, h)
  BY UnackedFacts
<1>3. a \in Nat /\ h \in Nat /\ DOMAIN held = 1 .. h
  BY UserFacts DEF AppliedInv
<1>4. /\ Len(x) \in Nat
      /\ \A k \in 1 .. Len(x) : x[k] = queue[user][h + k] /\ h + k \in DOMAIN queue[user]
  BY <1>2 DEF Suffix
<1>5. a + 1 \in 1 .. Len(x) /\ \A k \in DOMAIN held : h + (a + 1) >= k
  <2> DEFINE l == Len(x)
  <2>1. l \in Nat /\ a \in Nat /\ h \in Nat /\ a < l
    BY <1>1, <1>3, <1>4
  <2> HIDE DEF l, a, h
  <2>2. a + 1 \in 1 .. l /\ \A k \in 1 .. h : h + (a + 1) >= k
    BY <2>1
  <2> QED
    BY <1>3, <2>2 DEF l
<1> HIDE DEF a, x, h
<1>6. PICK j \in DOMAIN queue[user] : j = h + (a + 1)
  BY <1>4, <1>5
<1>7. /\ log' = Append(log, queue[user][j].write)
      /\ UNCHANGED <<queue, user, mine, author, refused, held, halfClosed,
                     cache, listening, floor, remoteVersion>>
  <2>1. Head(remote.requests) = queue[user][j].write
    BY <1>1, <1>4, <1>5, <1>6
  <2> QED
    BY <2>1 DEF ApplyWrite, local, watch
<1>8. \A k \in DOMAIN held : j >= k
  BY <1>5, <1>6
<1> QED
  BY <1>7, <1>8, ViewGrows

\* ... on a stream that was left: then nothing of this session is decided.
LEMMA ViewHalfClosed == Base /\ ViewInv /\ ApplyHalfClosed => ViewInv'
<1> SUFFICES ASSUME Base, ViewInv, ApplyHalfClosed PROVE ViewInv'
  OBVIOUS
<1> DEFINE m == Head(halfClosed)
<1>1. /\ halfClosed # <<>> /\ log' = Append(log, m)
      /\ UNCHANGED <<queue, user, mine, author, held, cache>>
  BY DEF ApplyHalfClosed, local
<1>2. held = <<>> /\ Done = {}
  BY <1>1 DEF ViewInv
<1>3. Done' = {}
  BY <1>1, <1>2 DEF Done, Writes
<1>4. MineInOrder'
  BY <1>1, <1>2, <1>3 DEF ViewInv, MineInOrder
<1>5. DOMAIN held' = {}
  BY <1>1, <1>2
<1>6. log \in Seq(Nat) /\ m \in Nat
  <2>1. halfClosed \in Seq(Nat) /\ halfClosed # <<>>
    BY <1>1 DEF Base, Typed
  <2>2. m \in Nat
    BY <2>1, TailAt
  <2> QED
    BY <2>2, AuthorFacts
<1> HIDE DEF m
<1>7. \A k \in DOMAIN log : k \in DOMAIN log' /\ log'[k] = log[k]
  <2>1. /\ DOMAIN log = 1 .. Len(log) /\ DOMAIN log' = 1 .. Len(log) + 1 /\ Len(log) \in Nat
        /\ \A k \in DOMAIN log : log'[k] = log[k]
    BY <1>1, <1>6, AppendAt
  <2> QED
    BY <2>1
<1>8. CopyOk(cache)'
  BY <1>1, <1>7 DEF ViewInv, CopyOk
<1>9. held' = <<>>
  BY <1>1, <1>2
<1> QED
  BY <1>3, <1>4, <1>5, <1>8, <1>9 DEF ViewInv

\* A new write is newer than all others.
LEMMA ViewWrite == Base /\ ViewInv /\ WriteMutations => ViewInv'
<1> SUFFICES ASSUME Base, ViewInv, WriteMutations PROVE ViewInv'
  OBVIOUS
<1> DEFINE q == queue[user]
           n == Len(author) + 1
           b == [id |-> nextBatchID, write |-> n]
           t == Append(q, b)
           w == Writes(q)
<1>1. /\ queue' = [queue EXCEPT ![user] = t] /\ author' = Append(author, user)
      /\ mine' = mine \cup {n}
      /\ UNCHANGED <<user, log, refused, held, halfClosed, cache, listening, floor, remoteVersion>>
  BY DEF WriteMutations, watch, backend
<1>2. q \in Seq(Batch) /\ user \in Users /\ nextBatchID \in Nat
  BY UserFacts
<1>3. queue'[user] = t
  BY <1>1, <1>2 DEF Base, Typed
<1>4. /\ author \in Seq(Users) /\ Len(author) \in Nat /\ DOMAIN author = 1 .. Len(author)
      /\ n \in Nat /\ n \notin DOMAIN author /\ \A k \in DOMAIN author : k < n
  BY AuthorFacts
<1>5. /\ DOMAIN author' = 1 .. n /\ n \in DOMAIN author'
      /\ \A k \in DOMAIN author : k \in DOMAIN author'
  <2>1. DOMAIN author' = 1 .. Len(author) + 1
    BY <1>1, <1>2, <1>4, AppendAt
  <2> QED
    BY <1>4, <2>1
<1>6. b \in Batch /\ b.write = n
  BY <1>2, <1>4 DEF Batch
<1> HIDE DEF n, b
<1>7. /\ Len(q) \in Nat /\ DOMAIN q = 1 .. Len(q) /\ DOMAIN t = 1 .. Len(q) + 1
      /\ t[Len(q) + 1] = b /\ \A k \in DOMAIN q : t[k] = q[k]
  BY <1>2, <1>6, AppendAt
<1> HIDE DEF q, t
<1>8. /\ \A k \in DOMAIN t : (k \in DOMAIN q /\ t[k] = q[k]) \/ t[k] = b
      /\ \A k \in DOMAIN q : k \in DOMAIN t
      /\ Len(q) + 1 \in DOMAIN t
  BY <1>7
<1>9. \A k \in DOMAIN q : q[k].write \in DOMAIN author
  BY DEF q, Base, QueueInv, QueueOk, Typed
<1>10. /\ \A m : m \in Writes(t) <=> (m \in w \/ m = n)
       /\ w \subseteq DOMAIN author
  <2>1. \A m \in Writes(t) : m \in w \/ m = n
    BY <1>6, <1>8 DEF Writes
  <2>2. \A m \in w : m \in Writes(t)
    BY <1>7, <1>8 DEF Writes
  <2>3. n \in Writes(t)
    BY <1>6, <1>7, <1>8 DEF Writes
  <2>4. \A m \in w : m \in DOMAIN author
    BY <1>9 DEF Writes
  <2> QED
    BY <2>1, <2>2, <2>3, <2>4
<1>11. Done = mine \ w /\ Done' = mine' \ Writes(t)
  <2>1. Done' = mine' \ Writes(queue'[user'])
    BY DEF Done, Writes
  <2> QED
    BY <1>1, <1>3, <2>1 DEF Done, q
<1> HIDE DEF w
<1>12. mine \subseteq DOMAIN author
  BY DEF ViewInv, MineInOrder
<1>13. Done' = Done
  BY <1>1, <1>4, <1>10, <1>11, <1>12
<1>14. MineInOrder'
  <2>1. mine' \subseteq DOMAIN author'
    BY <1>1, <1>5, <1>12
  <2>2. ASSUME NEW k \in DOMAIN t, t[k].write \notin mine' PROVE \A m \in mine' : t[k].write < m
    <3>1. t[k] # b
      BY <1>1, <1>6, <2>2
    <3>2. k \in DOMAIN q /\ t[k] = q[k] /\ q[k].write \notin mine
      BY <1>1, <1>8, <2>2, <3>1
    <3>3. \A m \in mine : q[k].write < m
      BY <3>2 DEF ViewInv, MineInOrder, q
    <3>4. q[k].write < n
      BY <1>4, <1>9, <3>2
    <3> QED
      BY <1>1, <3>2, <3>3, <3>4
  <2>3. ASSUME NEW k \in DOMAIN t, NEW m \in Done PROVE m < t[k].write
    <3>1. CASE t[k] = b
      <4>1. m \in DOMAIN author
        BY <1>11, <1>12
      <4> QED
        BY <1>4, <1>6, <3>1, <4>1
    <3>2. CASE k \in DOMAIN q /\ t[k] = q[k]
      BY <3>2 DEF ViewInv, MineInOrder, q
    <3> QED
      BY <1>8, <3>1, <3>2
  <2> QED
    BY <1>1, <1>3, <1>13, <2>1, <2>2, <2>3 DEF MineInOrder
<1>15. ASSUME NEW k \in DOMAIN held
       PROVE  held[k].version \in DOMAIN log /\ LaidDown(k, held[k].version)'
  <2> DEFINE v == held[k].version
  <2>1. v \in DOMAIN log /\ LaidDown(k, v)
    BY DEF ViewInv
  <2>2. k \in DOMAIN q
    <3>1. held[k].batch = q[k] /\ k \in 1 .. Len(held) /\ Len(held) <= Len(q) /\ Len(held) \in Nat
      BY UserFacts DEF SplitAt, q
    <3> QED
      BY <1>7, <3>1
  <2>3. v' = v
    BY <1>1
  <2> HIDE DEF v
  <2>4. log[v] = t[k].write
    BY <1>7, <2>1, <2>2 DEF LaidDown, q
  <2>5. \A x \in DOMAIN log : x > v =>
          \/ log[x] \in refused
          \/ \E j \in DOMAIN t : j >= k /\ log[x] = t[j].write
    <3>1. TAKE x \in DOMAIN log
    <3>2. SUFFICES ASSUME x > v, log[x] \notin refused
                   PROVE  \E j \in DOMAIN t : j >= k /\ log[x] = t[j].write
      OBVIOUS
    <3>3. PICK j \in DOMAIN q : j >= k /\ log[x] = q[j].write
      BY <2>1, <3>2 DEF LaidDown, q
    <3> QED
      BY <1>7, <1>8, <3>3
  <2>6. LaidDown(k, v)'
    BY <1>1, <1>3, <2>3, <2>4, <2>5 DEF LaidDown
  <2> QED
    BY <2>1, <2>6 DEF v
<1>16. CopyOk(cache)'
  BY <1>1 DEF ViewInv, CopyOk
<1>17. ASSUME NEW p \in DOMAIN log, ShownAt(p) PROVE ShownAt(p)'
  <2>1. \A m \in Writes(queue[user]) : m \in Writes(queue[user])'
    <3>1. Writes(queue[user])' = Writes(t)
      BY <1>1, <1>3 DEF Writes
    <3>2. Writes(queue[user]) = w
      BY DEF w, q
    <3> QED
      BY <1>10, <3>1, <3>2
  <2> QED
    BY <1>1, <1>13, <1>17, <2>1 DEF ShownAt
<1>18. Done' # {} => \E p \in DOMAIN log' : ShownAt(p)'
  BY <1>1, <1>13, <1>17 DEF ViewInv
<1>19. \A k \in DOMAIN held' : held'[k].version \in DOMAIN log' /\ LaidDown(k, held[k].version)'
  BY <1>1, <1>15
<1>20. halfClosed' # <<>> => held' = <<>> /\ Done' = {}
  BY <1>1, <1>13 DEF ViewInv
<1> QED
  BY <1>14, <1>16, <1>18, <1>19, <1>20 DEF ViewInv

\* A watch target starts from the current version.
LEMMA ViewListen == Base /\ ViewInv /\ Listen => ViewInv'
<1> SUFFICES ASSUME Base, ViewInv, Listen PROVE ViewInv'
  OBVIOUS
<1>1. /\ floor' = Len(log)
      /\ UNCHANGED <<queue, user, mine, author, log, refused, held, halfClosed,
                     cache, remoteVersion>>
  BY DEF Listen, local, backend, history
<1>2. Done' = Done
  BY <1>1 DEF Done, Writes
<1>3. MineInOrder'
  BY <1>1, <1>2 DEF ViewInv, MineInOrder
<1>4. \A k \in DOMAIN held' : held'[k].version \in DOMAIN log' /\ LaidDown(k, held[k].version)'
  BY <1>1 DEF ViewInv, LaidDown
<1>5. CopyOk(cache)'
  BY <1>1 DEF ViewInv, CopyOk
<1>6. ASSUME NEW p \in DOMAIN log, ShownAt(p) PROVE ShownAt(p)'
  <2>1. floor' >= p
    <3>1. Len(log) \in Nat /\ DOMAIN log = 1 .. Len(log)
      BY AuthorFacts
    <3> QED
      BY <1>1, <3>1
  <2> QED
    BY <1>1, <1>2, <1>6, <2>1 DEF ShownAt, Writes
<1>7. Done' # {} => \E p \in DOMAIN log' : ShownAt(p)'
  BY <1>1, <1>2, <1>6 DEF ViewInv
<1> QED
  BY <1>1, <1>2, <1>3, <1>4, <1>5, <1>7 DEF ViewInv

\* A session begins with nothing decided.
LEMMA ViewStart ==
  ASSUME Base, ViewInv, NEW u \in Users, StartMutationQueue(u),
         UNCHANGED <<cache, log, author>>
  PROVE  ViewInv'
<1>1. mine' = {} /\ held' = <<>>
  BY DEF StartMutationQueue
<1>2. Done' = {}
  BY <1>1 DEF Done
<1>3. MineInOrder'
  BY <1>1, <1>2 DEF MineInOrder
<1>4. DOMAIN held' = {}
  BY <1>1
<1>5. CopyOk(cache)'
  BY DEF ViewInv, CopyOk
<1> QED
  BY <1>1, <1>2, <1>3, <1>4, <1>5 DEF ViewInv

\* A refused write does not count any more.
LEMMA ViewRefuse == Base /\ ViewInv /\ WriteRefused => ViewInv'
<1> SUFFICES ASSUME Base, ViewInv, WriteRefused PROVE ViewInv'
  OBVIOUS
<1> DEFINE q == queue[user]
           h == Len(held)
           o == Oldest.write
           t == queue'[user]
<1>1. /\ Oldest = q[h + 1] /\ h + 1 <= Len(q) /\ t \in Seq(Batch) /\ Cut(q, t, h, 1)
  BY Refused
<1>2. /\ refused' = refused \cup {o} /\ mine' = mine \ {o}
      /\ UNCHANGED <<user, author, log, held, halfClosed, cache, listening, floor, remoteVersion>>
  BY DEF WriteRefused, watch, backend, Oldest
<1>3. /\ q \in Seq(Batch) /\ Ascending(q) /\ h \in Nat /\ DOMAIN held = 1 .. h
  BY UserFacts
<1>4. queue'[user'] = t
  BY <1>2
<1> HIDE DEF q, h, o, t
<1>5. /\ Len(q) \in Nat /\ DOMAIN q = 1 .. Len(q) /\ Len(t) \in Nat /\ DOMAIN t = 1 .. Len(t)
      /\ Len(t) = Len(q) - 1
      /\ \A k \in DOMAIN t : k <= h => k \in DOMAIN q /\ t[k] = q[k]
      /\ \A k \in DOMAIN t : k > h => k + 1 \in DOMAIN q /\ t[k] = q[k + 1]
  <2>1. 1 \in Nat
    OBVIOUS
  <2> QED
    BY <1>1, <1>3, <2>1, CutAt
<1>6. /\ h + 1 \in 1 .. Len(q)
      /\ \A k \in 1 .. h : k \in 1 .. Len(t) /\ k <= h
      /\ \A j \in 1 .. Len(q) : \/ j \in 1 .. Len(t) /\ j <= h
                                \/ j = h + 1
                                \/ j > h + 1 /\ j - 1 \in 1 .. Len(t) /\ j - 1 > h /\ j - 1 + 1 = j
  <2> DEFINE l == Len(q)
             m == Len(t)
  <2>1. l \in Nat /\ m \in Nat /\ h \in Nat /\ m = l - 1 /\ h + 1 <= l
    BY <1>1, <1>3, <1>5
  <2> HIDE DEF l, m
  <2>2. /\ h + 1 \in 1 .. l
        /\ \A k \in 1 .. h : k \in 1 .. m /\ k <= h
        /\ \A j \in 1 .. l : \/ j \in 1 .. m /\ j <= h
                             \/ j = h + 1
                             \/ j > h + 1 /\ j - 1 \in 1 .. m /\ j - 1 > h /\ j - 1 + 1 = j
    BY <2>1
  <2> QED
    BY <2>2 DEF l, m
<1>7. o = q[h + 1].write
  BY <1>1 DEF o
<1>8. \A k \in DOMAIN t : t[k].write # o /\ \E j \in DOMAIN q : t[k] = q[j]
  <2>1. TAKE k \in DOMAIN t
  <2>2. PICK j \in DOMAIN q : t[k] = q[j] /\ (j < h + 1 \/ h + 1 < j)
    <3>1. CASE k <= h
      <4>1. k \in DOMAIN q /\ t[k] = q[k] /\ k < h + 1
        BY <1>3, <1>5, <3>1
      <4> QED
        BY <4>1
    <3>2. CASE ~(k <= h)
      <4>1. k > h /\ h + 1 < k + 1
        BY <1>3, <1>5, <3>2
      <4>2. k + 1 \in DOMAIN q /\ t[k] = q[k + 1]
        BY <1>5, <4>1
      <4> QED
        BY <4>1, <4>2
    <3> QED
      BY <3>1, <3>2
  <2>3. q[j].write \in Nat /\ o \in Nat
    BY <1>3, <1>5, <1>6, <1>7, BatchFacts
  <2>4. q[j].write < o \/ o < q[j].write
    BY <1>3, <1>5, <1>6, <1>7, <2>2 DEF Ascending
  <2>5. q[j].write # o
    BY <2>3, <2>4
  <2> QED
    BY <2>2, <2>5
<1>9. \A k \in 1 .. h : \A j \in DOMAIN q : j >= k =>
        j = h + 1 \/ \E i \in DOMAIN t : i >= k /\ t[i] = q[j]
  <2>1. TAKE k \in 1 .. h
  <2>2. TAKE j \in DOMAIN q
  <2>3. SUFFICES ASSUME j >= k, j # h + 1 PROVE \E i \in DOMAIN t : i >= k /\ t[i] = q[j]
    OBVIOUS
  <2>4. CASE j \in DOMAIN t /\ j <= h
    BY <1>5, <2>3, <2>4
  <2>5. CASE j - 1 \in DOMAIN t /\ j - 1 > h /\ j - 1 + 1 = j
    <3>1. t[j - 1] = q[j]
      BY <1>5, <2>5
    <3>2. j - 1 >= k
      BY <1>3, <1>5, <2>5
    <3> QED
      BY <2>5, <3>1, <3>2
  <2> QED
    BY <1>5, <1>6, <2>3, <2>4, <2>5
<1>10. \A j \in DOMAIN q : j = h + 1 \/ \E i \in DOMAIN t : t[i] = q[j]
  <2>1. TAKE j \in DOMAIN q
  <2>2. CASE j \in DOMAIN t /\ j <= h
    BY <1>5, <2>2
  <2>3. CASE j - 1 \in DOMAIN t /\ j - 1 > h /\ j - 1 + 1 = j
    <3>1. t[j - 1] = q[j]
      BY <1>5, <2>3
    <3> QED
      BY <2>3, <3>1
  <2> QED
    BY <1>5, <1>6, <2>2, <2>3
<1>11. /\ \A m : m \in Writes(t) <=> m \in Writes(q) /\ m # o
       /\ o \in Writes(q)
  <2>1. \A m \in Writes(t) : m \in Writes(q) /\ m # o
    BY <1>8 DEF Writes
  <2>2. \A m \in Writes(q) : m # o => m \in Writes(t)
    BY <1>7, <1>10 DEF Writes
  <2>3. o \in Writes(q)
    BY <1>5, <1>6, <1>7 DEF Writes
  <2> QED
    BY <2>1, <2>2, <2>3
<1>12. Done = mine \ Writes(q) /\ Done' = mine' \ Writes(t)
  <2>1. Done' = mine' \ Writes(queue'[user'])
    BY DEF Done, Writes
  <2> QED
    BY <1>4, <2>1 DEF Done, q
<1>13. Done' = Done
  BY <1>2, <1>11, <1>12
<1>14. MineInOrder'
  <2>1. mine' \subseteq DOMAIN author'
    BY <1>2 DEF ViewInv, MineInOrder
  <2>2. ASSUME NEW k \in DOMAIN t, t[k].write \notin mine' PROVE \A m \in mine' : t[k].write < m
    <3>1. PICK j \in DOMAIN q : t[k] = q[j] /\ q[j].write # o
      BY <1>8
    <3>2. q[j].write \notin mine
      BY <1>2, <2>2, <3>1
    <3> QED
      BY <1>2, <3>1, <3>2 DEF ViewInv, MineInOrder, q
  <2>3. ASSUME NEW k \in DOMAIN t, NEW m \in Done PROVE m < t[k].write
    BY <1>8 DEF ViewInv, MineInOrder, q
  <2> QED
    BY <1>4, <1>13, <2>1, <2>2, <2>3 DEF MineInOrder
<1>15. ASSUME NEW k \in DOMAIN held
       PROVE  held[k].version \in DOMAIN log /\ LaidDown(k, held[k].version)'
  <2> DEFINE v == held[k].version
  <2>1. v \in DOMAIN log /\ LaidDown(k, v)
    BY DEF ViewInv
  <2>2. k \in 1 .. h /\ k \in DOMAIN t /\ k <= h
    BY <1>3, <1>5, <1>6
  <2>3. v' = v
    BY <1>2
  <2> HIDE DEF v
  <2>4. log[v] = t[k].write
    BY <1>5, <2>1, <2>2 DEF LaidDown, q
  <2>5. \A x \in DOMAIN log : x > v =>
          \/ log[x] \in refused'
          \/ \E j \in DOMAIN t : j >= k /\ log[x] = t[j].write
    <3>1. TAKE x \in DOMAIN log
    <3>2. SUFFICES ASSUME x > v, log[x] \notin refused'
                   PROVE  \E j \in DOMAIN t : j >= k /\ log[x] = t[j].write
      OBVIOUS
    <3>3. PICK j \in DOMAIN q : j >= k /\ log[x] = q[j].write
      BY <1>2, <2>1, <3>2 DEF LaidDown, q
    <3>4. j # h + 1
      BY <1>2, <1>7, <3>2, <3>3
    <3> QED
      BY <1>9, <2>2, <3>3, <3>4
  <2>6. LaidDown(k, v)'
    BY <1>2, <1>4, <2>3, <2>4, <2>5 DEF LaidDown
  <2> QED
    BY <2>1, <2>6 DEF v
<1>16. CopyOk(cache)'
  BY <1>2 DEF ViewInv, CopyOk
<1>17. ASSUME NEW p \in DOMAIN log, ShownAt(p) PROVE ShownAt(p)'
  <2>1. \A m \in Writes(queue[user]) : m \in Writes(queue[user])' \/ m \in refused'
    <3>1. Writes(queue[user])' = Writes(t)
      BY <1>4 DEF Writes
    <3> QED
      BY <1>2, <1>11, <3>1 DEF q
  <2> QED
    BY <1>2, <1>13, <1>17, <2>1 DEF ShownAt
<1>18. Done' # {} => \E p \in DOMAIN log' : ShownAt(p)'
  BY <1>2, <1>13, <1>17 DEF ViewInv
<1>19. \A k \in DOMAIN held' : held'[k].version \in DOMAIN log' /\ LaidDown(k, held[k].version)'
  BY <1>2, <1>15
<1>20. halfClosed' # <<>> => held' = <<>> /\ Done' = {}
  BY <1>2, <1>13 DEF ViewInv
<1> QED
  BY <1>14, <1>16, <1>18, <1>19, <1>20 DEF ViewInv

\* The first n batches leave the queue, the last of them with version v.
LEMMA Leaves ==
  ASSUME Base, ViewInv, NEW n \in Nat, n >= 1, n <= Len(queue[user]), queue'[user] \in Seq(Batch),
         Cut(queue[user], queue'[user], 0, n), UNCHANGED <<user, mine, log, refused, author>>,
         NEW v \in DOMAIN log, LaidDown(n, v)
  PROVE  /\ MineInOrder'
         /\ Done' # {} => log[v] \in Done' /\ \A m \in Done' : m <= log[v]
         /\ \A w \in DOMAIN log : w > v =>
              log[w] \in refused \/ log[w] \in Writes(queue'[user]) \/ log[w] = log[v]
         /\ \A k, y \in Nat : k >= 1 /\ LaidDown(n + k, y) /\ n + k <= Len(queue[user])
                                => LaidDown(k, y)'
<1> DEFINE q == queue[user]
           t == queue'[user]
           o == log[v]
<1>1. /\ q \in Seq(Batch) /\ Ascending(q) /\ t \in Seq(Batch) /\ Cut(q, t, 0, n)
      /\ n <= Len(q) /\ queue'[user'] = t
  BY UserFacts
<1>2. o = q[n].write
  BY DEF LaidDown
<1> HIDE DEF q, t
<1>3. /\ Len(q) \in Nat /\ DOMAIN q = 1 .. Len(q) /\ Len(t) \in Nat /\ DOMAIN t = 1 .. Len(t)
      /\ Len(t) = Len(q) - n
      /\ \A k \in DOMAIN t : k > 0 => k + n \in DOMAIN q /\ t[k] = q[k + n]
  <2>1. 0 \in Nat /\ 0 + n <= Len(q)
    BY <1>1
  <2> QED
    BY <1>1, <2>1, CutAt
<1>4. /\ n \in 1 .. Len(q)
      /\ \A k \in 1 .. Len(t) : k > 0 /\ n < k + n /\ n + k = k + n /\ k + n \in 1 .. Len(q)
      /\ \A j \in 1 .. Len(q) : \/ j < n \/ j = n
                                \/ j > n /\ j - n \in 1 .. Len(t) /\ j - n + n = j
      /\ \A k \in 1 .. Len(t) : \A j \in 1 .. Len(q) : j <= n => j < k + n
      /\ \A k \in Nat : \A j \in 1 .. Len(q) : k >= 1 /\ j >= n + k =>
           j - n \in 1 .. Len(t) /\ j - n + n = j /\ j - n >= k
      /\ \A k \in Nat : k >= 1 /\ n + k <= Len(q) => k \in 1 .. Len(t)
  <2> DEFINE l == Len(q)
             m == Len(t)
  <2>1. l \in Nat /\ m \in Nat /\ m = l - n /\ n <= l /\ n >= 1
    BY <1>1, <1>3
  <2> HIDE DEF l, m
  <2>2. /\ n \in 1 .. l
        /\ \A k \in 1 .. m : k > 0 /\ n < k + n /\ n + k = k + n /\ k + n \in 1 .. l
        /\ \A j \in 1 .. l : \/ j < n \/ j = n
                             \/ j > n /\ j - n \in 1 .. m /\ j - n + n = j
        /\ \A k \in 1 .. m : \A j \in 1 .. l : j <= n => j < k + n
        /\ \A k \in Nat : \A j \in 1 .. l : k >= 1 /\ j >= n + k =>
             j - n \in 1 .. m /\ j - n + n = j /\ j - n >= k
        /\ \A k \in Nat : k >= 1 /\ n + k <= l => k \in 1 .. m
    BY <2>1
  <2> QED
    BY <2>2 DEF l, m
<1>5. \A k \in 1 .. Len(t) : k + n \in DOMAIN q /\ t[k] = q[k + n]
  BY <1>3, <1>4
<1>6. \A i, j \in DOMAIN q : i < j => q[i].write < q[j].write
  BY <1>1 DEF Ascending
<1>7. \A j \in DOMAIN q : q[j].write \in Nat
  BY <1>1, BatchFacts
<1> HIDE DEF o
<1>8. \A k \in 1 .. Len(t) : o < t[k].write
  BY <1>2, <1>3, <1>4, <1>5, <1>6
<1>9. o \in Nat /\ o \notin Writes(t)
  <2>1. o \in Nat
    BY <1>2, <1>3, <1>4, <1>7
  <2>2. ASSUME o \in Writes(t) PROVE FALSE
    <3>1. PICK k \in 1 .. Len(t) : o = t[k].write
      BY <1>3, <2>2 DEF Writes
    <3> QED
      BY <1>8, <2>1, <3>1
  <2> QED
    BY <2>1, <2>2
<1>10. Done = mine \ Writes(q) /\ Done' = mine \ Writes(t)
  <2>1. Done' = mine' \ Writes(queue'[user'])
    BY DEF Done, Writes
  <2> QED
    BY <1>1, <2>1 DEF Done, q
<1>11. \A j \in DOMAIN q : j > n => q[j].write \in Writes(t)
  <2>1. TAKE j \in DOMAIN q
  <2>2. SUFFICES ASSUME j > n PROVE q[j].write \in Writes(t)
    OBVIOUS
  <2>3. j - n \in 1 .. Len(t) /\ j - n + n = j
    <3>1. ~(j < n) /\ j # n
      BY <1>3, <2>2
    <3> QED
      BY <1>3, <1>4, <3>1
  <2> DEFINE k == j - n
  <2> HIDE DEF k
  <2>4. k \in DOMAIN t /\ t[k] = q[j]
    BY <1>3, <1>5, <2>3 DEF k
  <2> QED
    BY <2>4 DEF Writes
<1>12. \A m \in Done' : m \in Done \/ \E j \in DOMAIN q : j <= n /\ m = q[j].write
  <2>1. TAKE m \in Done'
  <2>2. SUFFICES ASSUME m \notin Done PROVE \E j \in DOMAIN q : j <= n /\ m = q[j].write
    OBVIOUS
  <2>3. PICK j \in DOMAIN q : m = q[j].write
    BY <1>10, <2>2 DEF Writes
  <2>4. ~(j > n)
    BY <1>10, <1>11, <2>3
  <2>5. j <= n
    BY <1>3, <2>4
  <2> QED
    BY <2>3, <2>5
<1>13. MineInOrder'
  <2>1. mine' \subseteq DOMAIN author'
    BY DEF ViewInv, MineInOrder
  <2>2. ASSUME NEW k \in DOMAIN t, t[k].write \notin mine' PROVE \A m \in mine' : t[k].write < m
    BY <1>3, <1>5, <2>2 DEF ViewInv, MineInOrder, q
  <2>3. ASSUME NEW k \in DOMAIN t, NEW m \in Done' PROVE m < t[k].write
    <3>1. k + n \in DOMAIN q /\ t[k] = q[k + n]
      BY <1>3, <1>5
    <3>2. CASE m \in Done
      BY <3>1, <3>2 DEF ViewInv, MineInOrder, q
    <3>3. CASE \E j \in DOMAIN q : j <= n /\ m = q[j].write
      <4>1. PICK j \in DOMAIN q : j <= n /\ m = q[j].write
        BY <3>3
      <4>2. j < k + n
        BY <1>3, <1>4, <4>1
      <4> QED
        BY <1>6, <3>1, <4>1, <4>2
    <3> QED
      BY <1>12, <3>2, <3>3
  <2> QED
    BY <1>1, <2>1, <2>2, <2>3 DEF MineInOrder
<1>14. \A m \in Done' : m <= o
  <2>1. TAKE m \in Done'
  <2>2. CASE m \in Done
    <3>1. m < o
      BY <1>2, <1>3, <1>4, <2>2 DEF ViewInv, MineInOrder, q
    <3>2. m \in Nat
      BY <2>2, AuthorFacts DEF Done, ViewInv, MineInOrder
    <3> QED
      BY <1>9, <3>1, <3>2
  <2>3. CASE \E j \in DOMAIN q : j <= n /\ m = q[j].write
    <3>1. PICK j \in DOMAIN q : j <= n /\ m = q[j].write
      BY <2>3
    <3>2. m \in Nat
      BY <1>7, <3>1
    <3>3. CASE j < n
      <4>1. m < o
        BY <1>2, <1>3, <1>4, <1>6, <3>1, <3>3
      <4> QED
        BY <1>9, <3>2, <4>1
    <3>4. CASE ~(j < n)
      <4>1. j = n
        BY <1>3, <3>1, <3>4
      <4> QED
        BY <1>2, <1>9, <3>1, <4>1
    <3> QED
      BY <3>3, <3>4
  <2> QED
    BY <1>12, <2>2, <2>3
<1>15. ASSUME NEW m \in Done' PROVE o \in Done'
  <2>1. o \in mine
    <3>1. SUFFICES ASSUME o \notin mine PROVE FALSE
      OBVIOUS
    <3>2. o < m
      <4>1. m \in mine
        BY <1>10
      <4> QED
        BY <1>2, <1>3, <1>4, <3>1, <4>1 DEF ViewInv, MineInOrder, q
    <3>3. m <= o
      BY <1>14
    <3>4. m \in Nat
      <4>1. m \in mine
        BY <1>10
      <4> QED
        BY <4>1, AuthorFacts DEF ViewInv, MineInOrder
    <3> QED
      BY <1>9, <3>2, <3>3, <3>4
  <2> QED
    BY <1>9, <1>10, <2>1
<1>16. ASSUME NEW w \in DOMAIN log, w > v
       PROVE  log[w] \in refused \/ log[w] \in Writes(t) \/ log[w] = o
  <2>1. SUFFICES ASSUME log[w] \notin refused PROVE log[w] \in Writes(t) \/ log[w] = o
    OBVIOUS
  <2>2. PICK j \in DOMAIN q : j >= n /\ log[w] = q[j].write
    BY <1>16, <2>1 DEF LaidDown, q
  <2>3. j = n \/ j > n
    BY <1>3, <2>2
  <2> QED
    BY <1>2, <1>11, <2>2, <2>3
<1>17. ASSUME NEW k \in Nat, NEW y \in Nat, k >= 1, LaidDown(n + k, y), n + k <= Len(q)
       PROVE  LaidDown(k, y)'
  <2>1. k \in 1 .. Len(t) /\ n + k = k + n
    BY <1>4, <1>17
  <2>2. t[k] = q[n + k]
    BY <1>5, <2>1
  <2>3. log[y] = t[k].write
    BY <1>17, <2>2 DEF LaidDown, q
  <2>4. ASSUME NEW w \in DOMAIN log, w > y, log[w] \notin refused
        PROVE  \E j \in DOMAIN t : j >= k /\ log[w] = t[j].write
    <3>1. PICK j \in DOMAIN q : j >= n + k /\ log[w] = q[j].write
      BY <1>17, <2>4 DEF LaidDown, q
    <3> DEFINE i == j - n
    <3>2. i \in 1 .. Len(t) /\ i + n = j /\ i >= k
      BY <1>3, <1>4, <1>17, <3>1
    <3> HIDE DEF i
    <3>3. i \in DOMAIN t /\ t[i] = q[j]
      BY <1>3, <1>5, <3>2
    <3> QED
      BY <3>1, <3>2, <3>3
  <2> QED
    BY <1>1, <2>3, <2>4 DEF LaidDown
<1>18. /\ Done' # {} => o \in Done' /\ \A m \in Done' : m <= o
       /\ \A w \in DOMAIN log : w > v => log[w] \in refused \/ log[w] \in Writes(t) \/ log[w] = o
       /\ \A k, y \in Nat : k >= 1 /\ LaidDown(n + k, y) /\ n + k <= Len(q) => LaidDown(k, y)'
  BY <1>14, <1>15, <1>16, <1>17
<1> QED
  BY <1>13, <1>18 DEF o, q, t

\* Results laid over a copy of the document.
LEMMA CopyApplied ==
  ASSUME Base, NEW doc \in Document, CopyOk(doc), NEW results, results # <<>>,
         NEW v \in DOMAIN log, Last(results).version = v, log[v] = Last(results).batch.write
  PROVE  /\ CopyOk(ApplyResults(doc, results))
         /\ \E w \in DOMAIN log : w >= v /\ ApplyResults(doc, results).write = log[w]
<1> DEFINE d == ApplyResults(doc, results)
<1>1. v \in Nat /\ v >= 1 /\ doc.version \in Nat /\ \A w \in DOMAIN log : w \in Nat
  <2>1. v \in Nat /\ v >= 1 /\ \A w \in DOMAIN log : w \in Nat
    BY AuthorFacts
  <2> QED
    BY <2>1 DEF Document
<1>2. CASE doc.version < v
  <2>1. d = [doc EXCEPT !.write = log[v]]
    BY <1>2 DEF ApplyResults
  <2>2. d.version = doc.version /\ d.write = log[v]
    BY <2>1 DEF Document
  <2>3. v >= doc.version /\ v >= v
    BY <1>1, <1>2
  <2> QED
    BY <2>2, <2>3 DEF CopyOk
<1>3. CASE ~(doc.version < v)
  <2>1. d = doc
    BY <1>3 DEF ApplyResults
  <2>2. doc.version # 0 /\ doc.version >= v
    BY <1>1, <1>3
  <2>3. PICK o \in DOMAIN log : o >= doc.version /\ doc.write = log[o]
    BY <2>2 DEF CopyOk
  <2>4. o >= v
    BY <1>1, <2>2, <2>3
  <2> QED
    BY <2>1, <2>3, <2>4
<1> QED
  BY <1>2, <1>3

\* The first n batches leave the queue and are laid over the cache.
LEMMA ViewRelease ==
  ASSUME Base, ViewInv, NEW n \in Nat, n >= 1, n <= Len(queue[user]), queue'[user] \in Seq(Batch),
         Cut(queue[user], queue'[user], 0, n),
         UNCHANGED <<user, mine, log, refused, author>>, halfClosed' = <<>>,
         NEW v \in DOMAIN log, LaidDown(n, v), listening' => remoteVersion' >= v,
         NEW doc \in Document, CopyOk(doc), NEW results, results # <<>>,
         Last(results).version = v, log[v] = Last(results).batch.write,
         cache' = ApplyResults(doc, results),
         \A k \in DOMAIN held' :
           /\ k \in Nat /\ k >= 1 /\ n + k <= Len(queue[user])
           /\ held'[k].version \in DOMAIN log /\ LaidDown(n + k, held'[k].version)
  PROVE  ViewInv'
<1>1. /\ MineInOrder'
      /\ Done' # {} => log[v] \in Done' /\ \A m \in Done' : m <= log[v]
      /\ \A w \in DOMAIN log : w > v =>
           log[w] \in refused \/ log[w] \in Writes(queue'[user]) \/ log[w] = log[v]
      /\ \A k, y \in Nat : k >= 1 /\ LaidDown(n + k, y) /\ n + k <= Len(queue[user])
                             => LaidDown(k, y)'
  BY Leaves
<1>2. /\ CopyOk(ApplyResults(doc, results))
      /\ \E w \in DOMAIN log : w >= v /\ ApplyResults(doc, results).write = log[w]
  BY CopyApplied
<1>3. CopyOk(cache)'
  BY <1>2 DEF CopyOk
<1>4. \A k \in DOMAIN held' : held'[k].version \in DOMAIN log' /\ LaidDown(k, held[k].version)'
  <2>1. TAKE k \in DOMAIN held'
  <2>2. PICK y \in DOMAIN log : y = held'[k].version
    OBVIOUS
  <2>3. y \in Nat
    BY AuthorFacts
  <2>4. LaidDown(n + k, y) /\ k \in Nat /\ k >= 1 /\ n + k <= Len(queue[user])
    BY <2>2
  <2>5. LaidDown(k, y)'
    BY <1>1, <2>3, <2>4
  <2> QED
    BY <2>2, <2>5 DEF LaidDown
<1>5. ASSUME Done' # {} PROVE \E p \in DOMAIN log' : ShownAt(p)'
  <2>1. \E w \in DOMAIN log : w >= v /\ cache'.write = log[w]
    BY <1>2
  <2>2. Writes(queue[user])' = Writes(queue'[user])
    BY DEF Writes
  <2>3. ShownAt(v)'
    BY <1>1, <1>5, <2>1, <2>2 DEF ShownAt
  <2> QED
    BY <2>3
<1> QED
  BY <1>1, <1>3, <1>4, <1>5 DEF ViewInv

\* Held results, the last of them and what is known of them.
LEMMA HeldLast ==
  ASSUME Base, ViewInv, NEW n \in 1 .. Len(held)
  PROVE  /\ n \in Nat /\ n >= 1 /\ n \in DOMAIN held /\ n <= Len(queue[user])
         /\ held[n].version \in DOMAIN log /\ LaidDown(n, held[n].version)
         /\ held[n].batch = queue[user][n]
         /\ log[held[n].version] = held[n].batch.write
         /\ halfClosed = <<>>
         /\ \A k \in 1 .. Len(held) : k <= Len(queue[user])
<1>1. /\ Len(held) \in Nat /\ DOMAIN held = 1 .. Len(held)
      /\ \A k \in DOMAIN held : held[k].batch = queue[user][k]
      /\ SplitAt(queue[user], lastAcked[user], Len(held))
      /\ queue[user] \in Seq(Batch)
  BY UserFacts
<1>2. Len(held) <= Len(queue[user]) /\ Len(queue[user]) \in Nat
  BY <1>1, BatchFacts DEF SplitAt
<1>3. n \in Nat /\ n >= 1 /\ n \in DOMAIN held /\ \A k \in 1 .. Len(held) : k <= Len(queue[user])
  BY <1>1, <1>2
<1>4. held[n].version \in DOMAIN log /\ LaidDown(n, held[n].version)
  BY <1>3 DEF ViewInv
<1>5. held # <<>>
  <2>1. DOMAIN <<>> = {}
    OBVIOUS
  <2> QED
    BY <1>3, <2>1
<1>6. halfClosed = <<>>
  BY <1>5 DEF ViewInv
<1>7. held[n].batch = queue[user][n] /\ n <= Len(queue[user])
  BY <1>1, <1>3
<1>8. log[held[n].version] = held[n].batch.write
  BY <1>4, <1>7 DEF LaidDown
<1> QED
  BY <1>3, <1>4, <1>6, <1>7, <1>8

\* A cut of nothing.
LEMMA CutNothing ==
  ASSUME NEW S, NEW s \in Seq(S), NEW t \in Seq(S), Cut(s, t, 0, 0)
  PROVE  t = s
<1>1. 0 \in Nat /\ 0 + 0 <= Len(s)
  <2>1. Len(s) \in Nat
    OBVIOUS
  <2> QED
    BY <2>1
<1>2. /\ Len(s) \in Nat /\ DOMAIN s = 1 .. Len(s) /\ Len(t) \in Nat /\ DOMAIN t = 1 .. Len(t)
      /\ Len(t) = Len(s) - 0
      /\ \A k \in DOMAIN t : k > 0 => k + 0 \in DOMAIN s /\ t[k] = s[k + 0]
  BY <1>1, CutAt
<1>3. Len(t) = Len(s)
  BY <1>2
<1>4. \A k \in 1 .. Len(t) : t[k] = s[k]
  <2>1. TAKE k \in 1 .. Len(t)
  <2>2. k > 0 /\ k + 0 = k
    BY <1>2
  <2> QED
    BY <1>2, <2>2
<1> QED
  BY <1>3, <1>4, SeqEqual

\* Without a target what is held goes to the cache.
LEMMA ViewUnlisten == Base /\ ViewInv /\ Unlisten => ViewInv'
<1> SUFFICES ASSUME Base, ViewInv, Unlisten PROVE ViewInv'
  OBVIOUS
<1>1. /\ listening' = FALSE /\ cache' = ApplyResults(cache, held) /\ held' = <<>>
      /\ UNCHANGED <<user, mine, log, refused, author, halfClosed, floor, remoteVersion>>
  BY DEF Unlisten, backend, history
<1>2. Cut(queue[user], queue'[user], 0, Len(held)) /\ queue' \in [Users -> Seq(Batch)]
  BY UnlistenFacts
<1>3. queue[user] \in Seq(Batch) /\ user \in Users
  BY UserFacts
<1>4. queue'[user] \in Seq(Batch)
  BY <1>2, <1>3
<1>5. held \in Seq(Result) /\ Len(held) \in Nat
  BY UserFacts
<1>6. DOMAIN held' = {}
  BY <1>1
<1>7. CASE held = <<>>
  <2>1. Cut(queue[user], queue'[user], 0, 0)
    BY <1>2, <1>7
  <2>2. queue'[user] = queue[user]
    BY <1>3, <1>4, <2>1, CutNothing
  <2>3. cache' = cache
    BY <1>1, <1>7 DEF ApplyResults
  <2>4. Done' = Done /\ Writes(queue[user])' = Writes(queue[user])
    BY <1>1, <2>2 DEF Done, Writes
  <2>5. MineInOrder'
    BY <1>1, <2>2, <2>4 DEF ViewInv, MineInOrder
  <2>6. CopyOk(cache)'
    BY <1>1, <2>3 DEF ViewInv, CopyOk
  <2>7. ASSUME NEW p \in DOMAIN log, ShownAt(p) PROVE ShownAt(p)'
    BY <1>1, <2>3, <2>4, <2>7 DEF ShownAt
  <2>8. Done' # {} => \E p \in DOMAIN log' : ShownAt(p)'
    BY <1>1, <2>4, <2>7 DEF ViewInv
  <2>9. halfClosed' # <<>> => held' = <<>> /\ Done' = {}
    BY <1>1, <2>4 DEF ViewInv
  <2> QED
    BY <1>6, <2>5, <2>6, <2>8, <2>9 DEF ViewInv
<1>8. CASE held # <<>>
  <2> DEFINE n == Len(held)
  <2>1. n \in 1 .. Len(held)
    BY <1>5, <1>8
  <2>2. /\ n \in Nat /\ n >= 1 /\ n \in DOMAIN held /\ n <= Len(queue[user])
        /\ held[n].version \in DOMAIN log /\ LaidDown(n, held[n].version)
        /\ log[held[n].version] = held[n].batch.write
        /\ halfClosed = <<>>
    BY <2>1, HeldLast
  <2>3. PICK v \in DOMAIN log : v = held[n].version
    BY <2>2
  <2>4. Last(held) = held[n]
    BY DEF Last
  <2>5. Last(held).version = v /\ log[v] = Last(held).batch.write /\ LaidDown(n, v)
    BY <2>2, <2>3, <2>4
  <2>6. Cut(queue[user], queue'[user], 0, n)
    BY <1>2
  <2> HIDE DEF n
  <2>7. halfClosed' = <<>>
    BY <1>1, <2>2
  <2>8. PICK d \in Document : d = cache
    BY DEF Base, Typed
  <2>9. CopyOk(d)
    BY <2>8 DEF ViewInv
  <2>10. cache' = ApplyResults(d, held)
    BY <1>1, <2>8
  <2>11. UNCHANGED <<user, mine, log, refused, author>> /\ (listening' => remoteVersion' >= v)
    BY <1>1
  <2>12. \A k \in DOMAIN held' :
           /\ k \in Nat /\ k >= 1 /\ n + k <= Len(queue[user])
           /\ held'[k].version \in DOMAIN log /\ LaidDown(n + k, held'[k].version)
    BY <1>6
  <2> QED
    BY <1>4, <1>8, <2>2, <2>5, <2>6, <2>7, <2>9, <2>10, <2>11, <2>12, ViewRelease
<1> QED
  BY <1>7, <1>8

\* A snapshot comes with the writes that were held for it, and not without.
LEMMA ViewRemoteEvent ==
  ASSUME Base, ViewInv, NEW version \in DOMAIN log, ApplyRemoteEvent(version)
  PROVE  ViewInv'
<1> DEFINE p == Releasable(version, TRUE)
           doc == [write |-> log[version], version |-> version]
<1>1. /\ listening /\ version > remoteVersion /\ version >= floor
      /\ remoteVersion' = version /\ cache' = ApplyResults(doc, p)
      /\ UNCHANGED <<user, mine, log, refused, author, halfClosed, listening, floor>>
  BY DEF ApplyRemoteEvent, watch, backend, history
<1>2. PICK n \in Nat : /\ Parts(held, p, held', n)
                       /\ n <= Len(held) /\ Cut(queue[user], queue'[user], 0, n)
  BY ApplyRemoteEventFacts
<1>3. queue' \in [Users -> Seq(Batch)] /\ held' \in Seq(Result)
  BY ApplyRemoteEventFacts
<1>4. queue[user] \in Seq(Batch) /\ user \in Users /\ held \in Seq(Result) /\ Len(held) \in Nat
      /\ DOMAIN held = 1 .. Len(held)
  BY UserFacts
<1>5. queue'[user] \in Seq(Batch)
  BY <1>3, <1>4
<1>6. version \in Nat /\ log[version] \in Nat
  BY AuthorFacts
<1>7. p \in Seq(Result) /\ \A k \in DOMAIN p : p[k].version <= version
  <2>1. TRUE \in BOOLEAN
    OBVIOUS
  <2>2. p \in Seq(Result) /\ \A k \in DOMAIN p : UpTo(p[k].version, version, TRUE)
    BY <1>6, <2>1, ReleasableFacts
  <2> HIDE DEF p
  <2> QED
    BY <2>2 DEF UpTo
<1>8. PICK d \in Document : d = doc
  BY <1>6 DEF Document
<1>9. d.version = version /\ d.write = log[version]
  BY <1>8
<1>10. CopyOk(d)
  <2>1. version >= version
    BY <1>6
  <2> QED
    BY <1>9, <2>1 DEF CopyOk
<1> HIDE DEF p, doc
<1>11. cache' = ApplyResults(d, p)
  BY <1>1, <1>8
<1>12. /\ Len(p) = n /\ DOMAIN p = 1 .. n /\ Len(held') = Len(held) - n
       /\ DOMAIN held' = 1 .. Len(held')
       /\ Len(held') \in Nat
       /\ \A k \in 1 .. n : p[k] = held[k]
       /\ \A k \in 1 .. Len(held') : held'[k] = held[n + k]
  <2>1. /\ Len(p) = n /\ Len(held') = Len(held) - n
        /\ \A k \in 1 .. n : p[k] = held[k]
        /\ \A k \in 1 .. Len(held) - n : held'[k] = held[n + k]
    BY <1>2 DEF Parts
  <2>2. DOMAIN p = 1 .. Len(p) /\ DOMAIN held' = 1 .. Len(held') /\ Len(held') \in Nat
    BY <1>3, <1>7
  <2> QED
    BY <2>1, <2>2
<1>13. \A k \in 1 .. Len(held') : k \in Nat /\ k >= 1 /\ n + k \in 1 .. Len(held)
  <2> DEFINE h == Len(held)
             e == Len(held')
  <2>1. h \in Nat /\ e \in Nat /\ n \in Nat /\ e = h - n
    BY <1>4, <1>12
  <2> HIDE DEF h, e
  <2>2. \A k \in 1 .. e : k \in Nat /\ k >= 1 /\ n + k \in 1 .. h
    BY <2>1
  <2> QED
    BY <2>2 DEF h, e
<1>14. \A k \in DOMAIN held' :
         /\ k \in Nat /\ k >= 1 /\ n + k <= Len(queue[user])
         /\ held'[k].version \in DOMAIN log /\ LaidDown(n + k, held'[k].version)
  <2>1. TAKE k \in DOMAIN held'
  <2>2. k \in Nat /\ k >= 1
    BY <1>12, <1>13
  <2>3. PICK j \in 1 .. Len(held) : j = n + k
    BY <1>12, <1>13
  <2>4. held'[k] = held[j]
    BY <1>12, <2>3
  <2>5. j <= Len(queue[user]) /\ held[j].version \in DOMAIN log /\ LaidDown(j, held[j].version)
    BY HeldLast
  <2> QED
    BY <2>2, <2>3, <2>4, <2>5
<1>15. CASE n = 0
  <2>1. Cut(queue[user], queue'[user], 0, 0)
    BY <1>2, <1>15
  <2>2. queue'[user] = queue[user]
    BY <1>4, <1>5, <2>1, CutNothing
  <2>3. p = <<>>
    BY <1>7, <1>12, <1>15, EmptySeq
  <2>4. cache' = d
    BY <1>11, <2>3 DEF ApplyResults
  <2>5. Done' = Done /\ Writes(queue[user])' = Writes(queue[user])
    BY <1>1, <2>2 DEF Done, Writes
  <2>6. MineInOrder'
    BY <1>1, <2>2, <2>5 DEF ViewInv, MineInOrder
  <2>7. CopyOk(cache)'
    BY <1>1, <1>10, <2>4 DEF CopyOk
  <2>8. ASSUME NEW x \in DOMAIN log, ShownAt(x) PROVE ShownAt(x)'
    <3>1. x \in Nat /\ remoteVersion \in Nat /\ floor \in Nat
      BY AuthorFacts DEF Base, Typed
    <3>2. floor >= x \/ remoteVersion >= x
      BY <1>1, <2>8 DEF ShownAt
    <3>3. version >= x
      BY <1>1, <1>6, <3>1, <3>2
    <3>4. cache'.write = log[version]
      BY <1>9, <2>4
    <3> QED
      BY <1>1, <2>5, <2>8, <3>3, <3>4 DEF ShownAt
  <2>9. Done' # {} => \E x \in DOMAIN log' : ShownAt(x)'
    BY <1>1, <2>5, <2>8 DEF ViewInv
  <2>10. \A k \in DOMAIN held' : held'[k].version \in DOMAIN log' /\ LaidDown(k, held[k].version)'
    <3>1. TAKE k \in DOMAIN held'
    <3>2. held'[k].version \in DOMAIN log /\ LaidDown(n + k, held'[k].version) /\ n + k = k
      BY <1>14, <1>15
    <3> QED
      BY <1>1, <2>2, <3>2 DEF LaidDown
  <2>11. halfClosed' # <<>> => held' = <<>> /\ Done' = {}
    <3>1. SUFFICES ASSUME halfClosed' # <<>> PROVE held' = <<>> /\ Done' = {}
      OBVIOUS
    <3>2. held = <<>> /\ Done = {}
      BY <1>1, <3>1 DEF ViewInv
    <3>3. Len(held') = 0
      BY <1>12, <1>15, <3>2
    <3> QED
      BY <1>3, <2>5, <3>2, <3>3, EmptySeq
  <2> QED
    BY <2>6, <2>7, <2>9, <2>10, <2>11 DEF ViewInv
<1>16. CASE n # 0
  <2>1. n \in 1 .. Len(held) /\ n \in 1 .. n /\ n >= 1
    BY <1>2, <1>4, <1>16
  <2>2. /\ n <= Len(queue[user])
        /\ held[n].version \in DOMAIN log /\ LaidDown(n, held[n].version)
        /\ log[held[n].version] = held[n].batch.write
        /\ halfClosed = <<>>
    BY <2>1, HeldLast
  <2>3. PICK v \in DOMAIN log : v = held[n].version
    BY <2>2
  <2>4. p # <<>> /\ Last(p) = held[n]
    <3>1. Last(p) = p[n]
      BY <1>12 DEF Last
    <3>2. p # <<>>
      <4>1. Len(<<>>) = 0
        OBVIOUS
      <4> QED
        BY <1>12, <1>16, <4>1
    <3> QED
      BY <1>12, <2>1, <3>1, <3>2
  <2>5. Last(p).version = v /\ log[v] = Last(p).batch.write /\ LaidDown(n, v)
    BY <2>2, <2>3, <2>4
  <2>6. listening' => remoteVersion' >= v
    <3>1. p[n].version <= version /\ p[n].version = v
      BY <1>7, <1>12, <2>1, <2>3
    <3>2. v \in Nat
      BY AuthorFacts
    <3> QED
      BY <1>1, <1>6, <3>1, <3>2
  <2>7. halfClosed' = <<>>
    BY <1>1, <2>2
  <2>8. UNCHANGED <<user, mine, log, refused, author>>
    BY <1>1
  <2>9. Cut(queue[user], queue'[user], 0, n) /\ n \in Nat
    BY <1>2
  <2> QED
    BY <1>5, <1>10, <1>11, <1>14, <2>1, <2>2, <2>4, <2>5, <2>6, <2>7, <2>8, <2>9, ViewRelease
<1> QED
  BY <1>15, <1>16

\* Of the batch that is acknowledged the backend has the version it answered.
LEMMA AnswerLaidDown ==
  ASSUME Base, WriteAcknowledged
  PROVE  /\ Len(held) + 1 \in DOMAIN queue[user] /\ Answer \in DOMAIN log
         /\ LaidDown(Len(held) + 1, Answer)
<1> DEFINE h == Len(held)
           x == Unacked(user)
           q == queue[user]
<1>1. Answer \in DOMAIN log /\ log[Answer] = q[h + 1].write /\ h + 1 <= Len(q)
  BY Acknowledged
<1>2. \A w \in DOMAIN log : w > Answer => \E k \in 1 .. Len(x) : k # 1 /\ log[w] = x[k].write
  BY AnswersAhead
<1>3. Suffix(q, x, h)
  BY UnackedFacts
<1>4. h \in Nat /\ q \in Seq(Batch)
  BY UserFacts
<1> HIDE DEF h, x, q
<1>5. Len(x) \in Nat /\ \A k \in 1 .. Len(x) : x[k] = q[h + k] /\ h + k \in DOMAIN q
  BY <1>3 DEF Suffix
<1>6. h + 1 \in DOMAIN q
  <2>1. Len(q) \in Nat /\ DOMAIN q = 1 .. Len(q)
    BY <1>4
  <2> QED
    BY <1>1, <1>4, <2>1
<1>7. \A k \in 1 .. Len(x) : k # 1 => h + k >= h + 1
  BY <1>4, <1>5
<1>8. \A w \in DOMAIN log : w > Answer => \E j \in DOMAIN q : j >= h + 1 /\ log[w] = q[j].write
  <2>1. TAKE w \in DOMAIN log
  <2>2. SUFFICES ASSUME w > Answer PROVE \E j \in DOMAIN q : j >= h + 1 /\ log[w] = q[j].write
    OBVIOUS
  <2>3. PICK k \in 1 .. Len(x) : k # 1 /\ log[w] = x[k].write
    BY <1>2, <2>2
  <2>4. PICK j \in DOMAIN q : j = h + k
    BY <1>5
  <2>5. j >= h + 1 /\ x[k] = q[j]
    BY <1>5, <1>7, <2>3, <2>4
  <2> QED
    BY <2>3, <2>5
<1>9. LaidDown(h + 1, Answer)
  BY <1>1, <1>8 DEF LaidDown, q
<1> QED
  BY <1>1, <1>6, <1>9 DEF h, q

\* An acknowledged batch is held until the watch stream has it, or goes to the
\* cache at once.
LEMMA ViewAcknowledge == Base /\ ViewInv /\ WriteAcknowledged => ViewInv'
<1> SUFFICES ASSUME Base, ViewInv, WriteAcknowledged PROVE ViewInv'
  OBVIOUS
<1>1. UNCHANGED <<user, mine, log, refused, author, halfClosed, listening, floor, remoteVersion>>
  BY DEF WriteAcknowledged, watch, backend
<1>2. /\ remote.state = "Open" /\ remote.handshakeComplete
      /\ Oldest \in Batch /\ log[Answer] = Oldest.write
      /\ \/ /\ held' = Append(held, [batch |-> Oldest, version |-> Answer])
            /\ queue' = queue /\ cache' = cache
         \/ /\ held = <<>> /\ held' = <<>> /\ UpTo(Answer, remoteVersion, listening)
            /\ cache' = ApplyResults(cache, <<[batch |-> Oldest, version |-> Answer]>>)
            /\ queue'[user] \in Seq(Batch) /\ Cut(queue[user], queue'[user], 0, 1)
  BY Acknowledged
<1>3. /\ Len(held) + 1 \in DOMAIN queue[user] /\ Answer \in DOMAIN log
      /\ LaidDown(Len(held) + 1, Answer)
  BY AnswerLaidDown
<1>4. PICK v \in DOMAIN log : v = Answer
  BY <1>3
<1>5. PICK r \in Result : r = [batch |-> Oldest, version |-> v]
  <2>1. v \in Nat
    BY AuthorFacts
  <2> QED
    BY <1>2, <2>1 DEF Result
<1>6. r.version = v /\ r.batch = Oldest
  BY <1>5
<1>7. halfClosed = <<>>
  <2>1. Greeted(remote)
    BY <1>2 DEF Greeted
  <2> QED
    BY <2>1, UserFacts
<1>8. held \in Seq(Result) /\ Len(held) \in Nat /\ DOMAIN held = 1 .. Len(held)
      /\ queue[user] \in Seq(Batch) /\ user \in Users
  BY UserFacts
<1>9. CASE held' = Append(held, r) /\ queue' = queue /\ cache' = cache
  <2>1. /\ DOMAIN held' = 1 .. Len(held) + 1 /\ held'[Len(held) + 1] = r
        /\ \A k \in DOMAIN held : held'[k] = held[k]
    BY <1>8, <1>9, AppendAt
  <2>2. Done' = Done /\ Writes(queue[user])' = Writes(queue[user])
    BY <1>1, <1>9 DEF Done, Writes
  <2>3. MineInOrder'
    BY <1>1, <1>9, <2>2 DEF ViewInv, MineInOrder
  <2>4. CopyOk(cache)'
    BY <1>1, <1>9 DEF ViewInv, CopyOk
  <2>5. ASSUME NEW p \in DOMAIN log, ShownAt(p) PROVE ShownAt(p)'
    BY <1>1, <1>9, <2>2, <2>5 DEF ShownAt
  <2>6. Done' # {} => \E p \in DOMAIN log' : ShownAt(p)'
    BY <1>1, <2>2, <2>5 DEF ViewInv
  <2>7. \A k \in DOMAIN held' : held'[k].version \in DOMAIN log /\ LaidDown(k, held'[k].version)
    <3>1. TAKE k \in DOMAIN held'
    <3>2. k \in DOMAIN held \/ k = Len(held) + 1
      BY <1>8, <2>1
    <3>3. CASE k \in DOMAIN held
      BY <2>1, <3>3 DEF ViewInv
    <3>4. CASE k = Len(held) + 1
      BY <1>3, <1>4, <1>6, <2>1, <3>4
    <3> QED
      BY <3>2, <3>3, <3>4
  <2>8. \A k \in DOMAIN held' : held'[k].version \in DOMAIN log' /\ LaidDown(k, held[k].version)'
    BY <1>1, <1>9, <2>7 DEF LaidDown
  <2>9. halfClosed' = <<>>
    BY <1>1, <1>7
  <2> QED
    BY <2>3, <2>4, <2>6, <2>8, <2>9 DEF ViewInv
<1>10. CASE /\ held = <<>> /\ held' = <<>> /\ UpTo(v, remoteVersion, listening)
            /\ cache' = ApplyResults(cache, <<r>>)
            /\ queue'[user] \in Seq(Batch) /\ Cut(queue[user], queue'[user], 0, 1)
  <2>1. Len(held) + 1 = 1
    BY <1>10
  <2>2. 1 \in DOMAIN queue[user] /\ LaidDown(1, v)
    BY <1>3, <1>4, <2>1
  <2>3. 1 \in Nat /\ 1 >= 1 /\ 1 <= Len(queue[user])
    BY <1>8, <2>2
  <2> DEFINE s == <<r>>
  <2>4. s # <<>> /\ Last(s) = r
    BY DEF Last
  <2>5. cache' = ApplyResults(cache, s)
    BY <1>10
  <2> HIDE DEF s
  <2>6. Last(s).version = v /\ log[v] = Last(s).batch.write
    BY <1>2, <1>4, <1>6, <2>4
  <2>7. PICK d \in Document : d = cache
    BY DEF Base, Typed
  <2>8. CopyOk(d) /\ cache' = ApplyResults(d, s)
    BY <2>5, <2>7 DEF ViewInv
  <2>9. listening' => remoteVersion' >= v
    <3>1. v \in Nat /\ remoteVersion \in Nat
      BY AuthorFacts DEF Base, Typed
    <3>2. listening => v <= remoteVersion
      BY <1>10 DEF UpTo
    <3> QED
      BY <1>1, <3>1, <3>2
  <2>10. \A k \in DOMAIN held' :
           /\ k \in Nat /\ k >= 1 /\ 1 + k <= Len(queue[user])
           /\ held'[k].version \in DOMAIN log /\ LaidDown(1 + k, held'[k].version)
    BY <1>10
  <2>11. UNCHANGED <<user, mine, log, refused, author>> /\ halfClosed' = <<>>
    BY <1>1, <1>7
  <2>12. queue'[user] \in Seq(Batch) /\ Cut(queue[user], queue'[user], 0, 1)
    BY <1>10
  <2> QED
    BY <2>2, <2>3, <2>4, <2>6, <2>8, <2>9, <2>10, <2>11, <2>12, ViewRelease
<1> QED
  BY <1>2, <1>4, <1>5, <1>9, <1>10

\* At first nothing was written.
LEMMA InitView == Init => ViewInv
<1> SUFFICES ASSUME Init PROVE ViewInv
  OBVIOUS
<1>1. /\ mine = {} /\ held = <<>> /\ halfClosed = <<>> /\ cache.version = 0
      /\ queue[user] = <<>> /\ DOMAIN <<>> = {}
  BY DEF Init
<1>2. Done = {}
  BY <1>1 DEF Done
<1>3. MineInOrder
  BY <1>1, <1>2 DEF MineInOrder
<1>4. CopyOk(cache)
  BY <1>1 DEF CopyOk
<1>5. \A k \in DOMAIN held : held[k].version \in DOMAIN log /\ LaidDown(k, held[k].version)
  BY <1>1
<1> QED
  BY <1>1, <1>2, <1>3, <1>4, <1>5 DEF ViewInv

\* Every step keeps the fourth layer.
LEMMA NextView == Base /\ AppliedInv /\ ViewInv /\ [Next]_vars => ViewInv'
<1> SUFFICES ASSUME Base, AppliedInv, ViewInv, [Next]_vars PROVE ViewInv'
  OBVIOUS
<1>1. CASE WriteMutations
  BY <1>1, ViewWrite
<1>2. CASE ApplyWrite
  BY <1>2, ViewApply
<1>3. CASE ApplyHalfClosed
  BY <1>3, ViewHalfClosed
<1>4. CASE WriteAcknowledged
  BY <1>4, ViewAcknowledge
<1>5. CASE WriteRefused
  BY <1>5, ViewRefuse
<1>6. ASSUME NEW u \in Users, UserDidChange(u) PROVE ViewInv'
  <2>1. StartMutationQueue(u) /\ UNCHANGED <<cache, log, author>>
    BY <1>6 DEF UserDidChange
  <2> QED
    BY <2>1, ViewStart
<1>7. CASE Restart
  <2>1. PICK u \in Users : u = user
    BY UserFacts
  <2>2. StartMutationQueue(u) /\ UNCHANGED <<cache, log, author>>
    BY <1>7, <2>1 DEF Restart
  <2> QED
    BY <2>2, ViewStart
<1>8. CASE Listen
  BY <1>8, ViewListen
<1>9. CASE Unlisten
  BY <1>9, ViewUnlisten
<1>10. ASSUME NEW version \in DOMAIN log, ApplyRemoteEvent(version) PROVE ViewInv'
  BY <1>10, ViewRemoteEvent
<1>11. CASE UNCHANGED <<queue, user, mine, author, log, refused, held, halfClosed,
                        cache, listening, floor, remoteVersion>>
  BY <1>11, ViewSame
<1>12. \/ WriteMutations \/ ApplyWrite \/ ApplyHalfClosed \/ WriteAcknowledged \/ WriteRefused
       \/ \E u \in Users : UserDidChange(u)
       \/ Restart \/ Listen \/ Unlisten
       \/ \E version \in DOMAIN log : ApplyRemoteEvent(version)
       \/ UNCHANGED <<queue, user, mine, author, log, refused, held, halfClosed,
                      cache, listening, floor, remoteVersion>>
  BY DEF Next, vars, TokenArrived, BackoffElapsed, IdleTimer, AnswerHandshake, EndStream,
         HandshakeDone, StreamFailed, ConnectionLost, local, watch, backend, history
<1> QED
  BY <1>1, <1>2, <1>3, <1>4, <1>5, <1>6, <1>7, <1>8, <1>9, <1>10, <1>11, <1>12

\* So it always holds.
LEMMA AlwaysView == Spec => [](Base /\ AppliedInv /\ ViewInv)
BY InitBase, NextBase, InitApplied, NextApplied, InitView, NextView, PTL DEF Spec

\* The device shows the newest write of the session until it is refused, from
\* the queue or from the cache: no snapshot that lacks it takes its place.
THEOREM OwnWritesShownHolds == Spec => []OwnWritesShown
<1>1. Base /\ ViewInv => OwnWritesShown
  <2> SUFFICES ASSUME Base, ViewInv, mine # {}
               PROVE  View = Max(mine) \/ View \in refused \cap Range(log)
    BY DEF OwnWritesShown
  <2>1. queue[user] \in Seq(Batch) /\ Ascending(queue[user])
    BY UserFacts
  <2>2. mine \subseteq Nat
    BY AuthorFacts DEF ViewInv, MineInOrder
  <2>3. ASSUME NEW n \in mine, \A m \in mine : m <= n PROVE n = Max(mine)
    <3>1. mine \in SUBSET Int /\ n \in Int
      BY <2>2
    <3>2. Max(mine) \in mine /\ \A m \in mine : m <= Max(mine)
      BY <2>3, <3>1, MaxFacts
    <3> DEFINE a == Max(mine)
    <3>3. n \in Nat /\ a \in Nat /\ n <= a /\ a <= n
      BY <2>2, <2>3, <3>2
    <3> HIDE DEF a
    <3>4. n = a
      BY <3>3
    <3> QED
      BY <3>4 DEF a
  <2>4. CASE queue[user] = <<>>
    <3>1. Writes(queue[user]) = {}
      <4>1. DOMAIN <<>> = {}
        OBVIOUS
      <4> QED
        BY <2>4, <4>1 DEF Writes
    <3>2. Done = mine
      BY <3>1 DEF Done
    <3>3. PICK p \in DOMAIN log : ShownAt(p)
      BY <3>2 DEF ViewInv
    <3>4. PICK w \in DOMAIN log : w >= p /\ cache.write = log[w]
      BY <3>3 DEF ShownAt
    <3>5. log[p] = Max(mine)
      BY <2>3, <3>2, <3>3 DEF ShownAt
    <3>6. View = log[w]
      BY <2>4, <3>4 DEF View
    <3>7. w = p \/ w > p
      BY <3>4, AuthorFacts
    <3>8. log[w] = log[p] \/ log[w] \in refused
      BY <3>1, <3>3, <3>7 DEF ShownAt
    <3>9. log[w] \in Range(log)
      BY DEF Range
    <3> QED
      BY <3>5, <3>6, <3>8, <3>9
  <2>5. CASE queue[user] # <<>>
    <3> DEFINE q == queue[user]
               l == Len(q)
               n == q[l].write
    <3>1. l \in Nat /\ l \in DOMAIN q /\ DOMAIN q = 1 .. l
      BY <2>1, <2>5
    <3>2. \A k \in DOMAIN q : q[k].write \in Nat
      BY <2>1, BatchFacts
    <3>3. View = n
      <4>1. View = Last(q).write
        BY <2>5 DEF View
      <4> QED
        BY <4>1 DEF Last
    <3>4. \A k \in DOMAIN q : k = l \/ q[k].write < n
      <4>1. TAKE k \in DOMAIN q
      <4>2. k = l \/ k < l
        BY <3>1
      <4> QED
        BY <2>1, <3>1, <4>2 DEF Ascending
    <3>5. \A m \in Done : m < n
      BY <3>1 DEF ViewInv, MineInOrder
    <3>6. n \notin mine => \A m \in mine : n < m
      BY <3>1 DEF ViewInv, MineInOrder
    <3>7. \A m \in mine : m \in Done \/ \E k \in DOMAIN q : m = q[k].write
      BY DEF Done, Writes
    <3> HIDE DEF l, q
    <3>8. n \in Nat
      BY <3>1, <3>2
    <3> HIDE DEF n
    <3>9. \A m \in mine : m <= n
      <4>1. TAKE m \in mine
      <4>2. m \in Nat
        BY <2>2
      <4>3. m < n \/ m = n
        BY <3>4, <3>5, <3>7 DEF n
      <4> QED
        BY <3>8, <4>2, <4>3
    <3>10. n \in mine
      <4>1. SUFFICES ASSUME n \notin mine PROVE FALSE
        OBVIOUS
      <4>2. PICK m \in mine : n < m
        BY <3>6, <4>1
      <4>3. m <= n /\ m \in Nat
        BY <2>2, <3>9
      <4> QED
        BY <3>8, <4>2, <4>3
    <3> QED
      BY <2>3, <3>3, <3>9, <3>10
  <2> QED
    BY <2>4, <2>5
<1> QED
  BY <1>1, AlwaysView, PTL

-----------------------------------------------------------------------------
(* What liveness rests on *)

\* What is in the pipeline has a stream that is up or on its way up.
Served(r) == r.pending # <<>> => IsStarted(r)

\* The guard of a step that FairSpec promises: a timer or a token, the backend
\* at work, or an answer to be handled.
StepAtHand ==
    \/ remote.state \in {"Auth", "Backoff"}
    \/ halfClosed # <<>>
    \/ Listens(remote)
    \/ \E type \in {"handshake", "ack"} \cup Closing : Received(type)

\* fillWritePipeline starts a stream that is down when it puts a batch into an
\* empty pipeline, ...
LEMMA FillServed ==
  ASSUME NEW r \in Remote, Served(r), NEW batches, NEW acked
  PROVE  Served(FillWritePipeline(r, batches, acked))
<1> DEFINE new == SubSeq(After(batches, Max({r.lastBatchSeen, acked})), 1,
                         Min({MaxPendingWrites - Len(r.pending),
                              Len(After(batches, Max({r.lastBatchSeen, acked})))}))
           filled == [r EXCEPT !.pending = @ \o new, !.lastBatchSeen = Last(new).id]
           d == FillWritePipeline(r, batches, acked)
<1>1. d = CASE new = <<>> /\ r.pending = <<>> -> MarkIdle(r)
            [] new = <<>> /\ r.pending # <<>> -> r
            [] new # <<>> /\ ~IsStarted(r)    -> Start(filled)
            [] new # <<>> /\ IsStarted(r)     ->
                 IF r.handshakeComplete
                 THEN [filled EXCEPT !.requests = @ \o WritesOf(new), !.idle = FALSE]
                 ELSE filled
  BY DEF FillWritePipeline
<1> HIDE DEF new, d
<1>2. filled.state = r.state /\ filled = [filled EXCEPT !.state = r.state]
  BY DEF Remote
<1>3. CASE new = <<>> /\ r.pending = <<>>
  <2>1. d.pending = <<>>
    BY <1>1, <1>3 DEF MarkIdle, Remote
  <2> QED
    BY <2>1 DEF Served, d
<1>4. CASE new = <<>> /\ r.pending # <<>>
  <2>1. d = r
    BY <1>1, <1>4
  <2> QED
    BY <2>1 DEF d
<1>5. CASE new # <<>> /\ ~IsStarted(r)
  <2>1. d = Start(filled)
    BY <1>1, <1>5
  <2>2. d.state \in {"Backoff", "Auth"}
    BY <2>1 DEF Start, Remote
  <2> QED
    BY <2>2 DEF Served, IsStarted, d
<1>6. CASE new # <<>> /\ IsStarted(r)
  <2>1. d = IF r.handshakeComplete
            THEN [filled EXCEPT !.requests = @ \o WritesOf(new), !.idle = FALSE]
            ELSE filled
    BY <1>1, <1>6
  <2>2. d.state = r.state
    BY <2>1 DEF Remote
  <2> QED
    BY <1>6, <2>2 DEF Served, IsStarted, d
<1> QED
  BY <1>3, <1>4, <1>5, <1>6

\* ... and so does the end of writeStreamWasInterruptedWithError.
LEMMA RestartServed ==
  ASSUME NEW r, RestartIfNeeded(r) \in Remote
  PROVE  Served(RestartIfNeeded(r))
<1> DEFINE f == [r EXCEPT !.handshakeComplete = FALSE]
           s == IF r.state = "Error" THEN "Backoff" ELSE "Auth"
           d == [f EXCEPT !.state = s]
<1>1. CASE r.pending # <<>> /\ ~IsStarted(r)
  <2>1. RestartIfNeeded(r) = d
    BY <1>1 DEF RestartIfNeeded, Start
  <2>2. "state" \in DOMAIN d
    BY <2>1 DEF Remote
  <2> HIDE DEF f, s
  <2>3. DOMAIN d = DOMAIN f
    OBVIOUS
  <2>4. d.state = s
    BY <2>2, <2>3
  <2> HIDE DEF d
  <2>5. d.state \in {"Backoff", "Auth"}
    BY <2>4 DEF s
  <2> QED
    BY <2>1, <2>5 DEF Served, IsStarted
<1>2. CASE ~(r.pending # <<>> /\ ~IsStarted(r))
  BY <1>2 DEF RestartIfNeeded, Served
<1> QED
  BY <1>1, <1>2

\* No step leaves the pipeline without a stream.
LEMMA NextServed == Base /\ Served(remote) /\ [Next]_vars => Served(remote')
<1> SUFFICES ASSUME Base, Served(remote), [Next]_vars PROVE Served(remote')
  OBVIOUS
<1>1. remote \in Remote
  BY UserFacts
<1>2. CASE WriteMutations
  <2>1. remote' = FillWritePipeline(remote, queue'[user], lastAcked[user])
    BY <1>2 DEF WriteMutations
  <2> QED
    BY <1>1, <2>1, FillServed
<1>3. CASE TokenArrived \/ BackoffElapsed
  <2>1. remote'.state \in {"Open", "Auth"}
    BY <1>1, <1>3 DEF TokenArrived, BackoffElapsed, Start, Remote
  <2> QED
    BY <2>1 DEF Served, IsStarted
<1>4. CASE IdleTimer \/ StreamFailed \/ ConnectionLost
  <2>1. PICK s \in {"Initial", "Error"} : remote' = RestartIfNeeded(Close(remote, s))
    BY <1>4 DEF IdleTimer, StreamFailed, ConnectionLost, Interrupted
  <2>2. remote' \in Remote
    BY NextBase DEF Base, Typed
  <2> QED
    BY <2>1, <2>2, RestartServed
<1>5. CASE \/ AnswerHandshake \/ ApplyWrite \/ HandshakeDone
           \/ \E type \in Closing : EndStream(type)
  <2>1. remote'.state = remote.state /\ remote'.pending = remote.pending
    BY <1>1, <1>5 DEF AnswerHandshake, ApplyWrite, HandshakeDone, EndStream, Remote
  <2> QED
    BY <2>1 DEF Served, IsStarted
<1>6. CASE WriteAcknowledged
  <2>1. /\ Behind \in Remote /\ remote' = FillWritePipeline(Behind, queue'[user], Oldest.id)
        /\ remote.state = "Open"
    BY <1>6, Acknowledged
  <2>2. Behind.state = "Open"
    BY <1>1, <2>1 DEF Behind, Remote
  <2>3. Served(Behind)
    BY <2>2 DEF Served, IsStarted
  <2> QED
    BY <2>1, <2>3, FillServed
<1>7. CASE WriteRefused
  <2>1. PICK r : remote' = RestartIfNeeded(r)
    BY <1>7 DEF WriteRefused
  <2>2. remote' \in Remote
    BY NextBase DEF Base, Typed
  <2> QED
    BY <2>1, <2>2, RestartServed
<1>8. ASSUME NEW u \in Users, StartMutationQueue(u) PROVE Served(remote')
  <2>1. remote' = FillWritePipeline(FreshRemote, queue'[u], StartedAcked(u))
    BY <1>8 DEF StartMutationQueue
  <2>2. FreshRemote \in Remote /\ FreshRemote.pending = <<>>
    BY DEF FreshRemote, Remote, StreamState, Unknown
  <2>3. Served(FreshRemote)
    BY <2>2 DEF Served
  <2> QED
    BY <2>1, <2>2, <2>3, FillServed
<1>9. CASE UNCHANGED remote
  BY <1>9 DEF Served, IsStarted
<1>10. \/ WriteMutations \/ TokenArrived \/ BackoffElapsed
       \/ IdleTimer \/ StreamFailed \/ ConnectionLost
       \/ AnswerHandshake \/ ApplyWrite \/ HandshakeDone
       \/ \E type \in Closing : EndStream(type)
       \/ WriteAcknowledged \/ WriteRefused
       \/ \E u \in Users : StartMutationQueue(u)
       \/ UNCHANGED remote
  <2>1. Restart => \E u \in Users : StartMutationQueue(u)
    BY UserFacts DEF Restart
  <2> QED
    BY <2>1 DEF Next, vars, ApplyHalfClosed, UserDidChange, Listen, Unlisten, ApplyRemoteEvent
<1> QED
  BY <1>2, <1>3, <1>4, <1>5, <1>6, <1>7, <1>8, <1>9, <1>10

\* There is nothing to serve when the device starts, and what a restart and a
\* new stream find in the pipeline is served ever after.
LEMMA AlwaysServed == Spec => [](Base /\ Served(remote))
<1>1. Init => Served(remote)
  BY DEF Init, FreshRemote, Served
<1>2. Base /\ Served(remote) /\ [Next]_vars => Served(remote)'
  BY NextServed DEF Served, IsStarted
<1> QED
  BY <1>1, <1>2, InitBase, NextBase, PTL DEF Spec

\* A stream that is open with a batch in the pipeline has an answer to be
\* handled, or a request to be answered.
LEMMA OpenAtHand ==
  ASSUME Base, remote.state = "Open", remote.pending # <<>>
  PROVE  remote.responses # <<>> \/ Listens(remote)
<1> SUFFICES ASSUME remote.responses = <<>> PROVE Listens(remote)
  OBVIOUS
<1>1. ~Ended(remote) /\ Len(remote.responses) = 0
  BY DEF Ended
<1>2. Answered(remote) = 0
  BY <1>1 DEF Answered
<1>3. remote.pending \in Seq(Batch) /\ Len(remote.pending) \in Nat /\ Len(remote.pending) # 0
  BY UserFacts DEF Remote
<1>4. StreamOk(remote, log)
  BY DEF Base, StreamInv
<1>5. remote.requests # <<>>
  <2>1. CASE remote.handshakeComplete
    <3>1. Answered(remote) + Len(remote.requests) = Len(remote.pending)
      BY <1>4, <2>1 DEF StreamOk, WritesOk
    <3>2. Len(<<>>) = 0
      OBVIOUS
    <3> QED
      BY <1>2, <1>3, <3>1, <3>2
  <2>2. CASE ~remote.handshakeComplete
    <3>1. HandshakeOk(remote)
      BY <2>2, <1>4 DEF StreamOk
    <3>2. remote.requests = <<Handshake>>
      BY <1>2, <3>1 DEF HandshakeOk
    <3>3. <<Handshake>> # <<>>
      OBVIOUS
    <3> QED
      BY <3>2, <3>3
  <2> QED
    BY <2>1, <2>2
<1> QED
  BY <1>1, <1>5 DEF Listens

\* As long as the user at work has a batch to send, a step that the SDK's
\* timers, its worker queue or the backend will take is at hand: the pipeline
\* is never left behind with a stream nobody starts, nor a stream open on which
\* each end waits for the other.
THEOREM WorkAtHand == Spec => [](Unacked(user) # <<>> => StepAtHand)
<1>1. Base /\ Served(remote) => (Unacked(user) # <<>> => StepAtHand)
  <2> SUFFICES ASSUME Base, Served(remote), Unacked(user) # <<>> PROVE StepAtHand
    OBVIOUS
  <2> DEFINE p == remote.pending
             x == Unacked(user)
             m == MaxPendingWrites
  <2>1. p # <<>>
    <3>1. /\ p \in Seq(Batch) /\ Len(p) \in Nat
          /\ Len(p) = Len(x) \/ Len(p) = m
      BY PipelineAt
    <3>2. x \in Seq(Batch) /\ x # <<>>
      BY UnackedFacts DEF Suffix
    <3>3. m \in Nat \ {0}
      BY PipelineAssumption
    <3> HIDE DEF p, x, m
    <3>4. Len(x) # 0
      BY <3>2
    <3>5. Len(<<>>) = 0
      OBVIOUS
    <3> QED
      BY <3>1, <3>3, <3>4, <3>5
  <2>2. remote.state \in {"Backoff", "Auth", "Open"}
    BY <2>1 DEF Served, IsStarted
  <2>3. CASE remote.state = "Open" /\ remote.responses # <<>>
    <3>1. remote.responses \in Seq(Response)
      BY UserFacts DEF Remote
    <3>2. Head(remote.responses) \in Response
      BY <2>3, <3>1
    <3>3. Head(remote.responses).type \in {"handshake", "ack"} \cup Closing
      BY <3>2 DEF Response
    <3> QED
      BY <2>3, <3>3 DEF StepAtHand, Received
  <2>4. CASE remote.state = "Open" /\ remote.responses = <<>>
    BY <2>1, <2>4, OpenAtHand DEF StepAtHand
  <2> QED
    BY <2>2, <2>3, <2>4 DEF StepAtHand
<1> QED
  BY <1>1, AlwaysServed, PTL
=============================================================================
