-------------------------- MODULE QueryReadProofs ---------------------------
(***************************************************************************)
(* Theorems about QueryRead, for any number of calls, versions, faults and *)
(* refusals.                                                               *)
(***************************************************************************)
EXTENDS QueryRead, TLAPS, SequenceTheorems, FiniteSetTheorems, WellFoundedInduction

-----------------------------------------------------------------------------
(* The inductive invariants *)

\* The stream's two directions are empty unless it is open, a closing message
\* is the last one, and every failure counted was a fault.
StreamInv ==
    /\ sdk.state # "Open" => sdk.requests = <<>> /\ sdk.responses = <<>>
    /\ \A k \in DOMAIN sdk.responses :
         sdk.responses[k].type = "closed" => k = Len(sdk.responses)
    /\ sdk.failures + (IF Broken THEN 1 ELSE 0) <= faults

\* A query with a listener has a snapshot.
SnapshotThere == Listened(sdk) => sdk.snapshot # None

\* Where a call is among the blocks posted, the listeners and the events.
Adds(blocks, k)     == {i \in DOMAIN blocks : blocks[i].op = "add" /\ blocks[i].call = k}
Slots(listeners, k) == {i \in DOMAIN listeners : listeners[i] = k}
Events(main, k)     == {i \in DOMAIN main : main[i].call = k}

\* No more events will be raised for the call.
Over(blocks, listeners, k) == Adds(blocks, k) = {} /\ Slots(listeners, k) = {}

\* A call becomes a listener once.  After an error it is over, and so is it
\* when it has an answer and is not muted; no event of it is left then.
CallOk(k, asked, blocks, listeners, main, given, silent) ==
    /\ ~asked => Over(blocks, listeners, k) /\ Events(main, k) = {} /\ given = <<>>
    /\ \A i, j \in Adds(blocks, k) : i = j
    /\ \A i, j \in Slots(listeners, k) : i = j
    /\ Adds(blocks, k) # {} => Slots(listeners, k) = {}
    /\ \A i \in Events(main, k) : main[i].answer = None =>
         Over(blocks, listeners, k) /\ \A j \in Events(main, k) : j <= i
    /\ given # <<>> /\ ~silent => Over(blocks, listeners, k) /\ Events(main, k) = {}
    /\ Len(given) <= 1

\* Every call is in order; the backend's versions start at 1.
CallInv ==
    /\ version # 0
    /\ \A k \in Calls : CallOk(k, since[k] # 0, posted, sdk.listeners, sdk.main,
                                answers[k], k \in muted)

\* The version the next snapshot will store.
Gathered(c) == IF c.document = 0 THEN c.cache ELSE c.document

\* What the other messages are.
IsDocument(message) == message.type = "document"
IsMark(message)     == message.type \in {"current", "nochange"}
IsSnapshot(message) == message.type = "snapshot"

\* Versions only grow from the aggregator over the messages to the backend.
DocumentsOk(gathered, messages, newest) ==
    \A i \in DOMAIN messages : IsDocument(messages[i]) =>
      /\ gathered <= messages[i].version /\ messages[i].version <= newest
      /\ \A j \in DOMAIN messages : IsDocument(messages[j]) /\ i < j =>
           messages[i].version <= messages[j].version

\* The cache is never newer than what was gathered, nor that than the backend.
DocumentInv ==
    /\ listenedAt <= version
    /\ sdk.cache <= Gathered(sdk) /\ Gathered(sdk) <= version
    /\ DocumentsOk(Gathered(sdk), sdk.responses, version)

\* How many of the messages are counted, and how many there will be.
Answers(messages) == Cardinality({k \in DOMAIN messages : IsResponse(messages[k])})
Owing(c) == Len(c.requests) + Answers(c.responses)

\* No response is missed.
CountInv == ~crossed => Ensure(sdk.target).outstanding >= Owing(sdk)

\* The message belongs to the listen that the client has now, and will be
\* taken in: no request was sent after it, and no response is to come.
Fresh(c, i) ==
    /\ Listened(c) /\ c.requests = <<>>
    /\ Ensure(c.target).outstanding = Owing(c)
    /\ \A j \in DOMAIN c.responses : j >= i => ~IsResponse(c.responses[j])

\* A mark comes behind the document it speaks of, and a snapshot behind its
\* mark; the mark is newer than the listen.
InPlace(messages, gathered, listened, i) ==
    /\ IsMark(messages[i]) =>
         /\ messages[i].version >= listened
         /\ \/ messages[i].version <= gathered
            \/ /\ i > 1 /\ IsDocument(messages[i - 1])
               /\ messages[i - 1].version = messages[i].version
    /\ IsSnapshot(messages[i]) =>
         IF i = 1 THEN gathered >= listened ELSE IsMark(messages[i - 1])

\* The messages that will be taken in are in place.
FreshMessages ==
    \A i \in DOMAIN sdk.responses :
      Fresh(sdk, i) => InPlace(sdk.responses, Gathered(sdk), listenedAt, i)

\* What the backend is told, and what the aggregator has heard, is covered.
TokensCovered ==
    /\ sdk.token <= sdk.cache
    /\ \A i \in DOMAIN sdk.requests : sdk.requests[i].version <= sdk.cache
    /\ serving # None /\ ~serving.current => serving.sent <= sdk.cache
    /\ sdk.target # None => sdk.target.token <= Gathered(sdk)

\* A current view, and the copy it shows, are as new as the listen.
ViewFresh ==
    Listened(sdk) /\ sdk.current =>
      sdk.snapshot.version >= listenedAt /\ sdk.cache >= listenedAt

\* All of that holds until a refusal has crossed other requests.
MessageInv == ~crossed => FreshMessages /\ TokensCovered /\ ViewFresh



-----------------------------------------------------------------------------
(* Facts about sequences *)

\* Where the elements of a longer sequence are, ...
LEMMA AppendAt ==
  ASSUME NEW S, NEW s \in Seq(S), NEW a \in S
  PROVE  /\ Append(s, a) \in Seq(S) /\ Append(s, a) # <<>>
         /\ Len(s) \in Nat /\ DOMAIN s = 1 .. Len(s) /\ Len(Append(s, a)) = Len(s) + 1
         /\ DOMAIN Append(s, a) = 1 .. Len(s) + 1
         /\ Append(s, a)[Len(s) + 1] = a
         /\ \A k \in DOMAIN s : Append(s, a)[k] = s[k]
OBVIOUS

\* ... and those of a shorter one.
LEMMA TailAt ==
  ASSUME NEW S, NEW s \in Seq(S), s # <<>>
  PROVE  /\ Head(s) = s[1] /\ 1 \in DOMAIN s /\ Head(s) \in S
         /\ Len(s) \in Nat /\ DOMAIN s = 1 .. Len(s) /\ Len(s) >= 1
         /\ Tail(s) \in Seq(S) /\ Len(Tail(s)) = Len(s) - 1
         /\ DOMAIN Tail(s) = 1 .. Len(s) - 1
         /\ \A k \in DOMAIN Tail(s) : k + 1 \in DOMAIN s /\ Tail(s)[k] = s[k + 1]
OBVIOUS

\* The n-th member of a set of positions exists.
LEMMA NthKept ==
  ASSUME NEW m \in Nat, NEW K \in SUBSET (1 .. m), NEW n \in 1 .. Cardinality(K)
  PROVE  \E k \in K : Cardinality({j \in K : j <= k}) = n
<1> DEFINE Upto(i)  == {j \in K : j <= i}
           count(i) == Cardinality(Upto(i))
           Far      == {i \in Nat : count(i) >= n}
           R        == {ss \in Nat \X Nat : ss[1] < ss[2]}
<1>0. \A k \in K : k \in Nat /\ 1 <= k /\ k <= m
  OBVIOUS
<1>1. IsFiniteSet(K)
  <2>1. IsFiniteSet(1 .. m)
    BY FS_Interval
  <2> QED
    BY <2>1, FS_Subset
<1>2. \A i : IsFiniteSet(Upto(i))
  <2> SUFFICES ASSUME NEW i PROVE IsFiniteSet(Upto(i))
    OBVIOUS
  <2>1. Upto(i) \in SUBSET K
    OBVIOUS
  <2> QED
    BY <1>1, <2>1, FS_Subset
<1>3. \A i : count(i) \in Nat
  BY <1>2, FS_CardinalityType
<1>4. Cardinality(K) \in Nat
  BY <1>1, FS_CardinalityType
<1>5. m \in Far
  <2>1. Upto(m) = K
    BY <1>0
  <2> QED
    BY <1>4, <2>1
<1>6. IsWellFoundedOn(R, Nat)
  BY NatLessThanWellFounded DEF OpToRel
<1>7. PICK i \in Far : \A y \in Far : ~ (<<y, i>> \in R)
  <2>1. Far \subseteq Nat /\ Far # {}
    BY <1>5
  <2> HIDE DEF Far, R
  <2> QED
    BY <1>6, <2>1, WFMin
<1>8. i \in Nat /\ count(i) >= n
  OBVIOUS
<1>9. i # 0
  <2>1. \A k \in K : ~ (k <= 0)
    BY <1>0
  <2>2. Upto(0) = {}
    BY <2>1
  <2>3. count(0) = 0
    BY <2>2, FS_EmptySet
  <2> QED
    BY <1>8, <2>3
<1>10. i - 1 \in Nat /\ count(i - 1) < n
  <2>1. i - 1 \in Nat
    BY <1>8, <1>9
  <2>2. <<i - 1, i>> \in R
    BY <1>8, <2>1
  <2>3. i - 1 \notin Far
    BY <1>7, <2>2
  <2>4. ~ (count(i - 1) >= n)
    BY <2>1, <2>3
  <2>5. count(i - 1) \in Nat
    BY <1>3
  <2> HIDE DEF count
  <2> QED
    BY <2>1, <2>4, <2>5
<1>11. ASSUME i \notin K PROVE FALSE
  <2>1. \A k \in K : k <= i <=> k <= i - 1
    BY <1>0, <1>8, <1>10, <1>11
  <2>2. Upto(i) = Upto(i - 1)
    BY <2>1
  <2>3. count(i) = count(i - 1)
    BY <2>2
  <2>4. count(i) \in Nat
    BY <1>3
  <2> HIDE DEF count
  <2> QED
    BY <1>8, <1>10, <2>3, <2>4
<1>12. count(i) = count(i - 1) + 1
  <2>1. \A k \in K : k <= i <=> k <= i - 1 \/ k = i
    BY <1>0, <1>8, <1>10
  <2>2. i \in K /\ ~ (i <= i - 1)
    BY <1>8, <1>11
  <2>3. Upto(i) = Upto(i - 1) \cup {i} /\ i \notin Upto(i - 1)
    BY <1>8, <2>1, <2>2
  <2>4. IsFiniteSet(Upto(i - 1))
    BY <1>2
  <2> HIDE DEF Upto
  <2> QED
    BY <2>3, <2>4, FS_AddElement
<1>13. count(i) = n
  <2>1. count(i) \in Nat /\ count(i - 1) \in Nat
    BY <1>3
  <2> HIDE DEF count
  <2> QED
    BY <1>8, <1>10, <1>12, <2>1
<1> QED
  BY <1>11, <1>13

\* What is among a set keeps its elements, and their positions apart.
LEMMA AmongFacts ==
  ASSUME NEW S, NEW s \in Seq(S), NEW T
  PROVE  /\ Among(s, T) \in Seq(S)
         /\ \A n \in DOMAIN Among(s, T) :
              \E k \in DOMAIN s : Among(s, T)[n] = s[k] /\ s[k] \in T
         /\ (\A i, j \in DOMAIN s : s[i] = s[j] => i = j) =>
              \A i, j \in DOMAIN Among(s, T) : Among(s, T)[i] = Among(s, T)[j] => i = j
<1> DEFINE K        == {k \in DOMAIN s : s[k] \in T}
           place(k) == Cardinality({j \in K : j <= k})
           nth(n)   == CHOOSE k \in K : place(k) = n
<1>1. Among(s, T) = [n \in 1 .. Cardinality(K) |-> s[nth(n)]]
  BY DEF Among
<1>2. Len(s) \in Nat /\ K \in SUBSET (1 .. Len(s)) /\ K \subseteq DOMAIN s
  OBVIOUS
<1>3. \A n \in 1 .. Cardinality(K) : nth(n) \in K /\ place(nth(n)) = n
  <2> SUFFICES ASSUME NEW n \in 1 .. Cardinality(K)
               PROVE  nth(n) \in K /\ place(nth(n)) = n
    OBVIOUS
  <2>1. \E k \in K : place(k) = n
    BY <1>2, NthKept
  <2> HIDE DEF place, K
  <2> QED
    BY <2>1
<1>4. Cardinality(K) \in Nat
  <2>1. IsFiniteSet(1 .. Len(s))
    BY <1>2, FS_Interval
  <2>2. IsFiniteSet(K)
    BY <1>2, <2>1, FS_Subset
  <2> QED
    BY <2>2, FS_CardinalityType
<1>5. \A n \in 1 .. Cardinality(K) : s[nth(n)] \in S /\ s[nth(n)] \in T /\ nth(n) \in DOMAIN s
  <2>1. \A k \in K : k \in DOMAIN s /\ s[k] \in T /\ s[k] \in S
    OBVIOUS
  <2> HIDE DEF nth, place, K
  <2> QED
    BY <1>3, <2>1
<1> HIDE DEF nth, place, K
<1>6. Among(s, T) \in Seq(S)
  BY <1>1, <1>4, <1>5
<1>7. \A i, j \in 1 .. Cardinality(K) : nth(i) = nth(j) => i = j
  BY <1>3
<1>8. DOMAIN Among(s, T) = 1 .. Cardinality(K)
  BY <1>1
<1> QED
  BY <1>1, <1>5, <1>6, <1>7, <1>8

-----------------------------------------------------------------------------
(* What the operators do to the client *)

\* What the event manager and the tracker leave alone.
Frame(c, d) ==
    /\ d.listeners = c.listeners /\ d.state = c.state /\ d.idle = c.idle
    /\ d.requests = c.requests /\ d.responses = c.responses
    /\ d.target = c.target /\ d.document = c.document
    /\ d.cache = c.cache /\ d.token = c.token

\* Events with a snapshot for some of the calls are added to the main queue.
MoreEvents(old, new, who) ==
    /\ Len(old) <= Len(new)
    /\ \A n \in DOMAIN old : new[n] = old[n]
    /\ \A n \in DOMAIN new : n > Len(old) =>
         new[n].answer # None /\ \E k \in DOMAIN who : new[n].call = who[k]

\* The online state, or a snapshot, was broadcast: some listeners have events,
\* and the view may have stopped being current.
Broadcasts(c, d) ==
    /\ d \in Sdk
    /\ Frame(c, d)
    /\ MoreEvents(c.main, d.main, c.listeners)
    /\ Listened(c) => d.snapshot # None /\ d.snapshot.version = c.snapshot.version
    /\ d.current => c.current

\* Nothing happens without a broadcast.
LEMMA MoreEventsSame ==
  ASSUME NEW old \in Seq(Event), NEW who
  PROVE  MoreEvents(old, old, who)
BY DEF MoreEvents

\* Events are added in two steps.
LEMMA MoreEventsTwice ==
  ASSUME NEW a \in Seq(Event), NEW b \in Seq(Event), NEW c \in Seq(Event), NEW who,
         MoreEvents(a, b, who), MoreEvents(b, c, who)
  PROVE  MoreEvents(a, c, who)
<1>1. /\ Len(a) \in Nat /\ Len(b) \in Nat /\ Len(c) \in Nat
      /\ DOMAIN a = 1 .. Len(a) /\ DOMAIN b = 1 .. Len(b) /\ DOMAIN c = 1 .. Len(c)
  OBVIOUS
<1>2. Len(a) <= Len(b) /\ Len(b) <= Len(c)
  BY DEF MoreEvents
<1>3. \A n \in DOMAIN a : n \in DOMAIN b
  BY <1>1, <1>2
<1>4. \A n \in DOMAIN c : n \in Nat /\ (n > Len(b) \/ n \in DOMAIN b)
  BY <1>1
<1>5. \A n \in DOMAIN a : c[n] = a[n]
  BY <1>3 DEF MoreEvents
<1>6. \A n \in DOMAIN c : n > Len(a) =>
        c[n].answer # None /\ \E k \in DOMAIN who : c[n].call = who[k]
  BY <1>4 DEF MoreEvents
<1> QED
  BY <1>1, <1>2, <1>5, <1>6 DEF MoreEvents

\* Each listener that raises a snapshot is told it, once.
LEMMA RaiseFacts ==
  ASSUME NEW c \in Sdk, NEW who \in Seq(Calls), NEW snapshot,
         \A n \in DOMAIN who : \E k \in DOMAIN c.listeners : who[n] = c.listeners[k],
         who # <<>> => snapshot \in Snapshot
  PROVE  LET d == Raise(c, who, snapshot) IN
         /\ d \in Sdk /\ Frame(c, d) /\ MoreEvents(c.main, d.main, c.listeners)
         /\ d.snapshot = c.snapshot /\ d.current = c.current
         /\ d.online = c.online /\ d.failures = c.failures /\ d.timer = c.timer
<1> DEFINE ready   == IF ShouldRaiseInitial(snapshot, c.online) THEN Calls ELSE c.raised
           raising == Among(who, ready)
           events  == [k \in DOMAIN raising |-> [call |-> raising[k], answer |-> snapshot]]
           d       == [c EXCEPT !.raised = @ \cup Range(raising), !.main = @ \o events]
<1>1. d = Raise(c, who, snapshot)
  BY DEF Raise
<1>2. /\ raising \in Seq(Calls)
      /\ \A n \in DOMAIN raising : \E k \in DOMAIN who : raising[n] = who[k]
  <2> HIDE DEF ready
  <2> QED
    BY AmongFacts
<1>3. raising # <<>> => snapshot \in Snapshot /\ snapshot # None
  BY <1>2, NoneAssumption
<1>4. events \in Seq(Event) /\ Len(events) = Len(raising) /\ DOMAIN events = DOMAIN raising
  <2>1. Len(raising) \in Nat /\ DOMAIN raising = 1 .. Len(raising)
    BY <1>2
  <2>2. \A k \in DOMAIN raising : [call |-> raising[k], answer |-> snapshot] \in Event
    <3> SUFFICES ASSUME NEW k \in DOMAIN raising
                 PROVE  [call |-> raising[k], answer |-> snapshot] \in Event
      OBVIOUS
    <3>1. raising[k] \in Calls /\ raising # <<>>
      BY <1>2
    <3> QED
      BY <1>3, <3>1 DEF Event
  <2> HIDE DEF raising
  <2>3. events \in [1 .. Len(raising) -> Event]
    BY <2>1, <2>2
  <2> QED
    BY <2>1, <2>3
<1>5. \A n \in DOMAIN events :
        /\ events[n].answer # None
        /\ \E k \in DOMAIN c.listeners : events[n].call = c.listeners[k]
  <2> SUFFICES ASSUME NEW n \in DOMAIN events
               PROVE  /\ events[n].answer # None
                      /\ \E k \in DOMAIN c.listeners : events[n].call = c.listeners[k]
    OBVIOUS
  <2>1. n \in DOMAIN raising /\ events[n] = [call |-> raising[n], answer |-> snapshot]
    BY <1>4
  <2>2. raising # <<>>
    BY <1>2, <2>1
  <2>3. \E k \in DOMAIN c.listeners : raising[n] = c.listeners[k]
    BY <1>2, <2>1
  <2> QED
    BY <1>3, <2>1, <2>2, <2>3
<1>6. Range(raising) \subseteq Calls
  BY <1>2 DEF Range
<1> HIDE DEF events, raising
<1>7. c.main \in Seq(Event) /\ c.raised \subseteq Calls
  BY DEF Sdk
<1>8. MoreEvents(c.main, c.main \o events, c.listeners)
  <2> DEFINE new == c.main \o events
  <2>1. events \in Seq(Event)
    BY <1>4
  <2>2. /\ Len(new) = Len(c.main) + Len(events)
        /\ DOMAIN new = 1 .. Len(new) /\ DOMAIN c.main = 1 .. Len(c.main)
        /\ DOMAIN events = 1 .. Len(events)
        /\ Len(c.main) \in Nat /\ Len(events) \in Nat
    BY <1>7, <2>1
  <2>3. \A n \in DOMAIN c.main : new[n] = c.main[n]
    BY <1>7, <2>1
  <2>4. \A n \in DOMAIN new : n > Len(c.main) => new[n] = events[n - Len(c.main)]
    BY <1>7, <2>1
  <2> HIDE DEF new
  <2>5. ASSUME NEW n \in DOMAIN new, n > Len(c.main)
        PROVE  new[n].answer # None /\ \E k \in DOMAIN c.listeners : new[n].call = c.listeners[k]
    <3>1. n - Len(c.main) \in DOMAIN events
      BY <2>2, <2>5
    <3> QED
      BY <1>5, <2>4, <2>5, <3>1
  <2>6. Len(c.main) <= Len(new)
    BY <2>2
  <2>7. MoreEvents(c.main, new, c.listeners)
    BY <2>3, <2>5, <2>6 DEF MoreEvents
  <2> QED
    BY <2>7 DEF new
<1>9. c.main \o events \in Seq(Event)
  BY <1>4, <1>7
<1>10. /\ d.main = c.main \o events /\ Frame(c, d)
       /\ d.snapshot = c.snapshot /\ d.current = c.current
       /\ d.online = c.online /\ d.failures = c.failures /\ d.timer = c.timer
  BY DEF Sdk, Frame
<1>11. d \in Sdk
  BY <1>6, <1>7, <1>9 DEF Sdk
<1> QED
  BY <1>1, <1>8, <1>10, <1>11

\* Broadcasts follow one another.
LEMMA BroadcastsTwice ==
  ASSUME NEW a \in Sdk, NEW b, NEW c, Broadcasts(a, b), Broadcasts(b, c)
  PROVE  Broadcasts(a, c)
<1>1. b \in Sdk /\ c \in Sdk /\ b.listeners = a.listeners
  BY DEF Broadcasts, Frame
<1>2. a.main \in Seq(Event) /\ b.main \in Seq(Event) /\ c.main \in Seq(Event)
  BY <1>1 DEF Sdk
<1>3. MoreEvents(a.main, b.main, a.listeners) /\ MoreEvents(b.main, c.main, a.listeners)
  BY <1>1 DEF Broadcasts
<1>4. MoreEvents(a.main, c.main, a.listeners)
  BY <1>2, <1>3, MoreEventsTwice
<1> QED
  BY <1>1, <1>4 DEF Broadcasts, Frame, Listened

\* A client in which only the tracker's own fields differ.
LEMMA BroadcastsFrom ==
  ASSUME NEW a \in Sdk, NEW b \in Sdk, NEW c, Broadcasts(b, c), Frame(a, b),
         b.main = a.main, b.snapshot = a.snapshot, b.current => a.current
  PROVE  Broadcasts(a, c)
BY DEF Broadcasts, Frame, Listened

\* A snapshot is raised and kept.
LEMMA HandleSnapshotFacts ==
  ASSUME NEW c \in Sdk, NEW snapshot \in Snapshot
  PROVE  LET d == HandleSnapshot(c, snapshot) IN
         /\ d \in Sdk /\ Frame(c, d) /\ MoreEvents(c.main, d.main, c.listeners)
         /\ d.snapshot = snapshot /\ d.current = c.current
         /\ d.online = c.online /\ d.failures = c.failures /\ d.timer = c.timer
<1> DEFINE r == Raise(c, c.listeners, snapshot)
           d == [r EXCEPT !.snapshot = snapshot]
<1>1. d = HandleSnapshot(c, snapshot)
  BY DEF HandleSnapshot
<1>2. c.listeners \in Seq(Calls)
  BY DEF Sdk
<1>3. /\ r \in Sdk /\ Frame(c, r) /\ MoreEvents(c.main, r.main, c.listeners)
      /\ r.current = c.current
      /\ r.online = c.online /\ r.failures = c.failures /\ r.timer = c.timer
  BY <1>2, RaiseFacts
<1> HIDE DEF r
<1>4. d \in Sdk
  BY <1>3 DEF Sdk
<1>5. /\ Frame(r, d) /\ d.main = r.main /\ d.snapshot = snapshot /\ d.current = r.current
      /\ d.online = r.online /\ d.failures = r.failures /\ d.timer = r.timer
  BY <1>3 DEF Sdk, Frame
<1> QED
  BY <1>1, <1>3, <1>4, <1>5 DEF Frame

\* The view, when the device goes offline.
LEMMA TellViewFacts ==
  ASSUME NEW c \in Sdk, NEW online, Listened(c) => c.snapshot # None
  PROVE  LET d == TellView(c, online) IN
         /\ Broadcasts(c, d)
         /\ d.online = c.online /\ d.failures = c.failures /\ d.timer = c.timer
<1>1. CASE Listened(c) /\ c.current /\ online = "Offline"
  <2> DEFINE b    == [c EXCEPT !.current = FALSE]
             copy == [c.snapshot EXCEPT !.fromCache = TRUE]
             d    == HandleSnapshot(b, copy)
  <2>1. d = TellView(c, online)
    BY <1>1 DEF TellView
  <2>2. b \in Sdk /\ Frame(c, b) /\ b.main = c.main /\ b.listeners = c.listeners
        /\ b.online = c.online /\ b.failures = c.failures /\ b.timer = c.timer /\ ~b.current
    BY DEF Sdk, Frame
  <2>3. c.snapshot \in Snapshot
    BY <1>1 DEF Sdk
  <2>4. copy \in Snapshot /\ copy.version = c.snapshot.version /\ copy # None
    BY <2>3, NoneAssumption DEF Snapshot
  <2> HIDE DEF b, copy
  <2>5. /\ d \in Sdk /\ Frame(b, d) /\ MoreEvents(b.main, d.main, b.listeners)
        /\ d.snapshot = copy /\ d.current = b.current
        /\ d.online = b.online /\ d.failures = b.failures /\ d.timer = b.timer
    BY <2>2, <2>4, HandleSnapshotFacts
  <2> HIDE DEF d
  <2>6. Broadcasts(c, d)
    BY <2>2, <2>4, <2>5 DEF Broadcasts, Frame
  <2> QED
    BY <2>1, <2>2, <2>5, <2>6
<1>2. CASE ~ (Listened(c) /\ c.current /\ online = "Offline")
  <2>1. TellView(c, online) = c
    BY <1>2 DEF TellView
  <2>2. c.main \in Seq(Event)
    BY DEF Sdk
  <2> QED
    BY <1>2, <2>1, <2>2, MoreEventsSame DEF Broadcasts, Frame
<1> QED
  BY <1>1, <1>2

\* The listeners that wait for their first event.
LEMMA TellListenersFacts ==
  ASSUME NEW c \in Sdk, NEW online \in OnlineState, Listened(c) => c.snapshot # None
  PROVE  LET d == TellListeners(c, online) IN
         /\ Broadcasts(c, d)
         /\ d.online = online /\ d.failures = c.failures /\ d.timer = c.timer
<1> DEFINE b   == [c EXCEPT !.online = online]
           waiting == Calls \ c.raised
           who == Among(c.listeners, waiting)
           d   == Raise(b, who, c.snapshot)
<1>1. d = TellListeners(c, online)
  BY DEF TellListeners
<1>2. b \in Sdk /\ Frame(c, b) /\ b.main = c.main /\ b.listeners = c.listeners
      /\ b.snapshot = c.snapshot /\ b.current = c.current
      /\ b.online = online /\ b.failures = c.failures /\ b.timer = c.timer
  BY DEF Sdk, Frame
<1>3. c.listeners \in Seq(Calls)
  BY DEF Sdk
<1>4. /\ who \in Seq(Calls)
      /\ \A n \in DOMAIN who : \E k \in DOMAIN c.listeners : who[n] = c.listeners[k]
  <2> HIDE DEF waiting
  <2> QED
    BY <1>3, AmongFacts
<1>5. who # <<>> => c.snapshot \in Snapshot
  <2> SUFFICES ASSUME who # <<>> PROVE c.snapshot \in Snapshot
    OBVIOUS
  <2> HIDE DEF who
  <2>1. 1 \in DOMAIN who
    BY <1>4
  <2>2. Listened(c)
    BY <1>3, <1>4, <2>1 DEF Listened
  <2> QED
    BY <2>2 DEF Sdk
<1> HIDE DEF b, who
<1>6. /\ d \in Sdk /\ Frame(b, d) /\ MoreEvents(b.main, d.main, b.listeners)
      /\ d.snapshot = b.snapshot /\ d.current = b.current
      /\ d.online = b.online /\ d.failures = b.failures /\ d.timer = b.timer
  BY <1>2, <1>4, <1>5, RaiseFacts
<1> HIDE DEF d
<1>7. Broadcasts(c, d)
  BY <1>2, <1>6 DEF Broadcasts, Frame
<1> QED
  BY <1>1, <1>2, <1>6, <1>7

\* The tracker tells the view first.
LEMMA SetAndBroadcastFacts ==
  ASSUME NEW c \in Sdk, NEW online \in OnlineState, Listened(c) => c.snapshot # None
  PROVE  LET d == SetAndBroadcast(c, online) IN
         /\ Broadcasts(c, d)
         /\ d.online = online /\ d.failures = c.failures /\ d.timer = c.timer
<1>1. CASE online = c.online
  <2>1. SetAndBroadcast(c, online) = c
    BY <1>1 DEF SetAndBroadcast
  <2>2. c.main \in Seq(Event)
    BY DEF Sdk
  <2> QED
    BY <1>1, <2>1, <2>2, MoreEventsSame DEF Broadcasts, Frame
<1>2. CASE online # c.online
  <2> DEFINE b == TellView(c, online)
             d == TellListeners(b, online)
  <2>1. d = SetAndBroadcast(c, online)
    BY <1>2 DEF SetAndBroadcast
  <2>2. Broadcasts(c, b) /\ b.online = c.online /\ b.failures = c.failures /\ b.timer = c.timer
    BY TellViewFacts
  <2> HIDE DEF b
  <2>3. b \in Sdk /\ (Listened(b) => b.snapshot # None)
    BY <2>2 DEF Broadcasts, Frame, Listened
  <2>4. Broadcasts(b, d) /\ d.online = online /\ d.failures = b.failures /\ d.timer = b.timer
    BY <2>3, TellListenersFacts
  <2> HIDE DEF d
  <2>5. Broadcasts(c, d)
    BY <2>2, <2>4, BroadcastsTwice
  <2> QED
    BY <2>1, <2>2, <2>4, <2>5
<1> QED
  BY <1>1, <1>2

\* The HARD_ASSERTs of the tracker: its timer runs only while the state is
\* unknown, and a device that is online has no failures counted.
Tracked(c) ==
    /\ c.timer => c.online = "Unknown"
    /\ c.online = "Online" => c.failures = 0

\* Any word from the backend, and any restart of the stream.
LEMMA UpdateStateFacts ==
  ASSUME NEW c \in Sdk, NEW online \in OnlineState, Listened(c) => c.snapshot # None
  PROVE  LET d == UpdateState(c, online) IN
         /\ Broadcasts(c, d)
         /\ d.online = online /\ d.failures = 0 /\ ~d.timer
<1> DEFINE b == [c EXCEPT !.timer = FALSE, !.failures = 0]
           d == SetAndBroadcast(b, online)
<1>1. d = UpdateState(c, online)
  BY DEF UpdateState
<1>2. b \in Sdk /\ Frame(c, b) /\ b.main = c.main /\ b.snapshot = c.snapshot
      /\ b.current = c.current /\ b.failures = 0 /\ ~b.timer
  <2>1. 0 \in 0 .. MaxFaults
    BY BoundsAssumption
  <2>2. b \in Sdk
    BY <2>1 DEF Sdk
  <2>3. /\ b.main = c.main /\ b.snapshot = c.snapshot
        /\ b.current = c.current /\ b.failures = 0 /\ b.timer = FALSE
    BY DEF Sdk
  <2>4. Frame(c, b)
    BY DEF Sdk, Frame
  <2> QED
    BY <2>2, <2>3, <2>4
<1>3. Listened(b) => b.snapshot # None
  BY <1>2 DEF Frame, Listened
<1> HIDE DEF b
<1>4. Broadcasts(b, d) /\ d.online = online /\ d.failures = b.failures /\ d.timer = b.timer
  BY <1>2, <1>3, SetAndBroadcastFacts
<1> HIDE DEF d
<1>5. Broadcasts(c, d)
  BY <1>2, <1>4, BroadcastsFrom
<1> QED
  BY <1>1, <1>2, <1>4, <1>5

\* The timer is set by the first attempt to open a stream.
LEMMA HandleWatchStreamStartFacts ==
  ASSUME NEW c \in Sdk, Tracked(c), Listened(c) => c.snapshot # None
  PROVE  LET d == HandleWatchStreamStart(c) IN
         /\ Broadcasts(c, d) /\ Tracked(d) /\ d.failures = c.failures
<1>1. CASE c.failures # 0
  <2>1. HandleWatchStreamStart(c) = c
    BY <1>1 DEF HandleWatchStreamStart
  <2>2. c.main \in Seq(Event)
    BY DEF Sdk
  <2> QED
    BY <2>1, <2>2, MoreEventsSame DEF Broadcasts, Frame
<1>2. CASE c.failures = 0
  <2> DEFINE b == SetAndBroadcast(c, "Unknown")
             d == [b EXCEPT !.timer = TRUE]
  <2>1. d = HandleWatchStreamStart(c)
    BY <1>2 DEF HandleWatchStreamStart
  <2>2. Broadcasts(c, b) /\ b.online = "Unknown" /\ b.failures = 0
    BY <1>2, SetAndBroadcastFacts DEF OnlineState
  <2> HIDE DEF b
  <2>3. b \in Sdk
    BY <2>2 DEF Broadcasts
  <2>4. d \in Sdk /\ Frame(b, d) /\ d.main = b.main /\ d.snapshot = b.snapshot
        /\ d.current = b.current /\ d.failures = 0 /\ d.online = "Unknown"
    BY <2>2, <2>3 DEF Sdk, Frame
  <2> HIDE DEF d
  <2>5. Broadcasts(c, d)
    BY <2>2, <2>4 DEF Broadcasts, Frame
  <2> QED
    BY <1>2, <2>1, <2>4, <2>5 DEF Tracked
<1> QED
  BY <1>1, <1>2

\* A failure is counted, or the state is given up.
LEMMA HandleWatchStreamFailureFacts ==
  ASSUME NEW c \in Sdk, Tracked(c), Listened(c) => c.snapshot # None, c.failures < MaxFaults
  PROVE  LET d == HandleWatchStreamFailure(c) IN
         /\ Broadcasts(c, d) /\ Tracked(d)
         /\ d.failures = c.failures \/ d.failures = c.failures + 1
<1> DEFINE b == [c EXCEPT !.failures = @ + 1]
           o == [b EXCEPT !.timer = FALSE]
<1>0. c.failures \in 0 .. MaxFaults /\ MaxFaults \in Nat
  BY BoundsAssumption DEF Sdk
<1>1. /\ b \in Sdk /\ Frame(c, b) /\ b.main = c.main /\ b.snapshot = c.snapshot
      /\ b.current = c.current /\ b.failures = c.failures + 1
      /\ b.online = c.online /\ b.timer = c.timer
  <2>1. c.failures + 1 \in 0 .. MaxFaults
    BY <1>0
  <2>2. b \in Sdk
    BY <2>1 DEF Sdk
  <2>3. /\ b.main = c.main /\ b.snapshot = c.snapshot /\ b.current = c.current
        /\ b.failures = c.failures + 1 /\ b.online = c.online /\ b.timer = c.timer
    BY DEF Sdk
  <2>4. Frame(c, b)
    BY DEF Sdk, Frame
  <2> QED
    BY <2>2, <2>3, <2>4
<1>2. /\ o \in Sdk /\ Frame(c, o) /\ o.main = c.main /\ o.snapshot = c.snapshot
      /\ o.current = c.current /\ o.failures = c.failures + 1 /\ ~o.timer
  <2> HIDE DEF b
  <2>1. o \in Sdk
    BY <1>1 DEF Sdk
  <2>2. /\ o.main = b.main /\ o.snapshot = b.snapshot /\ o.current = b.current
        /\ o.failures = b.failures /\ o.timer = FALSE
    BY <1>1 DEF Sdk
  <2>3. Frame(b, o)
    BY <1>1 DEF Sdk, Frame
  <2> QED
    BY <1>1, <2>1, <2>2, <2>3 DEF Frame
<1>3. c.main \in Seq(Event)
  BY DEF Sdk
<1>4. CASE c.online = "Online"
  <2> DEFINE d == SetAndBroadcast(c, "Unknown")
  <2>1. d = HandleWatchStreamFailure(c)
    BY <1>4 DEF HandleWatchStreamFailure
  <2>2. Broadcasts(c, d) /\ d.online = "Unknown" /\ d.failures = c.failures
    BY SetAndBroadcastFacts DEF OnlineState
  <2> HIDE DEF d
  <2> QED
    BY <2>1, <2>2 DEF Tracked
<1>5. CASE c.online # "Online" /\ b.failures < MaxWatchStreamFailures
  <2>1. b = HandleWatchStreamFailure(c)
    BY <1>5 DEF HandleWatchStreamFailure
  <2> HIDE DEF b
  <2>2. Broadcasts(c, b)
    BY <1>1, <1>3, MoreEventsSame DEF Broadcasts
  <2> QED
    BY <1>1, <1>5, <2>1, <2>2 DEF Tracked
<1>6. CASE c.online # "Online" /\ ~ (b.failures < MaxWatchStreamFailures)
  <2> DEFINE d == SetAndBroadcast(o, "Offline")
  <2>1. d = HandleWatchStreamFailure(c)
    BY <1>6 DEF HandleWatchStreamFailure
  <2> HIDE DEF o
  <2>2. Listened(o) => o.snapshot # None
    BY <1>2 DEF Frame, Listened
  <2>3. Broadcasts(o, d) /\ d.online = "Offline" /\ d.failures = o.failures /\ d.timer = o.timer
    BY <1>2, <2>2, SetAndBroadcastFacts DEF OnlineState
  <2> HIDE DEF d
  <2>4. Broadcasts(c, d)
    BY <1>2, <2>3, BroadcastsFrom
  <2> QED
    BY <1>2, <2>1, <2>3, <2>4 DEF Tracked
<1> QED
  BY <1>4, <1>5, <1>6

\* The part of TypeOK about the timer.
Timed(c) == Tracked(c) /\ (~IsStarted(c) /\ c.failures = 0 => ~c.timer)

\* The listeners may have been told something, and nothing was stored.
Told(c, d) ==
    /\ d \in Sdk
    /\ d.listeners = c.listeners /\ d.cache = c.cache /\ d.token = c.token
    /\ MoreEvents(c.main, d.main, c.listeners)
    /\ Listened(c) => d.snapshot # None /\ d.snapshot.version = c.snapshot.version
    /\ d.current => c.current

\* There is no stream any more, or not yet; the aggregator is the old one or
\* an empty one.
Ended(c, d) ==
    /\ Told(c, d)
    /\ d.state # "Open" /\ d.requests = <<>> /\ d.responses = <<>>
    /\ \/ d.target = None /\ d.document = 0
       \/ d.target = c.target /\ d.document = c.document

\* A stream that has ended stays so.
LEMMA EndedTwice ==
  ASSUME NEW a \in Sdk, NEW b, NEW c, Ended(a, b), Ended(b, c)
  PROVE  Ended(a, c)
<1>1. b \in Sdk /\ c \in Sdk /\ b.listeners = a.listeners
  BY DEF Ended, Told
<1>2. a.main \in Seq(Event) /\ b.main \in Seq(Event) /\ c.main \in Seq(Event)
  BY <1>1 DEF Sdk
<1>3. MoreEvents(a.main, b.main, a.listeners) /\ MoreEvents(b.main, c.main, a.listeners)
  BY <1>1 DEF Ended, Told
<1>4. MoreEvents(a.main, c.main, a.listeners)
  BY <1>2, <1>3, MoreEventsTwice
<1> QED
  BY <1>1, <1>4 DEF Ended, Told, Listened

\* A broadcast without a stream.
LEMMA BroadcastsEnded ==
  ASSUME NEW a \in Sdk, NEW b, Broadcasts(a, b),
         a.state # "Open", a.requests = <<>>, a.responses = <<>>
  PROVE  Ended(a, b)
BY DEF Broadcasts, Frame, Ended, Told

\* The stream is closed.
LEMMA CloseFacts ==
  ASSUME NEW c \in Sdk, NEW finalState \in {"Initial", "Error"}, Listened(c) => c.snapshot # None
  PROVE  LET d == Close(c, finalState) IN
         /\ Ended(c, d) /\ d.failures = c.failures /\ d.snapshot = c.snapshot
         /\ Tracked(c) => Tracked(d)
<1> DEFINE d == Close(c, finalState)
<1>1. <<>> \in Seq(Request) /\ <<>> \in Seq(Message) /\ finalState \in StreamState
  BY DEF StreamState
<1>2. d \in Sdk
  BY <1>1 DEF Close, Sdk
<1>3. /\ d.listeners = c.listeners /\ d.cache = c.cache /\ d.token = c.token
      /\ d.main = c.main /\ d.snapshot = c.snapshot /\ d.current = c.current
      /\ d.state = finalState /\ d.requests = <<>> /\ d.responses = <<>>
      /\ d.target = c.target /\ d.document = c.document
      /\ d.online = c.online /\ d.failures = c.failures /\ d.timer = c.timer
  BY DEF Close, Sdk
<1> HIDE DEF d
<1>4. c.main \in Seq(Event)
  BY DEF Sdk
<1>5. MoreEvents(c.main, d.main, c.listeners)
  BY <1>3, <1>4, MoreEventsSame
<1>6. d.state # "Open"
  BY <1>3
<1>7. Ended(c, d)
  BY <1>2, <1>3, <1>5, <1>6 DEF Ended, Told
<1>8. Tracked(c) => Tracked(d)
  BY <1>3 DEF Tracked
<1> QED
  BY <1>3, <1>7, <1>8 DEF d

\* A stream is made, with an empty aggregator.
LEMMA StartWatchStreamFacts ==
  ASSUME NEW c \in Sdk, Tracked(c), Listened(c) => c.snapshot # None,
         c.requests = <<>>, c.responses = <<>>
  PROVE  LET d == StartWatchStream(c) IN
         Ended(c, d) /\ Timed(d) /\ d.failures = c.failures
<1> DEFINE next == IF c.state = "Error" THEN "Backoff" ELSE "Auth"
           b == [c EXCEPT !.target = None, !.document = 0, !.state = next]
           d == HandleWatchStreamStart(b)
<1>1. d = StartWatchStream(c)
  BY DEF StartWatchStream, Sdk
<1>2. 0 \in Versions /\ next \in StreamState /\ next \in {"Backoff", "Auth"}
  BY BoundsAssumption DEF Versions, StreamState
<1> HIDE DEF next
<1>3. b \in Sdk
  BY <1>2 DEF Sdk
<1>4. /\ b.listeners = c.listeners /\ b.cache = c.cache /\ b.token = c.token
      /\ b.main = c.main /\ b.snapshot = c.snapshot /\ b.current = c.current
      /\ b.state = next /\ b.requests = c.requests /\ b.responses = c.responses
      /\ b.target = None /\ b.document = 0
      /\ b.online = c.online /\ b.failures = c.failures /\ b.timer = c.timer
  BY DEF Sdk
<1> HIDE DEF b
<1>5. Tracked(b) /\ (Listened(b) => b.snapshot # None)
  BY <1>4 DEF Tracked, Listened
<1>6. Broadcasts(b, d) /\ Tracked(d) /\ d.failures = b.failures
  BY <1>3, <1>5, HandleWatchStreamStartFacts
<1> HIDE DEF d
<1>7. c.main \in Seq(Event)
  BY DEF Sdk
<1>8. Ended(c, d)
  BY <1>2, <1>4, <1>6 DEF Broadcasts, Frame, Ended, Told, Listened
<1>9. IsStarted(d)
  BY <1>2, <1>4, <1>6 DEF Broadcasts, Frame, IsStarted
<1> QED
  BY <1>1, <1>4, <1>6, <1>8, <1>9 DEF Timed

\* A client that has no stream is told nothing by leaving it at that.
LEMMA EndedSame ==
  ASSUME NEW c \in Sdk, Listened(c) => c.snapshot # None,
         c.state # "Open", c.requests = <<>>, c.responses = <<>>
  PROVE  Ended(c, c)
<1>1. c.main \in Seq(Event)
  BY DEF Sdk
<1> QED
  BY <1>1, MoreEventsSame DEF Ended, Told

\* A stream is made if there is something to listen to.
LEMMA StartIfNeededFacts ==
  ASSUME NEW c \in Sdk, Timed(c), Listened(c) => c.snapshot # None,
         c.state # "Open", c.requests = <<>>, c.responses = <<>>
  PROVE  LET d == StartIfNeeded(c) IN
         Ended(c, d) /\ Timed(d) /\ d.failures = c.failures
<1>1. CASE Listened(c) /\ ~IsStarted(c)
  <2>1. StartIfNeeded(c) = StartWatchStream(c)
    BY <1>1 DEF StartIfNeeded
  <2> QED
    BY <2>1, StartWatchStreamFacts DEF Timed
<1>2. CASE ~ (Listened(c) /\ ~IsStarted(c))
  <2>1. StartIfNeeded(c) = c
    BY <1>2 DEF StartIfNeeded
  <2> QED
    BY <2>1, EndedSame
<1> QED
  BY <1>1, <1>2

\* The stream was lost: the failure is counted, and a new one made if there is
\* something to listen to.
LEMMA InterruptedFacts ==
  ASSUME NEW c \in Sdk, NEW failed \in BOOLEAN, Tracked(c), Listened(c) => c.snapshot # None,
         c.state # "Open", c.requests = <<>>, c.responses = <<>>,
         failed => c.failures < MaxFaults
  PROVE  LET d == Interrupted(c, failed) IN
         /\ Ended(c, d) /\ Timed(d)
         /\ \/ d.failures \in {0, c.failures}
            \/ failed /\ d.failures = c.failures + 1
<1>1. CASE ~Listened(c)
  <2> DEFINE d == UpdateState(c, "Unknown")
  <2>1. d = Interrupted(c, failed)
    BY <1>1 DEF Interrupted
  <2>2. "Unknown" \in OnlineState
    BY DEF OnlineState
  <2>3. Broadcasts(c, d) /\ d.failures = 0 /\ ~d.timer
    BY <2>2, UpdateStateFacts
  <2> HIDE DEF d
  <2>4. Ended(c, d)
    BY <2>3, BroadcastsEnded
  <2> QED
    BY <2>1, <2>3, <2>4 DEF Timed, Tracked
<1>2. CASE Listened(c) /\ failed
  <2> DEFINE b == HandleWatchStreamFailure(c)
             d == StartWatchStream(b)
  <2>1. d = Interrupted(c, failed)
    BY <1>2 DEF Interrupted
  <2>2. /\ Broadcasts(c, b) /\ Tracked(b)
        /\ b.failures = c.failures \/ b.failures = c.failures + 1
    BY <1>2, HandleWatchStreamFailureFacts
  <2> HIDE DEF b
  <2>3. Ended(c, b)
    BY <2>2, BroadcastsEnded
  <2>4. b \in Sdk /\ b.requests = <<>> /\ b.responses = <<>> /\ (Listened(b) => b.snapshot # None)
    BY <1>2, <2>3 DEF Ended, Told
  <2>5. Ended(b, d) /\ Timed(d) /\ d.failures = b.failures
    BY <2>2, <2>4, StartWatchStreamFacts
  <2> HIDE DEF d
  <2>6. Ended(c, d)
    BY <2>3, <2>5, EndedTwice
  <2> QED
    BY <1>2, <2>1, <2>2, <2>5, <2>6
<1>3. CASE Listened(c) /\ ~failed
  <2>1. Interrupted(c, failed) = StartWatchStream(c)
    BY <1>3 DEF Interrupted
  <2> QED
    BY <2>1, StartWatchStreamFacts
<1> QED
  BY <1>1, <1>2, <1>3

\* Only the aggregator is another one.
Gathers(c, d) ==
    /\ d \in Sdk
    /\ d.listeners = c.listeners /\ d.snapshot = c.snapshot /\ d.current = c.current
    /\ d.online = c.online /\ d.failures = c.failures /\ d.timer = c.timer
    /\ d.state = c.state /\ d.requests = c.requests /\ d.responses = c.responses
    /\ d.cache = c.cache /\ d.token = c.token /\ d.main = c.main

\* Nothing happens to it.
LEMMA GathersSame ==
  ASSUME NEW c \in Sdk
  PROVE  Gathers(c, c)
BY DEF Gathers

\* The target is another one.
LEMMA GathersTarget ==
  ASSUME NEW c \in Sdk, NEW target \in TargetState \cup {None}
  PROVE  LET d == [c EXCEPT !.target = target] IN
         Gathers(c, d) /\ d.target = target /\ d.document = c.document
<1> DEFINE d == [c EXCEPT !.target = target]
<1>1. d \in Sdk
  BY DEF Sdk
<1>2. Gathers(c, d)
  BY <1>1 DEF Gathers, Sdk
<1>3. d.target = target /\ d.document = c.document
  BY DEF Sdk
<1> QED
  BY <1>2, <1>3

\* The target that the aggregator makes when it has none.
LEMMA EnsureFacts ==
  ASSUME NEW target \in TargetState \cup {None}
  PROVE  /\ Ensure(target) \in TargetState /\ Ensure(target) # None
         /\ Ensure(target).outstanding \in Int /\ Ensure(target).token \in Versions
         /\ target # None => Ensure(target) = target
         /\ target = None => Ensure(target).outstanding = 0 /\ Ensure(target).token = 0
<1>1. 0 \in Versions
  BY BoundsAssumption DEF Versions
<1>2. FreshTarget \in TargetState /\ FreshTarget.outstanding = 0 /\ FreshTarget.token = 0
  BY <1>1 DEF FreshTarget, TargetState
<1>3. Ensure(target) \in TargetState
  BY <1>2 DEF Ensure
<1>4. Ensure(target).outstanding \in Int /\ Ensure(target).token \in Versions
  BY <1>3 DEF TargetState
<1> QED
  BY <1>2, <1>3, <1>4, NoneAssumption DEF Ensure

\* A request is sent and counted.
LEMMA SendRequestFacts ==
  ASSUME NEW c \in Sdk, NEW type \in {"watch", "unwatch"}
  PROVE  LET d == SendRequest(c, type) IN
         /\ d \in Sdk
         /\ d.listeners = c.listeners /\ d.snapshot = c.snapshot /\ d.current = c.current
         /\ d.online = c.online /\ d.failures = c.failures /\ d.timer = c.timer
         /\ d.state = c.state /\ d.responses = c.responses /\ d.document = c.document
         /\ d.cache = c.cache /\ d.token = c.token /\ d.main = c.main
         /\ Msg(type, c.token) \in Request /\ d.requests = Append(c.requests, Msg(type, c.token))
         /\ d.target # None /\ d.target \in TargetState
         /\ d.target.outstanding = Ensure(c.target).outstanding + 1
         /\ d.target.token = Ensure(c.target).token
<1> DEFINE e == Ensure(c.target)
           t == [e EXCEPT !.outstanding = @ + 1]
           q == Append(c.requests, Msg(type, c.token))
           d == [c EXCEPT !.target = t, !.requests = q, !.idle = FALSE]
<1>1. d = SendRequest(c, type)
  BY DEF SendRequest
<1>2. c.target \in TargetState \cup {None} /\ c.requests \in Seq(Request) /\ c.token \in Versions
  BY DEF Sdk
<1>3. e \in TargetState /\ e.outstanding \in Int
  BY <1>2, EnsureFacts
<1> HIDE DEF e
<1>4. t \in TargetState /\ t.outstanding = e.outstanding + 1 /\ t.token = e.token
  BY <1>3 DEF TargetState
<1>5. t # None
  BY <1>4, NoneAssumption
<1>6. Msg(type, c.token) \in Request
  BY <1>2 DEF Msg, Request
<1>7. q \in Seq(Request)
  BY <1>2, <1>6
<1> HIDE DEF t, q
<1>8. d \in Sdk
  BY <1>4, <1>7 DEF Sdk
<1>9. /\ d.listeners = c.listeners /\ d.snapshot = c.snapshot /\ d.current = c.current
      /\ d.online = c.online /\ d.failures = c.failures /\ d.timer = c.timer
      /\ d.state = c.state /\ d.responses = c.responses /\ d.document = c.document
      /\ d.cache = c.cache /\ d.token = c.token /\ d.main = c.main
      /\ d.requests = q /\ d.target = t
  BY DEF Sdk
<1> HIDE DEF d
<1>10. d.requests = Append(c.requests, Msg(type, c.token))
  BY <1>9 DEF q
<1>11. d.target.outstanding = Ensure(c.target).outstanding + 1 /\ d.target.token = Ensure(c.target).token
  BY <1>4, <1>9 DEF e
<1> QED
  BY <1>1, <1>4, <1>5, <1>6, <1>8, <1>9, <1>10, <1>11

\* A response is counted.
Counts(c, d) ==
    /\ Gathers(c, d) /\ d.document = c.document
    /\ Ensure(d.target).outstanding = Ensure(c.target).outstanding - 1
    /\ d.target # None => d.target.token = Ensure(c.target).token

\* The response to a watch request.
LEMMA TargetAddedFacts ==
  ASSUME NEW c \in Sdk
  PROVE  Counts(c, TargetAdded(c))
<1> DEFINE e == Ensure(c.target)
           a == [e EXCEPT !.outstanding = @ - 1]
           t == IF a.outstanding = 0 THEN [a EXCEPT !.changed = FALSE] ELSE a
           d == [c EXCEPT !.target = t]
<1>1. d = TargetAdded(c)
  BY DEF TargetAdded
<1>2. c.target \in TargetState \cup {None}
  BY DEF Sdk
<1>3. e \in TargetState /\ e.outstanding \in Int
  BY <1>2, EnsureFacts
<1> HIDE DEF e
<1>4. a \in TargetState /\ a.outstanding = e.outstanding - 1 /\ a.token = e.token
  BY <1>3 DEF TargetState
<1> HIDE DEF a
<1>5. t \in TargetState /\ t.outstanding = a.outstanding /\ t.token = a.token
  BY <1>4 DEF TargetState
<1> HIDE DEF t
<1>6. t # None /\ Ensure(t) = t
  BY <1>5, EnsureFacts, NoneAssumption
<1>7. Gathers(c, d) /\ d.target = t /\ d.document = c.document
  BY <1>5, GathersTarget
<1> HIDE DEF d
<1>8. Counts(c, d)
  BY <1>4, <1>5, <1>6, <1>7 DEF Counts, e
<1> QED
  BY <1>1, <1>8

\* The response to an unwatch request.
LEMMA TargetRemovedFacts ==
  ASSUME NEW c \in Sdk
  PROVE  Counts(c, TargetRemoved(c))
<1> DEFINE e == Ensure(c.target)
           a == [e EXCEPT !.outstanding = @ - 1]
           t == IF a.outstanding = 0 THEN None ELSE a
           d == [c EXCEPT !.target = t]
<1>1. d = TargetRemoved(c)
  BY DEF TargetRemoved
<1>2. c.target \in TargetState \cup {None}
  BY DEF Sdk
<1>3. e \in TargetState /\ e.outstanding \in Int
  BY <1>2, EnsureFacts
<1> HIDE DEF e
<1>4. a \in TargetState /\ a.outstanding = e.outstanding - 1 /\ a.token = e.token
  BY <1>3 DEF TargetState
<1> HIDE DEF a
<1>5. t \in TargetState \cup {None}
  BY <1>4
<1>6. Ensure(t).outstanding = e.outstanding - 1
  <2>1. CASE a.outstanding = 0
    BY <1>4, <1>5, <2>1, EnsureFacts
  <2>2. CASE a.outstanding # 0
    BY <1>4, <1>5, <2>2, EnsureFacts, NoneAssumption
  <2> QED
    BY <2>1, <2>2
<1>7. t # None => t.token = e.token
  BY <1>4
<1> HIDE DEF t
<1>8. Gathers(c, d) /\ d.target = t /\ d.document = c.document
  BY <1>5, GathersTarget
<1> HIDE DEF d
<1>9. Counts(c, d)
  BY <1>6, <1>7, <1>8 DEF Counts, e
<1> QED
  BY <1>1, <1>9

\* Whether a target is active is a matter of its count.
LEMMA IsActiveFacts ==
  ASSUME NEW c \in Sdk
  PROVE  IsActive(c) <=> Listened(c) /\ Ensure(c.target).outstanding = 0
<1>1. c.target \in TargetState \cup {None}
  BY DEF Sdk
<1> QED
  BY <1>1, EnsureFacts DEF IsActive

\* A document of an active target is gathered.
LEMMA DocumentChangedFacts ==
  ASSUME NEW c \in Sdk, NEW v \in Versions
  PROVE  LET d == DocumentChanged(c, v) IN
         /\ Gathers(c, d)
         /\ d.document = IF IsActive(c) THEN v ELSE c.document
         /\ Ensure(d.target).outstanding = Ensure(c.target).outstanding
         /\ d.target # None => d.target.token = Ensure(c.target).token
<1>1. c.target \in TargetState \cup {None} /\ c.document \in Versions
  BY DEF Sdk
<1>2. CASE ~IsActive(c)
  <2>1. DocumentChanged(c, v) = c
    BY <1>2 DEF DocumentChanged
  <2> QED
    BY <1>1, <1>2, <2>1, EnsureFacts, GathersSame
<1>3. CASE IsActive(c)
  <2> DEFINE e == Ensure(c.target)
             t == [e EXCEPT !.changed = TRUE]
             d == [c EXCEPT !.target = t, !.document = v]
  <2>1. d = DocumentChanged(c, v)
    BY <1>3 DEF DocumentChanged, Sdk
  <2>2. e \in TargetState
    BY <1>1, EnsureFacts
  <2> HIDE DEF e
  <2>3. t \in TargetState /\ t.outstanding = e.outstanding /\ t.token = e.token
    BY <2>2 DEF TargetState
  <2> HIDE DEF t
  <2>4. Ensure(t) = t
    BY <2>3, EnsureFacts, NoneAssumption
  <2>5. d \in Sdk
    BY <2>3 DEF Sdk
  <2>6. Gathers(c, d) /\ d.target = t /\ d.document = v
    BY <2>5 DEF Gathers, Sdk
  <2> HIDE DEF d
  <2> QED
    BY <1>3, <2>1, <2>3, <2>4, <2>6 DEF e
<1> QED
  BY <1>2, <1>3

\* A resume token is heard.
LEMMA UpdateResumeTokenFacts ==
  ASSUME NEW c \in Sdk, NEW v \in Versions
  PROVE  LET d == UpdateResumeToken(c, v) IN
         /\ Gathers(c, d) /\ d.document = c.document
         /\ Ensure(d.target).outstanding = Ensure(c.target).outstanding
         /\ d.target.token = v
<1> DEFINE e == Ensure(c.target)
           t == [e EXCEPT !.changed = TRUE, !.token = v]
           d == [c EXCEPT !.target = t]
<1>1. d = UpdateResumeToken(c, v)
  BY DEF UpdateResumeToken, Sdk
<1>2. c.target \in TargetState \cup {None}
  BY DEF Sdk
<1>3. e \in TargetState
  BY <1>2, EnsureFacts
<1> HIDE DEF e
<1>4. t \in TargetState /\ t.outstanding = e.outstanding /\ t.token = v
  BY <1>3 DEF TargetState
<1> HIDE DEF t
<1>5. Ensure(t) = t
  BY <1>4, EnsureFacts, NoneAssumption
<1>6. Gathers(c, d) /\ d.target = t /\ d.document = c.document
  BY <1>4, GathersTarget
<1> HIDE DEF d
<1> QED
  BY <1>1, <1>4, <1>5, <1>6 DEF e

\* A mark of an active target is taken in with its token.
LEMMA MarkCurrentFacts ==
  ASSUME NEW c \in Sdk, NEW v \in Versions
  PROVE  LET d == MarkCurrent(c, v) IN
         /\ Gathers(c, d) /\ d.document = c.document
         /\ Ensure(d.target).outstanding = Ensure(c.target).outstanding
         /\ d.target # None =>
              d.target.token = IF IsActive(c) THEN v ELSE Ensure(c.target).token
<1>1. c.target \in TargetState \cup {None}
  BY DEF Sdk
<1>2. CASE ~IsActive(c)
  <2>1. MarkCurrent(c, v) = c
    BY <1>2 DEF MarkCurrent
  <2> QED
    BY <1>1, <1>2, <2>1, EnsureFacts, GathersSame
<1>3. CASE IsActive(c)
  <2> DEFINE e == Ensure(c.target)
             t == [e EXCEPT !.current = TRUE]
             b == [c EXCEPT !.target = t]
             d == UpdateResumeToken(b, v)
  <2>1. d = MarkCurrent(c, v)
    BY <1>3 DEF MarkCurrent, Sdk
  <2>2. e \in TargetState
    BY <1>1, EnsureFacts
  <2> HIDE DEF e
  <2>3. t \in TargetState /\ t.outstanding = e.outstanding
    BY <2>2 DEF TargetState
  <2> HIDE DEF t
  <2>4. Ensure(t) = t
    BY <2>3, EnsureFacts, NoneAssumption
  <2>5. Gathers(c, b) /\ b.target = t /\ b.document = c.document
    BY <2>3, GathersTarget
  <2> HIDE DEF b
  <2>6. /\ Gathers(b, d) /\ d.document = b.document /\ d.target.token = v
        /\ Ensure(d.target).outstanding = Ensure(b.target).outstanding
    BY <2>5, UpdateResumeTokenFacts DEF Gathers
  <2> HIDE DEF d
  <2>7. Gathers(c, d)
    BY <2>5, <2>6 DEF Gathers
  <2> QED
    BY <1>3, <2>1, <2>3, <2>4, <2>5, <2>6, <2>7 DEF e
<1> QED
  BY <1>2, <1>3

\* Each of the calls has an error, behind all events so far.
Errors(old, new, who) ==
    /\ Len(new) = Len(old) + Len(who)
    /\ \A n \in DOMAIN old : new[n] = old[n]
    /\ \A n \in DOMAIN new : n > Len(old) =>
         /\ n - Len(old) \in DOMAIN who
         /\ new[n].answer = None /\ new[n].call = who[n - Len(old)]

\* Where events are in a longer queue.
LEMMA EventsAppended ==
  ASSUME NEW s \in Seq(Event), NEW t \in Seq(Event)
  PROVE  /\ Len(s \o t) = Len(s) + Len(t)
         /\ \A n \in DOMAIN s : (s \o t)[n] = s[n]
         /\ \A n \in DOMAIN (s \o t) : n > Len(s) =>
              n - Len(s) \in DOMAIN t /\ (s \o t)[n] = t[n - Len(s)]
OBVIOUS

\* What the errors look like in the queue.
LEMMA ErrorsAppended ==
  ASSUME NEW old \in Seq(Event), NEW errors \in Seq(Event), NEW who \in Seq(Calls),
         Len(errors) = Len(who),
         \A k \in DOMAIN who : errors[k].answer = None /\ errors[k].call = who[k]
  PROVE  Errors(old, old \o errors, who)
<1> DEFINE new == old \o errors
<1>1. DOMAIN errors = DOMAIN who
  OBVIOUS
<1>2. /\ Len(new) = Len(old) + Len(errors)
      /\ \A n \in DOMAIN old : new[n] = old[n]
      /\ \A n \in DOMAIN new : n > Len(old) =>
           n - Len(old) \in DOMAIN errors /\ new[n] = errors[n - Len(old)]
  BY EventsAppended
<1> HIDE DEF new
<1>3. Errors(old, new, who)
  BY <1>1, <1>2 DEF Errors
<1> QED
  BY <1>3 DEF new

\* A refusal ends the listen.
LEMMA TargetRefusedFacts ==
  ASSUME NEW c \in Sdk, Listened(c)
  PROVE  LET d == TargetRefused(c) IN
         /\ d \in Sdk /\ d.listeners = <<>> /\ d.target = None /\ Errors(c.main, d.main, c.listeners)
         /\ d.current = c.current /\ d.online = c.online
         /\ d.failures = c.failures /\ d.timer = c.timer
         /\ d.state = c.state /\ d.requests = c.requests /\ d.responses = c.responses
         /\ d.document = c.document /\ d.cache = c.cache /\ d.token = c.token
<1> DEFINE errors == [k \in DOMAIN c.listeners |-> [call |-> c.listeners[k], answer |-> None]]
           d == [c EXCEPT !.target = None, !.listeners = <<>>, !.snapshot = None,
                          !.main = @ \o errors]
<1>1. d = TargetRefused(c)
  BY DEF TargetRefused
<1>2. c.listeners \in Seq(Calls) /\ c.main \in Seq(Event) /\ <<>> \in Seq(Calls)
  BY DEF Sdk
<1>3. /\ Len(c.listeners) \in Nat /\ DOMAIN c.listeners = 1 .. Len(c.listeners)
      /\ \A k \in DOMAIN c.listeners : c.listeners[k] \in Calls
  BY <1>2
<1>4. \A k \in DOMAIN c.listeners : [call |-> c.listeners[k], answer |-> None] \in Event
  BY <1>3 DEF Event
<1>5. errors \in [1 .. Len(c.listeners) -> Event]
  BY <1>3, <1>4
<1>6. errors \in Seq(Event) /\ Len(errors) = Len(c.listeners)
  BY <1>3, <1>5
<1>7. \A k \in DOMAIN c.listeners : errors[k].answer = None /\ errors[k].call = c.listeners[k]
  OBVIOUS
<1>8. c.main \o errors \in Seq(Event)
  BY <1>2, <1>6
<1> HIDE DEF errors
<1>9. d \in Sdk
  BY <1>2, <1>8 DEF Sdk
<1>10. /\ d.listeners = <<>> /\ d.target = None /\ d.main = c.main \o errors
       /\ d.current = c.current /\ d.online = c.online
       /\ d.failures = c.failures /\ d.timer = c.timer
       /\ d.state = c.state /\ d.requests = c.requests /\ d.responses = c.responses
       /\ d.document = c.document /\ d.cache = c.cache /\ d.token = c.token
  BY DEF Sdk
<1> HIDE DEF d
<1>11. Errors(c.main, c.main \o errors, c.listeners)
  BY <1>2, <1>6, <1>7, ErrorsAppended
<1> QED
  BY <1>1, <1>9, <1>10, <1>11

\* A snapshot stores what was gathered, and the view shows it.
Stores(c, d) ==
    /\ d \in Sdk
    /\ d.listeners = c.listeners /\ d.state = c.state
    /\ d.requests = c.requests /\ d.responses = c.responses
    /\ d.online = c.online /\ d.failures = c.failures /\ d.timer = c.timer
    /\ d.document = 0 /\ d.cache = Gathered(c)
    /\ Ensure(d.target).outstanding = Ensure(c.target).outstanding
    /\ d.target # None => c.target # None /\ d.target.token = c.target.token
    /\ (d.token = c.token \/ (c.target # None /\ d.token = c.target.token))
    /\ MoreEvents(c.main, d.main, c.listeners)
    /\ Listened(c) => d.snapshot # None /\ d.snapshot.version = d.cache
    /\ d.current => c.current \/ IsActive(c)

\* The view compares what it shows with what it has shown.
LEMMA EmitNewSnapshotFacts ==
  ASSUME NEW c \in Sdk, Listened(c) => c.snapshot # None
  PROVE  LET d == EmitNewSnapshot(c) IN
         /\ d \in Sdk /\ Frame(c, d) /\ MoreEvents(c.main, d.main, c.listeners)
         /\ Listened(c) => d.snapshot # None /\ d.snapshot.version = d.cache
         /\ d.current = c.current /\ d.online = c.online
         /\ d.failures = c.failures /\ d.timer = c.timer
<1> DEFINE shown == [version |-> c.cache, fromCache |-> ~c.current]
<1>1. c.cache \in Versions /\ c.current \in BOOLEAN /\ c.main \in Seq(Event)
  BY DEF Sdk
<1>2. shown.version = c.cache
  OBVIOUS
<1>3. (~c.current) \in BOOLEAN
  OBVIOUS
<1>4. shown \in Snapshot
  BY <1>1, <1>3 DEF Snapshot
<1>5. shown # None
  BY <1>4, NoneAssumption
<1>6. CASE ~ (Listened(c) /\ shown # c.snapshot)
  <2>1. EmitNewSnapshot(c) = c
    BY <1>6 DEF EmitNewSnapshot
  <2> HIDE DEF shown
  <2> QED
    BY <1>1, <1>2, <1>6, <2>1, MoreEventsSame DEF Frame
<1>7. CASE Listened(c) /\ shown # c.snapshot
  <2> DEFINE d == HandleSnapshot(c, shown)
  <2>1. d = EmitNewSnapshot(c)
    BY <1>7 DEF EmitNewSnapshot
  <2> HIDE DEF shown
  <2>2. /\ d \in Sdk /\ Frame(c, d) /\ MoreEvents(c.main, d.main, c.listeners)
        /\ d.snapshot = shown /\ d.current = c.current
        /\ d.online = c.online /\ d.failures = c.failures /\ d.timer = c.timer
    BY <1>4, HandleSnapshotFacts
  <2> HIDE DEF d
  <2>3. d.cache = c.cache
    BY <2>2 DEF Frame
  <2> QED
    BY <1>2, <1>5, <2>1, <2>2, <2>3
<1> QED
  BY <1>6, <1>7

\* A snapshot of the backend.
LEMMA RaiseSnapshotFacts ==
  ASSUME NEW c \in Sdk, Listened(c) => c.snapshot # None
  PROVE  Stores(c, RaiseSnapshot(c))
<1> DEFINE included == c.target # None /\ IsActive(c) /\ c.target.changed
           cache    == IF c.document = 0 THEN c.cache ELSE c.document
           token    == IF included /\ c.target.token # 0 THEN c.target.token ELSE c.token
           a        == ApplyRemoteEvent(c, included)
           b        == IF included
                       THEN [a EXCEPT !.target.changed = FALSE, !.current = c.target.current]
                       ELSE a
           d        == EmitNewSnapshot(b)
<1>1. d = RaiseSnapshot(c)
  BY DEF RaiseSnapshot
<1>2. /\ c.target \in TargetState \cup {None} /\ c.document \in Versions
      /\ c.cache \in Versions /\ c.token \in Versions /\ 0 \in Versions
  BY BoundsAssumption DEF Sdk, Versions
<1>3. included => /\ c.target \in TargetState /\ c.target.token \in Versions
                  /\ c.target.current \in BOOLEAN
  BY <1>2 DEF TargetState
<1>4. cache \in Versions /\ cache = Gathered(c)
  BY <1>2 DEF Gathered
<1>5. token \in Versions /\ (token = c.token \/ (c.target # None /\ token = c.target.token))
  BY <1>2, <1>3
<1>6. included => c.target # None /\ IsActive(c)
  OBVIOUS
<1>7. a = [c EXCEPT !.cache = cache, !.document = 0, !.token = token]
  BY DEF ApplyRemoteEvent, Sdk
<1> HIDE DEF included, cache, token, a
<1>8. a \in Sdk
  BY <1>2, <1>4, <1>5, <1>7 DEF Sdk
<1>9. /\ a.listeners = c.listeners /\ a.snapshot = c.snapshot /\ a.current = c.current
      /\ a.online = c.online /\ a.failures = c.failures /\ a.timer = c.timer
      /\ a.state = c.state /\ a.requests = c.requests /\ a.responses = c.responses
      /\ a.target = c.target /\ a.main = c.main
      /\ a.document = 0 /\ a.cache = cache /\ a.token = token
  BY <1>7 DEF Sdk
<1>10. /\ b \in Sdk
       /\ b.listeners = c.listeners /\ b.snapshot = c.snapshot
       /\ b.online = c.online /\ b.failures = c.failures /\ b.timer = c.timer
       /\ b.state = c.state /\ b.requests = c.requests /\ b.responses = c.responses
       /\ b.main = c.main /\ b.document = 0 /\ b.cache = cache /\ b.token = token
       /\ Ensure(b.target).outstanding = Ensure(c.target).outstanding
       /\ b.target # None => c.target # None /\ b.target.token = c.target.token
       /\ b.current => c.current \/ IsActive(c)
  <2>1. CASE ~included
    <3>1. b = a
      BY <2>1
    <3> HIDE DEF b
    <3> QED
      BY <1>8, <1>9, <3>1
  <2>2. CASE included
    <3> DEFINE t == [c.target EXCEPT !.changed = FALSE]
               e == [a EXCEPT !.target = t, !.current = c.target.current]
    <3>1. b = e
      BY <1>8, <1>9, <2>2 DEF Sdk
    <3>2. t \in TargetState /\ t.outstanding = c.target.outstanding /\ t.token = c.target.token
      BY <1>3, <2>2 DEF TargetState
    <3> HIDE DEF t
    <3>3. t # None /\ Ensure(t) = t /\ Ensure(c.target) = c.target
      BY <1>2, <1>6, <2>2, <3>2, EnsureFacts, NoneAssumption
    <3>4. e \in Sdk
      BY <1>3, <1>8, <2>2, <3>2 DEF Sdk
    <3>5. /\ e.listeners = a.listeners /\ e.snapshot = a.snapshot
          /\ e.online = a.online /\ e.failures = a.failures /\ e.timer = a.timer
          /\ e.state = a.state /\ e.requests = a.requests /\ e.responses = a.responses
          /\ e.target = t /\ e.main = a.main
          /\ e.document = a.document /\ e.cache = a.cache /\ e.token = a.token
      BY <1>8 DEF Sdk
    <3> HIDE DEF e, b
    <3> QED
      BY <1>6, <1>9, <2>2, <3>1, <3>2, <3>3, <3>4, <3>5
  <2> QED
    BY <2>1, <2>2
<1> HIDE DEF b
<1>11. Listened(b) => b.snapshot # None
  BY <1>10 DEF Listened
<1>12. /\ d \in Sdk /\ Frame(b, d) /\ MoreEvents(b.main, d.main, b.listeners)
       /\ Listened(b) => d.snapshot # None /\ d.snapshot.version = d.cache
       /\ d.current = b.current /\ d.online = b.online
       /\ d.failures = b.failures /\ d.timer = b.timer
  BY <1>10, <1>11, EmitNewSnapshotFacts
<1> HIDE DEF d
<1>13. Stores(c, d)
  BY <1>4, <1>5, <1>10, <1>12 DEF Stores, Frame, Listened
<1> QED
  BY <1>1, <1>13

-----------------------------------------------------------------------------
(* What the actions do *)

\* What every step lemma below may assume of a state.
Base == TypeOK /\ StreamInv /\ SnapshotThere

\* The steps after which there is no stream, or not yet.
Ending == TokenFailed \/ BackoffElapsed \/ IdleTimer \/ StreamClosed \/ UserDidChange

\* A client's fields, from its type.
LEMMA SdkFields ==
  ASSUME NEW c \in Sdk
  PROVE  /\ c.listeners \in Seq(Calls) /\ c.main \in Seq(Event)
         /\ c.requests \in Seq(Request) /\ c.responses \in Seq(Message)
         /\ c.target \in TargetState \cup {None} /\ c.document \in Versions
         /\ c.cache \in Versions /\ c.token \in Versions
         /\ c.failures \in 0 .. MaxFaults /\ c.snapshot \in Snapshot \cup {None}
         /\ c.current \in BOOLEAN
BY DEF Sdk

\* The failures counted, and a break under way, were faults.
LEMMA FaultsLeft ==
  ASSUME Base
  PROVE  /\ MaxFaults \in Nat /\ faults \in 0 .. MaxFaults
         /\ sdk.failures \in 0 .. MaxFaults /\ sdk.failures <= faults
         /\ Broken => sdk.failures + 1 <= faults
<1>1. MaxFaults \in Nat /\ faults \in 0 .. MaxFaults /\ sdk \in Sdk
  BY BoundsAssumption DEF Base, TypeOK
<1>2. sdk.failures \in 0 .. MaxFaults
  BY <1>1, SdkFields
<1>3. sdk.failures + (IF Broken THEN 1 ELSE 0) <= faults
  BY DEF Base, StreamInv
<1>4. CASE Broken
  BY <1>1, <1>2, <1>3, <1>4
<1>5. CASE ~Broken
  BY <1>1, <1>2, <1>3, <1>5
<1> QED
  BY <1>4, <1>5

\* What such a step does.
EndingStep ==
    /\ Ended(sdk, sdk') /\ Timed(sdk') /\ sdk'.failures <= faults'
    /\ faults' \in 0 .. MaxFaults
    /\ UNCHANGED <<posted, muted, version, serving, rejects, history>>

\* The steps that end a stream do what EndingStep says.
LEMMA EndingDoes ==
  ASSUME Base, Ending
  PROVE  EndingStep
<1>1. /\ sdk \in Sdk /\ Tracked(sdk) /\ (Listened(sdk) => sdk.snapshot # None)
      /\ sdk.state # "Open" => sdk.requests = <<>> /\ sdk.responses = <<>>
  BY DEF Base, TypeOK, StreamInv, SnapshotThere, Tracked
<1>2. /\ MaxFaults \in Nat /\ faults \in 0 .. MaxFaults
      /\ sdk.failures \in 0 .. MaxFaults /\ sdk.failures <= faults
      /\ Broken => sdk.failures + 1 <= faults
  BY FaultsLeft
<1>3. ASSUME NEW finalState \in {"Initial", "Error"}, NEW failed \in BOOLEAN,
             failed => sdk.failures < MaxFaults,
             sdk' = Interrupted(Close(sdk, finalState), failed)
      PROVE  /\ Ended(sdk, sdk') /\ Timed(sdk')
             /\ sdk'.failures \in {0, sdk.failures} \/ (failed /\ sdk'.failures = sdk.failures + 1)
  <2> DEFINE c == Close(sdk, finalState)
             d == Interrupted(c, failed)
  <2>1. /\ Ended(sdk, c) /\ Tracked(c) /\ c.failures = sdk.failures
        /\ c.snapshot = sdk.snapshot
    BY <1>1, CloseFacts
  <2> HIDE DEF c
  <2>2. /\ c \in Sdk /\ (Listened(c) => c.snapshot # None)
        /\ c.state # "Open" /\ c.requests = <<>> /\ c.responses = <<>>
    BY <1>1, <2>1 DEF Ended, Told, Listened
  <2>3. /\ Ended(c, d) /\ Timed(d)
        /\ d.failures \in {0, c.failures} \/ (failed /\ d.failures = c.failures + 1)
    BY <1>3, <2>1, <2>2, InterruptedFacts
  <2>4. sdk' = d
    BY <1>3 DEF c
  <2> HIDE DEF d
  <2>5. Ended(sdk, d)
    BY <1>1, <2>1, <2>3, EndedTwice
  <2> QED
    BY <2>1, <2>3, <2>4, <2>5
<1>4. CASE TokenFailed
  <2>1. /\ faults < MaxFaults /\ faults' = faults + 1
        /\ sdk' = Interrupted(Close(sdk, "Error"), TRUE)
        /\ UNCHANGED <<posted, muted, version, serving, rejects, history>>
    BY <1>4 DEF TokenFailed
  <2>2. sdk.failures < MaxFaults
    BY <1>2, <2>1
  <2>3. /\ Ended(sdk, sdk') /\ Timed(sdk')
        /\ sdk'.failures \in {0, sdk.failures} \/ (TRUE /\ sdk'.failures = sdk.failures + 1)
    BY <1>3, <2>1, <2>2
  <2>4. sdk'.failures <= faults' /\ faults' \in 0 .. MaxFaults
    <3>1. faults < MaxFaults /\ faults' = faults + 1
      BY <2>1
    <3>2. sdk'.failures \in {0, sdk.failures, sdk.failures + 1}
      BY <2>3
    <3> QED
      BY <1>2, <3>1, <3>2
  <2> QED
    BY <2>1, <2>3, <2>4 DEF EndingStep
<1>5. CASE StreamClosed
  <2>1. /\ sdk.responses # <<>> /\ Head(sdk.responses).type = "closed"
        /\ sdk' = Interrupted(Close(sdk, "Error"), TRUE)
        /\ UNCHANGED <<posted, muted, version, serving, faults, rejects, history>>
    BY <1>5 DEF StreamClosed
  <2>2. Broken
    <3>1. sdk.responses \in Seq(Message)
      BY <1>1, SdkFields
    <3>2. Head(sdk.responses) = sdk.responses[1] /\ 1 \in DOMAIN sdk.responses
      BY <2>1, <3>1
    <3>3. Len(sdk.responses) = 1
      BY <2>1, <3>2 DEF Base, StreamInv
    <3> QED
      BY <2>1, <3>2, <3>3 DEF Broken, Last
  <2>3. sdk.failures < MaxFaults
    BY <1>2, <2>2
  <2>4. /\ Ended(sdk, sdk') /\ Timed(sdk')
        /\ sdk'.failures \in {0, sdk.failures} \/ (TRUE /\ sdk'.failures = sdk.failures + 1)
    BY <1>3, <2>1, <2>3
  <2>5. sdk'.failures <= faults' /\ faults' \in 0 .. MaxFaults
    <3>1. faults' = faults
      BY <2>1
    <3>2. sdk'.failures \in {0, sdk.failures, sdk.failures + 1}
      BY <2>4
    <3> QED
      BY <1>2, <2>2, <3>1, <3>2
  <2> QED
    BY <2>1, <2>4, <2>5 DEF EndingStep
<1>6. CASE IdleTimer
  <2>1. /\ sdk' = Interrupted(Close(sdk, "Initial"), FALSE)
        /\ UNCHANGED <<posted, muted, version, serving, faults, rejects, history>>
    BY <1>6 DEF IdleTimer
  <2>2. /\ Ended(sdk, sdk') /\ Timed(sdk')
        /\ sdk'.failures \in {0, sdk.failures} \/ (FALSE /\ sdk'.failures = sdk.failures + 1)
    BY <1>3, <2>1
  <2>3. sdk'.failures <= faults' /\ faults' \in 0 .. MaxFaults
    <3>1. faults' = faults
      BY <2>1
    <3>2. sdk'.failures \in {0, sdk.failures}
      BY <2>2
    <3> QED
      BY <1>2, <3>1, <3>2
  <2> QED
    BY <2>1, <2>2, <2>3 DEF EndingStep
<1>7. CASE BackoffElapsed
  <2>1. /\ sdk.state = "Backoff" /\ sdk' = [sdk EXCEPT !.state = "Auth"]
        /\ UNCHANGED <<posted, muted, version, serving, faults, rejects, history>>
    BY <1>7 DEF BackoffElapsed
  <2> DEFINE d == [sdk EXCEPT !.state = "Auth"]
  <2>2. "Auth" \in StreamState
    BY DEF StreamState
  <2>3. d \in Sdk
    BY <1>1, <2>2 DEF Sdk
  <2>4. /\ d.listeners = sdk.listeners /\ d.cache = sdk.cache /\ d.token = sdk.token
        /\ d.main = sdk.main /\ d.snapshot = sdk.snapshot /\ d.current = sdk.current
        /\ d.state = "Auth" /\ d.requests = sdk.requests /\ d.responses = sdk.responses
        /\ d.target = sdk.target /\ d.document = sdk.document
        /\ d.online = sdk.online /\ d.failures = sdk.failures /\ d.timer = sdk.timer
    BY <1>1 DEF Sdk
  <2>5. sdk' = d
    BY <2>1
  <2> HIDE DEF d
  <2>6. sdk.main \in Seq(Event)
    BY <1>1, SdkFields
  <2>7. MoreEvents(sdk.main, d.main, sdk.listeners)
    BY <2>4, <2>6, MoreEventsSame
  <2>8. Ended(sdk, d)
    BY <1>1, <2>1, <2>3, <2>4, <2>7 DEF Ended, Told
  <2>9. Timed(d)
    BY <1>1, <2>4 DEF Timed, Tracked, IsStarted
  <2> QED
    BY <1>2, <2>1, <2>4, <2>5, <2>8, <2>9 DEF EndingStep
<1>8. CASE UserDidChange
  <2> DEFINE a == Close(sdk, "Initial")
             b == [a EXCEPT !.target = None, !.document = 0]
             c == UpdateState(b, "Unknown")
             d == StartIfNeeded(c)
  <2>1. /\ sdk' = d /\ faults < MaxFaults /\ faults' = faults + 1
        /\ UNCHANGED <<posted, muted, version, serving, rejects, history>>
    BY <1>8 DEF UserDidChange
  <2>2. Ended(sdk, a) /\ a.snapshot = sdk.snapshot
    BY <1>1, CloseFacts
  <2> HIDE DEF a
  <2>3. a \in Sdk /\ 0 \in Versions /\ "Unknown" \in OnlineState
    BY <2>2, BoundsAssumption DEF Ended, Told, Versions, OnlineState
  <2>4. b \in Sdk
    BY <2>3 DEF Sdk
  <2>5. /\ b.listeners = a.listeners /\ b.cache = a.cache /\ b.token = a.token
        /\ b.main = a.main /\ b.snapshot = a.snapshot /\ b.current = a.current
        /\ b.state = a.state /\ b.requests = a.requests /\ b.responses = a.responses
        /\ b.target = None /\ b.document = 0
    BY <2>3 DEF Sdk
  <2> HIDE DEF b
  <2>6. Ended(sdk, b) /\ (Listened(b) => b.snapshot # None)
    BY <1>1, <2>2, <2>4, <2>5 DEF Ended, Told, Listened
  <2>7. Broadcasts(b, c) /\ c.failures = 0 /\ ~c.timer
    BY <2>3, <2>4, <2>6, UpdateStateFacts
  <2> HIDE DEF c
  <2>8. Ended(b, c)
    <3>1. b.state # "Open" /\ b.requests = <<>> /\ b.responses = <<>>
      BY <2>6 DEF Ended
    <3> QED
      BY <2>4, <2>7, <3>1, BroadcastsEnded
  <2>9. /\ c \in Sdk /\ c.state # "Open" /\ c.requests = <<>> /\ c.responses = <<>>
        /\ Timed(c) /\ (Listened(c) => c.snapshot # None)
    BY <2>6, <2>7, <2>8 DEF Ended, Told, Timed, Tracked, Listened
  <2>10. Ended(c, d) /\ Timed(d) /\ d.failures = c.failures
    BY <2>9, StartIfNeededFacts
  <2> HIDE DEF d
  <2>11. Ended(sdk, c)
    BY <1>1, <2>6, <2>8, EndedTwice
  <2>12. Ended(sdk, d)
    BY <1>1, <2>10, <2>11, EndedTwice
  <2>13. d.failures <= faults' /\ faults' \in 0 .. MaxFaults
    BY <1>2, <2>1, <2>7, <2>10
  <2> QED
    BY <2>1, <2>10, <2>12, <2>13 DEF EndingStep
<1> QED
  BY <1>4, <1>5, <1>6, <1>7, <1>8 DEF Ending

\* What the aggregator and the stream are to the other one.
Rests(c, d) ==
    /\ d.state = c.state /\ d.requests = c.requests /\ d.responses = c.responses
    /\ d.target = c.target /\ d.document = c.document

\* d is c after a request of the given type for the target.
Asks(c, d, type) ==
    /\ d.state = "Open"
    /\ Msg(type, c.token) \in Request /\ d.requests = Append(c.requests, Msg(type, c.token))
    /\ d.responses = c.responses /\ d.document = c.document
    /\ d.target # None
    /\ d.target.outstanding = Ensure(c.target).outstanding + 1
    /\ d.target.token = Ensure(c.target).token

\* The client that has heard of a message, before it looks at it.
Heard == UpdateState([sdk EXCEPT !.responses = Tail(@)], "Online")

\* What UpdateState leaves when a message has come: the client is online.
HeardIt ==
    /\ Told(sdk, Heard)
    /\ Heard.state = "Open" /\ Heard.requests = sdk.requests
    /\ Heard.responses = Tail(sdk.responses)
    /\ Heard.target = sdk.target /\ Heard.document = sdk.document
    /\ Heard.online = "Online" /\ Heard.failures = 0 /\ ~Heard.timer
    /\ Listened(Heard) => Heard.snapshot # None

\* Every message shows that the device is online.
LEMMA HeardFacts ==
  ASSUME Base, sdk.state = "Open", sdk.responses # <<>>
  PROVE  HeardIt
<1> DEFINE t == [sdk EXCEPT !.responses = Tail(@)]
           c == UpdateState(t, "Online")
<1>1. sdk \in Sdk /\ (Listened(sdk) => sdk.snapshot # None)
  BY DEF Base, TypeOK, SnapshotThere
<1>2. sdk.responses \in Seq(Message) /\ sdk.main \in Seq(Event)
  BY <1>1, SdkFields
<1>3. Tail(sdk.responses) \in Seq(Message)
  BY <1>2
<1>4. t \in Sdk
  BY <1>1, <1>3 DEF Sdk
<1>5. /\ t.listeners = sdk.listeners /\ t.cache = sdk.cache /\ t.token = sdk.token
      /\ t.main = sdk.main /\ t.snapshot = sdk.snapshot /\ t.current = sdk.current
      /\ t.state = sdk.state /\ t.requests = sdk.requests /\ t.responses = Tail(sdk.responses)
      /\ t.target = sdk.target /\ t.document = sdk.document
  BY <1>1 DEF Sdk
<1>6. c = Heard
  BY DEF Heard
<1> HIDE DEF t
<1>7. "Online" \in OnlineState /\ (Listened(t) => t.snapshot # None)
  BY <1>1, <1>5 DEF OnlineState, Listened
<1>8. Broadcasts(t, c) /\ c.online = "Online" /\ c.failures = 0 /\ ~c.timer
  BY <1>4, <1>7, UpdateStateFacts
<1> HIDE DEF c
<1>9. Told(sdk, c)
  BY <1>5, <1>8 DEF Broadcasts, Frame, Told, Listened
<1>10. Listened(c) => c.snapshot # None
  BY <1>5, <1>7, <1>8 DEF Broadcasts, Frame, Listened
<1> QED
  BY <1>5, <1>6, <1>8, <1>9, <1>10 DEF Broadcasts, Frame, HeardIt

\* A mark is taken in by an active target only.
Marks(c, d, v) ==
    /\ Gathers(c, d) /\ d.document = c.document
    /\ Ensure(d.target).outstanding = Ensure(c.target).outstanding
    /\ d.target # None =>
         d.target.token = IF IsActive(c) THEN v ELSE Ensure(c.target).token

\* d is c after a document message with version v.
Documents(c, d, v) ==
    /\ Gathers(c, d) /\ d.document = IF IsActive(c) THEN v ELSE c.document
    /\ Ensure(d.target).outstanding = Ensure(c.target).outstanding
    /\ d.target # None => d.target.token = Ensure(c.target).token

\* d is c after the listen was rejected: every listener gets the error.
Refuses(c, d) ==
    /\ d \in Sdk /\ d.listeners = <<>> /\ d.target = None /\ Errors(c.main, d.main, c.listeners)
    /\ d.current = c.current /\ d.online = c.online
    /\ d.failures = c.failures /\ d.timer = c.timer
    /\ d.state = c.state /\ d.requests = c.requests /\ d.responses = c.responses
    /\ d.document = c.document /\ d.cache = c.cache /\ d.token = c.token

\* What the first message does.
ReceiveStep ==
    LET message == sdk.responses[1]
    IN  /\ sdk.state = "Open" /\ sdk.responses # <<>> /\ message \in Message
        /\ message.type # "closed"
        /\ \/ message.type \in {"added", "removed"} /\ Counts(Heard, sdk')
           \/ message.type = "refused" /\ Listened(Heard) /\ Refuses(Heard, sdk')
           \/ message.type = "refused" /\ ~Listened(Heard) /\ sdk' = Heard
           \/ message.type = "document" /\ Documents(Heard, sdk', message.version)
           \/ message.type \in {"current", "nochange"} /\ Marks(Heard, sdk', message.version)
           \/ message.type = "snapshot" /\ Stores(Heard, sdk')
        /\ crossed' = \/ crossed
                      \/ message.type = "refused" /\ Ensure(sdk.target).outstanding # 1
        /\ UNCHANGED <<posted, muted, version, serving, faults, rejects,
                       since, listenedAt, answers>>

\* Receive does what its message says.
LEMMA ReceiveDoes ==
  ASSUME Base, Receive
  PROVE  HeardIt /\ ReceiveStep
<1> DEFINE message == Head(sdk.responses)
           v == message.version
           c == Heard
<1>1. sdk.state = "Open" /\ sdk.responses # <<>> /\ message.type # "closed"
  BY DEF Receive
<1>2. HeardIt
  BY <1>1, HeardFacts
<1>3. sdk.responses \in Seq(Message)
  BY SdkFields DEF Base, TypeOK
<1>4. message = sdk.responses[1] /\ message \in Message
  BY <1>1, <1>3
<1>5. v \in Versions /\ message.type \in {"added", "removed", "refused", "document", "current",
                                         "nochange", "snapshot", "closed"}
  BY <1>4 DEF Message
<1>6. /\ crossed' = \/ crossed
                    \/ message.type = "refused" /\ Ensure(sdk.target).outstanding # 1
      /\ UNCHANGED <<posted, muted, version, serving, faults, rejects,
                     since, listenedAt, answers>>
  BY DEF Receive
<1>7. sdk' = CASE message.type = "added"    -> TargetAdded(c)
               [] message.type = "removed"  -> TargetRemoved(c)
               [] message.type = "refused"  -> TargetRefused(c)
               [] message.type = "document" -> DocumentChanged(c, v)
               [] message.type = "current"  -> MarkCurrent(c, v)
               [] message.type = "nochange" -> IF IsActive(c) THEN UpdateResumeToken(c, v) ELSE c
               [] message.type = "snapshot" -> RaiseSnapshot(c)
  BY DEF Receive, Heard
<1> HIDE DEF c
<1>8. c \in Sdk /\ (Listened(c) => c.snapshot # None)
  BY <1>2 DEF HeardIt, Told, c
<1> HIDE DEF message
<1>9. \/ message.type \in {"added", "removed"} /\ Counts(c, sdk')
      \/ message.type = "refused" /\ Listened(c) /\ Refuses(c, sdk')
      \/ message.type = "refused" /\ ~Listened(c) /\ sdk' = c
      \/ message.type = "document" /\ Documents(c, sdk', v)
      \/ message.type \in {"current", "nochange"} /\ Marks(c, sdk', v)
      \/ message.type = "snapshot" /\ Stores(c, sdk')
  <2>1. CASE message.type = "added"
    <3>1. sdk' = TargetAdded(c)
      BY <1>7, <2>1
    <3> QED
      BY <1>8, <2>1, <3>1, TargetAddedFacts
  <2>2. CASE message.type = "removed"
    <3>1. sdk' = TargetRemoved(c)
      BY <1>7, <2>2
    <3> QED
      BY <1>8, <2>2, <3>1, TargetRemovedFacts
  <2>3. CASE message.type = "refused" /\ Listened(c)
    <3>1. sdk' = TargetRefused(c)
      BY <1>7, <2>3
    <3>2. Refuses(c, TargetRefused(c))
      BY <1>8, <2>3, TargetRefusedFacts DEF Refuses
    <3> QED
      BY <2>3, <3>1, <3>2
  <2>4. CASE message.type = "refused" /\ ~Listened(c)
    <3>1. sdk' = TargetRefused(c)
      BY <1>7, <2>4
    <3>2. sdk' = c
      BY <2>4, <3>1 DEF TargetRefused
    <3> QED
      BY <2>4, <3>2
  <2>5. CASE message.type = "document"
    <3>1. sdk' = DocumentChanged(c, v)
      BY <1>7, <2>5
    <3>2. Documents(c, DocumentChanged(c, v), v)
      BY <1>5, <1>8, DocumentChangedFacts DEF Documents
    <3> QED
      BY <2>5, <3>1, <3>2
  <2>6. CASE message.type = "current"
    <3>1. sdk' = MarkCurrent(c, v)
      BY <1>7, <2>6
    <3>2. Marks(c, MarkCurrent(c, v), v)
      BY <1>5, <1>8, MarkCurrentFacts DEF Marks
    <3> QED
      BY <2>6, <3>1, <3>2
  <2>7. CASE message.type = "nochange"
    <3>1. sdk' = IF IsActive(c) THEN UpdateResumeToken(c, v) ELSE c
      BY <1>7, <2>7
    <3>2. CASE IsActive(c)
      <4>1. Marks(c, UpdateResumeToken(c, v), v)
        BY <1>5, <1>8, <3>2, UpdateResumeTokenFacts DEF Marks
      <4> QED
        BY <2>7, <3>1, <3>2, <4>1
    <3>3. CASE ~IsActive(c)
      <4>1. c.target \in TargetState \cup {None}
        BY <1>8, SdkFields
      <4>2. Marks(c, c, v)
        BY <1>8, <3>3, <4>1, EnsureFacts, GathersSame DEF Marks
      <4> QED
        BY <2>7, <3>1, <3>3, <4>2
    <3> QED
      BY <3>2, <3>3
  <2>8. CASE message.type = "snapshot"
    <3>1. sdk' = RaiseSnapshot(c)
      BY <1>7, <2>8
    <3> QED
      BY <1>8, <2>8, <3>1, RaiseSnapshotFacts
  <2> QED
    BY <1>1, <1>5, <2>1, <2>2, <2>3, <2>4, <2>5, <2>6, <2>7, <2>8
<1>10. ReceiveStep
  BY <1>1, <1>4, <1>6, <1>9 DEF ReceiveStep, c
<1> QED
  BY <1>2, <1>10

\* A broadcast without a change of the stream.
LEMMA OnlineStateTimerDoes ==
  ASSUME Base, OnlineStateTimer
  PROVE  /\ Broadcasts(sdk, sdk') /\ Timed(sdk') /\ sdk'.failures = sdk.failures
         /\ UNCHANGED <<posted, muted, version, serving, faults, rejects, history>>
<1> DEFINE b == [sdk EXCEPT !.timer = FALSE]
           d == SetAndBroadcast(b, "Offline")
<1>1. sdk' = d /\ UNCHANGED <<posted, muted, version, serving, faults, rejects, history>>
  BY DEF OnlineStateTimer
<1>2. sdk \in Sdk /\ (Listened(sdk) => sdk.snapshot # None)
  BY DEF Base, TypeOK, SnapshotThere
<1>3. b \in Sdk
  BY <1>2 DEF Sdk
<1>4. /\ Frame(sdk, b) /\ b.main = sdk.main /\ b.snapshot = sdk.snapshot
      /\ b.current = sdk.current /\ ~b.timer /\ b.failures = sdk.failures
  BY <1>2 DEF Sdk, Frame
<1> HIDE DEF b
<1>5. "Offline" \in OnlineState /\ (Listened(b) => b.snapshot # None)
  BY <1>2, <1>4 DEF OnlineState, Frame, Listened
<1>6. Broadcasts(b, d) /\ d.online = "Offline" /\ d.failures = b.failures /\ d.timer = b.timer
  BY <1>3, <1>5, SetAndBroadcastFacts
<1> HIDE DEF d
<1>7. Broadcasts(sdk, d)
  BY <1>2, <1>3, <1>4, <1>6, BroadcastsFrom
<1> QED
  BY <1>1, <1>4, <1>6, <1>7 DEF Timed, Tracked

\* What hardly anything but the request changes.
TokenArrivedStep ==
    /\ sdk' \in Sdk /\ sdk'.listeners = sdk.listeners /\ sdk'.main = sdk.main
    /\ sdk'.snapshot = sdk.snapshot /\ sdk'.current = sdk.current
    /\ sdk'.cache = sdk.cache /\ sdk'.token = sdk.token
    /\ sdk'.failures = sdk.failures /\ Timed(sdk')
    /\ sdk'.state = "Open" /\ sdk'.responses = <<>> /\ sdk'.document = sdk.document
    /\ serving' = None
    /\ \/ ~Listened(sdk) /\ sdk'.requests = <<>> /\ sdk'.target = sdk.target
       \/ Asks(sdk, sdk', "watch")
    /\ UNCHANGED <<posted, muted, version, faults, rejects, history>>

\* An opened stream asks for the target if there is a listener.
LEMMA TokenArrivedDoes ==
  ASSUME Base, TokenArrived
  PROVE  TokenArrivedStep
<1> DEFINE b == [sdk EXCEPT !.state = "Open"]
           d == SendRequest(b, "watch")
<1>1. /\ sdk.state = "Auth" /\ sdk' = (IF Listened(sdk) THEN d ELSE b) /\ serving' = None
      /\ UNCHANGED <<posted, muted, version, faults, rejects, history>>
  BY DEF TokenArrived
<1>2. sdk \in Sdk /\ "Open" \in StreamState /\ Timed(sdk)
  BY DEF Base, TypeOK, StreamState, Timed, Tracked
<1>3. sdk.requests = <<>> /\ sdk.responses = <<>>
  BY <1>1 DEF Base, StreamInv
<1>4. b \in Sdk
  BY <1>2 DEF Sdk
<1>5. /\ b.listeners = sdk.listeners /\ b.cache = sdk.cache /\ b.token = sdk.token
      /\ b.main = sdk.main /\ b.snapshot = sdk.snapshot /\ b.current = sdk.current
      /\ b.state = "Open" /\ b.requests = sdk.requests /\ b.responses = sdk.responses
      /\ b.target = sdk.target /\ b.document = sdk.document
      /\ b.online = sdk.online /\ b.failures = sdk.failures /\ b.timer = sdk.timer
  BY <1>2 DEF Sdk
<1> HIDE DEF b
<1>6. CASE ~Listened(sdk)
  <2>1. Timed(b)
    BY <1>2, <1>5 DEF Timed, Tracked, IsStarted
  <2>2. sdk' = b
    BY <1>1, <1>6
  <2> QED
    BY <1>1, <1>3, <1>4, <1>5, <1>6, <2>1, <2>2 DEF TokenArrivedStep
<1>7. CASE Listened(sdk)
  <2>1. /\ d \in Sdk
        /\ d.listeners = b.listeners /\ d.snapshot = b.snapshot /\ d.current = b.current
        /\ d.online = b.online /\ d.failures = b.failures /\ d.timer = b.timer
        /\ d.state = b.state /\ d.responses = b.responses /\ d.document = b.document
        /\ d.cache = b.cache /\ d.token = b.token /\ d.main = b.main
        /\ Msg("watch", b.token) \in Request /\ d.requests = Append(b.requests, Msg("watch", b.token))
        /\ d.target # None /\ d.target \in TargetState
        /\ d.target.outstanding = Ensure(b.target).outstanding + 1
        /\ d.target.token = Ensure(b.target).token
    BY <1>4, SendRequestFacts
  <2>2. sdk' = d
    BY <1>1, <1>7
  <2> HIDE DEF d
  <2>3. Timed(d)
    BY <1>2, <1>5, <2>1 DEF Timed, Tracked, IsStarted
  <2> QED
    BY <1>1, <1>3, <1>5, <2>1, <2>2, <2>3 DEF TokenArrivedStep, Asks
<1> QED
  BY <1>6, <1>7

\* A new listener, whether or not it is the first one.
AddListenerStep ==
    LET k == Head(posted).call
    IN  /\ posted # <<>> /\ Head(posted).op = "add" /\ posted' = Tail(posted) /\ k \in Calls
        /\ sdk' \in Sdk /\ Timed(sdk') /\ sdk'.failures = sdk.failures
        /\ sdk'.listeners = Append(sdk.listeners, k)
        /\ MoreEvents(sdk.main, sdk'.main, Append(sdk.listeners, k))
        /\ sdk'.cache = sdk.cache /\ sdk'.token = sdk.token /\ sdk'.snapshot # None
        /\ IF Listened(sdk)
           THEN /\ Rests(sdk, sdk') /\ sdk'.current = sdk.current /\ sdk'.snapshot = sdk.snapshot
                /\ listenedAt' = listenedAt
           ELSE /\ ~sdk'.current /\ listenedAt' = version
                /\ \/ Asks(sdk, sdk', "watch") /\ sdk.state = "Open"
                   \/ /\ sdk'.state # "Open" /\ sdk'.requests = <<>> /\ sdk'.responses = <<>>
                      /\ \/ sdk'.target = None /\ sdk'.document = 0
                         \/ sdk'.target = sdk.target /\ sdk'.document = sdk.document
        /\ UNCHANGED <<muted, version, serving, faults, rejects, since, answers, crossed>>

\* addListener does what AddListenerStep says.
LEMMA AddListenerDoes ==
  ASSUME Base, AddListener
  PROVE  AddListenerStep
<1> DEFINE k     == Head(posted).call
           added == [sdk EXCEPT !.listeners = Append(@, k)]
           copy  == [version |-> sdk.cache, fromCache |-> TRUE]
           a     == [added EXCEPT !.current = FALSE]
           e     == HandleSnapshot(a, copy)
<1>1. /\ posted # <<>> /\ Head(posted).op = "add" /\ posted' = Tail(posted)
      /\ sdk' = IF ~Listened(sdk) THEN ListenToTarget(e) ELSE Raise(added, <<k>>, sdk.snapshot)
      /\ listenedAt' = IF ~Listened(sdk) THEN version ELSE listenedAt
      /\ UNCHANGED <<muted, version, serving, faults, rejects, since, answers, crossed>>
  BY DEF AddListener
<1>2. /\ sdk \in Sdk /\ posted \in Seq(Block) /\ Timed(sdk) /\ Tracked(sdk)
      /\ Listened(sdk) => sdk.snapshot # None
      /\ sdk.state # "Open" => sdk.requests = <<>> /\ sdk.responses = <<>>
  BY DEF Base, TypeOK, SnapshotThere, StreamInv, Timed, Tracked
<1>3. Head(posted) \in Block
  BY <1>1, <1>2
<1>4. k \in Calls
  BY <1>3 DEF Block
<1> HIDE DEF k
<1>5. /\ sdk.listeners \in Seq(Calls) /\ sdk.cache \in Versions /\ sdk.main \in Seq(Event)
      /\ sdk.snapshot \in Snapshot \cup {None}
  BY <1>2, SdkFields
<1>6. Append(sdk.listeners, k) \in Seq(Calls) /\ Append(sdk.listeners, k) # <<>>
  BY <1>4, <1>5
<1>7. added \in Sdk
  BY <1>2, <1>6 DEF Sdk
<1>8. /\ added.listeners = Append(sdk.listeners, k)
      /\ added.cache = sdk.cache /\ added.token = sdk.token
      /\ added.main = sdk.main /\ added.snapshot = sdk.snapshot /\ added.current = sdk.current
      /\ Rests(sdk, added)
      /\ added.online = sdk.online /\ added.failures = sdk.failures /\ added.timer = sdk.timer
  BY <1>2 DEF Sdk, Rests
<1> HIDE DEF added
<1>9. CASE Listened(sdk)
  <2> DEFINE d == Raise(added, <<k>>, sdk.snapshot)
  <2>1. sdk' = d /\ listenedAt' = listenedAt
    BY <1>1, <1>9
  <2>2. <<k>> \in Seq(Calls) /\ \A n \in DOMAIN <<k>> : <<k>>[n] = k
    BY <1>4
  <2>3. \E i \in DOMAIN added.listeners : k = added.listeners[i]
    <3> DEFINE l == sdk.listeners
    <3>1. /\ DOMAIN Append(l, k) = 1 .. Len(l) + 1 /\ Append(l, k)[Len(l) + 1] = k
          /\ Len(l) \in Nat
      BY <1>4, <1>5, AppendAt
    <3>2. Len(l) + 1 \in DOMAIN Append(l, k)
      BY <3>1
    <3> QED
      BY <1>8, <3>1, <3>2
  <2>4. sdk.snapshot \in Snapshot
    BY <1>2, <1>5, <1>9
  <2>5. \A n \in DOMAIN <<k>> : \E i \in DOMAIN added.listeners : <<k>>[n] = added.listeners[i]
    BY <2>2, <2>3
  <2>6. /\ d \in Sdk /\ Frame(added, d) /\ MoreEvents(added.main, d.main, added.listeners)
        /\ d.snapshot = added.snapshot /\ d.current = added.current
        /\ d.online = added.online /\ d.failures = added.failures /\ d.timer = added.timer
    BY <1>7, <2>2, <2>4, <2>5, RaiseFacts
  <2> HIDE DEF d
  <2>7. Timed(d)
    BY <1>2, <1>8, <2>6 DEF Timed, Tracked, IsStarted, Frame, Rests
  <2>8. Rests(sdk, d)
    BY <1>8, <2>6 DEF Rests, Frame
  <2>9. MoreEvents(sdk.main, d.main, Append(sdk.listeners, k))
    BY <1>8, <2>6
  <2>10. /\ d.listeners = Append(sdk.listeners, k) /\ d.cache = sdk.cache /\ d.token = sdk.token
         /\ d.snapshot = sdk.snapshot /\ d.current = sdk.current /\ d.failures = sdk.failures
    BY <1>8, <2>6 DEF Frame
  <2> QED
    BY <1>1, <1>2, <1>4, <1>9, <2>1, <2>6, <2>7, <2>8, <2>9, <2>10 DEF AddListenerStep, k
<1>10. CASE ~Listened(sdk)
  <2>1. sdk' = ListenToTarget(e) /\ listenedAt' = version
    BY <1>1, <1>10
  <2>2. a \in Sdk
    BY <1>7 DEF Sdk
  <2>3. /\ a.listeners = added.listeners
        /\ a.cache = added.cache /\ a.token = added.token /\ a.main = added.main /\ ~a.current
        /\ Rests(added, a)
        /\ a.online = added.online /\ a.failures = added.failures /\ a.timer = added.timer
    BY <1>7 DEF Sdk, Rests
  <2> HIDE DEF a
  <2>4. copy \in Snapshot /\ copy # None
    <3>1. copy \in Snapshot
      BY <1>5 DEF Snapshot
    <3> QED
      BY <3>1, NoneAssumption
  <2> HIDE DEF copy
  <2>5. /\ e \in Sdk /\ Frame(a, e) /\ MoreEvents(a.main, e.main, a.listeners)
        /\ e.snapshot = copy /\ e.current = a.current
        /\ e.online = a.online /\ e.failures = a.failures /\ e.timer = a.timer
    BY <2>2, <2>4, HandleSnapshotFacts
  <2> HIDE DEF e
  <2>6. /\ e.listeners = Append(sdk.listeners, k) /\ e.cache = sdk.cache /\ e.token = sdk.token
        /\ MoreEvents(sdk.main, e.main, Append(sdk.listeners, k))
        /\ ~e.current /\ e.failures = sdk.failures /\ Rests(sdk, e)
        /\ e.online = sdk.online /\ e.timer = sdk.timer /\ e.snapshot # None
    BY <1>8, <2>3, <2>4, <2>5 DEF Frame, Rests
  <2>7. Timed(e)
    BY <1>2, <2>6 DEF Timed, Tracked, IsStarted, Rests
  <2>8. Listened(e)
    BY <1>6, <2>6 DEF Listened
  <2>9. CASE e.state = "Open"
    <3> DEFINE d == SendRequest(e, "watch")
    <3>1. sdk' = d
      BY <2>1, <2>9 DEF ListenToTarget
    <3>2. /\ d \in Sdk
          /\ d.listeners = e.listeners /\ d.snapshot = e.snapshot /\ d.current = e.current
          /\ d.online = e.online /\ d.failures = e.failures /\ d.timer = e.timer
          /\ d.state = e.state /\ d.responses = e.responses /\ d.document = e.document
          /\ d.cache = e.cache /\ d.token = e.token /\ d.main = e.main
          /\ Msg("watch", e.token) \in Request
          /\ d.requests = Append(e.requests, Msg("watch", e.token))
          /\ d.target # None /\ d.target \in TargetState
          /\ d.target.outstanding = Ensure(e.target).outstanding + 1
          /\ d.target.token = Ensure(e.target).token
      BY <2>5, SendRequestFacts
    <3> HIDE DEF d
    <3>3. Asks(sdk, d, "watch") /\ sdk.state = "Open"
      BY <2>6, <2>9, <3>2 DEF Asks, Rests
    <3>4. Timed(d)
      BY <2>7, <3>2 DEF Timed, Tracked, IsStarted
    <3> QED
      BY <1>1, <1>4, <1>10, <2>1, <2>6, <3>1, <3>2, <3>3, <3>4 DEF AddListenerStep, k
  <2>10. CASE e.state # "Open"
    <3> DEFINE d == StartIfNeeded(e)
    <3>1. sdk' = d
      BY <2>1, <2>10 DEF ListenToTarget
    <3>2. e.requests = <<>> /\ e.responses = <<>>
      BY <1>2, <2>6, <2>10 DEF Rests
    <3>3. Ended(e, d) /\ Timed(d) /\ d.failures = e.failures
      BY <2>5, <2>6, <2>7, <2>10, <3>2, StartIfNeededFacts
    <3> HIDE DEF d
    <3>4. /\ d \in Sdk /\ d.listeners = e.listeners /\ d.cache = e.cache /\ d.token = e.token
          /\ MoreEvents(e.main, d.main, e.listeners) /\ d.snapshot # None /\ ~d.current
          /\ d.state # "Open" /\ d.requests = <<>> /\ d.responses = <<>>
          /\ \/ d.target = None /\ d.document = 0
             \/ d.target = e.target /\ d.document = e.document
      BY <2>6, <2>8, <3>3 DEF Ended, Told
    <3>5. e.main \in Seq(Event) /\ d.main \in Seq(Event)
      BY <2>5, <3>4, SdkFields
    <3>6. MoreEvents(sdk.main, d.main, Append(sdk.listeners, k))
      BY <1>5, <2>6, <3>4, <3>5, MoreEventsTwice
    <3>7. \/ d.target = None /\ d.document = 0
          \/ d.target = sdk.target /\ d.document = sdk.document
      BY <2>6, <3>4 DEF Rests
    <3> QED
      BY <1>1, <1>4, <1>10, <2>1, <2>6, <3>1, <3>3, <3>4, <3>6, <3>7 DEF AddListenerStep, k
  <2> QED
    BY <2>9, <2>10
<1> QED
  BY <1>9, <1>10

\* A listener goes; with the last one, the listen.
RemoveListenerStep ==
    LET k == Head(posted).call
    IN  /\ posted # <<>> /\ Head(posted).op = "remove" /\ posted' = Tail(posted)
        /\ sdk' \in Sdk /\ Timed(sdk') /\ sdk'.failures = sdk.failures
        /\ sdk'.listeners = Among(sdk.listeners, Calls \ {k})
        /\ sdk'.main = sdk.main /\ sdk'.current = sdk.current
        /\ sdk'.cache = sdk.cache /\ sdk'.token = sdk.token
        /\ Listened(sdk') => Listened(sdk) /\ sdk'.snapshot = sdk.snapshot
        /\ \/ Rests(sdk, sdk')
           \/ Asks(sdk, sdk', "unwatch") /\ sdk.state = "Open" /\ ~Listened(sdk')
        /\ UNCHANGED <<muted, version, serving, faults, rejects, history>>

\* removeListener does what RemoveListenerStep says.
LEMMA RemoveListenerDoes ==
  ASSUME Base, RemoveListener
  PROVE  RemoveListenerStep
<1> DEFINE k    == Head(posted).call
           rest == Among(sdk.listeners, Calls \ {k})
           left == [sdk EXCEPT !.listeners = rest]
           bare == [left EXCEPT !.snapshot = None]
<1>1. /\ posted # <<>> /\ Head(posted).op = "remove" /\ posted' = Tail(posted)
      /\ sdk' = IF Listened(sdk) /\ rest = <<>> THEN StopListening(bare) ELSE left
      /\ UNCHANGED <<muted, version, serving, faults, rejects, history>>
  BY DEF RemoveListener
<1>2. /\ sdk \in Sdk /\ Timed(sdk)
  BY DEF Base, TypeOK, Timed, Tracked
<1>3. sdk.listeners \in Seq(Calls)
  BY <1>2, SdkFields
<1>4. /\ rest \in Seq(Calls)
      /\ \A n \in DOMAIN rest : \E i \in DOMAIN sdk.listeners : rest[n] = sdk.listeners[i]
  <2> DEFINE others == Calls \ {k}
  <2> HIDE DEF others, k
  <2>1. /\ Among(sdk.listeners, others) \in Seq(Calls)
        /\ \A n \in DOMAIN Among(sdk.listeners, others) :
             \E i \in DOMAIN sdk.listeners : Among(sdk.listeners, others)[n] = sdk.listeners[i]
    BY <1>3, AmongFacts
  <2> QED
    BY <2>1 DEF others
<1> HIDE DEF rest, k
<1>5. rest # <<>> => Listened(sdk)
  <2>1. ASSUME rest # <<>> PROVE sdk.listeners # <<>>
    <3>1. 1 \in DOMAIN rest
      BY <1>4, <2>1
    <3> QED
      BY <1>3, <1>4, <3>1
  <2> QED
    BY <2>1 DEF Listened
<1>6. left \in Sdk
  BY <1>2, <1>4 DEF Sdk
<1>7. /\ left.listeners = rest
      /\ left.cache = sdk.cache /\ left.token = sdk.token
      /\ left.main = sdk.main /\ left.snapshot = sdk.snapshot /\ left.current = sdk.current
      /\ Rests(sdk, left)
      /\ left.online = sdk.online /\ left.failures = sdk.failures /\ left.timer = sdk.timer
  BY <1>2 DEF Sdk, Rests
<1> HIDE DEF left
<1>8. bare \in Sdk
  BY <1>6 DEF Sdk
<1>9. /\ bare.listeners = left.listeners
      /\ bare.cache = left.cache /\ bare.token = left.token
      /\ bare.main = left.main /\ bare.current = left.current
      /\ Rests(left, bare)
      /\ bare.online = left.online /\ bare.failures = left.failures /\ bare.timer = left.timer
  BY <1>6 DEF Sdk, Rests
<1> HIDE DEF bare
<1>10. CASE ~ (Listened(sdk) /\ rest = <<>>)
  <2>1. sdk' = left
    BY <1>1, <1>10
  <2>2. Timed(left)
    BY <1>2, <1>7 DEF Timed, Tracked, IsStarted, Rests
  <2>3. Listened(left) => Listened(sdk) /\ left.snapshot = sdk.snapshot
    BY <1>5, <1>7 DEF Listened
  <2> QED
    BY <1>1, <1>6, <1>7, <2>1, <2>2, <2>3 DEF RemoveListenerStep, rest, k
<1>11. CASE Listened(sdk) /\ rest = <<>> /\ sdk.state # "Open"
  <2>1. bare.state = sdk.state /\ Rests(sdk, bare)
    BY <1>7, <1>9 DEF Rests
  <2>2. sdk' = bare
    BY <1>1, <1>11, <2>1 DEF StopListening
  <2>3. Timed(bare)
    BY <1>2, <1>7, <1>9, <2>1 DEF Timed, Tracked, IsStarted
  <2>4. ~Listened(bare)
    BY <1>7, <1>9, <1>11 DEF Listened
  <2> QED
    BY <1>1, <1>7, <1>8, <1>9, <2>1, <2>2, <2>3, <2>4 DEF RemoveListenerStep, rest, k
<1>12. CASE Listened(sdk) /\ rest = <<>> /\ sdk.state = "Open"
  <2> DEFINE s == SendRequest(bare, "unwatch")
             d == [s EXCEPT !.idle = TRUE]
  <2>1. bare.state = "Open" /\ Rests(sdk, bare)
    BY <1>7, <1>9, <1>12 DEF Rests
  <2>2. sdk' = d
    BY <1>1, <1>12, <2>1 DEF StopListening
  <2>3. /\ s \in Sdk
        /\ s.listeners = bare.listeners /\ s.snapshot = bare.snapshot /\ s.current = bare.current
        /\ s.online = bare.online /\ s.failures = bare.failures /\ s.timer = bare.timer
        /\ s.state = bare.state /\ s.responses = bare.responses /\ s.document = bare.document
        /\ s.cache = bare.cache /\ s.token = bare.token /\ s.main = bare.main
        /\ Msg("unwatch", bare.token) \in Request
        /\ s.requests = Append(bare.requests, Msg("unwatch", bare.token))
        /\ s.target # None /\ s.target \in TargetState
        /\ s.target.outstanding = Ensure(bare.target).outstanding + 1
        /\ s.target.token = Ensure(bare.target).token
    BY <1>8, SendRequestFacts
  <2> HIDE DEF s
  <2>4. d \in Sdk
    BY <2>3 DEF Sdk
  <2>5. /\ d.listeners = s.listeners /\ d.current = s.current
        /\ d.online = s.online /\ d.failures = s.failures /\ d.timer = s.timer
        /\ d.state = s.state /\ d.responses = s.responses /\ d.document = s.document
        /\ d.cache = s.cache /\ d.token = s.token /\ d.main = s.main
        /\ d.requests = s.requests /\ d.target = s.target
    BY <2>3 DEF Sdk
  <2> HIDE DEF d
  <2>6. /\ d.listeners = rest /\ d.current = sdk.current /\ d.failures = sdk.failures
        /\ d.online = sdk.online /\ d.timer = sdk.timer /\ d.state = sdk.state
        /\ d.cache = sdk.cache /\ d.token = sdk.token /\ d.main = sdk.main
    BY <1>7, <1>9, <1>12, <2>1, <2>3, <2>5
  <2>7. Timed(d)
    BY <1>2, <2>6 DEF Timed, Tracked, IsStarted
  <2>8. Asks(sdk, d, "unwatch")
    BY <1>7, <1>9, <2>1, <2>3, <2>5, <2>6 DEF Asks, Rests
  <2>9. ~Listened(d)
    BY <1>12, <2>6 DEF Listened
  <2> QED
    BY <1>1, <1>12, <2>2, <2>4, <2>6, <2>7, <2>8, <2>9 DEF RemoveListenerStep, rest, k
<1> QED
  BY <1>10, <1>11, <1>12

-----------------------------------------------------------------------------
(* What the backend does *)

\* Messages appended one by one.
LEMMA MessagesAppended ==
  ASSUME NEW s \in Seq(Message), NEW x \in Message, NEW y \in Message
  PROVE  s \o <<x>> = Append(s, x) /\ s \o <<x, y>> = Append(Append(s, x), y) /\ s \o <<>> = s
OBVIOUS

\* Only what is under way in both directions is another thing.
SameClient(c, d) ==
    /\ d \in Sdk
    /\ d.listeners = c.listeners /\ d.snapshot = c.snapshot /\ d.current = c.current
    /\ d.online = c.online /\ d.failures = c.failures /\ d.timer = c.timer
    /\ d.state = c.state /\ d.target = c.target /\ d.document = c.document
    /\ d.cache = c.cache /\ d.token = c.token /\ d.main = c.main

\* Messages are numbers and names.
LEMMA MessageTypes ==
  ASSUME Base
  PROVE  /\ version \in Versions /\ 0 \in Versions
         /\ \A type : type \in {"added", "removed", "refused", "document", "current", "nochange",
                                "snapshot", "closed"} =>
              /\ Msg(type, 0) \in Message /\ Msg(type, version) \in Message
              /\ Msg(type, 0).type = type /\ Msg(type, version).type = type
              /\ Msg(type, version).version = version
BY BoundsAssumption DEF Base, TypeOK, Versions, Msg, Message

\* While the stream is not broken no closing message is under way.
LEMMA NotBroken ==
  ASSUME Base, ~Broken
  PROVE  \A k \in DOMAIN sdk.responses : sdk.responses[k].type # "closed"
<1> SUFFICES ASSUME NEW k \in DOMAIN sdk.responses, sdk.responses[k].type = "closed"
             PROVE  FALSE
  OBVIOUS
<1>1. sdk.responses \in Seq(Message)
  BY SdkFields DEF Base, TypeOK
<1>2. k = Len(sdk.responses)
  BY DEF Base, StreamInv
<1>3. sdk.responses # <<>>
  BY <1>1
<1> QED
  BY <1>2, <1>3 DEF Broken, Last

\* The backend answers the oldest request.
AnswerStep(type) ==
    /\ SameClient(sdk, sdk') /\ sdk.state = "Open" /\ ~Broken
    /\ sdk.requests # <<>> /\ sdk'.requests = Tail(sdk.requests)
    /\ Msg(type, 0) \in Message /\ Msg(type, 0).type = type
    /\ sdk'.responses = Append(sdk.responses, Msg(type, 0))

\* The backend answers the first request with one response.
LEMMA AnswerDoes ==
  ASSUME Base, NEW type \in {"added", "removed", "refused"}, NEW asked,
         Asked(asked), Respond(<<Msg(type, 0)>>)
  PROVE  AnswerStep(type) /\ Head(sdk.requests).type = asked
<1> DEFINE m == Msg(type, 0)
           d == [sdk EXCEPT !.requests = Tail(@), !.responses = @ \o <<m>>]
<1>1. /\ sdk.state = "Open" /\ ~Broken /\ sdk.requests # <<>> /\ Head(sdk.requests).type = asked
      /\ sdk' = d
  BY DEF Asked, Respond
<1>2. sdk \in Sdk /\ sdk.requests \in Seq(Request) /\ sdk.responses \in Seq(Message)
  BY SdkFields DEF Base, TypeOK
<1>3. m \in Message /\ m.type = type
  BY MessageTypes
<1> HIDE DEF m
<1>4. Tail(sdk.requests) \in Seq(Request) /\ sdk.responses \o <<m>> \in Seq(Message)
  BY <1>1, <1>2, <1>3
<1>5. sdk.responses \o <<m>> = Append(sdk.responses, m)
  BY <1>2, <1>3, MessagesAppended
<1>6. d \in Sdk
  BY <1>2, <1>4 DEF Sdk
<1>7. /\ d.listeners = sdk.listeners /\ d.snapshot = sdk.snapshot /\ d.current = sdk.current
      /\ d.online = sdk.online /\ d.failures = sdk.failures /\ d.timer = sdk.timer
      /\ d.state = sdk.state /\ d.target = sdk.target /\ d.document = sdk.document
      /\ d.cache = sdk.cache /\ d.token = sdk.token /\ d.main = sdk.main
      /\ d.requests = Tail(sdk.requests) /\ d.responses = sdk.responses \o <<m>>
  BY <1>2 DEF Sdk
<1> HIDE DEF d
<1> QED
  BY <1>1, <1>3, <1>5, <1>6, <1>7 DEF AnswerStep, SameClient, m

\* The backend sends what the device has not seen.
SendChangesStep ==
    LET doc  == Msg("document", version)
        mark == Msg(IF serving.current THEN "nochange" ELSE "current", version)
        snap == Msg("snapshot", version)
        some == IF serving.sent < version THEN Append(sdk.responses, doc) ELSE sdk.responses
    IN  /\ SameClient(sdk, sdk') /\ sdk.state = "Open" /\ ~Broken
        /\ serving # None /\ serving' = [sent |-> version, current |-> TRUE]
        /\ serving.current => serving.sent < version
        /\ doc \in Message /\ mark \in Message /\ snap \in Message
        /\ mark.type \in {"current", "nochange"}
        /\ some \in Seq(Message) /\ sdk'.requests = sdk.requests
        /\ sdk'.responses = Append(Append(some, mark), snap)
        /\ UNCHANGED <<posted, muted, version, faults, rejects, history>>

\* The backend sends a document, a mark and a snapshot, or the last two.
LEMMA SendChangesDoes ==
  ASSUME Base, SendChanges
  PROVE  SendChangesStep
<1> DEFINE doc    == Msg("document", version)
           change == IF serving.sent < version THEN <<doc>> ELSE <<>>
           mark   == Msg(IF serving.current THEN "nochange" ELSE "current", version)
           snap   == Msg("snapshot", version)
           some   == IF serving.sent < version THEN Append(sdk.responses, doc) ELSE sdk.responses
           new    == sdk.responses \o change \o <<mark, snap>>
           d      == [sdk EXCEPT !.responses = @ \o change \o <<mark, snap>>]
<1>1. /\ serving # None /\ sdk.state = "Open" /\ ~Broken
      /\ serving.current => serving.sent < version
      /\ sdk' = d /\ serving' = [sent |-> version, current |-> TRUE]
      /\ UNCHANGED <<posted, muted, version, faults, rejects, history>>
  BY DEF SendChanges
<1>2. sdk \in Sdk /\ sdk.responses \in Seq(Message)
  BY SdkFields DEF Base, TypeOK
<1>3. doc \in Message /\ mark \in Message /\ snap \in Message
  BY MessageTypes
<1>4. mark.type \in {"current", "nochange"}
  BY MessageTypes
<1>5. d = [sdk EXCEPT !.responses = new]
  BY <1>2 DEF Sdk
<1> HIDE DEF doc, mark, snap, d
<1>6. sdk.responses \o change = some
  <2>1. CASE serving.sent < version
    BY <1>2, <1>3, <2>1, MessagesAppended
  <2>2. CASE ~ (serving.sent < version)
    BY <1>2, <1>3, <2>2, MessagesAppended
  <2> QED
    BY <2>1, <2>2
<1>7. some \in Seq(Message)
  BY <1>2, <1>3
<1>8. new = some \o <<mark, snap>>
  BY <1>6
<1> HIDE DEF some, change
<1>9. some \o <<mark, snap>> = Append(Append(some, mark), snap)
  BY <1>3, <1>7, MessagesAppended
<1>10. Append(Append(some, mark), snap) \in Seq(Message)
  BY <1>3, <1>7
<1>11. new = Append(Append(some, mark), snap) /\ new \in Seq(Message)
  BY <1>8, <1>9, <1>10
<1> HIDE DEF new
<1>12. d \in Sdk
  BY <1>2, <1>5, <1>11 DEF Sdk
<1>13. /\ d.listeners = sdk.listeners /\ d.snapshot = sdk.snapshot /\ d.current = sdk.current
       /\ d.online = sdk.online /\ d.failures = sdk.failures /\ d.timer = sdk.timer
       /\ d.state = sdk.state /\ d.target = sdk.target /\ d.document = sdk.document
       /\ d.cache = sdk.cache /\ d.token = sdk.token /\ d.main = sdk.main
       /\ d.requests = sdk.requests /\ d.responses = new
  BY <1>2, <1>5 DEF Sdk
<1>14. SameClient(sdk, d)
  BY <1>12, <1>13 DEF SameClient
<1> QED
  BY <1>1, <1>3, <1>4, <1>7, <1>11, <1>13, <1>14 DEF SendChangesStep, some, doc, mark, snap

\* The messages that came through before the stream broke, and its end.
BreakStreamStep(n) ==
    /\ SameClient(sdk, sdk') /\ sdk.state = "Open" /\ ~Broken
    /\ faults < MaxFaults /\ faults' = faults + 1
    /\ n \in 0 .. Len(sdk.responses) /\ SubSeq(sdk.responses, 1, n) \in Seq(Message)
    /\ Msg("closed", 0) \in Message /\ Msg("closed", 0).type = "closed"
    /\ sdk'.requests = sdk.requests
    /\ sdk'.responses = Append(SubSeq(sdk.responses, 1, n), Msg("closed", 0))
    /\ UNCHANGED <<posted, muted, version, serving, rejects, history>>

\* The stream keeps some of its messages, and a closing one.
BreaksSomewhere == \E n \in Nat : BreakStreamStep(n)

\* BreakStream does what BreakStreamStep says for some length.
LEMMA BreakStreamDoes ==
  ASSUME Base, BreakStream
  PROVE  BreaksSomewhere
<1>1. /\ faults < MaxFaults /\ sdk.state = "Open" /\ ~Broken /\ faults' = faults + 1
      /\ UNCHANGED <<posted, muted, version, serving, rejects, history>>
  BY DEF BreakStream
<1>2. PICK n \in 0 .. Len(sdk.responses) :
        sdk' = [sdk EXCEPT !.responses = Append(SubSeq(@, 1, n), Msg("closed", 0))]
  BY DEF BreakStream
<1> DEFINE m   == Msg("closed", 0)
           sub == SubSeq(sdk.responses, 1, n)
           new == Append(sub, m)
           d   == [sdk EXCEPT !.responses = Append(SubSeq(@, 1, n), Msg("closed", 0))]
<1>3. sdk \in Sdk /\ sdk.responses \in Seq(Message)
  BY SdkFields DEF Base, TypeOK
<1>4. m \in Message /\ m.type = "closed"
  BY MessageTypes
<1>5. n \in Nat /\ sub \in Seq(Message)
  BY <1>3
<1>6. d = [sdk EXCEPT !.responses = new]
  BY <1>3 DEF Sdk
<1>7. sdk' = d
  BY <1>2
<1> HIDE DEF m, sub, d
<1>8. new \in Seq(Message)
  BY <1>4, <1>5
<1> HIDE DEF new
<1>9. d \in Sdk
  BY <1>3, <1>6, <1>8 DEF Sdk
<1>10. /\ d.listeners = sdk.listeners /\ d.snapshot = sdk.snapshot /\ d.current = sdk.current
       /\ d.online = sdk.online /\ d.failures = sdk.failures /\ d.timer = sdk.timer
       /\ d.state = sdk.state /\ d.target = sdk.target /\ d.document = sdk.document
       /\ d.cache = sdk.cache /\ d.token = sdk.token /\ d.main = sdk.main
       /\ d.requests = sdk.requests /\ d.responses = new
  BY <1>3, <1>6 DEF Sdk
<1>11. SameClient(sdk, d)
  BY <1>9, <1>10 DEF SameClient
<1>12. BreakStreamStep(n)
  BY <1>1, <1>4, <1>5, <1>7, <1>10, <1>11 DEF BreakStreamStep, new, sub, m
<1> QED
  BY <1>5, <1>12 DEF BreaksSomewhere

-----------------------------------------------------------------------------
(* The types, the stream and the snapshot *)

\* At the start nothing is listened to.
LEMMA BaseInit == Init => Base
<1> SUFFICES ASSUME Init PROVE Base
  OBVIOUS
<1>1. 0 \in Versions /\ 1 \in Versions /\ 0 \in 0 .. MaxFaults /\ 0 \in 0 .. MaxRejects
  BY BoundsAssumption DEF Versions
<1>2. /\ <<>> \in Seq(Calls) /\ <<>> \in Seq(Request) /\ <<>> \in Seq(Message)
      /\ <<>> \in Seq(Event) /\ <<>> \in Seq(Block) /\ <<>> \in Seq(Snapshot \cup {None})
  OBVIOUS
<1>3. FreshSdk \in Sdk
  BY <1>1, <1>2 DEF FreshSdk, Sdk, OnlineState, StreamState
<1>4. /\ sdk = FreshSdk /\ FreshSdk.listeners = <<>> /\ FreshSdk.requests = <<>>
      /\ FreshSdk.responses = <<>> /\ FreshSdk.failures = 0 /\ ~FreshSdk.timer
      /\ FreshSdk.online = "Unknown" /\ FreshSdk.state = "Initial"
  BY DEF Init, FreshSdk
<1>5. TypeOK
  BY <1>1, <1>2, <1>3, <1>4 DEF Init, TypeOK
<1>6. StreamInv
  BY <1>4 DEF Init, StreamInv, Broken
<1> QED
  BY <1>4, <1>5, <1>6 DEF Base, SnapshotThere, Listened

\* What a step has to keep up so that the types do.
LEMMA BaseKept ==
  ASSUME TypeOK, sdk' \in Sdk, Timed(sdk)', posted' \in Seq(Block), muted' \subseteq Calls,
         version' \in Versions, serving' \in Serving \cup {None},
         faults' \in 0 .. MaxFaults, rejects' \in 0 .. MaxRejects,
         since' \in [Calls -> Versions], listenedAt' \in Versions,
         answers' \in [Calls -> Seq(Snapshot \cup {None})], crossed' \in BOOLEAN
  PROVE  TypeOK'
BY DEF TypeOK, Timed, Tracked

\* The types of what is not the client's.
LEMMA OthersTyped ==
  ASSUME TypeOK
  PROVE  /\ posted \in Seq(Block) /\ muted \subseteq Calls
         /\ version \in Versions /\ serving \in Serving \cup {None}
         /\ faults \in 0 .. MaxFaults /\ rejects \in 0 .. MaxRejects
         /\ since \in [Calls -> Versions] /\ listenedAt \in Versions
         /\ answers \in [Calls -> Seq(Snapshot \cup {None})] /\ crossed \in BOOLEAN
         /\ Timed(sdk) /\ sdk \in Sdk
BY DEF TypeOK, Timed, Tracked

\* The messages of a client whose stream did not end ...
LEMMA StreamKept ==
  ASSUME Base, sdk'.state = "Open",
         \A k \in DOMAIN sdk'.responses : sdk'.responses[k].type # "closed",
         sdk'.responses \in Seq(Message), sdk'.failures <= faults', sdk'.failures \in Int,
         faults' \in Int
  PROVE  StreamInv'
<1>1. ~Broken'
  BY DEF Broken, Last
<1>2. (sdk.failures + (IF Broken THEN 1 ELSE 0) <= faults)'
  BY <1>1
<1> QED
  BY <1>2 DEF StreamInv

\* ... and of one that has none.
LEMMA StreamGone ==
  ASSUME sdk'.requests = <<>>, sdk'.responses = <<>>, sdk'.failures <= faults',
         sdk'.failures \in Int, faults' \in Int
  PROVE  StreamInv'
<1>1. ~Broken'
  BY DEF Broken
<1>2. (sdk.failures + (IF Broken THEN 1 ELSE 0) <= faults)'
  BY <1>1
<1> QED
  BY <1>2 DEF StreamInv

\* The stream is what it was.
LEMMA StreamSame ==
  ASSUME Base, sdk'.state = sdk.state, sdk'.requests = sdk.requests,
         sdk'.responses = sdk.responses, sdk'.failures = sdk.failures, faults' = faults
  PROVE  StreamInv'
BY DEF Base, StreamInv, Broken, Last

\* The stream's messages are the same, and a request may be there.
LEMMA StreamAsks ==
  ASSUME Base, sdk'.state = "Open",
         sdk'.responses = sdk.responses, sdk'.failures = sdk.failures, faults' = faults
  PROVE  StreamInv'
BY DEF Base, StreamInv, Broken, Last

\* Base after a step that ends a stream.
LEMMA BaseEnding ==
  ASSUME Base, EndingStep
  PROVE  Base'
<1>1. /\ Ended(sdk, sdk') /\ Timed(sdk') /\ sdk'.failures <= faults' /\ faults' \in 0 .. MaxFaults
      /\ UNCHANGED <<posted, muted, version, serving, rejects, since, listenedAt, answers, crossed>>
  BY DEF EndingStep, history
<1>2. sdk' \in Sdk /\ sdk'.requests = <<>> /\ sdk'.responses = <<>> /\ sdk'.listeners = sdk.listeners
  BY <1>1 DEF Ended, Told
<1>3. TypeOK
  BY DEF Base
<1>4. sdk'.failures \in Int /\ faults' \in Int
  BY <1>1, <1>2, SdkFields
<1>5. TypeOK'
  BY <1>1, <1>2, <1>3, OthersTyped, BaseKept
<1>6. StreamInv'
  BY <1>1, <1>2, <1>4, StreamGone
<1>7. SnapshotThere'
  BY <1>1, <1>2 DEF Ended, Told, SnapshotThere, Listened
<1> QED
  BY <1>5, <1>6, <1>7 DEF Base

\* Base after a step that leaves the client's fields but for the stream alone.
LEMMA BaseSame ==
  ASSUME Base, SameClient(sdk, sdk'), StreamInv',
         version' \in Versions, serving' \in Serving \cup {None},
         faults' \in 0 .. MaxFaults, rejects' \in 0 .. MaxRejects,
         UNCHANGED <<posted, muted, history>>
  PROVE  Base'
<1>1. /\ sdk' \in Sdk /\ sdk'.listeners = sdk.listeners /\ sdk'.snapshot = sdk.snapshot
      /\ sdk'.online = sdk.online /\ sdk'.failures = sdk.failures /\ sdk'.timer = sdk.timer
      /\ sdk'.state = sdk.state
  BY DEF SameClient
<1>2. TypeOK
  BY DEF Base
<1>3. Timed(sdk)'
  BY <1>1, <1>2, OthersTyped DEF Timed, Tracked, IsStarted
<1>4. TypeOK'
  BY <1>1, <1>2, <1>3, OthersTyped, BaseKept DEF history
<1>5. SnapshotThere'
  BY <1>1 DEF Base, SnapshotThere, Listened
<1> QED
  BY <1>4, <1>5 DEF Base

\* Base after a message from the backend.
LEMMA BaseReceive ==
  ASSUME Base, HeardIt, ReceiveStep
  PROVE  Base'
<1> DEFINE message == sdk.responses[1]
           c == Heard
<1>0. c = Heard
  OBVIOUS
<1> HIDE DEF c
<1>1. /\ sdk.state = "Open" /\ sdk.responses # <<>> /\ crossed' \in BOOLEAN
      /\ UNCHANGED <<posted, muted, version, serving, faults, rejects,
                     since, listenedAt, answers>>
  BY OthersTyped DEF ReceiveStep, Base
<1>2. /\ c \in Sdk /\ c.state = "Open" /\ c.responses = Tail(sdk.responses)
      /\ c.requests = sdk.requests /\ c.online = "Online" /\ c.failures = 0 /\ ~c.timer
      /\ Listened(c) => c.snapshot # None
  BY <1>0 DEF HeardIt, Told
<1>3. /\ sdk' \in Sdk /\ sdk'.state = "Open" /\ sdk'.responses = Tail(sdk.responses)
      /\ sdk'.online = "Online" /\ sdk'.failures = 0 /\ ~sdk'.timer
      /\ Listened(sdk') => sdk'.snapshot # None
  <2>1. CASE Counts(c, sdk')
    BY <1>2, <2>1 DEF Counts, Gathers, Listened
  <2>2. CASE Refuses(c, sdk')
    BY <1>2, <2>2 DEF Refuses, Listened
  <2>3. CASE sdk' = c
    BY <1>2, <2>3
  <2>4. CASE Documents(c, sdk', message.version)
    BY <1>2, <2>4 DEF Documents, Gathers, Listened
  <2>5. CASE Marks(c, sdk', message.version)
    BY <1>2, <2>5 DEF Marks, Gathers, Listened
  <2>6. CASE Stores(c, sdk')
    BY <1>2, <2>6 DEF Stores, Listened
  <2> QED
    BY <1>0, <2>1, <2>2, <2>3, <2>4, <2>5, <2>6 DEF ReceiveStep
<1>4. TypeOK
  BY DEF Base
<1>5. Timed(sdk)'
  BY <1>3 DEF Timed, Tracked
<1>6. TypeOK'
  BY <1>1, <1>3, <1>4, <1>5, OthersTyped, BaseKept
<1>7. sdk.responses \in Seq(Message)
  BY <1>4, OthersTyped, SdkFields
<1>8. /\ Tail(sdk.responses) \in Seq(Message) /\ Len(sdk.responses) \in Nat
      /\ DOMAIN sdk.responses = 1 .. Len(sdk.responses)
      /\ Len(Tail(sdk.responses)) = Len(sdk.responses) - 1
      /\ DOMAIN Tail(sdk.responses) = 1 .. Len(sdk.responses) - 1
      /\ \A k \in DOMAIN Tail(sdk.responses) :
           k + 1 \in DOMAIN sdk.responses /\ Tail(sdk.responses)[k] = sdk.responses[k + 1]
  BY <1>1, <1>7, TailAt
<1>9. \A k \in DOMAIN sdk'.responses :
        sdk'.responses[k].type = "closed" => k = Len(sdk'.responses)
  <2>1. \A k \in DOMAIN sdk.responses :
          sdk.responses[k].type = "closed" => k = Len(sdk.responses)
    BY DEF Base, StreamInv
  <2>2. \A k \in DOMAIN sdk'.responses :
          k \in Int /\ k + 1 \in DOMAIN sdk.responses /\ sdk'.responses[k] = sdk.responses[k + 1]
    BY <1>3, <1>8
  <2> QED
    BY <1>3, <1>8, <2>1, <2>2
<1>10. Broken' => Broken
  <2>1. ASSUME sdk'.responses # <<>>
        PROVE  sdk'.responses[Len(sdk'.responses)] = sdk.responses[Len(sdk.responses)]
    <3>1. Len(sdk'.responses) \in DOMAIN Tail(sdk.responses)
      BY <1>3, <1>8, <2>1
    <3> QED
      BY <1>3, <1>8, <3>1
  <2> QED
    BY <1>1, <2>1 DEF Broken, Last
<1>11. faults \in 0 .. MaxFaults /\ sdk.failures \in 0 .. MaxFaults /\ MaxFaults \in Nat
       /\ (Broken => sdk.failures + 1 <= faults)
  BY FaultsLeft
<1>12. (sdk.failures + (IF Broken THEN 1 ELSE 0) <= faults)'
  <2>1. CASE Broken'
    BY <1>1, <1>3, <1>10, <1>11, <2>1
  <2>2. CASE ~Broken'
    BY <1>1, <1>3, <1>11, <2>2
  <2> QED
    BY <2>1, <2>2
<1>13. StreamInv'
  BY <1>3, <1>9, <1>12 DEF StreamInv
<1>14. SnapshotThere'
  BY <1>3 DEF SnapshotThere, Listened
<1> QED
  BY <1>6, <1>13, <1>14 DEF Base

\* Base after addListener.
LEMMA BaseAddListener ==
  ASSUME Base, AddListenerStep
  PROVE  Base'
<1> DEFINE k == Head(posted).call
<1>1. /\ posted # <<>> /\ posted' = Tail(posted)
      /\ sdk' \in Sdk /\ Timed(sdk') /\ sdk'.failures = sdk.failures /\ sdk'.snapshot # None
      /\ UNCHANGED <<muted, version, serving, faults, rejects, since, answers, crossed>>
  BY DEF AddListenerStep
<1>2. TypeOK /\ posted \in Seq(Block)
  BY OthersTyped DEF Base
<1>3. posted' \in Seq(Block)
  BY <1>1, <1>2
<1>4. listenedAt' \in Versions
  BY <1>2, OthersTyped DEF AddListenerStep
<1>5. TypeOK'
  BY <1>1, <1>2, <1>3, <1>4, OthersTyped, BaseKept
<1>6. StreamInv'
  <2>1. CASE Listened(sdk)
    BY <1>1, <2>1, StreamSame DEF AddListenerStep, Rests
  <2>2. CASE ~Listened(sdk) /\ Asks(sdk, sdk', "watch") /\ sdk.state = "Open"
    BY <1>1, <2>2, StreamAsks DEF Asks
  <2>3. CASE sdk'.requests = <<>> /\ sdk'.responses = <<>>
    <3>1. sdk.failures <= faults /\ sdk.failures \in Int /\ faults \in Int
      BY FaultsLeft
    <3> QED
      BY <1>1, <2>3, <3>1, StreamGone
  <2> QED
    BY <2>1, <2>2, <2>3 DEF AddListenerStep
<1> QED
  BY <1>1, <1>5, <1>6 DEF Base, SnapshotThere

\* Base after removeListener.
LEMMA BaseRemoveListener ==
  ASSUME Base, RemoveListenerStep
  PROVE  Base'
<1>1. /\ posted # <<>> /\ posted' = Tail(posted)
      /\ sdk' \in Sdk /\ Timed(sdk') /\ sdk'.failures = sdk.failures
      /\ Listened(sdk') => Listened(sdk) /\ sdk'.snapshot = sdk.snapshot
      /\ UNCHANGED <<muted, version, serving, faults, rejects, since, listenedAt, answers, crossed>>
  BY DEF RemoveListenerStep, history
<1>2. TypeOK /\ posted \in Seq(Block)
  BY OthersTyped DEF Base
<1>3. posted' \in Seq(Block)
  BY <1>1, <1>2
<1>4. TypeOK'
  BY <1>1, <1>2, <1>3, OthersTyped, BaseKept
<1>5. StreamInv'
  <2>1. CASE Rests(sdk, sdk')
    BY <1>1, <2>1, StreamSame DEF Rests
  <2>2. CASE Asks(sdk, sdk', "unwatch") /\ sdk.state = "Open"
    BY <1>1, <2>2, StreamAsks DEF Asks
  <2> QED
    BY <2>1, <2>2 DEF RemoveListenerStep
<1>6. SnapshotThere'
  <2>1. Listened(sdk') => sdk'.snapshot # None
    BY <1>1 DEF Base, SnapshotThere
  <2> QED
    BY <2>1 DEF SnapshotThere, Listened
<1> QED
  BY <1>4, <1>5, <1>6 DEF Base

\* The app's own steps do not touch the stream.
CallbackStep ==
    LET event == Head(sdk.main)
        heard == event.call \notin muted
    IN  /\ sdk.main # <<>> /\ event \in Event
        /\ sdk' \in Sdk /\ sdk'.main = Tail(sdk.main)
        /\ sdk'.listeners = sdk.listeners /\ sdk'.snapshot = sdk.snapshot
        /\ sdk'.current = sdk.current
        /\ sdk'.online = sdk.online /\ sdk'.failures = sdk.failures /\ sdk'.timer = sdk.timer
        /\ sdk'.cache = sdk.cache /\ sdk'.token = sdk.token /\ Rests(sdk, sdk')
        /\ answers' = IF heard
                      THEN [answers EXCEPT ![event.call] = Append(@, event.answer)]
                      ELSE answers
        /\ IF heard /\ event.answer # None
           THEN /\ muted' = muted \cup {event.call}
                /\ posted' = Append(posted, [op |-> "remove", call |-> event.call])
           ELSE muted' = muted /\ posted' = posted
        /\ UNCHANGED <<version, serving, faults, rejects, since, listenedAt, crossed>>

\* The callback does what CallbackStep says.
LEMMA CallbackDoes ==
  ASSUME Base, Callback
  PROVE  CallbackStep
<1> DEFINE event  == Head(sdk.main)
           heard  == event.call \notin muted
           remove == heard /\ event.answer # None
           d      == [sdk EXCEPT !.main = Tail(@)]
<1>1. /\ sdk.main # <<>> /\ sdk' = d
      /\ answers' = IF heard
                    THEN [answers EXCEPT ![event.call] = Append(@, event.answer)]
                    ELSE answers
      /\ muted' = IF remove THEN muted \cup {event.call} ELSE muted
      /\ posted' = IF remove THEN Append(posted, [op |-> "remove", call |-> event.call])
                   ELSE posted
      /\ UNCHANGED <<version, serving, faults, rejects, since, listenedAt, crossed>>
  BY DEF Callback
<1>2. sdk \in Sdk /\ sdk.main \in Seq(Event)
  BY SdkFields DEF Base, TypeOK
<1>3. event \in Event /\ Tail(sdk.main) \in Seq(Event)
  BY <1>1, <1>2
<1>4. d \in Sdk
  BY <1>2, <1>3 DEF Sdk
<1>5. /\ d.main = Tail(sdk.main) /\ d.listeners = sdk.listeners /\ d.snapshot = sdk.snapshot
      /\ d.current = sdk.current
      /\ d.online = sdk.online /\ d.failures = sdk.failures /\ d.timer = sdk.timer
      /\ d.cache = sdk.cache /\ d.token = sdk.token /\ Rests(sdk, d)
  BY <1>2 DEF Sdk, Rests
<1> HIDE DEF d, event
<1> QED
  BY <1>1, <1>3, <1>4, <1>5 DEF CallbackStep, event

\* Base after a callback on the main queue.
LEMMA BaseCallback ==
  ASSUME Base, CallbackStep
  PROVE  Base'
<1> DEFINE event == Head(sdk.main)
<1>1. /\ event \in Event /\ sdk' \in Sdk
      /\ sdk'.listeners = sdk.listeners /\ sdk'.snapshot = sdk.snapshot
      /\ sdk'.online = sdk.online /\ sdk'.failures = sdk.failures /\ sdk'.timer = sdk.timer
      /\ Rests(sdk, sdk')
      /\ UNCHANGED <<version, serving, faults, rejects, since, listenedAt, crossed>>
  BY DEF CallbackStep
<1>2. event.call \in Calls /\ event.answer \in Snapshot \cup {None}
  BY <1>1 DEF Event
<1>3. TypeOK
  BY DEF Base
<1>4. /\ posted \in Seq(Block) /\ muted \subseteq Calls
      /\ answers \in [Calls -> Seq(Snapshot \cup {None})]
  BY <1>3, OthersTyped
<1> HIDE DEF event
<1>5. posted' \in Seq(Block) /\ muted' \subseteq Calls
  <2>1. [op |-> "remove", call |-> event.call] \in Block
    BY <1>2 DEF Block
  <2>2. Append(posted, [op |-> "remove", call |-> event.call]) \in Seq(Block)
    BY <1>4, <2>1
  <2> QED
    BY <1>2, <1>4, <2>2 DEF CallbackStep, event
<1>6. answers' \in [Calls -> Seq(Snapshot \cup {None})]
  <2>1. Append(answers[event.call], event.answer) \in Seq(Snapshot \cup {None})
    BY <1>2, <1>4
  <2>2. [answers EXCEPT ![event.call] = Append(@, event.answer)]
          \in [Calls -> Seq(Snapshot \cup {None})]
    BY <1>2, <1>4, <2>1
  <2> QED
    BY <1>4, <2>2 DEF CallbackStep, event
<1>7. Timed(sdk)'
  BY <1>1, <1>3, OthersTyped DEF Timed, Tracked, IsStarted, Rests
<1>8. TypeOK'
  BY <1>1, <1>3, <1>5, <1>6, <1>7, OthersTyped, BaseKept
<1>9. StreamInv'
  BY <1>1, StreamSame DEF Rests
<1>10. SnapshotThere'
  BY <1>1 DEF Base, SnapshotThere, Listened
<1> QED
  BY <1>8, <1>9, <1>10 DEF Base

\* Base after a call of the app.
LEMMA BaseGetDocuments ==
  ASSUME Base, NEW k \in Calls, GetDocuments(k)
  PROVE  Base'
<1>1. /\ since' = [since EXCEPT ![k] = version]
      /\ posted' = Append(posted, [op |-> "add", call |-> k])
      /\ UNCHANGED <<sdk, muted, version, serving, faults, rejects, listenedAt, answers, crossed>>
  BY DEF GetDocuments
<1>2. TypeOK
  BY DEF Base
<1>3. [op |-> "add", call |-> k] \in Block
  BY DEF Block
<1>4. posted' \in Seq(Block)
  BY <1>1, <1>2, <1>3, OthersTyped
<1>5. since' \in [Calls -> Versions]
  BY <1>1, <1>2, OthersTyped
<1>6. Timed(sdk)'
  BY <1>1, <1>2, OthersTyped DEF Timed, Tracked, IsStarted
<1>7. TypeOK'
  BY <1>1, <1>2, <1>4, <1>5, <1>6, OthersTyped, BaseKept
<1>8. StreamInv'
  BY <1>1, StreamSame
<1>9. SnapshotThere'
  BY <1>1 DEF Base, SnapshotThere, Listened
<1> QED
  BY <1>7, <1>8, <1>9 DEF Base

\* Base after the stream has opened.
LEMMA BaseTokenArrived ==
  ASSUME Base, TokenArrivedStep
  PROVE  Base'
<1>1. /\ sdk' \in Sdk /\ sdk'.listeners = sdk.listeners /\ sdk'.snapshot = sdk.snapshot
      /\ sdk'.failures = sdk.failures /\ Timed(sdk') /\ sdk'.responses = <<>> /\ serving' = None
      /\ UNCHANGED <<posted, muted, version, faults, rejects, since, listenedAt, answers, crossed>>
  BY DEF TokenArrivedStep, history
<1>2. TypeOK
  BY DEF Base
<1>3. TypeOK'
  BY <1>1, <1>2, OthersTyped, BaseKept
<1>4. sdk.failures <= faults /\ sdk.failures \in Int /\ faults \in Int
  BY FaultsLeft
<1>5. ~Broken'
  BY <1>1 DEF Broken
<1>6. (sdk.failures + (IF Broken THEN 1 ELSE 0) <= faults)'
  BY <1>1, <1>4, <1>5
<1>7. StreamInv'
  BY <1>1, <1>6 DEF StreamInv, TokenArrivedStep
<1>8. SnapshotThere'
  BY <1>1 DEF Base, SnapshotThere, Listened
<1> QED
  BY <1>3, <1>7, <1>8 DEF Base

\* Base after the timer of the online state.
LEMMA BaseTimer ==
  ASSUME Base, OnlineStateTimer
  PROVE  Base'
<1>1. /\ Broadcasts(sdk, sdk') /\ Timed(sdk') /\ sdk'.failures = sdk.failures
      /\ UNCHANGED <<posted, muted, version, serving, faults, rejects,
                     since, listenedAt, answers, crossed>>
  BY OnlineStateTimerDoes DEF history
<1>2. TypeOK /\ sdk' \in Sdk
  BY <1>1 DEF Base, Broadcasts
<1>3. TypeOK'
  BY <1>1, <1>2, OthersTyped, BaseKept
<1>4. StreamInv'
  BY <1>1, StreamSame DEF Broadcasts, Frame
<1>5. SnapshotThere'
  BY <1>1 DEF Base, SnapshotThere, Broadcasts, Frame, Listened
<1> QED
  BY <1>3, <1>4, <1>5 DEF Base

\* Messages that are not the last one are followed by others.
LEMMA NoneClosed ==
  ASSUME NEW s \in Seq(Message), NEW m \in Message, m.type # "closed",
         \A k \in DOMAIN s : s[k].type # "closed"
  PROVE  \A k \in DOMAIN Append(s, m) : Append(s, m)[k].type # "closed"
<1>1. /\ Append(s, m) # <<>> /\ Len(s) \in Nat /\ DOMAIN s = 1 .. Len(s)
      /\ DOMAIN Append(s, m) = 1 .. Len(s) + 1
      /\ Append(s, m)[Len(s) + 1] = m /\ \A k \in DOMAIN s : Append(s, m)[k] = s[k]
  BY AppendAt
<1>2. \A k \in DOMAIN Append(s, m) : k \in DOMAIN s \/ k = Len(s) + 1
  BY <1>1
<1> QED
  BY <1>1, <1>2

\* Base after an answer of the backend to a request.
LEMMA BaseAnswer ==
  ASSUME Base, NEW type \in {"added", "removed", "refused"}, AnswerStep(type),
         serving' \in Serving \cup {None}, rejects' \in 0 .. MaxRejects,
         UNCHANGED <<posted, muted, version, faults, history>>
  PROVE  Base'
<1>1. /\ SameClient(sdk, sdk') /\ sdk.state = "Open" /\ ~Broken
      /\ Msg(type, 0) \in Message /\ Msg(type, 0).type = type
      /\ sdk'.responses = Append(sdk.responses, Msg(type, 0))
  BY DEF AnswerStep
<1>2. /\ sdk' \in Sdk /\ sdk'.state = "Open" /\ sdk'.failures = sdk.failures
  BY <1>1 DEF SameClient
<1>3. TypeOK /\ sdk.responses \in Seq(Message) /\ sdk'.responses \in Seq(Message)
  BY <1>2, OthersTyped, SdkFields DEF Base
<1>4. sdk.failures <= faults /\ sdk.failures \in Int /\ faults \in Int
  BY FaultsLeft
<1>5. \A k \in DOMAIN sdk.responses : sdk.responses[k].type # "closed"
  BY <1>1, NotBroken
<1>6. type # "closed"
  OBVIOUS
<1>7. \A k \in DOMAIN sdk'.responses : sdk'.responses[k].type # "closed"
  BY <1>1, <1>3, <1>5, <1>6, NoneClosed
<1>8. StreamInv'
  BY <1>2, <1>3, <1>4, <1>7, StreamKept
<1>9. version' \in Versions /\ faults' \in 0 .. MaxFaults
  BY <1>3, OthersTyped
<1> QED
  BY <1>1, <1>8, <1>9, BaseSame

\* Base after changes sent by the backend.
LEMMA BaseSendChanges ==
  ASSUME Base, SendChangesStep
  PROVE  Base'
<1> DEFINE doc  == Msg("document", version)
           mark == Msg(IF serving.current THEN "nochange" ELSE "current", version)
           snap == Msg("snapshot", version)
           some == IF serving.sent < version THEN Append(sdk.responses, doc) ELSE sdk.responses
<1>1. /\ SameClient(sdk, sdk') /\ sdk.state = "Open" /\ ~Broken
      /\ serving' = [sent |-> version, current |-> TRUE]
      /\ doc \in Message /\ mark \in Message /\ snap \in Message
      /\ mark.type \in {"current", "nochange"}
      /\ some \in Seq(Message)
      /\ sdk'.responses = Append(Append(some, mark), snap)
      /\ UNCHANGED <<posted, muted, version, faults, rejects, history>>
  BY DEF SendChangesStep
<1>2. doc.type = "document" /\ snap.type = "snapshot"
  BY MessageTypes
<1>3. /\ sdk' \in Sdk /\ sdk'.state = "Open" /\ sdk'.failures = sdk.failures
  BY <1>1 DEF SameClient
<1>4. TypeOK /\ sdk.responses \in Seq(Message) /\ sdk'.responses \in Seq(Message)
  BY <1>3, OthersTyped, SdkFields DEF Base
<1>5. sdk.failures <= faults /\ sdk.failures \in Int /\ faults \in Int
  BY FaultsLeft
<1>6. \A k \in DOMAIN sdk.responses : sdk.responses[k].type # "closed"
  BY <1>1, NotBroken
<1> HIDE DEF doc, mark, snap
<1>7. \A k \in DOMAIN some : some[k].type # "closed"
  BY <1>1, <1>2, <1>4, <1>6, NoneClosed
<1> HIDE DEF some
<1>8. Append(some, mark) \in Seq(Message)
  BY <1>1
<1>9. \A k \in DOMAIN Append(some, mark) : Append(some, mark)[k].type # "closed"
  BY <1>1, <1>7, NoneClosed
<1>10. \A k \in DOMAIN sdk'.responses : sdk'.responses[k].type # "closed"
  BY <1>1, <1>2, <1>8, <1>9, NoneClosed
<1>11. StreamInv'
  BY <1>1, <1>3, <1>4, <1>5, <1>10, StreamKept
<1>12. /\ version' \in Versions /\ faults' \in 0 .. MaxFaults /\ rejects' \in 0 .. MaxRejects
       /\ serving' \in Serving
  BY <1>1, <1>4, OthersTyped DEF Serving
<1> QED
  BY <1>1, <1>11, <1>12, BaseSame

\* Base after a broken connection.
LEMMA BaseBreakStream ==
  ASSUME Base, NEW n \in Nat, BreakStreamStep(n)
  PROVE  Base'
<1> DEFINE m   == Msg("closed", 0)
           sub == SubSeq(sdk.responses, 1, n)
<1>1. /\ SameClient(sdk, sdk') /\ sdk.state = "Open" /\ ~Broken
      /\ faults < MaxFaults /\ faults' = faults + 1
      /\ n \in 0 .. Len(sdk.responses) /\ sub \in Seq(Message)
      /\ m \in Message /\ m.type = "closed"
      /\ sdk'.responses = Append(sub, m)
      /\ UNCHANGED <<posted, muted, version, serving, rejects, history>>
  BY DEF BreakStreamStep
<1>2. /\ sdk' \in Sdk /\ sdk'.state = "Open" /\ sdk'.failures = sdk.failures
  BY <1>1 DEF SameClient
<1>3. TypeOK /\ sdk.responses \in Seq(Message)
  BY OthersTyped, SdkFields DEF Base
<1>4. /\ MaxFaults \in Nat /\ faults \in 0 .. MaxFaults
      /\ sdk.failures \in 0 .. MaxFaults /\ sdk.failures <= faults
  BY FaultsLeft
<1>5. Len(sub) = n /\ DOMAIN sub = 1 .. n
      /\ \A k \in DOMAIN sub : k \in DOMAIN sdk.responses /\ sub[k] = sdk.responses[k]
  BY <1>1, <1>3
<1>6. \A k \in DOMAIN sub : sub[k].type # "closed"
  BY <1>1, <1>5, NotBroken
<1> HIDE DEF sub, m
<1>7. /\ Len(sub) \in Nat /\ DOMAIN Append(sub, m) = 1 .. Len(sub) + 1
      /\ Len(Append(sub, m)) = Len(sub) + 1
      /\ \A k \in DOMAIN sub : Append(sub, m)[k] = sub[k]
  BY <1>1, AppendAt
<1>8. \A k \in DOMAIN sdk'.responses :
        sdk'.responses[k].type = "closed" => k = Len(sdk'.responses)
  <2>1. \A k \in DOMAIN Append(sub, m) : k \in DOMAIN sub \/ k = Len(sub) + 1
    BY <1>5, <1>7
  <2> QED
    BY <1>1, <1>6, <1>7, <2>1
<1>9. (sdk.failures + (IF Broken THEN 1 ELSE 0) <= faults)'
  <2>1. sdk'.failures + 1 <= faults' /\ sdk'.failures <= faults'
    BY <1>1, <1>2, <1>4
  <2> QED
    BY <1>2, <1>4, <2>1
<1>10. StreamInv'
  BY <1>2, <1>8, <1>9 DEF StreamInv
<1>11. /\ version' \in Versions /\ serving' \in Serving \cup {None}
       /\ faults' \in 0 .. MaxFaults /\ rejects' \in 0 .. MaxRejects
  BY <1>1, <1>3, <1>4, OthersTyped
<1> QED
  BY <1>1, <1>10, <1>11, BaseSame

\* The three answers, each with the request it is an answer to.
AddTargetStep ==
    /\ AnswerStep("added") /\ Head(sdk.requests).type = "watch"
    /\ serving' = [sent |-> Head(sdk.requests).version, current |-> FALSE]
    /\ UNCHANGED <<posted, muted, version, faults, rejects, history>>

\* The target is refused.
RefuseTargetStep ==
    /\ AnswerStep("refused") /\ serving' = None /\ rejects' \in 0 .. MaxRejects
    /\ UNCHANGED <<posted, muted, version, faults, history>>

\* The target is removed.
RemoveTargetStep ==
    /\ AnswerStep("removed") /\ serving' = None
    /\ UNCHANGED <<posted, muted, version, faults, rejects, history>>

\* The three answers of the backend, in the form the lemmas use.
LEMMA AddTargetDoes ==
  ASSUME Base, AddTarget
  PROVE  AddTargetStep
<1>1. /\ Asked("watch") /\ Respond(<<Msg("added", 0)>>)
      /\ serving' = [sent |-> Head(sdk.requests).version, current |-> FALSE]
      /\ UNCHANGED <<posted, muted, version, faults, rejects, history>>
  BY DEF AddTarget
<1>2. AnswerStep("added") /\ Head(sdk.requests).type = "watch"
  BY <1>1, AnswerDoes
<1> QED
  BY <1>1, <1>2 DEF AddTargetStep

\* A refusal is an answer that ends the serving.
LEMMA RefuseTargetDoes ==
  ASSUME Base, RefuseTarget
  PROVE  RefuseTargetStep
<1>1. /\ Asked("watch") /\ Respond(<<Msg("refused", 0)>>) /\ serving' = None
      /\ rejects < MaxRejects /\ rejects' = rejects + 1
      /\ UNCHANGED <<posted, muted, version, faults, history>>
  BY DEF RefuseTarget
<1>2. AnswerStep("refused")
  BY <1>1, AnswerDoes
<1>3. rejects \in 0 .. MaxRejects /\ MaxRejects \in Nat
  BY OthersTyped, BoundsAssumption DEF Base
<1>4. rejects' \in 0 .. MaxRejects
  BY <1>1, <1>3
<1> QED
  BY <1>1, <1>2, <1>4 DEF RefuseTargetStep

\* So is the answer to an unwatch.
LEMMA RemoveTargetDoes ==
  ASSUME Base, RemoveTarget
  PROVE  RemoveTargetStep
<1>1. /\ Asked("unwatch") /\ Respond(<<Msg("removed", 0)>>) /\ serving' = None
      /\ UNCHANGED <<posted, muted, version, faults, rejects, history>>
  BY DEF RemoveTarget
<1>2. AnswerStep("removed")
  BY <1>1, AnswerDoes
<1> QED
  BY <1>1, <1>2 DEF RemoveTargetStep

\* Base after any answer of the backend.
LEMMA BaseAnswers ==
  ASSUME Base, AddTargetStep \/ RefuseTargetStep \/ RemoveTargetStep
  PROVE  Base'
<1>1. TypeOK /\ rejects \in 0 .. MaxRejects
  BY OthersTyped DEF Base
<1>2. CASE AddTargetStep
  <2>1. sdk.requests \in Seq(Request) /\ sdk.requests # <<>>
    BY <1>1, <1>2, OthersTyped, SdkFields DEF AddTargetStep, AnswerStep
  <2>2. Head(sdk.requests) \in Request
    BY <2>1
  <2>3. serving' \in Serving
    BY <1>2, <2>2 DEF AddTargetStep, Serving, Request
  <2> QED
    BY <1>1, <1>2, <2>3, BaseAnswer DEF AddTargetStep
<1>3. CASE RefuseTargetStep
  BY <1>3, BaseAnswer DEF RefuseTargetStep
<1>4. CASE RemoveTargetStep
  BY <1>1, <1>4, BaseAnswer DEF RemoveTargetStep
<1> QED
  BY <1>2, <1>3, <1>4

\* Base after a write of others.
LEMMA BaseOthersWrite ==
  ASSUME Base, OthersWrite
  PROVE  Base'
<1>1. /\ version <= MaxVersion /\ version' = version + 1
      /\ UNCHANGED <<sdk, posted, muted, serving, faults, rejects, history>>
  BY DEF OthersWrite
<1>2. TypeOK /\ sdk \in Sdk
  BY OthersTyped DEF Base
<1>3. version' \in Versions
  BY <1>1, <1>2, OthersTyped, BoundsAssumption DEF Versions
<1>4. SameClient(sdk, sdk')
  BY <1>1, <1>2 DEF SameClient
<1>5. StreamInv'
  BY <1>1, StreamSame
<1>6. /\ serving' \in Serving \cup {None} /\ faults' \in 0 .. MaxFaults
      /\ rejects' \in 0 .. MaxRejects
  BY <1>1, <1>2, OthersTyped
<1> QED
  BY <1>1, <1>3, <1>4, <1>5, <1>6, BaseSame

\* Nothing happens.
LEMMA BaseStutter ==
  ASSUME Base, UNCHANGED vars
  PROVE  Base'
<1>1. UNCHANGED <<sdk, posted, muted, version, serving, faults, rejects,
                  since, listenedAt, answers, crossed>>
  BY DEF vars
<1> QED
  BY <1>1 DEF Base, TypeOK, StreamInv, SnapshotThere, Listened, IsStarted, Broken

\* The steps, by what they do.
LEMMA Steps ==
  ASSUME Base, [Next]_vars
  PROVE  \/ \E k \in Calls : GetDocuments(k)
         \/ CallbackStep \/ AddListenerStep \/ RemoveListenerStep \/ TokenArrivedStep
         \/ EndingStep \/ OnlineStateTimer \/ (HeardIt /\ ReceiveStep)
         \/ AddTargetStep \/ RefuseTargetStep \/ RemoveTargetStep
         \/ SendChangesStep \/ BreaksSomewhere \/ OthersWrite \/ UNCHANGED vars
<1>1. CASE Callback
  BY <1>1, CallbackDoes
<1>2. CASE AddListener
  BY <1>2, AddListenerDoes
<1>3. CASE RemoveListener
  BY <1>3, RemoveListenerDoes
<1>4. CASE TokenArrived
  BY <1>4, TokenArrivedDoes
<1>5. CASE Ending
  BY <1>5, EndingDoes
<1>6. CASE Receive
  BY <1>6, ReceiveDoes
<1>7. CASE AddTarget
  BY <1>7, AddTargetDoes
<1>8. CASE RefuseTarget
  BY <1>8, RefuseTargetDoes
<1>9. CASE RemoveTarget
  BY <1>9, RemoveTargetDoes
<1>10. CASE SendChanges
  BY <1>10, SendChangesDoes
<1>11. CASE BreakStream
  BY <1>11, BreakStreamDoes
<1> QED
  BY <1>1, <1>2, <1>3, <1>4, <1>5, <1>6, <1>7, <1>8, <1>9, <1>10, <1>11
     DEF Next, App, Worker, Failure, Backend, Ending

\* Base is inductive.
LEMMA BaseStep == Base /\ [Next]_vars => Base'
<1> SUFFICES ASSUME Base, [Next]_vars PROVE Base'
  OBVIOUS
<1>1. CASE \E k \in Calls : GetDocuments(k)
  BY <1>1, BaseGetDocuments
<1>2. CASE CallbackStep
  BY <1>2, BaseCallback
<1>3. CASE AddListenerStep
  BY <1>3, BaseAddListener
<1>4. CASE RemoveListenerStep
  BY <1>4, BaseRemoveListener
<1>5. CASE TokenArrivedStep
  BY <1>5, BaseTokenArrived
<1>6. CASE EndingStep
  BY <1>6, BaseEnding
<1>7. CASE OnlineStateTimer
  BY <1>7, BaseTimer
<1>8. CASE HeardIt /\ ReceiveStep
  BY <1>8, BaseReceive
<1>9. CASE AddTargetStep \/ RefuseTargetStep \/ RemoveTargetStep
  BY <1>9, BaseAnswers
<1>10. CASE SendChangesStep
  BY <1>10, BaseSendChanges
<1>11. CASE BreaksSomewhere
  BY <1>11, BaseBreakStream DEF BreaksSomewhere
<1>12. CASE OthersWrite
  BY <1>12, BaseOthersWrite
<1>13. CASE UNCHANGED vars
  BY <1>13, BaseStutter
<1> QED
  BY <1>1, <1>2, <1>3, <1>4, <1>5, <1>6, <1>7, <1>8, <1>9, <1>10, <1>11, <1>12, <1>13, Steps

\* The client's state is well formed whatever the backend and the app do, and
\* the HARD_ASSERTs of FSTOnlineStateTracker hold: its timer runs only while
\* the online state is unknown, and no failure is counted while it is Online.
THEOREM TypeCorrect == Spec => []TypeOK
<1>1. Base => TypeOK
  BY DEF Base
<1> QED
  BY <1>1, BaseInit, BaseStep, PTL DEF Spec

-----------------------------------------------------------------------------
(* Every call is answered at most once *)

\* A call hears nothing more unless it is a listener.
LEMMA EventsOfOthers ==
  ASSUME NEW old \in Seq(Event), NEW new \in Seq(Event), NEW who, NEW k,
         MoreEvents(old, new, who)
  PROVE  /\ \A i \in Events(old, k) : i \in Events(new, k) /\ new[i] = old[i]
         /\ \A i \in Events(new, k) : i \in Events(old, k) \/ new[i].answer # None
         /\ Slots(who, k) = {} => Events(new, k) = Events(old, k)
<1>1. /\ Len(old) \in Nat /\ DOMAIN old = 1 .. Len(old)
      /\ Len(new) \in Nat /\ DOMAIN new = 1 .. Len(new)
  OBVIOUS
<1>2. /\ Len(old) <= Len(new)
      /\ \A n \in DOMAIN old : new[n] = old[n]
      /\ \A n \in DOMAIN new : n > Len(old) =>
           new[n].answer # None /\ \E i \in DOMAIN who : new[n].call = who[i]
  BY DEF MoreEvents
<1>3. \A i \in DOMAIN old : i \in DOMAIN new
  BY <1>1, <1>2
<1>4. \A i \in DOMAIN new : i \in DOMAIN old \/ i > Len(old)
  BY <1>1
<1>5. \A i \in Events(old, k) : i \in Events(new, k) /\ new[i] = old[i]
  BY <1>2, <1>3 DEF Events
<1>6. \A i \in Events(new, k) : i \in Events(old, k) \/ i > Len(old)
  BY <1>2, <1>4 DEF Events
<1>7. \A i \in Events(new, k) : i \in Events(old, k) \/ new[i].answer # None
  BY <1>2, <1>6 DEF Events
<1>8. ASSUME Slots(who, k) = {} PROVE Events(new, k) = Events(old, k)
  <2>1. \A i \in Events(new, k) : i \in Events(old, k)
    <3> SUFFICES ASSUME NEW i \in Events(new, k), i > Len(old) PROVE FALSE
      BY <1>6
    <3>1. i \in DOMAIN new /\ new[i].call = k
      BY DEF Events
    <3>2. PICK j \in DOMAIN who : new[i].call = who[j]
      BY <1>2, <3>1
    <3> QED
      BY <1>8, <3>1, <3>2 DEF Slots
  <2> QED
    BY <1>5, <2>1
<1> QED
  BY <1>5, <1>7, <1>8

\* Snapshots are raised.
LEMMA OkMore ==
  ASSUME NEW k, NEW asked, NEW blocks, NEW listeners, NEW old \in Seq(Event),
         NEW new \in Seq(Event), NEW given, NEW silent,
         CallOk(k, asked, blocks, listeners, old, given, silent), MoreEvents(old, new, listeners)
  PROVE  CallOk(k, asked, blocks, listeners, new, given, silent)
<1>1. /\ \A i \in Events(old, k) : i \in Events(new, k) /\ new[i] = old[i]
      /\ \A i \in Events(new, k) : i \in Events(old, k) \/ new[i].answer # None
      /\ Slots(listeners, k) = {} => Events(new, k) = Events(old, k)
  BY EventsOfOthers
<1>2. Over(blocks, listeners, k) => Events(new, k) = Events(old, k)
  BY <1>1 DEF Over
<1>3. ASSUME NEW i \in Events(new, k), new[i].answer = None
      PROVE  Over(blocks, listeners, k) /\ \A j \in Events(new, k) : j <= i
  <2>1. i \in Events(old, k) /\ old[i].answer = None
    BY <1>1, <1>3
  <2>2. Over(blocks, listeners, k) /\ \A j \in Events(old, k) : j <= i
    BY <2>1 DEF CallOk
  <2> QED
    BY <1>2, <2>2
<1> QED
  BY <1>2, <1>3 DEF CallOk

\* The listen is refused, and every listener is told.
LEMMA OkErrors ==
  ASSUME NEW k, NEW asked, NEW blocks, NEW listeners \in Seq(Calls), NEW old \in Seq(Event),
         NEW new \in Seq(Event), NEW given, NEW silent,
         CallOk(k, asked, blocks, listeners, old, given, silent), Errors(old, new, listeners)
  PROVE  CallOk(k, asked, blocks, <<>>, new, given, silent)
<1>1. /\ Len(old) \in Nat /\ DOMAIN old = 1 .. Len(old)
      /\ Len(new) \in Nat /\ DOMAIN new = 1 .. Len(new)
      /\ Len(listeners) \in Nat /\ DOMAIN listeners = 1 .. Len(listeners)
  OBVIOUS
<1>2. /\ Len(new) = Len(old) + Len(listeners)
      /\ \A n \in DOMAIN old : new[n] = old[n]
      /\ \A n \in DOMAIN new : n > Len(old) =>
           /\ n - Len(old) \in DOMAIN listeners
           /\ new[n].answer = None /\ new[n].call = listeners[n - Len(old)]
  BY DEF Errors
<1>3. \A i \in DOMAIN old : i \in DOMAIN new
  BY <1>1, <1>2
<1>4. Slots(<<>>, k) = {}
  BY DEF Slots
<1>5. \A i \in Events(new, k) : \/ i \in Events(old, k) /\ new[i] = old[i]
                                \/ i > Len(old) /\ i - Len(old) \in Slots(listeners, k)
  <2> SUFFICES ASSUME NEW i \in Events(new, k)
               PROVE  \/ i \in Events(old, k) /\ new[i] = old[i]
                      \/ i > Len(old) /\ i - Len(old) \in Slots(listeners, k)
    OBVIOUS
  <2>1. i \in DOMAIN new /\ new[i].call = k
    BY DEF Events
  <2>2. CASE i > Len(old)
    BY <1>2, <2>1, <2>2 DEF Slots
  <2>3. CASE ~ (i > Len(old))
    <3>1. i \in DOMAIN old
      BY <1>1, <2>1, <2>3
    <3> QED
      BY <1>2, <2>1, <3>1 DEF Events
  <2> QED
    BY <2>2, <2>3
<1>6. \A i \in Events(old, k) : i \in Events(new, k) /\ i <= Len(old)
  BY <1>1, <1>2, <1>3 DEF Events
<1>7. CASE Slots(listeners, k) = {}
  <2>1. Events(new, k) = Events(old, k) /\ \A i \in Events(old, k) : new[i] = old[i]
    BY <1>5, <1>6, <1>7
  <2> QED
    BY <1>4, <1>7, <2>1 DEF CallOk, Over
<1>8. CASE Slots(listeners, k) # {}
  <2>1. asked /\ Adds(blocks, k) = {} /\ (given # <<>> => silent)
    BY <1>8 DEF CallOk, Over
  <2>2. \A i \in Events(old, k) : old[i].answer # None
    BY <1>8 DEF CallOk, Over
  <2>3. \A i, j \in Slots(listeners, k) : i = j
    BY DEF CallOk
  <2>4. \A i, j \in Events(new, k) : new[i].answer = None => j <= i
    <3> SUFFICES ASSUME NEW i \in Events(new, k), NEW j \in Events(new, k), new[i].answer = None
                 PROVE  j <= i
      OBVIOUS
    <3>1. i > Len(old) /\ i - Len(old) \in Slots(listeners, k)
      BY <1>5, <2>2
    <3>2. i \in Nat /\ j \in Nat
      BY <1>1 DEF Events
    <3>3. CASE j \in Events(old, k)
      BY <1>1, <1>6, <3>1, <3>2, <3>3
    <3>4. CASE j > Len(old) /\ j - Len(old) \in Slots(listeners, k)
      <4>1. i - Len(old) = j - Len(old)
        BY <2>3, <3>1, <3>4
      <4> QED
        BY <1>1, <3>2, <4>1
    <3> QED
      BY <1>5, <3>3, <3>4
  <2> QED
    BY <1>4, <2>1, <2>4 DEF CallOk, Over
<1> QED
  BY <1>7, <1>8

\* Where blocks are when the oldest one is gone.
LEMMA AddsOfTail ==
  ASSUME NEW blocks \in Seq(Block), blocks # <<>>, NEW k
  PROVE  /\ \A i \in Adds(Tail(blocks), k) : i \in Nat /\ i # 0 /\ i + 1 \in Adds(blocks, k)
         /\ ~ (Head(blocks).op = "add" /\ Head(blocks).call = k) =>
              (Adds(Tail(blocks), k) = {} => Adds(blocks, k) = {})
<1>1. /\ Head(blocks) = blocks[1] /\ 1 \in DOMAIN blocks
      /\ Len(blocks) \in Nat /\ DOMAIN blocks = 1 .. Len(blocks)
      /\ DOMAIN Tail(blocks) = 1 .. Len(blocks) - 1
      /\ \A i \in DOMAIN Tail(blocks) : i + 1 \in DOMAIN blocks /\ Tail(blocks)[i] = blocks[i + 1]
  BY TailAt
<1>2. \A i \in Adds(Tail(blocks), k) : i \in Nat /\ i # 0 /\ i + 1 \in Adds(blocks, k)
  BY <1>1 DEF Adds
<1>3. ASSUME ~ (Head(blocks).op = "add" /\ Head(blocks).call = k), Adds(blocks, k) # {}
      PROVE  Adds(Tail(blocks), k) # {}
  <2>1. PICK i \in Adds(blocks, k) : TRUE
    BY <1>3
  <2>2. i \in DOMAIN blocks /\ blocks[i].op = "add" /\ blocks[i].call = k
    BY DEF Adds
  <2>3. i # 1
    BY <1>1, <1>3, <2>2
  <2>4. i - 1 \in DOMAIN Tail(blocks) /\ Tail(blocks)[i - 1] = blocks[i]
    <3>1. i - 1 \in DOMAIN Tail(blocks) /\ (i - 1) + 1 = i
      BY <1>1, <2>2, <2>3
    <3> QED
      BY <1>1, <3>1
  <2>5. i - 1 \in Adds(Tail(blocks), k)
    BY <2>2, <2>4 DEF Adds
  <2> QED
    BY <2>5
<1> QED
  BY <1>2, <1>3

\* The oldest block is taken from the queue, and is not the call's own.
LEMMA OkTail ==
  ASSUME NEW k, NEW asked, NEW blocks \in Seq(Block), blocks # <<>>, NEW listeners, NEW main,
         NEW given, NEW silent,
         CallOk(k, asked, blocks, listeners, main, given, silent),
         NEW rest, Slots(listeners, k) = {} => Slots(rest, k) = {},
         \A i, j \in Slots(rest, k) : i = j
  PROVE  CallOk(k, asked, Tail(blocks), rest, main, given, silent)
<1>1. \A i \in Adds(Tail(blocks), k) : i \in Nat /\ i # 0 /\ i + 1 \in Adds(blocks, k)
  BY AddsOfTail
<1>2. Adds(blocks, k) = {} => Adds(Tail(blocks), k) = {}
  BY <1>1
<1>3. Over(blocks, listeners, k) => Over(Tail(blocks), rest, k)
  BY <1>2 DEF Over
<1>4. \A i, j \in Adds(Tail(blocks), k) : i = j
  <2> SUFFICES ASSUME NEW i \in Adds(Tail(blocks), k), NEW j \in Adds(Tail(blocks), k)
               PROVE  i = j
    OBVIOUS
  <2>1. i \in Nat /\ j \in Nat
    BY <1>1
  <2>2. i + 1 = j + 1
    BY <1>1 DEF CallOk
  <2> QED
    BY <2>1, <2>2
<1> QED
  BY <1>2, <1>3, <1>4 DEF CallOk

\* Where a call is when another listener, or it itself, has come.
LEMMA SlotsOfAppend ==
  ASSUME NEW listeners \in Seq(Calls), NEW new \in Calls, NEW k
  PROVE  /\ k # new => Slots(Append(listeners, new), k) = Slots(listeners, k)
         /\ Slots(Append(listeners, new), new) = Slots(listeners, new) \cup {Len(listeners) + 1}
<1> DEFINE l == Append(listeners, new)
<1>1. /\ Len(listeners) \in Nat /\ DOMAIN listeners = 1 .. Len(listeners)
      /\ DOMAIN l = 1 .. Len(listeners) + 1
      /\ l[Len(listeners) + 1] = new /\ \A i \in DOMAIN listeners : l[i] = listeners[i]
  BY AppendAt
<1> HIDE DEF l
<1>2. \A i : i \in DOMAIN l <=> i \in DOMAIN listeners \/ i = Len(listeners) + 1
  BY <1>1
<1>3. \A i : i \in Slots(l, new) <=> i \in Slots(listeners, new) \/ i = Len(listeners) + 1
  BY <1>1, <1>2 DEF Slots
<1>4. ASSUME k # new PROVE \A i : i \in Slots(l, k) <=> i \in Slots(listeners, k)
  BY <1>1, <1>2, <1>4 DEF Slots
<1> QED
  BY <1>3, <1>4 DEF l

\* A posted call becomes a listener.
LEMMA OkAdded ==
  ASSUME NEW k \in Calls, NEW asked, NEW blocks \in Seq(Block), blocks # <<>>,
         NEW listeners \in Seq(Calls), NEW main, NEW given, NEW silent,
         Head(blocks).op = "add", Head(blocks).call \in Calls,
         CallOk(k, asked, blocks, listeners, main, given, silent)
  PROVE  CallOk(k, asked, Tail(blocks), Append(listeners, Head(blocks).call), main, given, silent)
<1> DEFINE new  == Head(blocks).call
           rest == Append(listeners, new)
<1>1. /\ k # new => Slots(rest, k) = Slots(listeners, k)
      /\ Slots(rest, new) = Slots(listeners, new) \cup {Len(listeners) + 1}
  BY SlotsOfAppend
<1>2. new = blocks[1] .call /\ blocks[1].op = "add" /\ 1 \in DOMAIN blocks
  BY TailAt
<1> HIDE DEF new, rest
<1>3. CASE k # new
  <2>1. Slots(rest, k) = Slots(listeners, k) /\ \A i, j \in Slots(rest, k) : i = j
    BY <1>1, <1>3 DEF CallOk
  <2>2. CallOk(k, asked, Tail(blocks), rest, main, given, silent)
    BY <2>1, OkTail
  <2> QED
    BY <2>2 DEF rest, new
<1>4. CASE k = new
  <2>1. 1 \in Adds(blocks, k)
    BY <1>2, <1>4 DEF Adds, new
  <2>2. asked /\ Slots(listeners, k) = {} /\ (given # <<>> => silent) /\ Len(given) <= 1
    BY <2>1 DEF CallOk, Over
  <2>3. \A i \in Events(main, k) : main[i].answer # None
    BY <2>1 DEF CallOk, Over
  <2>4. Adds(Tail(blocks), k) = {}
    <3> SUFFICES ASSUME NEW i \in Adds(Tail(blocks), k) PROVE FALSE
      OBVIOUS
    <3>1. i \in Nat /\ i # 0 /\ i + 1 \in Adds(blocks, k)
      BY AddsOfTail
    <3>2. i + 1 = 1
      BY <2>1, <3>1 DEF CallOk
    <3> QED
      BY <3>1, <3>2
  <2>5. \A i, j \in Slots(rest, k) : i = j
    BY <1>1, <1>4, <2>2
  <2>6. CallOk(k, asked, Tail(blocks), rest, main, given, silent)
    BY <2>2, <2>3, <2>4, <2>5 DEF CallOk
  <2> QED
    BY <2>6 DEF rest, new
<1> QED
  BY <1>3, <1>4

\* The app calls.
LEMMA OkAsked ==
  ASSUME NEW k \in Calls, NEW new \in Calls, NEW asked, NEW blocks \in Seq(Block), NEW listeners,
         NEW main, NEW given, NEW silent, k = new => ~asked,
         CallOk(k, asked, blocks, listeners, main, given, silent)
  PROVE  CallOk(k, asked \/ k = new, Append(blocks, [op |-> "add", call |-> new]),
                listeners, main, given, silent)
<1> DEFINE b   == [op |-> "add", call |-> new]
           all == Append(blocks, b)
<1>0. b \in Block /\ b.op = "add" /\ b.call = new
  BY DEF Block
<1> HIDE DEF b
<1>1. /\ Len(blocks) \in Nat /\ DOMAIN blocks = 1 .. Len(blocks)
      /\ DOMAIN all = 1 .. Len(blocks) + 1
      /\ all[Len(blocks) + 1] = b /\ \A i \in DOMAIN blocks : all[i] = blocks[i]
  BY <1>0, AppendAt
<1> HIDE DEF all
<1>2. \A i : i \in DOMAIN all <=> i \in DOMAIN blocks \/ i = Len(blocks) + 1
  BY <1>1
<1>3. CASE k # new
  <2>1. \A i : i \in Adds(all, k) <=> i \in Adds(blocks, k)
    BY <1>0, <1>1, <1>2, <1>3 DEF Adds
  <2>2. Adds(all, k) = Adds(blocks, k)
    BY <2>1
  <2>3. CallOk(k, asked \/ k = new, all, listeners, main, given, silent)
    BY <1>3, <2>2 DEF CallOk, Over
  <2> QED
    BY <2>3 DEF all, b
<1>4. CASE k = new
  <2>1. Adds(blocks, k) = {} /\ Slots(listeners, k) = {} /\ Events(main, k) = {} /\ given = <<>>
    BY <1>4 DEF CallOk, Over
  <2>2. \A i : i \in Adds(all, k) => i = Len(blocks) + 1
    BY <1>0, <1>1, <1>2, <2>1 DEF Adds
  <2>3. Len(given) <= 1
    BY <2>1
  <2>4. CallOk(k, asked \/ k = new, all, listeners, main, given, silent)
    BY <1>4, <2>1, <2>2, <2>3 DEF CallOk
  <2> QED
    BY <2>4 DEF all, b
<1> QED
  BY <1>3, <1>4

\* A removal is posted.
LEMMA OkPosted ==
  ASSUME NEW k, NEW asked, NEW blocks \in Seq(Block), NEW listeners,
         NEW main, NEW given, NEW silent, NEW b \in Block, b.op = "remove",
         CallOk(k, asked, blocks, listeners, main, given, silent)
  PROVE  CallOk(k, asked, Append(blocks, b), listeners, main, given, silent)
<1> DEFINE all == Append(blocks, b)
<1>1. /\ Len(blocks) \in Nat /\ DOMAIN blocks = 1 .. Len(blocks)
      /\ DOMAIN all = 1 .. Len(blocks) + 1
      /\ all[Len(blocks) + 1] = b /\ \A i \in DOMAIN blocks : all[i] = blocks[i]
  BY AppendAt
<1> HIDE DEF all
<1>2. \A i : i \in DOMAIN all <=> i \in DOMAIN blocks \/ i = Len(blocks) + 1
  BY <1>1
<1>3. \A i : i \in Adds(all, k) <=> i \in Adds(blocks, k)
  BY <1>1, <1>2 DEF Adds
<1>4. Adds(all, k) = Adds(blocks, k)
  BY <1>3
<1>5. CallOk(k, asked, all, listeners, main, given, silent)
  BY <1>4 DEF CallOk, Over
<1> QED
  BY <1>5 DEF all

\* Where events are when the oldest one is gone.
LEMMA EventsOfTail ==
  ASSUME NEW main \in Seq(Event), main # <<>>, NEW k
  PROVE  \A i \in Events(Tail(main), k) :
           i \in Nat /\ i # 0 /\ i + 1 \in Events(main, k) /\ Tail(main)[i] = main[i + 1]
<1>1. /\ DOMAIN Tail(main) = 1 .. Len(main) - 1 /\ Len(main) \in Nat
      /\ \A i \in DOMAIN Tail(main) : i + 1 \in DOMAIN main /\ Tail(main)[i] = main[i + 1]
  BY TailAt
<1> QED
  BY <1>1 DEF Events

\* An event that is not the call's, or that it does not hear.
LEMMA OkUnheard ==
  ASSUME NEW k, NEW asked, NEW blocks, NEW listeners, NEW main \in Seq(Event), main # <<>>,
         NEW given, NEW silent,
         CallOk(k, asked, blocks, listeners, main, given, silent)
  PROVE  CallOk(k, asked, blocks, listeners, Tail(main), given, silent)
<1>1. \A i \in Events(Tail(main), k) :
        i \in Nat /\ i # 0 /\ i + 1 \in Events(main, k) /\ Tail(main)[i] = main[i + 1]
  BY EventsOfTail
<1>2. Events(main, k) = {} => Events(Tail(main), k) = {}
  BY <1>1
<1>3. ASSUME NEW i \in Events(Tail(main), k), Tail(main)[i].answer = None
      PROVE  Over(blocks, listeners, k) /\ \A j \in Events(Tail(main), k) : j <= i
  <2>1. i + 1 \in Events(main, k) /\ main[i + 1].answer = None
    BY <1>1, <1>3
  <2>2. Over(blocks, listeners, k) /\ \A j \in Events(main, k) : j <= i + 1
    BY <2>1 DEF CallOk
  <2>3. \A j \in Events(Tail(main), k) : j <= i
    <3> SUFFICES ASSUME NEW j \in Events(Tail(main), k) PROVE j <= i
      OBVIOUS
    <3>1. i \in Nat /\ j \in Nat /\ j + 1 <= i + 1
      BY <1>1, <2>2
    <3> QED
      BY <3>1
  <2> QED
    BY <2>2, <2>3
<1> QED
  BY <1>2, <1>3 DEF CallOk

\* A call hears its first event.
LEMMA OkHeard ==
  ASSUME NEW asked, NEW blocks, NEW listeners, NEW main \in Seq(Event), main # <<>>,
         NEW given \in Seq(Snapshot \cup {None}),
         CallOk(Head(main).call, asked, blocks, listeners, main, given, FALSE)
  PROVE  CallOk(Head(main).call, asked, blocks, listeners, Tail(main),
                Append(given, Head(main).answer), Head(main).answer # None)
<1> DEFINE k == Head(main).call
           answer == Head(main).answer
<1>0. /\ Head(main) = main[1] /\ 1 \in DOMAIN main /\ Head(main) \in Event
  BY TailAt
<1>1. 1 \in Events(main, k) /\ main[1].answer = answer /\ answer \in Snapshot \cup {None}
  BY <1>0 DEF Events, Event
<1> HIDE DEF k, answer
<1>2. asked /\ given = <<>>
  BY <1>1 DEF CallOk, k
<1>3. Append(given, answer) # <<>> /\ Len(Append(given, answer)) = 1
  BY <1>2
<1>4. CallOk(k, asked, blocks, listeners, Tail(main), given, FALSE)
  BY OkUnheard DEF k
<1>5. \A i \in Events(Tail(main), k) : i \in Nat /\ i # 0 /\ i + 1 \in Events(main, k)
  BY EventsOfTail
<1>6. ASSUME answer = None PROVE Over(blocks, listeners, k) /\ Events(Tail(main), k) = {}
  <2>1. Over(blocks, listeners, k) /\ \A j \in Events(main, k) : j <= 1
    BY <1>1, <1>6 DEF CallOk, k
  <2>2. \A i \in Events(Tail(main), k) : FALSE
    <3> SUFFICES ASSUME NEW i \in Events(Tail(main), k) PROVE FALSE
      OBVIOUS
    <3>1. i \in Nat /\ i # 0 /\ i + 1 <= 1
      BY <1>5, <2>1
    <3> QED
      BY <3>1
  <2> QED
    BY <2>1, <2>2
<1>7. CallOk(k, asked, blocks, listeners, Tail(main), Append(given, answer), answer # None)
  <2> DEFINE rest == Tail(main)
             all  == Append(given, answer)
  <2>1. /\ \A i, j \in Adds(blocks, k) : i = j
        /\ \A i, j \in Slots(listeners, k) : i = j
        /\ Adds(blocks, k) # {} => Slots(listeners, k) = {}
        /\ \A i \in Events(rest, k) : rest[i].answer = None =>
             Over(blocks, listeners, k) /\ \A j \in Events(rest, k) : j <= i
    BY <1>4 DEF CallOk
  <2>2. ~(answer # None) => Over(blocks, listeners, k) /\ Events(rest, k) = {}
    BY <1>6
  <2>3. Len(all) <= 1
    BY <1>3
  <2> HIDE DEF rest, all
  <2>4. CallOk(k, asked, blocks, listeners, rest, all, answer # None)
    BY <1>2, <2>1, <2>2, <2>3 DEF CallOk
  <2> QED
    BY <2>4 DEF rest, all
<1> QED
  BY <1>7 DEF k, answer

\* No call has been made at first.
LEMMA CallInit == Init => CallInv
<1> SUFFICES ASSUME Init PROVE CallInv
  OBVIOUS
<1>1. /\ posted = <<>> /\ sdk.listeners = <<>> /\ sdk.main = <<>> /\ version = 1
      /\ \A k \in Calls : since[k] = 0 /\ answers[k] = <<>>
  BY DEF Init, FreshSdk
<1>2. \A k : Adds(<<>>, k) = {} /\ Slots(<<>>, k) = {} /\ Events(<<>>, k) = {}
  BY DEF Adds, Slots, Events
<1>3. Len(<<>>) <= 1
  OBVIOUS
<1> QED
  BY <1>1, <1>2, <1>3 DEF CallInv, CallOk, Over

\* A step that raises snapshots, or nothing, for the listeners.
LEMMA CallTold ==
  ASSUME Base, CallInv, sdk'.listeners = sdk.listeners, sdk' \in Sdk,
         MoreEvents(sdk.main, sdk'.main, sdk.listeners), version' # 0,
         UNCHANGED <<posted, muted, since, answers>>
  PROVE  CallInv'
<1>1. sdk.main \in Seq(Event) /\ sdk'.main \in Seq(Event)
  BY SdkFields, OthersTyped DEF Base
<1>2. ASSUME NEW k \in Calls
      PROVE  CallOk(k, since'[k] # 0, posted', sdk'.listeners, sdk'.main, answers'[k], k \in muted')
  <2>1. CallOk(k, since[k] # 0, posted, sdk.listeners, sdk.main, answers[k], k \in muted)
    BY DEF CallInv
  <2>2. CallOk(k, since[k] # 0, posted, sdk.listeners, sdk'.main, answers[k], k \in muted)
    BY <1>1, <2>1, OkMore
  <2> QED
    BY <2>2
<1> QED
  BY <1>2 DEF CallInv

\* The same, when the queue of events is not touched.
LEMMA CallSame ==
  ASSUME Base, CallInv, sdk'.listeners = sdk.listeners, sdk'.main = sdk.main, version' # 0,
         UNCHANGED <<posted, muted, since, answers>>
  PROVE  CallInv'
BY DEF CallInv

\* A message may raise events for listeners, or an error for all of them.
LEMMA CallReceive ==
  ASSUME Base, CallInv, HeardIt, ReceiveStep, Base'
  PROVE  CallInv'
<1> DEFINE message == sdk.responses[1]
           c == Heard
<1>0. c = Heard
  OBVIOUS
<1> HIDE DEF c
<1>1. UNCHANGED <<posted, muted, version, since, answers>>
  BY DEF ReceiveStep
<1>2. c \in Sdk /\ c.listeners = sdk.listeners /\ MoreEvents(sdk.main, c.main, sdk.listeners)
  BY <1>0 DEF HeardIt, Told
<1>3. /\ sdk \in Sdk /\ sdk.main \in Seq(Event) /\ c.main \in Seq(Event)
      /\ sdk.listeners \in Seq(Calls) /\ sdk' \in Sdk /\ version' # 0
  BY <1>1, <1>2, SdkFields DEF Base, TypeOK, CallInv
<1>4. sdk'.main \in Seq(Event)
  BY <1>3, SdkFields
<1>5. CASE Counts(c, sdk') \/ Documents(c, sdk', message.version) \/ Marks(c, sdk', message.version)
  <2>1. sdk'.listeners = sdk.listeners /\ sdk'.main = c.main
    BY <1>2, <1>5 DEF Counts, Documents, Marks, Gathers
  <2> QED
    BY <1>1, <1>2, <1>3, <2>1, CallTold
<1>6. CASE sdk' = c
  BY <1>1, <1>2, <1>3, <1>6, CallTold
<1>7. CASE Stores(c, sdk')
  <2>1. sdk'.listeners = sdk.listeners /\ MoreEvents(c.main, sdk'.main, sdk.listeners)
    BY <1>2, <1>7 DEF Stores
  <2>2. MoreEvents(sdk.main, sdk'.main, sdk.listeners)
    BY <1>2, <1>3, <1>4, <2>1, MoreEventsTwice
  <2> QED
    BY <1>1, <1>3, <2>1, <2>2, CallTold
<1>8. CASE Refuses(c, sdk')
  <2>1. sdk'.listeners = <<>> /\ Errors(c.main, sdk'.main, sdk.listeners)
    BY <1>2, <1>8 DEF Refuses
  <2>2. ASSUME NEW k \in Calls
        PROVE  CallOk(k, since'[k] # 0, posted', sdk'.listeners, sdk'.main,
                      answers'[k], k \in muted')
    <3>1. CallOk(k, since[k] # 0, posted, sdk.listeners, sdk.main, answers[k], k \in muted)
      BY DEF CallInv
    <3>2. CallOk(k, since[k] # 0, posted, sdk.listeners, c.main, answers[k], k \in muted)
      BY <1>2, <1>3, <3>1, OkMore
    <3>3. CallOk(k, since[k] # 0, posted, <<>>, sdk'.main, answers[k], k \in muted)
      BY <1>3, <1>4, <2>1, <3>2, OkErrors
    <3> QED
      BY <1>1, <2>1, <3>3
  <2> QED
    BY <1>3, <2>2 DEF CallInv
<1> QED
  BY <1>0, <1>5, <1>6, <1>7, <1>8 DEF ReceiveStep

\* The posted block becomes a listener.
LEMMA CallAddListener ==
  ASSUME Base, CallInv, AddListenerStep
  PROVE  CallInv'
<1> DEFINE new  == Head(posted).call
           rest == Append(sdk.listeners, new)
<1>1. /\ posted # <<>> /\ Head(posted).op = "add" /\ posted' = Tail(posted) /\ new \in Calls
      /\ sdk' \in Sdk /\ sdk'.listeners = rest /\ MoreEvents(sdk.main, sdk'.main, rest)
      /\ UNCHANGED <<muted, version, since, answers>>
  BY DEF AddListenerStep
<1>2. /\ sdk.main \in Seq(Event) /\ sdk'.main \in Seq(Event) /\ posted \in Seq(Block)
      /\ sdk.listeners \in Seq(Calls)
  BY <1>1, SdkFields, OthersTyped DEF Base
<1>3. ASSUME NEW k \in Calls
      PROVE  CallOk(k, since'[k] # 0, posted', sdk'.listeners, sdk'.main, answers'[k], k \in muted')
  <2>1. CallOk(k, since[k] # 0, posted, sdk.listeners, sdk.main, answers[k], k \in muted)
    BY DEF CallInv
  <2>2. CallOk(k, since[k] # 0, Tail(posted), rest, sdk.main, answers[k], k \in muted)
    BY <1>1, <1>2, <2>1, OkAdded
  <2> HIDE DEF rest
  <2>3. CallOk(k, since[k] # 0, Tail(posted), rest, sdk'.main, answers[k], k \in muted)
    BY <1>1, <1>2, <2>2, OkMore
  <2> QED
    BY <1>1, <2>3
<1>4. version' # 0
  BY <1>1 DEF CallInv
<1> QED
  BY <1>3, <1>4 DEF CallInv

\* A removed listener is over.
LEMMA CallRemoveListener ==
  ASSUME Base, CallInv, RemoveListenerStep
  PROVE  CallInv'
<1> DEFINE k0   == Head(posted).call
           T    == Calls \ {k0}
           rest == Among(sdk.listeners, T)
<1>1. /\ posted # <<>> /\ Head(posted).op = "remove" /\ posted' = Tail(posted)
      /\ sdk'.listeners = rest /\ sdk'.main = sdk.main
      /\ UNCHANGED <<muted, version, since, answers>>
  BY DEF RemoveListenerStep, history
<1>2. sdk.listeners \in Seq(Calls) /\ posted \in Seq(Block)
  BY SdkFields, OthersTyped DEF Base
<1> HIDE DEF T
<1>3. /\ rest \in Seq(Calls)
      /\ \A n \in DOMAIN rest : \E i \in DOMAIN sdk.listeners : rest[n] = sdk.listeners[i]
      /\ (\A i, j \in DOMAIN sdk.listeners : sdk.listeners[i] = sdk.listeners[j] => i = j) =>
           \A i, j \in DOMAIN rest : rest[i] = rest[j] => i = j
  <2> DEFINE s == sdk.listeners
  <2>1. s \in Seq(Calls)
    BY <1>2
  <2> HIDE DEF s
  <2>2. /\ Among(s, T) \in Seq(Calls)
        /\ \A n \in DOMAIN Among(s, T) : \E k \in DOMAIN s : Among(s, T)[n] = s[k] /\ s[k] \in T
        /\ (\A i, j \in DOMAIN s : s[i] = s[j] => i = j) =>
             \A i, j \in DOMAIN Among(s, T) : Among(s, T)[i] = Among(s, T)[j] => i = j
    BY <2>1, AmongFacts, Zenon
  <2>3. /\ Among(s, T) \in Seq(Calls)
        /\ \A n \in DOMAIN Among(s, T) : \E k \in DOMAIN s : Among(s, T)[n] = s[k]
        /\ (\A i, j \in DOMAIN s : s[i] = s[j] => i = j) =>
             \A i, j \in DOMAIN Among(s, T) : Among(s, T)[i] = Among(s, T)[j] => i = j
    BY <2>2, Zenon
  <2> QED
    BY <2>3, Zenon DEF s
<1>4. \A i, j \in DOMAIN sdk.listeners : sdk.listeners[i] = sdk.listeners[j] => i = j
  <2> SUFFICES ASSUME NEW i \in DOMAIN sdk.listeners, NEW j \in DOMAIN sdk.listeners,
                      sdk.listeners[i] = sdk.listeners[j]
               PROVE  i = j
    OBVIOUS
  <2> DEFINE k == sdk.listeners[i]
  <2>1. k \in Calls
    BY <1>2
  <2>2. i \in Slots(sdk.listeners, k) /\ j \in Slots(sdk.listeners, k)
    BY DEF Slots
  <2> QED
    BY <2>1, <2>2 DEF CallInv, CallOk
<1> HIDE DEF rest
<1>5. ASSUME NEW k \in Calls
      PROVE  CallOk(k, since'[k] # 0, posted', sdk'.listeners, sdk'.main, answers'[k], k \in muted')
  <2>1. CallOk(k, since[k] # 0, posted, sdk.listeners, sdk.main, answers[k], k \in muted)
    BY DEF CallInv
  <2>2. Slots(sdk.listeners, k) = {} => Slots(rest, k) = {}
    BY <1>3 DEF Slots
  <2>3. \A i, j \in Slots(rest, k) : i = j
    BY <1>3, <1>4 DEF Slots
  <2>4. CallOk(k, since[k] # 0, Tail(posted), rest, sdk.main, answers[k], k \in muted)
    BY <1>1, <1>2, <2>1, <2>2, <2>3, OkTail
  <2> QED
    BY <1>1, <2>4
<1>6. version' # 0
  BY <1>1 DEF CallInv
<1> QED
  BY <1>5, <1>6 DEF CallInv

\* A call that is made has its one block posted.
LEMMA CallGetDocuments ==
  ASSUME Base, CallInv, NEW new \in Calls, GetDocuments(new)
  PROVE  CallInv'
<1>1. /\ since[new] = 0 /\ since' = [since EXCEPT ![new] = version]
      /\ posted' = Append(posted, [op |-> "add", call |-> new])
      /\ UNCHANGED <<sdk, muted, version, answers>>
  BY DEF GetDocuments
<1>2. posted \in Seq(Block) /\ since \in [Calls -> Versions] /\ version # 0
  BY OthersTyped DEF Base, CallInv
<1>3. ASSUME NEW k \in Calls
      PROVE  CallOk(k, since'[k] # 0, posted', sdk'.listeners, sdk'.main, answers'[k], k \in muted')
  <2>1. CallOk(k, since[k] # 0, posted, sdk.listeners, sdk.main, answers[k], k \in muted)
    BY DEF CallInv
  <2>2. k = new => ~(since[k] # 0)
    BY <1>1
  <2>3. CallOk(k, since[k] # 0 \/ k = new, posted', sdk.listeners, sdk.main,
               answers[k], k \in muted)
    BY <1>1, <1>2, <2>1, <2>2, OkAsked
  <2>4. since'[k] # 0 <=> since[k] # 0 \/ k = new
    BY <1>1, <1>2
  <2>5. (since'[k] # 0) = (since[k] # 0 \/ k = new)
    BY <2>4
  <2> QED
    BY <1>1, <2>3, <2>5
<1> QED
  BY <1>1, <1>2, <1>3 DEF CallInv

\* The first event gives the one answer.
LEMMA CallCallback ==
  ASSUME Base, CallInv, CallbackStep
  PROVE  CallInv'
<1> DEFINE event == Head(sdk.main)
           own   == event.call
           b     == [op |-> "remove", call |-> own]
<1>1. /\ sdk.main # <<>> /\ event \in Event /\ sdk'.main = Tail(sdk.main)
      /\ sdk'.listeners = sdk.listeners /\ UNCHANGED <<version, since>>
      /\ answers' = IF own \notin muted THEN [answers EXCEPT ![own] = Append(@, event.answer)]
                    ELSE answers
      /\ IF own \notin muted /\ event.answer # None
         THEN muted' = muted \cup {own} /\ posted' = Append(posted, b)
         ELSE muted' = muted /\ posted' = posted
  BY DEF CallbackStep
<1>2. /\ sdk.main \in Seq(Event) /\ posted \in Seq(Block)
      /\ answers \in [Calls -> Seq(Snapshot \cup {None})]
  BY SdkFields, OthersTyped DEF Base
<1>3. own \in Calls /\ event.answer \in Snapshot \cup {None}
  BY <1>1 DEF Event
<1>4. b \in Block /\ b.op = "remove"
  BY <1>3 DEF Block
<1> HIDE DEF b, own
<1>5. ASSUME NEW k \in Calls
      PROVE  CallOk(k, since'[k] # 0, posted, sdk.listeners, Tail(sdk.main),
                    answers'[k], k \in muted')
  <2>1. CallOk(k, since[k] # 0, posted, sdk.listeners, sdk.main, answers[k], k \in muted)
    BY DEF CallInv
  <2>2. CASE k # own \/ own \in muted
    <3>1. answers'[k] = answers[k] /\ (k \in muted' <=> k \in muted)
      BY <1>1, <1>2, <2>2
    <3>2. (k \in muted') = (k \in muted)
      BY <3>1
    <3>3. CallOk(k, since[k] # 0, posted, sdk.listeners, Tail(sdk.main), answers[k], k \in muted)
      BY <1>1, <1>2, <2>1, OkUnheard
    <3> QED
      BY <1>1, <3>1, <3>2, <3>3
  <2>3. CASE k = own /\ own \notin muted
    <3>1. answers'[k] = Append(answers[k], event.answer)
      BY <1>1, <1>2, <2>3
    <3>2. k \in muted' <=> event.answer # None
      BY <1>1, <2>3
    <3>3. (k \in muted') = (event.answer # None) /\ (k \in muted) = FALSE
      BY <2>3, <3>2
    <3>4. CallOk(own, since[k] # 0, posted, sdk.listeners, sdk.main, answers[k], FALSE)
      BY <2>1, <2>3, <3>3
    <3>5. answers[k] \in Seq(Snapshot \cup {None})
      BY <1>2
    <3>6. CallOk(own, since[k] # 0, posted, sdk.listeners, Tail(sdk.main),
                 Append(answers[k], event.answer), event.answer # None)
      BY <1>1, <1>2, <3>4, <3>5, OkHeard DEF own
    <3> QED
      BY <1>1, <2>3, <3>1, <3>3, <3>6
  <2> QED
    BY <2>2, <2>3
<1>6. ASSUME NEW k \in Calls
      PROVE  CallOk(k, since'[k] # 0, posted', sdk'.listeners, sdk'.main, answers'[k], k \in muted')
  <2>1. CallOk(k, since'[k] # 0, posted, sdk.listeners, Tail(sdk.main),
               answers'[k], k \in muted')
    BY <1>5
  <2>2. CallOk(k, since'[k] # 0, Append(posted, b), sdk.listeners, Tail(sdk.main),
               answers'[k], k \in muted')
    BY <1>2, <1>4, <2>1, OkPosted
  <2>3. posted' = posted \/ posted' = Append(posted, b)
    BY <1>1
  <2> QED
    BY <1>1, <2>1, <2>2, <2>3
<1>7. version' # 0
  BY <1>1 DEF CallInv
<1> QED
  BY <1>6, <1>7 DEF CallInv

\* CallInv is inductive relative to Base.
LEMMA CallStep == Base /\ CallInv /\ [Next]_vars => CallInv'
<1> SUFFICES ASSUME Base, CallInv, [Next]_vars PROVE CallInv'
  OBVIOUS
<1>0. Base' /\ version # 0
  BY BaseStep DEF CallInv
<1>1. CASE \E k \in Calls : GetDocuments(k)
  BY <1>1, CallGetDocuments
<1>2. CASE CallbackStep
  BY <1>2, CallCallback
<1>3. CASE AddListenerStep
  BY <1>3, CallAddListener
<1>4. CASE RemoveListenerStep
  BY <1>4, CallRemoveListener
<1>5. CASE TokenArrivedStep
  BY <1>0, <1>5, CallSame DEF TokenArrivedStep, history
<1>6. CASE EndingStep
  BY <1>0, <1>6, CallTold DEF EndingStep, Ended, Told, history
<1>7. CASE OnlineStateTimer
  <2>1. Broadcasts(sdk, sdk') /\ UNCHANGED <<posted, muted, version, since, answers>>
    BY <1>7, OnlineStateTimerDoes DEF history
  <2> QED
    BY <1>0, <2>1, CallTold DEF Broadcasts, Frame
<1>8. CASE HeardIt /\ ReceiveStep
  BY <1>0, <1>8, CallReceive
<1>9. CASE AddTargetStep \/ RefuseTargetStep \/ RemoveTargetStep
  BY <1>0, <1>9, CallSame
     DEF AddTargetStep, RefuseTargetStep, RemoveTargetStep, AnswerStep, SameClient, history
<1>10. CASE SendChangesStep
  BY <1>0, <1>10, CallSame DEF SendChangesStep, SameClient, history
<1>11. CASE BreaksSomewhere
  BY <1>0, <1>11, CallSame DEF BreaksSomewhere, BreakStreamStep, SameClient, history
<1>12. CASE OthersWrite
  <2>1. version' = version + 1 /\ UNCHANGED <<sdk, posted, muted, since, answers>>
    BY <1>12 DEF OthersWrite, history
  <2>2. version \in Nat
    BY OthersTyped, BoundsAssumption DEF Base, Versions
  <2> QED
    BY <2>1, <2>2, CallSame
<1>13. CASE UNCHANGED vars
  BY <1>0, <1>13, CallSame DEF vars
<1> QED
  BY <1>1, <1>2, <1>3, <1>4, <1>5, <1>6, <1>7, <1>8, <1>9, <1>10, <1>11, <1>12, <1>13, Steps

\* The completion block of a getDocuments is called at most once: its listener
\* is muted by its first snapshot, and an error is the last event of a listener.
THEOREM AnsweredOnceHolds == Spec => []AnsweredOnce
<1>1. CallInv => AnsweredOnce
  BY DEF CallInv, CallOk, AnsweredOnce
<1> QED
  BY <1>1, BaseInit, BaseStep, CallInit, CallStep, PTL DEF Spec


-----------------------------------------------------------------------------
(* Counting the responses under way *)

\* Where the responses are.
Responses(messages) == {k \in DOMAIN messages : IsResponse(messages[k])}

\* They are counted by a number.
LEMMA AnswersType ==
  ASSUME NEW s \in Seq(Message)
  PROVE  /\ IsFiniteSet(Responses(s)) /\ Answers(s) = Cardinality(Responses(s))
         /\ Answers(s) \in Nat
<1>1. Len(s) \in Nat /\ Responses(s) \in SUBSET (1 .. Len(s))
  BY DEF Responses
<1>2. IsFiniteSet(1 .. Len(s))
  BY <1>1, FS_Interval
<1>3. IsFiniteSet(Responses(s))
  BY <1>1, <1>2, FS_Subset
<1>4. Answers(s) = Cardinality(Responses(s))
  BY DEF Answers, Responses
<1> QED
  BY <1>3, <1>4, FS_CardinalityType

\* The number is zero when there are none.
LEMMA AnswersNone ==
  ASSUME NEW s \in Seq(Message)
  PROVE  Answers(s) = 0 <=> \A k \in DOMAIN s : ~IsResponse(s[k])
<1>1. Responses(s) = {} <=> \A k \in DOMAIN s : ~IsResponse(s[k])
  BY DEF Responses
<1> QED
  BY <1>1, AnswersType, FS_EmptySet

\* There are none in an empty sequence.
LEMMA AnswersEmpty == Answers(<<>>) = 0
<1>1. {k \in DOMAIN <<>> : IsResponse(<<>>[k])} = {}
  OBVIOUS
<1> QED
  BY <1>1, FS_EmptySet DEF Answers

\* A message is added at the end, ...
LEMMA AnswersAppend ==
  ASSUME NEW s \in Seq(Message), NEW m \in Message
  PROVE  Answers(Append(s, m)) = IF IsResponse(m) THEN Answers(s) + 1 ELSE Answers(s)
<1>1. /\ Append(s, m) \in Seq(Message) /\ Len(s) \in Nat /\ DOMAIN s = 1 .. Len(s)
      /\ DOMAIN Append(s, m) = 1 .. Len(s) + 1
      /\ Append(s, m)[Len(s) + 1] = m /\ \A k \in DOMAIN s : Append(s, m)[k] = s[k]
  BY AppendAt
<1>2. \A k : k \in DOMAIN Append(s, m) <=> k \in DOMAIN s \/ k = Len(s) + 1
  BY <1>1
<1>3. Len(s) + 1 \notin Responses(s)
  BY <1>1 DEF Responses
<1>4. CASE IsResponse(m)
  <2>1. \A k : k \in Responses(Append(s, m)) <=> k \in Responses(s) \/ k = Len(s) + 1
    BY <1>1, <1>2, <1>4 DEF Responses
  <2>2. Responses(Append(s, m)) = Responses(s) \cup {Len(s) + 1}
    BY <2>1
  <2>3. IsFiniteSet(Responses(s))
    BY AnswersType
  <2>4. Cardinality(Responses(Append(s, m))) = Cardinality(Responses(s)) + 1
    BY <1>3, <2>2, <2>3, FS_AddElement
  <2>5. /\ Answers(s) = Cardinality(Responses(s))
        /\ Answers(Append(s, m)) = Cardinality(Responses(Append(s, m)))
    BY <1>1, AnswersType
  <2> QED
    BY <1>4, <2>4, <2>5
<1>5. CASE ~IsResponse(m)
  <2>1. \A k : k \in Responses(Append(s, m)) <=> k \in Responses(s)
    BY <1>1, <1>2, <1>5 DEF Responses
  <2>2. Responses(Append(s, m)) = Responses(s)
    BY <2>1
  <2> QED
    BY <1>1, <1>5, <2>2, AnswersType
<1> QED
  BY <1>4, <1>5

\* ... taken from the front, ...
LEMMA AnswersTail ==
  ASSUME NEW s \in Seq(Message), s # <<>>
  PROVE  Answers(s) = IF IsResponse(s[1]) THEN Answers(Tail(s)) + 1 ELSE Answers(Tail(s))
<1> DEFINE A == Responses(Tail(s))
           B == Responses(s) \ {1}
           f == [k \in A |-> k + 1]
<1>1. /\ Tail(s) \in Seq(Message) /\ Len(s) \in Nat /\ DOMAIN s = 1 .. Len(s) /\ Len(s) >= 1
      /\ DOMAIN Tail(s) = 1 .. Len(s) - 1
      /\ \A k \in DOMAIN Tail(s) : k + 1 \in DOMAIN s /\ Tail(s)[k] = s[k + 1]
  BY TailAt
<1>2. \A k \in A : k \in Int /\ k + 1 \in B
  BY <1>1 DEF Responses
<1>3. \A k \in B : k \in Int /\ k - 1 \in A /\ (k - 1) + 1 = k
  <2> SUFFICES ASSUME NEW k \in B PROVE k \in Int /\ k - 1 \in A /\ (k - 1) + 1 = k
    OBVIOUS
  <2>1. k \in DOMAIN s /\ k # 1 /\ IsResponse(s[k])
    BY DEF Responses
  <2>2. k \in Int /\ k - 1 \in DOMAIN Tail(s) /\ (k - 1) + 1 = k
    BY <1>1, <2>1
  <2>3. Tail(s)[k - 1] = s[k]
    BY <1>1, <2>2
  <2> QED
    BY <2>1, <2>2, <2>3 DEF Responses
<1>4. ExistsBijection(A, B)
  <2> HIDE DEF A, B
  <2>1. f \in [A -> B]
    BY <1>2
  <2>2. \A x, y \in A : f[x] = f[y] => x = y
    BY <1>2
  <2>3. \A y \in B : \E x \in A : f[x] = y
    BY <1>3
  <2> HIDE DEF f
  <2>4. f \in Injection(A, B)
    BY <2>1, <2>2 DEF Injection, IsInjective
  <2>5. f \in Surjection(A, B)
    BY <2>1, <2>3 DEF Surjection
  <2> QED
    BY <2>4, <2>5 DEF ExistsBijection, Bijection
<1>5. /\ IsFiniteSet(A) /\ Answers(Tail(s)) = Cardinality(A) /\ Answers(Tail(s)) \in Nat
      /\ IsFiniteSet(Responses(s)) /\ Answers(s) = Cardinality(Responses(s)) /\ Answers(s) \in Nat
  BY <1>1, AnswersType
<1>6. Cardinality(B) = Cardinality(A)
  <2> HIDE DEF A, B
  <2> QED
    BY <1>4, <1>5, FS_Bijection
<1>7. Cardinality(B) = IF 1 \in Responses(s) THEN Cardinality(Responses(s)) - 1
                       ELSE Cardinality(Responses(s))
  <2> HIDE DEF A
  <2> QED
    BY <1>5, FS_RemoveElement
<1>8. 1 \in Responses(s) <=> IsResponse(s[1])
  BY <1>1 DEF Responses
<1> HIDE DEF A, B
<1> QED
  BY <1>5, <1>6, <1>7, <1>8

\* ... or the last ones are lost.
LEMMA AnswersPrefix ==
  ASSUME NEW s \in Seq(Message), NEW n \in 0 .. Len(s), NEW p \in Seq(Message),
         DOMAIN p = 1 .. n, \A k \in DOMAIN p : p[k] = s[k]
  PROVE  /\ Answers(p) <= Answers(s)
         /\ Answers(p) = Answers(s) => \A k \in DOMAIN s : k > n => ~IsResponse(s[k])
<1>1. Len(s) \in Nat /\ DOMAIN s = 1 .. Len(s)
  OBVIOUS
<1>2. \A k \in DOMAIN p : k \in DOMAIN s /\ ~ (k > n)
  BY <1>1
<1>3. Responses(p) \in SUBSET Responses(s)
  BY <1>2 DEF Responses
<1>4. /\ IsFiniteSet(Responses(s)) /\ Answers(s) = Cardinality(Responses(s))
      /\ Answers(p) = Cardinality(Responses(p))
  BY AnswersType
<1>5. /\ Cardinality(Responses(p)) <= Cardinality(Responses(s))
      /\ Cardinality(Responses(s)) = Cardinality(Responses(p)) => Responses(s) = Responses(p)
  BY <1>3, <1>4, FS_Subset
<1>6. Responses(s) = Responses(p) => \A k \in DOMAIN s : k > n => ~IsResponse(s[k])
  BY <1>2 DEF Responses
<1> QED
  BY <1>4, <1>5, <1>6

-----------------------------------------------------------------------------
(* What the steps do to the stream *)

\* A view stays current only with the listen it belongs to.
SameView(c, d, listened, newListened) ==
    Listened(d) /\ d.current =>
      /\ Listened(c) /\ c.current /\ newListened = listened
      /\ d.snapshot.version = c.snapshot.version

\* Nothing happens on the stream; listeners may go.
Quiet ==
    /\ Rests(sdk, sdk') /\ sdk'.cache = sdk.cache /\ sdk'.token = sdk.token
    /\ Listened(sdk') => Listened(sdk)
    /\ SameView(sdk, sdk', listenedAt, listenedAt')
    /\ UNCHANGED <<version, serving, listenedAt, crossed>>

\* There is no request and no message.
Idles ==
    /\ sdk'.requests = <<>> /\ sdk'.responses = <<>>
    /\ \/ sdk'.target = None /\ sdk'.document = 0
       \/ sdk'.target = sdk.target /\ sdk'.document = sdk.document
    /\ sdk'.cache = sdk.cache /\ sdk'.token = sdk.token
    /\ SameView(sdk, sdk', listenedAt, listenedAt')
    /\ serving' \in {serving, None} /\ listenedAt' \in {listenedAt, version}
    /\ UNCHANGED <<version, crossed>>

\* A request is sent.
Wants ==
    /\ \E type : Asks(sdk, sdk', type)
    /\ sdk'.cache = sdk.cache /\ sdk'.token = sdk.token
    /\ SameView(sdk, sdk', listenedAt, listenedAt')
    /\ serving' \in {serving, None} /\ listenedAt' \in {listenedAt, version}
    /\ UNCHANGED <<version, crossed>>

\* The backend answers a request.
Answered ==
    /\ \E type \in {"added", "removed", "refused"} : AnswerStep(type)
    /\ serving' = None \/ serving' = [sent |-> Head(sdk.requests).version, current |-> FALSE]
    /\ UNCHANGED <<version, history>>

\* The steps, by what they do to the stream.
LEMMA Shapes ==
  ASSUME Base, [Next]_vars
  PROVE  \/ Quiet \/ Idles \/ Wants \/ Answered \/ (HeardIt /\ ReceiveStep)
         \/ SendChangesStep \/ BreaksSomewhere \/ OthersWrite
<1>1. CASE \E k \in Calls : GetDocuments(k)
  <2>1. UNCHANGED <<sdk, version, serving, listenedAt, crossed>>
    BY <1>1 DEF GetDocuments
  <2> QED
    BY <2>1 DEF Quiet, Rests, SameView
<1>2. CASE CallbackStep
  BY <1>2 DEF CallbackStep, Quiet, SameView, Listened
<1>3. CASE AddListenerStep
  <2>1. CASE Listened(sdk)
    BY <1>3, <2>1 DEF AddListenerStep, Quiet, SameView
  <2>2. CASE ~Listened(sdk) /\ Asks(sdk, sdk', "watch")
    BY <1>3, <2>2 DEF AddListenerStep, Wants, SameView
  <2>3. CASE ~Listened(sdk) /\ ~Asks(sdk, sdk', "watch")
    BY <1>3, <2>3 DEF AddListenerStep, Idles, SameView
  <2> QED
    BY <2>1, <2>2, <2>3
<1>4. CASE RemoveListenerStep
  <2>1. CASE Rests(sdk, sdk')
    BY <1>4, <2>1 DEF RemoveListenerStep, Quiet, SameView, history
  <2>2. CASE Asks(sdk, sdk', "unwatch") /\ ~Listened(sdk')
    BY <1>4, <2>2 DEF RemoveListenerStep, Wants, SameView, history
  <2> QED
    BY <1>4, <2>1, <2>2 DEF RemoveListenerStep
<1>5. CASE TokenArrivedStep
  <2>1. SameView(sdk, sdk', listenedAt, listenedAt')
    BY <1>5 DEF TokenArrivedStep, SameView, Listened, history
  <2>2. CASE sdk'.requests = <<>> /\ sdk'.target = sdk.target
    BY <1>5, <2>1, <2>2 DEF TokenArrivedStep, Idles, history
  <2>3. CASE Asks(sdk, sdk', "watch")
    BY <1>5, <2>1, <2>3 DEF TokenArrivedStep, Wants, history
  <2> QED
    BY <1>5, <2>2, <2>3 DEF TokenArrivedStep
<1>6. CASE EndingStep
  BY <1>6 DEF EndingStep, Ended, Told, Idles, SameView, Listened, history
<1>7. CASE OnlineStateTimer
  <2>1. /\ Broadcasts(sdk, sdk')
        /\ UNCHANGED <<posted, muted, version, serving, faults, rejects, history>>
    BY <1>7, OnlineStateTimerDoes
  <2> QED
    BY <2>1 DEF Broadcasts, Frame, Quiet, Rests, SameView, Listened, history
<1>8. CASE AddTargetStep \/ RefuseTargetStep \/ RemoveTargetStep
  BY <1>8 DEF AddTargetStep, RefuseTargetStep, RemoveTargetStep, Answered
<1>9. CASE UNCHANGED vars
  BY <1>9 DEF vars, Quiet, Rests, SameView
<1> QED
  BY <1>1, <1>2, <1>3, <1>4, <1>5, <1>6, <1>7, <1>8, <1>9, Steps

-----------------------------------------------------------------------------
(* Versions only grow *)

\* The messages' versions are numbers.
LEMMA VersionTyped ==
  ASSUME NEW s \in Seq(Message)
  PROVE  \A i \in DOMAIN s : s[i] \in Message /\ s[i].version \in Int
<1>1. \A i \in DOMAIN s : s[i] \in Message
  OBVIOUS
<1>2. \A m \in Message : m.version \in Int
  BY BoundsAssumption DEF Message, Versions
<1> QED
  BY <1>1, <1>2

\* A message is added; a document comes with the newest version.
LEMMA DocumentsAppend ==
  ASSUME NEW s \in Seq(Message), NEW m \in Message, NEW g \in Int, NEW n \in Int,
         DocumentsOk(g, s, n), IsDocument(m) => g <= n /\ m.version = n
  PROVE  DocumentsOk(g, Append(s, m), n)
<1> DEFINE t == Append(s, m)
<1>1. /\ Len(s) \in Nat /\ DOMAIN s = 1 .. Len(s) /\ DOMAIN t = 1 .. Len(s) + 1
      /\ t[Len(s) + 1] = m /\ \A k \in DOMAIN s : t[k] = s[k]
  BY AppendAt
<1>2. \A i \in DOMAIN t : i \in DOMAIN s \/ i = Len(s) + 1
  BY <1>1
<1> HIDE DEF t
<1>3. \A i \in DOMAIN s : IsDocument(s[i]) => g <= s[i].version /\ s[i].version <= n
  BY DEF DocumentsOk
<1>4. \A i, j \in DOMAIN s : IsDocument(s[i]) /\ IsDocument(s[j]) /\ i < j =>
        s[i].version <= s[j].version
  BY DEF DocumentsOk
<1> SUFFICES ASSUME NEW i \in DOMAIN t, IsDocument(t[i])
             PROVE  /\ g <= t[i].version /\ t[i].version <= n
                    /\ \A j \in DOMAIN t : IsDocument(t[j]) /\ i < j => t[i].version <= t[j].version
  BY DEF DocumentsOk, t
<1>5. g <= t[i].version /\ t[i].version <= n
  BY <1>1, <1>2, <1>3
<1>6. ASSUME NEW j \in DOMAIN t, IsDocument(t[j]), i < j
      PROVE  t[i].version <= t[j].version
  <2>1. i \in DOMAIN s
    BY <1>1, <1>2, <1>6
  <2>2. CASE j \in DOMAIN s
    BY <1>1, <1>4, <1>6, <2>1, <2>2
  <2>3. CASE j = Len(s) + 1
    BY <1>1, <1>5, <1>6, <2>3
  <2> QED
    BY <1>2, <2>2, <2>3
<1> QED
  BY <1>5, <1>6

\* The first one is taken; what it was is gathered, or nothing is.
LEMMA DocumentsTail ==
  ASSUME NEW s \in Seq(Message), s # <<>>, NEW g \in Int, NEW n \in Int, NEW new \in Int,
         DocumentsOk(g, s, n), new = g \/ (IsDocument(s[1]) /\ new = s[1].version)
  PROVE  DocumentsOk(new, Tail(s), n)
<1> DEFINE t == Tail(s)
<1>1. /\ Len(s) \in Nat /\ DOMAIN s = 1 .. Len(s) /\ 1 \in DOMAIN s
      /\ DOMAIN t = 1 .. Len(s) - 1
      /\ \A k \in DOMAIN t : k + 1 \in DOMAIN s /\ t[k] = s[k + 1]
  BY TailAt
<1> HIDE DEF t
<1>2. \A i \in DOMAIN t : i \in Int /\ i + 1 \in DOMAIN s /\ t[i] = s[i + 1] /\ 1 < i + 1
  BY <1>1
<1>3. \A i \in DOMAIN s : IsDocument(s[i]) => g <= s[i].version /\ s[i].version <= n
  BY DEF DocumentsOk
<1>4. \A i, j \in DOMAIN s : IsDocument(s[i]) /\ IsDocument(s[j]) /\ i < j =>
        s[i].version <= s[j].version
  BY DEF DocumentsOk
<1> SUFFICES ASSUME NEW i \in DOMAIN t, IsDocument(t[i])
             PROVE  /\ new <= t[i].version /\ t[i].version <= n
                    /\ \A j \in DOMAIN t : IsDocument(t[j]) /\ i < j => t[i].version <= t[j].version
  BY DEF DocumentsOk, t
<1>5. new <= t[i].version
  <2>1. CASE new = g
    BY <1>2, <1>3, <2>1
  <2>2. CASE IsDocument(s[1]) /\ new = s[1].version
    BY <1>1, <1>2, <1>4, <2>2
  <2> QED
    BY <2>1, <2>2
<1>6. t[i].version <= n
  BY <1>2, <1>3
<1>7. ASSUME NEW j \in DOMAIN t, IsDocument(t[j]), i < j
      PROVE  t[i].version <= t[j].version
  <2>1. i + 1 < j + 1
    BY <1>2, <1>7
  <2> QED
    BY <1>2, <1>4, <1>7, <2>1
<1> QED
  BY <1>5, <1>6, <1>7

\* The last ones are lost.
LEMMA DocumentsPrefix ==
  ASSUME NEW s \in Seq(Message), NEW p \in Seq(Message), NEW g, NEW n,
         \A k \in DOMAIN p : k \in DOMAIN s /\ p[k] = s[k], DocumentsOk(g, s, n)
  PROVE  DocumentsOk(g, p, n)
BY DEF DocumentsOk

\* What is gathered is a number.
LEMMA GatheredTyped ==
  ASSUME NEW c \in Sdk
  PROVE  c.cache \in Int /\ c.document \in Int /\ Gathered(c) \in Int
         /\ c.cache >= 0 /\ c.document >= 0 /\ c.token \in Int /\ c.token >= 0
BY SdkFields, BoundsAssumption DEF Gathered, Versions

\* What is gathered, kept or taken in, as a message is received.
LEMMA GatheredReceive ==
  ASSUME Base, HeardIt, ReceiveStep, DocumentInv
  PROVE  /\ sdk' \in Sdk /\ sdk'.responses = Tail(sdk.responses) /\ sdk'.requests = sdk.requests
         /\ sdk.responses # <<>> /\ sdk.responses \in Seq(Message)
         /\ UNCHANGED <<version, serving, listenedAt>>
         /\ sdk'.cache <= Gathered(sdk') /\ sdk.cache <= sdk'.cache
         /\ Gathered(sdk) <= Gathered(sdk')
         /\ \/ Gathered(sdk') = Gathered(sdk)
            \/ IsDocument(sdk.responses[1]) /\ Gathered(sdk') = sdk.responses[1].version
<1> DEFINE m == sdk.responses[1]
           c == Heard
<1>0. c = Heard
  OBVIOUS
<1> HIDE DEF c
<1>1. /\ c \in Sdk /\ c.responses = Tail(sdk.responses) /\ c.requests = sdk.requests
      /\ c.document = sdk.document /\ c.cache = sdk.cache
  BY <1>0 DEF HeardIt, Told
<1>2. sdk \in Sdk /\ sdk.responses \in Seq(Message)
  BY OthersTyped, SdkFields DEF Base
<1>3. /\ sdk.responses # <<>> /\ m \in Message
      /\ UNCHANGED <<version, serving, listenedAt>>
  BY DEF ReceiveStep
<1>4. m.version \in Int /\ 1 \in DOMAIN sdk.responses
  BY <1>2, <1>3, VersionTyped, TailAt
<1>5. /\ sdk.cache \in Int /\ Gathered(sdk) \in Int /\ sdk.cache >= 0 /\ Gathered(c) = Gathered(sdk)
      /\ sdk.cache <= Gathered(sdk)
  BY <1>1, <1>2, GatheredTyped DEF DocumentInv, Gathered
<1>6. CASE Gathers(c, sdk') /\ sdk'.document = c.document
  <2>1. Gathered(sdk') = Gathered(sdk) /\ sdk'.cache = sdk.cache
    BY <1>1, <1>6 DEF Gathers, Gathered
  <2> QED
    BY <1>1, <1>2, <1>3, <1>5, <1>6, <2>1 DEF Gathers
<1>7. CASE IsDocument(m) /\ Gathers(c, sdk') /\ sdk'.document = m.version
  <2>1. Gathered(sdk) <= m.version
    BY <1>4, <1>7 DEF DocumentInv, DocumentsOk
  <2>2. sdk'.cache = sdk.cache /\ sdk'.document = m.version
    BY <1>1, <1>7 DEF Gathers
  <2>3. Gathered(sdk') = m.version
    BY <1>4, <1>5, <2>1, <2>2 DEF Gathered
  <2> QED
    BY <1>1, <1>2, <1>3, <1>4, <1>5, <1>7, <2>1, <2>2, <2>3 DEF Gathers
<1>8. CASE Refuses(c, sdk')
  <2>1. Gathered(sdk') = Gathered(sdk) /\ sdk'.cache = sdk.cache
    BY <1>1, <1>8 DEF Refuses, Gathered
  <2> QED
    BY <1>1, <1>2, <1>3, <1>5, <1>8, <2>1 DEF Refuses
<1>9. CASE sdk' = c
  <2>1. Gathered(sdk') = Gathered(sdk) /\ sdk'.cache = sdk.cache
    BY <1>1, <1>9 DEF Gathered
  <2> QED
    BY <1>1, <1>2, <1>3, <1>5, <1>9, <2>1
<1>10. CASE Stores(c, sdk')
  <2>1. sdk'.document = 0 /\ sdk'.cache = Gathered(sdk)
    BY <1>5, <1>10 DEF Stores
  <2>2. Gathered(sdk') = Gathered(sdk)
    BY <2>1 DEF Gathered
  <2> QED
    BY <1>1, <1>2, <1>3, <1>5, <1>10, <2>1, <2>2 DEF Stores
<1> QED
  BY <1>0, <1>6, <1>7, <1>8, <1>9, <1>10
     DEF ReceiveStep, Counts, Documents, Marks, IsDocument

\* At the start nothing is gathered.
LEMMA DocumentInit == Init => DocumentInv
<1> SUFFICES ASSUME Init PROVE DocumentInv
  OBVIOUS
<1>1. /\ sdk.cache = 0 /\ sdk.document = 0 /\ sdk.responses = <<>> /\ version = 1 /\ listenedAt = 0
  BY DEF Init, FreshSdk
<1>2. Gathered(sdk) = 0
  BY <1>1 DEF Gathered
<1>3. DocumentsOk(Gathered(sdk), sdk.responses, version)
  BY <1>1 DEF DocumentsOk
<1> QED
  BY <1>1, <1>2, <1>3 DEF DocumentInv

\* What the device gathers is never newer than the backend's document, and
\* the documents under way come in the order of their versions.
LEMMA DocumentStep == Base /\ DocumentInv /\ [Next]_vars => DocumentInv'
<1> SUFFICES ASSUME Base, DocumentInv, [Next]_vars PROVE DocumentInv'
  OBVIOUS
<1>1. /\ sdk \in Sdk /\ sdk.responses \in Seq(Message)
      /\ version \in Int /\ listenedAt \in Int
  BY OthersTyped, SdkFields, BoundsAssumption DEF Base, Versions
<1>2. /\ sdk.cache \in Int /\ sdk.document \in Int /\ sdk.cache >= 0 /\ Gathered(sdk) \in Int
  BY <1>1, GatheredTyped
<1>3. /\ listenedAt <= version /\ sdk.cache <= Gathered(sdk) /\ Gathered(sdk) <= version
      /\ DocumentsOk(Gathered(sdk), sdk.responses, version)
  BY DEF DocumentInv
<1>4. CASE Quiet
  <2>1. /\ sdk'.cache = sdk.cache /\ sdk'.document = sdk.document
        /\ sdk'.responses = sdk.responses /\ version' = version /\ listenedAt' = listenedAt
    BY <1>4 DEF Quiet, Rests
  <2> QED
    BY <1>3, <2>1 DEF DocumentInv, Gathered
<1>5. CASE Idles
  <2>1. /\ sdk'.cache = sdk.cache /\ sdk'.document \in {0, sdk.document}
        /\ sdk'.responses = <<>> /\ version' = version /\ listenedAt' \in {listenedAt, version}
    BY <1>5 DEF Idles
  <2>2. Gathered(sdk') \in {sdk.cache, Gathered(sdk)}
    BY <2>1 DEF Gathered
  <2>3. Gathered(sdk') = Gathered(sdk)'
    BY DEF Gathered
  <2>4. sdk'.cache <= Gathered(sdk') /\ Gathered(sdk') <= version'
    BY <1>1, <1>2, <1>3, <2>1, <2>2
  <2>5. DocumentsOk(Gathered(sdk), sdk.responses, version)'
    BY <2>1 DEF DocumentsOk
  <2>6. listenedAt' <= version'
    BY <1>1, <1>3, <2>1
  <2> QED
    BY <2>3, <2>4, <2>5, <2>6 DEF DocumentInv
<1>6. CASE Wants
  <2>1. /\ sdk'.cache = sdk.cache /\ sdk'.document = sdk.document
        /\ sdk'.responses = sdk.responses /\ version' = version
        /\ listenedAt' \in {listenedAt, version}
    BY <1>6 DEF Wants, Asks
  <2>2. listenedAt' <= version'
    BY <1>1, <1>3, <2>1
  <2> QED
    BY <1>3, <2>1, <2>2 DEF DocumentInv, Gathered
<1>7. ASSUME SameClient(sdk, sdk'), version' = version, listenedAt' = listenedAt,
             DocumentsOk(Gathered(sdk), sdk'.responses, version)
      PROVE  DocumentInv'
  <2>1. sdk'.cache = sdk.cache /\ sdk'.document = sdk.document
    BY <1>7 DEF SameClient
  <2> QED
    BY <1>3, <1>7, <2>1 DEF DocumentInv, Gathered
<1>8. CASE Answered
  <2>1. PICK type \in {"added", "removed", "refused"} : AnswerStep(type)
    BY <1>8 DEF Answered
  <2> DEFINE m == Msg(type, 0)
  <2>2. /\ SameClient(sdk, sdk') /\ m \in Message /\ m.type = type
        /\ sdk'.responses = Append(sdk.responses, m)
    BY <2>1 DEF AnswerStep
  <2>3. ~IsDocument(m)
    BY <2>2 DEF IsDocument
  <2> HIDE DEF m
  <2>4. DocumentsOk(Gathered(sdk), sdk'.responses, version)
    BY <1>1, <1>2, <1>3, <2>2, <2>3, DocumentsAppend
  <2> QED
    BY <1>7, <1>8, <2>2, <2>4 DEF Answered, history
<1>9. CASE HeardIt /\ ReceiveStep
  <2>1. /\ sdk' \in Sdk /\ sdk'.responses = Tail(sdk.responses) /\ sdk.responses # <<>>
        /\ version' = version /\ listenedAt' = listenedAt
        /\ sdk'.cache <= Gathered(sdk')
        /\ \/ Gathered(sdk') = Gathered(sdk)
           \/ IsDocument(sdk.responses[1]) /\ Gathered(sdk') = sdk.responses[1].version
    BY <1>9, GatheredReceive
  <2>2. Gathered(sdk') \in Int
    BY <2>1, GatheredTyped
  <2>3. 1 \in DOMAIN sdk.responses
    BY <1>1, <2>1, TailAt
  <2>4. Gathered(sdk') <= version'
    BY <1>3, <2>1, <2>3 DEF DocumentsOk
  <2>5. DocumentsOk(Gathered(sdk'), Tail(sdk.responses), version)
    BY <1>1, <1>2, <1>3, <2>1, <2>2, DocumentsTail
  <2>6. Gathered(sdk') = Gathered(sdk)'
    BY DEF Gathered
  <2> QED
    BY <1>3, <2>1, <2>4, <2>5, <2>6 DEF DocumentInv
<1>10. CASE SendChangesStep
  <2> DEFINE doc  == Msg("document", version)
             mark == Msg(IF serving.current THEN "nochange" ELSE "current", version)
             snap == Msg("snapshot", version)
             some == IF serving.sent < version THEN Append(sdk.responses, doc) ELSE sdk.responses
  <2>1. /\ SameClient(sdk, sdk') /\ doc \in Message /\ mark \in Message /\ snap \in Message
        /\ mark.type \in {"current", "nochange"} /\ some \in Seq(Message)
        /\ sdk'.responses = Append(Append(some, mark), snap)
        /\ UNCHANGED <<posted, muted, version, faults, rejects, history>>
    BY <1>10 DEF SendChangesStep
  <2>2. doc.version = version /\ snap.type = "snapshot"
    BY MessageTypes
  <2>3. ~IsDocument(mark) /\ ~IsDocument(snap)
    BY <2>1, <2>2 DEF IsDocument
  <2> HIDE DEF doc, mark, snap
  <2>4. DocumentsOk(Gathered(sdk), some, version)
    BY <1>1, <1>2, <1>3, <2>1, <2>2, DocumentsAppend
  <2> HIDE DEF some
  <2>5. DocumentsOk(Gathered(sdk), Append(some, mark), version) /\ Append(some, mark) \in Seq(Message)
    BY <1>1, <1>2, <2>1, <2>3, <2>4, DocumentsAppend
  <2>6. DocumentsOk(Gathered(sdk), sdk'.responses, version)
    BY <1>1, <1>2, <2>1, <2>3, <2>5, DocumentsAppend
  <2> QED
    BY <1>7, <2>1, <2>6 DEF history
<1>11. CASE BreaksSomewhere
  <2>1. PICK n \in Nat : BreakStreamStep(n)
    BY <1>11 DEF BreaksSomewhere
  <2> DEFINE m   == Msg("closed", 0)
             sub == SubSeq(sdk.responses, 1, n)
  <2>2. /\ SameClient(sdk, sdk') /\ n \in 0 .. Len(sdk.responses) /\ sub \in Seq(Message)
        /\ m \in Message /\ m.type = "closed" /\ sdk'.responses = Append(sub, m)
        /\ UNCHANGED <<posted, muted, version, serving, rejects, history>>
    BY <2>1 DEF BreakStreamStep
  <2>3. \A k \in DOMAIN sub : k \in DOMAIN sdk.responses /\ sub[k] = sdk.responses[k]
    BY <1>1, <2>2
  <2>4. ~IsDocument(m)
    BY <2>2 DEF IsDocument
  <2> HIDE DEF m, sub
  <2>5. DocumentsOk(Gathered(sdk), sub, version)
    BY <1>1, <1>3, <2>2, <2>3, DocumentsPrefix
  <2>6. DocumentsOk(Gathered(sdk), sdk'.responses, version)
    BY <1>1, <1>2, <2>2, <2>4, <2>5, DocumentsAppend
  <2> QED
    BY <1>7, <2>2, <2>6 DEF history
<1>12. CASE OthersWrite
  <2>1. version' = version + 1 /\ sdk' = sdk /\ listenedAt' = listenedAt
    BY <1>12 DEF OthersWrite, history
  <2>2. listenedAt' <= version' /\ Gathered(sdk) <= version'
    BY <1>1, <1>2, <1>3, <2>1
  <2>3. \A i \in DOMAIN sdk.responses : IsDocument(sdk.responses[i]) =>
          sdk.responses[i].version <= version'
    <3>1. \A i \in DOMAIN sdk.responses : IsDocument(sdk.responses[i]) =>
            sdk.responses[i].version <= version
      BY <1>3 DEF DocumentsOk
    <3> QED
      BY <1>1, <2>1, <3>1, VersionTyped
  <2>4. DocumentsOk(Gathered(sdk), sdk.responses, version')
    BY <1>3, <2>3 DEF DocumentsOk
  <2> QED
    BY <1>3, <2>1, <2>2, <2>4 DEF DocumentInv, Gathered
<1> QED
  BY <1>4, <1>5, <1>6, <1>8, <1>9, <1>10, <1>11, <1>12, Shapes

-----------------------------------------------------------------------------
(* No response is missed *)

\* What is counted and what is to come are numbers.
LEMMA CountTyped ==
  ASSUME NEW c \in Sdk
  PROVE  /\ c.requests \in Seq(Request) /\ c.responses \in Seq(Message)
         /\ Len(c.requests) \in Nat /\ Answers(c.responses) \in Nat
         /\ Owing(c) = Len(c.requests) + Answers(c.responses) /\ Owing(c) \in Nat
         /\ Ensure(c.target).outstanding \in Int
         /\ c.target \in TargetState \cup {None}
<1>1. c.requests \in Seq(Request) /\ c.responses \in Seq(Message) /\ c.target \in TargetState \cup {None}
  BY SdkFields
<1>2. Len(c.requests) \in Nat
  BY <1>1
<1>3. Answers(c.responses) \in Nat
  BY <1>1, AnswersType
<1>4. Ensure(c.target).outstanding \in Int
  BY <1>1, EnsureFacts
<1>5. Owing(c) = Len(c.requests) + Answers(c.responses)
  BY DEF Owing
<1> QED
  BY <1>1, <1>2, <1>3, <1>4, <1>5

\* A request is counted when it is sent.
LEMMA WantsCount ==
  ASSUME Base, sdk' \in Sdk, Wants
  PROVE  /\ Owing(sdk') = Owing(sdk) + 1 /\ sdk'.requests # <<>>
         /\ Ensure(sdk'.target).outstanding = Ensure(sdk.target).outstanding + 1
<1>1. PICK type : Asks(sdk, sdk', type)
  BY DEF Wants
<1> DEFINE m == Msg(type, sdk.token)
<1>2. /\ m \in Request /\ sdk'.requests = Append(sdk.requests, m)
      /\ sdk'.responses = sdk.responses /\ sdk'.target # None
      /\ sdk'.target.outstanding = Ensure(sdk.target).outstanding + 1
  BY <1>1 DEF Asks
<1>3. sdk \in Sdk
  BY OthersTyped DEF Base
<1>4. /\ sdk.requests \in Seq(Request) /\ Len(sdk.requests) \in Nat
      /\ Answers(sdk.responses) \in Nat
      /\ Owing(sdk) = Len(sdk.requests) + Answers(sdk.responses)
      /\ Owing(sdk') = Len(sdk'.requests) + Answers(sdk'.responses)
      /\ sdk'.target \in TargetState \cup {None}
  BY <1>3, CountTyped
<1> HIDE DEF m
<1>5. Len(sdk'.requests) = Len(sdk.requests) + 1 /\ sdk'.requests # <<>>
  BY <1>2, <1>4, AppendAt
<1>6. Ensure(sdk'.target) = sdk'.target
  BY <1>2, <1>4, EnsureFacts
<1>7. Owing(sdk') = Owing(sdk) + 1
  <2>1. Answers(sdk'.responses) = Answers(sdk.responses)
    BY <1>2
  <2> QED
    BY <1>4, <1>5, <2>1
<1> QED
  BY <1>2, <1>5, <1>6, <1>7

\* A response that is sent was asked for.
LEMMA AnsweredCount ==
  ASSUME Base, Answered
  PROVE  /\ SameClient(sdk, sdk') /\ Owing(sdk') = Owing(sdk)
         /\ sdk.requests # <<>> /\ sdk.requests \in Seq(Request)
         /\ sdk'.requests = Tail(sdk.requests)
         /\ \E k \in DOMAIN sdk'.responses :
              k = Len(sdk'.responses) /\ IsResponse(sdk'.responses[k])
<1>1. PICK type \in {"added", "removed", "refused"} : AnswerStep(type)
  BY DEF Answered
<1> DEFINE m == Msg(type, 0)
<1>2. /\ SameClient(sdk, sdk') /\ m \in Message /\ m.type = type
      /\ sdk'.responses = Append(sdk.responses, m)
      /\ sdk.requests # <<>> /\ sdk'.requests = Tail(sdk.requests)
  BY <1>1 DEF AnswerStep
<1>3. IsResponse(m)
  BY <1>2 DEF IsResponse
<1>4. sdk \in Sdk /\ sdk' \in Sdk
  BY <1>2, OthersTyped DEF Base, SameClient
<1>5. /\ sdk.requests \in Seq(Request) /\ sdk.responses \in Seq(Message)
      /\ Len(sdk.requests) \in Nat
      /\ Owing(sdk) = Len(sdk.requests) + Answers(sdk.responses)
      /\ Owing(sdk') = Len(sdk'.requests) + Answers(sdk'.responses)
      /\ Answers(sdk.responses) \in Nat
  BY <1>4, CountTyped
<1> HIDE DEF m
<1>6. Len(sdk'.requests) = Len(sdk.requests) - 1
  BY <1>2, <1>5, TailAt
<1>7. Answers(sdk'.responses) = Answers(sdk.responses) + 1
  BY <1>2, <1>3, <1>5, AnswersAppend
<1>8. Owing(sdk') = Owing(sdk)
  BY <1>5, <1>6, <1>7
<1>9. /\ Len(sdk.responses) \in Nat /\ Len(sdk'.responses) = Len(sdk.responses) + 1
      /\ DOMAIN sdk'.responses = 1 .. Len(sdk.responses) + 1
      /\ sdk'.responses[Len(sdk.responses) + 1] = m
  BY <1>2, <1>5, AppendAt
<1>10. Len(sdk'.responses) \in DOMAIN sdk'.responses /\ IsResponse(sdk'.responses[Len(sdk'.responses)])
  BY <1>3, <1>9
<1> QED
  BY <1>2, <1>5, <1>8, <1>10

\* What the backend sends of its own accord is not counted.
LEMMA SendChangesCount ==
  ASSUME Base, SendChangesStep
  PROVE  SameClient(sdk, sdk') /\ sdk'.requests = sdk.requests /\ Owing(sdk') = Owing(sdk)
<1> DEFINE doc  == Msg("document", version)
           mark == Msg(IF serving.current THEN "nochange" ELSE "current", version)
           snap == Msg("snapshot", version)
           some == IF serving.sent < version THEN Append(sdk.responses, doc) ELSE sdk.responses
<1>1. /\ SameClient(sdk, sdk') /\ doc \in Message /\ mark \in Message /\ snap \in Message
      /\ mark.type \in {"current", "nochange"} /\ some \in Seq(Message)
      /\ sdk'.responses = Append(Append(some, mark), snap) /\ sdk'.requests = sdk.requests
  BY DEF SendChangesStep
<1>2. doc.type = "document" /\ snap.type = "snapshot"
  BY MessageTypes
<1>3. ~IsResponse(doc) /\ ~IsResponse(mark) /\ ~IsResponse(snap)
  BY <1>1, <1>2 DEF IsResponse
<1>4. sdk.responses \in Seq(Message)
  BY OthersTyped, SdkFields DEF Base
<1> HIDE DEF doc, mark, snap
<1>5. Answers(some) = Answers(sdk.responses)
  BY <1>1, <1>3, <1>4, AnswersAppend
<1> HIDE DEF some
<1>6. Answers(Append(some, mark)) = Answers(some) /\ Append(some, mark) \in Seq(Message)
  BY <1>1, <1>3, AnswersAppend
<1>7. Answers(sdk'.responses) = Answers(Append(some, mark))
  BY <1>1, <1>3, <1>6, AnswersAppend
<1> QED
  BY <1>1, <1>5, <1>6, <1>7 DEF Owing

\* The count as a message is received.
LEMMA ReceiveCount ==
  ASSUME Base, HeardIt, ReceiveStep
  PROVE  /\ sdk' \in Sdk /\ sdk'.requests = sdk.requests /\ sdk'.responses = Tail(sdk.responses)
         /\ Owing(sdk) = IF IsResponse(sdk.responses[1]) THEN Owing(sdk') + 1 ELSE Owing(sdk')
         /\ ~Listened(sdk) => ~Listened(sdk')
         /\ \/ Ensure(sdk'.target).outstanding =
                 IF IsResponse(sdk.responses[1]) THEN Ensure(sdk.target).outstanding - 1
                 ELSE Ensure(sdk.target).outstanding
            \/ /\ ~Listened(sdk') /\ sdk.responses[1].type = "refused"
               /\ Ensure(sdk'.target).outstanding \in {0, Ensure(sdk.target).outstanding}
<1> DEFINE m == sdk.responses[1]
           c == Heard
<1>0. c = Heard
  OBVIOUS
<1> HIDE DEF c
<1>1. /\ c \in Sdk /\ c.responses = Tail(sdk.responses) /\ c.requests = sdk.requests
      /\ c.target = sdk.target /\ c.listeners = sdk.listeners
  BY <1>0 DEF HeardIt, Told
<1>2. sdk \in Sdk /\ sdk.responses \in Seq(Message) /\ sdk.responses # <<>>
  BY OthersTyped, SdkFields DEF Base, ReceiveStep
<1>3. /\ sdk' \in Sdk /\ sdk'.requests = sdk.requests /\ sdk'.responses = Tail(sdk.responses)
      /\ ~Listened(sdk) => ~Listened(sdk')
      /\ \/ Ensure(sdk'.target).outstanding =
              IF IsResponse(m) THEN Ensure(sdk.target).outstanding - 1
              ELSE Ensure(sdk.target).outstanding
         \/ /\ ~Listened(sdk') /\ m.type = "refused"
            /\ Ensure(sdk'.target).outstanding \in {0, Ensure(sdk.target).outstanding}
  <2>1. CASE m.type \in {"added", "removed"} /\ Counts(c, sdk')
    BY <1>1, <2>1 DEF Counts, Gathers, Listened, IsResponse
  <2>2. CASE m.type = "refused" /\ Refuses(c, sdk')
    <3>1. sdk'.target \in TargetState \cup {None} /\ sdk'.target = None
      BY <2>2 DEF Refuses
    <3>2. Ensure(sdk'.target).outstanding = 0
      BY <3>1, EnsureFacts
    <3> QED
      BY <1>1, <2>2, <3>2 DEF Refuses, Listened
  <2>3. CASE m.type = "refused" /\ ~Listened(c) /\ sdk' = c
    BY <1>1, <2>3 DEF Listened
  <2>4. CASE m.type = "document" /\ Documents(c, sdk', m.version)
    BY <1>1, <2>4 DEF Documents, Gathers, Listened, IsResponse
  <2>5. CASE m.type \in {"current", "nochange"} /\ Marks(c, sdk', m.version)
    BY <1>1, <2>5 DEF Marks, Gathers, Listened, IsResponse
  <2>6. CASE m.type = "snapshot" /\ Stores(c, sdk')
    BY <1>1, <2>6 DEF Stores, Listened, IsResponse
  <2> QED
    BY <1>0, <2>1, <2>2, <2>3, <2>4, <2>5, <2>6 DEF ReceiveStep
<1>4. /\ Owing(sdk) = Len(sdk.requests) + Answers(sdk.responses)
      /\ Owing(sdk') = Len(sdk'.requests) + Answers(sdk'.responses)
      /\ Len(sdk.requests) \in Nat /\ Answers(sdk.responses) \in Nat
      /\ Answers(sdk'.responses) \in Nat
  BY <1>2, <1>3, CountTyped
<1>5. Answers(sdk.responses) = IF IsResponse(m) THEN Answers(Tail(sdk.responses)) + 1
                               ELSE Answers(Tail(sdk.responses))
  BY <1>2, AnswersTail
<1> HIDE DEF m
<1>6. Owing(sdk) = IF IsResponse(m) THEN Owing(sdk') + 1 ELSE Owing(sdk')
  <2>1. Answers(sdk'.responses) = Answers(Tail(sdk.responses)) /\ Len(sdk'.requests) = Len(sdk.requests)
    BY <1>3
  <2>2. CASE IsResponse(m)
    BY <1>4, <1>5, <2>1, <2>2
  <2>3. CASE ~IsResponse(m)
    BY <1>4, <1>5, <2>1, <2>3
  <2> QED
    BY <2>2, <2>3
<1> QED
  BY <1>3, <1>6 DEF m

\* Messages that are lost are not answers to be waited for; whoever has what
\* was counted knows that none was lost.
LEMMA BreakCount ==
  ASSUME Base, NEW n \in Nat, BreakStreamStep(n)
  PROVE  /\ SameClient(sdk, sdk') /\ sdk'.requests = sdk.requests
         /\ n \in 0 .. Len(sdk.responses) /\ Len(sdk.responses) \in Nat
         /\ DOMAIN sdk.responses = 1 .. Len(sdk.responses)
         /\ DOMAIN sdk'.responses = 1 .. n + 1 /\ sdk'.responses[n + 1].type = "closed"
         /\ \A k \in 1 .. n : sdk'.responses[k] = sdk.responses[k]
         /\ Owing(sdk') <= Owing(sdk)
         /\ Owing(sdk') = Owing(sdk) =>
              \A k \in DOMAIN sdk.responses : k > n => ~IsResponse(sdk.responses[k])
<1> DEFINE m   == Msg("closed", 0)
           sub == SubSeq(sdk.responses, 1, n)
<1>1. /\ SameClient(sdk, sdk') /\ n \in 0 .. Len(sdk.responses) /\ sub \in Seq(Message)
      /\ m \in Message /\ m.type = "closed" /\ sdk'.responses = Append(sub, m)
      /\ sdk'.requests = sdk.requests
  BY DEF BreakStreamStep
<1>2. sdk \in Sdk /\ sdk' \in Sdk
  BY <1>1, OthersTyped DEF Base, SameClient
<1>3. /\ sdk.responses \in Seq(Message) /\ Len(sdk.requests) \in Nat
      /\ Owing(sdk) = Len(sdk.requests) + Answers(sdk.responses)
      /\ Owing(sdk') = Len(sdk'.requests) + Answers(sdk'.responses)
      /\ Answers(sdk.responses) \in Nat /\ Answers(sdk'.responses) \in Nat
  BY <1>2, CountTyped
<1>4. /\ Len(sdk.responses) \in Nat /\ DOMAIN sdk.responses = 1 .. Len(sdk.responses)
      /\ Len(sub) = n /\ DOMAIN sub = 1 .. n /\ \A k \in DOMAIN sub : sub[k] = sdk.responses[k]
  <2> DEFINE s == sdk.responses
  <2>1. s \in Seq(Message) /\ n \in 0 .. Len(s)
    BY <1>1, <1>3
  <2> HIDE DEF s
  <2>2. Len(s) \in Nat /\ DOMAIN s = 1 .. Len(s)
    BY <2>1
  <2>3. /\ Len(SubSeq(s, 1, n)) = n /\ DOMAIN SubSeq(s, 1, n) = 1 .. n
        /\ \A k \in 1 .. n : SubSeq(s, 1, n)[k] = s[k]
    BY <2>1, <2>2
  <2> QED
    BY <2>2, <2>3 DEF s
<1>5. ~IsResponse(m)
  BY <1>1 DEF IsResponse
<1> HIDE DEF m, sub
<1>6. /\ Answers(sub) <= Answers(sdk.responses)
      /\ Answers(sub) = Answers(sdk.responses) =>
           \A k \in DOMAIN sdk.responses : k > n => ~IsResponse(sdk.responses[k])
  BY <1>1, <1>3, <1>4, AnswersPrefix
<1>7. Answers(sdk'.responses) = Answers(sub)
  BY <1>1, <1>5, AnswersAppend
<1>8. /\ DOMAIN sdk'.responses = 1 .. n + 1 /\ sdk'.responses[n + 1].type = "closed"
      /\ \A k \in 1 .. n : sdk'.responses[k] = sdk.responses[k]
  BY <1>1, <1>4, AppendAt
<1>9. Len(sdk'.requests) = Len(sdk.requests)
  BY <1>1
<1>10. /\ Owing(sdk') <= Owing(sdk)
       /\ Owing(sdk') = Owing(sdk) => Answers(sub) = Answers(sdk.responses)
  BY <1>3, <1>6, <1>7, <1>9
<1> QED
  BY <1>1, <1>4, <1>6, <1>8, <1>10

\* At the start nothing is asked for.
LEMMA CountInit == Init => CountInv
<1> SUFFICES ASSUME Init PROVE CountInv
  OBVIOUS
<1>1. sdk \in Sdk /\ sdk.target = None /\ sdk.requests = <<>> /\ sdk.responses = <<>>
  BY BaseInit, OthersTyped DEF Init, FreshSdk, Base
<1>2. /\ Owing(sdk) = Len(sdk.requests) + Answers(sdk.responses)
      /\ sdk.responses \in Seq(Message) /\ sdk.target \in TargetState \cup {None}
  BY <1>1, CountTyped
<1>3. Answers(sdk.responses) = 0
  BY <1>1, AnswersEmpty
<1>4. Ensure(sdk.target).outstanding = 0
  BY <1>1, <1>2, EnsureFacts
<1>5. Len(sdk.requests) = 0
  BY <1>1
<1> QED
  BY <1>2, <1>3, <1>4, <1>5 DEF CountInv

\* Unless a refusal has crossed another request, the aggregator waits for
\* every response that is asked for or under way.
LEMMA CountStep == Base /\ CountInv /\ [Next]_vars => CountInv'
<1> SUFFICES ASSUME Base, CountInv, [Next]_vars, ~crossed' PROVE CountInv'
  BY DEF CountInv
<1>1. sdk \in Sdk /\ sdk' \in Sdk
  BY BaseStep DEF Base, TypeOK
<1>2. /\ Owing(sdk) \in Nat /\ Ensure(sdk.target).outstanding \in Int
      /\ Owing(sdk') \in Nat /\ Ensure(sdk'.target).outstanding \in Int
      /\ Owing(sdk') = Len(sdk'.requests) + Answers(sdk'.responses)
      /\ sdk'.target \in TargetState \cup {None} /\ sdk'.responses \in Seq(Message)
  BY <1>1, CountTyped
<1>3. SUFFICES Ensure(sdk'.target).outstanding >= Owing(sdk')
  BY DEF CountInv, Owing, Answers
<1>4. ~crossed => Ensure(sdk.target).outstanding >= Owing(sdk)
  BY DEF CountInv
<1>5. CASE Quiet
  <2>1. /\ sdk'.target = sdk.target /\ sdk'.requests = sdk.requests
        /\ sdk'.responses = sdk.responses /\ crossed' = crossed
    BY <1>5 DEF Quiet, Rests
  <2>2. Owing(sdk') = Owing(sdk)
    BY <2>1 DEF Owing
  <2> QED
    BY <1>4, <2>1, <2>2
<1>6. CASE Idles
  <2>1. /\ sdk'.target \in {None, sdk.target} /\ sdk'.requests = <<>>
        /\ sdk'.responses = <<>> /\ crossed' = crossed
    BY <1>6 DEF Idles
  <2>2. Answers(sdk'.responses) = 0
    BY <2>1, AnswersEmpty
  <2>3. Owing(sdk') = 0
    BY <1>2, <2>1, <2>2
  <2>4. CASE sdk'.target = None
    BY <1>2, <2>3, <2>4, EnsureFacts
  <2>5. CASE sdk'.target = sdk.target
    BY <1>2, <1>4, <2>1, <2>3, <2>5
  <2> QED
    BY <2>1, <2>4, <2>5
<1>7. CASE Wants
  <2>1. /\ Owing(sdk') = Owing(sdk) + 1
        /\ Ensure(sdk'.target).outstanding = Ensure(sdk.target).outstanding + 1
    BY <1>1, <1>7, WantsCount
  <2>2. ~crossed
    BY <1>7 DEF Wants
  <2> QED
    BY <1>2, <1>4, <2>1, <2>2
<1>8. CASE Answered
  <2>1. sdk'.target = sdk.target /\ Owing(sdk') = Owing(sdk) /\ crossed' = crossed
    BY <1>8, AnsweredCount DEF SameClient, Answered, history
  <2> QED
    BY <1>4, <2>1
<1>9. CASE HeardIt /\ ReceiveStep
  <2> DEFINE m == sdk.responses[1]
             o == Ensure(sdk.target).outstanding
             p == Ensure(sdk'.target).outstanding
  <2>1. /\ Owing(sdk) = IF IsResponse(m) THEN Owing(sdk') + 1 ELSE Owing(sdk')
        /\ \/ p = IF IsResponse(m) THEN o - 1 ELSE o
           \/ m.type = "refused" /\ p \in {0, o}
    BY <1>9, ReceiveCount
  <2>2. ~crossed /\ (m.type = "refused" => o = 1)
    BY <1>9 DEF ReceiveStep
  <2>3. m.type = "refused" => IsResponse(m)
    BY DEF IsResponse
  <2>4. o >= Owing(sdk) /\ o \in Int /\ p \in Int
    BY <1>2, <1>4, <2>2
  <2> HIDE DEF m, o, p
  <2>5. CASE IsResponse(m)
    <3>1. Owing(sdk) = Owing(sdk') + 1 /\ (p = o - 1 \/ (o = 1 /\ p \in {0, o}))
      BY <2>1, <2>2, <2>5
    <3>2. p >= Owing(sdk')
      BY <1>2, <2>4, <3>1
    <3> QED
      BY <3>2 DEF p
  <2>6. CASE ~IsResponse(m)
    <3>1. Owing(sdk) = Owing(sdk') /\ p = o
      BY <2>1, <2>3, <2>6
    <3>2. p >= Owing(sdk')
      BY <2>4, <3>1
    <3> QED
      BY <3>2 DEF p
  <2> QED
    BY <2>5, <2>6
<1>10. CASE SendChangesStep
  <2>1. sdk'.target = sdk.target /\ Owing(sdk') = Owing(sdk) /\ crossed' = crossed
    BY <1>10, SendChangesCount DEF SameClient, SendChangesStep, history
  <2> QED
    BY <1>4, <2>1
<1>11. CASE BreaksSomewhere
  <2>1. PICK n \in Nat : BreakStreamStep(n)
    BY <1>11 DEF BreaksSomewhere
  <2>2. sdk'.target = sdk.target /\ Owing(sdk') <= Owing(sdk)
    BY <2>1, BreakCount DEF SameClient
  <2>3. ~crossed
    BY <2>1 DEF BreakStreamStep, history
  <2>4. Ensure(sdk'.target).outstanding = Ensure(sdk.target).outstanding
    BY <2>2
  <2> QED
    BY <1>2, <1>4, <2>2, <2>3, <2>4
<1>12. CASE OthersWrite
  <2>1. sdk' = sdk /\ ~crossed
    BY <1>12 DEF OthersWrite, history
  <2> QED
    BY <1>4, <2>1
<1> QED
  BY <1>5, <1>6, <1>7, <1>8, <1>9, <1>10, <1>11, <1>12, Shapes

-----------------------------------------------------------------------------
(* Messages of an earlier listen change nothing *)

\* A message that an active target receives belongs to its listen ...
LEMMA ActiveFresh ==
  ASSUME Base, CountInv, ~crossed, HeardIt, IsActive(Heard)
  PROVE  Fresh(sdk, 1)
<1>1. /\ Heard \in Sdk /\ Heard.target = sdk.target /\ Heard.listeners = sdk.listeners
  BY DEF HeardIt, Told
<1>2. Listened(Heard) /\ Ensure(Heard.target).outstanding = 0
  BY <1>1, IsActiveFacts
<1>3. sdk \in Sdk
  BY OthersTyped DEF Base
<1>4. /\ sdk.requests \in Seq(Request) /\ sdk.responses \in Seq(Message)
      /\ Owing(sdk) = Len(sdk.requests) + Answers(sdk.responses) /\ Owing(sdk) \in Nat
      /\ Len(sdk.requests) \in Nat /\ Answers(sdk.responses) \in Nat
  BY <1>3, CountTyped
<1>5. Ensure(sdk.target).outstanding = 0
  BY <1>1, <1>2
<1>6. 0 >= Owing(sdk)
  BY <1>5 DEF CountInv
<1>7. Len(sdk.requests) = 0 /\ Answers(sdk.responses) = 0 /\ Owing(sdk) = 0
  BY <1>4, <1>6
<1>8. sdk.requests = <<>>
  BY <1>4, <1>7
<1>9. \A j \in DOMAIN sdk.responses : ~IsResponse(sdk.responses[j])
  BY <1>4, <1>7, AnswersNone
<1> QED
  BY <1>1, <1>2, <1>5, <1>7, <1>8, <1>9 DEF Fresh, Listened

\* ... and one that belongs to its listen is received by an active target.
LEMMA FreshActive ==
  ASSUME Base, HeardIt, Fresh(sdk, 1)
  PROVE  IsActive(Heard)
<1>1. /\ Heard \in Sdk /\ Heard.target = sdk.target /\ Heard.listeners = sdk.listeners
  BY DEF HeardIt, Told
<1>2. sdk \in Sdk
  BY OthersTyped DEF Base
<1>3. /\ sdk.responses \in Seq(Message)
      /\ Owing(sdk) = Len(sdk.requests) + Answers(sdk.responses)
  BY <1>2, CountTyped
<1>4. /\ Listened(sdk) /\ sdk.requests = <<>> /\ Ensure(sdk.target).outstanding = Owing(sdk)
      /\ \A j \in DOMAIN sdk.responses : j >= 1 => ~IsResponse(sdk.responses[j])
  BY DEF Fresh
<1>5. \A j \in DOMAIN sdk.responses : j >= 1
  BY <1>3
<1>6. Answers(sdk.responses) = 0
  BY <1>3, <1>4, <1>5, AnswersNone
<1>7. Len(sdk.requests) = 0
  BY <1>4
<1>8. Ensure(sdk.target).outstanding = 0
  BY <1>3, <1>4, <1>6, <1>7
<1>9. Listened(Heard) /\ Ensure(Heard.target).outstanding = 0
  BY <1>1, <1>4, <1>8 DEF Listened
<1> QED
  BY <1>1, <1>9, IsActiveFacts

\* Messages move up as the first one is received.
LEMMA FreshReceive ==
  ASSUME Base, HeardIt, ReceiveStep, NEW i \in DOMAIN sdk'.responses, Fresh(sdk', i)
  PROVE  /\ i \in Nat /\ i >= 1 /\ i + 1 \in DOMAIN sdk.responses /\ Fresh(sdk, i + 1)
         /\ sdk'.responses[i] = sdk.responses[i + 1]
         /\ i > 1 => i - 1 \in DOMAIN sdk'.responses /\ sdk'.responses[i - 1] = sdk.responses[i]
         /\ i = 1 /\ ~IsResponse(sdk.responses[1]) => Fresh(sdk, 1)
<1> DEFINE m == sdk.responses[1]
           o == Ensure(sdk.target).outstanding
           p == Ensure(sdk'.target).outstanding
<1>1. /\ sdk' \in Sdk /\ sdk'.requests = sdk.requests /\ sdk'.responses = Tail(sdk.responses)
      /\ Owing(sdk) = IF IsResponse(m) THEN Owing(sdk') + 1 ELSE Owing(sdk')
      /\ ~Listened(sdk) => ~Listened(sdk')
      /\ \/ p = IF IsResponse(m) THEN o - 1 ELSE o
         \/ ~Listened(sdk')
  BY ReceiveCount
<1>2. /\ Listened(sdk') /\ sdk'.requests = <<>> /\ p = Owing(sdk')
      /\ \A j \in DOMAIN sdk'.responses : j >= i => ~IsResponse(sdk'.responses[j])
  BY DEF Fresh
<1>3. sdk \in Sdk /\ sdk.responses \in Seq(Message) /\ sdk.responses # <<>>
  BY OthersTyped, SdkFields DEF Base, ReceiveStep
<1>4. Owing(sdk) \in Nat /\ Owing(sdk') \in Nat /\ o \in Int /\ p \in Int
  BY <1>1, <1>3, CountTyped
<1>5. Listened(sdk) /\ sdk.requests = <<>>
  BY <1>1, <1>2
<1>6. o = Owing(sdk)
  <2>1. p = IF IsResponse(m) THEN o - 1 ELSE o
    BY <1>1, <1>2
  <2>2. Owing(sdk) = IF IsResponse(m) THEN Owing(sdk') + 1 ELSE Owing(sdk')
    BY <1>1
  <2>3. p = Owing(sdk')
    BY <1>2
  <2> HIDE DEF m, o, p
  <2> QED
    BY <1>4, <2>1, <2>2, <2>3
<1>7. /\ Len(sdk.responses) \in Nat /\ DOMAIN sdk.responses = 1 .. Len(sdk.responses)
      /\ DOMAIN Tail(sdk.responses) = 1 .. Len(sdk.responses) - 1
      /\ \A k \in DOMAIN Tail(sdk.responses) :
           k + 1 \in DOMAIN sdk.responses /\ Tail(sdk.responses)[k] = sdk.responses[k + 1]
  BY <1>3, TailAt
<1> HIDE DEF m, o, p
<1>8. i \in Nat /\ i >= 1 /\ i <= Len(sdk.responses) - 1
  BY <1>1, <1>7
<1>9. i + 1 \in DOMAIN sdk.responses /\ sdk'.responses[i] = sdk.responses[i + 1]
  BY <1>1, <1>7
<1>10. ASSUME i > 1
       PROVE  i - 1 \in DOMAIN sdk'.responses /\ sdk'.responses[i - 1] = sdk.responses[i]
  <2>1. i - 1 \in DOMAIN Tail(sdk.responses) /\ (i - 1) + 1 = i
    BY <1>7, <1>8, <1>10
  <2> QED
    BY <1>1, <1>7, <2>1
<1>11. \A j \in DOMAIN sdk.responses : j >= i + 1 => ~IsResponse(sdk.responses[j])
  <2> SUFFICES ASSUME NEW j \in DOMAIN sdk.responses, j >= i + 1
               PROVE  ~IsResponse(sdk.responses[j])
    OBVIOUS
  <2>1. j - 1 \in DOMAIN Tail(sdk.responses) /\ (j - 1) + 1 = j /\ j - 1 >= i
    BY <1>7, <1>8
  <2>2. sdk'.responses[j - 1] = sdk.responses[j]
    BY <1>1, <1>7, <2>1
  <2> QED
    BY <1>1, <1>2, <2>1, <2>2
<1>12. Fresh(sdk, i + 1)
  BY <1>5, <1>6, <1>11 DEF Fresh, o
<1>13. ASSUME i = 1, ~IsResponse(m) PROVE Fresh(sdk, 1)
  <2>1. \A j \in DOMAIN sdk.responses : j = 1 \/ j >= i + 1
    BY <1>7, <1>13
  <2>2. \A j \in DOMAIN sdk.responses : ~IsResponse(sdk.responses[j])
    BY <1>11, <1>13, <2>1 DEF m
  <2> QED
    BY <1>5, <1>6, <2>2 DEF Fresh, o
<1> QED
  BY <1>8, <1>9, <1>10, <1>12, <1>13 DEF m

\* What the messages under way say stays true as the first one is received.
LEMMA FreshMessagesReceive ==
  ASSUME Base, DocumentInv, HeardIt, ReceiveStep, FreshMessages
  PROVE  FreshMessages'
<1> DEFINE m == sdk.responses[1]
           g == Gathered(sdk)
           h == Gathered(sdk')
           s == sdk.responses
           t == sdk'.responses
<1>1. /\ sdk' \in Sdk /\ s # <<>> /\ s \in Seq(Message)
      /\ listenedAt' = listenedAt /\ g <= h
      /\ h = g \/ (IsDocument(m) /\ h = m.version)
  BY GatheredReceive
<1>2. sdk \in Sdk /\ listenedAt \in Int
  BY OthersTyped, BoundsAssumption DEF Base, Versions
<1>3. g \in Int /\ h \in Int
  BY <1>1, <1>2, GatheredTyped
<1> SUFFICES ASSUME NEW i \in DOMAIN t, Fresh(sdk', i)
             PROVE  InPlace(t, h, listenedAt, i)
  BY <1>1 DEF FreshMessages, Fresh, Gathered
<1>4. /\ i \in Nat /\ i >= 1 /\ i + 1 \in DOMAIN s /\ Fresh(sdk, i + 1) /\ t[i] = s[i + 1]
      /\ i > 1 => i - 1 \in DOMAIN t /\ t[i - 1] = s[i]
      /\ i = 1 /\ ~IsResponse(m) => Fresh(sdk, 1)
  BY FreshReceive
<1>5. InPlace(s, g, listenedAt, i + 1)
  BY <1>4 DEF FreshMessages
<1>6. 1 \in DOMAIN s /\ m \in Message /\ m.version \in Int /\ t[i].version \in Int
  <2>1. 1 \in DOMAIN s
    BY <1>1, TailAt
  <2> QED
    BY <1>1, <1>4, <2>1, VersionTyped
<1>7. (i + 1) - 1 = i /\ i + 1 > 1 /\ i + 1 # 1
  BY <1>4
<1>8. IsMark(t[i]) =>
        /\ t[i].version >= listenedAt
        /\ t[i].version <= g \/ (IsDocument(s[i]) /\ s[i].version = t[i].version)
  BY <1>4, <1>5, <1>7 DEF InPlace
<1>9. IsSnapshot(t[i]) => IsMark(s[i])
  BY <1>4, <1>5, <1>7 DEF InPlace
<1>10. ASSUME i = 1, IsDocument(m) PROVE h = m.version
  <2>1. ~IsResponse(m)
    BY <1>10 DEF IsDocument, IsResponse
  <2>2. IsActive(Heard)
    BY <1>4, <1>10, <2>1, FreshActive
  <2>3. Documents(Heard, sdk', m.version)
    BY <1>10 DEF IsDocument, ReceiveStep
  <2>4. sdk'.document = m.version /\ sdk'.cache = sdk.cache
    BY <2>2, <2>3 DEF Documents, Gathers, HeardIt, Told
  <2>5. g <= m.version /\ sdk.cache <= g
    BY <1>6, <1>10 DEF DocumentInv, DocumentsOk
  <2>6. sdk.cache \in Int /\ sdk.cache >= 0
    BY <1>2, GatheredTyped
  <2> QED
    BY <1>3, <1>6, <2>4, <2>5, <2>6 DEF Gathered
<1>11. ASSUME i = 1, IsMark(m) PROVE h >= listenedAt
  <2>1. ~IsResponse(m) /\ ~IsDocument(m)
    BY <1>11 DEF IsMark, IsResponse, IsDocument
  <2>2. Fresh(sdk, 1)
    BY <1>4, <1>11, <2>1
  <2>3. InPlace(s, g, listenedAt, 1)
    BY <1>6, <2>2 DEF FreshMessages
  <2>4. m.version >= listenedAt /\ m.version <= g
    BY <1>11, <2>3 DEF InPlace
  <2> QED
    BY <1>1, <1>2, <1>3, <1>6, <2>4
<1> HIDE DEF g, h, s, t, m
<1>12. ASSUME IsMark(t[i])
       PROVE  /\ t[i].version >= listenedAt
              /\ \/ t[i].version <= h
                 \/ i > 1 /\ IsDocument(t[i - 1]) /\ t[i - 1].version = t[i].version
  <2>1. CASE t[i].version <= g
    BY <1>1, <1>3, <1>6, <1>8, <1>12, <2>1
  <2>2. CASE IsDocument(s[i]) /\ s[i].version = t[i].version /\ i > 1
    BY <1>4, <1>8, <1>12, <2>2
  <2>3. CASE IsDocument(s[i]) /\ s[i].version = t[i].version /\ i = 1
    <3>1. h = t[i].version
      BY <1>10, <2>3 DEF m, s
    <3> QED
      BY <1>3, <1>8, <1>12, <3>1
  <2> QED
    BY <1>4, <1>8, <1>12, <2>1, <2>2, <2>3
<1>13. ASSUME IsSnapshot(t[i])
       PROVE  IF i = 1 THEN h >= listenedAt ELSE IsMark(t[i - 1])
  <2>1. CASE i = 1
    <3>1. h >= listenedAt
      BY <1>9, <1>11, <1>13, <2>1 DEF m, s
    <3> QED
      BY <2>1, <3>1
  <2>2. CASE i # 1
    BY <1>4, <1>9, <1>13, <2>2
  <2> QED
    BY <2>1, <2>2
<1> QED
  BY <1>12, <1>13 DEF InPlace

\* The backend's own messages come in their order, behind those under way.
LEMMA FreshMessagesSend ==
  ASSUME Base, DocumentInv, SendChangesStep, FreshMessages, TokensCovered
  PROVE  FreshMessages'
<1> DEFINE doc  == Msg("document", version)
           mark == Msg(IF serving.current THEN "nochange" ELSE "current", version)
           snap == Msg("snapshot", version)
           s    == sdk.responses
           some == IF serving.sent < version THEN Append(s, doc) ELSE s
           near == Append(some, mark)
           t    == sdk'.responses
           g    == Gathered(sdk)
           n    == Len(some)
<1>1. /\ SameClient(sdk, sdk') /\ doc \in Message /\ mark \in Message /\ snap \in Message
      /\ serving # None /\ (serving.current => serving.sent < version)
      /\ mark.type \in {"current", "nochange"} /\ some \in Seq(Message)
      /\ t = Append(near, snap) /\ listenedAt' = listenedAt
  BY DEF SendChangesStep, history
<1>2. /\ doc.type = "document" /\ doc.version = version /\ snap.type = "snapshot"
      /\ mark.version = version
  BY MessageTypes
<1>3. IsDocument(doc) /\ IsMark(mark) /\ ~IsMark(doc) /\ ~IsSnapshot(doc) /\ ~IsSnapshot(mark)
      /\ ~IsMark(snap)
  BY <1>1, <1>2 DEF IsDocument, IsMark, IsSnapshot
<1>4. /\ sdk \in Sdk /\ s \in Seq(Message) /\ version \in Int /\ listenedAt \in Int
      /\ serving.sent \in Int
  <2>1. /\ sdk \in Sdk /\ version \in Versions /\ listenedAt \in Versions
        /\ serving \in Serving \cup {None}
    BY OthersTyped DEF Base
  <2>2. serving.sent \in Versions
    BY <1>1, <2>1 DEF Serving
  <2>3. \A v \in Versions : v \in Int
    BY BoundsAssumption DEF Versions
  <2> QED
    BY <2>1, <2>2, <2>3, SdkFields
<1>5. g \in Int /\ sdk.cache \in Int
  BY <1>4, GatheredTyped
<1>6. listenedAt <= version /\ sdk.cache <= g
  BY DEF DocumentInv
<1>7. serving.sent < version \/ version <= g
  <2>1. ASSUME ~ (serving.sent < version) PROVE version <= g
    <3>1. ~serving.current
      BY <1>1, <2>1
    <3>2. serving.sent <= sdk.cache
      BY <1>1, <3>1 DEF TokensCovered
    <3> QED
      BY <1>4, <1>5, <1>6, <2>1, <3>2
  <2> QED
    BY <2>1
<1> HIDE DEF doc, mark, snap, g
<1>8. /\ n \in Nat /\ Len(s) \in Nat /\ DOMAIN s = 1 .. Len(s) /\ DOMAIN some = 1 .. n
      /\ n >= Len(s) /\ \A k \in DOMAIN s : some[k] = s[k]
      /\ n = Len(s) \/ (n = Len(s) + 1 /\ some[n] = doc)
      /\ serving.sent < version => n = Len(s) + 1 /\ some[n] = doc
  <2>1. CASE serving.sent < version
    <3>1. some = Append(s, doc)
      BY <2>1
    <3>2. /\ Len(s) \in Nat /\ DOMAIN s = 1 .. Len(s) /\ Len(Append(s, doc)) = Len(s) + 1
          /\ DOMAIN Append(s, doc) = 1 .. Len(s) + 1 /\ Append(s, doc)[Len(s) + 1] = doc
          /\ \A k \in DOMAIN s : Append(s, doc)[k] = s[k]
      BY <1>1, <1>4, AppendAt
    <3> HIDE DEF some, s
    <3>3. n = Len(s) + 1 /\ DOMAIN some = 1 .. Len(s) + 1 /\ some[Len(s) + 1] = doc
          /\ \A k \in DOMAIN s : some[k] = s[k]
      BY <3>1, <3>2
    <3> HIDE DEF n
    <3>4. n \in Nat /\ n >= Len(s)
      BY <3>2, <3>3
    <3> QED
      BY <3>2, <3>3, <3>4
  <2>2. CASE ~ (serving.sent < version)
    <3>1. some = s
      BY <2>2
    <3>2. Len(s) \in Nat /\ DOMAIN s = 1 .. Len(s)
      BY <1>4
    <3> HIDE DEF some, s
    <3>3. n = Len(s) /\ DOMAIN some = 1 .. Len(s) /\ \A k \in DOMAIN s : some[k] = s[k]
      BY <3>1, <3>2
    <3> HIDE DEF n
    <3>4. n \in Nat /\ n >= Len(s) /\ DOMAIN some = 1 .. n
      BY <3>2, <3>3
    <3>5. serving.sent < version => n = Len(s) + 1 /\ some[n] = doc
      BY <2>2
    <3>6. n = Len(s) \/ (n = Len(s) + 1 /\ some[n] = doc)
      BY <3>3
    <3>7. \A k \in DOMAIN s : some[k] = s[k]
      BY <3>3
    <3> QED
      BY <3>2, <3>4, <3>5, <3>6, <3>7, Zenon
  <2> QED
    BY <2>1, <2>2
<1> HIDE DEF some
<1>9. /\ near \in Seq(Message) /\ Len(near) = n + 1 /\ DOMAIN near = 1 .. n + 1
      /\ near[n + 1] = mark /\ \A k \in 1 .. n : near[k] = some[k]
  <2>1. /\ near \in Seq(Message) /\ Len(near) = Len(some) + 1
        /\ DOMAIN near = 1 .. Len(some) + 1 /\ near[Len(some) + 1] = mark
        /\ \A k \in DOMAIN some : near[k] = some[k]
    BY <1>1, AppendAt
  <2>2. n = Len(some)
    OBVIOUS
  <2> HIDE DEF near, n
  <2>3. n \in Nat /\ DOMAIN some = 1 .. n
    BY <1>8
  <2> QED
    BY <2>1, <2>2, <2>3
<1> HIDE DEF near, n
<1>10. /\ DOMAIN t = 1 .. n + 2 /\ t[n + 2] = snap /\ \A k \in 1 .. n + 1 : t[k] = near[k]
  <2>1. /\ DOMAIN Append(near, snap) = 1 .. Len(near) + 1
        /\ Append(near, snap)[Len(near) + 1] = snap
        /\ DOMAIN near = 1 .. Len(near)
        /\ \A k \in DOMAIN near : Append(near, snap)[k] = near[k]
    BY <1>1, <1>9, AppendAt
  <2>2. Len(near) + 1 = n + 2
    BY <1>8, <1>9
  <2> HIDE DEF t
  <2> QED
    BY <1>1, <1>9, <2>1, <2>2
<1>11. t[n + 1] = mark /\ \A k \in 1 .. n : t[k] = some[k]
  BY <1>8, <1>9, <1>10
<1>12. \A k \in DOMAIN s : k \in DOMAIN t /\ t[k] = s[k]
  BY <1>8, <1>10, <1>11
<1>13. /\ sdk'.listeners = sdk.listeners /\ sdk'.target = sdk.target /\ sdk'.requests = sdk.requests
       /\ Owing(sdk') = Owing(sdk) /\ sdk'.document = sdk.document /\ sdk'.cache = sdk.cache
  BY <1>1, SendChangesCount DEF SameClient
<1>14. Gathered(sdk') = g
  BY <1>13 DEF Gathered, g
<1> SUFFICES ASSUME NEW i \in DOMAIN t, Fresh(sdk', i)
             PROVE  InPlace(t, g, listenedAt, i)
  BY <1>1, <1>14 DEF FreshMessages, Fresh, Gathered
<1>15. CASE i \in DOMAIN s
  <2>1. \A j \in DOMAIN t : j >= i => ~IsResponse(t[j])
    BY DEF Fresh
  <2>2. Fresh(sdk, i)
    BY <1>12, <1>13, <2>1 DEF Fresh, Listened
  <2>3. InPlace(s, g, listenedAt, i)
    BY <1>15, <2>2 DEF FreshMessages, g
  <2>4. t[i] = s[i] /\ (i > 1 => i - 1 \in DOMAIN s /\ t[i - 1] = s[i - 1])
    <3>1. i > 1 => i - 1 \in DOMAIN s
      BY <1>8, <1>15
    <3> QED
      BY <1>12, <1>15, <3>1
  <2>5. i = 1 \/ i > 1
    BY <1>8, <1>15
  <2> QED
    BY <2>3, <2>4, <2>5 DEF InPlace
<1>16. CASE i = n /\ i \notin DOMAIN s
  <2>1. n # Len(s) /\ n \in 1 .. n
    BY <1>8, <1>10, <1>16
  <2>2. t[i] = doc
    BY <1>8, <1>11, <1>16, <2>1
  <2> QED
    BY <1>3, <2>2 DEF InPlace
<1>17. CASE i = n + 1
  <2>1. t[i] = mark
    BY <1>11, <1>17
  <2>2. version >= listenedAt
    BY <1>4, <1>6
  <2>3. \/ version <= g
        \/ i > 1 /\ IsDocument(t[i - 1]) /\ t[i - 1].version = version
    <3>1. ASSUME serving.sent < version
          PROVE  i > 1 /\ IsDocument(t[i - 1]) /\ t[i - 1].version = version
      <4>1. n = Len(s) + 1 /\ some[n] = doc
        BY <1>8, <3>1
      <4>2. i > 1 /\ i - 1 = n /\ n \in 1 .. n
        BY <1>8, <1>17, <4>1
      <4>3. t[i - 1] = doc
        BY <1>11, <4>1, <4>2
      <4> QED
        BY <1>2, <1>3, <4>2, <4>3
    <3> QED
      BY <1>7, <3>1
  <2> QED
    BY <1>2, <1>3, <2>1, <2>2, <2>3 DEF InPlace
<1>18. CASE i = n + 2
  <2>1. t[i] = snap /\ i # 1 /\ i - 1 = n + 1
    BY <1>8, <1>10, <1>18
  <2>2. IsMark(t[i - 1])
    BY <1>3, <1>11, <2>1
  <2> QED
    BY <1>3, <2>1, <2>2 DEF InPlace
<1>19. i \in DOMAIN s \/ i = n \/ i = n + 1 \/ i = n + 2
  <2> DEFINE l == Len(s)
  <2>1. i \in 1 .. n + 2 /\ n \in Nat /\ l \in Nat /\ (n = l \/ n = l + 1)
    BY <1>8, <1>10
  <2>2. DOMAIN s = 1 .. l
    BY <1>8
  <2> HIDE DEF s, t, l
  <2>3. i \in 1 .. l \/ i = n \/ i = n + 1 \/ i = n + 2
    BY <2>1
  <2> QED
    BY <2>2, <2>3
<1> QED
  BY <1>15, <1>16, <1>17, <1>18, <1>19

\* When the connection breaks, a message whose listen has no response to come
\* is one behind which none was lost.
LEMMA FreshMessagesBreak ==
  ASSUME Base, CountInv, ~crossed, NEW n \in Nat, BreakStreamStep(n), FreshMessages
  PROVE  FreshMessages'
<1> DEFINE s == sdk.responses
           t == sdk'.responses
           g == Gathered(sdk)
<1>1. /\ SameClient(sdk, sdk') /\ sdk'.requests = sdk.requests
      /\ n \in 0 .. Len(s) /\ Len(s) \in Nat /\ DOMAIN s = 1 .. Len(s)
      /\ DOMAIN t = 1 .. n + 1 /\ t[n + 1].type = "closed"
      /\ \A k \in 1 .. n : t[k] = s[k]
      /\ Owing(sdk') <= Owing(sdk)
      /\ Owing(sdk') = Owing(sdk) => \A k \in DOMAIN s : k > n => ~IsResponse(s[k])
  BY BreakCount
<1>2. /\ sdk'.listeners = sdk.listeners /\ sdk'.target = sdk.target
      /\ sdk'.document = sdk.document /\ sdk'.cache = sdk.cache /\ sdk' \in Sdk
      /\ listenedAt' = listenedAt
  BY <1>1 DEF SameClient, BreakStreamStep, history
<1>3. Gathered(sdk') = g
  BY <1>2 DEF Gathered
<1>4. sdk \in Sdk
  BY OthersTyped DEF Base
<1>5. Owing(sdk) \in Nat /\ Owing(sdk') \in Nat /\ Ensure(sdk.target).outstanding \in Int
  BY <1>2, <1>4, CountTyped
<1> SUFFICES ASSUME NEW i \in DOMAIN t, Fresh(sdk', i)
             PROVE  InPlace(t, g, listenedAt, i)
  BY <1>2, <1>3 DEF FreshMessages, Fresh, Gathered
<1>6. /\ Listened(sdk') /\ sdk'.requests = <<>> /\ Ensure(sdk'.target).outstanding = Owing(sdk')
      /\ \A j \in DOMAIN t : j >= i => ~IsResponse(t[j])
  BY DEF Fresh
<1>7. Ensure(sdk.target).outstanding = Owing(sdk')
  BY <1>2, <1>6
<1>8. Owing(sdk') = Owing(sdk)
  <2>1. Ensure(sdk.target).outstanding >= Owing(sdk)
    BY DEF CountInv
  <2>2. Owing(sdk') <= Owing(sdk)
    BY <1>1
  <2> QED
    BY <1>5, <1>7, <2>1, <2>2
<1>9. CASE i = n + 1
  BY <1>1, <1>9 DEF InPlace, IsMark, IsSnapshot
<1>10. CASE i \in 1 .. n
  <2>1. \A j \in DOMAIN s : j >= i => ~IsResponse(s[j])
    <3> SUFFICES ASSUME NEW j \in DOMAIN s, j >= i PROVE ~IsResponse(s[j])
      OBVIOUS
    <3>1. CASE j > n
      BY <1>1, <1>8, <3>1
    <3>2. CASE ~ (j > n)
      <4>1. j \in 1 .. n /\ j \in DOMAIN t
        BY <1>1, <3>2
      <4> QED
        BY <1>1, <1>6, <4>1
    <3> QED
      BY <3>1, <3>2
  <2>2. Fresh(sdk, i)
    BY <1>1, <1>2, <1>6, <1>7, <1>8, <2>1 DEF Fresh, Listened
  <2>3. i \in DOMAIN s /\ t[i] = s[i] /\ (i = 1 \/ i > 1)
        /\ (i > 1 => i - 1 \in DOMAIN s /\ t[i - 1] = s[i - 1])
    <3>1. i \in DOMAIN s /\ (i = 1 \/ i > 1) /\ (i > 1 => i - 1 \in 1 .. n /\ i - 1 \in DOMAIN s)
      BY <1>1, <1>10
    <3> QED
      BY <1>1, <1>10, <3>1
  <2>4. InPlace(s, g, listenedAt, i)
    BY <2>2, <2>3 DEF FreshMessages
  <2> QED
    BY <2>3, <2>4 DEF InPlace
<1>11. i = n + 1 \/ i \in 1 .. n
  BY <1>1
<1> QED
  BY <1>9, <1>10, <1>11

\* A refusal that has crossed another request is not forgotten.
LEMMA CrossedKept ==
  ASSUME Base, [Next]_vars, ~crossed'
  PROVE  ~crossed
<1>1. CASE Quiet \/ Idles \/ Wants
  BY <1>1 DEF Quiet, Idles, Wants
<1>2. CASE Answered
  BY <1>2 DEF Answered, history
<1>3. CASE ReceiveStep
  BY <1>3 DEF ReceiveStep
<1>4. CASE SendChangesStep
  BY <1>4 DEF SendChangesStep, history
<1>5. CASE BreaksSomewhere
  BY <1>5 DEF BreaksSomewhere, BreakStreamStep, history
<1>6. CASE OthersWrite
  BY <1>6 DEF OthersWrite, history
<1> QED
  BY <1>1, <1>2, <1>3, <1>4, <1>5, <1>6, Shapes

\* The messages under way, whatever the step.
LEMMA FreshMessagesStep ==
  ASSUME Base, DocumentInv, CountInv, FreshMessages, TokensCovered, [Next]_vars, ~crossed'
  PROVE  FreshMessages'
<1>0. ~crossed
  BY CrossedKept
<1>1. sdk' \in Sdk
  BY BaseStep DEF Base, TypeOK
<1>2. CASE Quiet
  <2>1. /\ sdk'.target = sdk.target /\ sdk'.requests = sdk.requests
        /\ sdk'.responses = sdk.responses /\ sdk'.document = sdk.document
        /\ sdk'.cache = sdk.cache /\ listenedAt' = listenedAt
        /\ Listened(sdk') => Listened(sdk)
    BY <1>2 DEF Quiet, Rests
  <2>2. Gathered(sdk') = Gathered(sdk) /\ Owing(sdk') = Owing(sdk)
    BY <2>1 DEF Gathered, Owing
  <2> SUFFICES ASSUME NEW i \in DOMAIN sdk'.responses, Fresh(sdk', i)
               PROVE  InPlace(sdk'.responses, Gathered(sdk'), listenedAt', i)
    BY DEF FreshMessages, Fresh, Gathered
  <2>3. Fresh(sdk, i)
    BY <2>1, <2>2 DEF Fresh
  <2> QED
    BY <2>1, <2>2, <2>3 DEF FreshMessages
<1>3. CASE Idles
  BY <1>3 DEF Idles, FreshMessages
<1>4. CASE Wants
  <2>1. sdk'.requests # <<>>
    BY <1>1, <1>4, WantsCount
  <2> QED
    BY <2>1 DEF FreshMessages, Fresh
<1>5. CASE Answered
  <2>1. PICK k \in DOMAIN sdk'.responses :
          k = Len(sdk'.responses) /\ IsResponse(sdk'.responses[k])
    BY <1>5, AnsweredCount
  <2>2. sdk'.responses \in Seq(Message)
    BY <1>1, SdkFields
  <2>3. \A i \in DOMAIN sdk'.responses : k >= i
    BY <2>1, <2>2
  <2> QED
    BY <2>1, <2>3 DEF FreshMessages, Fresh
<1>6. CASE HeardIt /\ ReceiveStep
  BY <1>6, FreshMessagesReceive
<1>7. CASE SendChangesStep
  BY <1>7, FreshMessagesSend
<1>8. CASE BreaksSomewhere
  BY <1>0, <1>8, FreshMessagesBreak DEF BreaksSomewhere
<1>9. CASE OthersWrite
  <2>1. sdk' = sdk /\ listenedAt' = listenedAt
    BY <1>9 DEF OthersWrite, history
  <2> QED
    BY <2>1 DEF FreshMessages
<1> QED
  BY <1>2, <1>3, <1>4, <1>5, <1>6, <1>7, <1>8, <1>9, Shapes

\* What the device says it has, it has: as a message is received.
LEMMA TokensReceive ==
  ASSUME Base, DocumentInv, CountInv, ~crossed, FreshMessages, TokensCovered,
         HeardIt, ReceiveStep
  PROVE  TokensCovered'
<1> DEFINE m == sdk.responses[1]
           c == Heard
           g == Gathered(sdk)
           h == Gathered(sdk')
<1>0. c = Heard
  OBVIOUS
<1>1. /\ sdk' \in Sdk /\ sdk'.requests = sdk.requests /\ sdk.responses # <<>>
      /\ sdk.responses \in Seq(Message) /\ serving' = serving
      /\ sdk.cache <= sdk'.cache /\ g <= h
  BY GatheredReceive
<1>2. sdk \in Sdk
  BY OthersTyped DEF Base
<1>3. g \in Int /\ h \in Int /\ sdk.cache \in Int /\ sdk'.cache \in Int /\ sdk.token \in Int
  BY <1>1, <1>2, GatheredTyped
<1>4. /\ sdk.token <= sdk.cache /\ sdk.cache <= g
      /\ \A i \in DOMAIN sdk.requests : sdk.requests[i].version <= sdk.cache
      /\ serving # None /\ ~serving.current => serving.sent <= sdk.cache
      /\ sdk.target # None => sdk.target.token <= g
  BY DEF TokensCovered, DocumentInv
<1>5. /\ c \in Sdk /\ c.target = sdk.target /\ c.cache = sdk.cache /\ c.token = sdk.token
      /\ Gathered(c) = g
  BY DEF HeardIt, Told, Gathered
<1>6. \A v \in Versions : v \in Int /\ v >= 0
  BY BoundsAssumption DEF Versions
<1>7. /\ sdk.target \in TargetState \cup {None} /\ Ensure(sdk.target).token \in Int
      /\ Ensure(sdk.target).token <= g
  <2>1. sdk.target \in TargetState \cup {None}
    BY <1>2, SdkFields
  <2>2. /\ Ensure(sdk.target).token \in Versions
        /\ sdk.target # None => Ensure(sdk.target) = sdk.target
        /\ sdk.target = None => Ensure(sdk.target).token = 0
    BY <2>1, EnsureFacts
  <2>3. 0 <= g
    BY <1>2, <1>3, <1>4, GatheredTyped
  <2> QED
    BY <1>4, <1>6, <2>1, <2>2, <2>3
<1>8. 1 \in DOMAIN sdk.responses
  BY <1>1, TailAt
<1> HIDE DEF c, g, h
<1>9. /\ sdk'.token <= sdk'.cache
      /\ sdk'.target # None => sdk'.target.token <= h
  <2>1. CASE Counts(c, sdk')
    <3>1. /\ sdk'.token = sdk.token
          /\ sdk'.target # None => sdk'.target.token = Ensure(sdk.target).token
      BY <1>5, <2>1 DEF Counts, Gathers
    <3> QED
      BY <1>1, <1>3, <1>4, <1>7, <3>1
  <2>2. CASE Refuses(c, sdk')
    <3>1. sdk'.token = sdk.token /\ sdk'.target = None
      BY <1>5, <2>2 DEF Refuses
    <3> QED
      BY <1>1, <1>3, <1>4, <3>1
  <2>3. CASE sdk' = c
    <3>1. /\ sdk'.token = sdk.token /\ sdk'.target = sdk.target
          /\ sdk.target # None => sdk.target = Ensure(sdk.target)
      BY <1>5, <1>7, <2>3, EnsureFacts
    <3>2. sdk'.target # None => sdk'.target.token = Ensure(sdk.target).token
      BY <3>1
    <3> QED
      BY <1>1, <1>3, <1>4, <1>7, <3>1, <3>2
  <2>4. CASE Documents(c, sdk', m.version)
    <3>1. /\ sdk'.token = sdk.token
          /\ sdk'.target # None => sdk'.target.token = Ensure(sdk.target).token
      BY <1>5, <2>4 DEF Documents, Gathers
    <3> QED
      BY <1>1, <1>3, <1>4, <1>7, <3>1
  <2>5. CASE IsMark(m) /\ Marks(c, sdk', m.version)
    <3>1. /\ sdk'.token = sdk.token
          /\ sdk'.target # None =>
               sdk'.target.token = IF IsActive(c) THEN m.version ELSE Ensure(sdk.target).token
      BY <1>5, <2>5 DEF Marks, Gathers
    <3>2. IsActive(c) => m.version <= g
      <4>1. ASSUME IsActive(c) PROVE m.version <= g
        <5>1. Fresh(sdk, 1)
          BY <1>0, <4>1, ActiveFresh
        <5>2. InPlace(sdk.responses, g, listenedAt, 1)
          BY <1>8, <5>1 DEF FreshMessages, g
        <5> QED
          BY <2>5, <5>2 DEF InPlace
      <4> QED
        BY <4>1
    <3>3. m.version \in Int
      BY <1>1, <1>8, VersionTyped
    <3>4. CASE IsActive(c)
      BY <1>1, <1>3, <1>4, <3>1, <3>2, <3>3, <3>4
    <3>5. CASE ~IsActive(c)
      BY <1>1, <1>3, <1>4, <1>7, <3>1, <3>5
    <3> QED
      BY <3>4, <3>5
  <2>6. CASE Stores(c, sdk')
    <3>1. /\ sdk'.cache = g /\ (sdk'.target # None => sdk.target # None /\ sdk'.target.token = sdk.target.token)
          /\ (sdk'.token = sdk.token \/ (sdk.target # None /\ sdk'.token = sdk.target.token))
      BY <1>5, <2>6 DEF Stores
    <3>2. sdk.target # None => sdk.target.token \in Int
      BY <1>6, <1>7 DEF TargetState
    <3>3. sdk'.token <= sdk'.cache
      BY <1>3, <1>4, <3>1
    <3>4. sdk'.target # None => sdk'.target.token <= h
      BY <1>1, <1>3, <1>4, <3>1, <3>2
    <3> QED
      BY <3>3, <3>4
  <2> QED
    BY <1>0, <2>1, <2>2, <2>3, <2>4, <2>5, <2>6 DEF ReceiveStep, IsMark
<1>10. \A i \in DOMAIN sdk'.requests : sdk'.requests[i].version <= sdk'.cache
  <2>1. \A r \in Request : r.version \in Int
    BY <1>6 DEF Request
  <2>2. \A i \in DOMAIN sdk.requests : sdk.requests[i] \in Request
    BY <1>2, SdkFields
  <2> QED
    BY <1>1, <1>3, <1>4, <2>1, <2>2
<1>11. serving' # None /\ ~serving'.current => serving'.sent <= sdk'.cache
  <2>1. serving \in Serving \cup {None}
    BY OthersTyped DEF Base
  <2>2. serving # None => serving.sent \in Int
    BY <1>6, <2>1 DEF Serving
  <2> QED
    BY <1>1, <1>3, <1>4, <2>2
<1> QED
  BY <1>9, <1>10, <1>11 DEF TokensCovered, Gathered, h

\* What the device says it has, whatever the step.
LEMMA TokensStep ==
  ASSUME Base, DocumentInv, CountInv, FreshMessages, TokensCovered, [Next]_vars, ~crossed'
  PROVE  TokensCovered'
<1>0. ~crossed
  BY CrossedKept
<1>1. sdk \in Sdk /\ sdk' \in Sdk
  BY BaseStep DEF Base, TypeOK
<1>2. /\ sdk.token <= sdk.cache /\ sdk.cache <= Gathered(sdk)
      /\ \A i \in DOMAIN sdk.requests : sdk.requests[i].version <= sdk.cache
      /\ serving # None /\ ~serving.current => serving.sent <= sdk.cache
      /\ sdk.target # None => sdk.target.token <= Gathered(sdk)
  BY DEF TokensCovered, DocumentInv
<1>3. sdk.requests \in Seq(Request) /\ sdk.target \in TargetState \cup {None}
  BY <1>1, SdkFields
<1>4. ASSUME sdk'.cache = sdk.cache, sdk'.token = sdk.token, sdk'.document = sdk.document,
             sdk'.target = sdk.target,
             \A i \in DOMAIN sdk'.requests : sdk'.requests[i].version <= sdk.cache,
             serving' # None /\ ~serving'.current => serving'.sent <= sdk.cache
      PROVE  TokensCovered'
  BY <1>2, <1>4 DEF TokensCovered, Gathered
<1>5. CASE Quiet
  BY <1>2, <1>4, <1>5 DEF Quiet, Rests
<1>6. CASE Idles
  <2>1. /\ sdk'.cache = sdk.cache /\ sdk'.token = sdk.token /\ sdk'.requests = <<>>
        /\ serving' \in {serving, None}
        /\ \/ sdk'.target = None /\ sdk'.document = 0
           \/ sdk'.target = sdk.target /\ sdk'.document = sdk.document
    BY <1>6 DEF Idles
  <2> QED
    BY <1>2, <2>1 DEF TokensCovered, Gathered
<1>7. CASE Wants
  <2>1. PICK type : Asks(sdk, sdk', type)
    BY <1>7 DEF Wants
  <2> DEFINE m == Msg(type, sdk.token)
             q == sdk.requests
  <2>2. /\ m \in Request /\ sdk'.requests = Append(q, m) /\ sdk'.document = sdk.document
        /\ sdk'.target.token = Ensure(sdk.target).token
        /\ sdk'.cache = sdk.cache /\ sdk'.token = sdk.token /\ serving' \in {serving, None}
    BY <1>7, <2>1 DEF Wants, Asks
  <2>3. m.version = sdk.token
    BY DEF Msg
  <2> HIDE DEF m
  <2>4. /\ Len(q) \in Nat /\ DOMAIN q = 1 .. Len(q) /\ DOMAIN Append(q, m) = 1 .. Len(q) + 1
        /\ Append(q, m)[Len(q) + 1] = m /\ \A k \in DOMAIN q : Append(q, m)[k] = q[k]
    BY <1>3, <2>2, AppendAt
  <2>5. \A i \in DOMAIN sdk'.requests : i \in DOMAIN q \/ i = Len(q) + 1
    BY <2>2, <2>4
  <2>6. \A i \in DOMAIN sdk'.requests : sdk'.requests[i].version <= sdk'.cache
    BY <1>2, <2>2, <2>3, <2>4, <2>5
  <2>7. Gathered(sdk') = Gathered(sdk)
    BY <2>2 DEF Gathered
  <2>8. Ensure(sdk.target).token <= Gathered(sdk)
    <3>1. CASE sdk.target = None
      <4>1. Ensure(sdk.target).token = 0
        BY <1>3, <3>1, EnsureFacts
      <4>2. 0 <= Gathered(sdk)
        BY <1>1, <1>2, GatheredTyped
      <4> QED
        BY <4>1, <4>2
    <3>2. CASE sdk.target # None
      BY <1>2, <1>3, <3>2, EnsureFacts
    <3> QED
      BY <3>1, <3>2
  <2>9. (sdk'.target # None => sdk'.target.token <= Gathered(sdk')) /\ sdk'.token <= sdk'.cache
    BY <1>2, <2>2, <2>7, <2>8
  <2>10. serving' # None /\ ~serving'.current => serving'.sent <= sdk'.cache
    BY <1>2, <2>2
  <2> QED
    BY <2>6, <2>9, <2>10 DEF TokensCovered, Gathered
<1>8. CASE Answered
  <2> DEFINE q == sdk.requests
  <2>1. SameClient(sdk, sdk') /\ q # <<>> /\ sdk'.requests = Tail(q)
    BY <1>8, AnsweredCount
  <2>2. /\ Head(q) = q[1] /\ 1 \in DOMAIN q
        /\ \A k \in DOMAIN Tail(q) : k + 1 \in DOMAIN q /\ Tail(q)[k] = q[k + 1]
    BY <1>3, <2>1, TailAt
  <2>3. \A i \in DOMAIN sdk'.requests : sdk'.requests[i].version <= sdk.cache
    BY <1>2, <2>1, <2>2
  <2>4. serving' # None => serving'.sent <= sdk.cache
    <3>1. serving' # None => serving'.sent = Head(q).version
      BY <1>8 DEF Answered
    <3> QED
      BY <1>2, <2>2, <3>1
  <2> QED
    BY <1>4, <2>1, <2>3, <2>4 DEF SameClient
<1>9. CASE HeardIt /\ ReceiveStep
  BY <1>0, <1>9, TokensReceive
<1>10. CASE SendChangesStep
  <2>1. SameClient(sdk, sdk') /\ sdk'.requests = sdk.requests /\ serving'.current
    BY <1>10 DEF SendChangesStep
  <2> QED
    BY <1>2, <1>4, <2>1 DEF SameClient
<1>11. CASE BreaksSomewhere
  <2>1. SameClient(sdk, sdk') /\ sdk'.requests = sdk.requests /\ serving' = serving
    BY <1>11 DEF BreaksSomewhere, BreakStreamStep
  <2> QED
    BY <1>2, <1>4, <2>1 DEF SameClient
<1>12. CASE OthersWrite
  BY <1>2, <1>4, <1>12 DEF OthersWrite
<1> QED
  BY <1>5, <1>6, <1>7, <1>8, <1>9, <1>10, <1>11, <1>12, Shapes

\* The view that counts as synced, whatever the step.
LEMMA ViewStep ==
  ASSUME Base, DocumentInv, CountInv, FreshMessages, ViewFresh, [Next]_vars, ~crossed'
  PROVE  ViewFresh'
<1>0. ~crossed
  BY CrossedKept
<1>1. sdk \in Sdk /\ sdk' \in Sdk
  BY BaseStep DEF Base, TypeOK
<1>2. Listened(sdk) /\ sdk.current =>
        sdk.snapshot.version >= listenedAt /\ sdk.cache >= listenedAt
  BY DEF ViewFresh
<1>3. ASSUME SameView(sdk, sdk', listenedAt, listenedAt'), sdk'.cache = sdk.cache
      PROVE  ViewFresh'
  BY <1>2, <1>3 DEF SameView, ViewFresh, Listened
<1>4. CASE Quiet \/ Idles \/ Wants
  BY <1>3, <1>4 DEF Quiet, Idles, Wants
<1>5. ASSUME SameClient(sdk, sdk'), listenedAt' = listenedAt PROVE ViewFresh'
  BY <1>3, <1>5 DEF SameClient, SameView, Listened
<1>6. CASE Answered
  BY <1>5, <1>6, AnsweredCount DEF Answered, history
<1>7. CASE HeardIt /\ ReceiveStep
  <2> DEFINE c == Heard
             g == Gathered(sdk)
  <2>0. c = Heard
    OBVIOUS
  <2>1. /\ listenedAt' = listenedAt /\ sdk.responses # <<>> /\ sdk.responses \in Seq(Message)
    BY <1>7, GatheredReceive
  <2>2. /\ c.listeners = sdk.listeners /\ (c.current => sdk.current) /\ Gathered(c) = g
        /\ c.cache = sdk.cache
        /\ Listened(sdk) => c.snapshot.version = sdk.snapshot.version
    BY <1>7 DEF HeardIt, Told, Gathered
  <2>3. ASSUME sdk'.listeners = c.listeners, sdk'.current = c.current,
               sdk'.snapshot = c.snapshot, sdk'.cache = c.cache
        PROVE  ViewFresh'
    <3>1. SameView(sdk, sdk', listenedAt, listenedAt')
      BY <2>1, <2>2, <2>3 DEF SameView, Listened
    <3> QED
      BY <1>3, <2>2, <2>3, <3>1
  <2> HIDE DEF c, g
  <2>4. CASE Gathers(c, sdk')
    BY <2>3, <2>4 DEF Gathers
  <2>5. CASE Refuses(c, sdk')
    BY <2>5 DEF Refuses, ViewFresh, Listened
  <2>6. CASE sdk' = c
    BY <2>3, <2>6
  <2>7. CASE sdk.responses[1].type = "snapshot" /\ Stores(c, sdk')
    <3>1. /\ sdk'.listeners = sdk.listeners /\ sdk'.cache = g
          /\ Listened(sdk) => sdk'.snapshot.version = g
          /\ sdk'.current => sdk.current \/ IsActive(c)
      BY <2>2, <2>7 DEF Stores, Listened
    <3>2. ASSUME Listened(sdk), sdk.current PROVE g >= listenedAt
      <4>1. sdk.cache >= listenedAt /\ sdk.cache <= g
        BY <1>2, <3>2 DEF DocumentInv, g
      <4>2. g \in Int /\ sdk.cache \in Int /\ listenedAt \in Int
        BY <1>1, GatheredTyped, OthersTyped, BoundsAssumption DEF Base, Versions, g
      <4> QED
        BY <4>1, <4>2
    <3>3. ASSUME IsActive(c) PROVE g >= listenedAt
      <4>1. Fresh(sdk, 1)
        BY <1>0, <1>7, <2>0, <3>3, ActiveFresh
      <4>2. 1 \in DOMAIN sdk.responses
        BY <2>1, TailAt
      <4>3. InPlace(sdk.responses, g, listenedAt, 1)
        BY <4>1, <4>2 DEF FreshMessages, g
      <4> QED
        BY <2>7, <4>3 DEF InPlace, IsSnapshot
    <3> QED
      BY <2>1, <3>1, <3>2, <3>3 DEF ViewFresh, Listened
  <2> QED
    BY <1>7, <2>0, <2>4, <2>5, <2>6, <2>7 DEF ReceiveStep, Counts, Documents, Marks
<1>8. CASE SendChangesStep
  BY <1>5, <1>8 DEF SendChangesStep, history
<1>9. CASE BreaksSomewhere
  BY <1>5, <1>9 DEF BreaksSomewhere, BreakStreamStep, history
<1>10. CASE OthersWrite
  <2>1. sdk' = sdk /\ listenedAt' = listenedAt
    BY <1>10 DEF OthersWrite, history
  <2> QED
    BY <1>2, <2>1 DEF ViewFresh
<1> QED
  BY <1>4, <1>6, <1>7, <1>8, <1>9, <1>10, Shapes

-----------------------------------------------------------------------------
(* The theorems about the view and the resume token *)

\* What the last two theorems rest on.
WatchInv == Base /\ DocumentInv /\ CountInv /\ MessageInv

\* At the start nothing is under way.
LEMMA WatchInit == Init => WatchInv
<1> SUFFICES ASSUME Init PROVE WatchInv
  OBVIOUS
<1>1. /\ sdk.listeners = <<>> /\ sdk.requests = <<>> /\ sdk.responses = <<>> /\ sdk.target = None
      /\ sdk.token = 0 /\ sdk.cache = 0 /\ serving = None
  BY DEF Init, FreshSdk
<1>2. FreshMessages /\ TokensCovered /\ ViewFresh
  BY <1>1 DEF FreshMessages, TokensCovered, ViewFresh, Listened
<1> QED
  BY <1>2, BaseInit, DocumentInit, CountInit DEF WatchInv, MessageInv

\* Every step keeps it.
LEMMA WatchStep == WatchInv /\ [Next]_vars => WatchInv'
<1> SUFFICES ASSUME WatchInv, [Next]_vars PROVE WatchInv'
  OBVIOUS
<1>1. Base /\ DocumentInv /\ CountInv /\ MessageInv
  BY DEF WatchInv
<1>2. Base' /\ DocumentInv' /\ CountInv'
  BY <1>1, BaseStep, DocumentStep, CountStep
<1>3. ASSUME ~crossed' PROVE FreshMessages' /\ TokensCovered' /\ ViewFresh'
  <2>1. FreshMessages /\ TokensCovered /\ ViewFresh
    BY <1>1, <1>3, CrossedKept DEF MessageInv
  <2> QED
    BY <1>1, <1>3, <2>1, FreshMessagesStep, TokensStep, ViewStep
<1> QED
  BY <1>2, <1>3 DEF WatchInv, MessageInv

\* The aggregator waits for every response that is asked for or under way, so
\* that no message of an earlier listen is taken for one of this listen,
\* unless a refusal has met other requests of the target on their way.
THEOREM NoResponseMissed ==
  Spec => [](~crossed => Ensure(sdk.target).outstanding >= Owed)
<1>1. WatchInv => (~crossed => Ensure(sdk.target).outstanding >= Owed)
  BY DEF WatchInv, CountInv, Owed, Owing, Answers
<1> QED
  BY <1>1, WatchInit, WatchStep, PTL DEF Spec

\* The resume token never says more than the local copy holds, so that the
\* backend leaves nothing out, whatever is lost, repeated or interleaved.
THEOREM ResumeCoveredHolds == Spec => []ResumeCovered
<1>1. WatchInv => ResumeCovered
  BY DEF WatchInv, MessageInv, TokensCovered, ResumeCovered
<1> QED
  BY <1>1, WatchInit, WatchStep, PTL DEF Spec

\* A view that counts as synced holds at least the version the backend had when
\* the query was first listened to.
THEOREM SyncedIsFreshHolds == Spec => []SyncedIsFresh
<1>1. WatchInv => SyncedIsFresh
  BY DEF WatchInv, MessageInv, ViewFresh, SyncedIsFresh
<1> QED
  BY <1>1, WatchInit, WatchStep, PTL DEF Spec
=============================================================================
