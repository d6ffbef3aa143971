--------------------------- MODULE SessionProofs ---------------------------
(***************************************************************************)
(* Theorems about Session, for any e-mails, passwords, number of requests  *)
(* and of screens opened.                                                  *)
(***************************************************************************)
EXTENDS Session, TLAPS, SequenceTheorems

-----------------------------------------------------------------------------
(* The inductive invariants *)

Forms == {"signIn", "signUp"}

\* The Users documents on their way, and the ones whose callback is awaited.
Sent    == posted \cup writes
Waiting == {w \in writes : w.waited}

\* E-mails whose Users document is there or on its way, or was lost to a failure.
Safe == userDocs \cup faulty \cup {w.email : w \in Sent}

\* A successful sign-up whose callback has not sent the document yet.
SignedUp(a) == a.kind = "signUp" /\ a.ok

\* What is remembered, and what a callback is about to remember, is an
\* account with its password; no account ever changes its password.
Credentials ==
    /\ \A k \in DOMAIN realm : accounts[realm[k].login] = realm[k].password
    /\ \A k \in DOMAIN mainQueue : mainQueue[k].kind \in Forms /\ mainQueue[k].ok =>
         accounts[mainQueue[k].req.email] = mainQueue[k].req.password

\* Every account is safe or its sign-up callback is still queued; and then it
\* is queued before every sign-in to the same account, so that no sign-in
\* remembers the login before the sign-up has sent the document.
Documents ==
    /\ \A e \in Emails : accounts[e] # NoAccount =>
         \/ e \in Safe
         \/ \E j \in DOMAIN mainQueue : SignedUp(mainQueue[j]) /\ mainQueue[j].req.email = e
    /\ \A k \in DOMAIN realm : realm[k].login \in Safe
    /\ \A k \in DOMAIN mainQueue : mainQueue[k].kind = "signIn" /\ mainQueue[k].ok =>
         \/ mainQueue[k].req.email \in Safe
         \/ \E j \in 1..(k - 1) : /\ SignedUp(mainQueue[j])
                                  /\ mainQueue[j].req.email = mainQueue[k].req.email

\* The visible screens are FirstView, then a form, then MainViews.
Shape ==
    \A k \in DOMAIN stack : /\ stack[k].view = "first" <=> k = 1
                            /\ stack[k].view \in Forms <=> k = 2
                            /\ stack[k].view = "main" <=> k > 2

\* Whose form it is: a request, a write or an answer names a form that was
\* opened before, so a form opened later never receives it.
Ids ==
    /\ \A k \in DOMAIN stack : stack[k].view \in Forms => stack[k].id < moves
    /\ \A r \in requests : r.view < moves
    /\ \A w \in Sent : w.view < moves
    /\ \A k \in DOMAIN mainQueue : mainQueue[k].req.view < moves

\* No form on screen waits for the result of request or write number v.
Unseen(v) == \A k \in DOMAIN stack : stack[k].view \in Forms => stack[k].id # v

\* While nobody is signed in, nothing can bring up a MainView: no success is
\* on its way to a form that is still there, and no form remembers one.
Nameless ==
    /\ \A k \in DOMAIN stack : stack[k].view = "main" => stack[k].email # Nobody
    /\ current = Nobody =>
         /\ \A k \in DOMAIN stack : /\ stack[k].view # "main"
                                    /\ stack[k].view = "signUp" => ~stack[k].login
         /\ \A k \in DOMAIN mainQueue : mainQueue[k].ok => Unseen(mainQueue[k].req.view)
         /\ \A w \in Sent : Unseen(w.view)

\* As long as requests did not overlap, one thing at most is under way, none
\* while a MainView is there, and the MainViews show who is signed in.
Quiet ==
    ~overlapped =>
      /\ \A r, s \in requests : r = s
      /\ \A v, w \in posted \cup Waiting : v = w
      /\ posted # {} => Waiting = {}
      /\ Len(mainQueue) <= 1
      /\ requests # {} => mainQueue = <<>> /\ posted = {} /\ Waiting = {}
      /\ mainQueue # <<>> => posted = {} /\ Waiting = {}
      /\ Busy => \A k \in DOMAIN stack : stack[k].view # "main"
      /\ \A k \in DOMAIN stack : stack[k].view = "main" => stack[k].email = current
      /\ signedOut => current = Nobody /\ realm = <<>> /\ ~Busy

IInv == TypeOK /\ Credentials /\ Documents /\ Shape /\ Ids /\ Nameless /\ Quiet

-----------------------------------------------------------------------------
(* Facts about the operators *)

\* A queue that is not empty is its head followed by its tail.
LEMMA Queue ==
  ASSUME NEW S, NEW q \in Seq(S), q # <<>>
  PROVE  /\ Head(q) \in S /\ Head(q) = q[1] /\ 1 \in DOMAIN q
         /\ Tail(q) \in Seq(S) /\ Len(Tail(q)) = Len(q) - 1
         /\ \A k \in DOMAIN Tail(q) : k + 1 \in DOMAIN q /\ Tail(q)[k] = q[k + 1]
         /\ \A k \in DOMAIN q : k = 1 \/ k - 1 \in DOMAIN Tail(q)
BY HeadTailProperties

\* The request an answer belongs to.
LEMMA AnswerParts ==
  ASSUME NEW a \in Answer
  PROVE  /\ a.ok \in BOOLEAN
         /\ a.kind \in {"signIn", "signUp", "written"}
         /\ a.kind \in Forms => a.req \in Request
         /\ a.kind = "written" => a.req \in UserWrite
         /\ a.req.view \in Nat
         /\ a.req.email \in Emails
BY DEF Answer, Request, UserWrite, Forms

\* MainViews: so many MainViews of the user signed in.
LEMMA MainViewsMade ==
  ASSUME TypeOK, NEW n \in Nat
  PROVE  /\ MainViews(n) \in Seq(Screen)
         /\ Len(MainViews(n)) = n
         /\ \A k \in 1..n : /\ MainViews(n)[k].view = "main"
                            /\ MainViews(n)[k].email = current
<1> DEFINE s == [NewScreen("main", moves) EXCEPT !.email = current]
<1>1. s \in Screen /\ s.view = "main" /\ s.email = current
  BY DEF TypeOK, Screen, NewScreen
<1> HIDE DEF s
<1>2. MainViews(n) = [k \in 1..n |-> s]
  BY DEF MainViews, s
<1>3. MainViews(n) \in [1..n -> Screen]
  BY <1>1, <1>2
<1> QED
  BY <1>1, <1>2, <1>3

\* How the screens new differ from the present ones once the result value was
\* published for form number view: the form may change its login, and
\* MainViews come up only for a success that finds its form.
Raised(new, view, value) ==
    /\ Len(stack) <= Len(new)
    /\ \A k \in DOMAIN stack :
         /\ new[k].view = stack[k].view
         /\ new[k].id = stack[k].id
         /\ new[k].email = stack[k].email
         /\ new[k].login => \/ stack[k].login
                            \/ value /\ stack[k].id = view /\ stack[k].view \in Forms
    /\ \A k \in DOMAIN new : k \notin DOMAIN stack =>
         new[k].view = "main" /\ new[k].email = current
    /\ Len(stack) < Len(new) => /\ value
                                /\ \E j \in DOMAIN stack : /\ stack[j].id = view
                                                           /\ stack[j].view \in Forms

\* That is what loginIsBool.onNext(value) does.
LEMMA PublishedStack ==
  ASSUME TypeOK, NEW view \in Nat, NEW value \in BOOLEAN
  PROVE  /\ Published(view, value) \in Seq(Screen)
         /\ Raised(Published(view, value), view, value)
<1> DEFINE seen == {k \in DOMAIN stack : stack[k].id = view /\ stack[k].view \in {"signIn", "signUp"}}
           set  == [k \in DOMAIN stack |->
                      IF k \in seen THEN [stack[k] EXCEPT !.login = value] ELSE stack[k]]
           one  == CHOOSE j \in seen : TRUE
           subs == stack[one].subs * stack[one].subs
           new  == Published(view, value)
<1> SUFFICES new \in Seq(Screen) /\ Raised(new, view, value)
  OBVIOUS
<1>1. /\ stack \in Seq(Screen) /\ Len(stack) \in Nat
      /\ DOMAIN stack = 1..Len(stack)
      /\ \A k \in DOMAIN stack : stack[k] \in Screen
  BY DEF TypeOK
<1>2. ASSUME NEW k \in DOMAIN stack
      PROVE  /\ set[k] \in Screen
             /\ set[k].view = stack[k].view
             /\ set[k].id = stack[k].id
             /\ set[k].email = stack[k].email
             /\ set[k].login => \/ stack[k].login
                                \/ value /\ stack[k].id = view /\ stack[k].view \in Forms
  <2>1. CASE k \in seen
    <3>1. set[k] = [stack[k] EXCEPT !.login = value]
      BY <2>1
    <3> QED
      BY <1>1, <2>1, <3>1 DEF Screen, Forms
  <2>2. CASE k \notin seen
    BY <1>1, <2>2
  <2> QED
    BY <2>1, <2>2
<1>3. set \in Seq(Screen) /\ Len(set) = Len(stack) /\ DOMAIN set = DOMAIN stack
  <2>1. set \in [1..Len(stack) -> Screen]
    BY <1>1, <1>2
  <2> QED
    BY <1>1, <2>1
<1>4. new = IF value /\ seen # {} THEN set \o MainViews(subs) ELSE set
  BY DEF Published
<1>5. CASE value /\ seen # {}
  <2>1. one \in seen
    BY <1>5
  <2>2. subs \in Nat
    BY <1>1, <2>1 DEF Screen
  <2> HIDE DEF subs, set
  <2>3. /\ MainViews(subs) \in Seq(Screen)
        /\ Len(MainViews(subs)) = subs
        /\ \A k \in 1..subs : /\ MainViews(subs)[k].view = "main"
                              /\ MainViews(subs)[k].email = current
    BY <2>2, MainViewsMade
  <2>4. /\ new \in Seq(Screen)
        /\ Len(new) = Len(stack) + subs
        /\ DOMAIN new = 1..(Len(stack) + subs)
        /\ \A k \in 1..(Len(stack) + subs) :
             new[k] = IF k <= Len(stack) THEN set[k] ELSE MainViews(subs)[k - Len(stack)]
    <3>1. new = set \o MainViews(subs)
      BY <1>4, <1>5
    <3> HIDE DEF new
    <3>2. new \in Seq(Screen)
      BY <1>3, <2>3, <3>1, ConcatProperties
    <3>3. Len(new) = Len(set) + Len(MainViews(subs))
      BY <1>3, <2>3, <3>1, ConcatProperties
    <3>4. \A k \in 1..(Len(set) + Len(MainViews(subs))) :
             new[k] = IF k <= Len(set) THEN set[k] ELSE MainViews(subs)[k - Len(set)]
      BY <1>3, <2>3, <3>1, ConcatProperties
    <3> QED
      BY <1>3, <2>3, <3>2, <3>3, <3>4
  <2> HIDE DEF new
  <2>5. \A k \in DOMAIN stack : new[k] = set[k]
    BY <1>1, <2>2, <2>4
  <2>6. ASSUME NEW k \in DOMAIN new, k \notin DOMAIN stack
        PROVE  new[k].view = "main" /\ new[k].email = current
    <3>1. k - Len(stack) \in 1..subs /\ ~ (k <= Len(stack))
      BY <1>1, <2>2, <2>4, <2>6
    <3> QED
      BY <2>3, <2>4, <3>1
  <2>7. \E j \in DOMAIN stack : stack[j].id = view /\ stack[j].view \in Forms
    BY <2>1 DEF Forms
  <2> QED
    BY <1>1, <1>2, <1>5, <2>2, <2>4, <2>5, <2>6, <2>7, SMTT(30) DEF Raised
<1>6. CASE ~ (value /\ seen # {})
  <2>1. new = set
    BY <1>4, <1>6
  <2> HIDE DEF set, new
  <2>2. \A k \in DOMAIN stack : new[k] = set[k]
    BY <2>1
  <2> QED
    BY <1>1, <1>2, <1>3, <2>1, <2>2 DEF Raised
<1> QED
  BY <1>5, <1>6

\* The screen under the visible one, after the back button.
LEMMA BackStack ==
  ASSUME TypeOK, Back
  PROVE  /\ stack' \in Seq(Screen)
         /\ Len(stack) - 1 <= Len(stack')
         /\ \A k \in 1..(Len(stack) - 1) :
              /\ stack'[k].view = stack[k].view
              /\ stack'[k].id = stack[k].id
              /\ stack'[k].email = stack[k].email
              /\ stack'[k].login = stack[k].login
         /\ \A k \in DOMAIN stack' : k >= Len(stack) =>
              stack'[k].view = "main" /\ stack'[k].email = current
         /\ Len(stack') >= Len(stack) => /\ stack[Len(stack) - 1].view = "signUp"
                                         /\ stack[Len(stack) - 1].login
<1> DEFINE n     == Len(stack) - 1
           below == SubSeq(stack, 1, n)
           again == [below EXCEPT ![n].subs = @ + 1]
           ups   == IF below[n].login THEN 1 ELSE 0
<1>1. /\ stack \in Seq(Screen) /\ Len(stack) \in Nat /\ n \in Nat \ {0}
      /\ DOMAIN stack = 1..Len(stack)
      /\ \A k \in DOMAIN stack : stack[k] \in Screen
  <2>1. stack \in Seq(Screen)
    BY DEF TypeOK
  <2>2. Len(stack) \in Nat /\ DOMAIN stack = 1..Len(stack)
    BY <2>1
  <2>3. Len(stack) > 1
    BY DEF Back
  <2> QED
    BY <2>1, <2>2, <2>3
<1>2. below \in Seq(Screen) /\ Len(below) = n /\ \A k \in 1..n : below[k] = stack[k]
  BY <1>1, SubSeqProperties
<1>3. stack' = IF below[n].view # "signUp" THEN below ELSE again \o MainViews(ups)
  <2>1. Len(below) = n
    BY <1>2
  <2> QED
    BY <2>1 DEF Back
<1> HIDE DEF below
<1>4. CASE below[n].view # "signUp"
  BY <1>1, <1>2, <1>3, <1>4
<1>5. CASE below[n].view = "signUp"
  <2> DEFINE mine == [below[n] EXCEPT !.subs = @ + 1]
  <2>1. /\ mine \in Screen
        /\ mine.view = below[n].view /\ mine.id = below[n].id
        /\ mine.email = below[n].email /\ mine.login = below[n].login
    <3>1. below[n] \in Screen
      BY <1>1, <1>2
    <3> QED
      BY <3>1 DEF Screen
  <2>2. again = [below EXCEPT ![n] = mine]
    BY <1>1, <1>2
  <2> HIDE DEF mine, again
  <2>3. /\ again \in Seq(Screen) /\ Len(again) = n
        /\ \A k \in 1..n : again[k] = IF k = n THEN mine ELSE below[k]
    <3>1. n \in 1..Len(below)
      BY <1>1, <1>2
    <3> QED
      BY <1>2, <2>1, <2>2, <3>1, ExceptSeq
  <2>4. ups \in {0, 1}
    OBVIOUS
  <2> HIDE DEF ups
  <2>5. /\ MainViews(ups) \in Seq(Screen)
        /\ Len(MainViews(ups)) = ups
        /\ \A k \in 1..ups : /\ MainViews(ups)[k].view = "main"
                             /\ MainViews(ups)[k].email = current
    BY <2>4, MainViewsMade
  <2>6. /\ stack' \in Seq(Screen)
        /\ Len(stack') = n + ups
        /\ \A k \in 1..n : stack'[k] = again[k]
        /\ \A k \in (n + 1)..(n + ups) : stack'[k] = MainViews(ups)[k - n]
    <3>1. stack' = again \o MainViews(ups)
      BY <1>3, <1>5
    <3>2. stack' \in Seq(Screen) /\ Len(stack') = n + ups
      BY <2>3, <2>5, <3>1, ConcatProperties
    <3>3. \A k \in 1..(n + ups) :
            stack'[k] = IF k <= n THEN again[k] ELSE MainViews(ups)[k - n]
      BY <2>3, <2>5, <3>1, ConcatProperties
    <3> QED
      BY <1>1, <2>4, <3>2, <3>3
  <2>7. \A k \in (n + 1)..(n + ups) : k - n \in 1..ups
    BY <1>1, <2>4
  <2>8. \A k \in 1..n : /\ stack'[k].view = stack[k].view
                        /\ stack'[k].id = stack[k].id
                        /\ stack'[k].email = stack[k].email
                        /\ stack'[k].login = stack[k].login
    BY <1>1, <1>2, <2>1, <2>3, <2>6
  <2>9. ups = 1 => stack[n].login
    BY <1>1, <1>2 DEF ups
  <2> QED
    BY <1>1, <1>2, <1>5, <2>4, <2>5, <2>6, <2>7, <2>8, <2>9
<1> QED
  BY <1>4, <1>5

\* An account just created whose callback is queued.
LEMMA LostSignUpsOf ==
  ASSUME NEW q, NEW e
  PROVE  e \in LostSignUps(q) <=>
           \E j \in DOMAIN q : SignedUp(q[j]) /\ q[j].req.email = e
BY DEF LostSignUps, SignedUp

\* What is left of the writes on disk when the process ends.
LEMMA AbandonedWrites ==
  ASSUME TypeOK
  PROVE  /\ Abandoned \subseteq UserWrite
         /\ \A w \in Abandoned : ~w.waited /\ \E v \in writes : v.view = w.view
         /\ \A v \in writes : \E w \in Abandoned : w.email = v.email
<1>1. ASSUME NEW v \in writes
      PROVE  LET w == [v EXCEPT !.waited = FALSE] IN
             /\ w \in UserWrite /\ ~w.waited /\ w.view = v.view /\ w.email = v.email
  <2>1. v \in UserWrite
    BY DEF TypeOK
  <2> QED
    BY <2>1 DEF UserWrite
<1> QED
  BY <1>1 DEF Abandoned

\* The end of the process leaves everything well typed.
LEMMA EndTypes ==
  ASSUME TypeOK, NEW q \in Seq(Answer), NEW handed \in SUBSET UserWrite, End(q, handed)
  PROVE  /\ stack' \in Seq(Screen) /\ client' \in BOOLEAN
         /\ requests' \subseteq Request
         /\ mainQueue' \in Seq(Answer)
         /\ posted' \subseteq UserWrite /\ writes' \subseteq UserWrite
         /\ faulty' \subseteq Emails
<1>1. <<>> \in Seq(Answer) /\ <<>> \in Seq(Screen)
  OBVIOUS
<1>2. LostSignUps(q) \subseteq Emails
  <2>1. ASSUME NEW k \in DOMAIN q
        PROVE  q[k].req.email \in Emails
    BY AnswerParts
  <2> QED
    BY <2>1, Zenon DEF LostSignUps
<1>3. {w.email : w \in handed} \subseteq Emails
  BY DEF UserWrite
<1> QED
  BY <1>1, <1>2, <1>3, AbandonedWrites DEF TypeOK, End

\* writeData with a login of the right types keeps the types.
LEMMA WriteDataTypes ==
  ASSUME TypeOK, mainQueue # <<>>, NEW shown \in Seq(Screen), NEW docs \in SUBSET UserWrite,
         NEW email \in Emails, NEW password \in Passwords, NEW remember \in BOOLEAN,
         WriteData(shown, docs, email, password, remember)
  PROVE  /\ realm' \in Seq(RememberData)
         /\ stack' \in Seq(Screen) /\ client' \in BOOLEAN
         /\ requests' \subseteq Request
         /\ mainQueue' \in Seq(Answer)
         /\ posted' \subseteq UserWrite /\ writes' \subseteq UserWrite
         /\ faulty' \subseteq Emails
         /\ refused' \in BOOLEAN
<1>1. Tail(mainQueue) \in Seq(Answer)
  BY Queue DEF TypeOK
<1>2. posted \cup docs \in SUBSET UserWrite
  BY DEF TypeOK
<1>3. Append(realm, Login(email, password)) \in Seq(RememberData)
  BY DEF TypeOK, RememberData, Login
<1>4. CASE /\ refused' = TRUE
           /\ End(Tail(mainQueue), posted \cup docs)
           /\ UNCHANGED realm
  BY <1>1, <1>2, <1>4, EndTypes DEF TypeOK
<1>5. CASE /\ realm' = IF remember
                       THEN Append(realm, Login(email, password)) ELSE realm
           /\ stack' = shown
           /\ client' = (client \/ docs # {} \/ Starts(shown))
           /\ posted' = posted \cup docs
           /\ mainQueue' = Tail(mainQueue)
           /\ UNCHANGED <<refused, requests, writes, faulty>>
  <2>1. client' \in BOOLEAN
    BY <1>5, Zenon
  <2> QED
    BY <1>1, <1>2, <1>3, <1>5, <2>1 DEF TypeOK
<1> QED
  BY <1>4, <1>5 DEF WriteData

\* There is a visible screen while the app runs.
LEMMA TopScreen ==
  ASSUME TypeOK, Running
  PROVE  Len(stack) \in DOMAIN stack /\ Top \in Screen /\ Top.id \in Nat
<1>1. stack \in Seq(Screen) /\ stack # <<>>
  BY DEF TypeOK, Running
<1>2. Len(stack) \in DOMAIN stack /\ stack[Len(stack)] \in Screen
  BY <1>1
<1> QED
  BY <1>2 DEF Top, Screen

\* Sending a request keeps the types.
LEMMA SendTypes ==
  ASSUME TypeOK, NEW kind \in {"signIn", "signUp"}, NEW view \in Nat,
         NEW email \in Emails, NEW password \in Passwords, NEW remember \in BOOLEAN,
         Send(kind, view, email, password, remember)
  PROVE  /\ requests' \subseteq Request
         /\ presses' \in Nat /\ overlapped' \in BOOLEAN /\ signedOut' \in BOOLEAN
<1>1. [kind |-> kind, id |-> presses, view |-> view, email |-> email,
       password |-> password, remember |-> remember] \in Request
  BY DEF TypeOK, Request
<1>2. requests' \subseteq Request
  BY <1>1 DEF TypeOK, Send
<1>3. presses' \in Nat
  BY DEF TypeOK, Send
<1>4. overlapped' \in BOOLEAN /\ signedOut' \in BOOLEAN
  BY Zenon DEF Send
<1> QED
  BY <1>2, <1>3, <1>4

LEMMA NextTypeOK ==
  ASSUME TypeOK, [Next]_vars
  PROVE  TypeOK'
<1> USE DEF TypeOK
<1>1. \A view \in {"first", "signIn", "signUp", "main"}, id \in Nat :
        NewScreen(view, id) \in Screen
  BY DEF NewScreen, Screen
<1>2. <<FirstView>> \in Seq(Screen)
  BY <1>1 DEF FirstView
<1>3. CASE OpenSignIn
  <2>1. stack' \in Seq(Screen)
    BY <1>1, <1>3 DEF OpenSignIn, sdk
  <2>2. CASE realm = <<>>
    BY <1>3, <2>1, <2>2 DEF OpenSignIn, sdk
  <2>3. CASE realm # <<>>
    <3>1. ReadData.login \in Emails /\ ReadData.password \in Passwords
      <4>1. realm[1] \in RememberData
        BY <2>3
      <4> QED
        BY <4>1 DEF ReadData, RememberData
    <3>2. Send("signIn", moves, ReadData.login, ReadData.password, FALSE)
      BY <1>3, <2>3 DEF OpenSignIn, sdk
    <3>3. /\ requests' \subseteq Request
          /\ presses' \in Nat /\ overlapped' \in BOOLEAN /\ signedOut' \in BOOLEAN
      <4>1. moves \in Nat /\ FALSE \in BOOLEAN
        OBVIOUS
      <4> QED
        BY <3>1, <3>2, <4>1, SendTypes
    <3> QED
      BY <1>3, <2>1, <3>3 DEF OpenSignIn, sdk
  <2> QED
    BY <2>2, <2>3
<1>4. CASE OpenSignUp
  <2>1. stack' \in Seq(Screen)
    BY <1>1, <1>4 DEF OpenSignUp, sdk
  <2> QED
    BY <1>4, <2>1 DEF OpenSignUp, sdk
<1>5. ASSUME NEW view \in {"signIn", "signUp"}, NEW e \in Emails, NEW k \in Passwords,
             NEW rem \in BOOLEAN, Press(view, e, k, rem)
      PROVE  TypeOK'
  <2>1. Top.id \in Nat
    BY <1>5, TopScreen DEF Press, On
  <2>2. Send(view, Top.id, e, k, rem)
    BY <1>5 DEF Press, sdk
  <2>3. /\ requests' \subseteq Request
        /\ presses' \in Nat /\ overlapped' \in BOOLEAN /\ signedOut' \in BOOLEAN
    BY <2>1, <2>2, SendTypes
  <2> QED
    BY <1>5, <2>3 DEF Press, sdk
<1>6. CASE PressTooShort
  <2>1. Top.id \in Nat
    BY <1>6, TopScreen DEF PressTooShort, On
  <2>2. stack' \in Seq(Screen)
    BY <1>6, <2>1, PublishedStack DEF PressTooShort, sdk
  <2> QED
    BY <1>6, <2>2 DEF PressTooShort, sdk
<1>7. CASE Back
  <2>1. stack' \in Seq(Screen)
    BY <1>7, BackStack
  <2>2. /\ moves' \in Nat
        /\ UNCHANGED <<accounts, userDocs, current, realm, requests, posted, writes, mainQueue,
                       presses, overlapped, faulty, signedOut, refused>>
    BY <1>7 DEF Back
  <2>3. client' \in BOOLEAN
    BY <1>7, Zenon DEF Back
  <2> QED
    BY <2>1, <2>2, <2>3
<1>8. CASE SignOut
  <2>1. <<>> \in Seq(RememberData)
    OBVIOUS
  <2> QED
    BY <1>2, <1>8, <2>1 DEF SignOut, DeleteRealmData, sdk
<1>9. ASSUME NEW r \in requests, Accept(r)
      PROVE  TypeOK'
  <2>1. r \in Request /\ r.email \in Emails /\ r.password \in Passwords
    BY DEF Request
  <2>2. [kind |-> r.kind, ok |-> TRUE, req |-> r] \in Answer
    BY <2>1 DEF Answer, Request
  <2>3. accounts' \in [Emails -> Passwords \cup {NoAccount}]
    BY <1>9, <2>1 DEF Accept, sdk
  <2>4. mainQueue' \in Seq(Answer)
    BY <1>9, <2>2 DEF Accept, sdk
  <2> QED
    BY <1>9, <2>1, <2>3, <2>4 DEF Accept, sdk
<1>10. ASSUME NEW r \in requests, Refuse(r)
       PROVE  TypeOK'
  <2>1. r \in Request /\ r.email \in Emails /\ r.password \in Passwords
    BY DEF Request
  <2>2. [kind |-> r.kind, ok |-> FALSE, req |-> r] \in Answer
    BY <2>1 DEF Answer, Request
  <2>3. /\ accounts' \in [Emails -> Passwords \cup {NoAccount}]
        /\ faulty' \subseteq Emails
    BY <1>10, <2>1 DEF Refuse, sdk
  <2>4. mainQueue' \in Seq(Answer)
    BY <1>10, <2>2 DEF Refuse, sdk
  <2> QED
    BY <1>10, <2>3, <2>4 DEF Refuse, sdk
<1>11. ASSUME NEW w \in writes, SettleWrite(w)
       PROVE  TypeOK'
  <2>1. w \in UserWrite /\ w.email \in Emails
    BY DEF UserWrite
  <2>2. \A ok \in BOOLEAN : [kind |-> "written", ok |-> ok, req |-> w] \in Answer
    BY <2>1 DEF Answer
  <2>3. userDocs' \subseteq Emails /\ faulty' \subseteq Emails
    BY <1>11, <2>1 DEF SettleWrite
  <2>4. mainQueue' \in Seq(Answer)
    BY <1>11, <2>2 DEF SettleWrite
  <2> QED
    BY <1>11, <2>3, <2>4 DEF SettleWrite
<1>12. ASSUME NEW kind, Ready(kind)
       PROVE  /\ mainQueue # <<>>
              /\ Head(mainQueue) \in Answer
              /\ Head(mainQueue).kind = kind
  BY <1>12, Queue DEF Ready
<1>13. CASE SignInDone
  <2> DEFINE a == Head(mainQueue)
  <2>1. mainQueue # <<>> /\ a \in Answer /\ a.kind = "signIn"
    BY <1>12, <1>13 DEF SignInDone
  <2>2. /\ a.req \in Request /\ a.ok \in BOOLEAN /\ a.req.view \in Nat
        /\ a.req.email \in Emails /\ a.req.password \in Passwords
        /\ (a.ok /\ a.req.remember) \in BOOLEAN
    BY <2>1, AnswerParts DEF Forms, Request
  <2>3. Published(a.req.view, a.ok) \in Seq(Screen)
    BY <2>2, PublishedStack
  <2>4. WriteData(Published(a.req.view, a.ok), {}, a.req.email, a.req.password,
                  a.ok /\ a.req.remember)
    BY <1>13 DEF SignInDone
  <2>5. {} \in SUBSET UserWrite
    OBVIOUS
  <2>6. UNCHANGED <<accounts, userDocs, current, presses, moves, overlapped, signedOut>>
    BY <1>13 DEF SignInDone
  <2> HIDE DEF a
  <2> QED
    BY <2>1, <2>2, <2>3, <2>4, <2>5, <2>6, WriteDataTypes
<1>14. CASE SignUpDone
  <2> DEFINE a == Head(mainQueue)
  <2>1. mainQueue # <<>> /\ a \in Answer /\ a.kind = "signUp"
    BY <1>12, <1>14 DEF SignUpDone
  <2>2. /\ a.req \in Request /\ a.ok \in BOOLEAN /\ a.req.view \in Nat /\ a.req.id \in Nat
        /\ a.req.email \in Emails /\ a.req.password \in Passwords
        /\ a.req.remember \in BOOLEAN
    BY <2>1, AnswerParts DEF Forms, Request
  <2>3. Published(a.req.view, FALSE) \in Seq(Screen) /\ stack \in Seq(Screen)
    BY <2>2, PublishedStack
  <2>4. NewWrite(a.req) \in UserWrite
    BY <2>2 DEF NewWrite, UserWrite
  <2>5. \/ WriteData(Published(a.req.view, FALSE), {}, a.req.email, a.req.password, FALSE)
        \/ WriteData(stack, {NewWrite(a.req)}, a.req.email, a.req.password, a.req.remember)
    BY <1>14 DEF SignUpDone
  <2>6. UNCHANGED <<accounts, userDocs, current, presses, moves, overlapped, signedOut>>
    BY <1>14 DEF SignUpDone
  <2> HIDE DEF a
  <2>7. /\ {} \in SUBSET UserWrite /\ {NewWrite(a.req)} \in SUBSET UserWrite
        /\ FALSE \in BOOLEAN
    BY <2>4
  <2>8. CASE WriteData(Published(a.req.view, FALSE), {}, a.req.email, a.req.password, FALSE)
    BY <2>1, <2>2, <2>3, <2>6, <2>7, <2>8, WriteDataTypes
  <2>9. CASE WriteData(stack, {NewWrite(a.req)}, a.req.email, a.req.password, a.req.remember)
    BY <2>1, <2>2, <2>3, <2>6, <2>7, <2>9, WriteDataTypes
  <2> QED
    BY <2>5, <2>8, <2>9
<1>15. CASE WrittenDone
  <2> DEFINE a == Head(mainQueue)
  <2>1. mainQueue # <<>> /\ a \in Answer
    BY <1>12, <1>15 DEF WrittenDone
  <2>2. a.ok \in BOOLEAN /\ a.req.view \in Nat
    BY <2>1, AnswerParts
  <2>3. stack' \in Seq(Screen)
    BY <1>15, <2>2, PublishedStack DEF WrittenDone
  <2>4. mainQueue' \in Seq(Answer)
    BY <1>15, <2>1, Queue DEF WrittenDone
  <2>5. client' \in BOOLEAN
    BY <1>15, Zenon DEF WrittenDone
  <2> QED
    BY <1>15, <2>3, <2>4, <2>5 DEF WrittenDone
<1>16. CASE Kill
  <2>1. /\ End(mainQueue, posted)
        /\ UNCHANGED <<accounts, userDocs, current, realm, presses, moves, overlapped,
                       signedOut, refused>>
    BY <1>16 DEF Kill
  <2>2. mainQueue \in Seq(Answer) /\ posted \in SUBSET UserWrite
    OBVIOUS
  <2> QED
    BY <2>1, <2>2, EndTypes
<1>17. CASE Launch
  BY <1>2, <1>17 DEF Launch, sdk
<1>18. ASSUME NEW w \in posted, StoreWrite(w)
       PROVE  TypeOK'
  BY <1>18 DEF StoreWrite
<1>19. CASE UNCHANGED vars
  BY <1>19 DEF vars
<1> QED
  BY <1>3, <1>4, <1>5, <1>6, <1>7, <1>8, <1>9, <1>10, <1>11, <1>13, <1>14, <1>15,
     <1>16, <1>17, <1>18, <1>19 DEF Next

-----------------------------------------------------------------------------
(* What the callbacks have in common *)

\* The document a callback sends.
Docs(a) == IF SignedUp(a) THEN {NewWrite(a.req)} ELSE {}

\* The app ends in realm.add: the sign-ups still queued and the documents not on
\* disk are lost.
Ended(a) == End(Tail(mainQueue), posted \cup Docs(a)) /\ realm' = realm

\* The callback of answer a runs to its end, and its result may be published;
\* that of a sign-up is published when its document was written.
Finished(a) ==
    /\ stack' \in Seq(Screen) /\ Raised(stack', a.req.view, a.ok)
    /\ SignedUp(a) => stack' = stack
    /\ mainQueue' = Tail(mainQueue)
    /\ posted' = posted \cup Docs(a)
    /\ UNCHANGED <<requests, writes, faulty>>
    /\ \/ realm' = realm
       \/ /\ a.kind \in Forms /\ a.ok
          /\ realm' = Append(realm, Login(a.req.email, a.req.password))

\* A callback takes the first answer, sends the document of a sign-up that
\* succeeded, and either finishes or ends the app.
LEMMA CallbackStep ==
  ASSUME TypeOK, Callback
  PROVE  LET a == Head(mainQueue) IN
         /\ mainQueue # <<>>
         /\ UNCHANGED <<accounts, userDocs, current, moves, overlapped, signedOut>>
         /\ Ended(a) \/ Finished(a)
<1> DEFINE a == Head(mainQueue)
<1>1. /\ mainQueue # <<>>
      /\ a \in Answer
      /\ stack \in Seq(Screen)
  BY Queue DEF TypeOK, Callback, SignInDone, SignUpDone, WrittenDone, Ready
<1>2. a.ok \in BOOLEAN /\ a.req.view \in Nat
  BY <1>1, AnswerParts
<1>3. /\ Published(a.req.view, a.ok) \in Seq(Screen)
      /\ Raised(Published(a.req.view, a.ok), a.req.view, a.ok)
  BY <1>2, PublishedStack
<1>4. Raised(stack, a.req.view, a.ok)
  BY <1>1 DEF Raised
<1> HIDE DEF a
<1>5. CASE SignInDone
  <2>1. /\ a.kind = "signIn"
        /\ WriteData(Published(a.req.view, a.ok), {}, a.req.email, a.req.password,
                     a.ok /\ a.req.remember)
        /\ UNCHANGED <<accounts, userDocs, current, moves, overlapped, signedOut>>
    BY <1>5 DEF SignInDone, Ready, a
  <2>2. Docs(a) = {} /\ ~SignedUp(a)
    BY <2>1 DEF Docs, SignedUp
  <2>3. Ended(a) \/ Finished(a)
    BY <1>3, <2>1, <2>2 DEF WriteData, Ended, Finished, Forms
  <2> QED
    BY <1>1, <2>1, <2>3 DEF a
<1>6. CASE SignUpDone
  <2>1. /\ a.kind = "signUp"
        /\ UNCHANGED <<accounts, userDocs, current, moves, overlapped, signedOut>>
    BY <1>6 DEF SignUpDone, Ready, a
  <2>2. CASE a.ok
    <3>1. WriteData(stack, {NewWrite(a.req)}, a.req.email, a.req.password, a.req.remember)
      BY <1>6, <2>2 DEF SignUpDone, a
    <3>2. Docs(a) = {NewWrite(a.req)}
      BY <2>1, <2>2 DEF Docs, SignedUp
    <3>3. Ended(a) \/ Finished(a)
      BY <1>1, <1>4, <2>1, <2>2, <3>1, <3>2 DEF WriteData, Ended, Finished, Forms
    <3> QED
      BY <1>1, <2>1, <3>3 DEF a
  <2>3. CASE ~a.ok
    <3>1. WriteData(Published(a.req.view, FALSE), {}, a.req.email, a.req.password, FALSE)
      BY <1>6, <2>3 DEF SignUpDone, a
    <3>2. a.ok = FALSE
      BY <1>2, <2>3
    <3>3. Docs(a) = {} /\ ~SignedUp(a)
      BY <2>3 DEF Docs, SignedUp
    <3>4. Finished(a)
      BY <1>3, <3>1, <3>2, <3>3 DEF WriteData, Finished
    <3> QED
      BY <1>1, <2>1, <3>4 DEF a
  <2> QED
    BY <2>2, <2>3
<1>7. CASE WrittenDone
  <2>1. /\ a.kind = "written"
        /\ stack' = Published(a.req.view, a.ok)
        /\ mainQueue' = Tail(mainQueue)
        /\ UNCHANGED <<accounts, userDocs, current, realm, requests, posted, writes, moves,
                       overlapped, faulty, signedOut>>
    BY <1>7 DEF WrittenDone, Ready, a
  <2>2. Docs(a) = {} /\ ~SignedUp(a)
    BY <2>1 DEF Docs, SignedUp
  <2>3. Finished(a)
    BY <1>3, <2>1, <2>2 DEF Finished
  <2> QED
    BY <1>1, <2>1, <2>3 DEF a
<1> QED
  BY <1>5, <1>6, <1>7 DEF Callback

-----------------------------------------------------------------------------
(* The stores agree *)

\* Opening, leaving and filling in screens touches no store and no answer.
LEMMA StoresUntouched ==
  ASSUME [Next]_vars
  PROVE  \/ UNCHANGED <<accounts, userDocs, realm, posted, writes, mainQueue, faulty>>
         \/ SignOut
         \/ \E r \in requests : Accept(r) \/ Refuse(r)
         \/ \E w \in posted : StoreWrite(w)
         \/ \E w \in writes : SettleWrite(w)
         \/ Callback
         \/ Kill
BY DEF Next, vars, sdk, Callback, OpenSignIn, OpenSignUp, Press, PressTooShort, Back, Launch

\* An account that has a password keeps it.
LEMMA AccountsKept ==
  ASSUME TypeOK, [Next]_vars
  PROVE  \A e \in Emails : accounts[e] # NoAccount => accounts'[e] = accounts[e]
<1>1. accounts \in [Emails -> Passwords \cup {NoAccount}]
  BY DEF TypeOK
<1>2. ASSUME NEW r \in requests, Accept(r) \/ Refuse(r)
      PROVE  \/ UNCHANGED accounts
             \/ /\ accounts[r.email] = NoAccount
                /\ accounts' = [accounts EXCEPT ![r.email] = r.password]
  BY <1>2 DEF Accept, Refuse
<1>3. CASE \E r \in requests : Accept(r) \/ Refuse(r)
  BY <1>1, <1>2, <1>3
<1>4. CASE Callback
  BY <1>4, CallbackStep
<1>5. CASE UNCHANGED accounts
  BY <1>5
<1> QED
  BY <1>3, <1>4, <1>5, StoresUntouched DEF SignOut, StoreWrite, SettleWrite, Kill

LEMMA NextCredentials ==
  ASSUME TypeOK, Credentials, [Next]_vars
  PROVE  Credentials'
<1>1. \A e \in Emails : accounts[e] # NoAccount => accounts'[e] = accounts[e]
  BY AccountsKept
<1>2. /\ realm \in Seq(RememberData)
      /\ mainQueue \in Seq(Answer)
      /\ requests \subseteq Request
  BY DEF TypeOK
<1>3. \A k \in DOMAIN realm : accounts'[realm[k].login] = realm[k].password
  <2>1. \A k \in DOMAIN realm : realm[k] \in RememberData
    BY <1>2
  <2> QED
    BY <1>1, <2>1, NoAccountAssumption DEF Credentials, RememberData
<1>4. \A k \in DOMAIN mainQueue : mainQueue[k].kind \in Forms /\ mainQueue[k].ok =>
        accounts'[mainQueue[k].req.email] = mainQueue[k].req.password
  <2>1. \A k \in DOMAIN mainQueue : mainQueue[k] \in Answer
    BY <1>2
  <2>2. \A k \in DOMAIN mainQueue : mainQueue[k].kind \in Forms =>
          /\ mainQueue[k].req.email \in Emails
          /\ mainQueue[k].req.password # NoAccount
    BY <2>1, AnswerParts, NoAccountAssumption DEF Request
  <2> QED
    BY <1>1, <2>2 DEF Credentials
<1>5. CASE UNCHANGED <<accounts, userDocs, realm, posted, writes, mainQueue, faulty>>
  BY <1>5 DEF Credentials
<1>6. CASE SignOut
  BY <1>4, <1>6 DEF SignOut, DeleteRealmData, Credentials
<1>7. ASSUME NEW r \in requests, Accept(r)
      PROVE  Credentials'
  <2> DEFINE a == [kind |-> r.kind, ok |-> TRUE, req |-> r]
  <2>1. accounts'[r.email] = r.password
    BY <1>2, <1>7 DEF Accept, Request, TypeOK
  <2>2. mainQueue' = Append(mainQueue, a) /\ UNCHANGED realm
    BY <1>7 DEF Accept
  <2>3. a.req = r
    OBVIOUS
  <2> HIDE DEF a
  <2>4. \A k \in DOMAIN mainQueue' :
          \/ mainQueue'[k] = a
          \/ k \in DOMAIN mainQueue /\ mainQueue'[k] = mainQueue[k]
    BY <1>2, <2>2
  <2> QED
    BY <1>3, <1>4, <2>1, <2>2, <2>3, <2>4 DEF Credentials
<1>8. ASSUME NEW r \in requests, Refuse(r)
      PROVE  Credentials'
  <2> DEFINE a == [kind |-> r.kind, ok |-> FALSE, req |-> r]
  <2>1. mainQueue' = Append(mainQueue, a) /\ UNCHANGED realm
    BY <1>8 DEF Refuse
  <2>2. ~a.ok
    OBVIOUS
  <2> HIDE DEF a
  <2>3. \A k \in DOMAIN mainQueue' :
          \/ mainQueue'[k] = a
          \/ k \in DOMAIN mainQueue /\ mainQueue'[k] = mainQueue[k]
    BY <1>2, <2>1
  <2> QED
    BY <1>3, <1>4, <2>1, <2>2, <2>3 DEF Credentials
<1>9. ASSUME NEW w \in writes, SettleWrite(w)
      PROVE  Credentials'
  <2>1. PICK ok \in BOOLEAN :
          mainQueue' = IF w.waited
                       THEN Append(mainQueue, [kind |-> "written", ok |-> ok, req |-> w])
                       ELSE mainQueue
    BY <1>9 DEF SettleWrite
  <2>2. \A k \in DOMAIN mainQueue' :
          \/ mainQueue'[k].kind = "written"
          \/ k \in DOMAIN mainQueue /\ mainQueue'[k] = mainQueue[k]
    BY <1>2, <2>1
  <2>3. UNCHANGED realm
    BY <1>9 DEF SettleWrite
  <2> QED
    BY <1>3, <1>4, <2>2, <2>3 DEF Credentials, Forms
<1>10. CASE Callback
  <2> DEFINE a == Head(mainQueue)
  <2>1. mainQueue # <<>> /\ (Ended(a) \/ Finished(a))
    BY <1>10, CallbackStep
  <2>2. a = mainQueue[1] /\ 1 \in DOMAIN mainQueue
    BY <1>2, <2>1, Queue
  <2>3. \A k \in DOMAIN Tail(mainQueue) :
          k + 1 \in DOMAIN mainQueue /\ Tail(mainQueue)[k] = mainQueue[k + 1]
    BY <1>2, <2>1, Queue
  <2>4. CASE Ended(a)
    BY <1>3, <2>4 DEF Ended, End, Credentials
  <2>5. CASE Finished(a)
    <3> HIDE DEF a
    <3>1. mainQueue' = Tail(mainQueue)
      BY <2>5 DEF Finished
    <3>2. \A k \in DOMAIN realm' : accounts'[realm'[k].login] = realm'[k].password
      <4>1. CASE realm' = realm
        BY <1>3, <4>1
      <4>2. CASE /\ a.kind \in Forms /\ a.ok
                 /\ realm' = Append(realm, Login(a.req.email, a.req.password))
        <5> DEFINE l == Login(a.req.email, a.req.password)
        <5>1. accounts'[l.login] = l.password
          BY <1>4, <2>2, <4>2 DEF Login
        <5> HIDE DEF l
        <5>2. realm' = Append(realm, l)
          BY <4>2 DEF l
        <5>3. \A k \in DOMAIN realm' :
                \/ realm'[k] = l
                \/ k \in DOMAIN realm /\ realm'[k] = realm[k]
          BY <1>2, <5>2
        <5> QED
          BY <1>3, <5>1, <5>3
      <4> QED
        BY <2>5, <4>1, <4>2 DEF Finished
    <3>3. \A k \in DOMAIN mainQueue' : mainQueue'[k].kind \in Forms /\ mainQueue'[k].ok =>
            accounts'[mainQueue'[k].req.email] = mainQueue'[k].req.password
      BY <1>4, <2>3, <3>1
    <3> QED
      BY <3>2, <3>3 DEF Credentials
  <2> QED
    BY <2>1, <2>4, <2>5
<1>11. CASE Kill
  BY <1>3, <1>11 DEF Kill, End, Credentials
<1>12. ASSUME NEW w \in posted, StoreWrite(w)
       PROVE  Credentials'
  BY <1>3, <1>4, <1>12 DEF StoreWrite, Credentials
<1> QED
  BY <1>5, <1>6, <1>7, <1>8, <1>9, <1>10, <1>11, <1>12, StoresUntouched

\* The end of the process loses no document that is on disk, and counts the
\* others as lost.
LEMMA EndSafe ==
  ASSUME TypeOK, NEW q, NEW handed, posted \subseteq handed, End(q, handed),
         userDocs' = userDocs
  PROVE  /\ Safe \subseteq Safe'
         /\ LostSignUps(q) \cup {w.email : w \in handed} \subseteq Safe'
<1>1. /\ writes' = Abandoned /\ faulty' = faulty \cup LostSignUps(q) \cup {w.email : w \in handed}
      /\ \A v \in writes : \E w \in writes' : w.email = v.email
  BY AbandonedWrites DEF End
<1> QED
  BY <1>1 DEF Safe, Sent

\* Whoever has a document, one on its way or a failure to show for keeps it.
LEMMA SafeKept ==
  ASSUME TypeOK, [Next]_vars
  PROVE  Safe \subseteq Safe'
<1>1. ASSUME NEW w \in writes, SettleWrite(w)
      PROVE  Safe \subseteq Safe'
  BY <1>1 DEF Safe, Sent, SettleWrite
<1>2. CASE Callback
  <2> DEFINE a == Head(mainQueue)
  <2>1. userDocs' = userDocs /\ (Ended(a) \/ Finished(a))
    BY <1>2, CallbackStep
  <2> HIDE DEF a
  <2>2. CASE Ended(a)
    BY <2>1, <2>2, EndSafe DEF Ended
  <2>3. CASE Finished(a)
    BY <2>1, <2>3 DEF Finished, Safe, Sent
  <2> QED
    BY <2>1, <2>2, <2>3
<1>3. CASE Kill
  BY <1>3, EndSafe DEF Kill
<1>4. ASSUME NEW w \in posted, StoreWrite(w)
      PROVE  Safe \subseteq Safe'
  BY <1>4 DEF Safe, Sent, StoreWrite
<1>5. CASE \/ UNCHANGED <<accounts, userDocs, realm, posted, writes, mainQueue, faulty>>
           \/ SignOut
           \/ \E r \in requests : Accept(r) \/ Refuse(r)
  BY <1>5 DEF Safe, Sent, SignOut, Accept, Refuse, sdk
<1> QED
  BY <1>1, <1>2, <1>3, <1>4, <1>5, StoresUntouched

LEMMA NextDocuments ==
  ASSUME TypeOK, Credentials, Documents, [Next]_vars
  PROVE  Documents'
<1>1. Safe \subseteq Safe'
  BY SafeKept
<1>2. /\ realm \in Seq(RememberData)
      /\ mainQueue \in Seq(Answer)
      /\ Len(mainQueue) \in Nat /\ DOMAIN mainQueue = 1..Len(mainQueue)
      /\ requests \subseteq Request
      /\ accounts \in [Emails -> Passwords \cup {NoAccount}]
  BY DEF TypeOK
<1>3. CASE UNCHANGED <<accounts, userDocs, realm, posted, writes, mainQueue, faulty>>
  BY <1>3 DEF Documents, Safe, Sent
<1>4. CASE SignOut
  BY <1>4 DEF SignOut, DeleteRealmData, Documents, Safe, Sent, sdk
<1>5. ASSUME NEW a, mainQueue' = Append(mainQueue, a)
      PROVE  /\ DOMAIN mainQueue' = 1..(Len(mainQueue) + 1)
             /\ mainQueue'[Len(mainQueue) + 1] = a
             /\ \A k \in DOMAIN mainQueue : k \in DOMAIN mainQueue' /\ mainQueue'[k] = mainQueue[k]
  BY <1>2, <1>5
<1>6. ASSUME NEW r \in requests, Accept(r)
      PROVE  Documents'
  <2> DEFINE a == [kind |-> r.kind, ok |-> TRUE, req |-> r]
             n == Len(mainQueue) + 1
  <2>1. /\ mainQueue' = Append(mainQueue, a)
        /\ UNCHANGED <<userDocs, realm, faulty>>
    BY <1>6 DEF Accept
  <2>2. r \in Request /\ r.email \in Emails /\ r.password \in Passwords
        /\ r.kind \in {"signIn", "signUp"}
    BY <1>2 DEF Request
  <2>3. a.req = r /\ a.kind = r.kind /\ a.ok
    OBVIOUS
  <2> HIDE DEF a
  <2>4. /\ DOMAIN mainQueue' = 1..n /\ n \in DOMAIN mainQueue'
        /\ mainQueue'[n] = a
        /\ \A k \in DOMAIN mainQueue : k \in DOMAIN mainQueue' /\ mainQueue'[k] = mainQueue[k]
    BY <1>2, <1>5, <2>1
  <2>5. ASSUME NEW e \in Emails, accounts'[e] # NoAccount
        PROVE  \/ e \in Safe'
               \/ \E j \in DOMAIN mainQueue' : /\ SignedUp(mainQueue'[j])
                                               /\ mainQueue'[j].req.email = e
    <3>1. CASE accounts[e] # NoAccount
      BY <1>1, <2>4, <3>1 DEF Documents
    <3>2. CASE accounts[e] = NoAccount
      <4>1. e = r.email /\ r.kind = "signUp"
        BY <1>2, <1>6, <2>2, <2>5, <3>2 DEF Accept
      <4> QED
        BY <2>3, <2>4, <4>1 DEF SignedUp
    <3> QED
      BY <3>1, <3>2
  <2>6. \A k \in DOMAIN realm' : realm'[k].login \in Safe'
    BY <1>1, <2>1 DEF Documents
  <2>7. ASSUME NEW k \in DOMAIN mainQueue', mainQueue'[k].kind = "signIn", mainQueue'[k].ok
        PROVE  \/ mainQueue'[k].req.email \in Safe'
               \/ \E j \in 1..(k - 1) : /\ SignedUp(mainQueue'[j])
                                        /\ mainQueue'[j].req.email = mainQueue'[k].req.email
    <3>1. CASE k \in DOMAIN mainQueue
      <4>1. \/ mainQueue[k].req.email \in Safe
            \/ \E j \in 1..(k - 1) : /\ SignedUp(mainQueue[j])
                                     /\ mainQueue[j].req.email = mainQueue[k].req.email
        BY <2>4, <2>7, <3>1 DEF Documents
      <4>2. \A j \in 1..(k - 1) : mainQueue'[j] = mainQueue[j]
        BY <1>2, <2>4, <3>1
      <4> QED
        BY <1>1, <2>4, <3>1, <4>1, <4>2
    <3>2. CASE k = n
      <4>1. r.kind = "signIn" /\ mainQueue'[k].req = r
        BY <2>3, <2>4, <2>7, <3>2
      <4>2. accounts[r.email] # NoAccount
        BY <1>6, <2>2, <4>1, NoAccountAssumption DEF Accept
      <4>3. \/ r.email \in Safe
            \/ \E j \in DOMAIN mainQueue : SignedUp(mainQueue[j]) /\ mainQueue[j].req.email = r.email
        BY <2>2, <4>2 DEF Documents
      <4>4. \A j \in DOMAIN mainQueue : j \in 1..(k - 1) /\ mainQueue'[j] = mainQueue[j]
        BY <1>2, <2>4, <3>2
      <4>5. CASE r.email \in Safe
        BY <1>1, <4>1, <4>5
      <4>6. ASSUME NEW j \in DOMAIN mainQueue, SignedUp(mainQueue[j]),
                   mainQueue[j].req.email = r.email
            PROVE  \E i \in 1..(k - 1) : /\ SignedUp(mainQueue'[i])
                                         /\ mainQueue'[i].req.email = mainQueue'[k].req.email
        BY <4>1, <4>4, <4>6
      <4>7. CASE \E j \in DOMAIN mainQueue : SignedUp(mainQueue[j]) /\ mainQueue[j].req.email = r.email
        BY <4>6, <4>7
      <4> QED
        BY <4>3, <4>5, <4>7
    <3>3. k \in DOMAIN mainQueue \/ k = n
      BY <1>2, <2>4
    <3> QED
      BY <3>1, <3>2, <3>3
  <2> QED
    BY <2>5, <2>6, <2>7 DEF Documents
<1>7. ASSUME NEW a, mainQueue' = Append(mainQueue, a),
             \/ ~a.ok
             \/ a.kind = "written",
             UNCHANGED realm,
             \A e \in Emails : accounts'[e] = accounts[e] \/ e \in Safe'
      PROVE  Documents'
  <2>1. /\ DOMAIN mainQueue' = 1..(Len(mainQueue) + 1)
        /\ mainQueue'[Len(mainQueue) + 1] = a
        /\ \A k \in DOMAIN mainQueue : k \in DOMAIN mainQueue' /\ mainQueue'[k] = mainQueue[k]
    BY <1>5, <1>7
  <2>2. ASSUME NEW e \in Emails, accounts'[e] # NoAccount
        PROVE  \/ e \in Safe'
               \/ \E j \in DOMAIN mainQueue' : /\ SignedUp(mainQueue'[j])
                                               /\ mainQueue'[j].req.email = e
    BY <1>1, <1>7, <2>1, <2>2 DEF Documents
  <2>3. \A k \in DOMAIN realm' : realm'[k].login \in Safe'
    BY <1>1, <1>7 DEF Documents
  <2>4. ASSUME NEW k \in DOMAIN mainQueue', mainQueue'[k].kind = "signIn", mainQueue'[k].ok
        PROVE  \/ mainQueue'[k].req.email \in Safe'
               \/ \E j \in 1..(k - 1) : /\ SignedUp(mainQueue'[j])
                                        /\ mainQueue'[j].req.email = mainQueue'[k].req.email
    <3>1. k \in DOMAIN mainQueue
      BY <1>2, <1>7, <2>1, <2>4
    <3>2. \/ mainQueue[k].req.email \in Safe
          \/ \E j \in 1..(k - 1) : /\ SignedUp(mainQueue[j])
                                   /\ mainQueue[j].req.email = mainQueue[k].req.email
      BY <2>1, <2>4, <3>1 DEF Documents
    <3>3. \A j \in 1..(k - 1) : mainQueue'[j] = mainQueue[j]
      BY <1>2, <2>1, <3>1
    <3> QED
      BY <1>1, <2>1, <3>1, <3>2, <3>3
  <2> QED
    BY <2>2, <2>3, <2>4 DEF Documents
<1>8. ASSUME NEW r \in requests, Refuse(r)
      PROVE  Documents'
  <2> DEFINE a == [kind |-> r.kind, ok |-> FALSE, req |-> r]
  <2>1. mainQueue' = Append(mainQueue, a) /\ UNCHANGED realm
    BY <1>8 DEF Refuse
  <2>2. \A e \in Emails : accounts'[e] = accounts[e] \/ e \in Safe'
    BY <1>2, <1>8 DEF Refuse, Safe
  <2>3. ~a.ok
    OBVIOUS
  <2> HIDE DEF a
  <2> QED
    BY <1>7, <2>1, <2>2, <2>3
<1>9. ASSUME NEW w \in writes, SettleWrite(w)
      PROVE  Documents'
  <2>1. UNCHANGED <<realm, accounts>>
    BY <1>9 DEF SettleWrite
  <2>2. PICK ok \in BOOLEAN :
          mainQueue' = IF w.waited
                       THEN Append(mainQueue, [kind |-> "written", ok |-> ok, req |-> w])
                       ELSE mainQueue
    BY <1>9 DEF SettleWrite
  <2>3. CASE w.waited
    <3> DEFINE a == [kind |-> "written", ok |-> ok, req |-> w]
    <3>1. mainQueue' = Append(mainQueue, a) /\ a.kind = "written"
      BY <2>2, <2>3
    <3> HIDE DEF a
    <3> QED
      BY <1>7, <2>1, <3>1
  <2>4. CASE ~w.waited
    BY <1>1, <2>1, <2>2, <2>4 DEF Documents
  <2> QED
    BY <2>3, <2>4
<1>10. CASE Callback
  <2> DEFINE a == Head(mainQueue)
  <2>1. /\ mainQueue # <<>> /\ (Ended(a) \/ Finished(a))
        /\ UNCHANGED <<accounts, userDocs>>
    BY <1>10, CallbackStep
  <2>2. SignedUp(a) => a.req.email \in Safe'
    <3> HIDE DEF a
    <3>1. ASSUME SignedUp(a)
          PROVE  /\ Docs(a) = {NewWrite(a.req)}
                 /\ NewWrite(a.req).email = a.req.email
      BY <3>1 DEF Docs, NewWrite
    <3>2. CASE Ended(a)
      <4>1. {w.email : w \in posted \cup Docs(a)} \subseteq Safe'
        BY <2>1, <3>2, EndSafe DEF Ended
      <4> QED
        BY <3>1, <4>1
    <3>3. CASE Finished(a)
      BY <3>1, <3>3 DEF Finished, Safe, Sent
    <3> QED
      BY <2>1, <3>2, <3>3
  <2>3. a = mainQueue[1] /\ 1 \in DOMAIN mainQueue
    BY <1>2, <2>1, Queue
  <2>4. /\ \A k \in DOMAIN Tail(mainQueue) :
             k + 1 \in DOMAIN mainQueue /\ Tail(mainQueue)[k] = mainQueue[k + 1]
        /\ \A k \in DOMAIN mainQueue : k = 1 \/ k - 1 \in DOMAIN Tail(mainQueue)
        /\ DOMAIN Tail(mainQueue) = 1..(Len(mainQueue) - 1)
    <3>1. Tail(mainQueue) \in Seq(Answer) /\ Len(Tail(mainQueue)) = Len(mainQueue) - 1
      BY <1>2, <2>1, Queue
    <3> QED
      BY <1>2, <2>1, <3>1, Queue
  <2> HIDE DEF a
  <2>5. ASSUME NEW e \in Emails, accounts[e] # NoAccount
        PROVE  \/ e \in Safe'
               \/ \E j \in DOMAIN Tail(mainQueue) : /\ SignedUp(Tail(mainQueue)[j])
                                                    /\ Tail(mainQueue)[j].req.email = e
    <3>1. CASE e \in Safe
      BY <1>1, <3>1
    <3>2. ASSUME NEW j \in DOMAIN mainQueue, SignedUp(mainQueue[j]), mainQueue[j].req.email = e,
                 j # 1
          PROVE  \E i \in DOMAIN Tail(mainQueue) : /\ SignedUp(Tail(mainQueue)[i])
                                                   /\ Tail(mainQueue)[i].req.email = e
      <4>1. j - 1 \in DOMAIN Tail(mainQueue) /\ (j - 1) + 1 = j
        BY <1>2, <2>4, <3>2
      <4>2. Tail(mainQueue)[j - 1] = mainQueue[j]
        BY <2>4, <4>1
      <4> QED
        BY <3>2, <4>1, <4>2
    <3> QED
      BY <2>2, <2>3, <2>5, <3>1, <3>2 DEF Documents
  <2>6. CASE Ended(a)
    <3>1. \A j \in DOMAIN Tail(mainQueue) :
            SignedUp(Tail(mainQueue)[j]) => Tail(mainQueue)[j].req.email \in Safe'
      <4>1. LostSignUps(Tail(mainQueue)) \subseteq Safe'
        BY <2>1, <2>6, EndSafe DEF Ended
      <4> QED
        BY <4>1, LostSignUpsOf
    <3>2. \A e \in Emails : accounts'[e] # NoAccount => e \in Safe'
      BY <2>1, <2>5, <3>1
    <3> QED
      BY <1>1, <2>6, <3>2 DEF Ended, End, Documents
  <2>7. CASE Finished(a)
    <3>1. mainQueue' = Tail(mainQueue)
      BY <2>7 DEF Finished
    <3>2. a.kind \in Forms /\ a.ok => a.req.email \in Safe'
      <4>1. CASE a.kind = "signIn" /\ a.ok
        <5>1. ~ \E j \in 1..(1 - 1) : TRUE
          OBVIOUS
        <5> QED
          BY <1>1, <2>3, <4>1, <5>1 DEF Documents
      <4>2. CASE a.kind = "signUp" /\ a.ok
        BY <2>2, <4>2 DEF SignedUp
      <4> QED
        BY <4>1, <4>2 DEF Forms
    <3>3. \A k \in DOMAIN realm' : realm'[k].login \in Safe'
      <4>1. CASE realm' = realm
        BY <1>1, <4>1 DEF Documents
      <4>2. CASE /\ a.kind \in Forms /\ a.ok
                 /\ realm' = Append(realm, Login(a.req.email, a.req.password))
        <5> DEFINE l == Login(a.req.email, a.req.password)
        <5>1. l.login \in Safe'
          BY <3>2, <4>2 DEF Login
        <5> HIDE DEF l
        <5>2. realm' = Append(realm, l)
          BY <4>2 DEF l
        <5>3. \A k \in DOMAIN realm' :
                \/ realm'[k] = l
                \/ k \in DOMAIN realm /\ realm'[k] = realm[k]
          BY <1>2, <5>2
        <5> QED
          BY <1>1, <5>1, <5>3 DEF Documents
      <4> QED
        BY <2>7, <4>1, <4>2 DEF Finished
    <3>4. ASSUME NEW k \in DOMAIN mainQueue', mainQueue'[k].kind = "signIn", mainQueue'[k].ok
          PROVE  \/ mainQueue'[k].req.email \in Safe'
                 \/ \E j \in 1..(k - 1) : /\ SignedUp(mainQueue'[j])
                                          /\ mainQueue'[j].req.email = mainQueue'[k].req.email
      <4>1. /\ k \in Nat /\ k + 1 \in DOMAIN mainQueue
            /\ mainQueue'[k] = mainQueue[k + 1]
            /\ (k + 1) - 1 = k
        BY <2>4, <3>1, <3>4
      <4>2. \/ mainQueue[k + 1].req.email \in Safe
            \/ \E j \in 1..((k + 1) - 1) : /\ SignedUp(mainQueue[j])
                                           /\ mainQueue[j].req.email = mainQueue[k + 1].req.email
        BY <3>4, <4>1 DEF Documents
      <4>3. ASSUME NEW j \in 1..k, SignedUp(mainQueue[j]),
                   mainQueue[j].req.email = mainQueue'[k].req.email, j # 1
            PROVE  \E i \in 1..(k - 1) : /\ SignedUp(mainQueue'[i])
                                         /\ mainQueue'[i].req.email = mainQueue'[k].req.email
        <5>1. j - 1 \in 1..(k - 1) /\ j - 1 \in DOMAIN Tail(mainQueue) /\ (j - 1) + 1 = j
          BY <2>4, <3>1, <4>1, <4>3
        <5>2. mainQueue'[j - 1] = mainQueue[j]
          BY <2>4, <3>1, <5>1
        <5> QED
          BY <4>3, <5>1, <5>2
      <4> QED
        BY <1>1, <2>2, <2>3, <4>1, <4>2, <4>3
    <3> QED
      BY <2>1, <2>5, <3>1, <3>3, <3>4 DEF Documents
  <2> QED
    BY <2>1, <2>6, <2>7
<1>11. CASE Kill
  <2>1. \A j \in DOMAIN mainQueue : SignedUp(mainQueue[j]) => mainQueue[j].req.email \in Safe'
    <3>1. LostSignUps(mainQueue) \subseteq Safe'
      BY <1>11, EndSafe DEF Kill
    <3> QED
      BY <3>1, LostSignUpsOf
  <2>2. \A e \in Emails : accounts'[e] # NoAccount => e \in Safe'
    BY <1>1, <1>11, <2>1 DEF Kill, Documents
  <2>3. mainQueue' = <<>> /\ realm' = realm
    BY <1>11 DEF Kill, End
  <2> QED
    BY <1>1, <2>2, <2>3 DEF Documents
<1>12. ASSUME NEW w \in posted, StoreWrite(w)
       PROVE  Documents'
  BY <1>1, <1>12 DEF StoreWrite, Documents
<1> QED
  BY <1>3, <1>4, <1>6, <1>8, <1>9, <1>10, <1>11, <1>12, StoresUntouched

-----------------------------------------------------------------------------
(* The screens *)

\* Every step but these leaves the screens alone or replaces them by
\* FirstView or by nothing.
LEMMA ScreensUntouched ==
  ASSUME [Next]_vars
  PROVE  \/ UNCHANGED stack
         \/ OpenSignIn \/ OpenSignUp \/ PressTooShort \/ Back
         \/ stack' = <<FirstView>>
         \/ stack' = <<>>
         \/ Callback
BY DEF Next, vars, Callback, Press, SignOut, Accept, Refuse, StoreWrite, SettleWrite, Kill, End,
       Launch

\* Opening a form appends it.
LEMMA OpenedStack ==
  ASSUME TypeOK, OpenSignIn \/ OpenSignUp
  PROVE  \E form \in Forms :
           LET s == NewScreen(form, moves) IN
           /\ stack' = Append(stack, s)
           /\ s.view = form /\ s.id = moves /\ s.email = Nobody /\ s.login = FALSE
           /\ stack \in Seq(Screen) /\ stack # <<>> /\ stack[Len(stack)].view = "first"
           /\ moves' = moves + 1 /\ moves \in Nat
           /\ UNCHANGED <<current, mainQueue>>
<1>1. stack \in Seq(Screen) /\ stack # <<>> /\ stack[Len(stack)].view = "first" /\ moves \in Nat
  BY DEF TypeOK, OpenSignIn, OpenSignUp, On, Running, Top
<1>2. CASE OpenSignIn
  <2>1. "signIn" \in Forms
    BY DEF Forms
  <2> WITNESS "signIn" \in Forms
  <2> QED
    BY <1>1, <1>2 DEF OpenSignIn, NewScreen
<1>3. CASE OpenSignUp
  <2>1. "signUp" \in Forms
    BY DEF Forms
  <2> WITNESS "signUp" \in Forms
  <2> QED
    BY <1>1, <1>3 DEF OpenSignUp, NewScreen
<1> QED
  BY <1>2, <1>3

LEMMA NextShape ==
  ASSUME TypeOK, Shape, [Next]_vars
  PROVE  Shape'
<1>1. /\ stack \in Seq(Screen) /\ Len(stack) \in Nat
      /\ DOMAIN stack = 1..Len(stack)
  BY DEF TypeOK
<1>2. stack' \in Seq(Screen) /\ Len(stack') \in Nat /\ DOMAIN stack' = 1..Len(stack')
  BY NextTypeOK DEF TypeOK
<1>3. CASE UNCHANGED stack
  BY <1>3 DEF Shape
<1>4. CASE OpenSignIn \/ OpenSignUp
  <2>1. PICK form \in Forms : /\ stack' = Append(stack, NewScreen(form, moves))
                              /\ NewScreen(form, moves).view = form
                              /\ stack # <<>> /\ stack[Len(stack)].view = "first"
    BY <1>4, OpenedStack
  <2>2. Len(stack) = 1
    BY <1>1, <2>1 DEF Shape
  <2>3. /\ DOMAIN stack' = 1..2 /\ stack'[1] = stack[1]
        /\ stack'[2].view = form
    <3> DEFINE s == NewScreen(form, moves)
    <3>1. stack' = Append(stack, s) /\ s.view = form
      BY <2>1
    <3> HIDE DEF s
    <3>2. /\ Len(stack') = Len(stack) + 1
          /\ stack'[Len(stack) + 1] = s
          /\ \A k \in 1..Len(stack) : stack'[k] = stack[k]
      BY <1>1, <3>1
    <3> QED
      BY <1>2, <2>2, <3>1, <3>2
  <2> QED
    BY <1>1, <2>2, <2>3 DEF Shape, Forms
<1>5. ASSUME NEW view, NEW value, Raised(stack', view, value)
      PROVE  Shape'
  <2>1. ASSUME NEW k \in DOMAIN stack'
        PROVE  /\ stack'[k].view = "first" <=> k = 1
               /\ stack'[k].view \in Forms <=> k = 2
               /\ stack'[k].view = "main" <=> k > 2
    <3>1. CASE k \in DOMAIN stack
      BY <1>5, <3>1 DEF Shape, Raised
    <3>2. CASE k \notin DOMAIN stack
      <4>1. stack'[k].view = "main" /\ Len(stack) < Len(stack')
        BY <1>1, <1>2, <1>5, <3>2 DEF Raised
      <4>2. 2 \in DOMAIN stack
        BY <1>5, <4>1 DEF Raised, Shape
      <4> QED
        BY <1>1, <1>2, <3>2, <4>1, <4>2 DEF Forms
    <3> QED
      BY <3>1, <3>2
  <2> QED
    BY <2>1 DEF Shape
<1>6. CASE PressTooShort
  <2>1. Raised(stack', Top.id, FALSE)
    BY <1>6, PublishedStack, TopScreen DEF PressTooShort, On
  <2> QED
    BY <1>5, <2>1
<1>7. CASE Back
  <2>1. Len(stack) > 1
    BY <1>7 DEF Back
  <2>2. ASSUME NEW k \in DOMAIN stack'
        PROVE  /\ stack'[k].view = "first" <=> k = 1
               /\ stack'[k].view \in Forms <=> k = 2
               /\ stack'[k].view = "main" <=> k > 2
    <3>1. CASE k <= Len(stack) - 1
      <4>1. k \in 1..(Len(stack) - 1) /\ k \in DOMAIN stack
        BY <1>1, <1>2, <3>1
      <4>2. stack'[k].view = stack[k].view
        BY <1>7, <4>1, BackStack
      <4> QED
        BY <4>1, <4>2 DEF Shape
    <3>2. CASE ~ (k <= Len(stack) - 1)
      <4>1. k >= Len(stack) /\ Len(stack') >= Len(stack)
        BY <1>1, <1>2, <3>2
      <4>2. stack'[k].view = "main" /\ stack[Len(stack) - 1].view = "signUp"
        BY <1>7, <4>1, BackStack
      <4>3. Len(stack) = 3
        <5>1. Len(stack) - 1 \in DOMAIN stack
          BY <1>1, <2>1
        <5>2. Len(stack) - 1 = 2
          BY <4>2, <5>1 DEF Shape, Forms
        <5>3. Len(stack) \in Int
          BY <1>1
        <5> QED
          BY <5>2, <5>3
      <4> QED
        <5>1. k \in Nat
          BY <1>2
        <5>2. k > 2 /\ k # 1 /\ k # 2
          BY <4>1, <4>3, <5>1
        <5> QED
          BY <4>2, <5>2 DEF Forms
    <3> QED
      BY <3>1, <3>2
  <2> QED
    BY <2>2 DEF Shape
<1>8. CASE stack' = <<FirstView>>
  <2>1. stack'[1].view = "first" /\ DOMAIN stack' = {1}
    BY <1>8 DEF FirstView, NewScreen
  <2> QED
    BY <2>1 DEF Shape, Forms
<1>9. CASE stack' = <<>>
  BY <1>9 DEF Shape
<1>10. CASE Callback
  <2>1. stack' = <<>> \/ Raised(stack', Head(mainQueue).req.view, Head(mainQueue).ok)
    BY <1>10, CallbackStep DEF Ended, End, Finished
  <2> QED
    BY <1>5, <1>9, <2>1
<1> QED
  BY <1>3, <1>4, <1>6, <1>7, <1>8, <1>9, <1>10, ScreensUntouched

\* The screens after a step, one by one: kept, opened, raised by a success,
\* or FirstView.
LEMMA ScreenSteps ==
  ASSUME TypeOK, [Next]_vars, NEW k \in DOMAIN stack'
  PROVE  \/ /\ k \in DOMAIN stack
            /\ stack'[k].view = stack[k].view
            /\ stack'[k].id = stack[k].id
            /\ stack'[k].email = stack[k].email
            /\ stack'[k].login => \/ stack[k].login
                                  \/ /\ mainQueue # <<>> /\ Head(mainQueue).ok
                                     /\ stack[k].id = Head(mainQueue).req.view
                                     /\ stack[k].view \in Forms
         \/ /\ stack'[k].view \in Forms
            /\ stack'[k].id = moves /\ moves' = moves + 1
            /\ ~stack'[k].login
         \/ /\ stack'[k].view = "main" /\ stack'[k].email = current /\ current' = current
            /\ \E j \in DOMAIN stack :
                 \/ stack[j].view = "signUp" /\ stack[j].login
                 \/ /\ mainQueue # <<>> /\ Head(mainQueue).ok
                    /\ stack[j].id = Head(mainQueue).req.view
                    /\ stack[j].view \in Forms
         \/ stack'[k].view = "first"
<1>1. /\ stack \in Seq(Screen) /\ Len(stack) \in Nat
      /\ DOMAIN stack = 1..Len(stack)
  BY DEF TypeOK
<1>2. /\ stack' \in Seq(Screen) /\ Len(stack') \in Nat
      /\ DOMAIN stack' = 1..Len(stack')
  BY NextTypeOK DEF TypeOK
<1>3. CASE UNCHANGED stack
  BY <1>3
<1>4. CASE OpenSignIn \/ OpenSignUp
  <2>1. PICK form \in Forms : /\ stack' = Append(stack, NewScreen(form, moves))
                              /\ NewScreen(form, moves).view = form
                              /\ NewScreen(form, moves).id = moves
                              /\ NewScreen(form, moves).login = FALSE
                              /\ moves' = moves + 1
    BY <1>4, OpenedStack
  <2> DEFINE s == NewScreen(form, moves)
  <2>2. stack' = Append(stack, s) /\ s.view = form /\ s.id = moves /\ ~s.login
    BY <2>1
  <2> HIDE DEF s
  <2>3. stack'[k] = s \/ (k \in DOMAIN stack /\ stack'[k] = stack[k])
    BY <1>1, <2>2
  <2> QED
    BY <2>1, <2>2, <2>3
<1>5. CASE PressTooShort
  <2>1. Raised(stack', Top.id, FALSE)
    BY <1>5, PublishedStack, TopScreen DEF PressTooShort, On
  <2>2. k \in DOMAIN stack
    BY <1>1, <1>2, <2>1 DEF Raised
  <2> QED
    BY <2>1, <2>2 DEF Raised
<1>6. CASE Back
  <2>1. Len(stack) > 1 /\ current' = current
    BY <1>6 DEF Back
  <2>2. CASE k <= Len(stack) - 1
    <3>1. k \in 1..(Len(stack) - 1) /\ k \in DOMAIN stack
      BY <1>1, <1>2, <2>2
    <3> QED
      BY <1>6, <3>1, BackStack
  <2>3. CASE ~ (k <= Len(stack) - 1)
    <3>1. k >= Len(stack) /\ Len(stack') >= Len(stack)
      BY <1>1, <1>2, <2>3
    <3>2. /\ stack'[k].view = "main" /\ stack'[k].email = current
          /\ stack[Len(stack) - 1].view = "signUp"
          /\ stack[Len(stack) - 1].login
      BY <1>6, <3>1, BackStack
    <3>3. Len(stack) - 1 \in DOMAIN stack
      BY <1>1, <2>1
    <3> QED
      BY <2>1, <3>2, <3>3
  <2> QED
    BY <2>2, <2>3
<1>7. CASE stack' = <<FirstView>>
  <2>1. k = 1 /\ stack'[1] = FirstView
    BY <1>7
  <2> QED
    BY <2>1 DEF FirstView, NewScreen
<1>8. CASE stack' = <<>>
  BY <1>8
<1>9. CASE Callback
  <2> DEFINE a == Head(mainQueue)
  <2>1. mainQueue # <<>> /\ (Ended(a) \/ Finished(a)) /\ current' = current
    BY <1>9, CallbackStep
  <2>2. a.ok \in BOOLEAN
    BY <2>1, Queue, AnswerParts DEF TypeOK
  <2>3. CASE Finished(a)
    <3>1. Raised(stack', a.req.view, a.ok)
      BY <2>3 DEF Finished
    <3> HIDE DEF a
    <3>2. CASE k \in DOMAIN stack
      <4>1. /\ stack'[k].view = stack[k].view
            /\ stack'[k].id = stack[k].id
            /\ stack'[k].email = stack[k].email
            /\ stack'[k].login => \/ stack[k].login
                                  \/ a.ok /\ stack[k].id = a.req.view /\ stack[k].view \in Forms
        BY <3>1, <3>2 DEF Raised
      <4> QED
        BY <2>1, <3>2, <4>1 DEF a
    <3>3. CASE k \notin DOMAIN stack
      <4>1. Len(stack) < Len(stack')
        BY <1>1, <1>2, <3>3
      <4>2. /\ stack'[k].view = "main" /\ stack'[k].email = current
            /\ a.ok
            /\ \E j \in DOMAIN stack : stack[j].id = a.req.view /\ stack[j].view \in Forms
        BY <3>1, <3>3, <4>1 DEF Raised
      <4> QED
        BY <2>1, <4>2 DEF a
    <3> QED
      BY <3>2, <3>3
  <2> QED
    BY <1>8, <2>1, <2>3 DEF Ended, End
<1> QED
  BY <1>3, <1>4, <1>5, <1>6, <1>7, <1>8, <1>9, ScreensUntouched

\* The answers after a step: kept, or the answer of a request or a write.
LEMMA AnswerSteps ==
  ASSUME TypeOK, [Next]_vars, NEW k \in DOMAIN mainQueue'
  PROVE  \/ \E j \in DOMAIN mainQueue : mainQueue'[k] = mainQueue[j]
         \/ \E r \in requests : /\ mainQueue'[k].req = r
                                /\ mainQueue'[k].ok => current' = r.email
         \/ \E w \in writes : mainQueue'[k].req = w
<1>1. mainQueue \in Seq(Answer)
  BY DEF TypeOK
<1>2. ASSUME NEW a, mainQueue' = Append(mainQueue, a)
      PROVE  mainQueue'[k] = a \/ \E j \in DOMAIN mainQueue : mainQueue'[k] = mainQueue[j]
  BY <1>1, <1>2
<1>3. ASSUME NEW r \in requests, Accept(r)
      PROVE  \/ \E j \in DOMAIN mainQueue : mainQueue'[k] = mainQueue[j]
             \/ /\ mainQueue'[k].req = r
                /\ mainQueue'[k].ok => current' = r.email
  <2> DEFINE a == [kind |-> r.kind, ok |-> TRUE, req |-> r]
  <2>1. mainQueue' = Append(mainQueue, a) /\ current' = r.email /\ a.req = r
    BY <1>3 DEF Accept
  <2> HIDE DEF a
  <2> QED
    BY <1>2, <2>1
<1>4. ASSUME NEW r \in requests, Refuse(r)
      PROVE  \/ \E j \in DOMAIN mainQueue : mainQueue'[k] = mainQueue[j]
             \/ /\ mainQueue'[k].req = r
                /\ mainQueue'[k].ok => current' = r.email
  <2> DEFINE a == [kind |-> r.kind, ok |-> FALSE, req |-> r]
  <2>1. mainQueue' = Append(mainQueue, a) /\ a.req = r /\ ~a.ok
    BY <1>4 DEF Refuse
  <2> HIDE DEF a
  <2> QED
    BY <1>2, <2>1
<1>5. ASSUME NEW w \in writes, SettleWrite(w)
      PROVE  \/ \E j \in DOMAIN mainQueue : mainQueue'[k] = mainQueue[j]
             \/ mainQueue'[k].req = w
  <2>1. PICK ok \in BOOLEAN :
          mainQueue' = IF w.waited
                       THEN Append(mainQueue, [kind |-> "written", ok |-> ok, req |-> w])
                       ELSE mainQueue
    BY <1>5 DEF SettleWrite
  <2> DEFINE a == [kind |-> "written", ok |-> ok, req |-> w]
  <2>2. mainQueue' = Append(mainQueue, a) \/ mainQueue' = mainQueue
    BY <2>1
  <2>3. a.req = w
    OBVIOUS
  <2> HIDE DEF a
  <2> QED
    BY <1>2, <2>2, <2>3
<1>6. CASE Callback
  <2>1. mainQueue # <<>> /\ (mainQueue' = <<>> \/ mainQueue' = Tail(mainQueue))
    BY <1>6, CallbackStep DEF Ended, End, Finished
  <2>2. CASE mainQueue' = Tail(mainQueue)
    <3>1. k + 1 \in DOMAIN mainQueue /\ mainQueue'[k] = mainQueue[k + 1]
      BY <1>1, <2>1, <2>2, Queue
    <3> QED
      BY <3>1
  <2> QED
    BY <2>1, <2>2
<1>7. CASE UNCHANGED mainQueue
  BY <1>7
<1>8. CASE Kill
  BY <1>8 DEF Kill, End
<1> QED
  BY <1>3, <1>4, <1>5, <1>6, <1>7, <1>8, StoresUntouched DEF SignOut, StoreWrite

\* The documents on their way after a step: kept, or sent by a sign-up callback.
LEMMA WriteSteps ==
  ASSUME TypeOK, [Next]_vars, NEW w \in Sent'
  PROVE  \/ \E v \in Sent : v.view = w.view
         \/ \E j \in DOMAIN mainQueue : mainQueue[j].ok /\ w.view = mainQueue[j].req.view
<1>1. ASSUME NEW q, NEW handed, End(q, handed)
      PROVE  \E v \in Sent : v.view = w.view
  BY <1>1, AbandonedWrites DEF End, Sent
<1>2. CASE Callback
  <2> DEFINE a == Head(mainQueue)
  <2>1. mainQueue # <<>> /\ (Ended(a) \/ Finished(a))
    BY <1>2, CallbackStep
  <2>2. a = mainQueue[1] /\ 1 \in DOMAIN mainQueue
    BY <2>1, Queue DEF TypeOK
  <2> HIDE DEF a
  <2>3. CASE Ended(a)
    BY <1>1, <2>3 DEF Ended
  <2>4. CASE Finished(a)
    <3>1. w \in Sent \/ (SignedUp(a) /\ w = NewWrite(a.req))
      BY <2>4 DEF Finished, Docs, Sent
    <3>2. NewWrite(a.req).view = a.req.view
      BY DEF NewWrite
    <3> QED
      BY <2>2, <3>1, <3>2 DEF SignedUp
  <2> QED
    BY <2>1, <2>3, <2>4
<1>3. CASE Kill
  BY <1>1, <1>3 DEF Kill
<1>4. CASE Sent' \subseteq Sent
  BY <1>4
<1>5. ASSUME NEW v \in posted, StoreWrite(v)
      PROVE  Sent' \subseteq Sent
  BY <1>5 DEF StoreWrite, Sent
<1>6. ASSUME \/ UNCHANGED <<posted, writes>>
             \/ SignOut
             \/ \E r \in requests : Accept(r) \/ Refuse(r)
             \/ \E v \in writes : SettleWrite(v)
      PROVE  Sent' \subseteq Sent
  BY <1>6 DEF SignOut, Accept, Refuse, SettleWrite, sdk, Sent
<1> QED
  BY <1>2, <1>3, <1>4, <1>5, <1>6, StoresUntouched

\* The requests after a step: kept, or sent from the visible form.
LEMMA RequestSteps ==
  ASSUME TypeOK, [Next]_vars, NEW r \in requests'
  PROVE  \/ r \in requests
         \/ moves' = moves + 1 /\ r.view = moves
         \/ Running /\ Top.view \in Forms /\ r.view = Top.id
<1>1. CASE OpenSignIn
  BY <1>1 DEF OpenSignIn, Send
<1>2. ASSUME NEW view \in {"signIn", "signUp"}, NEW e \in Emails, NEW p \in Passwords,
             NEW rem \in BOOLEAN, Press(view, e, p, rem)
      PROVE  r \in requests \/ (Running /\ Top.view \in Forms /\ r.view = Top.id)
  BY <1>2 DEF Press, Send, On, Forms
<1>3. CASE Callback
  BY <1>3, CallbackStep DEF Ended, End, Finished
<1>4. CASE requests' \subseteq requests
  BY <1>4
<1> QED
  BY <1>1, <1>2, <1>3, <1>4
  DEF Next, vars, Callback, OpenSignUp, PressTooShort, Back, SignOut, Accept, Refuse,
      StoreWrite, SettleWrite, Kill, End, Launch

\* Screens are numbered upwards.
LEMMA MovesGrow ==
  ASSUME TypeOK, [Next]_vars
  PROVE  moves' = moves \/ moves' = moves + 1
<1>1. CASE Callback
  BY <1>1, CallbackStep
<1> QED
  BY <1>1
  DEF Next, vars, Callback, OpenSignIn, OpenSignUp, Press, PressTooShort, Back, SignOut,
      Accept, Refuse, StoreWrite, SettleWrite, Kill, Launch

LEMMA NextIds ==
  ASSUME TypeOK, Ids, [Next]_vars
  PROVE  Ids'
<1>1. moves \in Nat /\ stack \in Seq(Screen) /\ mainQueue \in Seq(Answer)
      /\ requests \subseteq Request /\ Sent \subseteq UserWrite
  BY DEF TypeOK, Sent
<1>2. \A n \in Nat : n < moves => n < moves'
  BY <1>1, MovesGrow
<1>3. ASSUME NEW k \in DOMAIN stack', stack'[k].view \in Forms
      PROVE  stack'[k].id < moves'
  <2>1. CASE /\ k \in DOMAIN stack
             /\ stack'[k].view = stack[k].view
             /\ stack'[k].id = stack[k].id
    <3>1. stack[k].id \in Nat
      <4>1. stack[k] \in Screen
        BY <1>1, <2>1
      <4> QED
        BY <4>1 DEF Screen
    <3> QED
      BY <1>2, <1>3, <2>1, <3>1 DEF Ids
  <2>2. CASE stack'[k].id = moves /\ moves' = moves + 1
    BY <1>1, <2>2
  <2> QED
    BY <1>3, <2>1, <2>2, ScreenSteps DEF Forms
<1>4. ASSUME NEW r \in requests'
      PROVE  r.view < moves'
  <2>1. CASE r \in requests
    <3>1. r.view \in Nat
      BY <1>1, <2>1 DEF Request
    <3> QED
      BY <1>2, <2>1, <3>1 DEF Ids
  <2>2. CASE moves' = moves + 1 /\ r.view = moves
    BY <1>1, <2>2
  <2>3. CASE Running /\ Top.view \in Forms /\ r.view = Top.id
    <3>1. Len(stack) \in DOMAIN stack /\ Top.id \in Nat
      BY <2>3, TopScreen
    <3>2. Top.id < moves
      BY <2>3, <3>1 DEF Ids, Top
    <3> QED
      BY <1>2, <2>3, <3>1, <3>2
  <2> QED
    BY <2>1, <2>2, <2>3, RequestSteps
<1>5. ASSUME NEW k \in DOMAIN mainQueue
      PROVE  mainQueue[k].req.view \in Nat
  BY <1>1, AnswerParts
<1>6. ASSUME NEW w \in Sent'
      PROVE  w.view < moves'
  <2>1. ASSUME NEW v \in Sent, v.view = w.view
        PROVE  w.view < moves'
    <3>1. v.view \in Nat
      BY <1>1 DEF UserWrite
    <3> QED
      BY <1>2, <2>1, <3>1 DEF Ids
  <2> QED
    BY <1>2, <1>5, <2>1, WriteSteps DEF Ids
<1>7. ASSUME NEW k \in DOMAIN mainQueue'
      PROVE  mainQueue'[k].req.view < moves'
  <2>1. CASE \E j \in DOMAIN mainQueue : mainQueue'[k] = mainQueue[j]
    BY <1>2, <1>5, <2>1 DEF Ids
  <2>2. CASE \E r \in requests : mainQueue'[k].req = r
    BY <1>1, <1>2, <2>2 DEF Ids, Request
  <2>3. CASE \E w \in writes : mainQueue'[k].req = w
    BY <1>1, <1>2, <2>3 DEF Ids, UserWrite, Sent
  <2> QED
    BY <2>1, <2>2, <2>3, AnswerSteps
<1> QED
  BY <1>3, <1>4, <1>6, <1>7 DEF Ids

\* A form opened later has a number of its own, so what was not awaited by
\* any form on screen never is.
LEMMA UnseenKept ==
  ASSUME TypeOK, [Next]_vars, NEW v \in Nat, v < moves, Unseen(v)
  PROVE  Unseen(v)'
<1>1. moves \in Nat /\ moves # v
  BY DEF TypeOK
<1>2. ASSUME NEW k \in DOMAIN stack', stack'[k].view \in Forms
      PROVE  stack'[k].id # v
  <2>1. \/ /\ k \in DOMAIN stack
           /\ stack'[k].view = stack[k].view
           /\ stack'[k].id = stack[k].id
        \/ stack'[k].id = moves
    BY <1>2, ScreenSteps DEF Forms
  <2> QED
    BY <1>1, <1>2, <2>1 DEF Unseen
<1> QED
  BY <1>2 DEF Unseen

\* Only a sign-out makes the user nobody, and FirstView is all there is then.
LEMMA CurrentSteps ==
  ASSUME TypeOK, [Next]_vars, current' = Nobody
  PROVE  current = Nobody \/ stack' = <<FirstView>>
<1>1. CASE Callback
  BY <1>1, CallbackStep
<1>2. ASSUME NEW r \in requests, Accept(r)
      PROVE  FALSE
  BY <1>2, NobodyAssumption DEF Accept, TypeOK, Request
<1> QED
  BY <1>1, <1>2
  DEF Next, vars, Callback, OpenSignIn, OpenSignUp, Press, PressTooShort, Back, SignOut,
      Refuse, StoreWrite, SettleWrite, Kill, Launch

LEMMA NextNameless ==
  ASSUME TypeOK, Ids, Nameless, [Next]_vars
  PROVE  Nameless'
<1>1. /\ mainQueue \in Seq(Answer) /\ requests \subseteq Request
      /\ Sent \subseteq UserWrite
  BY DEF TypeOK, Sent
<1>2. ASSUME mainQueue # <<>>, Head(mainQueue).ok,
             NEW j \in DOMAIN stack, stack[j].id = Head(mainQueue).req.view,
             stack[j].view \in Forms
      PROVE  current # Nobody
  <2>1. Head(mainQueue) = mainQueue[1] /\ 1 \in DOMAIN mainQueue
    BY <1>1, <1>2, Queue
  <2> QED
    BY <1>2, <2>1 DEF Nameless, Unseen
<1>3. ASSUME NEW k \in DOMAIN stack', stack'[k].view = "main"
      PROVE  stack'[k].email # Nobody
  <2>1. CASE /\ k \in DOMAIN stack
             /\ stack'[k].view = stack[k].view
             /\ stack'[k].email = stack[k].email
    BY <1>3, <2>1 DEF Nameless
  <2>2. CASE /\ stack'[k].email = current
             /\ \E j \in DOMAIN stack :
                  \/ stack[j].view = "signUp" /\ stack[j].login
                  \/ /\ mainQueue # <<>> /\ Head(mainQueue).ok
                     /\ stack[j].id = Head(mainQueue).req.view
                     /\ stack[j].view \in Forms
    BY <1>2, <2>2 DEF Nameless
  <2> QED
    BY <1>3, <2>1, <2>2, ScreenSteps DEF Forms
<1>4. CASE current' = Nobody /\ stack' = <<FirstView>>
  <2>1. \A k \in DOMAIN stack' : stack'[k].view = "first"
    BY <1>4 DEF FirstView, NewScreen
  <2> QED
    BY <1>3, <2>1 DEF Nameless, Unseen, Forms
<1>5. CASE current' = Nobody /\ current = Nobody
  <2> DEFINE Gone(v) == \A k \in DOMAIN stack' : stack'[k].view \in Forms => stack'[k].id # v
  <2>1. ASSUME NEW k \in DOMAIN stack'
        PROVE  /\ stack'[k].view # "main"
               /\ stack'[k].view = "signUp" => ~stack'[k].login
    BY <1>2, <1>5, ScreenSteps DEF Nameless, Forms
  <2>2. ASSUME NEW v \in Nat, v < moves, Unseen(v)
        PROVE  Gone(v)
    BY <2>2, UnseenKept DEF Unseen
  <2>3. ASSUME NEW j \in DOMAIN mainQueue, mainQueue[j].ok
        PROVE  Gone(mainQueue[j].req.view)
    <3>1. PICK v \in Nat : v = mainQueue[j].req.view
      BY <1>1, AnswerParts
    <3>2. v < moves /\ Unseen(v)
      BY <1>5, <2>3, <3>1 DEF Ids, Nameless
    <3> QED
      BY <2>2, <3>1, <3>2
  <2>4. ASSUME NEW w \in Sent
        PROVE  Gone(w.view)
    <3>1. w.view \in Nat
      BY <1>1 DEF UserWrite
    <3>2. w.view < moves /\ Unseen(w.view)
      BY <1>5 DEF Ids, Nameless
    <3> QED
      BY <2>2, <3>1, <3>2
  <2> HIDE DEF Gone
  <2>5. ASSUME NEW k \in DOMAIN mainQueue', mainQueue'[k].ok
        PROVE  Gone(mainQueue'[k].req.view)
    <3>1. ASSUME NEW r \in requests, current' = r.email
          PROVE  FALSE
      BY <1>1, <1>5, <3>1, NobodyAssumption DEF Request
    <3>2. CASE \E j \in DOMAIN mainQueue : mainQueue'[k] = mainQueue[j]
      BY <2>3, <2>5, <3>2
    <3>3. CASE \E w \in writes : mainQueue'[k].req = w
      BY <2>4, <3>3 DEF Sent
    <3> QED
      BY <2>5, <3>1, <3>2, <3>3, AnswerSteps
  <2>6. ASSUME NEW w \in Sent'
        PROVE  Gone(w.view)
    <3>1. CASE \E v \in Sent : v.view = w.view
      BY <2>4, <3>1
    <3>2. CASE \E j \in DOMAIN mainQueue : mainQueue[j].ok /\ w.view = mainQueue[j].req.view
      BY <2>3, <3>2
    <3> QED
      BY <3>1, <3>2, WriteSteps
  <2> QED
    BY <1>3, <2>1, <2>5, <2>6 DEF Nameless, Unseen, Gone
<1> QED
  BY <1>3, <1>4, <1>5, CurrentSteps DEF Nameless

-----------------------------------------------------------------------------
(* One request at a time *)

\* No MainView lies in a stack whose visible screen is FirstView or a form.
LEMMA NoMainBelow ==
  ASSUME TypeOK, Shape, Running, Top.view # "main"
  PROVE  \A k \in DOMAIN stack : stack[k].view # "main"
<1>1. /\ stack \in Seq(Screen) /\ Len(stack) \in Nat
      /\ DOMAIN stack = 1..Len(stack)
  BY DEF TypeOK
<1>2. Len(stack) \in DOMAIN stack /\ stack[Len(stack)].view # "main"
  BY TopScreen DEF Top
<1>3. ~ (Len(stack) > 2)
  BY <1>2 DEF Shape
<1>4. \A k \in DOMAIN stack : ~ (k > 2)
  BY <1>1, <1>3
<1> QED
  BY <1>4 DEF Shape

\* Something is under way.
LEMMA BusyWith == Busy <=> \/ requests # {} \/ mainQueue # <<>>
                           \/ posted # {} \/ Waiting # {}
BY DEF Busy, Waiting

\* Quiet for a step that sends a request from a screen without MainViews.
LEMMA SendQuiet ==
  ASSUME TypeOK, Quiet, NEW kind, NEW view, NEW email, NEW password, NEW remember,
         Send(kind, view, email, password, remember),
         UNCHANGED <<posted, writes, mainQueue>>,
         \A k \in DOMAIN stack' : stack'[k].view # "main"
  PROVE  Quiet'
<1>1. SUFFICES ASSUME ~overlapped'
               PROVE  Quiet'
  BY DEF Quiet
<1>2. ~Busy /\ ~overlapped /\ ~signedOut'
  BY <1>1 DEF Send
<1>3. requests = {} /\ mainQueue = <<>> /\ posted = {} /\ Waiting = {}
  BY <1>2, BusyWith
<1>4. /\ \A r, s \in requests' : r = s
      /\ posted' = {} /\ Waiting' = {} /\ mainQueue' = <<>>
  BY <1>3 DEF Send, Waiting
<1>5. Len(mainQueue') <= 1
  BY <1>4
<1> QED
  BY <1>2, <1>4, <1>5 DEF Quiet

\* Quiet for a step that leaves everything under way as it is and shows no
\* MainView but those of the user signed in, and none while busy.
LEMMA IdleQuiet ==
  ASSUME TypeOK, Quiet,
         UNCHANGED <<current, realm, requests, posted, mainQueue, overlapped, signedOut>>,
         Waiting' = Waiting,
         ~overlapped => \A k \in DOMAIN stack' :
            stack'[k].view = "main" => stack'[k].email = current /\ ~Busy
  PROVE  Quiet'
<1>1. Busy' <=> Busy
  <2>1. Busy' <=> \/ requests' # {} \/ mainQueue' # <<>>
                  \/ posted' # {} \/ Waiting' # {}
    BY DEF Busy, Waiting
  <2> QED
    BY <2>1, BusyWith
<1> QED
  BY <1>1 DEF Quiet

LEMMA NextQuiet ==
  ASSUME TypeOK, Shape, Quiet, [Next]_vars
  PROVE  Quiet'
<1>1. /\ stack \in Seq(Screen) /\ Len(stack) \in Nat
      /\ DOMAIN stack = 1..Len(stack)
      /\ mainQueue \in Seq(Answer)
      /\ overlapped \in BOOLEAN
  BY DEF TypeOK
<1>2. ASSUME OpenSignIn \/ OpenSignUp
      PROVE  \A k \in DOMAIN stack' : stack'[k].view # "main"
  <2>1. PICK form \in Forms : /\ stack' = Append(stack, NewScreen(form, moves))
                              /\ NewScreen(form, moves).view = form
    BY <1>2, OpenedStack
  <2> DEFINE s == NewScreen(form, moves)
  <2>2. stack' = Append(stack, s) /\ s.view # "main"
    BY <2>1 DEF Forms
  <2> HIDE DEF s
  <2>3. \A k \in DOMAIN stack' : stack'[k] = s \/ (k \in DOMAIN stack /\ stack'[k] = stack[k])
    BY <1>1, <2>2
  <2>4. Running /\ Top.view # "main"
    BY <1>2 DEF OpenSignIn, OpenSignUp, On
  <2> QED
    BY <2>2, <2>3, <2>4, NoMainBelow
<1>3. CASE OpenSignIn
  <2>1. CASE realm = <<>>
    <3>1. UNCHANGED <<current, realm, requests, posted, writes, mainQueue, overlapped,
                      signedOut>>
      BY <1>3, <2>1 DEF OpenSignIn, sdk
    <3>2. Waiting' = Waiting
      BY <3>1 DEF Waiting
    <3> QED
      BY <1>2, <1>3, <3>1, <3>2, IdleQuiet
  <2>2. CASE realm # <<>>
    <3>1. /\ Send("signIn", moves, ReadData.login, ReadData.password, FALSE)
          /\ UNCHANGED <<posted, writes, mainQueue>>
      BY <1>3, <2>2 DEF OpenSignIn, sdk
    <3> QED
      BY <1>2, <1>3, <3>1, SendQuiet
  <2> QED
    BY <2>1, <2>2
<1>4. CASE OpenSignUp
  <2>1. UNCHANGED <<current, realm, requests, posted, writes, mainQueue, overlapped,
                    signedOut>>
    BY <1>4 DEF OpenSignUp, sdk
  <2>2. Waiting' = Waiting
    BY <2>1 DEF Waiting
  <2> QED
    BY <1>2, <1>4, <2>1, <2>2, IdleQuiet
<1>5. ASSUME NEW view \in {"signIn", "signUp"}, NEW e \in Emails, NEW p \in Passwords,
             NEW rem \in BOOLEAN, Press(view, e, p, rem)
      PROVE  Quiet'
  <2>1. /\ Send(view, Top.id, e, p, rem)
        /\ UNCHANGED <<stack, posted, writes, mainQueue>>
        /\ Running /\ Top.view # "main"
    BY <1>5 DEF Press, On, sdk
  <2>2. \A k \in DOMAIN stack' : stack'[k].view # "main"
    BY <2>1, NoMainBelow
  <2> QED
    BY <2>1, <2>2, SendQuiet
<1>6. CASE PressTooShort
  <2>1. Running /\ Top.view # "main"
    BY <1>6 DEF PressTooShort, On
  <2>2. Raised(stack', Top.id, FALSE) /\ stack' \in Seq(Screen)
    BY <1>6, <2>1, PublishedStack, TopScreen DEF PressTooShort
  <2>3. \A k \in DOMAIN stack' : k \in DOMAIN stack /\ stack'[k].view = stack[k].view
    BY <1>1, <2>2 DEF Raised
  <2>4. \A k \in DOMAIN stack' : stack'[k].view # "main"
    BY <2>1, <2>3, NoMainBelow
  <2>5. UNCHANGED <<current, realm, requests, posted, writes, mainQueue, overlapped,
                    signedOut>>
    BY <1>6 DEF PressTooShort, sdk
  <2>6. Waiting' = Waiting
    BY <2>5 DEF Waiting
  <2> QED
    BY <2>4, <2>5, <2>6, IdleQuiet
<1>7. CASE Back
  <2>1. /\ Len(stack) > 1
        /\ UNCHANGED <<current, realm, requests, posted, writes, mainQueue, overlapped,
                       signedOut>>
        /\ Waiting' = Waiting
    BY <1>7 DEF Back, Waiting
  <2>2. stack' \in Seq(Screen) /\ Len(stack') \in Nat /\ DOMAIN stack' = 1..Len(stack')
    BY <1>7, BackStack
  <2>3. ASSUME ~overlapped, NEW k \in DOMAIN stack', stack'[k].view = "main"
        PROVE  stack'[k].email = current /\ ~Busy
    <3>1. CASE k <= Len(stack) - 1
      <4>1. k \in 1..(Len(stack) - 1) /\ k \in DOMAIN stack
        BY <1>1, <2>2, <3>1
      <4>2. stack'[k].view = stack[k].view /\ stack'[k].email = stack[k].email
        BY <1>7, <4>1, BackStack
      <4> QED
        BY <2>3, <4>1, <4>2 DEF Quiet
    <3>2. CASE ~ (k <= Len(stack) - 1)
      <4>1. k >= Len(stack) /\ Len(stack') >= Len(stack)
        BY <1>1, <2>2, <3>2
      <4>2. stack'[k].email = current /\ stack[Len(stack) - 1].view = "signUp"
        BY <1>7, <4>1, BackStack
      <4>3. Len(stack) - 1 \in DOMAIN stack
        BY <1>1, <2>1
      <4>4. Len(stack) - 1 = 2
        BY <4>2, <4>3 DEF Shape, Forms
      <4>5. Len(stack) \in DOMAIN stack /\ Len(stack) > 2
        <5>1. Len(stack) \in Int
          BY <1>1
        <5>2. Len(stack) = 3
          BY <4>4, <5>1
        <5> QED
          BY <1>1, <5>2
      <4>6. stack[Len(stack)].view = "main"
        BY <4>5 DEF Shape
      <4> QED
        BY <2>3, <4>2, <4>5, <4>6 DEF Quiet
    <3> QED
      BY <3>1, <3>2
  <2> QED
    BY <2>1, <2>3, IdleQuiet
<1>8. CASE SignOut
  <2>1. /\ Len(stack) \in DOMAIN stack /\ stack[Len(stack)].view = "main"
        /\ UNCHANGED <<requests, posted, writes, mainQueue, overlapped>>
        /\ realm' = <<>>
    BY <1>8, TopScreen DEF SignOut, On, DeleteRealmData, Top, sdk
  <2>2. Waiting' = Waiting
    BY <2>1 DEF Waiting
  <2>3. ~overlapped => ~Busy /\ ~Busy'
    BY <2>1 DEF Quiet, Busy
  <2>4. CASE current' = Nobody /\ stack' = <<FirstView>> /\ signedOut' = TRUE
    <3>1. \A k \in DOMAIN stack' : stack'[k].view # "main"
      BY <2>4 DEF FirstView, NewScreen
    <3> QED
      BY <2>1, <2>2, <2>3, <2>4, <3>1 DEF Quiet
  <2>5. CASE UNCHANGED <<current, stack, signedOut>>
    BY <2>1, <2>2, <2>3, <2>5 DEF Quiet
  <2> QED
    BY <1>8, <2>4, <2>5 DEF SignOut
<1>9. ASSUME NEW r \in requests, Accept(r) \/ Refuse(r)
      PROVE  Quiet'
  <2>1. SUFFICES ASSUME ~overlapped'
                 PROVE  Quiet'
    BY DEF Quiet
  <2>2. ~overlapped /\ Busy
    BY <1>9, <2>1 DEF Accept, Refuse, Busy
  <2>3. UNCHANGED <<posted, writes, stack, signedOut>> /\ requests' = requests \ {r}
    BY <1>9 DEF Accept, Refuse, sdk
  <2>4. /\ requests' = {} /\ mainQueue = <<>> /\ posted' = {} /\ Waiting' = {}
        /\ \A k \in DOMAIN stack' : stack'[k].view # "main"
        /\ ~signedOut'
    BY <2>2, <2>3 DEF Quiet, Waiting
  <2>5. Len(mainQueue') = 1
    <3>1. \E a : mainQueue' = Append(mainQueue, a)
      BY <1>9 DEF Accept, Refuse
    <3> QED
      BY <2>4, <3>1
  <2> QED
    BY <2>4, <2>5 DEF Quiet
<1>10. ASSUME NEW w \in writes, SettleWrite(w)
       PROVE  Quiet'
  <2>1. SUFFICES ASSUME ~overlapped'
                 PROVE  Quiet'
    BY DEF Quiet
  <2>2. /\ UNCHANGED <<stack, current, realm, requests, posted, overlapped, signedOut>>
        /\ writes' = writes \ {w}
    BY <1>10 DEF SettleWrite
  <2>3. CASE w.waited
    <3>1. w \in Waiting /\ Busy
      BY <2>3, BusyWith DEF Waiting
    <3>2. /\ requests' = {} /\ mainQueue = <<>> /\ posted' = {} /\ Waiting' = {}
          /\ \A k \in DOMAIN stack' : stack'[k].view # "main"
          /\ ~signedOut'
      <4>1. requests = {} /\ mainQueue = <<>> /\ \A v \in posted \cup Waiting : v = w
        BY <2>1, <2>2, <3>1 DEF Quiet
      <4>2. Waiting' = Waiting \ {w}
        BY <2>2 DEF Waiting
      <4>3. posted = {}
        <5>1. w \notin posted
          BY <2>1, <2>2, <3>1 DEF Quiet
        <5> QED
          BY <4>1, <5>1
      <4> QED
        BY <2>1, <2>2, <3>1, <4>1, <4>2, <4>3 DEF Quiet
    <3>3. Len(mainQueue') <= 1
      <4>1. \E a : mainQueue' = Append(mainQueue, a)
        BY <1>10, <2>3 DEF SettleWrite
      <4> QED
        BY <3>2, <4>1
    <3> QED
      BY <3>2, <3>3 DEF Quiet
  <2>4. CASE ~w.waited
    <3>1. mainQueue' = mainQueue
      BY <1>10, <2>4 DEF SettleWrite
    <3>2. Waiting' = Waiting
      BY <2>2, <2>4 DEF Waiting
    <3>3. \A k \in DOMAIN stack' : ~overlapped /\ stack'[k].view = "main" =>
            stack'[k].email = current /\ ~Busy
      BY <2>2 DEF Quiet
    <3> QED
      BY <2>2, <3>1, <3>2, <3>3, IdleQuiet
  <2> QED
    BY <2>3, <2>4
<1>11. CASE Callback
  <2> DEFINE a == Head(mainQueue)
  <2>1. SUFFICES ASSUME ~overlapped'
                 PROVE  Quiet'
    BY DEF Quiet
  <2>2. /\ mainQueue # <<>>
        /\ Ended(a) \/ Finished(a)
        /\ UNCHANGED <<current, overlapped, signedOut>>
    BY <1>11, CallbackStep
  <2>3. ~overlapped /\ Busy
    BY <2>1, <2>2 DEF Busy
  <2>4. /\ requests = {} /\ posted = {} /\ Waiting = {} /\ Len(mainQueue) <= 1
        /\ \A k \in DOMAIN stack : stack[k].view # "main"
        /\ ~signedOut'
    BY <2>2, <2>3 DEF Quiet
  <2>5. Tail(mainQueue) = <<>>
    <3>1. Tail(mainQueue) \in Seq(Answer) /\ Len(Tail(mainQueue)) = Len(mainQueue) - 1
      BY <1>1, <2>2, Queue
    <3> QED
      BY <1>1, <2>4, <3>1
  <2> HIDE DEF a
  <2>6. requests' = {} /\ mainQueue' = <<>>
    BY <2>2, <2>4, <2>5 DEF Ended, End, Finished
  <2>7. Waiting' = {} /\ posted' \subseteq Docs(a)
    <3>1. CASE Ended(a)
      BY <3>1, AbandonedWrites DEF Ended, End, Waiting
    <3>2. CASE Finished(a)
      BY <2>4, <3>2 DEF Finished, Waiting
    <3> QED
      BY <2>2, <3>1, <3>2
  <2>8. \A k \in DOMAIN stack' : stack'[k].view = "main" => stack'[k].email = current' /\ ~SignedUp(a)
    <3>1. CASE Ended(a)
      BY <3>1 DEF Ended, End
    <3>2. CASE Finished(a)
      <4>1. \A k \in DOMAIN stack' :
              \/ k \in DOMAIN stack /\ stack'[k].view = stack[k].view
              \/ k \notin DOMAIN stack /\ stack'[k].email = current
        BY <3>2 DEF Finished, Raised
      <4>2. SignedUp(a) => stack' = stack
        BY <3>2 DEF Finished
      <4> QED
        BY <2>2, <2>4, <4>1, <4>2
    <3> QED
      BY <2>2, <3>1, <3>2
  <2>9. Busy' => SignedUp(a)
    BY <2>6, <2>7 DEF Busy, Waiting, Docs
  <2>10. Len(mainQueue') <= 1
    BY <2>6
  <2>11. \A v, w \in posted' \cup Waiting' : v = w
    BY <2>7 DEF Docs
  <2> QED
    BY <2>4, <2>6, <2>7, <2>8, <2>9, <2>10, <2>11 DEF Quiet
<1>12. CASE Kill
  <2>1. /\ stack' = <<>> /\ requests' = {} /\ mainQueue' = <<>> /\ posted' = {}
        /\ writes' = Abandoned
        /\ UNCHANGED <<current, realm, overlapped, signedOut>>
    BY <1>12 DEF Kill, End
  <2>2. Waiting' = {} /\ ~Busy'
    BY <2>1, AbandonedWrites DEF Waiting, Busy
  <2>3. Len(mainQueue') <= 1
    BY <2>1
  <2> QED
    BY <2>1, <2>2, <2>3 DEF Quiet
<1>13. CASE Launch
  <2>1. \A k \in DOMAIN stack' : stack'[k].view # "main"
    BY <1>13 DEF Launch, FirstView, NewScreen
  <2>2. /\ UNCHANGED <<current, realm, requests, posted, writes, mainQueue, overlapped,
                       signedOut>>
        /\ Waiting' = Waiting
    BY <1>13 DEF Launch, sdk, Waiting
  <2> QED
    BY <2>1, <2>2, IdleQuiet
<1>14. ASSUME NEW w \in posted, StoreWrite(w)
       PROVE  Quiet'
  <2>1. SUFFICES ASSUME ~overlapped'
                 PROVE  Quiet'
    BY DEF Quiet
  <2>2. /\ UNCHANGED <<stack, current, realm, requests, mainQueue, overlapped, signedOut>>
        /\ posted' = posted \ {w} /\ writes' = writes \cup {w}
    BY <1>14 DEF StoreWrite
  <2>3. Busy
    BY BusyWith
  <2>4. /\ requests' = {} /\ mainQueue' = <<>>
        /\ \A k \in DOMAIN stack' : stack'[k].view # "main"
        /\ ~signedOut'
    BY <2>1, <2>2, <2>3 DEF Quiet
  <2>5. \A u, v \in posted' \cup Waiting' : u = v
    <3>1. posted' \cup Waiting' \subseteq posted \cup Waiting
      BY <2>2 DEF Waiting
    <3> QED
      BY <2>1, <2>2, <3>1 DEF Quiet
  <2>6. Len(mainQueue') <= 1
    BY <2>4
  <2>7. posted' = {}
    BY <1>14, <2>1, <2>2 DEF Quiet
  <2> QED
    BY <2>4, <2>5, <2>6, <2>7 DEF Quiet
<1>15. CASE UNCHANGED vars
  <2>1. /\ UNCHANGED <<stack, current, realm, requests, posted, mainQueue, overlapped,
                       signedOut>>
        /\ Waiting' = Waiting
    BY <1>15 DEF vars, Waiting
  <2>2. \A k \in DOMAIN stack' : ~overlapped /\ stack'[k].view = "main" =>
          stack'[k].email = current /\ ~Busy
    BY <2>1 DEF Quiet
  <2> QED
    BY <2>1, <2>2, IdleQuiet
<1> QED
  BY <1>3, <1>4, <1>5, <1>6, <1>7, <1>8, <1>9, <1>10, <1>11, <1>12, <1>13, <1>14, <1>15
  DEF Next, Callback

-----------------------------------------------------------------------------
(* Theorems *)

LEMMA InitIInv ==
  ASSUME Init
  PROVE  IInv
<1>1. FirstView \in Screen /\ FirstView.view = "first"
  BY DEF FirstView, NewScreen, Screen
<1>2. /\ stack = <<FirstView>> /\ stack \in Seq(Screen)
      /\ DOMAIN stack = {1} /\ stack[1].view = "first"
  BY <1>1 DEF Init
<1>3. /\ realm \in Seq(RememberData) /\ mainQueue \in Seq(Answer)
      /\ Len(mainQueue) = 0 /\ DOMAIN mainQueue = {} /\ DOMAIN realm = {}
  BY DEF Init
<1>4. overlapped \in BOOLEAN /\ signedOut \in BOOLEAN /\ refused \in BOOLEAN
      /\ client \in BOOLEAN
  BY Zenon DEF Init
<1>5. TypeOK
  BY <1>2, <1>3, <1>4 DEF Init, TypeOK
<1>6. Credentials
  BY <1>3 DEF Credentials
<1>7. Documents
  BY <1>3 DEF Documents, Init, Safe, Sent
<1>8. Shape /\ Ids /\ Nameless
  BY <1>2, <1>3 DEF Init, Shape, Ids, Nameless, Forms, Sent
<1>9. Quiet
  BY <1>2, <1>3 DEF Init, Quiet, Busy, Waiting
<1> QED
  BY <1>5, <1>6, <1>7, <1>8, <1>9 DEF IInv

LEMMA Invariance == Spec => []IInv
<1>1. Init => IInv
  BY InitIInv
<1>2. IInv /\ [Next]_vars => IInv'
  BY NextTypeOK, NextCredentials, NextDocuments, NextShape, NextIds, NextNameless, NextQuiet
  DEF IInv
<1> QED
  BY <1>1, <1>2, PTL DEF Spec

\* Type correctness of the stores, the screens, the requests and the answers.
THEOREM TypeCorrect == Spec => []TypeOK
<1>1. IInv => TypeOK
  BY DEF IInv
<1> QED
  BY <1>1, Invariance, PTL

\* Every login SignModel remembers is an account with that password, and its
\* Users document is there or on its way unless a failure cut the sign-up short:
\* oldDataLoading never signs in to an account without a document because the
\* callbacks came in an unlucky order.
THEOREM RememberedIsUsableHolds == Spec => []RememberedIsUsable
<1>1. IInv => RememberedIsUsable
  BY DEF IInv, Credentials, Documents, Safe, Sent, RememberedIsUsable
<1> QED
  BY <1>1, Invariance, PTL

\* MainView shows the user who is signed in as long as requests did not
\* overlap, and MainViewModel never takes its e-mail from a currentUser that
\* is nil, overlapping requests and sign-outs included.
THEOREM MainViewIsCurrentHolds == Spec => []MainViewIsCurrent
<1>1. ASSUME IInv PROVE MainViewIsCurrent
  <2>1. \A k \in DOMAIN stack : stack[k].view = "main" => stack[k].email # Nobody
    BY <1>1 DEF IInv, Nameless
  <2>2. ASSUME ~overlapped, On("main")
        PROVE  Top.email = current
    <3>1. Len(stack) \in DOMAIN stack
      BY <1>1, <2>2, TopScreen DEF IInv, On
    <3> QED
      BY <1>1, <2>2, <3>1 DEF IInv, Quiet, On, Top
  <2> QED
    BY <2>1, <2>2 DEF MainViewIsCurrent
<1> QED
  BY <1>1, Invariance, PTL

\* After MainViewModel.signOut succeeded nobody is signed in and nothing is
\* remembered until the next request, as long as requests did not overlap.
THEOREM SignedOutForgetsHolds == Spec => []SignedOutForgets
<1>1. IInv => SignedOutForgets
  BY DEF IInv, Quiet, SignedOutForgets
<1> QED
  BY <1>1, Invariance, PTL
=============================================================================
