------------------------------ MODULE Session ------------------------------
(***************************************************************************)
(* Signing in, up and out on one device: SignInView, SignUpView and their  *)
(* view models, SignModel with its Realm database, and the sign-out of     *)
(* MainView, MainViewModel and MainModel.                                  *)
(*                                                                         *)
(* Three stores must agree and are written one after the other: Firebase   *)
(* Auth (the accounts and, on the device, currentUser), the Users          *)
(* collection of Firestore, and the logins remembered in Realm.  Nothing   *)
(* stops the user from pressing a button again, or leaving the screen,     *)
(* while an earlier request is under way.                                  *)
(*                                                                         *)
(* The document of a new account passes three places: the worker queue of  *)
(* the SDK, the queue on disk of the user who is signed in, and, when this *)
(* user is signed in and the client runs, the backend.                     *)
(***************************************************************************)
EXTENDS Integers, Sequences, FiniteSets

CONSTANTS
    Emails, Passwords,
    Nobody,     \* no e-mail: currentUser is nil
    NoAccount,  \* no password: the e-mail is not registered
    MaxPresses, \* bound: requests sent from a form
    MaxMoves    \* bound: screens opened or left

ASSUME NobodyAssumption    == Nobody \notin Emails
ASSUME NoAccountAssumption == NoAccount \notin Passwords
ASSUME BoundsAssumption    == MaxPresses \in Nat /\ MaxMoves \in Nat

VARIABLES
    accounts,   \* Auth, backend: the password of every e-mail
    userDocs,   \* Users collection: e-mails that have a document
    current,    \* Auth, device: e-mail of currentUser, kept on disk
    realm,      \* Realm: the RememberData objects, oldest first
    stack,      \* the screens, the visible one last; empty: not running
    client,     \* Firestore's client runs: a collection was asked for since launch
    requests,   \* calls of Auth that have not been answered yet
    posted,     \* setData of Users documents handed to the SDK's worker queue
    writes,     \* the same on disk, in the queue of one user each
    mainQueue,  \* answers whose callback has not run yet
    presses,    \* number of requests so far
    moves,      \* number of screens opened or left, the identity of the next
    \* The rest is history: no action's guard reads it.
    overlapped, \* a request was sent while an earlier one was under way
    faulty,     \* e-mails whose sign-up was cut short by a failure
    signedOut,  \* signOut succeeded and nothing was sent since
    refused     \* Realm threw: realm.add with an existing primary key

sdk  == <<client, posted, writes>>
vars == <<accounts, userDocs, current, realm, stack, client, requests, posted, writes,
          mainQueue, presses, moves, overlapped, faulty, signedOut, refused>>

\* subs: subscriptions to the Variable login, each with a binding to it.
Screen == [view : {"first", "signIn", "signUp", "main"}, id : Nat,
           email : Emails \cup {Nobody}, subs : Nat, login : BOOLEAN]

RememberData == [login : Emails, password : Passwords]

Request == [kind : {"signIn", "signUp"}, id : Nat, view : Nat,
            email : Emails, password : Passwords, remember : BOOLEAN]
\* user: whose queue it is in; waited: its completion block still exists.
UserWrite == [id : Nat, view : Nat, email : Emails, user : Emails \cup {Nobody},
              waited : BOOLEAN]
Answer == [kind : {"signIn", "signUp"}, ok : BOOLEAN, req : Request]
            \cup [kind : {"written"}, ok : BOOLEAN, req : UserWrite]

NewScreen(view, id) == [view |-> view, id |-> id, email |-> Nobody,
                        subs |-> 1, login |-> FALSE]
FirstView  == NewScreen("first", 0)
Top        == stack[Len(stack)]
Running    == stack # <<>>
On(view)   == Running /\ Top.view = view
Busy       == \/ requests # {} \/ mainQueue # <<>> \/ posted # {}
              \/ \E w \in writes : w.waited
Ready(kind) == Running /\ mainQueue # <<>> /\ Head(mainQueue).kind = kind

-----------------------------------------------------------------------------
(* What a login result does to the screens *)

\* MainViewModel takes its e-mail from currentUser when MainView is made.
MainViews(n) == [k \in 1..n |-> [NewScreen("main", moves) EXCEPT !.email = current]]

\* loginIsBool.onNext(value): every binding sets login, every setting reaches
\* every subscription, and each of these performs the segue.  A screen that
\* was left, or lies under the one presented by the sign-out, shows nothing.
Published(view, value) ==
    LET seen == {k \in DOMAIN stack : stack[k].id = view /\ stack[k].view \in {"signIn", "signUp"}}
        set  == [k \in DOMAIN stack |->
                   IF k \in seen THEN [stack[k] EXCEPT !.login = value] ELSE stack[k]]
    IN  IF value /\ seen # {}
        THEN set \o MainViews(LET k == CHOOSE j \in seen : TRUE IN stack[k].subs * stack[k].subs)
        ELSE set

\* MainView reads the polls when it appears: the first use of a collection
\* starts the client.
Starts(shown) == shown # <<>> /\ shown[Len(shown)].view = "main"

\* A setData takes the queue of the user signed in when it was handed over: a
\* later change of user waits behind it on the worker queue.
NewWrite(req) == [id |-> req.id, view |-> req.view, email |-> req.email,
                  user |-> current, waited |-> TRUE]

-----------------------------------------------------------------------------
(* Realm *)

\* Mutant: the arguments swapped.
LoginSwapped(email, password) == [login |-> password, password |-> email]

Login(email, password) == [login |-> email, password |-> password]

Remembered(email) == \E k \in DOMAIN realm : realm[k].login = email

\* readData: results.first.
ReadData == realm[1]

DeleteRealmData == realm' = <<>>

\* Accounts just created whose callback will not run any more.
LostSignUps(queue) ==
    {queue[k].req.email : k \in {j \in DOMAIN queue : queue[j].kind = "signUp" /\ queue[j].ok}}

\* Nobody waits any more for the writes on disk.
Abandoned == {[w EXCEPT !.waited = FALSE] : w \in writes}

\* The process ends with the callbacks in queue, and the writes in handed not
\* on disk.
End(queue, handed) ==
    /\ stack' = <<>>
    /\ client' = FALSE
    /\ requests' = {}
    /\ mainQueue' = <<>>
    /\ posted' = {}
    /\ writes' = Abandoned
    /\ faulty' = faulty \cup LostSignUps(queue) \cup {w.email : w \in handed}

\* writeData after the screens were changed to shown and setData was called for
\* docs.  realm.add throws when the login is there already; try? does not catch
\* that, and the app ends.
WriteData(shown, docs, email, password, remember) ==
    \/ /\ remember /\ Remembered(email)
       /\ refused' = TRUE
       /\ End(Tail(mainQueue), posted \cup docs)
       /\ UNCHANGED realm
    \/ /\ ~remember \/ ~Remembered(email)
       /\ realm' = IF remember
                   THEN Append(realm, Login(email, password)) ELSE realm
       /\ stack' = shown
       /\ client' = (client \/ docs # {} \/ Starts(shown))
       /\ posted' = posted \cup docs
       /\ mainQueue' = Tail(mainQueue)
       /\ UNCHANGED <<refused, requests, writes, faulty>>

-----------------------------------------------------------------------------
Init ==
    /\ accounts \in [Emails -> Passwords \cup {NoAccount}]
    /\ userDocs = {e \in Emails : accounts[e] # NoAccount}
    /\ current = Nobody
    /\ realm = <<>>
    /\ stack = <<FirstView>>
    /\ client = FALSE
    /\ requests = {}
    /\ posted = {}
    /\ writes = {}
    /\ mainQueue = <<>>
    /\ presses = 0
    /\ moves = 1
    /\ overlapped = FALSE
    /\ faulty = {}
    /\ signedOut = FALSE
    /\ refused = FALSE

\* A request is sent: loginInSistem after its length check.
Send(kind, view, email, password, remember) ==
    /\ requests' = requests \cup {[kind |-> kind, id |-> presses, view |-> view,
                                   email |-> email, password |-> password,
                                   remember |-> remember]}
    /\ presses' = presses + 1
    /\ overlapped' = (overlapped \/ Busy)
    /\ signedOut' = FALSE

\* SignInView.viewDidLoad: oldDataLoading signs in with the first login that
\* is remembered, if there is one.
OpenSignIn ==
    /\ On("first")
    /\ moves < MaxMoves
    /\ moves' = moves + 1
    /\ stack' = Append(stack, NewScreen("signIn", moves))
    /\ \/ /\ realm = <<>>
          /\ UNCHANGED <<requests, presses, overlapped, signedOut>>
       \/ /\ realm # <<>>
          /\ presses < MaxPresses
          /\ Send("signIn", moves, ReadData.login, ReadData.password, FALSE)
    /\ UNCHANGED <<accounts, userDocs, current, realm, sdk, mainQueue, faulty, refused>>

OpenSignUp ==
    /\ On("first")
    /\ moves < MaxMoves
    /\ moves' = moves + 1
    /\ stack' = Append(stack, NewScreen("signUp", moves))
    /\ UNCHANGED <<accounts, userDocs, current, realm, requests, sdk, mainQueue,
                   presses, overlapped, faulty, signedOut, refused>>

\* The button of SignInView or SignUpView.  isEnabled is FALSE only while the
\* handler runs.
Press(view, email, password, remember) ==
    /\ On(view)
    /\ presses < MaxPresses
    /\ Send(view, Top.id, email, password, remember)
    /\ UNCHANGED <<accounts, userDocs, current, realm, stack, sdk, mainQueue, moves,
                   faulty, refused>>

\* The same with an e-mail or a password that is too short.
PressTooShort ==
    /\ On("signIn") \/ On("signUp")
    /\ stack' = Published(Top.id, FALSE)
    /\ UNCHANGED <<accounts, userDocs, current, realm, requests, sdk, mainQueue,
                   presses, moves, overlapped, faulty, signedOut, refused>>

\* The back button.  SignUpView.viewDidAppear subscribes and binds again, and
\* the new subscription is told the last value at once.
Back ==
    /\ Len(stack) > 1
    /\ moves < MaxMoves
    /\ moves' = moves + 1
    /\ LET below == SubSeq(stack, 1, Len(stack) - 1)
           n     == Len(below)
       IN  stack' = IF below[n].view # "signUp" THEN below
                    ELSE [below EXCEPT ![n].subs = @ + 1]
                           \o MainViews(IF below[n].login THEN 1 ELSE 0)
    /\ client' = (client \/ Starts(stack'))
    /\ UNCHANGED <<accounts, userDocs, current, realm, requests, posted, writes, mainQueue,
                   presses, overlapped, faulty, signedOut, refused>>

\* Mutants: the remembered logins are kept; MainView stays on screen.
SignOutKeepsData ==
    /\ On("main")
    /\ current' = Nobody
    /\ stack' = <<FirstView>>
    /\ signedOut' = TRUE
    /\ UNCHANGED <<accounts, userDocs, realm, requests, sdk, mainQueue, presses, moves,
                   overlapped, faulty, refused>>
SignOutStays ==
    /\ On("main")
    /\ DeleteRealmData
    /\ current' = Nobody
    /\ signedOut' = TRUE
    /\ UNCHANGED <<accounts, userDocs, stack, requests, sdk, mainQueue, presses,
                   moves, overlapped, faulty, refused>>

\* MainViewModel.signOut: the remembered logins go first, whether or not Auth
\* signs out.  A new FirstView is presented over everything.
SignOut ==
    /\ On("main")
    /\ DeleteRealmData
    /\ \/ /\ current' = Nobody
          /\ stack' = <<FirstView>>
          /\ signedOut' = TRUE
       \/ UNCHANGED <<current, stack, signedOut>>
    /\ UNCHANGED <<accounts, userDocs, requests, sdk, mainQueue, presses, moves,
                   overlapped, faulty, refused>>

-----------------------------------------------------------------------------
(* Firebase *)

\* Auth has set currentUser by the time the callback is queued.
Accept(r) ==
    /\ \/ r.kind = "signIn" /\ accounts[r.email] = r.password /\ UNCHANGED accounts
       \/ /\ r.kind = "signUp" /\ accounts[r.email] = NoAccount
          /\ accounts' = [accounts EXCEPT ![r.email] = r.password]
    /\ current' = r.email
    /\ requests' = requests \ {r}
    /\ mainQueue' = Append(mainQueue, [kind |-> r.kind, ok |-> TRUE, req |-> r])
    /\ UNCHANGED <<userDocs, realm, stack, sdk, presses, moves, overlapped,
                   faulty, signedOut, refused>>

\* Wrong credentials, or no network: then the account may have been created
\* and only the answer lost.
Refuse(r) ==
    /\ \/ UNCHANGED <<accounts, faulty>>
       \/ /\ r.kind = "signUp" /\ accounts[r.email] = NoAccount
          /\ accounts' = [accounts EXCEPT ![r.email] = r.password]
          /\ faulty' = faulty \cup {r.email}
    /\ requests' = requests \ {r}
    /\ mainQueue' = Append(mainQueue, [kind |-> r.kind, ok |-> FALSE, req |-> r])
    /\ UNCHANGED <<userDocs, current, realm, stack, sdk, presses, moves, overlapped,
                   signedOut, refused>>

\* The worker queue writes a setData to disk.
StoreWrite(w) ==
    /\ posted' = posted \ {w}
    /\ writes' = writes \cup {w}
    /\ UNCHANGED <<accounts, userDocs, current, realm, stack, client, requests, mainQueue,
                   presses, moves, overlapped, faulty, signedOut, refused>>

\* The backend decides on a write, which is sent only while its user is signed
\* in.  After a restart nobody waits for the answer.
SettleWrite(w) ==
    /\ client /\ w.user = current
    /\ writes' = writes \ {w}
    /\ \E ok \in BOOLEAN :
         /\ userDocs' = IF ok THEN userDocs \cup {w.email} ELSE userDocs
         /\ faulty' = IF ok THEN faulty ELSE faulty \cup {w.email}
         /\ mainQueue' = IF w.waited
                         THEN Append(mainQueue, [kind |-> "written", ok |-> ok, req |-> w])
                         ELSE mainQueue
    /\ UNCHANGED <<accounts, current, realm, stack, client, requests, posted, presses,
                   moves, overlapped, signedOut, refused>>

-----------------------------------------------------------------------------
(* The callbacks, on the main queue *)

\* Mutant: remembered before the error is looked at.
SignInRemembersFirst ==
    LET a == Head(mainQueue) IN
    /\ Ready("signIn")
    /\ WriteData(Published(a.req.view, a.ok), {}, a.req.email, a.req.password,
                 a.req.remember)
    /\ UNCHANGED <<accounts, userDocs, current, presses, moves, overlapped, signedOut>>

SignInDone ==
    LET a == Head(mainQueue) IN
    /\ Ready("signIn")
    /\ WriteData(Published(a.req.view, a.ok), {}, a.req.email, a.req.password,
                 a.ok /\ a.req.remember)
    /\ UNCHANGED <<accounts, userDocs, current, presses, moves, overlapped, signedOut>>

\* Mutant: the document is written only for users who want to be remembered.
SignUpForgetsDocument ==
    LET a == Head(mainQueue) IN
    /\ Ready("signUp")
    /\ WriteData(IF a.ok THEN stack ELSE Published(a.req.view, FALSE),
                 IF a.ok /\ a.req.remember THEN {NewWrite(a.req)} ELSE {},
                 a.req.email, a.req.password, a.ok /\ a.req.remember)
    /\ UNCHANGED <<accounts, userDocs, current, presses, moves, overlapped, signedOut>>

\* The document is handed over and the login remembered; MainView has to wait.
SignUpDone ==
    LET a == Head(mainQueue) IN
    /\ Ready("signUp")
    /\ \/ /\ ~a.ok
          /\ WriteData(Published(a.req.view, FALSE), {}, a.req.email, a.req.password, FALSE)
       \/ /\ a.ok
          /\ WriteData(stack, {NewWrite(a.req)}, a.req.email, a.req.password,
                       a.req.remember)
    /\ UNCHANGED <<accounts, userDocs, current, presses, moves, overlapped, signedOut>>

WrittenDone ==
    LET a == Head(mainQueue) IN
    /\ Ready("written")
    /\ stack' = Published(a.req.view, a.ok)
    /\ client' = (client \/ Starts(stack'))
    /\ mainQueue' = Tail(mainQueue)
    /\ UNCHANGED <<accounts, userDocs, current, realm, requests, posted, writes, presses,
                   moves, overlapped, faulty, signedOut, refused>>

-----------------------------------------------------------------------------
(* The process *)

\* currentUser, Realm and the SDK's writes are on disk.
Kill ==
    /\ Running
    /\ End(mainQueue, posted)
    /\ UNCHANGED <<accounts, userDocs, current, realm, presses, moves, overlapped,
                   signedOut, refused>>

Launch ==
    /\ ~Running
    /\ moves < MaxMoves
    /\ moves' = moves + 1
    /\ stack' = <<FirstView>>
    /\ UNCHANGED <<accounts, userDocs, current, realm, requests, sdk, mainQueue,
                   presses, overlapped, faulty, signedOut, refused>>

Callback == SignInDone \/ SignUpDone \/ WrittenDone

Next ==
    \/ OpenSignIn
    \/ OpenSignUp
    \/ \E view \in {"signIn", "signUp"}, e \in Emails, k \in Passwords, rem \in BOOLEAN :
         Press(view, e, k, rem)
    \/ PressTooShort
    \/ Back
    \/ SignOut
    \/ \E r \in requests : Accept(r) \/ Refuse(r)
    \/ \E w \in posted : StoreWrite(w)
    \/ \E w \in writes : SettleWrite(w)
    \/ SignInDone
    \/ SignUpDone
    \/ WrittenDone
    \/ Kill
    \/ Launch

Spec == Init /\ [][Next]_vars

\* While the app runs, its main queue and the SDK's worker queue are drained.
\* The SDK retries the writes of the user signed in until the backend decides
\* on them.  Nothing makes a user launch the app or sign in again.
Fairness == /\ WF_vars(Callback)
            /\ WF_vars(\E w \in posted : StoreWrite(w))
            /\ WF_vars(\E w \in writes : SettleWrite(w))

FairSpec == Spec /\ Fairness

-----------------------------------------------------------------------------
(* Properties *)

\* Type invariant of the stores, the screens, the requests and the callbacks.
TypeOK ==
    /\ accounts \in [Emails -> Passwords \cup {NoAccount}]
    /\ userDocs \subseteq Emails
    /\ current \in Emails \cup {Nobody}
    /\ realm \in Seq(RememberData)
    /\ stack \in Seq(Screen)
    /\ client \in BOOLEAN
    /\ requests \subseteq Request
    /\ posted \subseteq UserWrite /\ writes \subseteq UserWrite
    /\ mainQueue \in Seq(Answer)
    /\ presses \in Nat /\ moves \in Nat
    /\ overlapped \in BOOLEAN /\ signedOut \in BOOLEAN /\ refused \in BOOLEAN
    /\ faulty \subseteq Emails

\* A login that is remembered can be used for the automatic sign-in: it is an
\* account with this password, and its Users document is there or on its way,
\* unless a failure cut the sign-up short.
RememberedIsUsable ==
    \A k \in DOMAIN realm :
        LET e == realm[k].login IN
        /\ accounts[e] = realm[k].password
        /\ e \in userDocs \cup faulty \cup {w.email : w \in posted \cup writes}

\* The list on screen belongs to the user who is signed in, unless requests
\* overlapped; and every MainView the user can come back to was made while
\* somebody was signed in, so emailString is not nil when it is used.
MainViewIsCurrent ==
    /\ ~overlapped /\ On("main") => Top.email = current
    /\ \A k \in DOMAIN stack : stack[k].view = "main" => stack[k].email # Nobody

\* After a sign-out nobody is signed in and no login is remembered until the
\* next request is sent, unless requests overlapped.
SignedOutForgets == (signedOut /\ ~overlapped) => current = Nobody /\ realm = <<>>

\* A write on disk that the SDK does not send: its user is not signed in, or
\* no client was started since launch.
Parked(e) == \E w \in writes : w.email = e /\ (~client \/ w.user # current)

\* Every account gets its Users document in the end, even across restarts,
\* unless a failure cut the sign-up short or its write is parked.
AccountGetsDocument ==
    \A e \in Emails :
        <>[](accounts[e] # NoAccount => e \in userDocs \cup faulty \/ Parked(e))

\* Realm: "Attempting to create an object of type '%1' with an existing
\* primary key value '%2'." is never reached from writeData.
LoginRememberedOnce == ~refused
=============================================================================
