# VoteOnOffice: a TLA+ model of the office voting app

VoteOnOffice is an iOS app in which the people of an office vote in polls that
administrators publish. There is no server code: every device runs the same
Swift program against three stores, and whatever consistency they have is the
work of that program.

| Store | Kept where | Written by |
|---|---|---|
| `Votes/{voteUUID}`: title, date, `voteVariants[i].variantVoteStatus` | Firestore | `AddVoteViewModel`, `VoteViewModel`, `MainViewModel` |
| `Users/{email}`: `userRole`, `userVotesList` of `{voteUUID, voteVariantID}` | Firestore | `SignUpViewModel`, `VoteViewModel` |
| accounts; `currentUser` on the device | Firebase Auth | `SignInViewModel`, `SignUpViewModel`, `MainViewModel` |
| `RememberData {login, password}`, primary key `login` | Realm, on the device | `SignModel`, `MainModel` |

Paths below are relative to `src/VoteOnOffice/VoteOnOffice/Classes/UIKit/`, and
those of the Firestore SDK (`FST...`, `FIR...`) to
`src/VoteOnOffice/Pods/FirebaseFirestore/Firestore/Source/`.

## Inventory

**Voting** (`ViewModel/VoteViewModel.swift`). State: none but the e-mail; all
of it is in Firestore and in the closures of queries under way. Operations:
`tabOnCell` reads the user's document and goes on with `voteFirst` (no vote in
this poll yet) or `voteSecond` (the vote moves); both read the poll and write
back whole fields computed from what was read. No transaction, no
acknowledgement of a write. Hard: two devices, or two taps of one user,
interleave between read and write; a write arrives after the poll was deleted;
the app ends half-way. Correct means: a user has one record per poll, a recorded
vote is not lost, the counters are the numbers of recorded votes.

**Vote screen** (`View/VoteView.swift`, `reloadViewData`). State: `selectRow`,
`arr`. Every emission of `selectRow` calls `reloadViewData`, whose second
callback emits `selectRow` again: a loop that polls the database until a query
fails. Hard: several loops overlap, a view that appears twice subscribes twice,
nothing ends with the screen. Correct means: the screen converges to the
recorded vote and counters, and the number of loops is bounded by what the user
did.

**List of polls** (`View/MainView.swift`, `ViewModel/MainViewModel.swift`,
`Model/MainModel.swift`). State: `itemsDtc`, `adminStatus`. Operations: read on
appearing, empty on disappearing, delete by swipe (administrators). Hard: one
read is a query of `Votes` and one of `Users` per poll, none is cancelled; the
row of a deletion is remembered by index. Correct means: each poll has one row,
a deletion takes its own row off.

**New poll form** (`View/AddVoteView.swift`, `ViewModel/AddVoteViewModel.swift`,
`View/cell/AddVoteCell.swift`). State: `items` (row numbers), and the texts,
which live only in reusable table cells. Correct means: what is published is
numbered 1..n and complete, and publishing does not end the app.

**Session** (`SignInView`, `SignUpView`, their view models, `SignModel`,
`MainViewModel.signOut`). State: Auth's `currentUser`, Realm, the stack of
screens, `login` of each form. Hard: buttons can be pressed again at once, the
automatic sign-in runs beside the manual one, results arrive after the screen
was left or after the sign-out, sign-up is three writes. Correct means: the
list on screen belongs to the user signed in, remembered logins work, a
sign-out forgets.

**Firestore SDK, write path** (`Core/FSTSyncEngine.mm`, `Local/FSTLocalStore.mm`,
`Local/FSTLevelDBMutationQueue.mm`, `Remote/FSTRemoteStore.mm`,
`Remote/FSTStream.mm`). Vendored, but everything the app knows of its own writes
comes from here. State: the mutation queue of each user on disk, the pipeline of
at most ten writes, the stream's state, acknowledged results held back for the
watch stream. Hard: broken streams, answers without a batch id, batch ids that
start again, restarts and changes of user. Correct means: no write is lost or
taken for another, and the device shows its own writes.

**Firestore SDK, read path** (`API/FIRQuery.mm`, `Core/FSTEventManager.mm`,
`Core/FSTView.mm`, `Remote/FSTRemoteEvent.mm`,
`Remote/FSTOnlineStateTracker.mm`). State: listeners of a query, the view, the
target's state on the watch stream, the device's copy and its resume token, the
online state. Hard: calls that share a listen, messages of an earlier listen,
refusals that cross an unwatch, silence. Correct means: every `getDocuments` is
answered once, and not as synced with old data.

Components talk by calls (view to view model), by RxSwift subjects (view model
to view), by Firestore's and Auth's callbacks on the main queue, and through the
shared stores. `PROJECT.json` lists all components, the ones left out too, and
the hazards with the line where each bites.

## Modules

| Module | Models | Extended by |
|---|---|---|
| `Ballot` | voting on several devices | `MCBallot`, `BallotProofs`, `BallotRecordProofs` |
| `VoteScreen` | the screen of one poll on one device | `MCVoteScreen`, `VoteScreenProofs` |
| `MainList` | the list of polls on one device | `MCMainList`, `MainListProofs` |
| `AddVoteForm` | the form for a new poll | `MCAddVoteForm`, `AddVoteFormProofs` |
| `Session` | signing in, up and out on one device | `MCSession`, `SessionProofs` |
| `Outbox` | abstract: what the SDK promises about writes | instantiated by `Ballot` and `WriteQueue` |
| `WriteQueue` | the SDK's way of a write | `MCWriteQueue`, `WriteQueueProofs` |
| `QueryRead` | the SDK's way of a `getDocuments` | `MCQueryRead`, `QueryReadProofs` |

The modules of the app share one picture of the SDKs: a call puts a request in
`requests`; an `Answer...` action takes the snapshot and appends the callback to
`mainQueue`; the callback runs when it is first there. A request may fail
instead. Firestore's writes wait in a queue on the device (`outbox`, `deletes`,
`writes`), which the device's own reads see at once, which survives the end of
the process, and from which the backend takes them later, or refuses them.
Handlers run to their end on the main queue, so each is one action.

`WriteQueue` and `QueryRead` look into that picture. `WriteQueue` is shown to
implement `Outbox`, and `Ballot` to be a user of `Outbox`, so the queue `Ballot`
works with is the one the SDK has. `QueryRead` shows which answers a
`getDocuments` can get: the backend's, an error, the device's copy, or the
snapshot of a listen that is still open. The last two are `RecallUser` and
`RecallVote` of `Ballot`.

### Ballot

`votes` and `users` are the two collections. A `userVotesList` is a set of
records and not a sequence: `voteFirst` appends only after `tabOnCell` found no
record of the poll, and `voteSecond` filters the poll's records out first, so no
list holds the same record twice, and nothing but `even.first` looks at the
order. `requests` carry what the closures capture (`index`, the list `arrays`,
`extraIndex` as `extra`).

| Action | Code (`VoteViewModel.swift`) |
|---|---|
| `TabOnCell` | `tabOnCell` up to its query, 128-130 |
| `VoteFirst` | callback without a record; writes `Users`, queries `Votes`, 138-144 and 68-73 |
| `VoteSecond` | callback with a record; queries `Votes`, 145-152 and 95-97 |
| `CountFirst`, `CountSecond` | the callbacks of these queries, 73-92 and 97-125 |
| `FailRead` | `guard error == nil` of each callback |
| `RecallUser`, `RecallVote` | the query is answered from the device's copy (`Core/FSTEventManager.mm` 163-185, 260-282) |
| `Refresh` | other queries of the app bring the copy up to date |
| `Apply` | the backend applies the next `updateData` of a device |
| `Acknowledge` | the answer: the oldest write leaves the queue (`Local/FSTLocalStore.mm` 190-207) |
| `Resend` | a broken connection: all that is unacknowledged is sent again (`Remote/FSTRemoteStore.mm` 503-520) |
| `RejectWrite` | the backend refuses the oldest write; nobody is told |
| `Crash` | the process ends; the SDK's queue is on disk and is sent again |
| `DeletePoll` | `itemsDelete` on an administrator's device |

`MoveVote` keeps the arithmetic of lines 109-116 as it is: `mutationValue2` is
read from `extraIndex` after the decrement, so the new variant's counter becomes
what the old variant's was. With counters 5 and 2, a vote that moves leaves 4
and 5. The history variable `skewed` marks polls where that happened.

`Offline` and `Flaky` are the devices that may answer from their copy and those
whose connection may break; a run without them has a network that only delays and refuses.
A read from the copy that differs from what the backend would have said puts the
user in `overlapped`, or the poll in `contended`: to the properties it is a tap
whose read happened earlier.

The history variables (`firsts`, `seconds`, `overlapped`, `faulty`, `replayed`,
`contended`, `skewed`, `intent`) are read by no guard. They name the conditions
under which a property is promised:

- `OneRecordPerPoll`, `CountersBounded`, `DeletedStaysDeleted`: always.
- `RecordedVotesKept`: for every user whose own taps did not overlap and whose
  writes were not applied a second time, whatever fails and whatever others do.
  A second application takes the list back to an older state for a while.
- `RecordsMatchTaps`: what is left when that while is over. A user who is at rest
  has, in every poll that exists, the variant tapped last, writes sent again or
  not, unless taps overlapped or something failed.
- `TallyExact`: for polls whose taps did not overlap, where nothing failed and
  no move met counters that were not one apart. Each of these conditions is
  needed: without it TLC finds a counterexample within three taps.
- `TapsTakeEffect`: liveness, under the same kind of conditions.
- `IsOutbox`: always.

What is not in `Ballot`: `selectRow.onNext`, which ends both callbacks. It
changes nothing a tap reads; it is in `VoteScreen`. Results the SDK drops on a
restart (see `WriteQueue`) are not in it either: until the watch stream brings
the write back, the device would read an older list, which `RecallUser` covers.

### VoteScreen

The documents are reduced to what the device sees of them: `record`, the user's
variant in this poll, and `tally`, a version number of the counters. `requests`
is a bag of unanswered queries.

| Action | Code |
|---|---|
| `ViewWillAppear` | `VoteView.swift` 28-47: subscribes, and reloads twice (the subscription is told the current value) |
| `Leave` | the view goes; its closures keep it alive |
| `DidSelectRow` | 98-102: a tap's query of `Users` |
| `Reloaded`, `RereadUser` | the two callbacks of `reloadViewData` |
| `TapRead`, `VoteFirst`, `VoteSecond` | the callbacks of a tap, with the `selectRow.onNext` at their end |
| `FailRead` | the early return of each callback |
| `VoteElsewhere`, `DeletePoll` | other devices |

`Emit` is `selectRow.onNext`. The view model's subject is bound to the view's
`selectRow` once per appearance and each value set reaches one subscription per
appearance, so n appearances turn one emission into n² reloads. `surplus` counts
the reloads beyond one per emission, and `MaxChains` cuts the growth: a callback
that would start more does not run (`CutOff`).

`ChainsAccounted` bounds the loops from both sides: not more than appearances,
taps and `surplus` explain, and not fewer than the finished taps, as long as the
poll exists and nothing failed, also after the screen was left. `ShownNeverOlder`
says that overlapping reloads never take the chart back; it rests on answers
being published in the order of their snapshots. `ScreenCatchesUp` is the
purpose of the loop. Its exception `Chains = 0` is needed: the view of a user
who has not voted is read twice and never again, and a failed query ends a loop
for good. `CutOff` excuses only behaviours that the bound ends.

### MainList

One device's list; `AddPoll`, `DeletePoll` and `CastVote` stand for the others.
`UserWritten` is the user's own sign-up, whose document may reach the backend
late (see `Session`): until then, and in a copy that does not have the document
yet, the query of `Users` finds nothing. The loop at `MainViewModel.swift:56` then
does not run, and the poll gets no row, without an error. `ownPolls` and `ownDoc`
are the copy an answer may come from, and a run may begin with an old one.

`lost` is a history variable of single polls: those whose own query of `Users`
failed or found no document. `ListMatchesRead` takes off these and the deleted
rows, and nothing else: a failure costs its own row and leaves the others, in
whatever order the answers come.

`MainView.items` is a copy of `itemsDtc` that every change refreshes in the same
handler, so there is one variable. `interrupted` is set when the view is left
before a read is through, `shifted` when rows go while a deletion is pending.
Both are needed: two rows swiped in quick succession take a wrong row off, a
deletion confirmed after the view was left traps in `remove(at:)`, and leaving
and coming back during a read lists polls twice. `DeletedRowLeaves` says that
nothing else disturbs a deletion; rows appended by a running read do not, since
they come behind it.

`PollsGetListed` needs `p \in expected`, a poll that was found, and excuses
`lost`. It says that the rights come with a row, and does not say that an
administrator always gets them: with an empty `Votes` collection, or as long as his
document is not found, `adminStatus` is never published, and he does not get the
button that adds a poll. That is so by the code's construction, and no document of
the repository promises otherwise, so it is listed as a hazard without a property.

### AddVoteForm

`cells` are the cells created so far with their texts, `cellOf` the cell of each
visible row. `ReloadData` deals cells to rows in any order, because the pool's
order is UIKit's. A row outside the window has no cell; `HasCell` is the guard
of `variantsArray`. `deleteRows` after the reload is taken to do what it says;
UIKit's check of row counts is not in the sources.

The run `add_vote_form_overflow` shows that `fatalError("Error Cell convert")`
(`AddVoteViewModel.swift:50`) is reached as soon as the form has one row more
than the table shows. In the storyboard the table is 248 points high and a row
40, so that is the eighth row.

### Session

`stack` holds the screens from the last `FirstView` up. A sign-out presents a
new navigation controller (`ReturnOnFirstView`, kind `showDetail`), under which
the old screens are unreachable; results for them still set `currentUser` and
write Realm. `Published` is `loginIsBool.onNext`: each binding sets `login`, each
setting reaches each subscription. `SignInView` subscribes once, `SignUpView`
every time it appears, and the new subscription is told the last value: going
back from `MainView` to `SignUpView` leads to `MainView` again.

The document of a new account goes through three places. `posted` is a `setData`
that the app has handed to the SDK's worker queue, with the user of that moment
(`Core/FSTFirestoreClient.mm` 338-355); an end of the process loses it, and
`End` puts its account into `faulty`. `StoreWrite` puts it on disk, into this
user's mutation queue (`writes`). `SettleWrite` is the backend's decision, which
needs `client`, a Firestore client in the running process, and the write's user
to be `current`: a change of user swaps the queue (`Local/FSTLocalStore.mm`
146-177). A client exists from the first use of a collection after launch, which
is a `setData` or the appearance of `MainView` (`Starts`). `Abandoned`: after a
restart nobody waits for the writes on disk.

`Parked` is a write on disk that the SDK does not send. `AccountGetsDocument`
excuses it, as `WritesDecided` of `WriteQueue` excepts users who are not signed
in: whoever signs up and then signs out, or closes the app, before the commit has no
document until he is back on this device. What the property leaves to be violated
is the way itself: a successful sign-up whose document is not handed over, or
that is neither queued nor decided nor lost to a failure, across all interleavings
of results, users, ends of the process and launches.

`WriteData` ends the process when the login is in Realm already. The run
`session_remember` shows that this happens: two presses before the first answer
are enough; so is signing in, going back, and signing in again.

### Outbox

A client's writes in a queue; the backend goes through it in order (`Apply`),
the client learns of the decision on the oldest (`Settle`, `Refuse`), and at any
time the backend may be set back to the oldest (`Resend`). `Issue` lets several
writes be queued at once, as `voteSecond` does.

### WriteQueue

One device, several users one after another. `queue` and `lastAcked` are what
`FSTLevelDBMutationQueue` has on disk, `remote` is the pipeline and the stream
of `FSTRemoteStore`, `held` are `heldBatchResults`, `blocks` the completion
blocks, `log` is what the backend has applied. All writes go to one document and
replace it, so a write is a number.

| Action | Code |
|---|---|
| `WriteMutations` | `writeMutations:completion:`, then `fillWritePipeline` |
| `TokenArrived`, `BackoffElapsed`, `IdleTimer` | the stream's start, backoff and idle timer |
| `HandshakeDone` | `writeStreamDidCompleteHandshake`: the pipeline is sent |
| `WriteAcknowledged` | the response is taken for the first pending write; `acknowledgeBatchWithResult:` holds or releases it |
| `StreamFailed`, `WriteRefused`, `ConnectionLost` | `writeStreamWasInterruptedWithError:`, `handleWriteError:` |
| `UserDidChange`, `Restart` | `startMutationQueue` for another user, in a new process |
| `Listen`, `Unlisten`, `ApplyRemoteEvent` | the watch stream, as far as held results depend on it |
| `AnswerHandshake`, `ApplyWrite`, `EndStream`, `ApplyHalfClosed` | the backend, external |

Assumed of the backend: it takes the requests of a stream in order, and is
through with what a stream has left behind before it answers the handshake of
the device's next one. Other devices' writes are not here; they are the subject
of `Ballot`.

`PipelineIsPrefix` and `AnswersMatchPipeline` are why an answer without a batch
id is taken for the right write. `BatchIdsAgree` collects the `HARD_ASSERT`s about
batches and says that completion blocks wait for their own write although batch
ids start again at 0. `NothingLost`,
`NewestWins` and `OwnWritesShown` are what the app relies on: a write leaves the
disk only when it was decided, writes applied again end with the newest, and the
device sees its own.

`OwnWritesShown` speaks of writes since the last restart or change of user, and
cannot say more: an acknowledged write held back for the watch stream is dropped
by a restart together with its batch ("just drop them",
`Local/FSTLocalStore.mm:126-128`), and the device shows the document before the
write until the backend sends it.

### QueryRead

One query with one document, which always matches; its content is a version, and
a resume token is the version the backend had reached. `sdk` is the client's
state on the worker queue, `posted` the blocks on their way there, `sdk.main`
the events on their way to the main queue. Calls are numbered in the order in
which the app makes them.

| Action | Code |
|---|---|
| `GetDocuments`, `Callback` | `FIRQuery.mm` 104-149: the call, and the listener that removes itself |
| `AddListener`, `RemoveListener` | `FSTEventManager.mm` 260-298; the first one listens, the last one stops |
| `TokenArrived`, `TokenFailed`, `BackoffElapsed`, `IdleTimer`, `StreamClosed` | the watch stream, `FSTStream.mm` |
| `Receive` | `watchStreamDidChange:` and the aggregator, `FSTRemoteEvent.mm` |
| `OnlineStateTimer` | ten seconds without a word, `FSTOnlineStateTracker.mm` |
| `UserDidChange` | the stream is restarted with another token |
| `AddTarget`, `RefuseTarget`, `RemoveTarget`, `SendChanges`, `OthersWrite`, `BreakStream` | the backend and the network, external |

A handler is one action that applies functions from client state to client
state, named after the methods (`SetAndBroadcast`, `UpdateState`, `TargetAdded`,
`RaiseSnapshot`, ...), in the order of the calls. Not in the module: documents
that leave the query (limbo resolution, existence filters), own writes in a view,
an app restart (nothing of a call survives one), and a stream that closes
without an error.

`SyncedIsFresh` is the reason for counting outstanding requests: the same query
has the same target id on a stream, and late messages of an earlier listen must
not make the new one current. `ResumeCovered` says that a broken stream never
leaves a token ahead of the copy. `AnsweredOnce` is about events already posted
when the listener removes itself. `CallsAnswered` needs the timer and the failure
count of the online state; nothing else ends the wait for a silent backend.

`SyncedIsFresh` measures freshness from the beginning of the listen and not from
the call. A call made before the listener of the previous one is removed joins
its listen and is answered at once with its snapshot (`FSTEventManager.mm:274`),
as if by the server although older than the call. The overlapping reloads of the
vote screen are such calls.

The run `query_read_refused` shows a bug. The backend refuses a listen that the
client has just taken back: `processTargetErrorForWatchChange` ignores it, the
target's count of outstanding responses stays one too high, and the next call of
the query on that stream never gets an answer. It does not matter whether the
backend still answers the unwatch. With one more call the count can also end up
too low: a refusal that arrives when the query is listened to again is taken for
one of the new listen, the target is forgotten together with the requests sent
after the refused one, and their responses are subtracted from a count that
starts at zero. `Miscounted` is a count that is wrong in either direction, and
`CallsAnswered` shows that it is the only reason for a call without an answer.

`crossed` remembers that a refusal met other requests of the target on their way.
Afterwards a count can be zero while responses of the present listen are still to
come, so that messages of an older listen are taken in: with four calls and two
refusals TLC finds a view that is marked synced although it is older than its
listen, and a token that is ahead of the copy. `SyncedIsFresh` and
`ResumeCovered` are therefore stated for behaviours without it. A single refusal
of the present listen does not count as crossed.

## Runs

| Run | Instance | Shows |
|---|---|---|
| `ballot_two_people` | 2 devices of 2 users, one offline and flaky; 1 poll, 2 variants, 2 taps | types, one record, bounds, exact tally, records match taps, deletion, refinement of `Outbox`, the last tap takes effect |
| `ballot_two_devices` | 2 devices of 1 user, 2 polls, 1 variant, 3 taps | recorded votes kept |
| `vote_screen` | 2 variants, 2 appearances, 1 tap, 1 change elsewhere, 1 failure, 4 loops | loops accounted for, results never older, the screen catches up |
| `main_list` | 2 polls, 2 reads, 1 deletion; with and without the user's document, and with an old copy | rows unique, complete, deleted correctly; every poll found is listed |
| `add_vote_form` | 3 visible rows, up to 4, 2 polls, 2 texts | numbering, publishing of a form that fits |
| `add_vote_form_overflow` | the same | violated: a row without a cell |
| `session` | 2 e-mails, 3 requests, 4 moves | remembered logins, identity of the list, sign-out; accounts get their document unless its write is parked |
| `session_remember` | 2 e-mails, 2 requests, 4 moves | violated: one login remembered twice |
| `write_queue` | 2 users, pipeline of 2, 3 writes, 2 faults | pipeline, answers, batch ids, own writes, nothing lost, refinement of `Outbox`, every write decided |
| `query_read` | 3 calls, 1 write of others, 1 fault, 1 refusal | answered once, synced means fresh, token covered |
| `query_read_live` | 3 calls, 1 fault, 1 refusal, Offline after 1 failure | types and assertions, every call answered |
| `query_read_refused` | 2 calls, 1 refusal | violated: every call answered |

Why these bounds are enough for the interesting cases. Two taps give a vote and a
change of it, or two votes of which one is lost between read and write, with
every write sent again over a broken connection; the bounds and the single
record, which more taps could break, are proved for any number. Three taps on
two polls give a list that is written back while it names another poll. Two
reads are the least in which a late answer meets the next read; a deletion meets
a running read, a view that was left and deletions elsewhere. One row more than
is visible gives every kind of row. Three requests allow a result before, during
and after a sign-out; four moves reach a form, its `MainView`, back, and a
restart. Two appearances are the least in which subscriptions multiply, and four
loops the least in which a multiplied emission happens. A pipeline of two with
three writes has a write outside it (`kMaxPendingWrites` is ten); two faults are
a change of user and the way back, or a broken stream and a restart. Three calls
are two that share a listen and one that follows on the same stream, and the least
in which a refusal leaves the count too low. `query_read_live` takes a
`kMaxWatchStreamFailures` of one (the SDK's is two), so that its one fault is
enough to go offline.

`CHECK_DEADLOCK` is off everywhere: taps, reads, requests and moves are bounded,
and an app nobody touches may rest.

Symmetry is used in one safety run only, on sets whose members no definition
distinguishes: the devices of one user and polls in `ballot_two_devices`.

## Fairness

- `Ballot`: weak fairness, per device, of answering a query, of running a
  callback and of applying the next write, and strong fairness of acknowledging
  the oldest: connections may break again and again, but not for ever before
  the first answer. Firestore calls the completion of `getDocuments` with a
  snapshot or an error, the main queue is serial, and the SDK sends its queue
  until the backend accepts or refuses. Failing is not fair and may happen at
  any time; it is excused by `faulty`.
- `VoteScreen`: queries are answered or fail, the main queue is drained.
- `WriteQueue`: tokens arrive, the backoff ends, the backend works off an open
  stream, the worker queue handles what came. Faults are bounded.
- `QueryRead`: both queues are served and timers run out. Of the backend only
  that it goes on once it has spoken on a stream (`online = "Online"`); a backend
  that never speaks is allowed, and calls are answered all the same.
- `MainList`: the same for queries and callbacks. Deletions need none.
- `Session`: the main queue and the SDK's worker queue are drained while the app
  runs, and the SDK retries the writes of the user signed in until the backend
  decides. `SettleWrite` is not enabled without a client or for another user, so
  nothing is assumed of parked writes. The user, Auth's answers, the end of the
  process, its restart and the next sign-in are not assumed to happen.

That `getDocuments` is answered or fails, as the modules of the app assume, is
what `query_read_live` shows of the SDK with one exception, the bug of
`query_read_refused`: a call it concerns is answered only when the stream breaks.
Liveness of the app's modules holds up to that.

## Proofs

Every theorem is about the module as TLC checks it, for every value of the
constants that satisfies the module's named assumptions. An invariant that is not
inductive by itself is strengthened by what has to be known about requests,
callbacks and queues on the way; each strengthening was first checked by TLC as an
invariant of a run's instance.

### BallotProofs

The theorems hold for any number of devices, users, polls, variants
and taps, and any sets of offline and flaky devices. They rest on the assumptions
of `Ballot`: `Email` is a function from devices to users, and `Absent` is not a
tally.

- `TypeCorrect`: `Spec => []TypeOK`. `TypeOK` is inductive. The only step that
  is not routine is a read: `LocalUser` and `LocalVote` take the newest queued
  write, so `LastPosition` shows that a nonempty set of queue positions has a
  last one (by well-foundedness of the naturals), and `LocalUserSource` and
  `LocalVoteSource` that a read returns the document or a queued write.
- `OneRecordPerPollHolds`: `Spec => []OneRecordPerPoll`. The property speaks of
  the documents; a list travels from a document to a callback, perhaps into the
  captured `arrays` of a second query, then into the outbox and back.
  `ListsSingle` states it of every list on that way and is inductive.
- `CountersBoundedHolds`: `Spec => []CountersBounded`. `TalliesWithin` states
  the bounds of every tally in a document, a callback or a queue. The bounds
  move: `CountFirst` raises `firsts`, `CountSecond` raises `seconds`. So the
  step lemma first carries everything that is in flight over to the new bounds
  (`BoundsGrow`, `WithinCarried`) and then adds the new write
  (`WithinOperators`).
- `DeletedStaysDeletedHolds`: `Spec => DeletedStaysDeleted`, from the
  precondition of `updateData`.
- `ImplementsOutbox`: `Spec => IsOutbox`. The refinement mapping is the identity
  on `outbox` and `applied`. `LongerQueue` and `IssueStep` show that the handlers'
  appends, of one write or of two, are an `Issue`; the part of `TypeOK` that
  bounds `applied` by the queue's length (`QueuedWrites`, `AppliedKept`) makes
  `Settle` and `Refuse` applicable; all other steps stutter or are a `Resend`.

The copies and the resent writes are lists and tallies on the way like the
others, so `ListsSingle` and `TalliesWithin` speak of `ownUser` and `ownVotes`
too.

### BallotRecordProofs

These need the steps of one user, or of one poll, to be followed through queries,
callbacks and queues. They use in addition that the set of users is finite
(`UsersAssumption`, for counting voters).

- `TapsSerial` is the basis: a user who is not in `overlapped` has at most one
  query or callback under way, and queued writes on one device only. It is
  inductive by itself.
- `RecordedVotesKeptHolds`: `Spec => RecordedVotesKept`. `ListsGrow` orders every
  list the user's taps have produced by the polls it names: the document, then
  the queued lists from the oldest to the newest, then the list a callback has
  captured. Applying a write can then only add polls. Writes applied a second
  time break the order, which is what `replayed` excuses.
- `RecordsMatchTapsHolds`: `Spec => []RecordsMatchTaps`. `ListsMatch` says for
  every poll that the newest list (the last queued one, or the document when
  nothing is queued) agrees with `intent` but for the poll of the tap under way,
  and that the captured list is that newest list. This also covers resending: the
  last write of the queue is the one that counts, however often the earlier ones
  are repeated. `GoneIsGone` keeps deleted polls out of the argument.
- `TallyExactHolds`: `Spec => []TallyExact`. `TalliesMatch` relates the counters
  to the voters on the way: the tally that will stand when everything queued is
  applied is the number of users whose standing record names the variant, less
  the one vote that `voteFirst` has recorded and not counted yet; a tally that a
  callback has read is the standing one; and a second vote starts from the variant
  on record. `OneMore` and `OneMoved` are the facts about cardinalities.

### AddVoteFormProofs

`IInv` is `TypeOK /\ VariantsNumbered /\ FittingFormPublishes` and is inductive: `TypeOK`
already says how `top` and the cells fit the rows. `PoolOfCells` and
`ReloadFits` describe what `reloadData` leaves behind, for every size of the
screen.

### SessionProofs

`Sent` are the documents handed over, on disk or not, and `Waiting` those on disk
whose completion block exists. `RememberedIsUsableHolds` needs `Credentials`
(what a callback is about to remember is an account with its password) and
`Documents` (an account without a document has its sign-up callback queued,
before any sign-in to the account). `MainViewIsCurrentHolds` and
`SignedOutForgetsHolds` need the shape of the stack of screens (`Shape`), the
uniqueness of request numbers (`Ids`), where a screen without a user can be
(`Nameless`), and that without an overlap at most one request, document or
callback is under way and none while a `MainView` is on screen (`Quiet`).
Documents that nobody waits for are outside `Quiet`: they may lie on disk through
sign-outs and sign-ins. `AbandonedWrites` and the lemmas on `End` carry the
invariants over an end of the process.

### MainListProofs

`NoPollTwiceHolds` and `ListMatchesReadHolds` follow a poll from the query of
`Users` to its answer to its row: it is at one of these places, once
(`OneRowEach`), and together with `lost` they are the polls the read found
(`FoundInv`); an answer that found no document belongs to a poll of `lost`, all
others do not. A failed query needs no exemption: it moves its poll to `lost`.
`OneRead` says that a read begins with an empty list and nothing under way.
`DeletedRowLeavesHolds` follows a deletion: until it is confirmed the row at its
index is the poll's, because rows are only appended.

### VoteScreenProofs

`ShownNeverOlderHolds`: `PollBehind` and `PollOrder` say that the version shown,
the versions in the main queue from the first to the last, and the present one
ascend. `ChainsAccountedHolds`: `ChainsBelow` and `ChainsAbove` count requests,
queued callbacks and subscriptions against appearances, taps and failures.

### QueryReadProofs

The theorems hold for any number of calls, writes of others, broken streams,
changes of user and refusals, and any `kMaxWatchStreamFailures`. A handler is a
composition of functions of the client's state, so lemmas first say what each
function does to the fields (`Told`, `Asks`, `Gathers`, ...); `Steps` and
`Shapes` then reduce `Next` to a few kinds of step, and each invariant has one
lemma per kind.

- `TypeCorrect`: `Spec => []TypeOK`, with `StreamInv` (a closed stream carries
  nothing, a closing message is the last, every failure counted was a fault) and
  `SnapshotThere` (a query with a listener has a snapshot).
- `AnsweredOnceHolds`: `Spec => []AnsweredOnce`. `CallInv` follows a call from
  the posted block to the listener to its events: it is added once, an error is
  its last event, and a call with an answer is muted or over.
- `NoResponseMissed`: until a refusal has crossed other requests, the count of
  outstanding responses is at least the number of responses asked for or under
  way (`CountInv`). It may be higher, after a refusal that was ignored.
- `ResumeCoveredHolds` and `SyncedIsFreshHolds`: `Spec => []ResumeCovered`,
  `Spec => []SyncedIsFresh`. `DocumentInv` orders versions: copy, gathered,
  messages, backend. `MessageInv` is about the messages that will be taken in,
  those behind the last response while nothing is requested and the count is
  exact: a mark is as new as the listen and stands behind the document it speaks
  of, a snapshot behind its mark (`FreshMessages`); tokens requested, served or
  gathered are covered (`TokensCovered`). `CountInv` is what makes all other
  messages harmless: the target is not active when they come.

The exemption `crossed` came out of these proofs: without it `CountInv` is not
inductive, and TLC showed that the properties fail as well.

### WriteQueueProofs

The theorems hold for any users, any `kMaxPendingWrites` of at least one, and
any number of writes, broken streams, refusals, changes of user and restarts. The queue
on disk is a sequence from which the code takes intervals off, so the first part
of the module is about positions: `Cut`, `Suffix` and `Parts` say where the
elements of a sequence are afterwards, and `KeptFacts`, `AfterFacts` and
`ReleasableFacts` that the model's operators do that. The invariant has four
layers. Each needs the ones before it, and each has one lemma per kind of step.

- `Base` ties the queue on disk, `held`, the pipeline and the stream together.
  `SplitAt`: the batches up to `lastAcked` are the held ones and come first;
  `PipeOk`: behind them is the pipeline, and `lastBatchSeen` tells where it ends,
  even when batches were refused in between; `Full`: there is no room in it or
  nothing to put there; `WritesOk`: answers and requests under way are those to
  the pipeline, in its order, and the answered writes are the last of the log.
  From it follow `PipelineIsPrefixHolds`, `AnswersMatchPipelineHolds`,
  `BatchIdsAgreeHolds` and `NothingLostHolds`. Batch ids begin again at 0 when
  the queues are empty; that `lastAcked` is reset at the same moment is
  `QueueOk`'s part in the proof of `StartMutationQueue`.
- `AppliedInv` says how far the backend is: `applied` counts unacknowledged writes
  and no more, equals the answers under way once the stream is greeted, and what a
  half-closed stream still brings are the next writes of the user who left it
  (`Awaited`). With it follow `TypeCorrect` (the count never goes below zero) and
  `ImplementsOutbox`: `ApplyWrite` and `ApplyHalfClosed` are `Apply`, the
  acknowledgement is `Settle`, `WriteRefused` is `Refuse`, the handshake is
  `Resend`, `WriteMutations` is `Issue`, all else stutters. `StepUnacked` shows
  that no other step touches the unacknowledged writes of any user: `After` an
  acknowledgement is the tail, and a release or a restart takes acknowledged
  batches only.
- `LogInv`: the writes of a user that are decided and not refused are older than
  those still queued, and the newest of them is in the log with nothing of this
  user behind it but writes refused or still queued (`SettledAt`). An
  acknowledgement adds the oldest queued write to them; `AnswersAhead` shows that
  what the backend applied after the answered version was queued behind it.
  `NewestWinsHolds` is the case of an empty queue.
- `ViewInv` is about the cache. A held result's version has the write of its
  batch, and only writes of this batch or later ones follow (`LaidDown`); the
  newest write of the session that is off the queue has a version that the cache
  shows, itself or a later one, and that the watch stream will not fall behind
  (`ShownAt`: the target's floor or the last snapshot has passed it). `Leaves`
  and `CopyApplied` carry this over the three steps that take batches off:
  `WriteAcknowledged`, `Unlisten`, `ApplyRemoteEvent`. Writes queued before the
  session are older than all of the session's (`MineInOrder`), which makes the
  last queued write the session's newest. `OwnWritesShownHolds` follows.

`WorkAtHand` is the part of `WritesDecided` that can be proved. `Served`: every
step that puts a batch into the pipeline, and every error and restart that leaves
one there, starts the stream. With `Full` and `StreamOk` it follows that while a
write of the user at work is not acknowledged a timer is set, or a token, an
answer or a request is on its way. That these steps get the writes decided in the
end is up to TLC.

### Only model-checked

Liveness (`TapsTakeEffect`, `ScreenCatchesUp`, `PollsGetListed`,
`AccountGetsDocument`, `WritesDecided`, `CallsAnswered`) is out of the proof
system's reach; `WorkAtHand` shows for `WritesDecided` that the SDK cannot get
stuck on the way. Every other property of a passing run is also a theorem.

## Plan

1. Done: `Ballot` with the network's faults, `VoteScreen`, `MainList`,
   `AddVoteForm`, `Session`; the SDK's paths `WriteQueue` and `QueryRead`; the
   abstract `Outbox` with both refinements; theorems about all modules of the app.
2. Done: theorems about `QueryRead` and `WriteQueue`.
3. Possible next: writes that patch several documents in `WriteQueue`, with the
   completion of one batch over several documents.

## Not modelled

Titles, descriptions, dates (`AddVoteModel.nowTime`), colours, the chart's
drawing; documents that lack a field (the `fatalError`s on conversions), which
this app never writes; a Realm that cannot be opened; what UIKit does inside an
animation.

Of the libraries under `Pods/`, which are almost all of the repository's lines,
only the paths of Firestore that the app's reads and writes take. The rest of
Firestore that could be modelled (limbo resolution, existence filters,
transactions, garbage collection, permanent listeners) is not used by this app.
BoringSSL, gRPC, Protobuf, leveldb, Realm's core and Charts are ciphers, codecs,
storage engines and drawing without a state that a property of this app could
name; what the app relies on of Auth, Realm and RxSwift is stated in the modules
that use them.

`ViewController.swift`, the second `AppDelegate.swift`, `DataStruct.swift` and the
test template are left out, since nothing uses them.
