# Project-SY (Date Diary): TLA+ models, checks and proofs

Project-SY is an iOS app for couples: sign in with Google, fill in a profile,
draw a six-digit connection code for the partner to type. The app's own code is
about a thousand lines of Swift under `ProjectSY/ProjectSY`; everything it keeps
goes through Firebase (vendored under `ProjectSY/Pods`). The Swift handlers are
short, and what is hard about them is in between: every call to Firebase returns
at once and completes later, on a screen that may have been left, for a user who
may have signed out, in a process that may have been killed.

Paths below are relative to `src/ProjectSY/ProjectSY/` unless they begin with
`Pods/` (then to `src/ProjectSY/`).

## Inventory

| Component | State | Operations | Correct when |
|---|---|---|---|
| Start screens (`Controllers/StartVCs/StartViewController.swift`, `SignInViewController.swift`) | screen on top, sign-ins under way | `goToNextStorybaord`, `googleSignIn`, completions of sign-in and of the profile read | each screen finds the token and the data its handlers need; one person's data never becomes another's |
| Profile form (`newProfileViewController.swift`) | text fields, a cached validity flag, the picked picture | editing and its checks, the picture picker, `finishWritingProfile`, `backToSignIn` | document, picture, memory and UserDefaults agree; nothing is sent that the last check found wrong |
| Code screen (`makeNewConnectViewController.swift`) | the label | `getConnectionCode`, `backToProfile` | the code has six digits, exists on the server, and is the only one of its user |
| Session (`Models/User.swift`) | `User.shared` (token, connectionToken, userData), UserDefaults | setters, `signOut` | memory and UserDefaults agree on who is signed in |
| AppDB (`Utils/AppDB.swift`) over FirebaseFirestore | the client's persistent queue per auth user; the server's documents | `addData`, `addSingleData`, `removeData` | writes reach the server in order, repeated ones do no harm |
| AppStorage (`Utils/AppStorage.swift`) over FirebaseStorage | uploads under way, stored pictures | `upload` | a profile has its picture |
| Firestore client, writes (`Pods/FirebaseFirestore/Firestore/core/src`: `SyncEngine`, `LocalStore`, `RemoteStore`, `WriteStream`, `Stream`) | a mutation queue per user on disk, a pipeline of at most ten writes, the write stream with its handshake, backoff and idle timer | writes, answers, user and connectivity changes, restarts | no write is stranded, each answer meets its write, no assertion fails |
| Firestore client, reads (`EventManager`, `QueryListener`, `OnlineStateTracker`, `WatchChangeAggregator`, `DocumentReference`) | listeners, the watch stream, responses that are due, the online state and its timer | `getDocument`, listens and unlistens, snapshots | every read is answered, once, and from the server only with what is fresh |
| AppDelegate | Google's delegate | launch, `sign(_:didSignInFor:)` | - |
| FirebaseAuth (vendored) | current user, in the keychain | signIn, signOut, the sign-out it forces on an invalid token | the current user is set before the completion runs; what the app writes after a forced sign-out reaches nobody else's queue |
| Home screen (`Controllers/MainVCs/HomeViewController.swift`) | menu buttons, the background file | menu, background picture | menu consistent, the picture survives |
| Colors, imagePicker (dead code), SceneDelegate, storyboards, tests (Xcode templates), the other Pods | - | - | not modelled, see `PROJECT.json` |

How they interact. All Swift code runs on the main thread, one handler or one
completion at a time. Handlers call `User.shared`, `UserDefaults`, `AppDB`,
`AppStorage` and `Auth` synchronously; the last three start work that ends on
other threads. Firestore's queue and Auth's current user are linked: the queue
written to and sent from is that of the current auth user, while the app names
documents by `User.shared`'s token, and the two can differ (a completion that is
late, an `Auth.signOut` that threw, a sign-out that Firebase forced and the app was not
told of). Nothing but `User.shared`, `UserDefaults`
and Firebase connects the screens.

## Modules

| Module | Models |
|---|---|
| `DateDiary` | phones, accounts, codes, and the two kinds of documents. The four text fields of a profile are one value: whose they are |
| `User` | `struct User` as a record, its mutating functions as operators |
| `AppDB` | the three write calls and the Firestore client: `pending[p][u]` is the queue of auth user `u` on phone `p`; `committed[p]` says how many writes of the current queue the server has applied and the phone does not know of yet; `users`, `connection` are the server's documents |
| `AppStorage` | uploads under way and pictures stored |
| `StartFlow` | composes them: one action per handler, completion, and event of Google, Firebase, the network or the operating system, on every phone |
| `ConnectionCode` | the loop that turns a random number into six digits |
| `ProfileForm` | the form before it is sent: fields, checks, colours, picker, alerts |
| `FirestoreStream` | `Stream` of the client: states, token requests, idle timer, what both streams share |
| `FirestoreWrites` | the client's write pipeline on one phone, over `FirestoreStream`; implements `AppDB` |
| `FirestoreReads` | `getDocument` of one document, over `FirestoreStream` |
| `StartFlowProofs`, `StartFlowServerProofs`, `StartFlowForeignProofs` | theorems about `StartFlow`: types, crashes and the token; what reaches the server; accounts mixed up |
| `AppDBProofs` | lemmas about `AppDB`'s operations that these rest on |
| `FirestoreWritesProofs`, `FirestoreReadsProofs`, `ConnectionCodeProofs`, `ProfileFormProofs` | theorems about one module each |
| `MCStartFlow`, `MCConnectionCode`, `MCFirestoreWrites`, `MCFirestoreReads` | values for TLC |

`StartFlow` is built on `AppDB`, which says what the Firestore client does for its
users; `FirestoreWrites` says how, and is checked and proved to implement it.
`FirestoreReads` is the same for the profile read, and `ProfileForm` is the
inside of the form whose outside `StartFlow` has.

From code to actions, in `StartFlow`:

* `screen[p].vc` is the controller on top. A presented controller is never
  dismissed, the next one is put over it, so the model keeps only the top one
  and, for each sign-in under way, `onTop`: whether its SignIn controller has
  presented nothing. `present` on a covered controller does nothing but log.
* A tap on the Google button is `googleSignIn`; a call then goes through
  `GoogleAnswered` (AppDelegate), `FirebaseAuthenticated` (Auth's own queue sets
  the current user), `SignInCompleted` (the completion on the main queue),
  `ProfileAnswered` and `ProfileDelivered` (the read `checkProfile` started, and
  its completion). Each stage is an action; the person keeps tapping in between,
  and may have signed out and tapped Google again (`Calls`).
* `finishWritingProfile`, `backToSignIn`, `getConnectionCode`, `backToProfile`
  and `goToNextStorybaord` are whole handlers, what `viewDidLoad` of the next
  screen reads included (`Loaded`).
* `getConnectionCode` has two force-unwraps. Where one would meet nil, the action
  puts its writes on the queue and the process into `Crashed`.
* `signOutByForce` is FirebaseAuth's own sign-out: a token refresh that says the user
  is disabled, deleted or expired ends the auth user and nothing else
  (`Pods/FirebaseAuth/FirebaseAuth/Sources/User/FIRUser.m:1472-1485`). The app
  keeps its token in memory and in UserDefaults and goes on writing, now to the
  queue of nobody. `Next` is a step of a phone (`PhoneStep`) or this one.
* The process may be killed between two handlers (`Killed`) and inside the three
  that write in several places (`KilledInFinish`, `KilledInSignOut`,
  `KilledInGetCode`). Memory goes; UserDefaults, the auth user and Firestore's
  queues stay. Firestore queues on its own thread, so a killed handler may have
  saved to UserDefaults and not queued, or the other way round.
* `Sent`, `Answered`, `Refused`, `Resent` are Firestore's write stream. A stream
  that breaks sends the unanswered writes again, though the server may have
  applied them (`remote_store.cc:422-481`).

In `FirestoreWrites` and `FirestoreReads` everything but the app's calls runs on
the client's worker queue, one task at a time. The client is therefore one
record; each function of the code is an operator from client to client, and a
task is their composition, callbacks and all: `OnWriteStreamMutationResult` pops
the pipeline, removes the batch and fills the pipeline again, which may mark the
stream idle or start it. A `HARD_ASSERT` that fails sets `failed`, which no step
resets.

* `FirestoreWrites`. A write goes to the current user's queue on disk
  (`WriteLocally`), from there into the pipeline (`Fetched`, at most
  `kMaxPendingWrites`), onto an open stream past its handshake
  (`WriteMutations`), and leaves pipeline and queue with its answer, which
  carries no id. `Close` is `Stream::Close`, with `OnWriteStreamClose` inside it
  and the handshake flag reset after it. `TokenArrives(age, ok)` is the answer to
  a token request made `age` closes ago; one of age 0 opens the stream, an older
  one does nothing. `Relaunched` keeps only what is on disk.
* The refinement. `DB == INSTANCE AppDB WITH ...` maps `pending` to the queues on
  disk, `auth` to the client's user, and `committed` to the number of results
  under way (zero for a stream that is not past its handshake). A write that is
  applied is `Commit`, an answer `Acknowledge`, a refusal `Reject`, any end of an
  open stream `Reconnect`; fetching, handshakes, backoff and idling are stutters.
* `FirestoreReads`. `getDocument` leaves a task on the worker queue
  (`AddQueryListener`), whose view gives a snapshot at once if it is in sync or
  the client is offline, and waits otherwise. The server's answers come back
  through `WatchChangeAggregator`, which drops what arrives while a response to a
  listen or an unlisten is due (`outstanding`). Events go to the main queue; the
  first one mutes the listener, answers, and leaves a task that removes it
  (`OnEvent`), with any number of further events behind it.
  Of `TargetState`, `current` is `current_` and `changed` is `has_pending_changes_`.
  The last response that is due resets `changed` and, if it is an ADDED, leaves
  `current` as it was (`Responded`, as `ClearPendingChanges` does); `rejoined`, a
  variable of the model's own, remembers that this happened with `current` set. A
  snapshot (`RaiseWatchSnapshot`) puts the document into the cache, deduces that it
  is absent if the target is current without it (`LacksDocument`), and tells the
  view whether the target is current. The server sends one with every CURRENT and
  may send others before it (`ServerSnapshot`, kind `early`).
* `ProfileForm`. A text is blank, right or wrong. `checkVaildity` looks at two of
  the four fields, colours them, and keeps its verdict until the next check; a
  tap on the finish button, outside the scroll view, makes none.

## Hazards

`PROJECT.json` lists them at their lines, with the properties that cover them.
The ones the models are built around: completions in any order with taps, two
sign-ins at once, a session of one account meeting answers for another, deletes
and adds of one code repeated by a broken stream, kills between writes that
belong together.

## What the runs check

Passing:

| Run | Instance | Shows | Distinct states |
|---|---|---|---|
| `code` | 1 account, 1 code, 1 sign-in at a time, kills, queue of 3, writes without an auth user refused, fairness | types; `ShownCodeIsLive`: once the queues are empty, the shown code is a connection document of its user, while that is Firebase's user too; `CodeEventuallyLive` | 9.2e5 |
| `accounts` | 2 accounts on one phone, 1 sign-in at a time, kills, queue of 2, writes without an auth user refused | `AuthorIsOwner`: what waits on an account's queue was written in its name; `ForeignOnlyByRace` | 1.7e6 |
| `overlap` | 1 account, 1 code, 2 sign-ins at once, kills, queue of 2 | `NoCrash`: `getConnectionCode` never force-unwraps nil; `ScreenReady`, `TokenPersisted`; `PictureHasProfile`: no stored picture without its profile | 1.8e6 |
| `undisturbed` | 1 account, 2 codes, 2 sign-ins at once, queue of 5, no process dies and Firebase forces no sign-out | `ShownCodeIsLive`; `SavedProfileOnServer`: a profile kept for the next launch is on the server; `CodePointsBack`: the code a users document names is a document of that user | 8.0e5 |
| `writes` | 2 users (one refused), 1 code, pipeline of 2, queues of 3, fairness | `NoAssertFails`, `NothingStranded`, `AnswersMatch`, types, and `ImplementsAppDB`; `KeepsSending`: a write that waits for ever is applied again and again, so it cannot; `FirstMovesOn`: the first write of a queue never stays for ever | 9.2e3 |
| `reads` | 2 reads, 2 versions, 2 events waiting | `NoAssertFails`, `AnsweredOnce`, `Fresh`, `NeverInLimbo`, `ResponsesCounted`, `NoReadForgotten`, types | 2.8e6 |
| `reads_live` | 2 reads, 1 version, weak fairness | `EveryReadAnswered` | 6.2e4 |
| `form` | the form | `WrongOnlyIfEdited`, `NothingRedIsSent`, types | 6.0e5 |
| `six_digits` | about 1000 numbers of every length | `SixDigits`, types | 8e3 |

`ForeignOnlyByRace` needs a word. The app can put one account's profile under
another's token, and the property says by which steps alone that can begin: a
completion that arrives for an account which is not the one in memory any more
(`LateAnswer`), or a kill inside `signOut` (`HalfSignedOut`). A sign-in that
completes while nobody is in memory is not late, however long it took; a read is,
because what it brings is kept without asking for whom. Everything
else (the form, the code screen, the launch, resent writes) never mixes two accounts.

`SavedProfileOnServer` and `CodePointsBack` hold as long as no process dies
inside a handler. With kills they do not: the two stores, and the three writes of
`getConnectionCode`, are not written together (`KilledInFinish`,
`KilledInGetCode`). Nor does the first hold when sign-ins of two accounts
overlap: the second one's completion renames the form that the first one's opened.
With a sign-out that Firebase forces, the writes of `getConnectionCode` and the form
go to the queue of nobody, so neither is stated of it.

That who is signed in to the app is signed in to Firebase is not true, even with one
sign-in at a time: after `signOutByForce` Firebase has nobody and the app its old
token, over launches too. What has to hold is that this harms no other account, and
`AuthorIsOwner` says so: every write that waits on an account's queue was written
in that account's name (a delete names nobody). It is why rules that let owners write
refuse nothing on such a queue; what the queue of nobody holds they do refuse
(`Denied = {Nil}` in `accounts`). Of sign-ins that overlap it is not true: Firebase keeps
the last that it authenticated, the app the last whose completion ran.
`ShownCodeIsLive` and `CodeEventuallyLive` speak of a phone whose token is Firebase's
user. `ShownCodeIsLive` is checked with kills in `code` and with
overlapping sign-ins in `undisturbed`, not with both at once.

`AnswersMatch` and `ResponsesCounted` relate the two ends of a stream: the first
is why an answer without an id may be taken for the first write, the second why a
message may be dropped by counting. `Fresh` is what the counting is for: an
answer that is said to come from the server is no older than the view (`UpToDate`),
although messages of an earlier listen of the same document may still be under way on
the same stream, and snapshots of the stream may come before the target is current.
It is relative to when the view was made: a second read joins the view of the first.
`Fresh` leaves out what the counting does not see: a target that is listened to
again before its unlisten is answered keeps `current_`, and `relisten` shows what that
does to `UpToDate`. `NeverInLimbo` is why reads of one document leave nothing to limbo
resolution: a view that is in sync shows no document that its target does not hold.

Violations. Each states what a comment says, and TLC finds the trace where the
code does otherwise. `one_code` uses `UndisturbedSpec`, in which no process dies,
so that its trace owes nothing to kills. `relisten` takes a server that sends a
snapshot of the stream before the CURRENT of a target; whether the real one does
is not to be seen in this repository, only that the client handles it.

| Run | Says | Does |
|---|---|---|
| `one_code` | the last code is deleted (`makeNewConnectViewController.swift:51`) | a profile that was read before the form was saved is delivered after the first code was drawn; it replaces the `userData` that names the code (`SignInViewController.swift:85`), and the second code is added beside the first. Saving the form again between two codes does the same in a few steps more |
| `relisten` | a snapshot that is not from the cache is up-to-date server data (`FIRSnapshotMetadata.h:35`); a freshly added target has its earlier state reset (`remote_event.cc:158`) | a first read finds the document absent; its unlisten and the listen of a second read are both under way when the document is created; REMOVED, as a response is still due, erases nothing, ADDED leaves `current_`; a snapshot that comes before the new CURRENT makes the target current, and the second read is answered "from the server" that there is no document |
| `untimed` | a stream attempt that neither succeeds nor fails is timed out (`online_state_tracker.cc:44`) | a read that stops listening while the stream is on its way up cancels the timer; the next read joins the attempt without one (`remote_store.cc:187`) |

Met while modelling, and not stated as properties because nothing in the
repository says otherwise, or only a text on the screen does: `checkProfile`
answers before its read does, so a registered user gets the form; the guard of
`User.swift:35` is inverted, so the first code replaces the local profile; a
failed upload is printed and its document written all the same; the random number
0 becomes seven zeros; a text field's text is never nil, so a form without a name
or a comment is sent.

### Bounds

* `Phones`: one in every run. Phones meet only in the server's documents; what
  two of them do to one code is not stated (below). The proofs take any number,
  but for the three about codes, whose hypothesis is `OnePhone`.
* `Accounts`: two where accounts can be mixed up, one elsewhere.
* `Codes`: two, where an old and a new code meet; the generator may draw the same
  one again. One where codes do not matter, and in `code`, where the same code is
  deleted and added again: the harder case, as the order of the writes decides.
* `Calls`: two is the least number at which completions overtake each other. One in
  `code` and `accounts`: `ShownCodeIsLive` (while processes die) and `AuthorIsOwner` are
  about one sign-in at a time. Reads still end late there, after a sign-out. That
  `ForeignOnlyByRace` has no other exception when sign-ins of two accounts overlap is
  proved (`OnlyRacesMixAccounts`), and so are `ScreenReady` and `TokenPersisted` for any
  accounts.
* `MaxQueued`: three writes are one `getConnectionCode` with a delete, five are two
  draws in a row. A handler whose writes do not fit does not run, so queued
  writes of several handlers mix as far as the places allow. Two in `overlap`
  and `accounts`: a form behind a form, or a form and a first draw, which is enough for
  the force-unwraps (the only write of `accounts` is the form's).
* `Denied`: auth users whose writes the rules refuse. `{Nil}` (nobody signed in with
  Firebase) in `code`, `accounts` and `writes`, empty elsewhere.
  `ShownCodeIsLive` is about users the rules let write; a refused write is only printed.
* `writes`: the pipeline limit, ten in the code, is two, and a queue of three lets
  it be full and be refilled after an answer or a restart. `MaxBatchId` is three
  ids before the app stops writing; they start again when the user changes or the
  app is launched. `MaxAge` is how many closes of the stream a token request may
  outlive before the model forgets it: a late one changes nothing, whatever its
  age.
* `reads`: two reads are the least that can join, follow or overlap one another,
  and a third finds what the second does. `MaxVersion` is the last version of the
  document (1 is the version before it is created), `MaxEvents` how many events
  of one listener wait for the main queue: those beyond would all be muted. One early
  snapshot at the end of the stream stands for any number in a row: the second finds
  nothing changed.
* `AccountsOn`, `Draws`: everything, but no codes in `accounts`, whose
  properties are about accounts: a code's writes join the same queue, under the same
  guard, as the form's.
* `NoPictures` (a VIEW) hides pictures and uploads in runs whose properties do
  not read them: nothing else in the model does. In `code`, which checks a liveness
  property, this is sound for the same reason: the guards and effects on everything
  else of every step, the fair actions and the property read neither, so the hidden part
  can be filled in along any path of the view. `Symmetry` permutes accounts, codes and
  calls; runs with a liveness property do not use it.

### Fairness

`CodeEventuallyLive` is checked under weak fairness of `Sent` and strong fairness
of `Answered` on every phone. `FillWritePipeline` runs after every write and
every answer, and a stream that closes with writes outstanding is started again
(`Pods/FirebaseFirestore/Firestore/core/src/remote/remote_store.cc:370-405,
476-480`), with backoff, for ever: a queued write is always about to be sent, and
over streams that keep breaking an answer arrives in the end. Nothing is asked
of people, of Google, of storage, of relaunching: a code that leaves the screen,
by a kill for one, is let go by the property itself. So is one whose user is no
longer Firebase's: a forced sign-out parks the write on a queue that is not sent
until that account signs in again, with the code still on the screen.

`KeepsSending` is where the weak fairness of `Sent` comes from. `FirestoreWrites`
assumes less, and lower down: the backoff timer fires (weak); a token, a
handshake, a write and its answer, tried again and again, succeed in the end
(strong, an assumption on the network). Idling, breaking, credential and
connectivity changes may go on for ever.

`EveryReadAnswered` assumes only weak fairness: the queues run, timers fire, a
token request comes to something, good or bad, and on an open stream the server speaks
(`ServerSpeaks`) and its messages arrive (`MessageArrives`), or the stream ends. It says
`Calm =>`: from some time on nobody restarts the network or changes the user, and
a stream that has been heard from does not break before it has answered. Without
a network the online-state timer or the failure of the stream answers the read
from the cache.

## What is proved

By TLAPS, for all values of the constants (any number of accounts, codes,
overlapping sign-ins, reads and versions, any queue, pipeline and other bound,
and, where no hypothesis says otherwise, any number of phones), from the named
assumptions of the modules:

| Assumption | Says |
|---|---|
| `NilAssumption` | `Nil` is no account, code or document |
| `DBAssumption` | the queue bound is a natural number; those whose writes are refused are auth users |
| `StartFlowAssumption` | `AccountsOn` and `Draws` are functions to sets of accounts and of codes |
| `DrawsAssumption` | `arc4random_uniform` stays below its limit |
| `MaxAgeAssumption`, `FirestoreWritesAssumption`, `FirestoreReadsAssumption` | bounds are natural numbers, the pipeline has room for a write, the app writes what `AppDB` knows; the document can exist, and an event can wait |

| Theorem | Statement | Hypotheses |
|---|---|---|
| `StartFlowProofs!TypeCorrect` | `Spec => []TypeOK`; in it, that the unanswered writes are never more than the queued ones | |
| `StartFlowProofs!NoForceUnwrapOfNil` | `Spec => []NoCrash` | |
| `StartFlowProofs!ScreensAreReady` | `Spec => []ScreenReady` | |
| `StartFlowProofs!TokenAlwaysPersisted` | `Spec => []TokenPersisted` | |
| `StartFlowForeignProofs!OnlyRacesMixAccounts` | `Spec => ForeignOnlyByRace`, an action property | |
| `StartFlowServerProofs!PicturesHaveProfiles` | `Spec => []PictureHasProfile` | `Denied = {}` |
| `StartFlowServerProofs!AuthorsAreOwners` | `Spec => []AuthorIsOwner` | `OneSignIn` |
| `StartFlowServerProofs!SavedProfilesReachServer` | `UndisturbedSpec => []SavedProfileOnServer` | `Denied = {}`, `OneSignIn` or `OneAccount` |
| `StartFlowServerProofs!ShownCodesAreLive` | `Spec => []ShownCodeIsLive` | `Denied \subseteq {Nil}`, `OnePhone`, `OneSignIn` |
| `StartFlowServerProofs!ShownCodesAreLiveUndisturbed` | `UndisturbedSpec => []ShownCodeIsLive` | `Denied = {}`, `OnePhone`, `OneAccount` |
| `StartFlowServerProofs!CodesPointBack` | `UndisturbedSpec => []CodePointsBack` | the same |
| `FirestoreWritesProofs!Invariance` | `Spec => []IInv` | |
| `FirestoreWritesProofs!TypesOK`, `AssertionsHold`, `NothingStrandedEver`, `AnswersMeetWrites` | `TypeOK`, `NoAssertFails`, `NothingStranded`, `AnswersMatch` always hold | |
| `FirestoreWritesProofs!PipelineImplementsAppDB` | `Spec => ImplementsAppDB`, the refinement | |
| `FirestoreReadsProofs!Invariance` | `Spec => []IInv` | |
| `FirestoreReadsProofs!TypesOK`, `AssertionsHold`, `CompletionsRunOnce`, `AnswersFresh`, `BothEndsCountAlike`, `NoReadForgottenEver` | `TypeOK`, `NoAssertFails`, `AnsweredOnce`, `Fresh`, `ResponsesCounted`, `NoReadForgotten` always hold | |
| `ConnectionCodeProofs!CodesHaveSixDigits`, `DigitsBounded` | `Spec => []SixDigits`, `Spec => []TypeOK` | |
| `ProfileFormProofs!FormTypeCorrect` | `Spec => []TypeOK` of the form | |
| `ProfileFormProofs!SentWrongOnlyIfEdited` | `Spec => []WrongOnlyIfEdited` | |
| `ProfileFormProofs!SentWithoutRed` | `Spec => []NothingRedIsSent` | |

Each of these properties is also checked by a run.

### The hypotheses

They are part of what the theorems say, and each keeps out something that can
really happen and that breaks one of the properties:

* `Denied = {}`, or `Denied \subseteq {Nil}` where only nobody's writes may be refused:
  a write the rules refuse is dropped and only printed.
* `OneSignIn` (one sign-in at a time is under way): of two that overlap, Firebase
  may keep one account and the app the other, and the queue that is sent is that
  of Firebase's.
* `OneAccount`: with one account, overlapping sign-ins neither change the queue nor
  the author, so they do no harm as long as no process dies. (After a sign-out a
  late completion can put the token back into UserDefaults while Firebase has
  nobody; the next launch believes the token, and what is written then joins the
  queue of nobody.)
* `OnePhone`: two phones may draw the same of the million codes, and the second
  `setData` replaces the first one's document.
* `UndisturbedSpec` (no process ends, and Firebase forces no sign-out): a kill inside a
  handler splits writes that belong together, and after a forced sign-out they join the
  queue of nobody.

`code` is an instance of the hypotheses of `ShownCodesAreLive`, `undisturbed` of
those of the three theorems about `UndisturbedSpec`.

### The arguments

*Crashes, screens, token* (`StartFlowProofs`). That the code screen does not crash
depends on what other handlers left in memory, so `NoCrash` is not inductive.
`SafeInv` adds to it `ScreenReady` (on the form there is a token, on the code
screen a token and a userData), `CallsNamed` (a completed sign-in brings an
account, an answered read a document, never nil) and `TokenPersisted` (which
carries the token over a kill and a launch). A code screen is presented by the
form, which has just set userData; by a launch, which has just read it; and by a
completion that found it in memory. Nothing clears memory without also presenting
the SignIn screen or ending the process. The proof takes one lemma per group of
handlers (`StartSafe`, `CallSafe`, `CompletedSafe`, ...), each for the one phone
that moves; `FramedSafe` puts the others back.

*What reaches the server* (`AppDBProofs`, `StartFlowServerProofs`). A property of
the server that holds once the queues are empty needs an invariant of the
queues while they are not. `AppDBProofs` has them, with one lemma per operation of
`AppDB`: queueing, applying, acknowledging, and a stream that breaks and sends again.

* `Backed(a)`: the profile of `a` is on the server or in some queue. It survives
  everything while nobody is refused, because a users document is never deleted
  and a later write without a profile is a merge. `PicturesHaveProfiles` asks it of
  every picture and upload, `SavedProfilesReachServer` of every profile in
  UserDefaults.
* `Lands(p, c, a)`: once the current queue of `p` has been sent, from wherever the
  stream has come to, document `c` is the one of `a`. If a write of the queue touches
  `c`, the last one that does adds it for `a`. If none does, the server has it
  already. That the last write decides is why repeated deletes do no harm.
  `ShownCodesAreLive` asks it of the label, together with `Owner`: Firebase has nobody,
  or the token that UserDefaults keeps is its user, and a sign-in is on its way only on
  the SignIn screen, while there is no token. So as long as Firebase has somebody, the
  queue the code went to is the queue that is sent; a forced sign-out lets the code
  go, and a new sign-in starts from a screen without one.
* `AuthorsAreOwners` is the same `Owner` seen from the queues: a handler that writes has
  the token Firebase has, or writes to the queue of nobody, and sending only takes away.
* `Ends(p, a)`: the queue ends in a form, which takes the code away, or in a code
  that is merged into the users document right after its own document is added,
  and the server shows these writes as far as it has applied them. An empty queue
  leaves documents that point back. `CodesPointBack` follows, with `Signed` in the
  place of `Owner`: a form or a code screen has an auth user behind it.

*Who is mixed up with whom* (`StartFlowForeignProofs`). `NothingForeign` is no
invariant: races break it. The theorem says that a step which breaks it is one of
two kinds, so what is proved is that every other step keeps it. This needs
`WaitsInv`, an invariant: outside the launch screen and a dead process, a phone
without a token in memory has none in UserDefaults; at launch and after death,
memory is empty and no call is under way; only an answered read carries data. The
rest is the step: `OwnPhone` for what the phones hold, `OwnServer` for documents
and queues. The profile read sees the server's document under the phone's own
queue (`AppDB!View`), a recursive function. `ViewKeeps` shows that what it returns
is of the account it was asked for: among the lengths at which that failed there
would be a least one, and the write before it is not foreign.

*Writes* (`FirestoreWritesProofs`). `IInv` is `Sound` (types; ids ascend in every
queue and start below the next one, `Ordered`; the pipeline is a prefix of the
current queue, `Oldest`; `Matched`: the requests under way, the answers under way and
the pipeline agree; `StreamSound`: which state of the stream can have which of
these), `Settled` (nothing is stranded) and `ServerTypeOK`. A task is a composition
of functions, and `Settled` does not hold between them: a stream that has closed
with writes outstanding is not yet started again. So there is one lemma per
function of the client (`FillWritePipeline`, `Close`, `OnWriteStreamMutationResult`,
...), which asks for what holds at its call and gives what holds at its return.
`Restartable` is what holds between `HandleUserChange` and `RestartNetwork`. The
refinement takes the same functions once more and says what each does to the
queues on disk: nothing (`Unseen`), or one step of `AppDB`. That the pipeline is a
prefix and that ids ascend is what makes "remove the batch of this id" the same as
"drop the first of the queue", and `Matched` is why the answer was that one's.

*Reads* (`FirestoreReadsProofs`). `Core` holds between the functions of a task too:
types, a stream that is not open has nothing under way, a view in sync and the
events it gave are no older than their listener. Between tasks there are also
`Tracker` (the online state and its timer), `Channel` (the responses that are due
are the listens and unlistens under way and the responses on their way back, and
a CURRENT after the last of them is of this listen), and `Up` (while somebody
listens, the stream is up or on its way).
`ResponsesCounted` comes from `Channel`. `Fresh` needs the order of the messages too
(`InOrder`): a consistent snapshot follows its CURRENT with the same version
(`Paired`), between a CURRENT and an early snapshot behind it lies a response
(`Parted`), and a target that is current and active, and was not rejoined, has been told
by the server (`Told`). `Honest`, a part of `Core`, says that the cache has the document
of the version it stands for, and has it if the target does. So as long as a response is due, what
arrives belongs to an earlier listen and is dropped; what is not dropped is no older
than the view; and an early snapshot finds a target that is not current, so it says
nothing. Every one of these clauses that is about freshness is stated of a client whose
`rejoined` is unset. `OnceAdded` and `OnceAnswered` follow one read: its task
to add it, its listener, the events that wait for the main queue, its task to remove
it. They say that the first event which is not muted is the only one that runs the
completion.

Both `IInv`s were checked by TLC before they were proved, on the bounds of `reads`
and on larger ones than those of `writes`.

*Digits.* The loop's invariant ties `temp` and `digit` to the number drawn: after
`d` turns `temp` is the number without its last `d` digits, stated by the intervals
between powers of ten.

*The form.* `FlagIsKept` ties the cached flag to the fields: while it is set, no text
is red, and every checked field that is not right was edited since. Checks make it
so, edits keep it, and a form that is opened has neither flag nor document.

### Only model-checked

* The liveness properties `CodeEventuallyLive`, `KeepsSending`, `FirstMovesOn` and
  `EveryReadAnswered`: liveness under fairness, and the `ENABLED` in it, are out of
  the prover's reach.
* `NeverInLimbo`, checked by `reads`.
* The three violation runs: a counterexample is one behaviour, and TLC shows it.
* Nothing links `FirestoreReads` to the read of `StartFlow` (`ProfileAnswered`) but
  the text under "Not modelled".

## Assumed of what is outside

* The server: it reads a stream in order; it never ends a write stream with OK;
  its replies parse; writes of a stream that is closed are not applied after
  those of a newer one; after a refusal it ends the stream; it acknowledges every
  listen and unlisten; a document that exists comes with every CURRENT, and a global
  snapshot of the same version follows it; other snapshots it sends only before the
  target's CURRENT, with the newest version.
  Whether the stream's user may read the document is `allowed`, and changes only
  with the user.
* Tokens: a request is answered for the user who is current then
  (`firebase_credentials_provider_apple.mm`).
* The app never disables the network: it is disabled only inside
  `RestartNetwork`.

## Not modelled

* What the text fields hold, beyond blank, right and wrong.
* In `StartFlow`, reads from Firestore's cache when the phone is offline: a read is
  answered with the server's document under the phone's own pending writes, or
  not at all. `FirestoreReads` has the cache; it has no pending local writes.
* Of the Firestore client: queries of several documents, limbo resolution
  (`NeverInLimbo` says that a read of one document leaves nothing to it), existence filters, transactions, garbage collection, stream tokens, storage
  and wire formats. The app reads one document at a time and uses none of them.
  A document that is deleted while it is listened to: the app deletes no users
  document.
* `HomeViewController`: no code writes `connectionToken`, so that branch of
  `searchUserFromKeychain` is never taken, and the button that should change the
  background sends `findNewPictureWithAlertTitle:` (`Views/TabBar.storyboard:67`),
  which the controller does not have. What is left sets `isHidden`.
* The code that another user types (`writeConnectionCode` has an empty confirm
  action) and `download`, `getMetaData`, which return nil.
* Two phones that draw the same code: nothing in the code or its texts says what
  should happen.
* The other Pods. They are nearly all of the repository's lines, third-party and
  generated code below the interfaces the models stop at (gRPC, TLS, storage,
  OAuth, protocol buffers): the app's own code is under a thousand lines.

## Plan

Done: the start flow over AppDB and AppStorage, the digits of a code, the form,
the Firestore client's writes and reads; every safety property of the passing runs but
`NeverInLimbo`, and the action property, proved, and the refinement of `AppDB`.

Next, in this order:

1. The hypothesis `OnePhone` of the theorems about codes, weakened to phones that share
   neither accounts nor codes they draw.
2. Of `ShownCodesAreLive` with overlapping sign-ins and kills: how far it holds for one
   account once Firebase has authenticated it.
3. `NeverInLimbo`, from `InOrder` and what a relisten does to `contains`.
4. The hazards that have no property yet (`PROJECT.json`).
