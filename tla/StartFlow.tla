----------------------------- MODULE StartFlow -----------------------------
(***************************************************************************)
(* The start flow of the app: launch, Google sign-in, the profile form and *)
(* the connection-code screen, on each phone, over the Firestore writes of *)
(* AppDB and the picture uploads of AppStorage.                            *)
(*                                                                         *)
(* An action is one run of code on the main thread (a tap's handler or a   *)
(* completion) or one event of Firebase.  What a handler starts and does   *)
(* not wait for is a call: its stages are actions of their own, and the    *)
(* user keeps tapping between them.  A screen is never dismissed, only     *)
(* covered by the next one, and a covered controller cannot present.       *)
(***************************************************************************)
EXTENDS AppDB, AppStorage

CONSTANTS Calls,        \* bound: sign-ins under way at once on one phone
          AccountsOn,   \* AccountsOn[p]: who may sign in on phone p
          Draws         \* Draws[p]: the codes arc4random may give phone p

ASSUME StartFlowAssumption ==
    /\ AccountsOn \in [Phones -> SUBSET Accounts]
    /\ Draws \in [Phones -> SUBSET Codes]

VARIABLES user,         \* User.shared of each phone
          defaults,     \* UserDefaults.standard of each phone
          screen,       \* the controller on top
          calls         \* sign-ins under way, and the profile read each starts

phoneVars == <<user, defaults, screen, calls>>
vars == <<dbVars, storageVars, phoneVars>>

Dead == {"Crashed", "Killed"}
Controllers == {"Start", "SignIn", "newProfile", "makeNewConnect", "MainHome"}
Stages == {"idle", "google", "firebase", "authenticated", "fetching", "fetched"}

(* person is whoever opened the form, prefill whose text viewDidLoad put in
   it: the two profiles the form can come to hold. *)
Screen == [vc : Controllers \cup Dead,
           prefill : Accounts \cup {Nil}, person : Accounts \cup {Nil},
           label : Codes \cup {Nil}, labelHidden : BOOLEAN]

(* onTop: the SignIn controller that made the call has presented nothing yet. *)
Call == [stage : Stages, account : Accounts \cup {Nil}, onTop : BOOLEAN,
         data : UserData \cup {Nil}]

IdleCall == [stage |-> "idle", account |-> Nil, onTop |-> FALSE, data |-> Nil]

TypeOK ==
    /\ DBTypeOK
    /\ StorageTypeOK
    /\ user \in [Phones -> Session]
    /\ defaults \in [Phones -> Session]
    /\ screen \in [Phones -> Screen]
    /\ calls \in [Phones -> [Calls -> Call]]
-----------------------------------------------------------------------------
Alive(p) == screen[p].vc \notin Dead

(* Google's sheet takes every tap while it is up. *)
GoogleUp(p) == \E i \in Calls : calls[p][i].stage = "google"

On(p, vc) == screen[p].vc = vc /\ ~GoogleUp(p)

(* viewDidLoad of the presented controller reads User.shared. *)
Loaded(vc, u) ==
    [vc |-> vc,
     prefill |-> IF vc = "newProfile" THEN ProfileOf(u) ELSE Nil,
     person |-> IF vc = "newProfile" THEN u.userIdToken ELSE Nil,
     label |-> IF vc = "makeNewConnect" THEN CodeOf(u) ELSE Nil,
     labelHidden |-> TRUE]

Present(p, vc) == screen' = [screen EXCEPT ![p] = Loaded(vc, user'[p])]

Covered(p) == [i \in Calls |-> [calls[p][i] EXCEPT !.onTop = FALSE]]

(* The process ends: its memory goes, what it gave to UserDefaults and to
   Firestore's queue stays. *)
Die(p, vc) ==
    /\ screen' = [screen EXCEPT ![p] = Loaded(vc, EmptySession)]
    /\ user' = [user EXCEPT ![p] = EmptySession]
    /\ calls' = [calls EXCEPT ![p] = [i \in Calls |-> IdleCall]]
    /\ UploadsLost(p)
-----------------------------------------------------------------------------
Init ==
    /\ \E registered \in SUBSET Accounts :
          DBInit(registered) /\ StorageInit(registered)
    /\ user = [p \in Phones |-> EmptySession]
    /\ defaults = [p \in Phones |-> EmptySession]
    /\ screen = [p \in Phones |-> Loaded("Start", EmptySession)]
    /\ calls = [p \in Phones |-> [i \in Calls |-> IdleCall]]

(* StartViewController *)
searchUserFromKeychain(d) ==
    CASE d.userIdToken = Nil -> "SignIn"
      [] d.userIdToken # Nil /\ d.userData = Nil -> "newProfile"
      [] d.userIdToken # Nil /\ d.userData # Nil /\ d.connectionToken = Nil ->
            "makeNewConnect"
      [] OTHER -> "MainHome"

Remembered(u, d) ==
    CASE d.userIdToken = Nil -> u
      [] d.userIdToken # Nil /\ d.userData = Nil -> setUserIdToken(u, d.userIdToken)
      [] d.userIdToken # Nil /\ d.userData # Nil /\ d.connectionToken = Nil ->
            setUserData(setUserIdToken(u, d.userIdToken), d.userData)
      [] OTHER ->
            setConnectionToken(setUserData(setUserIdToken(u, d.userIdToken), d.userData),
                               d.connectionToken)

goToNextStorybaord(p) ==
    /\ On(p, "Start")
    /\ user' = [user EXCEPT ![p] = Remembered(@, defaults[p])]
    /\ Present(p, searchUserFromKeychain(defaults[p]))
    /\ UNCHANGED <<dbVars, storageVars, defaults, calls>>

(* SignInViewController and the delegate in AppDelegate *)
googleSignIn(p, i) ==
    /\ On(p, "SignIn")
    /\ calls[p][i].stage = "idle"
    /\ calls' = [calls EXCEPT ![p][i] = [IdleCall EXCEPT !.stage = "google", !.onTop = TRUE]]
    /\ UNCHANGED <<dbVars, storageVars, user, defaults, screen>>

GoogleAnswered(p, i, a) ==
    /\ calls[p][i].stage = "google"
    /\ calls' = [calls EXCEPT ![p][i].stage = "firebase", ![p][i].account = a]
    /\ UNCHANGED <<dbVars, storageVars, user, defaults, screen>>

(* An error of Google or of Firebase, a sheet closed: printed, nothing else. *)
SignInFailed(p, i) ==
    /\ calls[p][i].stage \in {"google", "firebase"}
    /\ calls' = [calls EXCEPT ![p][i] = IdleCall]
    /\ UNCHANGED <<dbVars, storageVars, user, defaults, screen>>

(* Firebase makes the account its current user, then dispatches the completion
   to the main queue. *)
FirebaseAuthenticated(p, i) ==
    /\ calls[p][i].stage = "firebase"
    /\ SetAuth(p, calls[p][i].account)
    /\ calls' = [calls EXCEPT ![p][i].stage = "authenticated"]
    /\ UNCHANGED <<storageVars, user, defaults, screen>>

(* a slip: whoever has a token is taken to have a profile *)
checkProfileByToken(u) == u.userIdToken # Nil

(* checkProfile starts a read and answers from what is in memory before it. *)
checkProfile(u) == u.userData # Nil

(* a slip: the token is kept in memory only *)
UnsavedToken(d, token) == d

(* UserDefaults.standard.set(userIdToken, ...) *)
SavedToken(d, token) == setUserIdToken(d, token)

(* The completion of Auth.signIn.  A controller that has presented another
   cannot present again; with Google's sheet of a second call over it, either
   may happen. *)
SignInCompleted(p, i) ==
    LET call == calls[p][i]
        next == IF checkProfile(user[p]) THEN "makeNewConnect" ELSE "newProfile"
    IN  /\ call.stage = "authenticated"
        /\ defaults' = [defaults EXCEPT ![p] = SavedToken(@, call.account)]
        /\ user' = [user EXCEPT ![p] = setUserIdToken(@, call.account)]
        /\ \/ /\ call.onTop
              /\ Present(p, next)
              /\ calls' = [calls EXCEPT ![p] =
                             [Covered(p) EXCEPT ![i].stage = "fetching"]]
           \/ /\ ~call.onTop \/ GoogleUp(p)
              /\ calls' = [calls EXCEPT ![p][i].stage = "fetching", ![p][i].onTop = FALSE]
              /\ UNCHANGED screen
        /\ UNCHANGED <<dbVars, storageVars>>

(* The read of checkProfile: answered, or given up (offline with nothing
   cached, or no document), and the completion that stores the answer. *)
ProfileAnswered(p, i) ==
    /\ calls[p][i].stage = "fetching"
    /\ \E data \in UserData :
          /\ data = View(p, calls[p][i].account)
          /\ calls' = [calls EXCEPT ![p][i].stage = "fetched", ![p][i].data = data]
    /\ UNCHANGED <<dbVars, storageVars, user, defaults, screen>>

ProfileUnavailable(p, i) ==
    /\ calls[p][i].stage = "fetching"
    /\ calls' = [calls EXCEPT ![p][i] = IdleCall]
    /\ UNCHANGED <<dbVars, storageVars, user, defaults, screen>>

ProfileDelivered(p, i) ==
    /\ calls[p][i].stage = "fetched"
    /\ user' = [user EXCEPT ![p] = setUserData(@, calls[p][i].data)]
    /\ calls' = [calls EXCEPT ![p][i] = IdleCall]
    /\ UNCHANGED <<dbVars, storageVars, defaults, screen>>
-----------------------------------------------------------------------------
(* newProfileViewController.  A form that is not complete only shows an alert. *)
Typed(p) == {screen[p].prefill, screen[p].person} \ {Nil}

uploadData(profile) == [profile |-> profile, connectionCode |-> Nil]

finishWritingProfile(p, profile) ==
    LET token == user[p].userIdToken IN
    /\ On(p, "newProfile")
    /\ profile \in Typed(p)
    /\ token # Nil
    /\ Room(p, 1)
    /\ upload(p, token)
    /\ Enqueue(p, <<addData("users", token, uploadData(profile))>>)
    /\ user' = [user EXCEPT ![p] = setUserData(@, uploadData(profile))]
    /\ defaults' = [defaults EXCEPT ![p] = setUserData(@, uploadData(profile))]
    /\ Present(p, "makeNewConnect")
    /\ calls' = [calls EXCEPT ![p] = Covered(p)]

(* The process is killed while finishWritingProfile runs: Firestore queues on
   a thread of its own, so the write and UserDefaults may each be lost. *)
KilledInFinish(p, profile) ==
    LET token == user[p].userIdToken IN
    /\ On(p, "newProfile")
    /\ profile \in Typed(p)
    /\ token # Nil
    /\ Room(p, 1)
    /\ \/ Enqueue(p, <<addData("users", token, uploadData(profile))>>)
       \/ UNCHANGED dbVars
    /\ \/ defaults' = [defaults EXCEPT ![p] = setUserData(@, uploadData(profile))]
       \/ UNCHANGED defaults
    /\ Die(p, "Killed")

(* a slip: signOut leaves userData in UserDefaults *)
backToSignInHalf(p) ==
    /\ On(p, "newProfile")
    /\ user' = [user EXCEPT ![p] = clean(@)]
    /\ defaults' = [defaults EXCEPT ![p] = setUserIdToken(@, Nil)]
    /\ SetAuth(p, Nil) \/ UNCHANGED dbVars
    /\ Present(p, "SignIn")
    /\ calls' = [calls EXCEPT ![p] = Covered(p)]
    /\ UNCHANGED storageVars

(* a slip: signOut leaves the token in UserDefaults *)
backToSignInNamed(p) ==
    /\ On(p, "newProfile")
    /\ user' = [user EXCEPT ![p] = clean(@)]
    /\ defaults' = [defaults EXCEPT ![p].userData = Nil]
    /\ SetAuth(p, Nil) \/ UNCHANGED dbVars
    /\ Present(p, "SignIn")
    /\ calls' = [calls EXCEPT ![p] = Covered(p)]
    /\ UNCHANGED storageVars

(* User.signOut, then Auth.signOut, whose error is only printed. *)
backToSignIn(p) ==
    /\ On(p, "newProfile")
    /\ user' = [user EXCEPT ![p] = clean(@)]
    /\ defaults' = [defaults EXCEPT ![p] = EmptySession]
    /\ SetAuth(p, Nil) \/ UNCHANGED dbVars
    /\ Present(p, "SignIn")
    /\ calls' = [calls EXCEPT ![p] = Covered(p)]
    /\ UNCHANGED storageVars

(* signOut removes the keys one by one, in no order: a kill between two of
   them keeps the others. *)
KilledInSignOut(p) ==
    /\ On(p, "newProfile")
    /\ \E token \in {defaults[p].userIdToken, Nil}, data \in {defaults[p].userData, Nil} :
          defaults' = [defaults EXCEPT ![p].userIdToken = token, ![p].userData = data]
    /\ Die(p, "Killed")
    /\ UNCHANGED dbVars
-----------------------------------------------------------------------------
(* makeNewConnectViewController *)
lastConnectionCode(u) == CodeOf(u)

(* a slip: the last code is deleted after the new one is written *)
CodeWritesThenDelete(u, code) ==
    (IF u.userIdToken = Nil THEN <<>>
     ELSE <<addData("connection", code, u.userIdToken),
            addSingleData("users", u.userIdToken, code)>>)
    \o (IF lastConnectionCode(u) = Nil THEN <<>>
        ELSE <<removeData("connection", lastConnectionCode(u))>>)

CodeWrites(u, code) ==
    (IF lastConnectionCode(u) = Nil THEN <<>>
     ELSE <<removeData("connection", lastConnectionCode(u))>>)
    \o (IF u.userIdToken = Nil THEN <<>>
        ELSE <<addData("connection", code, u.userIdToken),
               addSingleData("users", u.userIdToken, code)>>)

(* The force-unwraps of getConnectionCode: the token, then userData inside
   setSingleUserData. *)
CodeTraps(u) == u.userIdToken = Nil \/ SingleUserDataTraps(u)

getConnectionCode(p, code) ==
    /\ On(p, "makeNewConnect")
    /\ Room(p, Len(CodeWrites(user[p], code)))
    /\ Enqueue(p, CodeWrites(user[p], code))
    /\ UNCHANGED defaults
    /\ IF CodeTraps(user[p]) THEN Die(p, "Crashed")
       ELSE /\ screen' = [screen EXCEPT ![p].label = code, ![p].labelHidden = FALSE]
            /\ user' = [user EXCEPT ![p] = setSingleUserData(@, code)]
            /\ UNCHANGED <<storageVars, calls>>

(* Killed while it runs: a proper part of its writes is on the queue. *)
KilledInGetCode(p, code) ==
    LET writes == CodeWrites(user[p], code) IN
    /\ On(p, "makeNewConnect")
    /\ Room(p, Len(writes))
    /\ \E n \in 1 .. Len(writes) - 1 : Enqueue(p, SubSeq(writes, 1, n))
    /\ Die(p, "Killed")
    /\ UNCHANGED defaults

backToProfile(p) ==
    /\ On(p, "makeNewConnect")
    /\ UNCHANGED user
    /\ Present(p, "newProfile")
    /\ calls' = [calls EXCEPT ![p] = Covered(p)]
    /\ UNCHANGED <<dbVars, storageVars, defaults>>

(* The system or the user ends the process between two events. *)
Killed(p) ==
    /\ Alive(p)
    /\ Die(p, "Killed")
    /\ UNCHANGED <<dbVars, defaults>>

(* Firebase finds at a refresh that the account or its token is not valid any
   more, and signs its user out by itself; the app is not told. *)
signOutByForce(p) ==
    /\ Alive(p)
    /\ auth[p] # Nil
    /\ SetAuth(p, Nil)
    /\ UNCHANGED <<storageVars, phoneVars>>

(* A launch finds an auth user in the keychain and opens a new write stream. *)
Launch(p) ==
    /\ ~Alive(p)
    /\ screen' = [screen EXCEPT ![p] = Loaded("Start", EmptySession)]
    /\ committed' = [committed EXCEPT ![p] = 0]
    /\ UNCHANGED <<auth, pending, users, connection, storageVars, user, defaults, calls>>
-----------------------------------------------------------------------------
(* The process must be alive to send or to hear; the server, the network and
   Firestore's own thread decide when. *)
Sent(p) == Alive(p) /\ Commit(p) /\ UNCHANGED <<storageVars, phoneVars>>
Answered(p) == Alive(p) /\ Acknowledge(p) /\ UNCHANGED <<storageVars, phoneVars>>
Refused(p) == Alive(p) /\ Reject(p) /\ UNCHANGED <<storageVars, phoneVars>>
Resent(p) == Alive(p) /\ Reconnect(p) /\ UNCHANGED <<storageVars, phoneVars>>

Storage(p) ==
    /\ \E a \in Accounts : UploadStored(p, a) \/ UploadFailed(p, a)
    /\ UNCHANGED <<dbVars, phoneVars>>

SignIn(p, i) ==
    \/ googleSignIn(p, i)
    \/ \E a \in AccountsOn[p] : GoogleAnswered(p, i, a)
    \/ SignInFailed(p, i)
    \/ FirebaseAuthenticated(p, i)
    \/ SignInCompleted(p, i)
    \/ ProfileAnswered(p, i)
    \/ ProfileUnavailable(p, i)
    \/ ProfileDelivered(p, i)

(* What a phone does, but for the sign-outs that Firebase forces. *)
PhoneStep(p) ==
    \/ goToNextStorybaord(p)
    \/ \E i \in Calls : SignIn(p, i)
    \/ \E a \in Accounts : finishWritingProfile(p, a) \/ KilledInFinish(p, a)
    \/ backToSignIn(p) \/ KilledInSignOut(p)
    \/ \E c \in Draws[p] : getConnectionCode(p, c) \/ KilledInGetCode(p, c)
    \/ backToProfile(p)
    \/ Killed(p) \/ Launch(p)
    \/ Sent(p) \/ Answered(p) \/ Refused(p) \/ Resent(p)
    \/ Storage(p)

Next == \E p \in Phones : PhoneStep(p) \/ signOutByForce(p)

Spec == Init /\ [][Next]_vars

(* The same, as long as no process ends and Firebase signs nobody out. *)
UndisturbedNext == (\E p \in Phones : PhoneStep(p)) /\ \A p \in Phones : Alive(p)'

UndisturbedSpec == Init /\ [][UndisturbedNext]_vars

(* Firestore keeps sending what is queued, over every stream it opens (weak),
   and a stream that is opened again and again answers in the end (strong).
   Nothing is asked of the people, of Google or of the operating system. *)
Fairness == \A p \in Phones : WF_vars(Sent(p)) /\ SF_vars(Answered(p))

FairSpec == Spec /\ Fairness
-----------------------------------------------------------------------------
(* Force-unwraps in getConnectionCode never meet nil: whatever callbacks, kills
   and sign-outs came before, the code screen is on top only with a token and
   a userData in memory. *)
NoCrash == \A p \in Phones : screen[p].vc # "Crashed"

(* A form or a code screen on top has a token in memory behind it, and a code
   screen a userData: the two force-unwraps of getConnectionCode are safe for
   the next tap, whichever completion runs first. *)
ScreenReady ==
    \A p \in Phones :
        /\ screen[p].vc \in {"newProfile", "makeNewConnect"} => user[p].userIdToken # Nil
        /\ screen[p].vc = "makeNewConnect" => user[p].userData # Nil

(* A call past Google's answer knows its account, an answered read its data. *)
CallsNamed ==
    \A p \in Phones, i \in Calls :
        /\ calls[p][i].stage \notin {"idle", "google"} => calls[p][i].account # Nil
        /\ calls[p][i].stage = "fetched" => calls[p][i].data # Nil

(* A token in memory is the one UserDefaults holds, so a kill at any moment
   loses no sign-in and revives no other. *)
TokenPersisted ==
    \A p \in Phones :
        user[p].userIdToken # Nil => defaults[p].userIdToken = user[p].userIdToken

(* Once no write is outstanding, a code that getConnectionCode shows on a phone
   is a connection document whose sender is the phone's user, as long as Firebase
   keeps that user: none of the deletes of earlier codes, sent again or late, took
   it away, and no write of it was refused. *)
ShownCodeIsLive ==
    \A p \in Phones :
        Drained /\ ~screen[p].labelHidden /\ auth[p] = user[p].userIdToken =>
            connection[screen[p].label] = user[p].userIdToken

(* Once no write is outstanding, the code a users document names is a connection
   document of that user: getConnectionCode's delete, add and merge leave nothing
   half done, in whatever order profiles are read and forms saved between them.
   Of a process that ends it is not true. *)
CodePointsBack ==
    Drained => \A a \in Accounts :
        users[a] # Nil /\ users[a].connectionCode # Nil =>
            connection[users[a].connectionCode] = a

(* Once no write is outstanding, a profile that UserDefaults keeps for the next
   launch, which then skips the form, is on the server too (finishWritingProfile
   gives it to both).  Of a process that ends in between it is not true, nor of
   overlapping sign-ins of two accounts: the token is the last one's, the profile
   the first one's. *)
SavedProfileOnServer ==
    \A p \in Phones :
        Drained /\ defaults[p].userData # Nil =>
            \E a \in Accounts :
                /\ a = defaults[p].userIdToken
                /\ users[a] # Nil
                /\ users[a].profile # Nil

(* Once no write is outstanding, a stored picture has its profile: the upload and
   the document are started by one tap and end apart, the document waits on its
   queue over kills and sign-outs, and no code that is merged into it later takes
   the profile away.  The other way round it is not true: a failed upload is only
   printed. *)
PictureHasProfile ==
    Drained => \A a \in images : users[a] # Nil /\ users[a].profile # Nil

(* The account in whose name a write is made; a delete names nobody. *)
Author(write) == IF write.collection = "users" THEN write.id ELSE write.data

(* What waits on an account's queue was written in that account's name, so rules
   that let owners write refuse nothing of it: the token that the app writes by
   and the user that Firebase queues by part when Firebase forces a sign-out, when
   Auth.signOut throws and over a launch, and what is written then must not reach
   the queue of another account.  Of sign-ins that overlap it is not true. *)
AuthorIsOwner ==
    \A p \in Phones, a \in Accounts : \A k \in DOMAIN pending[p][a] :
        Author(pending[p][a][k]) \in {a, Nil}

(* A session holds nobody else's profile. *)
Own(session) ==
    session.userData # Nil =>
        session.userIdToken # Nil /\ session.userData.profile \in {Nil, session.userIdToken}

OwnDocument(a, document) == document # Nil => document.profile \in {Nil, a}

(* No profile of one account is anywhere under another one: in memory, in
   UserDefaults, on the open form, in an answer on its way, in a write on a
   queue, on the server. *)
NothingForeign ==
    /\ \A p \in Phones :
        /\ Own(user[p]) /\ Own(defaults[p])
        /\ screen[p].vc = "newProfile" =>
               {screen[p].prefill, screen[p].person} \subseteq {Nil, user[p].userIdToken}
        /\ \A i \in Calls : OwnDocument(calls[p][i].account, calls[p][i].data)
        /\ \A u \in AuthUsers : \A k \in DOMAIN pending[p][u] :
               LET write == pending[p][u][k] IN
               write.collection = "users" /\ write.op = "addData" =>
                   OwnDocument(write.id, write.data)
    /\ \A a \in Accounts : OwnDocument(a, users[a])

(* A sign-in completes while another account is in memory, or a read for another
   account than the one in memory, if any is. *)
LateAnswer(p) ==
    \E i \in Calls :
        /\ calls'[p][i].stage # calls[p][i].stage
        /\ \/ /\ calls[p][i].stage = "authenticated"
              /\ user[p].userIdToken \notin {Nil, calls[p][i].account}
           \/ /\ calls[p][i].stage = "fetched"
              /\ user[p].userIdToken # calls[p][i].account

(* signOut is killed with the token removed and the userData not yet. *)
HalfSignedOut(p) ==
    defaults[p].userIdToken # Nil /\ defaults'[p].userIdToken = Nil /\ Alive(p) /\ ~Alive(p)'

(* One account's profile gets under another one in two ways only: a completion
   that arrives for an account that is no longer the one in memory, or a kill
   half way through signOut. *)
ForeignOnlyByRace ==
    [][NothingForeign /\ ~NothingForeign' =>
           \E p \in Phones : LateAnswer(p) \/ HalfSignedOut(p)]_vars

(* A code on the screen becomes a connection document of the phone's user,
   unless it leaves the screen or Firebase signs the user out first: sign-outs,
   kills and broken streams before it notwithstanding. *)
CodeEventuallyLive ==
    \A p \in Phones : \A c \in Draws[p] :
        LET shown == screen[p].label = c /\ ~screen[p].labelHidden
        IN  shown ~> \/ ~shown \/ auth[p] # user[p].userIdToken
                     \/ connection[c] = user[p].userIdToken
-----------------------------------------------------------------------------
(* What the repository says and the code does not do. *)

(* "delete last connectionCode" (makeNewConnectViewController.swift:51): a user
   has one connection document at most. *)
OneCodePerSender ==
    Drained => \A c, d \in Codes :
        connection[c] = connection[d] /\ connection[c] # Nil => c = d
=============================================================================
