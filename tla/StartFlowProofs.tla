-------------------------- MODULE StartFlowProofs --------------------------
(***************************************************************************)
(* What holds of the start flow for any number of phones, accounts, codes, *)
(* overlapping sign-ins and queued writes: its types, that the token in    *)
(* memory is the persisted one, and that getConnectionCode never           *)
(* force-unwraps nil.                                                      *)
(***************************************************************************)
EXTENDS StartFlow, AppDBProofs

(* The parts of TypeOK that are neither Firestore's nor Storage's. *)
PhoneTypeOK ==
    /\ user \in [Phones -> Session]
    /\ defaults \in [Phones -> Session]
    /\ screen \in [Phones -> Screen]
    /\ calls \in [Phones -> [Calls -> Call]]

(* TypeOK is the types of Firestore, of Storage and of the phones. *)
LEMMA TypeParts ==
    /\ TypeOK <=> DBTypeOK /\ StorageTypeOK /\ PhoneTypeOK
    /\ TypeOK' <=> DBTypeOK' /\ StorageTypeOK' /\ PhoneTypeOK'
  BY DEF TypeOK, PhoneTypeOK

(* The values the handlers build are of the right types. *)
LEMMA SessionTypes ==
    /\ EmptySession \in Session
    /\ \A u \in Session, a \in Accounts \cup {Nil} : setUserIdToken(u, a) \in Session
    /\ \A u \in Session, d \in UserData \cup {Nil} : setUserData(u, d) \in Session
    /\ \A u \in Session, c \in Codes : setConnectionToken(u, c) \in Session
    /\ \A u \in Session, c \in Codes : setSingleUserData(u, c) \in Session
  BY DEF EmptySession, Session, setUserIdToken, setUserData, setConnectionToken,
         setSingleUserData, UserData

(* A controller that has loaded is a screen. *)
LEMMA ScreenTypes ==
    ASSUME NEW vc \in Controllers \cup Dead, NEW u \in Session
    PROVE  Loaded(vc, u) \in Screen
  BY DEF Loaded, Screen, Session, ProfileOf, CodeOf, UserData

(* The stages of a call are calls. *)
LEMMA CallTypes ==
    /\ IdleCall \in Call
    /\ \A c \in Call, s \in Stages : [c EXCEPT !.stage = s] \in Call
    /\ \A c \in Call : [c EXCEPT !.onTop = FALSE] \in Call
    /\ \A c \in Call, a \in Accounts : [c EXCEPT !.account = a] \in Call
    /\ \A c \in Call, d \in UserData : [c EXCEPT !.data = d] \in Call
  BY DEF IdleCall, Call, Stages

(* Covering the calls of a phone leaves them calls. *)
LEMMA CoveredType ==
    ASSUME PhoneTypeOK, NEW p \in Phones
    PROVE  Covered(p) \in [Calls -> Call]
  BY CallTypes DEF PhoneTypeOK, Covered

(* The end of a process leaves memory, screen, calls and uploads well typed. *)
LEMMA DieType ==
    ASSUME PhoneTypeOK, StorageTypeOK, NEW p \in Phones, NEW vc \in Dead, Die(p, vc)
    PROVE  /\ user' \in [Phones -> Session] /\ screen' \in [Phones -> Screen]
           /\ calls' \in [Phones -> [Calls -> Call]] /\ StorageTypeOK'
  <1>1. Loaded(vc, EmptySession) \in Screen
    BY SessionTypes, ScreenTypes
  <1> QED
    BY <1>1, SessionTypes, CallTypes DEF Die, UploadsLost, PhoneTypeOK, StorageTypeOK

(* Presenting a controller leaves the screens well typed. *)
LEMMA PresentType ==
    ASSUME PhoneTypeOK, NEW p \in Phones, NEW vc \in Controllers, Present(p, vc),
           user' \in [Phones -> Session]
    PROVE  screen' \in [Phones -> Screen]
  <1>1. Loaded(vc, user'[p]) \in Screen
    BY ScreenTypes
  <1> QED
    BY <1>1 DEF Present, PhoneTypeOK

(* Updating one call of one phone. *)
LEMMA OneCallType ==
    ASSUME PhoneTypeOK, NEW p \in Phones, NEW i \in Calls, NEW call \in Call,
           calls' = [calls EXCEPT ![p][i] = call]
    PROVE  calls' \in [Phones -> [Calls -> Call]]
  BY DEF PhoneTypeOK

(* The first launch is well typed. *)
LEMMA InitTypes == Init => TypeOK
  <1> SUFFICES ASSUME Init PROVE TypeOK
    OBVIOUS
  <1>1. DBTypeOK
    BY InitDB DEF Init
  <1>2. StorageTypeOK
    BY DEF Init, StorageInit, StorageTypeOK
  <1>3. Loaded("Start", EmptySession) \in Screen
    BY SessionTypes, ScreenTypes DEF Controllers
  <1>4. PhoneTypeOK
    BY <1>3, SessionTypes, CallTypes DEF Init, PhoneTypeOK
  <1> QED
    BY <1>1, <1>2, <1>4, TypeParts

(***************************************************************************)
(* TypeOK, step by step: one lemma per screen of the app.                  *)
(***************************************************************************)
LEMMA StartTypes ==
    ASSUME TypeOK, NEW p \in Phones, goToNextStorybaord(p)
    PROVE  TypeOK'
  <1> USE TypeParts
  <1> DEFINE d == defaults[p]
  <1>1. d \in Session /\ user[p] \in Session
    BY DEF PhoneTypeOK
  <1>2. Remembered(user[p], d) \in Session
    BY <1>1, SessionTypes DEF Remembered, Session
  <1>3. user' \in [Phones -> Session]
    BY <1>2 DEF goToNextStorybaord, PhoneTypeOK
  <1>4. searchUserFromKeychain(d) \in Controllers
    BY DEF searchUserFromKeychain, Controllers
  <1>5. screen' \in [Phones -> Screen]
    BY <1>3, <1>4, PresentType DEF goToNextStorybaord
  <1> QED
    BY <1>3, <1>5, StutterDB
    DEF goToNextStorybaord, PhoneTypeOK, StorageTypeOK, storageVars

(* Every stage of a sign-in, and of the read it starts. *)
LEMMA SignInTypes ==
    ASSUME TypeOK, NEW p \in Phones, NEW i \in Calls, SignIn(p, i)
    PROVE  TypeOK'
  <1> USE TypeParts
  <1> DEFINE call == calls[p][i]
  <1>0. /\ call \in Call /\ call.account \in Accounts \cup {Nil}
        /\ call.data \in UserData \cup {Nil}
    BY DEF PhoneTypeOK, Call
  <1>1. CASE googleSignIn(p, i)
    <2>1. [IdleCall EXCEPT !.stage = "google", !.onTop = TRUE] \in Call
      BY DEF IdleCall, Call, Stages
    <2>2. calls' \in [Phones -> [Calls -> Call]]
      BY <1>1, <2>1, OneCallType DEF googleSignIn
    <2> QED
      BY <1>1, <2>2, StutterDB DEF googleSignIn, PhoneTypeOK, StorageTypeOK, storageVars
  <1>2. ASSUME NEW a \in AccountsOn[p], GoogleAnswered(p, i, a) PROVE TypeOK'
    <2>1. a \in Accounts
      BY StartFlowAssumption
    <2>2. [call EXCEPT !.stage = "firebase", !.account = a] \in Call
      BY <1>0, <2>1 DEF Call, Stages
    <2>3. calls' = [calls EXCEPT ![p][i] = [call EXCEPT !.stage = "firebase", !.account = a]]
      BY <1>2 DEF GoogleAnswered, PhoneTypeOK
    <2>4. calls' \in [Phones -> [Calls -> Call]]
      BY <2>2, <2>3, OneCallType
    <2> QED
      BY <1>2, <2>4, StutterDB DEF GoogleAnswered, PhoneTypeOK, StorageTypeOK, storageVars
  <1>3. CASE SignInFailed(p, i) \/ ProfileUnavailable(p, i)
    <2>1. calls' \in [Phones -> [Calls -> Call]]
      BY <1>3, CallTypes, OneCallType DEF SignInFailed, ProfileUnavailable
    <2> QED
      BY <1>3, <2>1, StutterDB
      DEF SignInFailed, ProfileUnavailable, PhoneTypeOK, StorageTypeOK, storageVars
  <1>4. CASE FirebaseAuthenticated(p, i)
    <2>1. [call EXCEPT !.stage = "authenticated"] \in Call
      BY <1>0, CallTypes DEF Stages
    <2>2. calls' = [calls EXCEPT ![p][i] = [call EXCEPT !.stage = "authenticated"]]
      BY <1>4 DEF FirebaseAuthenticated, PhoneTypeOK
    <2>3. calls' \in [Phones -> [Calls -> Call]]
      BY <2>1, <2>2, OneCallType
    <2>4. DBTypeOK'
      BY <1>0, <1>4, SetAuthDB DEF FirebaseAuthenticated, AuthUsers
    <2> QED
      BY <1>4, <2>3, <2>4 DEF FirebaseAuthenticated, PhoneTypeOK, StorageTypeOK, storageVars
  <1>5. CASE SignInCompleted(p, i)
    <2>1. user' \in [Phones -> Session] /\ defaults' \in [Phones -> Session]
      BY <1>0, <1>5, SessionTypes DEF SignInCompleted, SavedToken, PhoneTypeOK
    <2>3. screen' \in [Phones -> Screen]
      BY <1>5, <2>1, PresentType DEF SignInCompleted, Controllers, PhoneTypeOK
    <2>4. [Covered(p) EXCEPT ![i].stage = "fetching"] \in [Calls -> Call]
      <3>1. [Covered(p)[i] EXCEPT !.stage = "fetching"] \in Call
        BY CoveredType, CallTypes DEF Stages
      <3> QED
        BY <3>1, CoveredType
    <2>5. [call EXCEPT !.stage = "fetching", !.onTop = FALSE] \in Call
      BY <1>0 DEF Call, Stages
    <2>6. \/ calls' = [calls EXCEPT ![p] = [Covered(p) EXCEPT ![i].stage = "fetching"]]
          \/ calls' = [calls EXCEPT ![p][i] = [call EXCEPT !.stage = "fetching", !.onTop = FALSE]]
      BY <1>5 DEF SignInCompleted, PhoneTypeOK
    <2>7. calls' \in [Phones -> [Calls -> Call]]
      BY <2>4, <2>5, <2>6, OneCallType DEF PhoneTypeOK
    <2> QED
      BY <1>5, <2>1, <2>3, <2>7, StutterDB
      DEF SignInCompleted, PhoneTypeOK, StorageTypeOK, storageVars
  <1>6. CASE ProfileAnswered(p, i)
    <2>1. PICK data \in UserData :
             calls' = [calls EXCEPT ![p][i].stage = "fetched", ![p][i].data = data]
      BY <1>6 DEF ProfileAnswered
    <2>2. [call EXCEPT !.stage = "fetched", !.data = data] \in Call
      BY <1>0 DEF Call, Stages
    <2>3. calls' = [calls EXCEPT ![p][i] = [call EXCEPT !.stage = "fetched", !.data = data]]
      BY <2>1 DEF PhoneTypeOK
    <2>4. calls' \in [Phones -> [Calls -> Call]]
      BY <2>2, <2>3, OneCallType
    <2> QED
      BY <1>6, <2>4, StutterDB DEF ProfileAnswered, PhoneTypeOK, StorageTypeOK, storageVars
  <1>7. CASE ProfileDelivered(p, i)
    <2>1. calls' \in [Phones -> [Calls -> Call]]
      BY <1>7, CallTypes, OneCallType DEF ProfileDelivered
    <2>2. user' \in [Phones -> Session]
      BY <1>0, <1>7, SessionTypes DEF ProfileDelivered, PhoneTypeOK
    <2> QED
      BY <1>7, <2>1, <2>2, StutterDB
      DEF ProfileDelivered, PhoneTypeOK, StorageTypeOK, storageVars
  <1> QED
    BY <1>1, <1>2, <1>3, <1>4, <1>5, <1>6, <1>7 DEF SignIn

(* The writes the handlers issue are writes of AppDB. *)
LEMMA HandlerWrites ==
    /\ \A a \in Accounts, profile \in Accounts :
          /\ uploadData(profile) \in UserData
          /\ <<addData("users", a, uploadData(profile))>> \in Seq(Writes)
    /\ \A u \in Session, c \in Codes : CodeWrites(u, c) \in Seq(Writes)
  <1>1. \A profile \in Accounts : uploadData(profile) \in UserData
    BY DEF uploadData, UserData
  <1>2. \A a \in Accounts, d \in UserData : addData("users", a, d) \in Writes
    BY DEF Writes
  <1>3. \A u \in Session, c \in Codes : CodeWrites(u, c) \in Seq(Writes)
    <2> SUFFICES ASSUME NEW u \in Session, NEW c \in Codes
                 PROVE  CodeWrites(u, c) \in Seq(Writes)
      OBVIOUS
    <2> DEFINE deletes == IF lastConnectionCode(u) = Nil THEN <<>>
                          ELSE <<removeData("connection", lastConnectionCode(u))>>
               adds == IF u.userIdToken = Nil THEN <<>>
                       ELSE <<addData("connection", c, u.userIdToken),
                              addSingleData("users", u.userIdToken, c)>>
    <2>1. lastConnectionCode(u) \in Codes \cup {Nil} /\ u.userIdToken \in Accounts \cup {Nil}
      BY DEF lastConnectionCode, CodeOf, Session, UserData
    <2>2. \A e \in Codes : removeData("connection", e) \in Writes
      BY DEF Writes
    <2>3. \A a \in Accounts : /\ addData("connection", c, a) \in Writes
                              /\ addSingleData("users", a, c) \in Writes
      BY DEF Writes
    <2>4. deletes \in Seq(Writes)
      BY <2>1, <2>2
    <2>5. adds \in Seq(Writes)
      BY <2>1, <2>3
    <2>6. CodeWrites(u, c) = deletes \o adds
      BY DEF CodeWrites
    <2> QED
      BY <2>4, <2>5, <2>6
  <1> QED
    BY <1>1, <1>2, <1>3

(* Finishing the form, whole or killed. *)
LEMMA FormTypes ==
    ASSUME TypeOK, NEW p \in Phones, NEW profile \in Accounts,
           finishWritingProfile(p, profile) \/ KilledInFinish(p, profile)
    PROVE  TypeOK'
  <1> USE TypeParts
  <1> DEFINE token == user[p].userIdToken
             writes == <<addData("users", token, uploadData(profile))>>
  <1>1. token \in Accounts /\ uploadData(profile) \in UserData /\ writes \in Seq(Writes)
    BY HandlerWrites DEF finishWritingProfile, KilledInFinish, PhoneTypeOK, Session
  <1>2. DBTypeOK'
    BY <1>1, EnqueueDB, StutterDB DEF finishWritingProfile, KilledInFinish
  <1>3. defaults' \in [Phones -> Session]
    BY <1>1, SessionTypes DEF finishWritingProfile, KilledInFinish, PhoneTypeOK
  <1>4. CASE finishWritingProfile(p, profile)
    <2>1. user' \in [Phones -> Session]
      BY <1>1, <1>4, SessionTypes DEF finishWritingProfile, PhoneTypeOK
    <2>2. screen' \in [Phones -> Screen]
      BY <1>4, <2>1, PresentType DEF finishWritingProfile, Controllers
    <2>3. calls' \in [Phones -> [Calls -> Call]]
      BY <1>4, CoveredType DEF finishWritingProfile, PhoneTypeOK
    <2>4. StorageTypeOK'
      BY <1>1, <1>4 DEF finishWritingProfile, upload, StorageTypeOK
    <2> QED
      BY <1>2, <1>3, <2>1, <2>2, <2>3, <2>4 DEF PhoneTypeOK
  <1>5. CASE KilledInFinish(p, profile)
    <2>1. /\ user' \in [Phones -> Session] /\ screen' \in [Phones -> Screen]
          /\ calls' \in [Phones -> [Calls -> Call]] /\ StorageTypeOK'
      BY <1>5, DieType DEF KilledInFinish, Dead
    <2> QED
      BY <1>2, <1>3, <2>1 DEF PhoneTypeOK
  <1> QED
    BY <1>4, <1>5

(* Signing out, whole or killed. *)
LEMMA SignOutTypes ==
    ASSUME TypeOK, NEW p \in Phones, backToSignIn(p) \/ KilledInSignOut(p)
    PROVE  TypeOK'
  <1> USE TypeParts
  <1>1. CASE backToSignIn(p)
    <2>1. user' \in [Phones -> Session] /\ defaults' \in [Phones -> Session]
      BY <1>1, SessionTypes DEF backToSignIn, clean, PhoneTypeOK
    <2>2. screen' \in [Phones -> Screen]
      BY <1>1, <2>1, PresentType DEF backToSignIn, Controllers
    <2>3. calls' \in [Phones -> [Calls -> Call]]
      BY <1>1, CoveredType DEF backToSignIn, PhoneTypeOK
    <2>4. DBTypeOK'
      BY <1>1, SetAuthDB, StutterDB DEF backToSignIn, AuthUsers
    <2> QED
      BY <1>1, <2>1, <2>2, <2>3, <2>4 DEF backToSignIn, PhoneTypeOK, StorageTypeOK, storageVars
  <1>2. CASE KilledInSignOut(p)
    <2>1. PICK token \in {defaults[p].userIdToken, Nil}, data \in {defaults[p].userData, Nil} :
             defaults' = [defaults EXCEPT ![p].userIdToken = token, ![p].userData = data]
      BY <1>2 DEF KilledInSignOut
    <2>2. [defaults[p] EXCEPT !.userIdToken = token, !.userData = data] \in Session
      BY DEF PhoneTypeOK, Session
    <2>3. defaults' \in [Phones -> Session]
      BY <2>1, <2>2 DEF PhoneTypeOK
    <2>4. /\ user' \in [Phones -> Session] /\ screen' \in [Phones -> Screen]
          /\ calls' \in [Phones -> [Calls -> Call]] /\ StorageTypeOK'
      BY <1>2, DieType DEF KilledInSignOut, Dead
    <2>5. DBTypeOK'
      BY <1>2, StutterDB DEF KilledInSignOut
    <2> QED
      BY <2>3, <2>4, <2>5 DEF PhoneTypeOK
  <1> QED
    BY <1>1, <1>2

(* Drawing a code, whole, trapped or killed, and going back to the form. *)
LEMMA CodeTypes ==
    ASSUME TypeOK, NEW p \in Phones, NEW c \in Codes,
           getConnectionCode(p, c) \/ KilledInGetCode(p, c)
    PROVE  TypeOK'
  <1> USE TypeParts
  <1> DEFINE writes == CodeWrites(user[p], c)
  <1>1. writes \in Seq(Writes)
    BY HandlerWrites DEF PhoneTypeOK
  <1>2. \A n \in 1 .. Len(writes) - 1 : SubSeq(writes, 1, n) \in Seq(Writes)
    <2> HIDE DEF writes
    <2> QED
      BY <1>1
  <1>3. DBTypeOK'
    <2>1. CASE getConnectionCode(p, c)
      BY <1>1, <2>1, EnqueueDB DEF getConnectionCode
    <2>2. CASE KilledInGetCode(p, c)
      <3>1. PICK n \in 1 .. Len(writes) - 1 : Enqueue(p, SubSeq(writes, 1, n))
        BY <2>2 DEF KilledInGetCode
      <3> QED
        BY <1>2, <3>1, EnqueueDB
    <2> QED
      BY <2>1, <2>2
  <1>4. defaults' \in [Phones -> Session]
    BY DEF getConnectionCode, KilledInGetCode, PhoneTypeOK
  <1>5. CASE Die(p, "Crashed") \/ Die(p, "Killed")
    <2>1. /\ user' \in [Phones -> Session] /\ screen' \in [Phones -> Screen]
          /\ calls' \in [Phones -> [Calls -> Call]] /\ StorageTypeOK'
      BY <1>5, DieType DEF Dead
    <2> QED
      BY <1>3, <1>4, <2>1 DEF PhoneTypeOK
  <1>6. CASE /\ getConnectionCode(p, c) /\ ~CodeTraps(user[p])
    <2>1. user' \in [Phones -> Session]
      BY <1>6, SessionTypes DEF getConnectionCode, PhoneTypeOK
    <2>2. [screen[p] EXCEPT !.label = c, !.labelHidden = FALSE] \in Screen
      BY DEF PhoneTypeOK, Screen
    <2>3. screen' \in [Phones -> Screen]
      BY <1>6, <2>2 DEF getConnectionCode, PhoneTypeOK
    <2> QED
      BY <1>3, <1>4, <1>6, <2>1, <2>3
      DEF getConnectionCode, PhoneTypeOK, StorageTypeOK, storageVars
  <1> QED
    BY <1>5, <1>6 DEF getConnectionCode, KilledInGetCode

(* A process that ends or starts. *)
LEMMA ProcessTypes ==
    ASSUME TypeOK, NEW p \in Phones, backToProfile(p) \/ Killed(p) \/ Launch(p)
    PROVE  TypeOK'
  <1> USE TypeParts
  <1>1. CASE backToProfile(p)
    <2>1. user' \in [Phones -> Session]
      BY <1>1 DEF backToProfile, PhoneTypeOK
    <2>2. screen' \in [Phones -> Screen]
      BY <1>1, <2>1, PresentType DEF backToProfile, Controllers
    <2>3. calls' \in [Phones -> [Calls -> Call]]
      BY <1>1, CoveredType DEF backToProfile, PhoneTypeOK
    <2> QED
      BY <1>1, <2>1, <2>2, <2>3, StutterDB
      DEF backToProfile, PhoneTypeOK, StorageTypeOK, storageVars
  <1>2. CASE Killed(p)
    BY <1>2, DieType, StutterDB DEF Killed, Dead, PhoneTypeOK
  <1>3. CASE Launch(p)
    <2>1. Loaded("Start", EmptySession) \in Screen
      BY SessionTypes, ScreenTypes DEF Controllers
    <2>2. DBTypeOK'
      BY <1>3 DEF Launch, DBTypeOK
    <2> QED
      BY <1>3, <2>1, <2>2 DEF Launch, PhoneTypeOK, StorageTypeOK, storageVars
  <1> QED
    BY <1>1, <1>2, <1>3

(* Firestore's and Storage's own steps. *)
LEMMA ServerTypes ==
    ASSUME TypeOK, NEW p \in Phones,
           \/ Storage(p) \/ Sent(p) \/ Answered(p) \/ Refused(p) \/ Resent(p)
           \/ signOutByForce(p)
    PROVE  TypeOK'
  <1> USE TypeParts
  <1>1. CASE Storage(p)
    BY <1>1, StutterDB
    DEF Storage, UploadStored, UploadFailed, StorageTypeOK, PhoneTypeOK, phoneVars
  <1>2. CASE Sent(p) \/ Answered(p) \/ Refused(p) \/ Resent(p)
    <2>1. DBTypeOK'
      BY <1>2, CommitDB, AcknowledgeDB, RejectDB, ReconnectDB
      DEF Sent, Answered, Refused, Resent
    <2> QED
      BY <1>2, <2>1
      DEF Sent, Answered, Refused, Resent, StorageTypeOK, PhoneTypeOK, storageVars, phoneVars
  <1>3. CASE signOutByForce(p)
    <2>1. DBTypeOK'
      BY <1>3, SetAuthDB DEF signOutByForce, AuthUsers
    <2> QED
      BY <1>3, <2>1 DEF signOutByForce, StorageTypeOK, PhoneTypeOK, storageVars, phoneVars
  <1> QED
    BY <1>1, <1>2, <1>3

(* Every step keeps TypeOK. *)
LEMMA NextTypes == TypeOK /\ [Next]_vars => TypeOK'
  <1> SUFFICES ASSUME TypeOK, [Next]_vars PROVE TypeOK'
    OBVIOUS
  <1>1. CASE UNCHANGED vars
    BY <1>1, TypeParts, StutterDB DEF vars, storageVars, phoneVars, StorageTypeOK, PhoneTypeOK
  <1>2. ASSUME NEW p \in Phones, NEW c \in Draws[p],
               getConnectionCode(p, c) \/ KilledInGetCode(p, c)
        PROVE  TypeOK'
    <2>1. c \in Codes
      BY StartFlowAssumption
    <2> QED
      BY <1>2, <2>1, CodeTypes
  <1> QED
    BY <1>1, <1>2, StartTypes, SignInTypes, FormTypes, SignOutTypes, ProcessTypes, ServerTypes
    DEF Next, PhoneStep

(* The state of every component keeps its shape, whatever is killed, refused,
   sent again or answered late. *)
THEOREM TypeCorrect == Spec => []TypeOK
  BY InitTypes, NextTypes, PTL DEF Spec

(***************************************************************************)
(* The screens and the token.                                              *)
(***************************************************************************)
(* NoCrash and TokenPersisted are not inductive: that a code screen can tap
   safely comes from ScreenReady, and that a completion brings an account and a
   document from CallsNamed. *)
SafeInv == TypeOK /\ CallsNamed /\ ScreenReady /\ NoCrash /\ TokenPersisted

(* The parts of SafeInv for one call and for one phone. *)
Named(call) ==
    /\ call.stage \notin {"idle", "google"} => call.account # Nil
    /\ call.stage = "fetched" => call.data # Nil

Safe(p) ==
    /\ \A i \in Calls : Named(calls[p][i])
    /\ screen[p].vc \in {"newProfile", "makeNewConnect"} => user[p].userIdToken # Nil
    /\ screen[p].vc = "makeNewConnect" => user[p].userData # Nil
    /\ screen[p].vc # "Crashed"
    /\ user[p].userIdToken # Nil => defaults[p].userIdToken = user[p].userIdToken

(* SafeInv is the types and its parts for every phone. *)
LEMMA SafeParts ==
    /\ SafeInv <=> TypeOK /\ \A p \in Phones : Safe(p)
    /\ SafeInv' <=> TypeOK' /\ \A p \in Phones : Safe(p)'
  BY DEF SafeInv, Safe, Named, CallsNamed, ScreenReady, NoCrash, TokenPersisted

(* A step of phone p leaves the others as they are. *)
Framed(p) ==
    \A q \in Phones \ {p} : /\ user'[q] = user[q] /\ defaults'[q] = defaults[q]
                            /\ screen'[q] = screen[q] /\ calls'[q] = calls[q]

(* What holds of the phone that moves holds of them all. *)
LEMMA FramedSafe ==
    ASSUME SafeInv, TypeOK', NEW p \in Phones, Framed(p), Safe(p)'
    PROVE  SafeInv'
  <1>1. \A q \in Phones \ {p} : Safe(q)'
    BY SafeParts DEF Framed, Safe
  <1> QED
    BY <1>1, SafeParts

(* The first launch is safe. *)
LEMMA InitSafe == Init => SafeInv
  <1> SUFFICES ASSUME Init PROVE SafeInv
    OBVIOUS
  <1>1. \A p \in Phones : Safe(p)
    BY DEF Init, Safe, Named, EmptySession, IdleCall, Loaded
  <1> QED
    BY <1>1, InitTypes, SafeParts

(* Memory is empty after a death, whatever UserDefaults holds. *)
LEMMA DieSafe ==
    ASSUME SafeInv, NEW p \in Phones, Die(p, "Killed"),
           defaults' \in [Phones -> Session],
           \A q \in Phones \ {p} : defaults'[q] = defaults[q]
    PROVE  Framed(p) /\ Safe(p)'
  <1> USE DEF SafeInv, TypeOK
  <1>1. user'[p] = EmptySession /\ screen'[p] = Loaded("Killed", EmptySession)
        /\ calls'[p] = [i \in Calls |-> IdleCall]
    BY DEF Die
  <1>2. Framed(p)
    BY DEF Die, Framed
  <1>3. Safe(p)'
    BY <1>1 DEF Safe, Named, Loaded, EmptySession, IdleCall
  <1> QED
    BY <1>2, <1>3

(* A launch presents what UserDefaults has the data for. *)
LEMMA StartSafe ==
    ASSUME SafeInv, NEW p \in Phones, goToNextStorybaord(p)
    PROVE  Framed(p) /\ Safe(p)'
  <1> USE DEF SafeInv, TypeOK
  <1> DEFINE d == defaults[p]
             vc == searchUserFromKeychain(d)
  <1>1. /\ user'[p] = Remembered(user[p], d)
        /\ screen'[p] = Loaded(vc, user'[p])
        /\ defaults'[p] = d /\ calls'[p] = calls[p]
    BY DEF goToNextStorybaord, Present
  <1>2. screen'[p].vc = vc
    BY <1>1 DEF Loaded
  <1>3. user[p] \in Session /\ d \in Session /\ Safe(p)
    BY SafeParts
  <1>4. Framed(p)
    <2>1. \A q \in Phones \ {p} : user'[q] = user[q] /\ defaults'[q] = defaults[q]
                                  /\ calls'[q] = calls[q]
      BY DEF goToNextStorybaord
    <2>2. \A q \in Phones \ {p} : screen'[q] = screen[q]
      BY DEF goToNextStorybaord, Present
    <2> QED
      BY <2>1, <2>2 DEF Framed
  <1>5. CASE d.userIdToken = Nil
    <2>1. vc = "SignIn" /\ user'[p] = user[p]
      BY <1>1, <1>5 DEF searchUserFromKeychain, Remembered
    <2> QED
      BY <1>1, <1>2, <1>3, <1>4, <2>1 DEF Safe
  <1>6. CASE d.userIdToken # Nil /\ d.userData = Nil
    <2>1. vc = "newProfile" /\ user'[p] = setUserIdToken(user[p], d.userIdToken)
      BY <1>1, <1>6 DEF searchUserFromKeychain, Remembered
    <2>2. user'[p].userIdToken = d.userIdToken
      BY <1>3, <2>1 DEF setUserIdToken, Session
    <2> QED
      BY <1>1, <1>2, <1>3, <1>4, <1>6, <2>1, <2>2 DEF Safe
  <1>7. CASE d.userIdToken # Nil /\ d.userData # Nil
    <2>1. user'[p].userIdToken = d.userIdToken /\ user'[p].userData = d.userData
      BY <1>1, <1>3, <1>7
      DEF Remembered, setUserIdToken, setUserData, setConnectionToken, Session
    <2>2. vc \in {"makeNewConnect", "MainHome"}
      BY <1>7 DEF searchUserFromKeychain
    <2> QED
      BY <1>1, <1>2, <1>3, <1>4, <1>7, <2>1, <2>2 DEF Safe
  <1> QED
    BY <1>5, <1>6, <1>7

(* A step that only moves one call. *)
LEMMA OneCallSafe ==
    ASSUME SafeInv, NEW p \in Phones, NEW i \in Calls, NEW call,
           Named(call), calls' = [calls EXCEPT ![p][i] = call],
           UNCHANGED <<user, defaults, screen>>
    PROVE  Framed(p) /\ Safe(p)'
  <1>1. Safe(p) /\ calls \in [Phones -> [Calls -> Call]]
    BY SafeParts DEF SafeInv, TypeOK
  <1>2. Framed(p)
    BY <1>1 DEF Framed
  <1>3. \A j \in Calls : Named(calls'[p][j])
    BY <1>1 DEF Safe
  <1> QED
    BY <1>1, <1>2, <1>3 DEF Safe

(* Covered controllers keep what their calls know. *)
LEMMA CoveredNamed ==
    ASSUME SafeInv, NEW p \in Phones
    PROVE  \A i \in Calls : /\ Named(Covered(p)[i])
                            /\ Covered(p)[i].account = calls[p][i].account
  <1>1. Safe(p) /\ calls[p] \in [Calls -> Call]
    BY SafeParts DEF SafeInv, TypeOK
  <1> QED
    BY <1>1 DEF Safe, Named, Covered, Call

(* The stages that change nothing but the call itself. *)
LEMMA CallSafe ==
    ASSUME SafeInv, NEW p \in Phones, NEW i \in Calls,
           \/ googleSignIn(p, i)
           \/ \E a \in AccountsOn[p] : GoogleAnswered(p, i, a)
           \/ SignInFailed(p, i) \/ FirebaseAuthenticated(p, i)
           \/ ProfileAnswered(p, i) \/ ProfileUnavailable(p, i)
    PROVE  Framed(p) /\ Safe(p)'
  <1> DEFINE call == calls[p][i]
  <1>0. /\ call \in Call /\ Named(call) /\ calls \in [Phones -> [Calls -> Call]]
    BY SafeParts DEF SafeInv, TypeOK, Safe
  <1>1. CASE googleSignIn(p, i)
    <2>1. Named([IdleCall EXCEPT !.stage = "google", !.onTop = TRUE])
      BY DEF Named, IdleCall
    <2> QED
      BY <1>1, <2>1, OneCallSafe DEF googleSignIn
  <1>2. ASSUME NEW a \in AccountsOn[p], GoogleAnswered(p, i, a)
        PROVE  Framed(p) /\ Safe(p)'
    <2>1. a # Nil
      BY StartFlowAssumption, NilAssumption
    <2>2. Named([call EXCEPT !.stage = "firebase", !.account = a])
      BY <1>0, <2>1 DEF Named, Call
    <2>3. calls' = [calls EXCEPT ![p][i] = [call EXCEPT !.stage = "firebase", !.account = a]]
      BY <1>0, <1>2 DEF GoogleAnswered
    <2> QED
      BY <1>2, <2>2, <2>3, OneCallSafe DEF GoogleAnswered
  <1>3. CASE SignInFailed(p, i) \/ ProfileUnavailable(p, i)
    <2>1. Named(IdleCall)
      BY DEF Named, IdleCall
    <2> QED
      BY <1>3, <2>1, OneCallSafe DEF SignInFailed, ProfileUnavailable
  <1>4. CASE FirebaseAuthenticated(p, i)
    <2>1. Named([call EXCEPT !.stage = "authenticated"])
      BY <1>0, <1>4 DEF FirebaseAuthenticated, Named, Call
    <2>2. calls' = [calls EXCEPT ![p][i] = [call EXCEPT !.stage = "authenticated"]]
      BY <1>0, <1>4 DEF FirebaseAuthenticated
    <2> QED
      BY <1>4, <2>1, <2>2, OneCallSafe DEF FirebaseAuthenticated
  <1>5. CASE ProfileAnswered(p, i)
    <2>1. PICK data \in UserData :
             calls' = [calls EXCEPT ![p][i].stage = "fetched", ![p][i].data = data]
      BY <1>5 DEF ProfileAnswered
    <2>2. Named([call EXCEPT !.stage = "fetched", !.data = data])
      BY <1>0, <1>5, NilAssumption DEF ProfileAnswered, Named, Call
    <2>3. calls' = [calls EXCEPT ![p][i] = [call EXCEPT !.stage = "fetched", !.data = data]]
      BY <1>0, <2>1
    <2> QED
      BY <1>5, <2>2, <2>3, OneCallSafe DEF ProfileAnswered
  <1> QED
    BY <1>1, <1>2, <1>3, <1>4, <1>5

(* The token of a completed sign-in goes to memory and to UserDefaults at once,
   before the screen that needs it. *)
LEMMA CompletedSafe ==
    ASSUME SafeInv, NEW p \in Phones, NEW i \in Calls, SignInCompleted(p, i)
    PROVE  Framed(p) /\ Safe(p)'
  <1> DEFINE call == calls[p][i]
             next == IF checkProfile(user[p]) THEN "makeNewConnect" ELSE "newProfile"
  <1>0. /\ call \in Call /\ Safe(p) /\ calls \in [Phones -> [Calls -> Call]]
        /\ user \in [Phones -> Session] /\ defaults \in [Phones -> Session]
        /\ screen \in [Phones -> Screen]
    BY SafeParts DEF SafeInv, TypeOK
  <1>1. call.account # Nil
    BY <1>0 DEF SignInCompleted, Safe, Named
  <1>2. /\ user'[p].userIdToken = call.account
        /\ user'[p].userData = user[p].userData
        /\ defaults'[p].userIdToken = call.account
    BY <1>0 DEF SignInCompleted, SavedToken, setUserIdToken, Session
  <1>3. \/ screen'[p].vc = next
        \/ screen'[p] = screen[p]
    BY <1>0 DEF SignInCompleted, Present, Loaded
  <1>4. /\ screen'[p].vc \in {"newProfile", "makeNewConnect"} => user'[p].userIdToken # Nil
        /\ screen'[p].vc = "makeNewConnect" => user'[p].userData # Nil
        /\ screen'[p].vc # "Crashed"
    BY <1>0, <1>1, <1>2, <1>3 DEF checkProfile, Safe
  <1>5. \A j \in Calls : Named(calls'[p][j])
    <2>1. CASE calls' = [calls EXCEPT ![p] = [Covered(p) EXCEPT ![i].stage = "fetching"]]
      <3>1. Covered(p) \in [Calls -> Call]
        BY CoveredType DEF SafeInv, TypeOK, PhoneTypeOK
      <3>2. \A j \in Calls : calls'[p][j] = IF j = i THEN [Covered(p)[i] EXCEPT !.stage = "fetching"]
                                                   ELSE Covered(p)[j]
        BY <1>0, <2>1, <3>1
      <3>3. Named([Covered(p)[i] EXCEPT !.stage = "fetching"])
        BY <1>1, <3>1, CoveredNamed DEF Named, Call
      <3> QED
        BY <3>2, <3>3, CoveredNamed
    <2>2. CASE calls' = [calls EXCEPT ![p][i].stage = "fetching", ![p][i].onTop = FALSE]
      <3>1. calls' = [calls EXCEPT ![p][i] = [call EXCEPT !.stage = "fetching", !.onTop = FALSE]]
        BY <1>0, <2>2
      <3>2. Named([call EXCEPT !.stage = "fetching", !.onTop = FALSE])
        BY <1>0, <1>1 DEF Named, Call
      <3>3. \A j \in Calls : calls'[p][j] = IF j = i THEN [call EXCEPT !.stage = "fetching", !.onTop = FALSE]
                                                   ELSE calls[p][j]
        BY <1>0, <3>1
      <3> QED
        BY <1>0, <3>2, <3>3 DEF Safe
    <2> QED
      BY <2>1, <2>2 DEF SignInCompleted
  <1>6. Framed(p)
    <2>1. \A q \in Phones \ {p} : user'[q] = user[q] /\ defaults'[q] = defaults[q]
      BY <1>0 DEF SignInCompleted
    <2>2. \A q \in Phones \ {p} : screen'[q] = screen[q]
      BY <1>0 DEF SignInCompleted, Present
    <2>3. \A q \in Phones \ {p} : calls'[q] = calls[q]
      BY <1>0 DEF SignInCompleted
    <2> QED
      BY <2>1, <2>2, <2>3 DEF Framed
  <1> QED
    BY <1>2, <1>4, <1>5, <1>6 DEF Safe

(* An answered read puts a document into userData, never nil. *)
LEMMA DeliveredSafe ==
    ASSUME SafeInv, NEW p \in Phones, NEW i \in Calls, ProfileDelivered(p, i)
    PROVE  Framed(p) /\ Safe(p)'
  <1>0. /\ Safe(p) /\ calls \in [Phones -> [Calls -> Call]] /\ user \in [Phones -> Session]
    BY SafeParts DEF SafeInv, TypeOK
  <1>1. /\ user'[p].userIdToken = user[p].userIdToken
        /\ user'[p].userData # Nil
    BY <1>0 DEF ProfileDelivered, setUserData, Session, Safe, Named
  <1>2. \A j \in Calls : Named(calls'[p][j])
    <2>1. Named(IdleCall)
      BY DEF Named, IdleCall
    <2> QED
      BY <1>0, <2>1 DEF ProfileDelivered, Safe
  <1>3. Framed(p)
    BY <1>0 DEF ProfileDelivered, Framed
  <1> QED
    BY <1>0, <1>1, <1>2, <1>3 DEF ProfileDelivered, Safe

(* Form and code screen. *)
LEMMA FormSafe ==
    ASSUME SafeInv, NEW p \in Phones, NEW a \in Accounts,
           finishWritingProfile(p, a) \/ KilledInFinish(p, a)
    PROVE  Framed(p) /\ Safe(p)'
  <1>0. /\ Safe(p) /\ calls \in [Phones -> [Calls -> Call]]
        /\ user \in [Phones -> Session] /\ defaults \in [Phones -> Session]
        /\ screen \in [Phones -> Screen]
    BY SafeParts DEF SafeInv, TypeOK
  <1>1. uploadData(a) \in UserData
    BY DEF uploadData, UserData
  <1>2. CASE finishWritingProfile(p, a)
    <2>1. /\ user'[p].userIdToken = user[p].userIdToken
          /\ user'[p].userData # Nil
          /\ defaults'[p].userIdToken = defaults[p].userIdToken
      BY <1>0, <1>1, <1>2, NilAssumption DEF finishWritingProfile, setUserData, Session
    <2>2. screen'[p].vc = "makeNewConnect"
      BY <1>0, <1>2 DEF finishWritingProfile, Present, Loaded
    <2>3. \A j \in Calls : Named(calls'[p][j])
      BY <1>0, <1>2, CoveredNamed DEF finishWritingProfile
    <2>4. Framed(p)
      BY <1>0, <1>2 DEF finishWritingProfile, Present, Framed
    <2> QED
      BY <1>0, <1>2, <2>1, <2>2, <2>3, <2>4 DEF finishWritingProfile, Safe
  <1>3. CASE KilledInFinish(p, a)
    <2>1. setUserData(defaults[p], uploadData(a)) \in Session
      BY <1>0, <1>1, SessionTypes
    <2>2. /\ defaults' \in [Phones -> Session]
          /\ \A q \in Phones \ {p} : defaults'[q] = defaults[q]
      BY <1>0, <1>3, <2>1 DEF KilledInFinish
    <2> QED
      BY <1>3, <2>2, DieSafe DEF KilledInFinish
  <1> QED
    BY <1>2, <1>3

(* Signing out empties memory and presents the SignIn screen, which needs
   nothing. *)
LEMMA SignOutSafe ==
    ASSUME SafeInv, NEW p \in Phones, backToSignIn(p) \/ KilledInSignOut(p)
    PROVE  Framed(p) /\ Safe(p)'
  <1>0. /\ Safe(p) /\ calls \in [Phones -> [Calls -> Call]]
        /\ user \in [Phones -> Session] /\ defaults \in [Phones -> Session]
        /\ screen \in [Phones -> Screen]
    BY SafeParts DEF SafeInv, TypeOK
  <1>1. CASE backToSignIn(p)
    <2>1. user'[p].userIdToken = Nil
      BY <1>0, <1>1 DEF backToSignIn, clean, EmptySession
    <2>2. screen'[p].vc = "SignIn"
      BY <1>0, <1>1 DEF backToSignIn, Present, Loaded
    <2>3. \A j \in Calls : Named(calls'[p][j])
      BY <1>0, <1>1, CoveredNamed DEF backToSignIn
    <2>4. Framed(p)
      BY <1>0, <1>1 DEF backToSignIn, Present, Framed
    <2> QED
      BY <2>1, <2>2, <2>3, <2>4 DEF Safe
  <1>2. CASE KilledInSignOut(p)
    <2>1. PICK token \in {defaults[p].userIdToken, Nil}, data \in {defaults[p].userData, Nil} :
             defaults' = [defaults EXCEPT ![p].userIdToken = token, ![p].userData = data]
      BY <1>2 DEF KilledInSignOut
    <2>2. [defaults[p] EXCEPT !.userIdToken = token, !.userData = data] \in Session
      BY <1>0 DEF Session
    <2>3. /\ defaults' \in [Phones -> Session]
          /\ \A q \in Phones \ {p} : defaults'[q] = defaults[q]
      BY <1>0, <2>1, <2>2
    <2> QED
      BY <1>2, <2>3, DieSafe DEF KilledInSignOut
  <1> QED
    BY <1>1, <1>2

(* The code screen is on top only with a token and a userData, so the trap
   branch of getConnectionCode is not taken. *)
LEMMA CodeSafe ==
    ASSUME SafeInv, NEW p \in Phones, NEW c \in Codes,
           getConnectionCode(p, c) \/ KilledInGetCode(p, c)
    PROVE  Framed(p) /\ Safe(p)'
  <1>0. /\ Safe(p) /\ calls \in [Phones -> [Calls -> Call]]
        /\ user \in [Phones -> Session] /\ defaults \in [Phones -> Session]
        /\ screen \in [Phones -> Screen]
    BY SafeParts DEF SafeInv, TypeOK
  <1>1. CASE getConnectionCode(p, c)
    <2>1. screen[p].vc = "makeNewConnect"
      BY <1>1 DEF getConnectionCode, On
    <2>2. ~CodeTraps(user[p])
      BY <1>0, <2>1 DEF CodeTraps, SingleUserDataTraps, Safe
    <2>3. /\ screen' = [screen EXCEPT ![p].label = c, ![p].labelHidden = FALSE]
          /\ user' = [user EXCEPT ![p] = setSingleUserData(@, c)]
          /\ calls' = calls /\ defaults' = defaults
      BY <1>1, <2>2 DEF getConnectionCode
    <2>4. [profile |-> Nil, connectionCode |-> c] \in UserData
      BY DEF UserData
    <2>5. user'[p].userData # Nil /\ user'[p].userIdToken = user[p].userIdToken
      BY <1>0, <2>3, <2>4, NilAssumption DEF setSingleUserData, Session
    <2>6. screen'[p].vc = "makeNewConnect"
      BY <1>0, <2>1, <2>3 DEF Screen
    <2>7. Framed(p)
      BY <1>0, <2>3 DEF Framed
    <2> QED
      BY <1>0, <2>1, <2>3, <2>5, <2>6, <2>7 DEF Safe
  <1>2. CASE KilledInGetCode(p, c)
    BY <1>0, <1>2, DieSafe DEF KilledInGetCode
  <1> QED
    BY <1>1, <1>2

(* A process that ends leaves nothing in memory that a screen could lack. *)
LEMMA ProcessSafe ==
    ASSUME SafeInv, NEW p \in Phones, backToProfile(p) \/ Killed(p) \/ Launch(p)
    PROVE  Framed(p) /\ Safe(p)'
  <1>0. /\ Safe(p) /\ calls \in [Phones -> [Calls -> Call]]
        /\ user \in [Phones -> Session] /\ defaults \in [Phones -> Session]
        /\ screen \in [Phones -> Screen]
    BY SafeParts DEF SafeInv, TypeOK
  <1>1. CASE backToProfile(p)
    <2>1. screen'[p].vc = "newProfile" /\ screen[p].vc = "makeNewConnect"
      BY <1>0, <1>1 DEF backToProfile, Present, Loaded, On
    <2>2. \A j \in Calls : Named(calls'[p][j])
      BY <1>0, <1>1, CoveredNamed DEF backToProfile
    <2>3. Framed(p)
      BY <1>0, <1>1 DEF backToProfile, Present, Framed
    <2> QED
      BY <1>0, <1>1, <2>1, <2>2, <2>3 DEF backToProfile, Safe
  <1>2. CASE Killed(p)
    BY <1>0, <1>2, DieSafe DEF Killed
  <1>3. CASE Launch(p)
    <2>1. screen'[p].vc = "Start"
      BY <1>0, <1>3 DEF Launch, Loaded
    <2>2. Framed(p)
      BY <1>0, <1>3 DEF Launch, Framed
    <2> QED
      BY <1>0, <1>3, <2>1, <2>2 DEF Launch, Safe
  <1> QED
    BY <1>1, <1>2, <1>3

(* Every step keeps SafeInv. *)
LEMMA NextSafe == SafeInv /\ [Next]_vars => SafeInv'
  <1> SUFFICES ASSUME SafeInv, [Next]_vars PROVE SafeInv'
    OBVIOUS
  <1>1. TypeOK'
    BY NextTypes DEF SafeInv
  <1>2. ASSUME UNCHANGED phoneVars PROVE SafeInv'
    BY <1>1, <1>2, SafeParts DEF phoneVars, Safe
  <1>3. CASE UNCHANGED vars
    BY <1>2, <1>3 DEF vars
  <1>4. ASSUME NEW p \in Phones, NEW i \in Calls, SignIn(p, i) PROVE SafeInv'
    BY <1>1, <1>4, CallSafe, CompletedSafe, DeliveredSafe, FramedSafe DEF SignIn
  <1>5. ASSUME NEW p \in Phones,
               \/ \E a \in Accounts : finishWritingProfile(p, a) \/ KilledInFinish(p, a)
               \/ backToSignIn(p) \/ KilledInSignOut(p)
               \/ \E c \in Draws[p] : getConnectionCode(p, c) \/ KilledInGetCode(p, c)
        PROVE  SafeInv'
    <2>1. \A c \in Draws[p] : c \in Codes
      BY StartFlowAssumption
    <2> QED
      BY <1>1, <1>5, <2>1, FormSafe, SignOutSafe, CodeSafe, FramedSafe
  <1>6. ASSUME NEW p \in Phones,
               goToNextStorybaord(p) \/ backToProfile(p) \/ Killed(p) \/ Launch(p)
        PROVE  SafeInv'
    BY <1>1, <1>6, StartSafe, ProcessSafe, FramedSafe
  <1>7. ASSUME NEW p \in Phones,
               \/ Sent(p) \/ Answered(p) \/ Refused(p) \/ Resent(p) \/ Storage(p)
               \/ signOutByForce(p)
        PROVE  SafeInv'
    BY <1>2, <1>7 DEF Sent, Answered, Refused, Resent, Storage, signOutByForce
  <1> QED
    BY <1>3, <1>4, <1>5, <1>6, <1>7 DEF Next, PhoneStep

(* getConnectionCode never force-unwraps nil. *)
THEOREM NoForceUnwrapOfNil == Spec => []NoCrash
  <1>1. SafeInv => NoCrash
    BY DEF SafeInv
  <1> QED
    BY <1>1, InitSafe, NextSafe, PTL DEF Spec

(* The next tap on the form or on the code screen is safe too: the token and
   the userData it needs are there, whichever completion runs first. *)
THEOREM ScreensAreReady == Spec => []ScreenReady
  <1>1. SafeInv => ScreenReady
    BY DEF SafeInv
  <1> QED
    BY <1>1, InitSafe, NextSafe, PTL DEF Spec

(* The token in memory is the one UserDefaults holds. *)
THEOREM TokenAlwaysPersisted == Spec => []TokenPersisted
  <1>1. SafeInv => TokenPersisted
    BY DEF SafeInv
  <1> QED
    BY <1>1, InitSafe, NextSafe, PTL DEF Spec
=============================================================================
