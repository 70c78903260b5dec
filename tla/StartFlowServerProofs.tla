----------------------- MODULE StartFlowServerProofs -----------------------
(***************************************************************************)
(* What the start flow leaves on the server once no write is outstanding:  *)
(* a stored picture has its profile, a saved profile is there, a shown     *)
(* code is live and a document's code points back.                         *)
(***************************************************************************)
EXTENDS StartFlowProofs

(* The two shapes of a handler's writes. *)
LEMMA Concats ==
    ASSUME NEW w1, NEW w2, NEW w3
    PROVE  <<>> \o <<w2, w3>> = <<w2, w3>> /\ <<w1>> \o <<w2, w3>> = <<w1, w2, w3>>
  <1> DEFINE S == {w1, w2, w3}
             s == <<w1>>
             t == <<w2, w3>>
             all == <<w1, w2, w3>>
  <1>1. /\ s \in Seq(S) /\ Len(s) = 1 /\ s[1] = w1
        /\ t \in Seq(S) /\ Len(t) = 2 /\ t[1] = w2 /\ t[2] = w3
        /\ all \in Seq(S) /\ Len(all) = 3 /\ all[1] = w1 /\ all[2] = w2 /\ all[3] = w3
    OBVIOUS
  <1> HIDE DEF S, s, t, all
  <1>2. /\ s \o t \in Seq(S) /\ Len(s \o t) = 3
        /\ \A i \in 1 .. 3 : (s \o t)[i] = IF i <= 1 THEN s[i] ELSE t[i - 1]
    <2>1. /\ s \o t \in Seq(S) /\ Len(s \o t) = Len(s) + Len(t)
          /\ \A i \in 1 .. Len(s) + Len(t) : (s \o t)[i] = IF i <= Len(s) THEN s[i] ELSE t[i - Len(s)]
      BY <1>1, ConcatProperties, Zenon
    <2> QED
      BY <1>1, <2>1
  <1>3. \A i \in 1 .. 3 : (s \o t)[i] = all[i]
    BY <1>1, <1>2
  <1>4. s \o t = all
    BY <1>1, <1>2, <1>3, SeqEqual
  <1>5. <<>> \o t = t
    BY <1>1, ConcatEmptySeq
  <1> QED
    BY <1>4, <1>5 DEF s, t, all

(* A code screen on top makes two or three writes, in the name of the token. *)
LEMMA CodeWritesAre ==
    ASSUME NEW u \in Session, NEW c \in Codes, u.userIdToken # Nil
    PROVE  LET a == u.userIdToken
               old == lastConnectionCode(u)
           IN  /\ a \in Accounts
               /\ \/ /\ old = Nil
                     /\ CodeWrites(u, c) = <<addData("connection", c, a), addSingleData("users", a, c)>>
                  \/ /\ old \in Codes
                     /\ CodeWrites(u, c) = <<removeData("connection", old), addData("connection", c, a),
                                             addSingleData("users", a, c)>>
  <1> DEFINE a == u.userIdToken
             old == lastConnectionCode(u)
             w1 == removeData("connection", old)
             w2 == addData("connection", c, a)
             w3 == addSingleData("users", a, c)
  <1>1. a \in Accounts /\ old \in Codes \cup {Nil}
    BY DEF lastConnectionCode, CodeOf, Session, UserData
  <1>2. CodeWrites(u, c) = (IF old = Nil THEN <<>> ELSE <<w1>>) \o <<w2, w3>>
    BY DEF CodeWrites
  <1> HIDE DEF w1, w2, w3, old
  <1>3. <<>> \o <<w2, w3>> = <<w2, w3>> /\ <<w1>> \o <<w2, w3>> = <<w1, w2, w3>>
    BY Concats
  <1> QED
    BY <1>1, <1>2, <1>3 DEF w1, w2, w3, old

(* None of them replaces a users document. *)
LEMMA CodeWritesWhole ==
    ASSUME NEW u \in Session, NEW c \in Codes, u.userIdToken # Nil
    PROVE  \A k \in DOMAIN CodeWrites(u, c) : Whole(CodeWrites(u, c)[k])
  <1> DEFINE w1 == removeData("connection", lastConnectionCode(u))
             w2 == addData("connection", c, u.userIdToken)
             w3 == addSingleData("users", u.userIdToken, c)
  <1>1. CodeWrites(u, c) = <<w2, w3>> \/ CodeWrites(u, c) = <<w1, w2, w3>>
    BY CodeWritesAre
  <1>2. Whole(w1) /\ Whole(w2) /\ Whole(w3)
    BY DEF Whole, removeData, addData, addSingleData
  <1> HIDE DEF w1, w2, w3
  <1> QED
    BY <1>1, <1>2

(* The profile of the form is one. *)
LEMMA ProfileWriteWhole ==
    ASSUME NEW a \in Accounts, NEW profile \in Accounts
    PROVE  LET writes == <<addData("users", a, uploadData(profile))>> IN
           /\ writes \in Seq(Writes) /\ DOMAIN writes = {1}
           /\ Whole(writes[1]) /\ GivesProfile(writes[1], a)
  <1> DEFINE w == addData("users", a, uploadData(profile))
  <1>1. Whole(w) /\ GivesProfile(w, a)
    BY NilAssumption DEF Whole, GivesProfile, addData, uploadData
  <1>2. <<w>> \in Seq(Writes)
    BY HandlerWrites
  <1> HIDE DEF w
  <1>3. <<w>>[1] = w /\ DOMAIN <<w>> = {1}
    OBVIOUS
  <1> QED
    BY <1>1, <1>2, <1>3 DEF w

(* Whatever happens, profiles that are on the server or on their way stay so;
   the form's joins them. *)
LEMMA DBStep ==
    ASSUME SafeInv, ProfilesInv, [Next]_vars, Denied = {}
    PROVE  /\ ProfilesInv'
           /\ \A a \in Accounts : Backed(a) => Backed(a)'
           /\ \A p \in Phones, profile, a \in Accounts :
                 finishWritingProfile(p, profile) /\ a = user[p].userIdToken => Backed(a)'
  <1> DEFINE Kept == ProfilesInv' /\ \A a \in Accounts : Backed(a) => Backed(a)'
  <1>1. TypeOK /\ DBTypeOK /\ DBTypeOK' /\ user \in [Phones -> Session]
    BY NextTypes DEF SafeInv, TypeOK
  <1>2. ASSUME UNCHANGED dbVars PROVE Kept
    BY <1>1, <1>2, RestartProfiles DEF dbVars
  <1>3. ASSUME NEW p \in Phones, NEW u \in AuthUsers, SetAuth(p, u) PROVE Kept
    BY <1>1, <1>3, RestartProfiles DEF SetAuth, DBTypeOK
  <1>4. ASSUME NEW p \in Phones, NEW i \in Calls, SignIn(p, i) PROVE Kept
    <2>1. CASE FirebaseAuthenticated(p, i)
      <3>1. calls[p][i].account \in AuthUsers
        BY <1>1 DEF TypeOK, Call, AuthUsers
      <3> QED
        BY <1>3, <2>1, <3>1 DEF FirebaseAuthenticated
    <2>2. CASE ~FirebaseAuthenticated(p, i)
      <3>1. UNCHANGED dbVars
        BY <1>4, <2>2 DEF SignIn, googleSignIn, GoogleAnswered, SignInFailed, SignInCompleted,
           ProfileAnswered, ProfileUnavailable, ProfileDelivered
      <3> QED
        BY <1>2, <3>1
    <2> QED
      BY <2>1, <2>2
  <1>5. ASSUME NEW p \in Phones, NEW profile \in Accounts, NEW a \in Accounts,
               a = user[p].userIdToken,
               finishWritingProfile(p, profile) \/ KilledInFinish(p, profile)
        PROVE  Kept /\ (finishWritingProfile(p, profile) => Backed(a)')
    <2> DEFINE writes == <<addData("users", a, uploadData(profile))>>
    <2>2. /\ writes \in Seq(Writes) /\ DOMAIN writes = {1}
          /\ Whole(writes[1]) /\ GivesProfile(writes[1], a)
      BY ProfileWriteWhole
    <2>3. Enqueue(p, writes) \/ (~finishWritingProfile(p, profile) /\ UNCHANGED dbVars)
      BY <1>5 DEF finishWritingProfile, KilledInFinish
    <2> HIDE DEF writes
    <2>4. CASE Enqueue(p, writes)
      <3>1. Kept /\ Backed(a)'
        BY <2>2, <2>4, EnqueueProfiles
      <3> QED
        BY <3>1
    <2> QED
      BY <1>2, <2>3, <2>4
  <1>6. ASSUME NEW p \in Phones, backToSignIn(p) \/ KilledInSignOut(p) \/ signOutByForce(p)
        PROVE  Kept
    BY <1>2, <1>3, <1>6 DEF backToSignIn, KilledInSignOut, signOutByForce, AuthUsers
  <1>7. ASSUME NEW p \in Phones, NEW c \in Draws[p],
               getConnectionCode(p, c) \/ KilledInGetCode(p, c)
        PROVE  Kept
    <2> DEFINE writes == CodeWrites(user[p], c)
    <2>1. c \in Codes /\ user[p] \in Session /\ user[p].userIdToken # Nil
      BY <1>1, <1>7, StartFlowAssumption
      DEF SafeInv, ScreenReady, getConnectionCode, KilledInGetCode, On
    <2>2. writes \in Seq(Writes) /\ \A k \in DOMAIN writes : Whole(writes[k])
      BY <2>1, HandlerWrites, CodeWritesWhole
    <2>3. \/ Enqueue(p, writes)
          \/ \E n \in 1 .. Len(writes) - 1 : Enqueue(p, SubSeq(writes, 1, n))
      BY <1>7 DEF getConnectionCode, KilledInGetCode
    <2> HIDE DEF writes
    <2>4. CASE Enqueue(p, writes)
      BY <2>2, <2>4, EnqueueProfiles
    <2>5. ASSUME NEW n \in 1 .. Len(writes) - 1, Enqueue(p, SubSeq(writes, 1, n)) PROVE Kept
      <3>1. /\ SubSeq(writes, 1, n) \in Seq(Writes)
            /\ \A k \in DOMAIN SubSeq(writes, 1, n) :
                  k \in DOMAIN writes /\ SubSeq(writes, 1, n)[k] = writes[k]
        BY <2>2
      <3> QED
        BY <2>2, <2>5, <3>1, EnqueueProfiles
    <2> QED
      BY <2>3, <2>4, <2>5
  <1>8. ASSUME NEW p \in Phones,
               goToNextStorybaord(p) \/ backToProfile(p) \/ Killed(p) \/ Storage(p)
        PROVE  Kept
    BY <1>2, <1>8 DEF goToNextStorybaord, backToProfile, Killed, Storage
  <1>9. ASSUME NEW p \in Phones, Launch(p) PROVE Kept
    BY <1>1, <1>9, RestartProfiles DEF Launch, DBTypeOK
  <1>10. ASSUME NEW p \in Phones, Sent(p) \/ Answered(p) \/ Refused(p) \/ Resent(p) PROVE Kept
    <2>1. ~Refused(p)
      BY DEF Refused, Reject
    <2>2. ASSUME Reconnect(p) PROVE Kept
      BY <1>1, <2>2, RestartProfiles DEF Reconnect, DBTypeOK
    <2> QED
      BY <1>10, <2>1, <2>2, CommitProfiles, AcknowledgeProfiles DEF Sent, Answered, Resent
  <1>11. ASSUME UNCHANGED vars PROVE Kept
    BY <1>2, <1>11 DEF vars
  <1>12. ASSUME NEW p \in Phones, NEW profile \in Accounts,
                finishWritingProfile(p, profile) \/ KilledInFinish(p, profile)
         PROVE  Kept
    <2>1. user[p].userIdToken \in Accounts
      BY <1>1, <1>12 DEF finishWritingProfile, KilledInFinish, Session
    <2> QED
      BY <1>5, <1>12, <2>1
  <1>13. Kept
    BY <1>4, <1>12, <1>6, <1>7, <1>8, <1>9, <1>10, <1>11 DEF Next, PhoneStep
  <1>14. ASSUME NEW p \in Phones, NEW profile \in Accounts, NEW a \in Accounts,
                finishWritingProfile(p, profile), a = user[p].userIdToken
         PROVE  Backed(a)'
    BY <1>5, <1>14
  <1> QED
    BY <1>13, <1>14
-----------------------------------------------------------------------------
(* A picture is sent by the tap that also queues its profile. *)
PicturesInv ==
    /\ SafeInv /\ ProfilesInv
    /\ \A a \in images : Backed(a)
    /\ \A p \in Phones : \A a \in uploads[p] : Backed(a)

(* The pictures there at the start are those of registered accounts. *)
LEMMA InitPictures == Init => PicturesInv
  <1> SUFFICES ASSUME Init PROVE PicturesInv
    OBVIOUS
  <1>1. SafeInv
    BY InitSafe
  <1>2. PICK registered \in SUBSET Accounts : DBInit(registered) /\ StorageInit(registered)
    BY DEF Init
  <1>3. ProfilesInv /\ \A a \in registered : HasProfile(a)
    BY <1>2, InitProfiles
  <1> QED
    BY <1>1, <1>2, <1>3 DEF StorageInit, PicturesInv, Backed

(* No picture is on its way or stored that was not before, but the form's. *)
LEMMA PictureSteps ==
    ASSUME TypeOK, [Next]_vars
    PROVE  \/ /\ \A a \in images' : a \in images \/ \E p \in Phones : a \in uploads[p]
              /\ \A p \in Phones : uploads'[p] \subseteq uploads[p]
           \/ \E p \in Phones, profile \in Accounts :
                 /\ finishWritingProfile(p, profile) /\ user[p].userIdToken \in Accounts
                 /\ images' = images
                 /\ uploads' = [uploads EXCEPT ![p] = @ \cup {user[p].userIdToken}]
  <1> DEFINE Fewer == /\ \A a \in images' : a \in images \/ \E p \in Phones : a \in uploads[p]
                      /\ \A p \in Phones : uploads'[p] \subseteq uploads[p]
  <1>1. user \in [Phones -> Session] /\ uploads \in [Phones -> SUBSET Accounts]
    BY DEF TypeOK, StorageTypeOK
  <1>2. ASSUME UNCHANGED storageVars PROVE Fewer
    BY <1>2 DEF storageVars
  <1>3. ASSUME NEW p \in Phones, UploadsLost(p) PROVE Fewer
    BY <1>1, <1>3 DEF UploadsLost
  <1>4. ASSUME NEW p \in Phones, Storage(p) PROVE Fewer
    BY <1>1, <1>4 DEF Storage, UploadStored, UploadFailed
  <1>5. ASSUME NEW p \in Phones, NEW profile \in Accounts, finishWritingProfile(p, profile)
        PROVE  /\ user[p].userIdToken \in Accounts /\ images' = images
               /\ uploads' = [uploads EXCEPT ![p] = @ \cup {user[p].userIdToken}]
    BY <1>1, <1>5 DEF finishWritingProfile, upload, Session
  <1>6. ASSUME NEW p \in Phones, NEW i \in Calls, SignIn(p, i) PROVE Fewer
    BY <1>2, <1>6 DEF SignIn, googleSignIn, GoogleAnswered, SignInFailed, FirebaseAuthenticated,
       SignInCompleted, ProfileAnswered, ProfileUnavailable, ProfileDelivered
  <1>7. ASSUME NEW p \in Phones, NEW c \in Draws[p],
               getConnectionCode(p, c) \/ KilledInGetCode(p, c)
        PROVE  Fewer
    BY <1>2, <1>3, <1>7 DEF getConnectionCode, KilledInGetCode, Die
  <1>8. ASSUME NEW p \in Phones,
               \/ goToNextStorybaord(p) \/ backToSignIn(p) \/ KilledInSignOut(p)
               \/ backToProfile(p) \/ Killed(p) \/ Launch(p)
               \/ Sent(p) \/ Answered(p) \/ Refused(p) \/ Resent(p) \/ signOutByForce(p)
               \/ \E profile \in Accounts : KilledInFinish(p, profile)
        PROVE  Fewer
    BY <1>2, <1>3, <1>8 DEF goToNextStorybaord, backToSignIn, KilledInSignOut, backToProfile,
       Killed, Launch, Sent, Answered, Refused, Resent, signOutByForce, KilledInFinish, Die
  <1>9. ASSUME UNCHANGED vars PROVE Fewer
    BY <1>2, <1>9 DEF vars
  <1> QED
    BY <1>4, <1>5, <1>6, <1>7, <1>8, <1>9 DEF Next, PhoneStep

(* A profile that backs a picture is never lost. *)
LEMMA NextPictures ==
    ASSUME PicturesInv, [Next]_vars, Denied = {}
    PROVE  PicturesInv'
  <1>1. SafeInv' /\ TypeOK /\ StorageTypeOK
    BY NextSafe DEF PicturesInv, SafeInv, TypeOK
  <1>2. /\ ProfilesInv' /\ \A a \in Accounts : Backed(a) => Backed(a)'
        /\ \A p \in Phones, profile, a \in Accounts :
              finishWritingProfile(p, profile) /\ a = user[p].userIdToken => Backed(a)'
    BY DBStep DEF PicturesInv
  <1>3. images \subseteq Accounts /\ uploads \in [Phones -> SUBSET Accounts]
    BY <1>1 DEF StorageTypeOK
  <1>4. CASE /\ \A a \in images' : a \in images \/ \E p \in Phones : a \in uploads[p]
             /\ \A p \in Phones : uploads'[p] \subseteq uploads[p]
    BY <1>1, <1>2, <1>3, <1>4 DEF PicturesInv
  <1>5. ASSUME NEW p \in Phones, NEW profile \in Accounts, NEW a \in Accounts,
               finishWritingProfile(p, profile), a = user[p].userIdToken,
               images' = images, uploads' = [uploads EXCEPT ![p] = @ \cup {a}]
        PROVE  PicturesInv'
    <2>1. Backed(a)'
      BY <1>2, <1>5
    <2>2. \A q \in Phones : \A b \in uploads'[q] : b = a \/ b \in uploads[q]
      BY <1>3, <1>5
    <2> QED
      BY <1>1, <1>2, <1>3, <1>5, <2>1, <2>2 DEF PicturesInv
  <1> QED
    BY <1>1, <1>4, <1>5, PictureSteps

(* Once no write is outstanding a stored picture has its profile, over kills,
   sign-outs, broken streams and codes merged later, if nobody is refused. *)
THEOREM PicturesHaveProfiles ==
    ASSUME Denied = {}
    PROVE  Spec => []PictureHasProfile
  <1>1. PicturesInv /\ [Next]_vars => PicturesInv'
    BY NextPictures
  <1>2. PicturesInv => PictureHasProfile
    BY DEF PicturesInv, Backed, HasProfile, OnItsWay, PictureHasProfile, Drained
  <1> QED
    BY <1>1, <1>2, InitPictures, PTL DEF Spec
-----------------------------------------------------------------------------
(***************************************************************************)
(* Whose queue a write joins, when sign-ins do not overlap.                *)
(***************************************************************************)
OneSignIn == \A i, j \in Calls : i = j

Early == {"google", "firebase", "authenticated"}

(* What UserDefaults keeps for the next launch is the auth user's, unless Firebase
   has signed him out, and a sign-in is only under way while nobody is signed in. *)
Owner(p) ==
    /\ defaults[p].userIdToken # Nil => auth[p] \in {Nil, defaults[p].userIdToken}
    /\ screen[p].vc = "SignIn" => defaults[p].userIdToken = Nil
    /\ \A i \in Calls :
          /\ calls[p][i].stage \in Early => calls[p][i].onTop /\ screen[p].vc = "SignIn"
          /\ calls[p][i].stage = "authenticated" => auth[p] \in {Nil, calls[p][i].account}

OwnerInv == SafeInv /\ \A p \in Phones : Owner(p)

(* The types that OwnerInv gives, in the form the steps use. *)
LEMMA OwnerTypes ==
    ASSUME OwnerInv, NEW p \in Phones
    PROVE  /\ Owner(p) /\ Safe(p)
           /\ calls \in [Phones -> [Calls -> Call]] /\ calls[p] \in [Calls -> Call]
           /\ user \in [Phones -> Session] /\ user[p] \in Session
           /\ defaults \in [Phones -> Session] /\ defaults[p] \in Session
           /\ screen \in [Phones -> Screen] /\ screen[p] \in Screen
           /\ auth \in [Phones -> AuthUsers]
  BY SafeParts DEF OwnerInv, SafeInv, TypeOK, DBTypeOK

(* The other phones' auth users are theirs. *)
LEMMA FramedOwner ==
    ASSUME OwnerInv, SafeInv', NEW p \in Phones, Framed(p), Owner(p)',
           \A q \in Phones \ {p} : auth'[q] = auth[q]
    PROVE  OwnerInv'
  <1>1. \A q \in Phones \ {p} : Owner(q)'
    BY DEF OwnerInv, Framed, Owner
  <1> QED
    BY <1>1 DEF OwnerInv

(* Nobody is signed in at the first launch. *)
LEMMA InitOwner == Init => OwnerInv
  <1> SUFFICES ASSUME Init PROVE OwnerInv
    OBVIOUS
  <1>1. \A p \in Phones : Owner(p)
    BY DEF Init, Owner, EmptySession, IdleCall, Loaded, Early
  <1> QED
    BY <1>1, InitSafe DEF OwnerInv

(* A single sign-in completes on the screen that began it. *)
LEMMA SignInOwner ==
    ASSUME OwnerInv, OneSignIn, NEW p \in Phones, NEW i \in Calls, SignIn(p, i)
    PROVE  Owner(p)' /\ \A q \in Phones \ {p} : auth'[q] = auth[q]
  <1> DEFINE call == calls[p][i]
  <1>0. /\ Owner(p) /\ Safe(p) /\ call \in Call
        /\ calls \in [Phones -> [Calls -> Call]] /\ defaults \in [Phones -> Session]
        /\ screen \in [Phones -> Screen] /\ auth \in [Phones -> AuthUsers]
        /\ \A j \in Calls : j = i
    BY OwnerTypes DEF OneSignIn
  <1>1. CASE googleSignIn(p, i)
    <2>1. calls'[p][i].stage = "google" /\ calls'[p][i].onTop
      BY <1>0, <1>1 DEF googleSignIn, IdleCall
    <2> QED
      BY <1>0, <1>1, <2>1 DEF googleSignIn, On, Owner, dbVars, Early
  <1>2. ASSUME NEW a \in AccountsOn[p], GoogleAnswered(p, i, a)
        PROVE  Owner(p)' /\ \A q \in Phones \ {p} : auth'[q] = auth[q]
    <2>1. calls'[p][i].stage = "firebase" /\ calls'[p][i].onTop = call.onTop
      BY <1>0, <1>2 DEF GoogleAnswered, Call
    <2> QED
      BY <1>0, <1>2, <2>1 DEF GoogleAnswered, Owner, dbVars, Early
  <1>3. CASE SignInFailed(p, i) \/ ProfileUnavailable(p, i) \/ ProfileDelivered(p, i)
    <2>1. calls'[p][i].stage = "idle"
      BY <1>0, <1>3 DEF SignInFailed, ProfileUnavailable, ProfileDelivered, IdleCall
    <2> QED
      BY <1>0, <1>3, <2>1 DEF SignInFailed, ProfileUnavailable, ProfileDelivered, Owner, dbVars,
         Early
  <1>4. CASE FirebaseAuthenticated(p, i)
    <2>1. /\ calls'[p][i].stage = "authenticated" /\ calls'[p][i].onTop = call.onTop
          /\ calls'[p][i].account = call.account
          /\ auth'[p] = call.account /\ \A q \in Phones \ {p} : auth'[q] = auth[q]
      BY <1>0, <1>4 DEF FirebaseAuthenticated, SetAuth, Call
    <2>2. call.onTop /\ screen[p].vc = "SignIn" /\ defaults[p].userIdToken = Nil
      BY <1>0, <1>4 DEF FirebaseAuthenticated, Owner, Early
    <2> QED
      BY <1>0, <1>4, <2>1, <2>2 DEF FirebaseAuthenticated, Owner, Early
  <1>5. CASE SignInCompleted(p, i)
    <2>1. call.onTop /\ screen[p].vc = "SignIn" /\ auth[p] \in {Nil, call.account}
      BY <1>0, <1>5 DEF SignInCompleted, Owner, Early
    <2>2. ~GoogleUp(p)
      BY <1>0, <1>5 DEF SignInCompleted, GoogleUp
    <2>3. screen'[p].vc \in {"newProfile", "makeNewConnect"}
      BY <1>0, <1>5, <2>1, <2>2 DEF SignInCompleted, Present, Loaded
    <2>4. calls'[p][i].stage = "fetching"
      <3>1. calls' = [calls EXCEPT ![p] = [Covered(p) EXCEPT ![i].stage = "fetching"]]
        BY <1>5, <2>1, <2>2 DEF SignInCompleted
      <3>2. calls'[p] = [Covered(p) EXCEPT ![i].stage = "fetching"]
        BY <1>0, <3>1
      <3>3. Covered(p) \in [Calls -> Call]
        BY CoveredType DEF OwnerInv, SafeInv, TypeOK, PhoneTypeOK
      <3> QED
        BY <3>2, <3>3 DEF Call
    <2>5. defaults'[p].userIdToken = call.account /\ UNCHANGED auth
      BY <1>0, <1>5 DEF SignInCompleted, SavedToken, setUserIdToken, Session, dbVars
    <2> QED
      BY <1>0, <2>1, <2>3, <2>4, <2>5 DEF Owner, Early
  <1>6. CASE ProfileAnswered(p, i)
    <2>1. calls'[p][i].stage = "fetched"
      <3>1. PICK data \in UserData :
               calls' = [calls EXCEPT ![p][i].stage = "fetched", ![p][i].data = data]
        BY <1>6 DEF ProfileAnswered
      <3> QED
        BY <1>0, <3>1 DEF Call
    <2> QED
      BY <1>0, <1>6, <2>1 DEF ProfileAnswered, Owner, dbVars, Early
  <1> QED
    BY <1>1, <1>2, <1>3, <1>4, <1>5, <1>6 DEF SignIn

(* The process ends and takes the sign-ins with it. *)
LEMMA DieOwner ==
    ASSUME OwnerInv, NEW p \in Phones, NEW vc \in Dead, Die(p, vc),
           auth' = auth, defaults'[p].userIdToken \in {defaults[p].userIdToken, Nil}
    PROVE  Owner(p)'
  <1>1. Owner(p) /\ calls \in [Phones -> [Calls -> Call]] /\ screen \in [Phones -> Screen]
    BY OwnerTypes
  <1>2. /\ screen'[p].vc # "SignIn" /\ \A i \in Calls : calls'[p][i].stage = "idle"
    BY <1>1 DEF Die, Loaded, Dead, IdleCall
  <1> QED
    BY <1>1, <1>2 DEF Owner, Early

(* Off the sign-in screen no sign-in is under way, and a covered controller's
   calls are where they were. *)
LEMMA NotEarly ==
    ASSUME OwnerInv, NEW p \in Phones, screen[p].vc # "SignIn",
           calls' = calls \/ calls' = [calls EXCEPT ![p] = Covered(p)]
    PROVE  \A i \in Calls : calls'[p][i].stage \notin Early
  <1>1. Owner(p) /\ calls \in [Phones -> [Calls -> Call]] /\ calls[p] \in [Calls -> Call]
    BY OwnerTypes
  <1>2. \A i \in Calls : Covered(p)[i].stage = calls[p][i].stage
    BY <1>1 DEF Covered, Call
  <1> QED
    BY <1>1, <1>2 DEF Owner

(* Everything a phone does besides signing in. *)
LEMMA PhoneOwner ==
    ASSUME OwnerInv, NEW p \in Phones,
           \/ goToNextStorybaord(p) \/ backToSignIn(p) \/ KilledInSignOut(p)
           \/ backToProfile(p) \/ Killed(p) \/ Launch(p)
           \/ \E a \in Accounts : finishWritingProfile(p, a) \/ KilledInFinish(p, a)
           \/ \E c \in Draws[p] : getConnectionCode(p, c) \/ KilledInGetCode(p, c)
    PROVE  Owner(p)' /\ \A q \in Phones \ {p} : auth'[q] = auth[q]
  <1> DEFINE Others == \A q \in Phones \ {p} : auth'[q] = auth[q]
  <1>0. /\ Owner(p) /\ Safe(p)
        /\ calls \in [Phones -> [Calls -> Call]] /\ defaults \in [Phones -> Session]
        /\ screen \in [Phones -> Screen] /\ auth \in [Phones -> AuthUsers]
        /\ defaults[p] \in Session /\ screen[p] \in Screen
    BY OwnerTypes
  <1>1. CASE goToNextStorybaord(p)
    <2>1. screen'[p].vc = "SignIn" => defaults[p].userIdToken = Nil
      BY <1>0, <1>1 DEF goToNextStorybaord, Present, Loaded, searchUserFromKeychain
    <2>2. \A i \in Calls : calls'[p][i].stage \notin Early
      BY <1>1, NotEarly DEF goToNextStorybaord, On
    <2> QED
      BY <1>0, <1>1, <2>1, <2>2 DEF goToNextStorybaord, Owner, dbVars, Early
  <1>2. CASE backToSignIn(p)
    <2>1. \A i \in Calls : calls'[p][i].stage \notin Early
      BY <1>2, NotEarly DEF backToSignIn, On
    <2>2. defaults'[p].userIdToken = Nil
      BY <1>0, <1>2 DEF backToSignIn, EmptySession
    <2>3. Others
      BY <1>0, <1>2 DEF backToSignIn, SetAuth, dbVars
    <2> QED
      BY <2>1, <2>2, <2>3 DEF Owner, Early
  <1>3. CASE KilledInSignOut(p)
    <2>1. PICK token \in {defaults[p].userIdToken, Nil}, data \in {defaults[p].userData, Nil} :
             defaults' = [defaults EXCEPT ![p].userIdToken = token, ![p].userData = data]
      BY <1>3 DEF KilledInSignOut
    <2>2. defaults'[p].userIdToken = token
      BY <1>0, <2>1 DEF Session
    <2> QED
      BY <1>3, <2>1, <2>2, DieOwner DEF KilledInSignOut, dbVars, Dead
  <1>4. CASE backToProfile(p)
    <2>1. \A i \in Calls : calls'[p][i].stage \notin Early
      BY <1>4, NotEarly DEF backToProfile, On
    <2>2. screen'[p].vc = "newProfile"
      BY <1>0, <1>4 DEF backToProfile, Present, Loaded
    <2> QED
      BY <1>0, <1>4, <2>1, <2>2 DEF backToProfile, Owner, dbVars, Early
  <1>5. CASE Killed(p)
    BY <1>5, DieOwner DEF Killed, dbVars, Dead
  <1>6. CASE Launch(p)
    <2>1. \A i \in Calls : calls'[p][i].stage \notin Early
      BY <1>6, NotEarly DEF Launch, Alive, Dead
    <2>2. screen'[p].vc = "Start"
      BY <1>0, <1>6 DEF Launch, Loaded
    <2> QED
      BY <1>0, <1>6, <2>1, <2>2 DEF Launch, Owner, Early
  <1>7. ASSUME NEW a \in Accounts, finishWritingProfile(p, a) PROVE Owner(p)' /\ Others
    <2>1. \A i \in Calls : calls'[p][i].stage \notin Early
      BY <1>7, NotEarly DEF finishWritingProfile, On
    <2>2. screen'[p].vc = "makeNewConnect"
      BY <1>0, <1>7 DEF finishWritingProfile, Present, Loaded
    <2>3. defaults'[p].userIdToken = defaults[p].userIdToken /\ UNCHANGED auth
      BY <1>0, <1>7 DEF finishWritingProfile, setUserData, Session, Enqueue
    <2> QED
      BY <1>0, <2>1, <2>2, <2>3 DEF Owner, Early
  <1>8. ASSUME NEW a \in Accounts, KilledInFinish(p, a) PROVE Owner(p)' /\ Others
    <2>1. defaults'[p].userIdToken = defaults[p].userIdToken /\ UNCHANGED auth
      BY <1>0, <1>8 DEF KilledInFinish, setUserData, Session, Enqueue, dbVars
    <2> QED
      BY <1>8, <2>1, DieOwner DEF KilledInFinish, Dead
  <1>9. ASSUME NEW c \in Draws[p], getConnectionCode(p, c) PROVE Owner(p)' /\ Others
    <2>1. UNCHANGED <<auth, defaults>>
      BY <1>9 DEF getConnectionCode, Enqueue
    <2>2. CASE CodeTraps(user[p])
      BY <1>9, <2>1, <2>2, DieOwner DEF getConnectionCode, Dead
    <2>3. CASE ~CodeTraps(user[p])
      <3>1. screen'[p].vc = screen[p].vc /\ calls' = calls
        BY <1>0, <1>9, <2>3 DEF getConnectionCode, Screen
      <3> QED
        BY <1>0, <2>1, <3>1 DEF Owner
    <2> QED
      BY <2>2, <2>3
  <1>10. ASSUME NEW c \in Draws[p], KilledInGetCode(p, c) PROVE Owner(p)' /\ Others
    <2>1. UNCHANGED <<auth, defaults>>
      BY <1>10 DEF KilledInGetCode, Enqueue
    <2> QED
      BY <1>10, <2>1, DieOwner DEF KilledInGetCode, Dead
  <1> QED
    BY <1>1, <1>2, <1>3, <1>4, <1>5, <1>6, <1>7, <1>8, <1>9, <1>10

(* Who acts, and that the other phones stand still. *)
LEMMA StepsFramed ==
    ASSUME SafeInv, NEW p \in Phones,
           \/ \E i \in Calls : SignIn(p, i)
           \/ goToNextStorybaord(p) \/ backToSignIn(p) \/ KilledInSignOut(p)
           \/ backToProfile(p) \/ Killed(p) \/ Launch(p)
           \/ \E a \in Accounts : finishWritingProfile(p, a) \/ KilledInFinish(p, a)
           \/ \E c \in Draws[p] : getConnectionCode(p, c) \/ KilledInGetCode(p, c)
    PROVE  Framed(p)
  <1>1. \A c \in Draws[p] : c \in Codes
    BY StartFlowAssumption
  <1> QED
    BY <1>1, StartSafe, CallSafe, CompletedSafe, DeliveredSafe, FormSafe, SignOutSafe, CodeSafe,
       ProcessSafe DEF SignIn

(* A sign-out that Firebase forces leaves the others' queues to the others. *)
LEMMA ForcedOwner ==
    ASSUME OwnerInv, NEW p \in Phones, signOutByForce(p)
    PROVE  Owner(p)' /\ Framed(p) /\ \A q \in Phones \ {p} : auth'[q] = auth[q]
  <1>1. Owner(p) /\ auth \in [Phones -> AuthUsers]
    BY OwnerTypes
  <1>2. auth'[p] = Nil /\ \A q \in Phones \ {p} : auth'[q] = auth[q]
    BY <1>1 DEF signOutByForce, SetAuth
  <1> QED
    BY <1>1, <1>2 DEF signOutByForce, Owner, Framed, phoneVars

(* No step of any phone leaves a token and another account's auth user, if
   sign-ins do not overlap. *)
LEMMA NextOwner ==
    ASSUME OwnerInv, OneSignIn, [Next]_vars
    PROVE  OwnerInv'
  <1>1. SafeInv /\ SafeInv'
    BY NextSafe DEF OwnerInv
  <1>2. ASSUME UNCHANGED <<auth, phoneVars>> PROVE OwnerInv'
    BY <1>1, <1>2 DEF phoneVars, OwnerInv, Owner
  <1>3. ASSUME NEW p \in Phones, NEW i \in Calls, SignIn(p, i) PROVE OwnerInv'
    BY <1>1, <1>3, SignInOwner, StepsFramed, FramedOwner
  <1>4. ASSUME NEW p \in Phones,
               \/ goToNextStorybaord(p) \/ backToSignIn(p) \/ KilledInSignOut(p)
               \/ backToProfile(p) \/ Killed(p) \/ Launch(p)
               \/ \E a \in Accounts : finishWritingProfile(p, a) \/ KilledInFinish(p, a)
               \/ \E c \in Draws[p] : getConnectionCode(p, c) \/ KilledInGetCode(p, c)
        PROVE  OwnerInv'
    BY <1>1, <1>4, PhoneOwner, StepsFramed, FramedOwner
  <1>5. ASSUME NEW p \in Phones,
               Sent(p) \/ Answered(p) \/ Refused(p) \/ Resent(p) \/ Storage(p)
        PROVE  OwnerInv'
    BY <1>2, <1>5 DEF Sent, Answered, Refused, Resent, Storage, Commit, Acknowledge, Reject,
       Reconnect, dbVars
  <1>6. ASSUME NEW p \in Phones, signOutByForce(p) PROVE OwnerInv'
    BY <1>1, <1>6, ForcedOwner, FramedOwner
  <1>7. CASE UNCHANGED vars
    BY <1>2, <1>7 DEF vars, dbVars
  <1> QED
    BY <1>3, <1>4, <1>5, <1>6, <1>7 DEF Next, PhoneStep

(* Writes of one author, or of nobody, join a queue that is that author's or
   nobody's. *)
LEMMA EnqueueOwned ==
    ASSUME DBTypeOK, AuthorIsOwner, NEW p \in Phones, NEW writes \in Seq(Writes),
           Enqueue(p, writes), NEW u \in Accounts, auth[p] \in {Nil, u},
           \A k \in DOMAIN writes : Author(writes[k]) \in {u, Nil}
    PROVE  AuthorIsOwner'
  <1> DEFINE old == pending[p][auth[p]]
             new == old \o writes
  <1>1. /\ pending \in [Phones -> [AuthUsers -> Seq(Writes)]] /\ auth[p] \in AuthUsers
        /\ pending' = [pending EXCEPT ![p][auth[p]] = new] /\ old \in Seq(Writes)
    BY DEF DBTypeOK, Enqueue
  <1> SUFFICES ASSUME NEW q \in Phones, NEW a \in Accounts, NEW k \in DOMAIN pending'[q][a]
               PROVE  Author(pending'[q][a][k]) \in {a, Nil}
    BY DEF AuthorIsOwner
  <1>2. CASE q # p \/ a # auth[p]
    <2>1. a \in AuthUsers
      BY DEF AuthUsers
    <2>2. pending'[q][a] = pending[q][a]
      BY <1>1, <1>2, <2>1
    <2> QED
      BY <2>2 DEF AuthorIsOwner
  <1>3. CASE q = p /\ a = auth[p]
    <2>1. pending'[q][a] = new /\ a = u
      BY <1>1, <1>3, NilAssumption
    <2>2. /\ new \in Seq(Writes) /\ Len(new) = Len(old) + Len(writes)
          /\ \A j \in 1 .. Len(old) + Len(writes) :
                new[j] = IF j <= Len(old) THEN old[j] ELSE writes[j - Len(old)]
      BY <1>1, ConcatProperties
    <2>3. k \in 1 .. Len(old) + Len(writes) /\ Len(old) \in Nat /\ Len(writes) \in Nat
      BY <1>1, <2>1, <2>2
    <2>4. CASE k <= Len(old)
      <3>1. k \in DOMAIN old /\ pending'[q][a][k] = old[k]
        BY <1>1, <2>1, <2>2, <2>3, <2>4
      <3> QED
        BY <1>3, <3>1 DEF AuthorIsOwner
    <2>5. CASE k > Len(old)
      <3>1. k - Len(old) \in DOMAIN writes /\ pending'[q][a][k] = writes[k - Len(old)]
        BY <1>1, <2>1, <2>2, <2>3, <2>5
      <3> QED
        BY <2>1, <3>1
    <2> QED
      BY <2>3, <2>4, <2>5
  <1> QED
    BY <1>2, <1>3

(* The oldest write leaves its queue. *)
LEMMA TailOwned ==
    ASSUME DBTypeOK, AuthorIsOwner, NEW p \in Phones, Acknowledge(p) \/ Reject(p)
    PROVE  AuthorIsOwner'
  <1> DEFINE old == pending[p][auth[p]]
  <1>1. /\ pending \in [Phones -> [AuthUsers -> Seq(Writes)]] /\ auth[p] \in AuthUsers
        /\ pending' = [pending EXCEPT ![p][auth[p]] = Tail(old)] /\ old \in Seq(Writes)
        /\ committed[p] \in Nat /\ committed[p] <= Len(old)
    BY DEF DBTypeOK, Acknowledge, Reject
  <1>2. old # <<>>
    <2>1. Len(<<>>) = 0
      OBVIOUS
    <2> QED
      BY <1>1, <2>1 DEF Acknowledge, Reject
  <1> SUFFICES ASSUME NEW q \in Phones, NEW a \in Accounts, NEW k \in DOMAIN pending'[q][a]
               PROVE  Author(pending'[q][a][k]) \in {a, Nil}
    BY DEF AuthorIsOwner
  <1>3. CASE q # p \/ a # auth[p]
    <2>1. a \in AuthUsers
      BY DEF AuthUsers
    <2>2. pending'[q][a] = pending[q][a]
      BY <1>1, <1>3, <2>1
    <2> QED
      BY <2>2 DEF AuthorIsOwner
  <1>4. CASE q = p /\ a = auth[p]
    <2>1. pending'[q][a] = Tail(old)
      BY <1>1, <1>4
    <2>2. /\ Tail(old) \in Seq(Writes) /\ Len(Tail(old)) = Len(old) - 1 /\ Len(old) \in Nat
          /\ \A j \in 1 .. Len(old) - 1 : Tail(old)[j] = old[j + 1]
      BY <1>1, <1>2, HeadTailProperties
    <2>3. k + 1 \in DOMAIN old /\ Tail(old)[k] = old[k + 1]
      <3> DEFINE tail == Tail(old)
      <3>1. k \in DOMAIN tail /\ tail \in Seq(Writes)
        BY <2>1, <2>2
      <3> HIDE DEF tail
      <3> QED
        BY <1>1, <2>2, <3>1 DEF tail
    <2> QED
      BY <1>4, <2>1, <2>3 DEF AuthorIsOwner
  <1> QED
    BY <1>3, <1>4

(* Whoever writes one code or profile writes nobody else's. *)
LEMMA HandlersOwned ==
    ASSUME OwnerInv, AuthorIsOwner, NEW p \in Phones,
           \/ \E a \in Accounts : finishWritingProfile(p, a) \/ KilledInFinish(p, a)
           \/ \E c \in Draws[p] : getConnectionCode(p, c) \/ KilledInGetCode(p, c)
    PROVE  AuthorIsOwner'
  <1>1. /\ SafeInv /\ DBTypeOK /\ user[p] \in Session
    BY OwnerTypes DEF OwnerInv, SafeInv, TypeOK
  <1>2. PICK u \in Accounts : u = user[p].userIdToken
    BY <1>1 DEF SafeInv, ScreenReady, finishWritingProfile, KilledInFinish, getConnectionCode,
       KilledInGetCode, On, Session
  <1>3. auth[p] \in {Nil, u}
    <2>1. Owner(p) /\ TokenPersisted
      BY DEF OwnerInv, SafeInv
    <2> QED
      BY <1>2, <2>1, NilAssumption DEF Owner, TokenPersisted
  <1>4. ASSUME NEW writes \in Seq(Writes), Enqueue(p, writes),
               \A k \in DOMAIN writes : Author(writes[k]) \in {u, Nil}
        PROVE  AuthorIsOwner'
    BY <1>1, <1>3, <1>4, EnqueueOwned
  <1>5. ASSUME UNCHANGED dbVars PROVE AuthorIsOwner'
    BY <1>5 DEF dbVars, AuthorIsOwner
  <1>6. ASSUME NEW a \in Accounts, finishWritingProfile(p, a) \/ KilledInFinish(p, a)
        PROVE  AuthorIsOwner'
    <2> DEFINE w == addData("users", u, uploadData(a))
    <2>1. Author(w) = u
      BY DEF Author, addData
    <2>2. <<w>> \in Seq(Writes)
      BY <1>2, HandlerWrites
    <2>3. Enqueue(p, <<w>>) \/ UNCHANGED dbVars
      BY <1>2, <1>6 DEF finishWritingProfile, KilledInFinish
    <2> HIDE DEF w
    <2>4. \A k \in DOMAIN <<w>> : Author(<<w>>[k]) \in {u, Nil}
      BY <2>1
    <2> QED
      BY <1>4, <1>5, <2>2, <2>3, <2>4
  <1>7. ASSUME NEW c \in Draws[p], getConnectionCode(p, c) \/ KilledInGetCode(p, c)
        PROVE  AuthorIsOwner'
    <2> DEFINE writes == CodeWrites(user[p], c)
               w1 == removeData("connection", lastConnectionCode(user[p]))
               w2 == addData("connection", c, u)
               w3 == addSingleData("users", u, c)
    <2>1. c \in Codes
      BY <1>7, StartFlowAssumption
    <2>2. writes = <<w2, w3>> \/ writes = <<w1, w2, w3>>
      BY <1>1, <1>2, <2>1, CodeWritesAre, NilAssumption
    <2>3. Author(w1) = Nil /\ Author(w2) = u /\ Author(w3) = u
      BY DEF Author, removeData, addData, addSingleData
    <2>4. writes \in Seq(Writes)
      BY <1>1, <1>2, <2>1, HandlerWrites
    <2>5. \A k \in DOMAIN writes : Author(writes[k]) \in {u, Nil}
      <3> HIDE DEF writes, w1, w2, w3
      <3> QED
        BY <2>2, <2>3
    <2>6. \/ Enqueue(p, writes)
          \/ \E n \in 1 .. Len(writes) - 1 : Enqueue(p, SubSeq(writes, 1, n))
      BY <1>7 DEF getConnectionCode, KilledInGetCode
    <2> HIDE DEF writes
    <2>7. ASSUME NEW n \in 1 .. Len(writes) - 1, Enqueue(p, SubSeq(writes, 1, n))
          PROVE  AuthorIsOwner'
      <3>1. /\ SubSeq(writes, 1, n) \in Seq(Writes)
            /\ \A k \in DOMAIN SubSeq(writes, 1, n) :
                  k \in DOMAIN writes /\ SubSeq(writes, 1, n)[k] = writes[k]
        BY <2>4
      <3> QED
        BY <1>4, <2>5, <2>7, <3>1
    <2> QED
      BY <1>4, <2>4, <2>5, <2>6, <2>7
  <1> QED
    BY <1>6, <1>7

(* No step puts a write of one author on the queue of another. *)
LEMMA NextOwned ==
    ASSUME OwnerInv, AuthorIsOwner, [Next]_vars
    PROVE  AuthorIsOwner'
  <1>1. DBTypeOK
    BY DEF OwnerInv, SafeInv, TypeOK
  <1>2. ASSUME UNCHANGED pending PROVE AuthorIsOwner'
    BY <1>2 DEF AuthorIsOwner
  <1>3. ASSUME NEW p \in Phones, NEW i \in Calls, SignIn(p, i) PROVE UNCHANGED pending
    BY <1>3 DEF SignIn, googleSignIn, GoogleAnswered, SignInFailed, FirebaseAuthenticated,
       SignInCompleted, ProfileAnswered, ProfileUnavailable, ProfileDelivered, SetAuth, dbVars
  <1>4. ASSUME NEW p \in Phones,
               \/ goToNextStorybaord(p) \/ backToSignIn(p) \/ KilledInSignOut(p)
               \/ backToProfile(p) \/ Killed(p) \/ Launch(p) \/ Sent(p) \/ Resent(p)
               \/ Storage(p) \/ signOutByForce(p)
        PROVE  UNCHANGED pending
    BY <1>4 DEF goToNextStorybaord, backToSignIn, KilledInSignOut, backToProfile, Killed, Launch,
       Sent, Resent, Storage, signOutByForce, Commit, Reconnect, SetAuth, dbVars
  <1>5. ASSUME NEW p \in Phones, Answered(p) \/ Refused(p) PROVE AuthorIsOwner'
    BY <1>1, <1>5, TailOwned DEF Answered, Refused
  <1>6. CASE UNCHANGED vars
    BY <1>2, <1>6 DEF vars, dbVars
  <1> QED
    BY <1>2, <1>3, <1>4, <1>5, <1>6, HandlersOwned DEF Next, PhoneStep

(* Nothing is queued at first. *)
LEMMA InitOwned == Init => AuthorIsOwner
  BY DEF Init, DBInit, AuthorIsOwner, AuthUsers

(* What waits on an account's queue was written in that account's name, over
   sign-outs that Firebase forces or that fail halfway and launches after a kill,
   if sign-ins do not overlap. *)
THEOREM AuthorsAreOwners ==
    ASSUME OneSignIn
    PROVE  Spec => []AuthorIsOwner
  <1>1. OwnerInv /\ AuthorIsOwner /\ [Next]_vars => OwnerInv' /\ AuthorIsOwner'
    BY NextOwner, NextOwned
  <1> QED
    BY <1>1, InitOwner, InitOwned, PTL DEF Spec
-----------------------------------------------------------------------------
(***************************************************************************)
(* A saved profile is on the server too, as long as no process ends.       *)
(***************************************************************************)
OneAccount == \A a, b \in Accounts : a = b

Undisturbed == [UndisturbedNext]_vars

Saved(p) ==
    defaults[p].userData # Nil =>
        defaults[p].userIdToken \in Accounts /\ Backed(defaults[p].userIdToken)

(* Two sign-ins at once may give a profile another token; one alone, or two of
   the same account, may not. *)
SavedInv ==
    /\ SafeInv /\ ProfilesInv /\ (OneSignIn => OwnerInv)
    /\ \A p \in Phones : Saved(p)

(* UserDefaults holds no profile at the first launch. *)
LEMMA InitSaved == Init => SavedInv
  <1> SUFFICES ASSUME Init PROVE SavedInv
    OBVIOUS
  <1>1. ProfilesInv
    BY InitPictures DEF PicturesInv
  <1> QED
    BY <1>1, InitSafe, InitOwner DEF Init, EmptySession, SavedInv, Saved

(* An ended process is not alive. *)
LEMMA DeadAfter ==
    ASSUME TypeOK, NEW p \in Phones, NEW vc \in Dead, Die(p, vc)
    PROVE  ~Alive(p)'
  <1>1. screen \in [Phones -> Screen]
    BY DEF TypeOK
  <1> QED
    BY <1>1 DEF Die, Loaded, Alive

(* What UserDefaults holds changes in three handlers. *)
LEMMA DefaultsSteps ==
    ASSUME TypeOK, Undisturbed
    PROVE  \/ defaults' = defaults
           \/ \E p \in Phones, i \in Calls : SignInCompleted(p, i)
           \/ \E p \in Phones, profile \in Accounts : finishWritingProfile(p, profile)
           \/ \E p \in Phones : backToSignIn(p)
  <1>1. CASE UNCHANGED vars
    BY <1>1 DEF vars, phoneVars
  <1>2. CASE UndisturbedNext
    <2>1. ASSUME NEW p \in Phones, KilledInSignOut(p) \/ \E a \in Accounts : KilledInFinish(p, a)
          PROVE  FALSE
      <3>1. Die(p, "Killed")
        BY <2>1 DEF KilledInSignOut, KilledInFinish
      <3> QED
        BY <1>2, <3>1, DeadAfter DEF Dead, UndisturbedNext
    <2>2. ASSUME NEW p \in Phones, NEW i \in Calls, SignIn(p, i)
          PROVE  defaults' = defaults \/ SignInCompleted(p, i)
      BY <2>2 DEF SignIn, googleSignIn, GoogleAnswered, SignInFailed, FirebaseAuthenticated,
         ProfileAnswered, ProfileUnavailable, ProfileDelivered
    <2>3. ASSUME NEW p \in Phones,
                 \/ goToNextStorybaord(p) \/ backToProfile(p) \/ Killed(p) \/ Launch(p)
                 \/ \E c \in Draws[p] : getConnectionCode(p, c) \/ KilledInGetCode(p, c)
                 \/ Sent(p) \/ Answered(p) \/ Refused(p) \/ Resent(p) \/ Storage(p)
          PROVE  defaults' = defaults
      BY <2>3 DEF goToNextStorybaord, backToProfile, Killed, Launch, getConnectionCode,
         KilledInGetCode, Sent, Answered, Refused, Resent, Storage, phoneVars
    <2> QED
      BY <1>2, <2>1, <2>2, <2>3 DEF UndisturbedNext, PhoneStep
  <1> QED
    BY <1>1, <1>2 DEF Undisturbed

(* While processes live, UserDefaults gets a profile from the form only, and
   keeps it under the token that is on the server. *)
LEMMA NextSaved ==
    ASSUME SavedInv, Undisturbed, Denied = {}, OneSignIn \/ OneAccount
    PROVE  SavedInv'
  <1>0. [Next]_vars
    BY DEF Undisturbed, UndisturbedNext, Next
  <1>1. /\ SafeInv /\ SafeInv' /\ TypeOK /\ (OneSignIn => OwnerInv /\ OwnerInv')
        /\ defaults \in [Phones -> Session] /\ user \in [Phones -> Session]
        /\ calls \in [Phones -> [Calls -> Call]]
    BY <1>0, NextSafe, NextOwner DEF SavedInv, SafeInv, TypeOK
  <1>2. /\ ProfilesInv' /\ \A a \in Accounts : Backed(a) => Backed(a)'
        /\ \A p \in Phones, profile, a \in Accounts :
              finishWritingProfile(p, profile) /\ a = user[p].userIdToken => Backed(a)'
    BY <1>0, DBStep DEF SavedInv
  <1>3. ASSUME NEW p \in Phones, defaults'[p] = defaults[p] PROVE Saved(p)'
    <2>1. Saved(p)
      BY DEF SavedInv
    <2>2. ASSUME NEW a \in Accounts, a = defaults[p].userIdToken, Backed(a) PROVE Backed(a)'
      BY <1>2, <2>2
    <2>3. ASSUME defaults[p].userData # Nil
          PROVE  \E a \in Accounts : a = defaults[p].userIdToken /\ Backed(a)'
      BY <2>1, <2>2, <2>3 DEF Saved
    <2> QED
      BY <1>3, <2>3 DEF Saved
  <1>4. ASSUME NEW p \in Phones, NEW i \in Calls, SignInCompleted(p, i),
               defaults[p].userData # Nil
        PROVE  defaults'[p] = defaults[p]
    <2> DEFINE a == calls[p][i].account
    <2>1. /\ defaults'[p] = setUserIdToken(defaults[p], a) /\ a \in Accounts
          /\ defaults[p].userIdToken \in Accounts
      <3>1. a \in Accounts
        <4>1. calls[p][i] \in Call /\ calls[p][i].stage = "authenticated"
          BY <1>1, <1>4 DEF SignInCompleted
        <4>2. a # Nil
          BY <1>1, <4>1 DEF SafeInv, CallsNamed
        <4> QED
          BY <4>1, <4>2 DEF Call
      <3>2. defaults[p].userIdToken \in Accounts
        BY <1>4 DEF SavedInv, Saved
      <3> QED
        BY <1>1, <1>4, <3>1, <3>2 DEF SignInCompleted, SavedToken
    <2>2. a = defaults[p].userIdToken
      <3>1. CASE OneAccount
        BY <2>1, <3>1 DEF OneAccount
      <3>2. CASE OneSignIn
        <4>1. Owner(p)
          BY <1>1, <3>2 DEF OwnerInv
        <4>2. screen[p].vc = "SignIn"
          BY <1>4, <4>1 DEF SignInCompleted, Owner, Early
        <4> QED
          BY <2>1, <4>1, <4>2, NilAssumption DEF Owner
      <3> QED
        BY <3>1, <3>2
    <2> QED
      BY <1>1, <2>1, <2>2 DEF setUserIdToken, Session
  <1>5. ASSUME NEW p \in Phones, NEW profile \in Accounts, NEW a \in Accounts,
               finishWritingProfile(p, profile), a = user[p].userIdToken
        PROVE  Saved(p)'
    <2>1. defaults'[p].userIdToken = a
      BY <1>1, <1>5, NilAssumption
      DEF finishWritingProfile, setUserData, Session, SafeInv, TokenPersisted
    <2>2. Backed(a)'
      BY <1>2, <1>5
    <2> QED
      BY <2>1, <2>2 DEF Saved
  <1>6. CASE defaults' = defaults
    BY <1>1, <1>2, <1>3, <1>6 DEF SavedInv
  <1>7. ASSUME NEW p \in Phones, NEW i \in Calls, SignInCompleted(p, i) PROVE SavedInv'
    <2>1. \A q \in Phones \ {p} : defaults'[q] = defaults[q]
      BY <1>1, <1>7 DEF SignInCompleted
    <2>2. CASE defaults[p].userData # Nil
      BY <1>1, <1>2, <1>3, <1>4, <1>7, <2>1, <2>2 DEF SavedInv
    <2>3. CASE defaults[p].userData = Nil
      <3>1. defaults'[p].userData = Nil
        BY <1>1, <1>7, <2>3 DEF SignInCompleted, SavedToken, setUserIdToken, Session
      <3>2. Saved(p)'
        BY <3>1 DEF Saved
      <3> QED
        BY <1>1, <1>2, <1>3, <2>1, <3>2 DEF SavedInv
    <2> QED
      BY <2>2, <2>3
  <1>8. ASSUME NEW p \in Phones, NEW profile \in Accounts, finishWritingProfile(p, profile)
        PROVE  SavedInv'
    <2>1. user[p].userIdToken \in Accounts
      BY <1>1, <1>8 DEF finishWritingProfile, Session
    <2>2. Saved(p)'
      BY <1>5, <1>8, <2>1
    <2>3. \A q \in Phones \ {p} : defaults'[q] = defaults[q]
      BY <1>1, <1>8 DEF finishWritingProfile
    <2> QED
      BY <1>1, <1>2, <1>3, <2>2, <2>3 DEF SavedInv
  <1>9. ASSUME NEW p \in Phones, backToSignIn(p) PROVE SavedInv'
    <2>1. defaults'[p].userData = Nil
      BY <1>1, <1>9 DEF backToSignIn, EmptySession
    <2>2. Saved(p)'
      BY <2>1 DEF Saved
    <2>3. \A q \in Phones \ {p} : defaults'[q] = defaults[q]
      BY <1>1, <1>9 DEF backToSignIn
    <2> QED
      BY <1>1, <1>2, <1>3, <2>2, <2>3 DEF SavedInv
  <1> QED
    BY <1>1, <1>6, <1>7, <1>8, <1>9, DefaultsSteps

(* Once no write is outstanding, the profile with which the next launch skips the
   form is on the server, if no process ended, nobody is refused and sign-ins of
   several accounts do not overlap. *)
THEOREM SavedProfilesReachServer ==
    ASSUME Denied = {}, OneSignIn \/ OneAccount
    PROVE  UndisturbedSpec => []SavedProfileOnServer
  <1>1. SavedInv /\ [UndisturbedNext]_vars => SavedInv'
    BY NextSaved DEF Undisturbed
  <1>2. ASSUME SavedInv PROVE SavedProfileOnServer
    <2>1. \A a \in Accounts : Drained /\ Backed(a) => users[a] # Nil /\ users[a].profile # Nil
      BY DEF Backed, HasProfile, OnItsWay, Drained
    <2> QED
      BY <1>2, <2>1 DEF SavedInv, Saved, SavedProfileOnServer
  <1> QED
    BY <1>1, <1>2, InitSaved, PTL DEF UndisturbedSpec
-----------------------------------------------------------------------------
(***************************************************************************)
(* A shown code is live, on the only phone and with one sign-in at a time. *)
(***************************************************************************)
OnePhone == \A p, q \in Phones : p = q

Shown(p) == ~screen[p].labelHidden

Live(p) ==
    Shown(p) =>
        /\ screen[p].vc = "makeNewConnect" /\ screen[p].label \in Codes
        /\ user[p].userIdToken \in Accounts
        /\ auth[p] = user[p].userIdToken => Lands(p, screen[p].label, user[p].userIdToken)

LiveInv == OwnerInv /\ \A p \in Phones : Live(p)

(* No code is shown at the first launch. *)
LEMMA InitLive == Init => LiveInv
  <1> SUFFICES ASSUME Init PROVE LiveInv
    OBVIOUS
  <1>1. \A p \in Phones : Live(p)
    BY DEF Init, Live, Shown, Loaded
  <1> QED
    BY <1>1, InitOwner DEF LiveInv

(* A presented controller shows no code yet, nor does one that is covered by
   the death of the process. *)
LEMMA Hides ==
    ASSUME TypeOK, NEW p \in Phones,
           \/ \E vc \in Controllers : Present(p, vc)
           \/ \E vc \in Dead : Die(p, vc)
           \/ Launch(p)
    PROVE  Live(p)'
  <1>1. screen \in [Phones -> Screen]
    BY DEF TypeOK
  <1>2. screen'[p].labelHidden
    BY <1>1 DEF Present, Die, Launch, Loaded
  <1> QED
    BY <1>2 DEF Live, Shown

(* What leaves the code, the token and the writes alone leaves the code live. *)
LEMMA Same ==
    ASSUME NEW p \in Phones, Live(p), UNCHANGED dbVars, screen'[p] = screen[p],
           user'[p].userIdToken = user[p].userIdToken
    PROVE  Live(p)'
  BY DEF Live, Shown, Lands, dbVars

(* The set of a new code is the last of the handler's writes to touch it. *)
LEMMA GetCodeLands ==
    ASSUME TypeOK, NEW p \in Phones, NEW c \in Codes, NEW a \in Accounts,
           a = user[p].userIdToken, Enqueue(p, CodeWrites(user[p], c))
    PROVE  Lands(p, c, a)'
  <1> DEFINE writes == CodeWrites(user[p], c)
             w1 == removeData("connection", lastConnectionCode(user[p]))
             w2 == addData("connection", c, a)
             w3 == addSingleData("users", a, c)
  <1>1. DBTypeOK /\ user[p] \in Session /\ a # Nil
    BY NilAssumption DEF TypeOK
  <1>2. writes \in Seq(Writes)
    BY <1>1, HandlerWrites
  <1>3. writes = <<w2, w3>> \/ writes = <<w1, w2, w3>>
    BY <1>1, CodeWritesAre
  <1>4. ~Touches(w3, c)
    BY DEF Touches, addSingleData
  <1>5. \E k \in DOMAIN writes : /\ writes[k] = w2
                                 /\ \A j \in DOMAIN writes : j > k => ~Touches(writes[j], c)
    <2> HIDE DEF w1, w2, w3, writes
    <2>1. CASE writes = <<w2, w3>>
      <3>1. DOMAIN writes = 1 .. 2 /\ writes[1] = w2 /\ writes[2] = w3
        BY <2>1
      <3>2. \A j \in DOMAIN writes : j > 1 => ~Touches(writes[j], c)
        BY <1>4, <3>1
      <3> QED
        BY <3>1, <3>2
    <2>2. CASE writes = <<w1, w2, w3>>
      <3>1. DOMAIN writes = 1 .. 3 /\ writes[2] = w2 /\ writes[3] = w3
        BY <2>2
      <3>2. \A j \in DOMAIN writes : j > 2 => ~Touches(writes[j], c)
        BY <1>4, <3>1
      <3> QED
        BY <3>1, <3>2
    <2> QED
      BY <1>3, <2>1, <2>2
  <1> HIDE DEF writes
  <1> QED
    BY <1>1, <1>2, <1>5, EnqueueLands DEF writes

(* The stages of a sign-in that can change the queue or the token. *)
Renames(p) == \E i \in Calls : FirebaseAuthenticated(p, i) \/ SignInCompleted(p, i)

(* What the phone does otherwise. *)
LEMMA PhoneLive ==
    ASSUME TypeOK, NEW p \in Phones, Live(p), ~Renames(p),
           \/ \E i \in Calls : SignIn(p, i)
           \/ goToNextStorybaord(p) \/ backToSignIn(p) \/ KilledInSignOut(p)
           \/ backToProfile(p) \/ Killed(p) \/ Launch(p)
           \/ \E a \in Accounts : finishWritingProfile(p, a) \/ KilledInFinish(p, a)
           \/ \E c \in Draws[p] : getConnectionCode(p, c) \/ KilledInGetCode(p, c)
    PROVE  Live(p)'
  <1>0. /\ user \in [Phones -> Session] /\ screen \in [Phones -> Screen]
        /\ user[p] \in Session /\ screen[p] \in Screen
    BY DEF TypeOK
  <1>1. ASSUME NEW i \in Calls, SignIn(p, i) PROVE Live(p)'
    <2>1. CASE ProfileDelivered(p, i)
      <3>1. user'[p].userIdToken = user[p].userIdToken
        BY <1>0, <2>1 DEF ProfileDelivered, setUserData, Session
      <3> QED
        BY <1>0, <2>1, <3>1, Same DEF ProfileDelivered
    <2>2. CASE \/ googleSignIn(p, i)
               \/ \E a \in AccountsOn[p] : GoogleAnswered(p, i, a)
               \/ SignInFailed(p, i) \/ ProfileAnswered(p, i) \/ ProfileUnavailable(p, i)
      BY <1>0, <2>2, Same DEF googleSignIn, GoogleAnswered, SignInFailed, ProfileAnswered,
         ProfileUnavailable
    <2> QED
      BY <1>1, <2>1, <2>2 DEF SignIn, Renames
  <1>2. CASE goToNextStorybaord(p)
    <2>1. searchUserFromKeychain(defaults[p]) \in Controllers
      BY DEF searchUserFromKeychain, Controllers
    <2> QED
      BY <1>0, <1>2, <2>1, Hides DEF goToNextStorybaord
  <1>3. CASE \/ backToSignIn(p) \/ backToProfile(p)
             \/ \E a \in Accounts : finishWritingProfile(p, a)
    BY <1>0, <1>3, Hides DEF backToSignIn, backToProfile, finishWritingProfile, Controllers
  <1>4. CASE \/ KilledInSignOut(p) \/ Killed(p) \/ Launch(p)
             \/ \E a \in Accounts : KilledInFinish(p, a)
             \/ \E c \in Draws[p] : KilledInGetCode(p, c)
    BY <1>0, <1>4, Hides DEF KilledInSignOut, Killed, KilledInFinish, KilledInGetCode, Dead
  <1>5. ASSUME NEW c \in Draws[p], getConnectionCode(p, c) PROVE Live(p)'
    <2>1. CASE CodeTraps(user[p])
      BY <1>0, <1>5, <2>1, Hides DEF getConnectionCode, Dead
    <2>2. CASE ~CodeTraps(user[p])
      <3>1. c \in Codes /\ screen[p].vc = "makeNewConnect"
        BY <1>5, StartFlowAssumption DEF getConnectionCode, On
      <3>2. PICK a \in Accounts : a = user[p].userIdToken
        BY <1>0, <2>2 DEF CodeTraps, Session
      <3>3. Lands(p, c, a)'
        BY <1>0, <1>5, <3>1, <3>2, GetCodeLands DEF getConnectionCode
      <3>4. user'[p].userIdToken = a
        BY <1>0, <1>5, <2>2, <3>2 DEF getConnectionCode, setSingleUserData, Session
      <3>5. screen'[p].vc = "makeNewConnect" /\ screen'[p].label = c
        BY <1>0, <1>5, <2>2, <3>1 DEF getConnectionCode, Screen
      <3> QED
        BY <3>1, <3>3, <3>4, <3>5 DEF Live
    <2> QED
      BY <2>1, <2>2
  <1> QED
    BY <1>1, <1>2, <1>3, <1>4, <1>5

(* What Firestore does. *)
LEMMA QueueLive ==
    ASSUME TypeOK, NEW p \in Phones, Live(p), Denied \subseteq {Nil},
           Sent(p) \/ Answered(p) \/ Refused(p) \/ Resent(p)
    PROVE  Live(p)'
  <1>1. Commit(p) \/ Acknowledge(p) \/ Reconnect(p) \/ auth[p] = Nil
    BY DEF Sent, Answered, Refused, Resent, Reject
  <1>2. screen' = screen /\ user' = user /\ auth' = auth /\ DBTypeOK
    BY DEF Sent, Answered, Refused, Resent, Commit, Acknowledge, Reject, Reconnect, phoneVars,
       TypeOK
  <1>3. ASSUME NEW c \in Codes, NEW a \in Accounts, Lands(p, c, a), auth[p] = a
        PROVE  Lands(p, c, a)'
    <2>1. Commit(p) \/ Acknowledge(p) \/ Reconnect(p)
      BY <1>1, <1>3, NilAssumption
    <2> QED
      BY <1>2, <1>3, <2>1, CommitLands, AcknowledgeLands, ReconnectLands
  <1> QED
    BY <1>2, <1>3 DEF Live, Shown

(* Firebase has no user any more, or the same one, and the queues stay. *)
LEMMA ForcedLive ==
    ASSUME TypeOK, NEW p \in Phones, Live(p), signOutByForce(p)
    PROVE  Live(p)'
  <1>1. auth \in [Phones -> AuthUsers]
    BY DEF TypeOK, DBTypeOK
  <1>2. auth'[p] = Nil /\ UNCHANGED <<screen, user>>
    BY <1>1 DEF signOutByForce, SetAuth, phoneVars
  <1> QED
    BY <1>2, NilAssumption DEF Live, Shown

(* On the only phone, a shown code stays on its way to the server, or there,
   whatever step is taken but those two. *)
LEMMA StepLive ==
    ASSUME TypeOK, OnePhone, Denied \subseteq {Nil}, [Next]_vars,
           NEW p \in Phones, Live(p), ~Renames(p)
    PROVE  Live(p)'
  <1>1. ASSUME UNCHANGED <<dbVars, phoneVars>> PROVE Live(p)'
    BY <1>1, Same DEF phoneVars
  <1>2. CASE UNCHANGED vars
    BY <1>1, <1>2 DEF vars
  <1>3. ASSUME Storage(p) PROVE Live(p)'
    BY <1>1, <1>3 DEF Storage
  <1>4. CASE Next
    <2>1. \A q \in Phones : q = p
      BY DEF OnePhone
    <2> QED
      BY <1>3, <1>4, <2>1, PhoneLive, QueueLive, ForcedLive DEF Next, PhoneStep
  <1> QED
    BY <1>2, <1>4

(* With one sign-in at a time, its stages leave the SignIn screen only. *)
LEMMA RenamesLive ==
    ASSUME OwnerInv, NEW p \in Phones, Live(p), Renames(p)
    PROVE  Live(p)'
  <1>0. Owner(p) /\ TypeOK
    BY OwnerTypes DEF OwnerInv, SafeInv
  <1> SUFFICES ASSUME NEW i \in Calls, FirebaseAuthenticated(p, i) \/ SignInCompleted(p, i)
               PROVE  Live(p)'
    BY DEF Renames
  <1>1. screen[p].vc = "SignIn"
    BY <1>0 DEF FirebaseAuthenticated, SignInCompleted, Owner, Early
  <1>2. CASE screen' = screen
    BY <1>1, <1>2 DEF Live, Shown
  <1>3. CASE \E vc \in Controllers : Present(p, vc)
    BY <1>0, <1>3, Hides
  <1> QED
    BY <1>2, <1>3 DEF FirebaseAuthenticated, SignInCompleted, Controllers

(* Sign-ins, drawing and sending keep every shown code on its way. *)
LEMMA NextLive ==
    ASSUME LiveInv, [Next]_vars, OneSignIn, OnePhone, Denied \subseteq {Nil}
    PROVE  LiveInv'
  <1>1. OwnerInv /\ OwnerInv' /\ TypeOK /\ \A p \in Phones : Live(p)
    BY NextOwner DEF LiveInv, OwnerInv, SafeInv
  <1>2. \A p \in Phones : Live(p)'
    BY <1>1, StepLive, RenamesLive
  <1> QED
    BY <1>1, <1>2 DEF LiveInv

(* Once no write is outstanding, a code on the screen is a connection document of
   the phone's user as long as Firebase keeps that user, whatever was killed, signed
   out, sent again or deleted before, if owners are not refused, sign-ins do not
   overlap and no other phone draws codes. *)
THEOREM ShownCodesAreLive ==
    ASSUME OnePhone, OneSignIn, Denied \subseteq {Nil}
    PROVE  Spec => []ShownCodeIsLive
  <1>1. LiveInv /\ [Next]_vars => LiveInv'
    BY NextLive
  <1>2. ASSUME LiveInv PROVE ShownCodeIsLive
    <2>1. \A p \in Phones : Shown(p) /\ auth[p] = user[p].userIdToken =>
                               Lands(p, screen[p].label, user[p].userIdToken)
      BY <1>2 DEF LiveInv, Live
    <2>2. \A p \in Phones : auth[p] \in AuthUsers
      BY <1>2, OwnerTypes DEF LiveInv
    <2> QED
      BY <2>1, <2>2 DEF Lands, Shown, ShownCodeIsLive, Drained
  <1> QED
    BY <1>1, <1>2, InitLive, PTL DEF Spec
-----------------------------------------------------------------------------
(***************************************************************************)
(* A document's code points back, for one phone and one account, whatever  *)
(* sign-ins of it overlap, as long as the process does not end.            *)
(***************************************************************************)
(* A form or a code screen is presented by a sign-in that has been
   authenticated since the last sign-out, so what it writes joins the queue of
   the account. *)
Signed(p) ==
    /\ Alive(p)
    /\ screen[p].vc = "Start" => /\ defaults[p].userIdToken = Nil
                                 /\ \A i \in Calls : calls[p][i].stage = "idle"
    /\ screen[p].vc \in {"newProfile", "makeNewConnect"} => auth[p] # Nil
    /\ \A i \in Calls : calls[p][i].stage = "authenticated" /\ calls[p][i].onTop => auth[p] # Nil

PointsInv ==
    /\ SafeInv
    /\ \A p \in Phones : /\ Signed(p) /\ pending[p][Nil] = <<>>
                         /\ \A a \in Accounts : Ends(p, a)

(* No document names a code at first, and nothing is queued. *)
LEMMA InitPoints == Init => PointsInv
  <1> SUFFICES ASSUME Init PROVE PointsInv
    OBVIOUS
  <1>1. \A p \in Phones : Signed(p)
    BY DEF Init, Signed, Alive, Dead, Loaded, IdleCall, EmptySession
  <1>2. PICK registered \in SUBSET Accounts : DBInit(registered)
    BY DEF Init
  <1>3. \A a \in Accounts : users[a] # Nil => users[a].connectionCode = Nil
    BY <1>2 DEF DBInit
  <1>4. \A p \in Phones, u \in AuthUsers : pending[p][u] = <<>>
    BY <1>2 DEF DBInit
  <1> QED
    BY <1>1, <1>3, <1>4, InitSafe DEF PointsInv, Ends, PointsBack, AuthUsers

(* The stages of a sign-in. *)
LEMMA SignInSigned ==
    ASSUME PointsInv, NEW p \in Phones, NEW i \in Calls, SignIn(p, i), Alive(p)'
    PROVE  Signed(p)'
  <1> DEFINE call == calls[p][i]
  <1>0. /\ Signed(p) /\ Safe(p) /\ call \in Call
        /\ calls \in [Phones -> [Calls -> Call]] /\ screen \in [Phones -> Screen]
        /\ auth \in [Phones -> AuthUsers] /\ defaults \in [Phones -> Session]
    BY SafeParts DEF PointsInv, SafeInv, TypeOK, DBTypeOK
  <1>1. CASE \/ googleSignIn(p, i) \/ SignInFailed(p, i)
             \/ ProfileUnavailable(p, i) \/ ProfileDelivered(p, i)
    <2>1. /\ calls'[p][i].stage # "authenticated" /\ \A j \in Calls : j # i => calls'[p][j] = calls[p][j]
          /\ screen[p].vc # "Start"
      <3>1. CASE googleSignIn(p, i)
        BY <1>0, <3>1 DEF googleSignIn, IdleCall, On
      <3>2. CASE SignInFailed(p, i) \/ ProfileUnavailable(p, i) \/ ProfileDelivered(p, i)
        <4>1. calls' = [calls EXCEPT ![p][i] = IdleCall] /\ call.stage # "idle"
          BY <3>2 DEF SignInFailed, ProfileUnavailable, ProfileDelivered
        <4>2. calls'[p][i] = IdleCall /\ \A j \in Calls : j # i => calls'[p][j] = calls[p][j]
          BY <1>0, <4>1
        <4> QED
          BY <1>0, <4>1, <4>2 DEF IdleCall, Signed
      <3> QED
        BY <1>1, <3>1, <3>2
    <2>2. UNCHANGED <<auth, screen, defaults>>
      BY <1>1 DEF googleSignIn, SignInFailed, ProfileUnavailable, ProfileDelivered, dbVars
    <2> QED
      BY <1>0, <2>1, <2>2 DEF Signed, Alive
  <1>2. CASE (\E a \in AccountsOn[p] : GoogleAnswered(p, i, a)) \/ ProfileAnswered(p, i)
    <2>1. /\ calls'[p][i].stage # "authenticated" /\ \A j \in Calls : j # i => calls'[p][j] = calls[p][j]
          /\ screen[p].vc # "Start"
      <3>1. CASE \E a \in AccountsOn[p] : GoogleAnswered(p, i, a)
        BY <1>0, <3>1 DEF GoogleAnswered, Call, Signed
      <3>2. CASE ProfileAnswered(p, i)
        <4>1. PICK data \in UserData :
                 calls' = [calls EXCEPT ![p][i].stage = "fetched", ![p][i].data = data]
          BY <3>2 DEF ProfileAnswered
        <4>2. calls'[p][i].stage = "fetched"
          BY <1>0, <4>1 DEF Call
        <4>3. \A j \in Calls : j # i => calls'[p][j] = calls[p][j]
          BY <1>0, <4>1
        <4> QED
          BY <1>0, <3>2, <4>2, <4>3 DEF ProfileAnswered, Signed
      <3> QED
        BY <1>2, <3>1, <3>2
    <2>2. UNCHANGED <<auth, screen, defaults>>
      BY <1>2 DEF GoogleAnswered, ProfileAnswered, dbVars
    <2> QED
      BY <1>0, <2>1, <2>2 DEF Signed, Alive
  <1>3. CASE FirebaseAuthenticated(p, i)
    <2>1. auth'[p] = call.account /\ call.account # Nil
      BY <1>0, <1>3 DEF FirebaseAuthenticated, SetAuth, Safe, Named
    <2>2. screen[p].vc # "Start" /\ UNCHANGED <<screen, defaults>>
      BY <1>0, <1>3 DEF FirebaseAuthenticated, Signed
    <2> QED
      BY <1>0, <2>1, <2>2 DEF Signed, Alive
  <1>4. CASE SignInCompleted(p, i)
    <2>1. call.stage = "authenticated" /\ UNCHANGED auth
      BY <1>4 DEF SignInCompleted, dbVars
    <2>2. \/ /\ call.onTop /\ screen'[p].vc \in {"newProfile", "makeNewConnect"}
             /\ calls'[p] = [Covered(p) EXCEPT ![i].stage = "fetching"]
          \/ /\ screen' = screen
             /\ calls'[p] = [calls[p] EXCEPT ![i].stage = "fetching", ![i].onTop = FALSE]
      <3>1. \/ /\ call.onTop /\ \E vc \in {"newProfile", "makeNewConnect"} : Present(p, vc)
               /\ calls' = [calls EXCEPT ![p] = [Covered(p) EXCEPT ![i].stage = "fetching"]]
            \/ /\ screen' = screen
               /\ calls' = [calls EXCEPT ![p][i].stage = "fetching", ![p][i].onTop = FALSE]
        BY <1>4 DEF SignInCompleted
      <3>2. \A vc \in {"newProfile", "makeNewConnect"} : Present(p, vc) => screen'[p].vc = vc
        BY <1>0 DEF Present, Loaded
      <3> QED
        BY <1>0, <3>1, <3>2
    <2>3. \A j \in Calls :
             calls'[p][j].onTop =>
                 \/ calls'[p][j].stage = calls[p][j].stage /\ calls[p][j].onTop
                 \/ calls'[p][j].stage = "fetching"
      <3>1. CASE calls'[p] = [Covered(p) EXCEPT ![i].stage = "fetching"]
        <4>1. ASSUME NEW j \in Calls PROVE ~Covered(p)[j].onTop
          <5>1. calls[p][j] \in Call /\ Covered(p)[j] = [calls[p][j] EXCEPT !.onTop = FALSE]
            BY <1>0 DEF Covered
          <5> QED
            BY <5>1 DEF Call
        <4>2. Covered(p) \in [Calls -> Call]
          BY CoveredType DEF PointsInv, SafeInv, TypeOK, PhoneTypeOK
        <4>3. \A j \in Calls : ~calls'[p][j].onTop
          BY <3>1, <4>1, <4>2 DEF Call
        <4> QED
          BY <4>3
      <3>2. CASE calls'[p] = [calls[p] EXCEPT ![i].stage = "fetching", ![i].onTop = FALSE]
        BY <1>0, <3>2 DEF Call
      <3> QED
        BY <2>2, <3>1, <3>2
    <2>4. screen[p].vc # "Start"
      BY <1>0, <2>1 DEF Signed
    <2>5. \A j \in Calls : calls'[p][j].stage = "authenticated" /\ calls'[p][j].onTop => auth'[p] # Nil
      BY <1>0, <2>1, <2>3 DEF Signed
    <2>6. screen'[p].vc # "Start" /\ (screen'[p].vc \in {"newProfile", "makeNewConnect"} => auth'[p] # Nil)
      BY <1>0, <2>1, <2>2, <2>4 DEF Signed
    <2> QED
      BY <2>5, <2>6 DEF Signed
  <1> QED
    BY <1>1, <1>2, <1>3, <1>4 DEF SignIn

(* The other handlers, while the process lives. *)
LEMMA PhoneSigned ==
    ASSUME PointsInv, NEW p \in Phones, Alive(p)',
           \/ goToNextStorybaord(p) \/ backToSignIn(p) \/ backToProfile(p)
           \/ \E a \in Accounts : finishWritingProfile(p, a)
           \/ \E c \in Draws[p] : getConnectionCode(p, c)
    PROVE  Signed(p)'
  <1>0. /\ Signed(p) /\ TypeOK /\ calls \in [Phones -> [Calls -> Call]]
        /\ screen \in [Phones -> Screen]
        /\ auth \in [Phones -> AuthUsers] /\ defaults \in [Phones -> Session]
    BY DEF PointsInv, SafeInv, TypeOK, DBTypeOK
  <1>1. ASSUME NEW vc \in Controllers, Present(p, vc) PROVE screen'[p].vc = vc
    BY <1>0, <1>1 DEF Present, Loaded
  <1>2. ASSUME calls'[p] = Covered(p) PROVE \A i \in Calls : ~calls'[p][i].onTop
    <2> SUFFICES ASSUME NEW i \in Calls PROVE ~Covered(p)[i].onTop
      BY <1>2
    <2>1. calls[p][i] \in Call /\ Covered(p)[i] = [calls[p][i] EXCEPT !.onTop = FALSE]
      BY <1>0 DEF Covered
    <2> QED
      BY <2>1 DEF Call
  <1>3. CASE goToNextStorybaord(p)
    <2>1. screen[p].vc = "Start" /\ searchUserFromKeychain(defaults[p]) = "SignIn"
      BY <1>0, <1>3 DEF goToNextStorybaord, On, Signed, searchUserFromKeychain
    <2>2. screen'[p].vc = "SignIn" /\ UNCHANGED <<calls, auth>>
      BY <1>1, <1>3, <2>1 DEF goToNextStorybaord, dbVars, Controllers
    <2> QED
      BY <1>0, <2>2 DEF Signed
  <1>4. CASE backToSignIn(p)
    <2>1. screen'[p].vc = "SignIn" /\ calls'[p] = Covered(p)
      BY <1>0, <1>1, <1>4 DEF backToSignIn, Controllers
    <2> QED
      BY <1>2, <2>1 DEF Signed
  <1>5. CASE backToProfile(p) \/ \E a \in Accounts : finishWritingProfile(p, a)
    <2>1. /\ screen[p].vc \in {"newProfile", "makeNewConnect"} /\ calls'[p] = Covered(p)
          /\ auth' = auth /\ screen'[p].vc \in {"newProfile", "makeNewConnect"}
      BY <1>0, <1>1, <1>5 DEF backToProfile, finishWritingProfile, Controllers, On, dbVars, Enqueue
    <2> QED
      BY <1>0, <1>2, <2>1 DEF Signed
  <1>6. ASSUME NEW c \in Draws[p], getConnectionCode(p, c) PROVE Signed(p)'
    <2>1. ~CodeTraps(user[p])
      BY <1>0, <1>6, DeadAfter DEF getConnectionCode, Dead
    <2>2. /\ screen[p].vc = "makeNewConnect" /\ UNCHANGED <<auth, calls>>
          /\ screen'[p].vc = "makeNewConnect"
      BY <1>0, <1>6, <2>1 DEF getConnectionCode, On, Enqueue, Screen
    <2> QED
      BY <1>0, <2>2 DEF Signed
  <1> QED
    BY <1>3, <1>4, <1>5, <1>6

(* A form's and a code's writes join the only queue there is. *)
LEMMA WritesEnd ==
    ASSUME PointsInv, OneAccount, NEW p \in Phones,
           \/ \E a \in Accounts : finishWritingProfile(p, a)
           \/ \E c \in Draws[p] : getConnectionCode(p, c)
    PROVE  pending'[p][Nil] = <<>> /\ \A b \in Accounts : Ends(p, b)'
  <1>0. /\ Signed(p) /\ Safe(p) /\ DBTypeOK /\ auth[p] \in AuthUsers /\ Nil \in AuthUsers
        /\ user[p] \in Session /\ pending[p][Nil] = <<>> /\ screen[p] \in Screen
        /\ pending \in [Phones -> [AuthUsers -> Seq(Writes)]]
    BY SafeParts DEF PointsInv, SafeInv, TypeOK, DBTypeOK, AuthUsers
  <1>1. PICK a \in Accounts : a = user[p].userIdToken /\ auth[p] = a
    <2>1. auth[p] # Nil /\ user[p].userIdToken # Nil
      BY <1>0 DEF finishWritingProfile, getConnectionCode, On, Signed, Safe
    <2> QED
      BY <1>0, <2>1 DEF OneAccount, AuthUsers, Session
  <1>2. a # Nil /\ \A b \in Accounts : b = a
    BY NilAssumption DEF OneAccount
  <1>3. ASSUME NEW profile \in Accounts, finishWritingProfile(p, profile)
        PROVE  pending'[p][Nil] = <<>> /\ Ends(p, a)'
    <2> DEFINE writes == <<addData("users", a, uploadData(profile))>>
    <2>1. /\ writes \in Seq(Writes) /\ Len(writes) = 1 /\ Enqueue(p, writes)
          /\ writes[1] = addData("users", a, uploadData(profile))
      BY <1>1, <1>3, HandlerWrites DEF finishWritingProfile
    <2>2. uploadData(profile) \in UserData /\ uploadData(profile).connectionCode = Nil
      BY HandlerWrites DEF uploadData
    <2> HIDE DEF writes
    <2>3. Ends(p, a)'
      BY <1>0, <1>1, <2>1, <2>2, EnqueueEnds
    <2> QED
      BY <1>0, <1>1, <1>2, <2>1, <2>3 DEF Enqueue
  <1>4. ASSUME NEW c \in Codes, Enqueue(p, CodeWrites(user[p], c))
        PROVE  pending'[p][Nil] = <<>> /\ Ends(p, a)'
    <2> DEFINE writes == CodeWrites(user[p], c)
               n == Len(writes)
    <2>1. writes \in Seq(Writes)
      BY <1>0, HandlerWrites
    <2>2. /\ n > 1 /\ writes[n] = addSingleData("users", a, c)
          /\ writes[n - 1] = addData("connection", c, a)
      <3> DEFINE w1 == removeData("connection", lastConnectionCode(user[p]))
                 w2 == addData("connection", c, a)
                 w3 == addSingleData("users", a, c)
      <3>1. writes = <<w2, w3>> \/ writes = <<w1, w2, w3>>
        BY <1>0, <1>1, <1>2, CodeWritesAre
      <3> HIDE DEF w1, w2, w3, writes
      <3>2. n > 1 /\ writes[n] = w3 /\ writes[n - 1] = w2
        <4>1. CASE writes = <<w2, w3>>
          <5>1. n = 2
            BY <4>1
          <5> QED
            BY <4>1, <5>1
        <4>2. CASE writes = <<w1, w2, w3>>
          <5>1. n = 3
            BY <4>2
          <5> QED
            BY <4>2, <5>1
        <4> QED
          BY <3>1, <4>1, <4>2
      <3> QED
        BY <3>2 DEF w2, w3
    <2> HIDE DEF writes, n
    <2>3. Enqueue(p, writes)
      BY <1>4 DEF writes
    <2>4. Ends(p, a)'
      BY <1>0, <1>1, <2>1, <2>2, <2>3, EnqueueEnds DEF n
    <2> QED
      BY <1>0, <1>1, <1>2, <2>3, <2>4 DEF Enqueue
  <1>5. CASE \E c \in Draws[p] : getConnectionCode(p, c)
    BY <1>2, <1>4, <1>5, StartFlowAssumption DEF getConnectionCode
  <1> QED
    BY <1>2, <1>3, <1>5

(* While the process lives, every step leaves the account's queue ending in a
   form or in a code. *)
LEMMA NextPoints ==
    ASSUME PointsInv, Undisturbed, OnePhone, OneAccount, Denied = {}
    PROVE  PointsInv'
  <1>0. [Next]_vars
    BY DEF Undisturbed, UndisturbedNext, Next
  <1>1. /\ SafeInv /\ SafeInv' /\ TypeOK /\ DBTypeOK /\ DBTypeOK' /\ auth \in [Phones -> AuthUsers]
        /\ committed \in [Phones -> Nat] /\ pending \in [Phones -> [AuthUsers -> Seq(Writes)]]
    BY <1>0, NextSafe DEF PointsInv, SafeInv, TypeOK, DBTypeOK
  <1>2. ASSUME NEW p \in Phones, Signed(p)', pending'[p][Nil] = <<>>,
               \A a \in Accounts : Ends(p, a)'
        PROVE  PointsInv'
    BY <1>1, <1>2 DEF OnePhone, PointsInv
  <1>3. ASSUME NEW p \in Phones, UNCHANGED <<pending, users, connection>>,
               committed'[p] = 0 \/ committed'[p] = committed[p]
        PROVE  pending'[p][Nil] = <<>> /\ \A a \in Accounts : Ends(p, a)'
    BY <1>1, <1>3, RestartEnds DEF PointsInv
  <1>4. ASSUME UNCHANGED <<dbVars, phoneVars>> PROVE PointsInv'
    <2>1. \A p \in Phones : Signed(p)'
      BY <1>4 DEF PointsInv, Signed, Alive, dbVars, phoneVars
    <2>2. \A p \in Phones : pending'[p][Nil] = <<>> /\ \A a \in Accounts : Ends(p, a)'
      BY <1>3, <1>4 DEF dbVars
    <2> QED
      BY <1>1, <2>1, <2>2 DEF PointsInv
  <1>5. CASE UNCHANGED vars
    BY <1>4, <1>5 DEF vars
  <1>6. CASE UndisturbedNext
    <2>1. ASSUME NEW p \in Phones, NEW i \in Calls, SignIn(p, i) PROVE PointsInv'
      <3>1. Signed(p)'
        BY <1>6, <2>1, SignInSigned DEF UndisturbedNext
      <3>2. /\ UNCHANGED <<pending, users, connection>>
            /\ committed'[p] = 0 \/ committed'[p] = committed[p]
        BY <1>1, <2>1 DEF SignIn, googleSignIn, GoogleAnswered, SignInFailed, FirebaseAuthenticated,
           SignInCompleted, ProfileAnswered, ProfileUnavailable, ProfileDelivered, SetAuth, dbVars
      <3> QED
        BY <1>2, <1>3, <3>1, <3>2
    <2>2. ASSUME NEW p \in Phones, goToNextStorybaord(p) \/ backToSignIn(p) \/ backToProfile(p)
          PROVE  PointsInv'
      <3>1. Signed(p)'
        BY <1>6, <2>2, PhoneSigned DEF UndisturbedNext
      <3>2. /\ UNCHANGED <<pending, users, connection>>
            /\ committed'[p] = 0 \/ committed'[p] = committed[p]
        BY <1>1, <2>2 DEF goToNextStorybaord, backToSignIn, backToProfile, SetAuth, dbVars
      <3> QED
        BY <1>2, <1>3, <3>1, <3>2
    <2>3. ASSUME NEW p \in Phones, \/ \E a \in Accounts : finishWritingProfile(p, a)
                                   \/ \E c \in Draws[p] : getConnectionCode(p, c)
          PROVE  PointsInv'
      <3>1. Signed(p)'
        BY <1>6, <2>3, PhoneSigned DEF UndisturbedNext
      <3>2. pending'[p][Nil] = <<>> /\ \A a \in Accounts : Ends(p, a)'
        BY <2>3, WritesEnd
      <3> QED
        BY <1>2, <3>1, <3>2
    <2>4. ASSUME NEW p \in Phones,
                 \/ \E a \in Accounts : KilledInFinish(p, a)
                 \/ \E c \in Draws[p] : KilledInGetCode(p, c)
                 \/ KilledInSignOut(p) \/ Killed(p) \/ Launch(p)
          PROVE  FALSE
      <3>1. ~Launch(p)
        BY DEF Launch, PointsInv, Signed
      <3>2. Die(p, "Killed")
        BY <2>4, <3>1 DEF KilledInFinish, KilledInGetCode, KilledInSignOut, Killed
      <3> QED
        BY <1>1, <1>6, <3>2, DeadAfter DEF Dead, UndisturbedNext
    <2>5. ASSUME NEW p \in Phones, Sent(p) \/ Answered(p) \/ Refused(p) \/ Resent(p)
          PROVE  PointsInv'
      <3>1. Commit(p) \/ Acknowledge(p) \/ Reconnect(p)
        BY <2>5 DEF Sent, Answered, Refused, Resent, Reject
      <3>2. UNCHANGED <<phoneVars, auth>>
        BY <2>5 DEF Sent, Answered, Refused, Resent, Commit, Acknowledge, Reject, Reconnect
      <3>3. Signed(p)'
        BY <3>2 DEF PointsInv, Signed, Alive, phoneVars
      <3>4. \A a \in Accounts : auth[p] = a \/ pending[p][auth[p]] = <<>>
        BY <1>1 DEF PointsInv, AuthUsers, OneAccount
      <3>5. CASE Commit(p)
        <4>1. pending' = pending
          BY <3>5 DEF Commit
        <4> QED
          BY <1>1, <1>2, <3>3, <3>4, <3>5, <4>1, CommitEnds DEF PointsInv
      <3>6. CASE Acknowledge(p)
        <4>1. auth[p] # Nil
          <5>1. Len(<<>>) = 0
            OBVIOUS
          <5> QED
            BY <1>1, <3>6, <5>1 DEF Acknowledge, DBTypeOK, PointsInv
        <4>2. pending'[p][Nil] = <<>>
          BY <1>1, <3>6, <4>1 DEF Acknowledge, PointsInv, AuthUsers
        <4> QED
          BY <1>1, <1>2, <3>3, <3>4, <3>6, <4>2, AcknowledgeEnds DEF PointsInv
      <3>7. CASE Reconnect(p)
        <4>1. UNCHANGED <<pending, users, connection>> /\ committed'[p] = 0
          BY <1>1, <3>7 DEF Reconnect
        <4> QED
          BY <1>2, <1>3, <3>3, <4>1
      <3> QED
        BY <3>1, <3>5, <3>6, <3>7
    <2>6. ASSUME NEW p \in Phones, Storage(p) PROVE PointsInv'
      BY <1>4, <2>6 DEF Storage
    <2> QED
      BY <1>6, <2>1, <2>2, <2>3, <2>4, <2>5, <2>6 DEF UndisturbedNext, PhoneStep
  <1> QED
    BY <1>5, <1>6 DEF Undisturbed

(* Once no write is outstanding, the code a users document names is a connection
   document of that user, on one phone with one account whose process lives on:
   whatever sign-ins of the account overlap, whatever forms are saved between codes,
   and however often the writes are sent again. *)
THEOREM CodesPointBack ==
    ASSUME OnePhone, OneAccount, Denied = {}, Phones # {}
    PROVE  UndisturbedSpec => []CodePointsBack
  <1>1. PointsInv /\ [UndisturbedNext]_vars => PointsInv'
    BY NextPoints DEF Undisturbed
  <1>2. ASSUME PointsInv PROVE CodePointsBack
    <2>1. \A p \in Phones, a \in Accounts : Drained => PointsBack(a)
      BY <1>2 DEF PointsInv, Ends, Drained, AuthUsers
    <2> QED
      BY <2>1 DEF PointsBack, CodePointsBack
  <1> QED
    BY <1>1, <1>2, InitPoints, PTL DEF UndisturbedSpec
-----------------------------------------------------------------------------
(***************************************************************************)
(* A shown code is live when sign-ins of one account overlap, as long as   *)
(* the process does not end.                                               *)
(***************************************************************************)
ShownInv == PointsInv /\ \A p \in Phones : Live(p)

(* On a code screen the account is the auth user already: to authenticate it again
   changes neither the queue nor the token. *)
LEMMA RenamesAgain ==
    ASSUME PointsInv, OneAccount, NEW p \in Phones, Live(p), Renames(p)
    PROVE  Live(p)'
  <1>0. /\ Signed(p) /\ Safe(p) /\ TypeOK /\ auth \in [Phones -> AuthUsers]
        /\ committed \in [Phones -> Nat] /\ user \in [Phones -> Session]
    BY SafeParts DEF PointsInv, SafeInv, TypeOK, DBTypeOK
  <1>1. PICK i \in Calls : FirebaseAuthenticated(p, i) \/ SignInCompleted(p, i)
    BY DEF Renames
  <1>2. calls[p][i].account \in Accounts
    <2>1. calls[p][i] \in Call
      BY <1>0 DEF TypeOK
    <2> QED
      BY <1>0, <1>1, <2>1 DEF FirebaseAuthenticated, SignInCompleted, Call, Safe, Named
  <1>3. CASE ~Shown(p) /\ screen' = screen
    BY <1>3 DEF Live, Shown
  <1>4. CASE Shown(p) /\ FirebaseAuthenticated(p, i)
    <2>1. auth[p] = calls[p][i].account
      BY <1>0, <1>2, <1>4 DEF Live, Signed, AuthUsers, OneAccount
    <2>2. UNCHANGED dbVars
      BY <1>0, <1>4, <2>1 DEF FirebaseAuthenticated, SetAuth, dbVars
    <2> QED
      BY <1>4, <2>2, Same DEF FirebaseAuthenticated
  <1>5. CASE Shown(p) /\ SignInCompleted(p, i) /\ screen' = screen
    <2>1. user[p].userIdToken \in Accounts
      BY <1>0, <1>5 DEF Live, Safe, Session
    <2>2. user'[p].userIdToken = user[p].userIdToken
      BY <1>0, <1>2, <1>5, <2>1 DEF SignInCompleted, setUserIdToken, Session, OneAccount
    <2> QED
      BY <1>5, <2>2, Same DEF SignInCompleted
  <1>6. CASE \E vc \in Controllers : Present(p, vc)
    BY <1>0, <1>6, Hides
  <1> QED
    BY <1>1, <1>3, <1>4, <1>5, <1>6 DEF FirebaseAuthenticated, SignInCompleted, Controllers

(* Once no write is outstanding, a code on the screen is a connection document of
   the phone's user, however many sign-ins of the account overlap, on one phone whose
   process lives on. *)
THEOREM ShownCodesAreLiveUndisturbed ==
    ASSUME OnePhone, OneAccount, Denied = {}
    PROVE  UndisturbedSpec => []ShownCodeIsLive
  <1>1. ASSUME ShownInv, Undisturbed PROVE ShownInv'
    <2>1. [Next]_vars /\ PointsInv'
      BY <1>1, NextPoints DEF Undisturbed, UndisturbedNext, Next, ShownInv
    <2>2. \A p \in Phones : Live(p)'
      BY <1>1, <2>1, StepLive, RenamesAgain DEF ShownInv, PointsInv, SafeInv
    <2> QED
      BY <2>1, <2>2 DEF ShownInv
  <1>2. ShownInv /\ [UndisturbedNext]_vars => ShownInv'
    BY <1>1 DEF Undisturbed
  <1>3. Init => ShownInv
    BY InitPoints, InitLive DEF ShownInv, LiveInv
  <1>4. ASSUME ShownInv PROVE ShownCodeIsLive
    <2>1. \A p \in Phones : Shown(p) /\ auth[p] = user[p].userIdToken =>
                               Lands(p, screen[p].label, user[p].userIdToken)
      BY <1>4 DEF ShownInv, Live
    <2>2. \A p \in Phones : auth[p] \in AuthUsers
      BY <1>4 DEF ShownInv, PointsInv, SafeInv, TypeOK, DBTypeOK
    <2> QED
      BY <2>1, <2>2 DEF Lands, Shown, ShownCodeIsLive, Drained
  <1> QED
    BY <1>2, <1>3, <1>4, PTL DEF UndisturbedSpec
=============================================================================
