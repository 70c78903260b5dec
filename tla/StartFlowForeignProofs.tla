---------------------- MODULE StartFlowForeignProofs -----------------------
(***************************************************************************)
(* One account's profile gets under another one by a race only: whatever   *)
(* else the app, its phones and Firestore do keeps accounts apart.         *)
(***************************************************************************)
EXTENDS StartFlowProofs, WellFoundedInduction

(* The users document a phone reads is of any kind D that the server's document is
   of and that the pending writes to it lead from D to D. *)
LEMMA ViewKeeps ==
    ASSUME NEW p \in Phones, NEW a \in Accounts, NEW D, users[a] \in D,
           pending[p][auth[p]] \in Seq(Writes),
           \A k \in DOMAIN pending[p][auth[p]] :
              LET write == pending[p][auth[p]][k] IN
              write.collection = "users" /\ write.id = a => \A d \in D : Written(write, d) \in D
    PROVE  View(p, a) \in D
  <1> DEFINE queue == pending[p][auth[p]]
             n == Len(queue)
             Step(k, d) == IF queue[k].collection = "users" /\ queue[k].id = a
                           THEN Written(queue[k], d) ELSE d
             Runs(m, g) == g[0] = users[a] /\ \A k \in 1 .. m : g[k] = Step(k, g[k - 1])
             Run(m) == \E g \in [0 .. m -> D] : Runs(m, g)
             After == CHOOSE f : f = [k \in 0 .. n |->
                          IF k = 0 THEN users[a] ELSE Step(k, f[k - 1])]
  <1>1. n \in Nat /\ DOMAIN queue = 1 .. n
    OBVIOUS
  <1>2. \A k \in 1 .. n, d \in D : Step(k, d) \in D
    BY <1>1
  <1>3. View(p, a) = After[n]
    BY DEF View
  <1> HIDE DEF Step, n, queue
  <1>4. Run(0)
    <2> DEFINE g == [k \in 0 .. 0 |-> users[a]]
    <2>1. g \in [0 .. 0 -> D] /\ g[0] = users[a]
      OBVIOUS
    <2>2. \A k \in 1 .. 0 : FALSE
      OBVIOUS
    <2> QED
      BY <2>1, <2>2
  <1>5. ASSUME NEW m \in 0 .. n, m < n, Run(m) PROVE Run(m + 1)
    <2>1. PICK g \in [0 .. m -> D] : Runs(m, g)
      BY <1>5
    <2> DEFINE h == [k \in 0 .. m + 1 |-> IF k = m + 1 THEN Step(m + 1, g[m]) ELSE g[k]]
    <2>2. m \in Nat /\ m + 1 \in 1 .. n
      BY <1>1, <1>5
    <2>3. Step(m + 1, g[m]) \in D
      BY <1>2, <2>2
    <2>4. h \in [0 .. m + 1 -> D]
      BY <2>2, <2>3
    <2>5. /\ h[0] = g[0] /\ h[m + 1] = Step(m + 1, g[m]) /\ h[m] = g[m]
          /\ \A k \in 1 .. m : h[k] = g[k] /\ h[k - 1] = g[k - 1]
      BY <2>2
    <2> HIDE DEF h
    <2>6. \A k \in 1 .. m + 1 : h[k] = Step(k, h[k - 1])
      <3> SUFFICES ASSUME NEW k \in 1 .. m + 1 PROVE h[k] = Step(k, h[k - 1])
        OBVIOUS
      <3>1. CASE k \in 1 .. m
        BY <2>1, <2>5, <3>1
      <3>2. CASE k = m + 1
        <4>1. k - 1 = m
          BY <2>2, <3>2
        <4> QED
          BY <2>5, <3>2, <4>1
      <3> QED
        BY <2>2, <3>1, <3>2
    <2> QED
      BY <2>1, <2>4, <2>5, <2>6
  <1> HIDE DEF Run
  <1>6. Run(n)
    <2> DEFINE T == {m \in 0 .. n : ~Run(m)}
    <2> SUFFICES ASSUME T # {} PROVE FALSE
      BY <1>1
    <2>1. T \subseteq Nat
      BY <1>1
    <2>2. PICK m \in T : \A k \in T : ~(k < m)
      <3>1. PICK m \in T : \A k \in T : ~(<<k, m>> \in OpToRel(<, Nat))
        BY <2>1, NatLessThanWellFounded, WFMin
      <3> QED
        BY <2>1, <3>1 DEF OpToRel
    <2>3. m # 0 /\ m \in 0 .. n
      BY <1>4
    <2>4. m - 1 \in 0 .. n /\ m - 1 < n /\ m - 1 < m /\ (m - 1) + 1 = m
      BY <1>1, <2>3
    <2>5. Run(m - 1)
      BY <2>2, <2>4
    <2>6. Run((m - 1) + 1)
      BY <1>5, <2>4, <2>5
    <2> QED
      BY <2>2, <2>4, <2>6
  <1>7. PICK g \in [0 .. n -> D] : Runs(n, g)
    BY <1>6 DEF Run
  <1>8. g = [k \in 0 .. n |-> IF k = 0 THEN users[a] ELSE Step(k, g[k - 1])]
    BY <1>1, <1>7
  <1>9. After = [k \in 0 .. n |-> IF k = 0 THEN users[a] ELSE Step(k, After[k - 1])]
    BY <1>8
  <1> HIDE DEF After
  <1>10. \A k \in 0 .. n : After[k] \in D
    <2> DEFINE T == {k \in 0 .. n : After[k] \notin D}
    <2> SUFFICES ASSUME T # {} PROVE FALSE
      OBVIOUS
    <2>1. T \subseteq Nat
      BY <1>1
    <2>2. PICK m \in T : \A k \in T : ~(k < m)
      <3>1. PICK m \in T : \A k \in T : ~(<<k, m>> \in OpToRel(<, Nat))
        BY <2>1, NatLessThanWellFounded, WFMin
      <3> QED
        BY <2>1, <3>1 DEF OpToRel
    <2>3. After[0] \in D
      BY <1>1, <1>9
    <2>4. m \in 1 .. n /\ m - 1 \in 0 .. n /\ m - 1 < m
      BY <1>1, <2>3
    <2>5. After[m - 1] \in D
      BY <2>2, <2>4
    <2>6. After[m] = Step(m, After[m - 1])
      BY <1>9, <2>4
    <2> QED
      BY <1>2, <2>2, <2>4, <2>5, <2>6
  <1> QED
    BY <1>1, <1>3, <1>10
-----------------------------------------------------------------------------
(***************************************************************************)
(* What the property leans on, in every state.                             *)
(***************************************************************************)
(* Without a token in memory there is none in UserDefaults, except between the end
   of a process and the first screen's decision, when memory is empty and no sign-in
   is under way.  Only a read that has been answered has a document. *)
Waits(p) ==
    /\ user[p].userIdToken = Nil =>
          defaults[p].userIdToken = Nil \/ screen[p].vc \in Dead \cup {"Start"}
    /\ screen[p].vc \in Dead \cup {"Start"} =>
          user[p] = EmptySession /\ \A i \in Calls : calls[p][i].stage = "idle"
    /\ \A i \in Calls : calls[p][i].stage # "fetched" => calls[p][i].data = Nil

WaitsInv == SafeInv /\ \A p \in Phones : Waits(p)

(* The types the steps need. *)
LEMMA WaitsTypes ==
    ASSUME WaitsInv, NEW p \in Phones
    PROVE  /\ TypeOK /\ Waits(p) /\ Safe(p)
           /\ calls \in [Phones -> [Calls -> Call]] /\ calls[p] \in [Calls -> Call]
           /\ user \in [Phones -> Session] /\ user[p] \in Session
           /\ defaults \in [Phones -> Session] /\ defaults[p] \in Session
           /\ screen \in [Phones -> Screen] /\ screen[p] \in Screen
  BY SafeParts DEF WaitsInv, SafeInv, TypeOK

(* A covered call keeps its stage and its answer. *)
LEMMA CoveredCalls ==
    ASSUME TypeOK, NEW p \in Phones, NEW i \in Calls
    PROVE  /\ Covered(p)[i].stage = calls[p][i].stage
           /\ Covered(p)[i].account = calls[p][i].account
           /\ Covered(p)[i].data = calls[p][i].data
  <1>1. calls[p][i] \in Call /\ Covered(p)[i] = [calls[p][i] EXCEPT !.onTop = FALSE]
    BY DEF Covered, TypeOK
  <1> QED
    BY <1>1 DEF Call

(* A controller that is presented is none of these. *)
LEMMA PresentedScreen ==
    ASSUME TypeOK, NEW p \in Phones, NEW vc \in Controllers \cup Dead,
           screen' = [screen EXCEPT ![p] = Loaded(vc, user'[p])] \/ Die(p, vc) \/ Present(p, vc)
    PROVE  screen'[p].vc = vc
  BY DEF TypeOK, Loaded, Die, Present

(* Nothing is in memory at the first launch. *)
LEMMA InitWaits == Init => WaitsInv
  <1> SUFFICES ASSUME Init PROVE WaitsInv
    OBVIOUS
  <1>1. \A p \in Phones : Waits(p)
    BY DEF Init, Waits, Loaded, EmptySession, IdleCall
  <1> QED
    BY <1>1, InitSafe DEF WaitsInv

(* The end of a process empties memory. *)
LEMMA DieWaits ==
    ASSUME WaitsInv, NEW p \in Phones, NEW vc \in Dead, Die(p, vc)
    PROVE  Waits(p)'
  <1>1. /\ user'[p] = EmptySession /\ screen'[p].vc = vc
        /\ \A i \in Calls : calls'[p][i] = IdleCall
    BY WaitsTypes DEF Die, Loaded
  <1> QED
    BY <1>1 DEF Waits, IdleCall

(* The stages of a sign-in. *)
LEMMA SignInWaits ==
    ASSUME WaitsInv, NEW p \in Phones, NEW i \in Calls, SignIn(p, i)
    PROVE  Waits(p)'
  <1> DEFINE call == calls[p][i]
  <1>0. /\ TypeOK /\ Waits(p) /\ Safe(p) /\ calls \in [Phones -> [Calls -> Call]] /\ call \in Call
        /\ user \in [Phones -> Session] /\ screen \in [Phones -> Screen]
    BY WaitsTypes
  <1>1. screen[p].vc \notin Dead \cup {"Start"}
    BY <1>0 DEF SignIn, googleSignIn, GoogleAnswered, SignInFailed, FirebaseAuthenticated,
       SignInCompleted, ProfileAnswered, ProfileUnavailable, ProfileDelivered, On, Waits, Dead
  <1>2. ASSUME screen'[p].vc \notin Dead \cup {"Start"},
               user'[p].userIdToken = Nil => user[p].userIdToken = Nil /\ defaults'[p] = defaults[p],
               \A j \in Calls : calls'[p][j].stage # "fetched" => calls'[p][j].data = Nil
        PROVE  Waits(p)'
    BY <1>0, <1>1, <1>2 DEF Waits
  <1>3. ASSUME UNCHANGED <<screen, user, defaults>>,
               \A j \in Calls : calls'[p][j].stage # "fetched" => calls'[p][j].data = Nil
        PROVE  Waits(p)'
    BY <1>1, <1>2, <1>3
  <1>4. CASE \/ googleSignIn(p, i) \/ \E a \in AccountsOn[p] : GoogleAnswered(p, i, a)
             \/ SignInFailed(p, i) \/ FirebaseAuthenticated(p, i) \/ ProfileUnavailable(p, i)
    <2>1. \A j \in Calls : calls'[p][j].stage # "fetched" => calls'[p][j].data = Nil
      <3>1. CASE googleSignIn(p, i)
        BY <1>0, <3>1 DEF googleSignIn, IdleCall, Waits
      <3>2. CASE \E a \in AccountsOn[p] : GoogleAnswered(p, i, a)
        BY <1>0, <3>2 DEF GoogleAnswered, Call, Waits
      <3>3. CASE SignInFailed(p, i) \/ ProfileUnavailable(p, i)
        BY <1>0, <3>3 DEF SignInFailed, ProfileUnavailable, IdleCall, Waits
      <3>4. CASE FirebaseAuthenticated(p, i)
        BY <1>0, <3>4 DEF FirebaseAuthenticated, Call, Waits
      <3> QED
        BY <1>4, <3>1, <3>2, <3>3, <3>4
    <2>2. UNCHANGED <<screen, user, defaults>>
      BY <1>4 DEF googleSignIn, GoogleAnswered, SignInFailed, FirebaseAuthenticated,
         ProfileUnavailable
    <2> QED
      BY <1>3, <2>1, <2>2
  <1>5. CASE ProfileAnswered(p, i)
    <2>1. PICK data \in UserData :
             calls' = [calls EXCEPT ![p][i].stage = "fetched", ![p][i].data = data]
      BY <1>5 DEF ProfileAnswered
    <2>2. calls'[p][i].stage = "fetched" /\ \A j \in Calls : j # i => calls'[p][j] = calls[p][j]
      BY <1>0, <2>1 DEF Call
    <2>3. \A j \in Calls : calls'[p][j].stage # "fetched" => calls'[p][j].data = Nil
      BY <1>0, <2>2 DEF Waits
    <2>4. UNCHANGED <<screen, user, defaults>>
      BY <1>5 DEF ProfileAnswered
    <2> QED
      BY <1>3, <2>3, <2>4
  <1>6. CASE ProfileDelivered(p, i)
    <2>1. \A j \in Calls : calls'[p][j].stage # "fetched" => calls'[p][j].data = Nil
      BY <1>0, <1>6 DEF ProfileDelivered, IdleCall, Waits
    <2>2. user'[p].userIdToken = user[p].userIdToken
      BY <1>0, <1>6 DEF ProfileDelivered, setUserData, Session
    <2>3. UNCHANGED <<screen, defaults>>
      BY <1>6 DEF ProfileDelivered
    <2> QED
      BY <1>1, <1>2, <2>1, <2>2, <2>3
  <1>7. CASE SignInCompleted(p, i)
    <2>1. call.stage = "authenticated" /\ call.account # Nil /\ call.data = Nil
      BY <1>0, <1>7 DEF SignInCompleted, Safe, Named, Waits
    <2>2. user'[p].userIdToken # Nil
      BY <1>0, <1>7, <2>1 DEF SignInCompleted, setUserIdToken, Session
    <2>3. \A j \in Calls : calls'[p][j].stage # "fetched" => calls'[p][j].data = Nil
      <3>1. CASE calls' = [calls EXCEPT ![p] = [Covered(p) EXCEPT ![i].stage = "fetching"]]
        <4>1. Covered(p) \in [Calls -> Call]
          BY <1>0, TypeParts, CoveredType
        <4>2. /\ calls'[p][i].data = Covered(p)[i].data
              /\ \A j \in Calls : j # i => calls'[p][j] = Covered(p)[j]
          BY <1>0, <3>1, <4>1 DEF Call
        <4> QED
          BY <1>0, <2>1, <4>2, CoveredCalls DEF Waits
      <3>2. CASE calls' = [calls EXCEPT ![p][i].stage = "fetching", ![p][i].onTop = FALSE]
        BY <1>0, <2>1, <3>2 DEF Call, Waits
      <3> QED
        BY <1>7, <3>1, <3>2 DEF SignInCompleted
    <2>4. screen'[p].vc \notin Dead \cup {"Start"}
      <3>1. \A vc \in {"newProfile", "makeNewConnect"} : Present(p, vc) => screen'[p].vc = vc
        BY <1>0, PresentedScreen DEF Controllers
      <3>2. screen' = screen \/ \E vc \in {"newProfile", "makeNewConnect"} : Present(p, vc)
        BY <1>7 DEF SignInCompleted
      <3> QED
        BY <1>1, <3>1, <3>2 DEF Dead
    <2> QED
      BY <1>2, <2>2, <2>3, <2>4
  <1> QED
    BY <1>4, <1>5, <1>6, <1>7 DEF SignIn

(* The other handlers. *)
LEMMA HandlersWait ==
    ASSUME WaitsInv, NEW p \in Phones,
           \/ goToNextStorybaord(p) \/ backToSignIn(p) \/ backToProfile(p)
           \/ \E a \in Accounts : finishWritingProfile(p, a)
           \/ \E c \in Draws[p] : getConnectionCode(p, c)
    PROVE  Waits(p)'
  <1>0. /\ TypeOK /\ Waits(p) /\ Safe(p) /\ calls \in [Phones -> [Calls -> Call]]
        /\ user \in [Phones -> Session] /\ screen \in [Phones -> Screen]
        /\ defaults \in [Phones -> Session]
    BY WaitsTypes
  <1>1. ASSUME NEW vc \in Controllers, vc # "Start", Present(p, vc),
               calls' = calls \/ calls' = [calls EXCEPT ![p] = Covered(p)],
               user'[p].userIdToken = Nil => defaults'[p].userIdToken = Nil
        PROVE  Waits(p)'
    <2>1. screen'[p].vc = vc /\ vc \notin Dead \cup {"Start"}
      BY <1>0, <1>1, PresentedScreen DEF Controllers, Dead
    <2>2. \A i \in Calls : calls'[p][i].stage # "fetched" => calls'[p][i].data = Nil
      BY <1>0, <1>1, CoveredCalls DEF Waits
    <2> QED
      BY <1>1, <2>1, <2>2 DEF Waits
  <1>2. CASE goToNextStorybaord(p)
    <2> DEFINE d == defaults[p]
               vc == searchUserFromKeychain(d)
    <2>1. vc \in Controllers /\ vc # "Start"
      BY DEF searchUserFromKeychain, Controllers
    <2>2. user'[p] = Remembered(user[p], d) /\ defaults' = defaults /\ calls' = calls /\ Present(p, vc)
      BY <1>0, <1>2 DEF goToNextStorybaord
    <2>3. d.userIdToken # Nil => Remembered(user[p], d).userIdToken # Nil
      BY <1>0 DEF Remembered, setUserIdToken, setUserData, setConnectionToken, Session
    <2> QED
      BY <1>1, <2>1, <2>2, <2>3
  <1>3. CASE backToSignIn(p)
    <2>1. defaults'[p].userIdToken = Nil
      BY <1>0, <1>3 DEF backToSignIn, EmptySession
    <2> QED
      BY <1>1, <1>3, <2>1 DEF backToSignIn, Controllers
  <1>4. CASE backToProfile(p)
    <2>1. user'[p].userIdToken # Nil
      BY <1>0, <1>4 DEF backToProfile, On, Safe
    <2> QED
      BY <1>1, <1>4, <2>1 DEF backToProfile, Controllers
  <1>5. ASSUME NEW a \in Accounts, finishWritingProfile(p, a) PROVE Waits(p)'
    <2>1. user'[p].userIdToken # Nil
      BY <1>0, <1>5 DEF finishWritingProfile, setUserData, Session
    <2> QED
      BY <1>1, <1>5, <2>1 DEF finishWritingProfile, Controllers
  <1>6. ASSUME NEW c \in Draws[p], getConnectionCode(p, c) PROVE Waits(p)'
    <2>1. CASE CodeTraps(user[p])
      BY <1>6, <2>1, DieWaits DEF getConnectionCode, Dead
    <2>2. CASE ~CodeTraps(user[p])
      <3>1. /\ screen'[p].vc = "makeNewConnect" /\ calls' = calls
            /\ user'[p].userIdToken = user[p].userIdToken
        BY <1>0, <1>6, <2>2 DEF getConnectionCode, On, setSingleUserData, Session, Screen
      <3>2. user[p].userIdToken # Nil
        BY <2>2 DEF CodeTraps
      <3> QED
        BY <1>0, <3>1, <3>2 DEF Waits, Dead
    <2> QED
      BY <2>1, <2>2
  <1> QED
    BY <1>2, <1>3, <1>4, <1>5, <1>6

(* Every step keeps it, on every phone. *)
LEMMA NextWaits ==
    ASSUME WaitsInv, [Next]_vars
    PROVE  WaitsInv'
  <1>0. /\ SafeInv' /\ TypeOK /\ \A p \in Phones : Waits(p)
        /\ calls \in [Phones -> [Calls -> Call]] /\ user \in [Phones -> Session]
        /\ defaults \in [Phones -> Session] /\ screen \in [Phones -> Screen]
    BY NextSafe DEF WaitsInv, SafeInv, TypeOK
  <1>1. ASSUME NEW p \in Phones, Waits(p)', Framed(p) PROVE WaitsInv'
    <2>1. \A q \in Phones \ {p} : Waits(q)'
      BY <1>0, <1>1 DEF Framed, Waits
    <2> QED
      BY <1>0, <1>1, <2>1 DEF WaitsInv
  <1>2. ASSUME UNCHANGED phoneVars PROVE WaitsInv'
    BY <1>0, <1>2 DEF phoneVars, Waits, WaitsInv
  <1>3. ASSUME NEW p \in Phones, NEW i \in Calls, SignIn(p, i) PROVE WaitsInv'
    <2>1. Waits(p)'
      BY <1>3, SignInWaits
    <2>2. Framed(p)
      <3>1. CASE ProfileAnswered(p, i)
        <4>1. PICK data \in UserData :
                 calls' = [calls EXCEPT ![p][i].stage = "fetched", ![p][i].data = data]
          BY <3>1 DEF ProfileAnswered
        <4> QED
          BY <1>0, <3>1, <4>1 DEF ProfileAnswered, Framed
      <3>2. CASE SignInCompleted(p, i)
        BY <1>0, <3>2 DEF SignInCompleted, Present, Framed
      <3>3. CASE ~ProfileAnswered(p, i) /\ ~SignInCompleted(p, i)
        BY <1>0, <1>3, <3>3 DEF SignIn, googleSignIn, GoogleAnswered, SignInFailed,
           FirebaseAuthenticated, ProfileUnavailable, ProfileDelivered, Framed
      <3> QED
        BY <3>1, <3>2, <3>3
    <2> QED
      BY <1>1, <2>1, <2>2
  <1>4. ASSUME NEW p \in Phones,
               \/ goToNextStorybaord(p) \/ backToSignIn(p) \/ backToProfile(p)
               \/ \E a \in Accounts : finishWritingProfile(p, a)
               \/ \E c \in Draws[p] : getConnectionCode(p, c)
        PROVE  WaitsInv'
    <2>1. Waits(p)'
      BY <1>4, HandlersWait
    <2>2. Framed(p)
      BY <1>0, <1>4 DEF goToNextStorybaord, backToSignIn, backToProfile, finishWritingProfile,
         getConnectionCode, Die, Present, Framed
    <2> QED
      BY <1>1, <2>1, <2>2
  <1>5. ASSUME NEW p \in Phones,
               \/ KilledInSignOut(p) \/ Killed(p)
               \/ \E a \in Accounts : KilledInFinish(p, a)
               \/ \E c \in Draws[p] : KilledInGetCode(p, c)
        PROVE  WaitsInv'
    <2>1. Die(p, "Killed")
      BY <1>5 DEF KilledInSignOut, Killed, KilledInFinish, KilledInGetCode
    <2>2. Waits(p)'
      BY <2>1, DieWaits DEF Dead
    <2>3. Framed(p)
      BY <1>0, <1>5 DEF KilledInSignOut, Killed, KilledInFinish, KilledInGetCode, Die, Framed
    <2> QED
      BY <1>1, <2>2, <2>3
  <1>6. ASSUME NEW p \in Phones, Launch(p) PROVE WaitsInv'
    <2>1. /\ screen'[p].vc = "Start" /\ UNCHANGED <<user, calls, defaults>>
          /\ screen[p].vc \in Dead /\ Framed(p)
      BY <1>0, <1>6 DEF Launch, Loaded, Alive, Framed
    <2>2. Waits(p)'
      BY <1>0, <2>1 DEF Waits
    <2> QED
      BY <1>1, <2>1, <2>2
  <1>7. ASSUME NEW p \in Phones,
               \/ Sent(p) \/ Answered(p) \/ Refused(p) \/ Resent(p) \/ Storage(p)
               \/ signOutByForce(p)
        PROVE  WaitsInv'
    BY <1>2, <1>7 DEF Sent, Answered, Refused, Resent, Storage, signOutByForce
  <1>8. CASE UNCHANGED vars
    BY <1>2, <1>8 DEF vars
  <1> QED
    BY <1>3, <1>4, <1>5, <1>6, <1>7, <1>8 DEF Next, PhoneStep
-----------------------------------------------------------------------------
(***************************************************************************)
(* NothingForeign, by the parts of it that a step of one phone disturbs.   *)
(***************************************************************************)
OwnWrite(write) ==
    write.collection = "users" /\ write.op = "addData" => OwnDocument(write.id, write.data)

OwnScreen(p) ==
    screen[p].vc = "newProfile" =>
        {screen[p].prefill, screen[p].person} \subseteq {Nil, user[p].userIdToken}

OwnPhone(p) ==
    /\ Own(user[p]) /\ Own(defaults[p]) /\ OwnScreen(p)
    /\ \A i \in Calls : OwnDocument(calls[p][i].account, calls[p][i].data)

OwnServer ==
    /\ \A p \in Phones, u \in AuthUsers :
          \A k \in DOMAIN pending[p][u] : OwnWrite(pending[p][u][k])
    /\ \A a \in Accounts : OwnDocument(a, users[a])

(* The parts make up the whole. *)
LEMMA OwnParts ==
    /\ NothingForeign <=> OwnServer /\ \A p \in Phones : OwnPhone(p)
    /\ NothingForeign' <=> OwnServer' /\ \A p \in Phones : OwnPhone(p)'
  BY DEF NothingForeign, OwnServer, OwnPhone, OwnScreen, OwnWrite

(* What a handler queues, when each write of it is the author's own. *)
LEMMA EnqueueOwn ==
    ASSUME DBTypeOK, OwnServer, NEW p \in Phones, NEW writes \in Seq(Writes), Enqueue(p, writes),
           \A k \in DOMAIN writes : OwnWrite(writes[k])
    PROVE  OwnServer'
  <1> DEFINE old == pending[p][auth[p]]
             new == old \o writes
  <1>1. /\ pending \in [Phones -> [AuthUsers -> Seq(Writes)]] /\ auth[p] \in AuthUsers
        /\ old \in Seq(Writes)
    BY DEF DBTypeOK
  <1>2. /\ DOMAIN new = 1 .. Len(old) + Len(writes) /\ DOMAIN old = 1 .. Len(old)
        /\ DOMAIN writes = 1 .. Len(writes)
        /\ \A k \in DOMAIN new : new[k] = IF k <= Len(old) THEN old[k] ELSE writes[k - Len(old)]
    BY <1>1
  <1>3. \A k \in DOMAIN new : k <= Len(old) \/ k - Len(old) \in DOMAIN writes
    BY <1>1, <1>2
  <1>4. ASSUME NEW k \in DOMAIN new PROVE OwnWrite(new[k])
    <2> HIDE DEF new, old
    <2>1. CASE k <= Len(old)
      <3>1. k \in DOMAIN old /\ new[k] = old[k]
        BY <1>1, <1>2, <2>1
      <3> QED
        BY <1>1, <3>1 DEF OwnServer, old
    <2>2. CASE ~(k <= Len(old))
      BY <1>2, <1>3, <2>2
    <2> QED
      BY <2>1, <2>2
  <1>5. pending' = [pending EXCEPT ![p][auth[p]] = new] /\ users' = users
    BY DEF Enqueue
  <1> HIDE DEF new
  <1> QED
    BY <1>1, <1>4, <1>5 DEF OwnServer

(* What an answer takes off a queue leaves the other writes. *)
LEMMA TailOwn ==
    ASSUME DBTypeOK, OwnServer, NEW p \in Phones, Acknowledge(p) \/ Reject(p)
    PROVE  OwnServer'
  <1> DEFINE old == pending[p][auth[p]]
             new == Tail(old)
  <1>1. /\ pending \in [Phones -> [AuthUsers -> Seq(Writes)]] /\ auth[p] \in AuthUsers
        /\ old \in Seq(Writes) /\ committed[p] \in Nat /\ committed[p] <= Len(old)
    BY DEF DBTypeOK
  <1>2. old # <<>> /\ pending' = [pending EXCEPT ![p][auth[p]] = new] /\ users' = users
    <2>1. Len(<<>>) = 0
      OBVIOUS
    <2> QED
      BY <1>1, <2>1 DEF Acknowledge, Reject
  <1>3. \A k \in DOMAIN new : k + 1 \in DOMAIN old /\ new[k] = old[k + 1]
    BY <1>1, <1>2
  <1>4. \A k \in DOMAIN new : OwnWrite(new[k])
    BY <1>1, <1>3 DEF OwnServer
  <1> HIDE DEF new
  <1> QED
    BY <1>1, <1>2, <1>4 DEF OwnServer

(* A write that replaces a document makes it the author's own, one that merges
   leaves the profile. *)
LEMMA WrittenOwn ==
    ASSUME NEW write \in Writes, write.collection = "users", OwnWrite(write),
           NEW document, OwnDocument(write.id, document)
    PROVE  OwnDocument(write.id, Written(write, document))
  <1>1. write.op = "addData" \/ write.op = "addSingleData"
    BY WriteCases
  <1> QED
    BY <1>1 DEF OwnWrite, OwnDocument, Written

(* The server applies only what is on a queue. *)
LEMMA CommitOwn ==
    ASSUME DBTypeOK, OwnServer, NEW p \in Phones, Commit(p)
    PROVE  OwnServer'
  <1> DEFINE queue == pending[p][auth[p]]
             k == committed[p] + 1
             write == queue[k]
  <1>1. /\ auth[p] \in AuthUsers /\ queue \in Seq(Writes) /\ k \in DOMAIN queue
        /\ users \in [Accounts -> UserData \cup {Nil}]
    <2>1. auth[p] \in AuthUsers /\ queue \in Seq(Writes) /\ committed[p] \in Nat
      BY DEF DBTypeOK
    <2> QED
      BY <2>1 DEF Commit, DBTypeOK
  <1>2. write \in Writes /\ OwnWrite(write)
    BY <1>1 DEF OwnServer
  <1>3. /\ pending' = pending
        /\ IF write.collection = "users"
           THEN users' = [users EXCEPT ![write.id] = Written(write, @)] ELSE users' = users
    BY DEF Commit
  <1> HIDE DEF write, k, queue
  <1>4. CASE write.collection = "users"
    <2>1. write.id \in Accounts
      BY <1>2, <1>4, WriteCases
    <2>2. OwnDocument(write.id, users'[write.id])
      BY <1>1, <1>2, <1>3, <1>4, <2>1, WrittenOwn DEF OwnServer
    <2> QED
      BY <1>1, <1>3, <1>4, <2>1, <2>2 DEF OwnServer
  <1>5. CASE write.collection # "users"
    BY <1>3, <1>5 DEF OwnServer
  <1> QED
    BY <1>4, <1>5

(* A document of an account, seen through its own writes, is its own. *)
LEMMA ViewOwn ==
    ASSUME TypeOK, OwnServer, NEW p \in Phones, NEW a \in Accounts
    PROVE  OwnDocument(a, View(p, a))
  <1> DEFINE D == {d \in UserData \cup {Nil} : OwnDocument(a, d)}
             queue == pending[p][auth[p]]
  <1>1. /\ auth[p] \in AuthUsers /\ queue \in Seq(Writes)
        /\ users[a] \in UserData \cup {Nil}
    BY DEF TypeOK, DBTypeOK
  <1>2. users[a] \in D
    BY <1>1 DEF OwnServer
  <1>3. \A k \in DOMAIN queue : OwnWrite(queue[k])
    BY <1>1 DEF OwnServer
  <1>4. ASSUME NEW k \in DOMAIN queue, queue[k].collection = "users", queue[k].id = a, NEW d \in D
        PROVE  Written(queue[k], d) \in D
    <2> DEFINE write == queue[k]
    <2>1. write \in Writes /\ OwnWrite(write)
      BY <1>1, <1>3
    <2> HIDE DEF write
    <2>2. write.collection = "users" /\ write.id = a
      BY <1>4 DEF write
    <2>3. Written(write, d) \in UserData \cup {Nil}
      BY <2>1, <2>2, WrittenUser
    <2>4. OwnDocument(a, Written(write, d))
      BY <2>1, <2>2, WrittenOwn
    <2> QED
      BY <2>3, <2>4 DEF write
  <1> HIDE DEF D
  <1>5. View(p, a) \in D
    BY <1>1, <1>2, <1>4, ViewKeeps
  <1> QED
    BY <1>5 DEF D
-----------------------------------------------------------------------------
(***************************************************************************)
(* The phone's steps, while no race happens.                               *)
(***************************************************************************)
(* What viewDidLoad puts into the form comes from memory. *)
LEMMA PresentOwn ==
    ASSUME TypeOK, NEW p \in Phones, NEW vc, Present(p, vc), user'[p] \in Session, Own(user'[p])
    PROVE  OwnScreen(p)'
  <1>1. screen'[p] = Loaded(vc, user'[p])
    BY DEF TypeOK, Present
  <1> DEFINE u == user'[p]
  <1>2. ProfileOf(u) \in {Nil, u.userIdToken}
    BY DEF ProfileOf, Own
  <1> HIDE DEF u
  <1>3. vc = "newProfile" => {Loaded(vc, u).prefill, Loaded(vc, u).person} \subseteq {Nil, u.userIdToken}
    BY <1>2 DEF Loaded
  <1>4. Loaded(vc, u).vc = vc
    BY DEF Loaded
  <1> QED
    BY <1>1, <1>3, <1>4 DEF OwnScreen, u

(* Covered or not, a call keeps its answer. *)
LEMMA CoveredOwn ==
    ASSUME TypeOK, NEW p \in Phones, OwnPhone(p),
           calls' = calls \/ calls' = [calls EXCEPT ![p] = Covered(p)]
    PROVE  \A i \in Calls : OwnDocument(calls'[p][i].account, calls'[p][i].data)
  <1> SUFFICES ASSUME NEW i \in Calls
               PROVE  OwnDocument(calls'[p][i].account, calls'[p][i].data)
    OBVIOUS
  <1>1. calls'[p][i].account = calls[p][i].account /\ calls'[p][i].data = calls[p][i].data
    BY CoveredCalls DEF TypeOK
  <1> QED
    BY <1>1 DEF OwnPhone

(* A process that ends leaves what UserDefaults holds. *)
LEMMA DieOwn ==
    ASSUME TypeOK, NEW p \in Phones, NEW vc \in Dead, Die(p, vc), Own(defaults'[p])
    PROVE  OwnPhone(p)'
  <1>1. /\ user'[p] = EmptySession /\ screen'[p].vc = vc
        /\ \A i \in Calls : calls'[p][i] = IdleCall
    BY DEF TypeOK, Die, Loaded
  <1>2. Own(EmptySession) /\ OwnDocument(Nil, Nil)
    BY DEF Own, EmptySession, OwnDocument
  <1> QED
    BY <1>1, <1>2 DEF OwnPhone, OwnScreen, IdleCall, Dead

(* The stages of a sign-in, unless it is late: a first account meets an empty
   memory, an answer the account it was asked for. *)
LEMMA SignInOwn ==
    ASSUME WaitsInv, OwnServer, NEW p \in Phones, OwnPhone(p), NEW i \in Calls, SignIn(p, i),
           ~LateAnswer(p)
    PROVE  OwnPhone(p)'
  <1> DEFINE call == calls[p][i]
  <1>0. /\ TypeOK /\ Waits(p) /\ Safe(p) /\ calls \in [Phones -> [Calls -> Call]] /\ call \in Call
        /\ user \in [Phones -> Session] /\ screen \in [Phones -> Screen]
        /\ defaults \in [Phones -> Session]
    BY WaitsTypes
  <1>1. OwnDocument(Nil, Nil) /\ \A a : OwnDocument(a, Nil)
    BY DEF OwnDocument
  <1>2. ASSUME UNCHANGED <<screen, user, defaults>>,
               OwnDocument(calls'[p][i].account, calls'[p][i].data),
               \A j \in Calls : j # i => calls'[p][j] = calls[p][j]
        PROVE  OwnPhone(p)'
    <2>1. \A j \in Calls : OwnDocument(calls'[p][j].account, calls'[p][j].data)
      BY <1>2 DEF OwnPhone
    <2> QED
      BY <1>2, <2>1 DEF OwnPhone, OwnScreen
  <1>3. CASE \/ googleSignIn(p, i) \/ \E a \in AccountsOn[p] : GoogleAnswered(p, i, a)
             \/ SignInFailed(p, i) \/ FirebaseAuthenticated(p, i) \/ ProfileUnavailable(p, i)
    <2>1. calls'[p][i].data = Nil /\ \A j \in Calls : j # i => calls'[p][j] = calls[p][j]
      <3>1. CASE googleSignIn(p, i) \/ SignInFailed(p, i) \/ ProfileUnavailable(p, i)
        <4>1. \E c : calls' = [calls EXCEPT ![p][i] = c] /\ c.data = Nil
          <5>1. /\ IdleCall.data = Nil
                /\ [IdleCall EXCEPT !.stage = "google", !.onTop = TRUE].data = Nil
            BY DEF IdleCall
          <5> QED
            BY <3>1, <5>1 DEF googleSignIn, SignInFailed, ProfileUnavailable
        <4> QED
          BY <1>0, <4>1
      <3>2. CASE \E a \in AccountsOn[p] : GoogleAnswered(p, i, a)
        <4>1. call.stage = "google"
          BY <3>2 DEF GoogleAnswered
        <4>2. call.data = Nil
          BY <1>0, <4>1 DEF Waits
        <4>3. PICK a \in AccountsOn[p] :
                 calls' = [calls EXCEPT ![p][i].stage = "firebase", ![p][i].account = a]
          BY <3>2 DEF GoogleAnswered
        <4> QED
          BY <1>0, <4>2, <4>3 DEF Call
      <3>3. CASE FirebaseAuthenticated(p, i)
        BY <1>0, <3>3 DEF FirebaseAuthenticated, Call, Waits
      <3> QED
        BY <1>3, <3>1, <3>2, <3>3
    <2>2. UNCHANGED <<screen, user, defaults>>
      BY <1>3 DEF googleSignIn, GoogleAnswered, SignInFailed, FirebaseAuthenticated,
         ProfileUnavailable
    <2> QED
      BY <1>1, <1>2, <2>1, <2>2
  <1>4. CASE ProfileAnswered(p, i)
    <2>1. PICK data \in UserData :
             /\ data = View(p, call.account)
             /\ calls' = [calls EXCEPT ![p][i].stage = "fetched", ![p][i].data = data]
      BY <1>4 DEF ProfileAnswered
    <2>2. call.account \in Accounts
      BY <1>0, <1>4 DEF ProfileAnswered, Call, Safe, Named
    <2>3. /\ calls'[p][i].account = call.account /\ calls'[p][i].data = data
          /\ \A j \in Calls : j # i => calls'[p][j] = calls[p][j]
      BY <1>0, <2>1 DEF Call
    <2>4. OwnDocument(call.account, data)
      BY <1>0, <2>1, <2>2, ViewOwn
    <2>5. UNCHANGED <<screen, user, defaults>>
      BY <1>4 DEF ProfileAnswered
    <2> QED
      BY <1>2, <2>3, <2>4, <2>5
  <1>5. CASE ProfileDelivered(p, i)
    <2> DEFINE data == call.data
    <2>1. calls'[p][i] = IdleCall /\ \A j \in Calls : j # i => calls'[p][j] = calls[p][j]
      BY <1>0, <1>5 DEF ProfileDelivered
    <2>2. call.stage = "fetched" /\ calls'[p][i].stage # call.stage
      BY <1>5, <2>1 DEF ProfileDelivered, IdleCall
    <2>3. user[p].userIdToken = call.account /\ call.account # Nil /\ data # Nil
      BY <1>0, <2>2 DEF LateAnswer, Safe, Named
    <2>4. OwnDocument(call.account, data)
      BY DEF OwnPhone
    <2>5. /\ user'[p].userIdToken = user[p].userIdToken /\ user'[p].userData = data
          /\ screen' = screen /\ defaults' = defaults
      BY <1>0, <1>5 DEF ProfileDelivered, setUserData, Session
    <2> HIDE DEF data
    <2>6. Own(user'[p])
      BY <2>3, <2>4, <2>5 DEF Own, OwnDocument
    <2>7. \A j \in Calls : OwnDocument(calls'[p][j].account, calls'[p][j].data)
      BY <1>1, <2>1 DEF OwnPhone, IdleCall
    <2> QED
      BY <2>5, <2>6, <2>7 DEF OwnPhone, OwnScreen
  <1>6. CASE SignInCompleted(p, i)
    <2> DEFINE a == call.account
    <2>1. call.stage = "authenticated" /\ a # Nil /\ call.data = Nil
      BY <1>0, <1>6 DEF SignInCompleted, Safe, Named, Waits
    <2>2. calls'[p][i].stage = "fetching" /\ \A j \in Calls :
             /\ calls'[p][j].account = calls[p][j].account /\ calls'[p][j].data = calls[p][j].data
      <3>1. CASE calls' = [calls EXCEPT ![p] = [Covered(p) EXCEPT ![i].stage = "fetching"]]
        <4>1. Covered(p) \in [Calls -> Call]
          BY <1>0, TypeParts, CoveredType
        <4>2. /\ calls'[p][i].data = Covered(p)[i].data /\ calls'[p][i].stage = "fetching"
              /\ calls'[p][i].account = Covered(p)[i].account
              /\ \A j \in Calls : j # i => calls'[p][j] = Covered(p)[j]
          BY <1>0, <3>1, <4>1 DEF Call
        <4> QED
          BY <1>0, <4>2, CoveredCalls
      <3>2. CASE calls' = [calls EXCEPT ![p][i].stage = "fetching", ![p][i].onTop = FALSE]
        BY <1>0, <3>2 DEF Call
      <3> QED
        BY <1>6, <3>1, <3>2 DEF SignInCompleted
    <2>3. user[p].userIdToken \in {Nil, a}
      BY <2>1, <2>2 DEF LateAnswer
    <2>4. /\ user'[p] = setUserIdToken(user[p], a)
          /\ defaults'[p] = setUserIdToken(defaults[p], a)
      BY <1>0, <1>6 DEF SignInCompleted, SavedToken
    <2>5. screen[p].vc \notin Dead \cup {"Start"}
      BY <1>0, <2>1 DEF Waits
    <2>6. defaults[p].userIdToken \in {Nil, a}
      BY <1>0, <2>3, <2>5 DEF Waits, Safe
    <2>7. ASSUME NEW s \in Session, Own(s), s.userIdToken \in {Nil, a}
          PROVE  Own(setUserIdToken(s, a)) /\ setUserIdToken(s, a).userIdToken = a
      BY <2>1, <2>7 DEF Own, setUserIdToken, Session
    <2>8. Own(user'[p]) /\ Own(defaults'[p]) /\ user'[p].userIdToken = a
      BY <1>0, <2>3, <2>4, <2>6, <2>7 DEF OwnPhone
    <2>9. OwnScreen(p)'
      <3>1. CASE screen' = screen
        <4>1. screen[p].vc = "newProfile" => user[p].userIdToken = a
          BY <1>0, <2>3 DEF Safe
        <4> QED
          BY <2>8, <3>1, <4>1 DEF OwnPhone, OwnScreen
      <3>2. CASE \E vc \in Controllers : Present(p, vc)
        <4>1. user'[p] \in Session
          BY <1>0, <2>1, <2>4, SessionTypes DEF Call
        <4> QED
          BY <1>0, <2>8, <3>2, <4>1, PresentOwn
      <3> QED
        BY <1>6, <3>1, <3>2 DEF SignInCompleted, Controllers
    <2>10. \A j \in Calls : OwnDocument(calls'[p][j].account, calls'[p][j].data)
      BY <2>2 DEF OwnPhone
    <2> QED
      BY <2>8, <2>9, <2>10 DEF OwnPhone
  <1> QED
    BY <1>3, <1>4, <1>5, <1>6 DEF SignIn

(* What the handlers write is the author's own: the form's profile is the token's,
   a code's writes hold none. *)
LEMMA HandlerWritesOwn ==
    /\ \A a \in Accounts : OwnWrite(addData("users", a, uploadData(a)))
    /\ \A u \in Session, c \in Codes : \A k \in DOMAIN CodeWrites(u, c) : OwnWrite(CodeWrites(u, c)[k])
  <1>1. \A a \in Accounts : OwnWrite(addData("users", a, uploadData(a)))
    BY DEF OwnWrite, addData, uploadData, OwnDocument
  <1>2. ASSUME NEW u \in Session, NEW c \in Codes, NEW k \in DOMAIN CodeWrites(u, c)
        PROVE  OwnWrite(CodeWrites(u, c)[k])
    <2> DEFINE S == {w \in Writes : OwnWrite(w)}
               w1 == removeData("connection", lastConnectionCode(u))
               w2 == addData("connection", c, u.userIdToken)
               w3 == addSingleData("users", u.userIdToken, c)
    <2>1. lastConnectionCode(u) # Nil => w1 \in S
      BY DEF lastConnectionCode, CodeOf, Session, UserData, Writes, OwnWrite, removeData
    <2>2. u.userIdToken # Nil => w2 \in S /\ w3 \in S
      BY DEF Session, Writes, OwnWrite, addData, addSingleData
    <2>3. CodeWrites(u, c) = (IF lastConnectionCode(u) = Nil THEN <<>> ELSE <<w1>>)
                             \o (IF u.userIdToken = Nil THEN <<>> ELSE <<w2, w3>>)
      BY DEF CodeWrites
    <2> HIDE DEF S, w1, w2, w3
    <2>4. CodeWrites(u, c) \in Seq(S)
      BY <2>1, <2>2, <2>3
    <2>5. CodeWrites(u, c)[k] \in S
      BY <2>4, Element
    <2> QED
      BY <2>5 DEF S
  <1> QED
    BY <1>1, <1>2

(* The profile of the form is the token's. *)
LEMMA TypedOwn ==
    ASSUME TypeOK, NEW p \in Phones, OwnPhone(p), NEW profile, profile \in Typed(p),
           On(p, "newProfile")
    PROVE  profile = user[p].userIdToken
  BY DEF OwnPhone, OwnScreen, Typed, On

(* A part of a handler's writes is as good as all of them. *)
LEMMA PrefixOwn ==
    ASSUME NEW writes \in Seq(Writes), \A k \in DOMAIN writes : OwnWrite(writes[k]),
           NEW n \in 1 .. Len(writes) - 1
    PROVE  /\ SubSeq(writes, 1, n) \in Seq(Writes)
           /\ \A k \in DOMAIN SubSeq(writes, 1, n) : OwnWrite(SubSeq(writes, 1, n)[k])
  <1>1. n \in Nat /\ n <= Len(writes) /\ DOMAIN writes = 1 .. Len(writes)
    OBVIOUS
  <1>2. /\ SubSeq(writes, 1, n) \in Seq(Writes) /\ DOMAIN SubSeq(writes, 1, n) = 1 .. n
        /\ \A k \in 1 .. n : SubSeq(writes, 1, n)[k] = writes[k]
    BY <1>1
  <1>3. \A k \in 1 .. n : k \in DOMAIN writes
    BY <1>1
  <1> QED
    BY <1>2, <1>3

(* The handlers of a phone keep its accounts apart, and its queues'. *)
LEMMA HandlersOwn ==
    ASSUME WaitsInv, OwnServer, NEW p \in Phones, OwnPhone(p),
           \/ goToNextStorybaord(p) \/ backToSignIn(p) \/ backToProfile(p)
           \/ \E a \in Accounts : finishWritingProfile(p, a)
           \/ \E c \in Draws[p] : getConnectionCode(p, c)
    PROVE  OwnPhone(p)' /\ OwnServer'
  <1>0. /\ TypeOK /\ DBTypeOK /\ Waits(p) /\ Safe(p) /\ calls \in [Phones -> [Calls -> Call]]
        /\ user \in [Phones -> Session] /\ screen \in [Phones -> Screen]
        /\ defaults \in [Phones -> Session] /\ user[p] \in Session /\ defaults[p] \in Session
        /\ Own(user[p]) /\ Own(defaults[p])
    BY WaitsTypes DEF TypeOK, OwnPhone
  <1>1. Own(EmptySession) /\ EmptySession \in Session
    BY SessionTypes DEF Own, EmptySession
  <1>2. ASSUME NEW vc, Present(p, vc), user'[p] \in Session, Own(user'[p]), Own(defaults'[p]),
               calls' = calls \/ calls' = [calls EXCEPT ![p] = Covered(p)]
        PROVE  OwnPhone(p)'
    BY <1>0, <1>2, PresentOwn, CoveredOwn DEF OwnPhone
  <1>3. ASSUME UNCHANGED <<pending, users>> PROVE OwnServer'
    BY <1>3 DEF OwnServer
  <1>4. CASE goToNextStorybaord(p)
    <2> DEFINE d == defaults[p]
    <2>1. user[p] = EmptySession
      BY <1>0, <1>4 DEF goToNextStorybaord, On, Waits
    <2>2. Remembered(EmptySession, d) \in Session
      BY <1>0, <1>1, SessionTypes DEF Remembered, Session
    <2>3. Own(Remembered(EmptySession, d))
      BY <1>0, <1>1 DEF Remembered, EmptySession, Own, setUserIdToken, setUserData,
         setConnectionToken
    <2>4. user'[p] = Remembered(EmptySession, d) /\ UNCHANGED <<defaults, calls, pending, users>>
      BY <1>0, <1>4, <2>1 DEF goToNextStorybaord, dbVars
    <2> QED
      BY <1>0, <1>2, <1>3, <1>4, <2>2, <2>3, <2>4 DEF goToNextStorybaord
  <1>5. CASE backToSignIn(p)
    <2>1. user'[p] = EmptySession /\ defaults'[p] = EmptySession /\ UNCHANGED <<pending, users>>
      BY <1>0, <1>5 DEF backToSignIn, clean, SetAuth, dbVars
    <2> QED
      BY <1>1, <1>2, <1>3, <1>5, <2>1 DEF backToSignIn
  <1>6. CASE backToProfile(p)
    BY <1>0, <1>2, <1>3, <1>6 DEF backToProfile, dbVars
  <1>7. ASSUME NEW profile \in Accounts, finishWritingProfile(p, profile)
        PROVE  OwnPhone(p)' /\ OwnServer'
    <2> DEFINE a == user[p].userIdToken
               data == uploadData(profile)
               w == addData("users", a, data)
    <2>1. profile = a /\ a \in Accounts
      BY <1>0, <1>7, TypedOwn DEF finishWritingProfile
    <2>2. <<w>> \in Seq(Writes) /\ \A k \in DOMAIN <<w>> : OwnWrite(<<w>>[k])
      <3>1. <<w>> \in Seq(Writes) /\ OwnWrite(w)
        BY <2>1, HandlerWrites, HandlerWritesOwn
      <3> HIDE DEF w
      <3> QED
        BY <3>1
    <2>3. OwnServer'
      <3>1. Enqueue(p, <<w>>)
        BY <1>7 DEF finishWritingProfile
      <3> HIDE DEF w
      <3> QED
        BY <1>0, <2>2, <3>1, EnqueueOwn
    <2>4. defaults[p].userIdToken = a /\ a # Nil
      BY <1>0, <1>7 DEF finishWritingProfile, Safe
    <2>5. user'[p] = setUserData(user[p], data) /\ defaults'[p] = setUserData(defaults[p], data)
      BY <1>0, <1>7 DEF finishWritingProfile
    <2>6. ASSUME NEW s \in Session, s.userIdToken = a PROVE Own(setUserData(s, data))
      BY <2>1, <2>4, <2>6 DEF setUserData, uploadData, Own, Session
    <2>7. Own(user'[p]) /\ Own(defaults'[p])
      BY <1>0, <2>4, <2>5, <2>6
    <2>8. user'[p] \in Session
      BY <1>0, <2>1, <2>5, SessionTypes, HandlerWrites
    <2>9. Present(p, "makeNewConnect") /\ calls' = [calls EXCEPT ![p] = Covered(p)]
      BY <1>7 DEF finishWritingProfile
    <2> QED
      BY <1>2, <2>3, <2>7, <2>8, <2>9
  <1>8. ASSUME NEW c \in Draws[p], getConnectionCode(p, c) PROVE OwnPhone(p)' /\ OwnServer'
    <2>1. c \in Codes
      BY <1>8, StartFlowAssumption
    <2>2. OwnServer'
      <3>1. Enqueue(p, CodeWrites(user[p], c))
        BY <1>8 DEF getConnectionCode
      <3> QED
        BY <1>0, <2>1, <3>1, EnqueueOwn, HandlerWrites, HandlerWritesOwn
    <2>3. CASE CodeTraps(user[p])
      BY <1>0, <1>8, <2>2, <2>3, DieOwn DEF getConnectionCode, Dead
    <2>4. CASE ~CodeTraps(user[p])
      <3>1. /\ user'[p] = setSingleUserData(user[p], c) /\ defaults' = defaults /\ calls' = calls
            /\ screen'[p].vc = "makeNewConnect"
        BY <1>0, <1>8, <2>4 DEF getConnectionCode, On, Screen
      <3>2. user[p].userIdToken # Nil
        BY <2>4 DEF CodeTraps
      <3>3. Own(setSingleUserData(user[p], c))
        BY <1>0, <3>2 DEF Own, setSingleUserData, Session
      <3> QED
        BY <1>0, <2>2, <3>1, <3>3 DEF OwnPhone, OwnScreen
    <2> QED
      BY <2>3, <2>4
  <1> QED
    BY <1>4, <1>5, <1>6, <1>7, <1>8

(* A kill inside a handler, or between two, as long as signOut is not the one. *)
LEMMA KillsOwn ==
    ASSUME WaitsInv, OwnServer, NEW p \in Phones, OwnPhone(p), ~HalfSignedOut(p),
           \/ KilledInSignOut(p) \/ Killed(p) \/ Launch(p)
           \/ \E a \in Accounts : KilledInFinish(p, a)
           \/ \E c \in Draws[p] : KilledInGetCode(p, c)
    PROVE  OwnPhone(p)' /\ OwnServer'
  <1>0. /\ TypeOK /\ DBTypeOK /\ Waits(p) /\ Safe(p)
        /\ defaults \in [Phones -> Session] /\ defaults[p] \in Session
        /\ user[p] \in Session /\ screen \in [Phones -> Screen]
        /\ Own(user[p]) /\ Own(defaults[p])
    BY WaitsTypes DEF TypeOK, OwnPhone
  <1>1. ASSUME UNCHANGED <<pending, users>> PROVE OwnServer'
    BY <1>1 DEF OwnServer
  <1>2. ASSUME Die(p, "Killed"), Own(defaults'[p]) PROVE OwnPhone(p)'
    BY <1>0, <1>2, DieOwn DEF Dead
  <1>3. CASE Killed(p)
    BY <1>0, <1>1, <1>2, <1>3 DEF Killed, dbVars
  <1>4. CASE Launch(p)
    <2>1. screen'[p].vc = "Start" /\ UNCHANGED <<user, defaults, calls, pending, users>>
      BY <1>0, <1>4 DEF Launch, Loaded
    <2> QED
      BY <1>1, <2>1 DEF OwnPhone, OwnScreen
  <1>5. CASE KilledInSignOut(p)
    <2>1. PICK token \in {defaults[p].userIdToken, Nil}, data \in {defaults[p].userData, Nil} :
             defaults' = [defaults EXCEPT ![p].userIdToken = token, ![p].userData = data]
      BY <1>5 DEF KilledInSignOut
    <2>2. defaults'[p].userIdToken = token /\ defaults'[p].userData = data
      BY <1>0, <2>1 DEF Session
    <2>3. Alive(p) /\ ~Alive(p)'
      <3>1. screen'[p].vc = "Killed" /\ screen[p].vc = "newProfile"
        BY <1>0, <1>5 DEF KilledInSignOut, Die, Loaded, On
      <3> QED
        BY <3>1 DEF Alive, Dead
    <2>4. token = defaults[p].userIdToken
      BY <2>1, <2>2, <2>3 DEF HalfSignedOut
    <2>5. Own(defaults'[p])
      BY <1>0, <2>1, <2>2, <2>4 DEF Own
    <2> QED
      BY <1>1, <1>2, <1>5, <2>5 DEF KilledInSignOut, dbVars
  <1>6. ASSUME NEW profile \in Accounts, KilledInFinish(p, profile)
        PROVE  OwnPhone(p)' /\ OwnServer'
    <2> DEFINE a == user[p].userIdToken
               data == uploadData(profile)
               w == addData("users", a, data)
    <2>1. profile = a /\ a \in Accounts
      BY <1>0, <1>6, TypedOwn DEF KilledInFinish
    <2>2. <<w>> \in Seq(Writes) /\ \A k \in DOMAIN <<w>> : OwnWrite(<<w>>[k])
      <3>1. <<w>> \in Seq(Writes) /\ OwnWrite(w)
        BY <2>1, HandlerWrites, HandlerWritesOwn
      <3> HIDE DEF w
      <3> QED
        BY <3>1
    <2>3. OwnServer'
      <3>1. Enqueue(p, <<w>>) \/ UNCHANGED dbVars
        BY <1>6 DEF KilledInFinish
      <3> HIDE DEF w
      <3> QED
        BY <1>0, <1>1, <2>2, <3>1, EnqueueOwn DEF dbVars
    <2>4. defaults[p].userIdToken = a /\ a # Nil
      BY <1>0, <1>6 DEF KilledInFinish, Safe
    <2>5. defaults'[p] = setUserData(defaults[p], data) \/ defaults'[p] = defaults[p]
      BY <1>0, <1>6 DEF KilledInFinish
    <2>6. Own(setUserData(defaults[p], data))
      BY <1>0, <2>1, <2>4 DEF setUserData, uploadData, Own, Session
    <2>7. Own(defaults'[p])
      BY <1>0, <2>5, <2>6
    <2> QED
      BY <1>2, <1>6, <2>3, <2>7 DEF KilledInFinish
  <1>7. ASSUME NEW c \in Draws[p], KilledInGetCode(p, c) PROVE OwnPhone(p)' /\ OwnServer'
    <2> DEFINE writes == CodeWrites(user[p], c)
    <2>1. c \in Codes
      BY <1>7, StartFlowAssumption
    <2>2. writes \in Seq(Writes) /\ \A k \in DOMAIN writes : OwnWrite(writes[k])
      BY <1>0, <2>1, HandlerWrites, HandlerWritesOwn
    <2>3. PICK n \in 1 .. Len(writes) - 1 : Enqueue(p, SubSeq(writes, 1, n))
      BY <1>7 DEF KilledInGetCode
    <2> HIDE DEF writes
    <2>4. OwnServer'
      BY <1>0, <2>2, <2>3, PrefixOwn, EnqueueOwn
    <2> QED
      BY <1>0, <1>2, <1>7, <2>4 DEF KilledInGetCode
  <1> QED
    BY <1>3, <1>4, <1>5, <1>6, <1>7
-----------------------------------------------------------------------------
(* A step that is no race, from a state that mixes no accounts, leads to one. *)
LEMMA NextOwn ==
    ASSUME WaitsInv, Next, NothingForeign,
           \A p \in Phones : ~LateAnswer(p) /\ ~HalfSignedOut(p)
    PROVE  NothingForeign'
  <1>0. /\ OwnServer /\ \A p \in Phones : OwnPhone(p)
        /\ TypeOK /\ DBTypeOK /\ calls \in [Phones -> [Calls -> Call]]
        /\ user \in [Phones -> Session] /\ defaults \in [Phones -> Session]
        /\ screen \in [Phones -> Screen]
    BY OwnParts DEF WaitsInv, SafeInv, TypeOK
  <1>1. ASSUME NEW p \in Phones, OwnPhone(p)', OwnServer', Framed(p) PROVE NothingForeign'
    <2>1. \A q \in Phones \ {p} : OwnPhone(q)'
      BY <1>0, <1>1 DEF Framed, OwnPhone, OwnScreen
    <2> QED
      BY <1>1, <2>1, OwnParts
  <1>2. ASSUME UNCHANGED phoneVars, OwnServer' PROVE NothingForeign'
    <2>1. \A p \in Phones : OwnPhone(p)'
      BY <1>0, <1>2 DEF phoneVars, OwnPhone, OwnScreen
    <2> QED
      BY <1>2, <2>1, OwnParts
  <1>3. ASSUME UNCHANGED <<pending, users>> PROVE OwnServer'
    BY <1>0, <1>3 DEF OwnServer
  <1>4. ASSUME NEW p \in Phones, NEW i \in Calls, SignIn(p, i) PROVE NothingForeign'
    <2>1. OwnPhone(p)'
      BY <1>0, <1>4, SignInOwn
    <2>2. UNCHANGED <<pending, users>>
      BY <1>4 DEF SignIn, googleSignIn, GoogleAnswered, SignInFailed, FirebaseAuthenticated,
         SignInCompleted, ProfileAnswered, ProfileUnavailable, ProfileDelivered, SetAuth, dbVars
    <2>3. Framed(p)
      <3>1. CASE ProfileAnswered(p, i)
        <4>1. PICK data \in UserData :
                 calls' = [calls EXCEPT ![p][i].stage = "fetched", ![p][i].data = data]
          BY <3>1 DEF ProfileAnswered
        <4> QED
          BY <1>0, <3>1, <4>1 DEF ProfileAnswered, Framed
      <3>2. CASE SignInCompleted(p, i)
        BY <1>0, <3>2 DEF SignInCompleted, Present, Framed
      <3>3. CASE ~ProfileAnswered(p, i) /\ ~SignInCompleted(p, i)
        BY <1>0, <1>4, <3>3 DEF SignIn, googleSignIn, GoogleAnswered, SignInFailed,
           FirebaseAuthenticated, ProfileUnavailable, ProfileDelivered, Framed
      <3> QED
        BY <3>1, <3>2, <3>3
    <2> QED
      BY <1>1, <1>3, <2>1, <2>2, <2>3
  <1>5. ASSUME NEW p \in Phones,
               \/ goToNextStorybaord(p) \/ backToSignIn(p) \/ backToProfile(p)
               \/ \E a \in Accounts : finishWritingProfile(p, a)
               \/ \E c \in Draws[p] : getConnectionCode(p, c)
        PROVE  NothingForeign'
    <2>1. OwnPhone(p)' /\ OwnServer'
      BY <1>0, <1>5, HandlersOwn
    <2>2. Framed(p)
      BY <1>0, <1>5 DEF goToNextStorybaord, backToSignIn, backToProfile, finishWritingProfile,
         getConnectionCode, Die, Present, Framed
    <2> QED
      BY <1>1, <2>1, <2>2
  <1>6. ASSUME NEW p \in Phones,
               \/ KilledInSignOut(p) \/ Killed(p) \/ Launch(p)
               \/ \E a \in Accounts : KilledInFinish(p, a)
               \/ \E c \in Draws[p] : KilledInGetCode(p, c)
        PROVE  NothingForeign'
    <2>1. OwnPhone(p)' /\ OwnServer'
      BY <1>0, <1>6, KillsOwn
    <2>2. Framed(p)
      BY <1>0, <1>6 DEF KilledInSignOut, Killed, KilledInFinish, KilledInGetCode, Launch, Die,
         Framed
    <2> QED
      BY <1>1, <2>1, <2>2
  <1>7. ASSUME NEW p \in Phones,
               \/ Sent(p) \/ Answered(p) \/ Refused(p) \/ Resent(p) \/ Storage(p)
               \/ signOutByForce(p)
        PROVE  NothingForeign'
    <2>1. UNCHANGED phoneVars
      BY <1>7 DEF Sent, Answered, Refused, Resent, Storage, signOutByForce
    <2>2. \/ Commit(p) \/ Acknowledge(p) \/ Reject(p)
          \/ UNCHANGED <<pending, users>>
      BY <1>7 DEF Sent, Answered, Refused, Resent, Storage, signOutByForce, SetAuth, Reconnect,
         dbVars
    <2>3. OwnServer'
      BY <1>0, <1>3, <2>2, CommitOwn, TailOwn
    <2> QED
      BY <1>2, <2>1, <2>3
  <1> QED
    BY <1>4, <1>5, <1>6, <1>7 DEF Next, PhoneStep

(* One account's profile gets under another one in two ways only, on any number of
   phones, for any number of accounts and overlapping sign-ins: a completion that
   arrives for an account which is not the one in memory, or a kill half way through
   signOut. *)
THEOREM OnlyRacesMixAccounts == Spec => ForeignOnlyByRace
  <1>1. WaitsInv /\ [Next]_vars => WaitsInv'
    BY NextWaits
  <1>2. ASSUME WaitsInv, [Next]_vars
        PROVE  [NothingForeign /\ ~NothingForeign' =>
                   \E p \in Phones : LateAnswer(p) \/ HalfSignedOut(p)]_vars
    BY <1>2, NextOwn
  <1> QED
    BY <1>1, <1>2, InitWaits, PTL DEF Spec, ForeignOnlyByRace
=============================================================================
