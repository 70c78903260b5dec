---------------------------- MODULE AppDBProofs ----------------------------
(***************************************************************************)
(* Every step of the Firestore writes keeps DBTypeOK: the queues hold      *)
(* writes the app makes, no more writes await an answer than are queued,   *)
(* and a user whose writes are refused has none committed.  After that,    *)
(* what a queue promises the documents its writes name, kept by every step *)
(* of the queue: the facts the start flow's claims about the server need.  *)
(***************************************************************************)
EXTENDS AppDB, SequenceTheorems, TLAPS

(* An element of a sequence of writes is a write. *)
LEMMA Element ==
    ASSUME NEW S, NEW s \in Seq(S), NEW i \in 1 .. Len(s)
    PROVE  s[i] \in S
  OBVIOUS

(* What kinds of write there are. *)
LEMMA WriteCases ==
    ASSUME NEW w \in Writes
    PROVE  \/ /\ w.collection = "users" /\ w.id \in Accounts
              /\ \/ w.op = "addData" /\ w.data \in UserData
                 \/ w.op = "addSingleData" /\ w.data \in Codes
           \/ /\ w.collection = "connection" /\ w.id \in Codes
              /\ \/ w.op = "addData" /\ w.data \in Accounts
                 \/ w.op = "removeData" /\ w.data = Nil
  BY DEF Writes, addData, addSingleData, removeData

(* A write leaves a document of its collection, or none. *)
LEMMA WrittenUser ==
    ASSUME NEW w \in Writes, w.collection = "users", NEW document \in UserData \cup {Nil}
    PROVE  w.id \in Accounts /\ Written(w, document) \in UserData \cup {Nil}
  BY WriteCases DEF Written, UserData

(* What a write to a connection document leaves of it is an account or
   nothing. *)
LEMMA WrittenConnection ==
    ASSUME NEW w \in Writes, w.collection # "users", NEW document \in Accounts \cup {Nil}
    PROVE  w.id \in Codes /\ Written(w, document) \in Accounts \cup {Nil}
  BY WriteCases DEF Written

(* The queues start empty and the documents well typed. *)
LEMMA InitDB ==
    ASSUME NEW registered \in SUBSET Accounts, DBInit(registered)
    PROVE  DBTypeOK
  BY DEF DBInit, DBTypeOK, AuthUsers, UserData

(* A handler's writes join the queue; what was sent stays a prefix of it. *)
LEMMA EnqueueDB ==
    ASSUME DBTypeOK, NEW p \in Phones, NEW writes \in Seq(Writes), Enqueue(p, writes)
    PROVE  DBTypeOK'
  <1> USE DEF DBTypeOK, Enqueue
  <1> DEFINE old == pending[p][auth[p]]
  <1>1. old \in Seq(Writes) /\ old \o writes \in Seq(Writes)
        /\ Len(old \o writes) = Len(old) + Len(writes) /\ Len(writes) \in Nat
    OBVIOUS
  <1>2. pending' \in [Phones -> [AuthUsers -> Seq(Writes)]]
    BY <1>1
  <1>3. pending'[p][auth[p]] = old \o writes
        /\ \A q \in Phones : q # p => pending'[q] = pending[q]
    OBVIOUS
  <1>4. \A q \in Phones : committed[q] <= Len(pending'[q][auth[q]])
    BY <1>1, <1>3
  <1> QED
    BY <1>2, <1>4

(* The server applies a write that is on the queue to a document of its
   collection. *)
LEMMA CommitDB ==
    ASSUME DBTypeOK, NEW p \in Phones, Commit(p)
    PROVE  DBTypeOK'
  <1> USE DEF DBTypeOK
  <1> DEFINE w == pending[p][auth[p]][committed[p] + 1]
  <1>1. committed[p] + 1 \in 1 .. Len(pending[p][auth[p]])
    BY DEF Commit
  <1>2. w \in Writes
    <2>1. pending[p][auth[p]] \in Seq(Writes)
      OBVIOUS
    <2> QED
      BY <1>1, <2>1, Element, Zenon
  <1>3. users' \in [Accounts -> UserData \cup {Nil}]
    <2>1. CASE w.collection = "users"
      <3>1. users' = [users EXCEPT ![w.id] = Written(w, users[w.id])]
        BY <2>1 DEF Commit
      <3>2. w.id \in Accounts /\ Written(w, users[w.id]) \in UserData \cup {Nil}
        BY <1>2, <2>1, WriteCases, WrittenUser
      <3> HIDE DEF w
      <3> QED
        BY <3>1, <3>2
    <2>2. CASE w.collection # "users"
      BY <2>2 DEF Commit
    <2> QED
      BY <2>1, <2>2
  <1>4. connection' \in [Codes -> Accounts \cup {Nil}]
    <2>1. CASE w.collection = "users"
      BY <2>1 DEF Commit
    <2>2. CASE w.collection # "users"
      <3>1. connection' = [connection EXCEPT ![w.id] = Written(w, connection[w.id])]
        BY <2>2 DEF Commit
      <3>2. w.id \in Codes /\ Written(w, connection[w.id]) \in Accounts \cup {Nil}
        BY <1>2, <2>2, WriteCases, WrittenConnection
      <3> HIDE DEF w
      <3> QED
        BY <3>1, <3>2
    <2> QED
      BY <2>1, <2>2
  <1>5. committed' \in [Phones -> Nat] /\ UNCHANGED <<auth, pending>>
    BY DEF Commit
  <1>6. \A q \in Phones : /\ committed'[q] <= Len(pending[q][auth[q]])
                          /\ auth[q] \in Denied => committed'[q] = 0
    BY <1>1 DEF Commit
  <1> QED
    BY <1>3, <1>4, <1>5, <1>6

(* Taking the oldest write off the queue of the auth user. *)
LEMMA TailDB ==
    ASSUME DBTypeOK, NEW p \in Phones, pending[p][auth[p]] # <<>>,
           pending' = [pending EXCEPT ![p][auth[p]] = Tail(@)]
    PROVE  /\ pending' \in [Phones -> [AuthUsers -> Seq(Writes)]]
           /\ Len(pending'[p][auth[p]]) = Len(pending[p][auth[p]]) - 1
           /\ \A q \in Phones : q # p => pending'[q] = pending[q]
  <1> USE DEF DBTypeOK
  <1> DEFINE old == pending[p][auth[p]]
  <1>1. Tail(old) \in Seq(Writes) /\ Len(Tail(old)) = Len(old) - 1
    OBVIOUS
  <1> QED
    BY <1>1

(* The answer takes off the oldest write, which had been sent. *)
LEMMA AcknowledgeDB ==
    ASSUME DBTypeOK, NEW p \in Phones, Acknowledge(p)
    PROVE  DBTypeOK'
  <1> USE DEF DBTypeOK, Acknowledge
  <1>1. pending[p][auth[p]] # <<>>
    OBVIOUS
  <1>2. /\ pending' \in [Phones -> [AuthUsers -> Seq(Writes)]]
        /\ Len(pending'[p][auth[p]]) = Len(pending[p][auth[p]]) - 1
        /\ \A q \in Phones : q # p => pending'[q] = pending[q]
    BY <1>1, TailDB
  <1>3. committed' \in [Phones -> Nat] /\ committed'[p] = committed[p] - 1
        /\ \A q \in Phones : q # p => committed'[q] = committed[q]
    OBVIOUS
  <1>4. \A q \in Phones : /\ committed'[q] <= Len(pending'[q][auth[q]])
                          /\ auth[q] \in Denied => committed'[q] = 0
    BY <1>2, <1>3
  <1> QED
    BY <1>2, <1>3, <1>4

(* The client drops the oldest write of a refused user, for whom nothing was
   applied. *)
LEMMA RejectDB ==
    ASSUME DBTypeOK, NEW p \in Phones, Reject(p)
    PROVE  DBTypeOK'
  <1> USE DEF DBTypeOK, Reject
  <1>1. /\ pending' \in [Phones -> [AuthUsers -> Seq(Writes)]]
        /\ Len(pending'[p][auth[p]]) = Len(pending[p][auth[p]]) - 1
        /\ \A q \in Phones : q # p => pending'[q] = pending[q]
    BY TailDB
  <1>2. committed[p] = 0 /\ Len(pending'[p][auth[p]]) \in Nat
    BY <1>1
  <1> QED
    BY <1>1, <1>2

(* A broken stream only makes the client forget what it has sent. *)
LEMMA ReconnectDB ==
    ASSUME DBTypeOK, NEW p \in Phones, Reconnect(p)
    PROVE  DBTypeOK'
  BY DEF DBTypeOK, Reconnect

(* Another auth user starts with nothing sent. *)
LEMMA SetAuthDB ==
    ASSUME DBTypeOK, NEW p \in Phones, NEW u \in AuthUsers, SetAuth(p, u)
    PROVE  DBTypeOK'
  BY DEF DBTypeOK, SetAuth

(* Steps of the phone alone leave the types alone. *)
LEMMA StutterDB ==
    ASSUME DBTypeOK, UNCHANGED dbVars
    PROVE  DBTypeOK'
  BY DEF DBTypeOK, dbVars
-----------------------------------------------------------------------------
(***************************************************************************)
(* Profiles: what setData of a profile promises its document while writes  *)
(* wait, are applied, answered and sent again.                             *)
(***************************************************************************)
HasProfile(a) == users[a] # Nil /\ users[a].profile # Nil

GivesProfile(write, a) ==
    write.collection = "users" /\ write.op = "addData" /\ write.id = a

OnItsWay(a) ==
    \E p \in Phones, u \in AuthUsers :
        \E k \in DOMAIN pending[p][u] : GivesProfile(pending[p][u][k], a)

Backed(a) == HasProfile(a) \/ OnItsWay(a)

(* A document that is replaced is replaced by one with a profile. *)
Whole(write) ==
    write.collection = "users" /\ write.op = "addData" => write.data.profile # Nil

(* The writes the server has applied and the client still holds have had their
   effect, and nothing after them undoes it. *)
ProfilesInv ==
    /\ DBTypeOK
    /\ \A p \in Phones, u \in AuthUsers : \A k \in DOMAIN pending[p][u] : Whole(pending[p][u][k])
    /\ \A p \in Phones : \A k \in 1 .. committed[p] : \A a \in Accounts :
          GivesProfile(pending[p][auth[p]][k], a) => HasProfile(a)

(* The accounts registered elsewhere have their profile at the start. *)
LEMMA InitProfiles ==
    ASSUME NEW registered \in SUBSET Accounts, DBInit(registered)
    PROVE  ProfilesInv /\ \A a \in registered : HasProfile(a)
  <1>1. DBTypeOK
    BY InitDB
  <1>2. /\ \A a \in registered : users[a] = [profile |-> a, connectionCode |-> Nil]
        /\ \A p \in Phones, u \in AuthUsers : pending[p][u] = <<>>
        /\ \A p \in Phones : committed[p] = 0
    BY DEF DBInit
  <1>3. ASSUME NEW a \in registered PROVE HasProfile(a)
    <2>1. a \in Accounts /\ users[a] = [profile |-> a, connectionCode |-> Nil]
      BY <1>2
    <2>2. users[a] \in UserData /\ users[a].profile = a
      BY <2>1 DEF UserData
    <2> QED
      BY <2>1, <2>2, NilAssumption DEF HasProfile
  <1> QED
    BY <1>1, <1>2, <1>3 DEF ProfilesInv

(* What is queued stays queued, and what was applied stays applied. *)
LEMMA EnqueueProfiles ==
    ASSUME ProfilesInv, NEW p \in Phones, NEW writes \in Seq(Writes), Enqueue(p, writes),
           \A k \in DOMAIN writes : Whole(writes[k])
    PROVE  /\ ProfilesInv' /\ \A a \in Accounts : Backed(a) => Backed(a)'
           /\ \A k \in DOMAIN writes, a \in Accounts : GivesProfile(writes[k], a) => Backed(a)'
  <1> DEFINE old == pending[p][auth[p]]
             new == old \o writes
  <1>1. DBTypeOK' /\ DBTypeOK
    BY EnqueueDB DEF ProfilesInv
  <1>2. /\ pending \in [Phones -> [AuthUsers -> Seq(Writes)]] /\ auth[p] \in AuthUsers
        /\ old \in Seq(Writes) /\ committed \in [Phones -> Nat]
        /\ \A q \in Phones : committed[q] <= Len(pending[q][auth[q]])
    BY <1>1 DEF DBTypeOK
  <1>3. pending' = [pending EXCEPT ![p][auth[p]] = new] /\ UNCHANGED <<auth, committed, users>>
    BY DEF Enqueue
  <1>4. /\ pending'[p][auth[p]] = new
        /\ \A q \in Phones, u \in AuthUsers :
              <<q, u>> # <<p, auth[p]>> => pending'[q][u] = pending[q][u]
    BY <1>2, <1>3
  <1>5. /\ Len(old) \in Nat /\ Len(writes) \in Nat
        /\ DOMAIN old = 1 .. Len(old) /\ DOMAIN writes = 1 .. Len(writes)
        /\ DOMAIN new = 1 .. Len(old) + Len(writes)
        /\ \A k \in 1 .. Len(old) : k \in DOMAIN new /\ new[k] = old[k]
        /\ \A k \in DOMAIN new : \/ k \in DOMAIN old
                                \/ (k - Len(old) \in DOMAIN writes /\ new[k] = writes[k - Len(old)])
        /\ \A k \in DOMAIN writes : k + Len(old) \in DOMAIN new /\ new[k + Len(old)] = writes[k]
    BY <1>2
  <1> HIDE DEF new
  <1>6. ASSUME NEW q \in Phones, NEW u \in AuthUsers
        PROVE  /\ \A k \in DOMAIN pending[q][u] : k \in DOMAIN pending'[q][u] /\ pending'[q][u][k] = pending[q][u][k]
               /\ \A k \in DOMAIN pending'[q][u] : Whole(pending'[q][u][k])
    <2>1. \A k \in DOMAIN pending[q][u] : Whole(pending[q][u][k])
      BY DEF ProfilesInv
    <2>2. CASE q = p /\ u = auth[p]
      <3> HIDE DEF old
      <3>1. pending[q][u] = old /\ pending'[q][u] = new
        BY <1>4, <2>2 DEF old
      <3>2. ASSUME NEW k \in DOMAIN new PROVE Whole(new[k])
        BY <1>5, <2>1, <3>1, <3>2
      <3> QED
        BY <1>5, <3>1, <3>2
    <2>3. CASE <<q, u>> # <<p, auth[p]>>
      BY <1>4, <2>1, <2>3
    <2> QED
      BY <2>2, <2>3
  <1>7. \A a \in Accounts : (OnItsWay(a) => OnItsWay(a)') /\ (HasProfile(a) <=> HasProfile(a)')
    BY <1>3, <1>6 DEF OnItsWay, HasProfile
  <1>8. \A q \in Phones : \A k \in 1 .. committed'[q] : \A a \in Accounts :
          GivesProfile(pending'[q][auth'[q]][k], a) => HasProfile(a)'
    <2> SUFFICES ASSUME NEW q \in Phones, NEW k \in 1 .. committed[q], NEW a \in Accounts,
                        GivesProfile(pending'[q][auth[q]][k], a)
                 PROVE  HasProfile(a)'
      BY <1>3
    <2>1. auth[q] \in AuthUsers /\ pending[q][auth[q]] \in Seq(Writes)
      BY <1>1 DEF DBTypeOK
    <2>2. k \in DOMAIN pending[q][auth[q]]
      BY <1>2, <2>1
    <2>3. GivesProfile(pending[q][auth[q]][k], a)
      BY <1>6, <2>1, <2>2
    <2> QED
      BY <1>7, <2>3 DEF ProfilesInv
  <1>9. \A k \in DOMAIN writes, a \in Accounts : GivesProfile(writes[k], a) => OnItsWay(a)'
    <2> SUFFICES ASSUME NEW k \in DOMAIN writes, NEW a \in Accounts, GivesProfile(writes[k], a)
                 PROVE  \E q \in Phones, u \in AuthUsers :
                           \E j \in DOMAIN pending'[q][u] : GivesProfile(pending'[q][u][j], a)
      BY DEF OnItsWay
    <2>1. k + Len(old) \in DOMAIN pending'[p][auth[p]]
          /\ GivesProfile(pending'[p][auth[p]][k + Len(old)], a)
      BY <1>4, <1>5
    <2> QED
      BY <1>2, <2>1
  <1>10. ProfilesInv'
    BY <1>1, <1>6, <1>8 DEF ProfilesInv
  <1> QED
    BY <1>7, <1>9, <1>10 DEF Backed

(* An applied profile is there, and a merged code keeps it. *)
LEMMA CommitProfiles ==
    ASSUME ProfilesInv, NEW p \in Phones, Commit(p)
    PROVE  ProfilesInv' /\ \A a \in Accounts : Backed(a) => Backed(a)'
  <1> DEFINE queue == pending[p][auth[p]]
             w == queue[committed[p] + 1]
  <1>1. DBTypeOK' /\ DBTypeOK
    BY CommitDB DEF ProfilesInv
  <1>2. /\ queue \in Seq(Writes) /\ auth[p] \in AuthUsers /\ committed \in [Phones -> Nat]
        /\ users \in [Accounts -> UserData \cup {Nil}]
    BY <1>1 DEF DBTypeOK
  <1>3. /\ committed[p] + 1 \in DOMAIN queue
        /\ committed' = [committed EXCEPT ![p] = @ + 1] /\ UNCHANGED <<auth, pending>>
        /\ IF w.collection = "users" THEN users' = [users EXCEPT ![w.id] = Written(w, @)]
                                     ELSE users' = users
    BY <1>2 DEF Commit
  <1>4. w \in Writes /\ Whole(w)
    <2>1. w \in Writes
      BY <1>2, <1>3, Element
    <2> QED
      BY <1>2, <1>3, <2>1 DEF ProfilesInv
  <1> HIDE DEF w, queue
  <1>5. \A a \in Accounts : /\ HasProfile(a) => HasProfile(a)'
                            /\ GivesProfile(w, a) => HasProfile(a)'
    <2> SUFFICES ASSUME NEW a \in Accounts
                 PROVE  /\ HasProfile(a) => HasProfile(a)'
                        /\ GivesProfile(w, a) => HasProfile(a)'
      OBVIOUS
    <2>1. CASE w.collection = "users" /\ w.id = a
      <3>1. users'[a] = Written(w, users[a])
        BY <1>2, <1>3, <2>1
      <3>2. \/ w.op = "addData" /\ w.data \in UserData
            \/ w.op = "addSingleData" /\ w.data \in Codes
        BY <1>4, <2>1, WriteCases
      <3>3. CASE w.op = "addData"
        <4>1. users'[a] = w.data
          BY <3>1, <3>3 DEF Written
        <4>2. w.data # Nil /\ w.data.profile # Nil
          BY <1>4, <2>1, <3>2, <3>3, NilAssumption DEF Whole
        <4> QED
          BY <4>1, <4>2 DEF HasProfile
      <3>4. CASE w.op = "addSingleData"
        <4>1. users'[a] = [profile |-> IF users[a] = Nil THEN Nil ELSE users[a].profile,
                           connectionCode |-> w.data]
          BY <3>1, <3>4 DEF Written
        <4>2. HasProfile(a) => users'[a].profile # Nil /\ users'[a] \in UserData
          BY <1>2, <3>2, <3>4, <4>1 DEF HasProfile, UserData
        <4> QED
          BY <3>4, <4>2, NilAssumption DEF HasProfile, GivesProfile
      <3> QED
        BY <3>2, <3>3, <3>4
    <2>2. CASE ~(w.collection = "users" /\ w.id = a)
      <3>1. users'[a] = users[a]
        BY <1>2, <1>3, <2>2
      <3> QED
        BY <2>2, <3>1 DEF HasProfile, GivesProfile
    <2> QED
      BY <2>1, <2>2
  <1>6. \A q \in Phones : \A k \in 1 .. committed'[q] : \A a \in Accounts :
          GivesProfile(pending'[q][auth'[q]][k], a) => HasProfile(a)'
    <2> SUFFICES ASSUME NEW q \in Phones, NEW k \in 1 .. committed'[q], NEW a \in Accounts,
                        GivesProfile(pending[q][auth[q]][k], a)
                 PROVE  HasProfile(a)'
      BY <1>3
    <2>1. CASE k \in 1 .. committed[q]
      BY <1>5, <2>1 DEF ProfilesInv
    <2>2. CASE k \notin 1 .. committed[q]
      <3>1. q = p /\ k = committed[p] + 1
        BY <1>2, <1>3, <2>2
      <3> QED
        BY <1>5, <3>1 DEF w, queue
    <2> QED
      BY <2>1, <2>2
  <1>7. ProfilesInv'
    BY <1>1, <1>3, <1>6 DEF ProfilesInv
  <1> QED
    BY <1>3, <1>5, <1>7 DEF Backed, OnItsWay

(* The write that is answered has been applied. *)
LEMMA AcknowledgeProfiles ==
    ASSUME ProfilesInv, NEW p \in Phones, Acknowledge(p)
    PROVE  ProfilesInv' /\ \A a \in Accounts : Backed(a) => Backed(a)'
  <1> DEFINE old == pending[p][auth[p]]
  <1>1. DBTypeOK' /\ DBTypeOK
    BY AcknowledgeDB DEF ProfilesInv
  <1>2. /\ old \in Seq(Writes) /\ auth[p] \in AuthUsers /\ committed \in [Phones -> Nat]
        /\ pending \in [Phones -> [AuthUsers -> Seq(Writes)]]
        /\ \A q \in Phones : committed[q] <= Len(pending[q][auth[q]])
    BY <1>1 DEF DBTypeOK
  <1>3. /\ committed[p] > 0 /\ pending' = [pending EXCEPT ![p][auth[p]] = Tail(old)]
        /\ committed' = [committed EXCEPT ![p] = @ - 1] /\ UNCHANGED <<auth, users>>
    BY DEF Acknowledge
  <1>4. /\ pending'[p][auth[p]] = Tail(old)
        /\ \A q \in Phones, u \in AuthUsers :
              <<q, u>> # <<p, auth[p]>> => pending'[q][u] = pending[q][u]
    BY <1>2, <1>3
  <1>5. /\ Len(old) \in Nat \ {0} /\ DOMAIN old = 1 .. Len(old)
        /\ DOMAIN Tail(old) = 1 .. Len(old) - 1
        /\ \A k \in DOMAIN Tail(old) : k + 1 \in DOMAIN old /\ Tail(old)[k] = old[k + 1]
        /\ \A k \in DOMAIN old : k = 1 \/ (k - 1 \in DOMAIN Tail(old) /\ Tail(old)[k - 1] = old[k])
    BY <1>2, <1>3
  <1> HIDE DEF old
  <1>6. \A q \in Phones, u \in AuthUsers : \A k \in DOMAIN pending'[q][u] : Whole(pending'[q][u][k])
    <2> SUFFICES ASSUME NEW q \in Phones, NEW u \in AuthUsers, NEW k \in DOMAIN pending'[q][u]
                 PROVE  Whole(pending'[q][u][k])
      OBVIOUS
    <2>1. CASE q = p /\ u = auth[p]
      <3>1. k + 1 \in DOMAIN old /\ pending'[q][u][k] = old[k + 1]
        BY <1>4, <1>5, <2>1
      <3> QED
        BY <1>2, <3>1 DEF ProfilesInv, old
    <2>2. CASE <<q, u>> # <<p, auth[p]>>
      BY <1>4, <2>2 DEF ProfilesInv
    <2> QED
      BY <2>1, <2>2
  <1>7. \A a \in Accounts : HasProfile(a)' <=> HasProfile(a)
    BY <1>3 DEF HasProfile
  <1>8. ASSUME NEW a \in Accounts, OnItsWay(a) PROVE OnItsWay(a)' \/ HasProfile(a)
    <2>1. PICK q \in Phones, u \in AuthUsers : \E k \in DOMAIN pending[q][u] : GivesProfile(pending[q][u][k], a)
      BY <1>8 DEF OnItsWay
    <2>2. PICK k \in DOMAIN pending[q][u] : GivesProfile(pending[q][u][k], a)
      BY <2>1
    <2>3. CASE <<q, u>> # <<p, auth[p]>>
      <3>1. k \in DOMAIN pending'[q][u] /\ GivesProfile(pending'[q][u][k], a)
        BY <1>4, <2>2, <2>3
      <3> QED
        BY <3>1 DEF OnItsWay
    <2>4. CASE q = p /\ u = auth[p] /\ k = 1
      <3>1. 1 \in 1 .. committed[p] /\ GivesProfile(pending[p][auth[p]][1], a)
        BY <1>2, <1>3, <2>2, <2>4
      <3> QED
        BY <3>1 DEF ProfilesInv
    <2>5. CASE q = p /\ u = auth[p] /\ k # 1
      <3>1. k - 1 \in DOMAIN pending'[p][auth[p]] /\ GivesProfile(pending'[p][auth[p]][k - 1], a)
        BY <1>4, <1>5, <2>2, <2>5 DEF old
      <3> QED
        BY <1>2, <3>1 DEF OnItsWay
    <2> QED
      BY <2>3, <2>4, <2>5
  <1>9. \A q \in Phones : \A k \in 1 .. committed'[q] : \A a \in Accounts :
          GivesProfile(pending'[q][auth'[q]][k], a) => HasProfile(a)'
    <2> SUFFICES ASSUME NEW q \in Phones, NEW k \in 1 .. committed'[q], NEW a \in Accounts,
                        GivesProfile(pending'[q][auth[q]][k], a)
                 PROVE  HasProfile(a)
      BY <1>3, <1>7
    <2>1. CASE q = p
      <3>1. k + 1 \in 1 .. committed[p] /\ k \in DOMAIN Tail(old)
        BY <1>2, <1>3, <1>5, <2>1 DEF old
      <3>2. GivesProfile(pending[p][auth[p]][k + 1], a)
        BY <1>4, <1>5, <2>1, <3>1 DEF old
      <3> QED
        BY <3>1, <3>2 DEF ProfilesInv
    <2>2. CASE q # p
      <3>1. k \in 1 .. committed[q] /\ pending'[q][auth[q]] = pending[q][auth[q]]
        BY <1>1, <1>2, <1>3, <2>2 DEF DBTypeOK
      <3> QED
        BY <3>1 DEF ProfilesInv
    <2> QED
      BY <2>1, <2>2
  <1>10. ProfilesInv'
    BY <1>1, <1>6, <1>9 DEF ProfilesInv
  <1> QED
    BY <1>7, <1>8, <1>10 DEF Backed

(* A queue that is sent again, or another one that is sent, has no write applied. *)
LEMMA RestartProfiles ==
    ASSUME ProfilesInv, DBTypeOK', UNCHANGED <<pending, users>>,
           \A p \in Phones : committed'[p] = 0 \/ (committed'[p] = committed[p] /\ auth'[p] = auth[p])
    PROVE  ProfilesInv' /\ \A a \in Accounts : Backed(a) => Backed(a)'
  BY DEF ProfilesInv, Backed, HasProfile, OnItsWay
-----------------------------------------------------------------------------
(***************************************************************************)
(* Connection documents: where the auth user's queue leads one of them.    *)
(***************************************************************************)
Touches(write, c) == write.collection # "users" /\ write.id = c

TouchesLast(queue, k, c) ==
    Touches(queue[k], c) /\ \A j \in DOMAIN queue : j > k => ~Touches(queue[j], c)

(* Applied to the end, from wherever the server is, phone p's queue leaves c
   naming a. *)
Lands(p, c, a) ==
    LET queue == pending[p][auth[p]] IN
    /\ \A k \in DOMAIN queue :
          TouchesLast(queue, k, c) =>
              /\ queue[k] = addData("connection", c, a)
              /\ k <= committed[p] => connection[c] = a
    /\ (\A k \in DOMAIN queue : ~Touches(queue[k], c)) => connection[c] = a

(* Writes that end in a setData of c bring it there, whatever is queued. *)
LEMMA EnqueueLands ==
    ASSUME DBTypeOK, NEW p \in Phones, NEW writes \in Seq(Writes), Enqueue(p, writes),
           NEW c \in Codes, NEW a \in Accounts, NEW k \in DOMAIN writes,
           writes[k] = addData("connection", c, a),
           \A j \in DOMAIN writes : j > k => ~Touches(writes[j], c)
    PROVE  Lands(p, c, a)'
  <1> DEFINE old == pending[p][auth[p]]
             new == old \o writes
             n == Len(old)
  <1>1. /\ pending \in [Phones -> [AuthUsers -> Seq(Writes)]] /\ auth[p] \in AuthUsers
        /\ old \in Seq(Writes) /\ committed[p] \in Nat /\ committed[p] <= n
    BY DEF DBTypeOK
  <1>2. auth' = auth /\ committed' = committed /\ pending'[p][auth[p]] = new
    BY <1>1 DEF Enqueue
  <1>3. /\ n \in Nat /\ Len(writes) \in Nat /\ DOMAIN writes = 1 .. Len(writes)
        /\ DOMAIN new = 1 .. n + Len(writes)
        /\ \A j \in DOMAIN writes : j + n \in DOMAIN new /\ new[j + n] = writes[j]
        /\ \A j \in DOMAIN new : j > n => j - n \in DOMAIN writes /\ new[j] = writes[j - n]
    BY <1>1
  <1> HIDE DEF new, old, n
  <1>4. Touches(writes[k], c)
    BY DEF Touches, addData
  <1>5. ASSUME NEW j \in DOMAIN new, TouchesLast(new, j, c) PROVE j = k + n
    <2>1. ~(j < k + n)
      BY <1>3, <1>4, <1>5 DEF TouchesLast
    <2>2. ~(j > k + n)
      <3>1. j > k + n => j - n \in DOMAIN writes /\ new[j] = writes[j - n] /\ j - n > k
        BY <1>3
      <3> QED
        BY <1>5, <3>1 DEF TouchesLast
    <2> QED
      BY <1>3, <2>1, <2>2
  <1>6. k + n \in DOMAIN new /\ new[k + n] = addData("connection", c, a) /\ ~(k + n <= committed[p])
    BY <1>1, <1>3
  <1>7. Touches(new[k + n], c)
    BY <1>3, <1>4
  <1> QED
    BY <1>2, <1>5, <1>6, <1>7 DEF Lands

(* The write that is applied is the last one to touch c, or not. *)
LEMMA CommitLands ==
    ASSUME DBTypeOK, NEW p \in Phones, Commit(p), NEW c \in Codes, NEW a \in Accounts,
           Lands(p, c, a)
    PROVE  Lands(p, c, a)'
  <1> DEFINE queue == pending[p][auth[p]]
             n == committed[p] + 1
             w == queue[n]
  <1>1. /\ queue \in Seq(Writes) /\ committed \in [Phones -> Nat]
        /\ connection \in [Codes -> Accounts \cup {Nil}]
    BY DEF DBTypeOK
  <1>2. /\ n \in DOMAIN queue /\ committed'[p] = n /\ UNCHANGED <<auth, pending>>
        /\ IF w.collection = "users" THEN connection' = connection
           ELSE connection' = [connection EXCEPT ![w.id] = Written(w, @)]
    BY <1>1 DEF Commit
  <1>3. /\ \A k \in DOMAIN queue :
              TouchesLast(queue, k, c) =>
                  /\ queue[k] = addData("connection", c, a)
                  /\ k <= committed[p] => connection[c] = a
        /\ (\A k \in DOMAIN queue : ~Touches(queue[k], c)) => connection[c] = a
        /\ DOMAIN queue \subseteq Nat /\ n \in Nat /\ committed[p] \in Nat
    BY <1>1, <1>2 DEF Lands
  <1>4. Touches(w, c) => connection'[c] = Written(w, connection[c])
    BY <1>1, <1>2 DEF Touches
  <1>5. ~Touches(w, c) => connection'[c] = connection[c]
    BY <1>1, <1>2 DEF Touches
  <1>6. TouchesLast(queue, n, c) => connection'[c] = a
    <2>1. \A document : Written(addData("connection", c, a), document) = a
      BY DEF Written, addData
    <2> HIDE DEF w
    <2>2. TouchesLast(queue, n, c) => w = addData("connection", c, a) /\ Touches(w, c)
      BY <1>2, <1>3 DEF TouchesLast, w
    <2> QED
      BY <1>4, <2>1, <2>2
  <1>7. (\A k \in DOMAIN queue : ~Touches(queue[k], c)) => connection'[c] = a
    BY <1>2, <1>3, <1>5
  <1> HIDE DEF queue, w, n
  <1>8. ASSUME NEW k \in DOMAIN queue, TouchesLast(queue, k, c), k <= n PROVE connection'[c] = a
    <2>1. CASE k = n
      BY <1>6, <1>8, <2>1
    <2>2. CASE k # n
      <3>1. k < n /\ k <= committed[p]
        BY <1>3, <1>8, <2>2 DEF n
      <3>2. ~Touches(w, c)
        BY <1>2, <1>8, <3>1 DEF TouchesLast, w
      <3> QED
        BY <1>3, <1>5, <1>8, <3>1, <3>2
    <2> QED
      BY <2>1, <2>2
  <1> QED
    BY <1>2, <1>3, <1>7, <1>8 DEF Lands, queue

(* The write that is taken off the queue has been applied. *)
LEMMA AcknowledgeLands ==
    ASSUME DBTypeOK, NEW p \in Phones, Acknowledge(p), NEW c \in Codes, NEW a \in Accounts,
           Lands(p, c, a)
    PROVE  Lands(p, c, a)'
  <1> DEFINE old == pending[p][auth[p]]
             new == Tail(old)
  <1>1. /\ old \in Seq(Writes) /\ auth[p] \in AuthUsers /\ committed \in [Phones -> Nat]
        /\ pending \in [Phones -> [AuthUsers -> Seq(Writes)]] /\ committed[p] <= Len(old)
    BY DEF DBTypeOK
  <1>2. /\ committed[p] > 0 /\ committed[p] \in Nat /\ committed'[p] = committed[p] - 1
        /\ pending'[p][auth[p]] = new /\ auth' = auth /\ connection' = connection
    BY <1>1 DEF Acknowledge
  <1>3. /\ Len(old) \in Nat \ {0} /\ DOMAIN old = 1 .. Len(old) /\ DOMAIN new = 1 .. Len(old) - 1
        /\ \A k \in DOMAIN new : k \in Nat /\ k + 1 \in DOMAIN old /\ new[k] = old[k + 1]
        /\ \A k \in DOMAIN old : k = 1 \/ (k - 1 \in DOMAIN new /\ new[k - 1] = old[k])
    BY <1>1, <1>2
  <1>4. /\ \A k \in DOMAIN old :
              TouchesLast(old, k, c) =>
                  /\ old[k] = addData("connection", c, a)
                  /\ k <= committed[p] => connection[c] = a
        /\ (\A k \in DOMAIN old : ~Touches(old[k], c)) => connection[c] = a
    BY DEF Lands
  <1> HIDE DEF old, new
  <1>5. ASSUME NEW k \in DOMAIN new, TouchesLast(new, k, c) PROVE TouchesLast(old, k + 1, c)
    <2>1. ASSUME NEW j \in DOMAIN old, j > k + 1 PROVE ~Touches(old[j], c)
      <3>1. j - 1 \in DOMAIN new /\ new[j - 1] = old[j] /\ j - 1 > k
        BY <1>3, <2>1
      <3> QED
        BY <1>5, <3>1 DEF TouchesLast
    <2> QED
      BY <1>3, <1>5, <2>1 DEF TouchesLast
  <1>6. ASSUME NEW k \in DOMAIN new, TouchesLast(new, k, c)
        PROVE  /\ new[k] = addData("connection", c, a)
               /\ k <= committed[p] - 1 => connection[c] = a
    <2>1. k + 1 \in DOMAIN old /\ new[k] = old[k + 1] /\ k \in Nat
          /\ (k <= committed[p] - 1 => k + 1 <= committed[p])
      BY <1>2, <1>3
    <2> QED
      BY <1>4, <1>5, <1>6, <2>1
  <1>7. ASSUME \A k \in DOMAIN new : ~Touches(new[k], c) PROVE connection[c] = a
    <2>1. \A k \in DOMAIN old : k # 1 => ~Touches(old[k], c)
      BY <1>3, <1>7
    <2>2. 1 \in DOMAIN old /\ 1 <= committed[p] /\ \A j \in DOMAIN old : j > 1 => j # 1
      BY <1>2, <1>3
    <2>3. Touches(old[1], c) => TouchesLast(old, 1, c)
      BY <2>1, <2>2 DEF TouchesLast
    <2> QED
      BY <1>4, <2>1, <2>2, <2>3
  <1> QED
    BY <1>2, <1>6, <1>7 DEF Lands, new

(* A queue that is sent again leads where it led. *)
LEMMA ReconnectLands ==
    ASSUME DBTypeOK, NEW p \in Phones, Reconnect(p), NEW c \in Codes, NEW a \in Accounts,
           Lands(p, c, a)
    PROVE  Lands(p, c, a)'
  <1> DEFINE queue == pending[p][auth[p]]
  <1>1. queue \in Seq(Writes) /\ committed'[p] = 0 /\ UNCHANGED <<auth, pending, connection>>
    BY DEF DBTypeOK, Reconnect
  <1>2. \A k \in DOMAIN queue : ~(k <= 0)
    BY <1>1
  <1> QED
    BY <1>1, <1>2 DEF Lands
-----------------------------------------------------------------------------
(***************************************************************************)
(* Users documents: where an account's queue leads its connectionCode.     *)
(***************************************************************************)
PointsBack(a) ==
    users[a] # Nil /\ users[a].connectionCode # Nil => connection[users[a].connectionCode] = a

(* The queue ends in a form, which takes the code away. *)
EndsInForm(p, a) ==
    LET queue == pending[p][a]
        n == Len(queue)
    IN  /\ \E d \in UserData : queue[n] = addData("users", a, d) /\ d.connectionCode = Nil
        /\ committed[p] >= n => users[a].connectionCode = Nil

(* It ends in a code, which is set first and merged next. *)
EndsInCode(p, a, c) ==
    LET queue == pending[p][a]
        n == Len(queue)
    IN  /\ queue[n] = addSingleData("users", a, c)
        /\ n > 1 => queue[n - 1] = addData("connection", c, a)
        /\ committed[p] >= n - 1 => connection[c] = a
        /\ committed[p] >= n => users[a].connectionCode = c

Ends(p, a) ==
    IF pending[p][a] = <<>> THEN PointsBack(a)
    ELSE EndsInForm(p, a) \/ \E c \in Codes : EndsInCode(p, a, c)

(* A handler's writes end the queue they join as they end themselves. *)
LEMMA EnqueueEnds ==
    ASSUME DBTypeOK, NEW p \in Phones, NEW a \in Accounts, auth[p] = a,
           NEW writes \in Seq(Writes), Enqueue(p, writes),
           LET n == Len(writes) IN
           \/ /\ n = 1
              /\ \E d \in UserData : writes[1] = addData("users", a, d) /\ d.connectionCode = Nil
           \/ /\ n > 1
              /\ \E c \in Codes : /\ writes[n] = addSingleData("users", a, c)
                                  /\ writes[n - 1] = addData("connection", c, a)
    PROVE  Ends(p, a)'
  <1> DEFINE old == pending[p][a]
             new == old \o writes
             n == Len(writes)
             m == Len(old)
  <1>1. /\ pending \in [Phones -> [AuthUsers -> Seq(Writes)]] /\ a \in AuthUsers
        /\ old \in Seq(Writes) /\ committed[p] \in Nat /\ committed[p] <= m
    BY DEF DBTypeOK
  <1>2. committed' = committed /\ pending'[p][a] = new
    BY <1>1 DEF Enqueue
  <1>3. /\ m \in Nat /\ n \in Nat /\ Len(new) = m + n
        /\ \A j \in 1 .. n : new[m + j] = writes[j]
        /\ (n > 0 => new # <<>>)
    <2>1. m \in Nat /\ n \in Nat /\ Len(new) = m + n /\ \A j \in 1 .. n : new[m + j] = writes[j]
      BY <1>1
    <2>2. Len(<<>>) = 0
      OBVIOUS
    <2> HIDE DEF new, m, n
    <2> QED
      BY <2>1, <2>2
  <1> HIDE DEF new, m, n
  <1>4. CASE n = 1 /\ \E d \in UserData : writes[1] = addData("users", a, d) /\ d.connectionCode = Nil
    <2>1. new[Len(new)] = writes[1] /\ ~(committed[p] >= Len(new)) /\ new # <<>>
      BY <1>1, <1>3, <1>4
    <2> QED
      BY <1>2, <1>4, <2>1 DEF Ends, EndsInForm
  <1>5. ASSUME n > 1, NEW c \in Codes, writes[n] = addSingleData("users", a, c),
               writes[n - 1] = addData("connection", c, a)
        PROVE  Ends(p, a)'
    <2>1. /\ new[Len(new)] = writes[n] /\ new[Len(new) - 1] = writes[n - 1] /\ new # <<>>
          /\ ~(committed[p] >= Len(new)) /\ ~(committed[p] >= Len(new) - 1)
      <3>1. m + n - 1 = m + (n - 1) /\ n - 1 \in 1 .. n /\ n \in 1 .. n
        BY <1>3, <1>5
      <3>2. new[m + n] = writes[n] /\ new[m + (n - 1)] = writes[n - 1]
        BY <1>3, <3>1
      <3>3. ~(committed[p] >= m + n) /\ ~(committed[p] >= m + n - 1)
        BY <1>1, <1>3, <1>5 DEF m
      <3> QED
        BY <1>3, <1>5, <3>1, <3>2, <3>3
    <2>2. EndsInCode(p, a, c)'
      BY <1>2, <1>5, <2>1 DEF EndsInCode
    <2> QED
      BY <1>2, <2>1, <2>2 DEF Ends
  <1> QED
    BY <1>4, <1>5 DEF n

(* No other queue is sent: a's is the only one there is. *)
LEMMA CommitEnds ==
    ASSUME DBTypeOK, NEW p \in Phones, Commit(p), NEW a \in Accounts, Ends(p, a),
           auth[p] = a \/ pending[p][auth[p]] = <<>>
    PROVE  Ends(p, a)'
  <1> DEFINE queue == pending[p][a]
             n == Len(queue)
             k == committed[p] + 1
             w == queue[k]
  <1>1. /\ pending \in [Phones -> [AuthUsers -> Seq(Writes)]] /\ a \in AuthUsers
        /\ queue \in Seq(Writes) /\ committed \in [Phones -> Nat]
        /\ connection \in [Codes -> Accounts \cup {Nil}]
        /\ users \in [Accounts -> UserData \cup {Nil}]
    BY DEF DBTypeOK, AuthUsers
  <1>2. auth[p] = a
    BY <1>1 DEF Commit
  <1>3. /\ k \in 1 .. n /\ n \in Nat /\ queue # <<>> /\ w \in Writes
        /\ committed'[p] = k /\ UNCHANGED <<auth, pending>>
        /\ IF w.collection = "users" THEN /\ users' = [users EXCEPT ![w.id] = Written(w, @)]
                                          /\ connection' = connection
           ELSE /\ connection' = [connection EXCEPT ![w.id] = Written(w, @)]
                /\ users' = users
    BY <1>1, <1>2 DEF Commit
  <1>4. EndsInForm(p, a) \/ \E c \in Codes : EndsInCode(p, a, c)
    BY <1>3 DEF Ends
  <1>5. CASE EndsInForm(p, a)
    <2>1. PICK d \in UserData : queue[n] = addData("users", a, d) /\ d.connectionCode = Nil
      BY <1>5 DEF EndsInForm
    <2>2. k = n => users'[a] = d
      <3>1. ASSUME k = n PROVE w = addData("users", a, d)
        BY <2>1, <3>1
      <3> HIDE DEF w
      <3>2. ASSUME k = n PROVE w.collection = "users" /\ w.id = a /\ Written(w, users[a]) = d
        BY <3>1, <3>2 DEF addData, Written
      <3> QED
        BY <1>1, <1>3, <3>2
    <2>3. k >= n => k = n
      BY <1>3
    <2> HIDE DEF queue, n, k, w
    <2>4. EndsInForm(p, a)'
      BY <1>3, <2>1, <2>2, <2>3 DEF EndsInForm, queue, n
    <2> QED
      BY <1>3, <2>4 DEF Ends, queue
  <1>6. ASSUME NEW c \in Codes, EndsInCode(p, a, c) PROVE Ends(p, a)'
    <2>1. /\ queue[n] = addSingleData("users", a, c)
          /\ n > 1 => queue[n - 1] = addData("connection", c, a)
          /\ committed[p] >= n - 1 => connection[c] = a
      BY <1>6 DEF EndsInCode
    <2>2. CASE k = n
      <3>1. w = addSingleData("users", a, c)
        BY <2>1, <2>2
      <3>2. connection[c] = a
        BY <1>1, <1>3, <2>1, <2>2
      <3> HIDE DEF w
      <3>3. w.collection = "users" /\ w.id = a /\ Written(w, users[a]).connectionCode = c
        BY <3>1 DEF addSingleData, Written
      <3>4. users'[a].connectionCode = c /\ connection' = connection
        BY <1>1, <1>3, <3>3
      <3> HIDE DEF queue, n, k
      <3>5. EndsInCode(p, a, c)'
        BY <1>3, <2>1, <3>2, <3>4 DEF EndsInCode, queue, n
      <3> QED
        BY <1>3, <3>5 DEF Ends, queue
    <2>3. CASE k = n - 1
      <3>1. w = addData("connection", c, a) /\ ~(k >= n)
        BY <1>3, <2>1, <2>3
      <3> HIDE DEF w
      <3>2. w.collection # "users" /\ w.id = c /\ Written(w, connection[c]) = a
        BY <3>1 DEF addData, Written
      <3>3. connection'[c] = a
        BY <1>1, <1>3, <3>2
      <3> HIDE DEF queue, n, k
      <3>4. EndsInCode(p, a, c)'
        BY <1>3, <2>1, <3>1, <3>3 DEF EndsInCode, queue, n
      <3> QED
        BY <1>3, <3>4 DEF Ends, queue
    <2>4. CASE k # n /\ k # n - 1
      <3>1. ~(k >= n) /\ ~(k >= n - 1)
        BY <1>1, <1>3, <2>4
      <3> HIDE DEF queue, n, k, w
      <3>2. EndsInCode(p, a, c)'
        BY <1>3, <2>1, <3>1 DEF EndsInCode, queue, n
      <3> QED
        BY <1>3, <3>2 DEF Ends, queue
    <2> QED
      BY <2>2, <2>3, <2>4
  <1> QED
    BY <1>4, <1>5, <1>6

(* When the last write has been answered, the document is what it made it. *)
LEMMA AcknowledgeEnds ==
    ASSUME DBTypeOK, NEW p \in Phones, Acknowledge(p), NEW a \in Accounts, Ends(p, a),
           auth[p] = a \/ pending[p][auth[p]] = <<>>
    PROVE  Ends(p, a)'
  <1> DEFINE old == pending[p][a]
             new == Tail(old)
             n == Len(old)
  <1>1. /\ pending \in [Phones -> [AuthUsers -> Seq(Writes)]] /\ a \in AuthUsers
        /\ old \in Seq(Writes) /\ committed \in [Phones -> Nat]
        /\ committed[p] <= Len(pending[p][auth[p]])
    BY DEF DBTypeOK, AuthUsers
  <1>2. auth[p] = a
    <2>1. Len(<<>>) = 0
      OBVIOUS
    <2> QED
      BY <1>1, <2>1 DEF Acknowledge
  <1>3. /\ committed[p] \in 1 .. n /\ n \in Nat /\ committed'[p] = committed[p] - 1
        /\ pending'[p][a] = new /\ UNCHANGED <<users, connection>>
    BY <1>1, <1>2 DEF Acknowledge
  <1>4. /\ old # <<>> /\ Len(new) = n - 1 /\ (n > 1 <=> new # <<>>)
        /\ \A j \in 1 .. n - 1 : new[j] = old[j + 1]
    <2>1. n > 0 /\ old # <<>>
      <3>1. Len(<<>>) = 0
        OBVIOUS
      <3> QED
        BY <1>3, <3>1
    <2>2. new \in Seq(Writes) /\ Len(new) = n - 1 /\ \A j \in 1 .. n - 1 : new[j] = old[j + 1]
      BY <1>1, <2>1
    <2>3. new = <<>> <=> Len(new) = 0
      BY <2>2, EmptySeq
    <2> HIDE DEF new, old, n
    <2>4. n - 1 = 0 <=> ~(n > 1)
      BY <1>3, <2>1
    <2> QED
      BY <2>1, <2>2, <2>3, <2>4
  <1>5. EndsInForm(p, a) \/ \E c \in Codes : EndsInCode(p, a, c)
    BY <1>4 DEF Ends
  <1> HIDE DEF old, new, n
  <1>6. n > 1 => new[Len(new)] = old[n]
    <2>1. n > 1 => n - 1 \in 1 .. n - 1 /\ (n - 1) + 1 = n
      BY <1>3
    <2> QED
      BY <1>4, <2>1
  <1>7. CASE EndsInForm(p, a)
    <2>1. PICK d \in UserData : /\ old[n] = addData("users", a, d) /\ d.connectionCode = Nil
                                /\ committed[p] >= n => users[a].connectionCode = Nil
      BY <1>7 DEF EndsInForm, old, n
    <2>2. CASE n > 1
      <3>1. committed[p] - 1 >= Len(new) => committed[p] >= n
        BY <1>3, <1>4
      <3>2. EndsInForm(p, a)'
        BY <1>3, <1>6, <2>1, <2>2, <3>1 DEF EndsInForm
      <3> QED
        BY <1>3, <1>4, <2>2, <3>2 DEF Ends
    <2>3. CASE ~(n > 1)
      <3>1. committed[p] >= n
        BY <1>3, <2>3
      <3>2. PointsBack(a)'
        BY <1>3, <2>1, <3>1 DEF PointsBack
      <3> QED
        BY <1>3, <1>4, <2>3, <3>2 DEF Ends
    <2> QED
      BY <2>2, <2>3
  <1>8. ASSUME NEW c \in Codes, EndsInCode(p, a, c) PROVE Ends(p, a)'
    <2>1. /\ old[n] = addSingleData("users", a, c)
          /\ n > 1 => old[n - 1] = addData("connection", c, a)
          /\ committed[p] >= n - 1 => connection[c] = a
          /\ committed[p] >= n => users[a].connectionCode = c
      BY <1>8 DEF EndsInCode, old, n
    <2>2. CASE n > 1
      <3>1. /\ committed[p] - 1 >= Len(new) => committed[p] >= n
            /\ committed[p] - 1 >= Len(new) - 1 => committed[p] >= n - 1
        BY <1>3, <1>4
      <3>2. Len(new) > 1 => new[Len(new) - 1] = old[n - 1]
        <4>1. Len(new) > 1 => n - 2 \in 1 .. n - 1 /\ (n - 2) + 1 = n - 1 /\ Len(new) - 1 = n - 2
          BY <1>3, <1>4
        <4> QED
          BY <1>4, <4>1
      <3>3. EndsInCode(p, a, c)'
        BY <1>3, <1>6, <2>1, <2>2, <3>1, <3>2 DEF EndsInCode
      <3> QED
        BY <1>3, <1>4, <2>2, <3>3 DEF Ends
    <2>3. CASE ~(n > 1)
      <3>1. committed[p] >= n /\ committed[p] >= n - 1
        BY <1>3, <2>3
      <3>2. PointsBack(a)'
        BY <1>3, <2>1, <3>1 DEF PointsBack
      <3> QED
        BY <1>3, <1>4, <2>3, <3>2 DEF Ends
    <2> QED
      BY <2>2, <2>3
  <1> QED
    BY <1>5, <1>7, <1>8

(* A queue that is sent again, or comes back, ends where it ended. *)
LEMMA RestartEnds ==
    ASSUME DBTypeOK, DBTypeOK', UNCHANGED <<pending, users, connection>>,
           NEW p \in Phones, NEW a \in Accounts, Ends(p, a),
           committed'[p] = 0 \/ committed'[p] = committed[p]
    PROVE  Ends(p, a)'
  <1> DEFINE n == Len(pending[p][a])
  <1>1. /\ pending[p][a] \in Seq(Writes) /\ n \in Nat /\ committed[p] \in Nat /\ committed'[p] \in Nat
        /\ pending[p][a] # <<>> => n > 0
    BY DEF DBTypeOK, AuthUsers
  <1> HIDE DEF n
  <1>2. /\ committed'[p] >= n - 1 /\ n > 0 => committed[p] >= n - 1
        /\ committed'[p] >= n /\ n > 0 => committed[p] >= n
    BY <1>1
  <1> QED
    BY <1>1, <1>2 DEF Ends, EndsInForm, EndsInCode, PointsBack, n
=============================================================================
