------------------------------- MODULE AppDB -------------------------------
(***************************************************************************)
(* struct AppDB (Utils/AppDB.swift) over the Firestore client it calls.    *)
(*                                                                         *)
(* setData and delete return at once: the write joins the queue the client *)
(* keeps on the phone for the auth user of the moment, survives the        *)
(* process, and is sent in order while that user is the auth user.  The    *)
(* client takes a write off its queue when the server has answered; if the *)
(* stream breaks first it sends the unanswered writes again.  A permanent  *)
(* error drops the write, and AppDB's completion only prints.              *)
(***************************************************************************)
EXTENDS User, Naturals, Sequences

CONSTANTS MaxQueued,    \* bound: writes in one queue of one phone
          Denied        \* auth users whose writes the security rules refuse

VARIABLES auth,         \* Auth.auth().currentUser of each phone
          pending,      \* per phone and auth user, the writes not yet answered
          committed,    \* how many of the auth user's writes await their answer
          users,        \* the server's "users" documents
          connection    \* the server's "connection" documents

dbVars == <<auth, pending, committed, users, connection>>

AuthUsers == Accounts \cup {Nil}

ASSUME DBAssumption == MaxQueued \in Nat /\ Denied \subseteq AuthUsers
-----------------------------------------------------------------------------
addData(collection, id, data) ==
    [op |-> "addData", collection |-> collection, id |-> id, data |-> data]

(* a slip: merge: true is forgotten *)
addSingleDataUnmerged(collection, id, data) ==
    addData(collection, id, [profile |-> Nil, connectionCode |-> data])

addSingleData(collection, id, data) ==
    [op |-> "addSingleData", collection |-> collection, id |-> id, data |-> data]

removeData(collection, id) ==
    [op |-> "removeData", collection |-> collection, id |-> id, data |-> Nil]

(* The writes the app makes. *)
Writes == { addData("users", a, d) : a \in Accounts, d \in UserData }
          \cup { addSingleData("users", a, c) : a \in Accounts, c \in Codes }
          \cup { addData("connection", c, a) : c \in Codes, a \in Accounts }
          \cup { removeData("connection", c) : c \in Codes }

(* What a write leaves of the document it names: setData replaces it, setData
   with merge keeps the other fields, delete removes it. *)
Written(write, document) ==
    CASE write.op = "addData" -> write.data
      [] write.op = "addSingleData" ->
            [profile |-> IF document = Nil THEN Nil ELSE document.profile,
             connectionCode |-> write.data]
      [] write.op = "removeData" -> Nil

(* The users document a phone reads: the server's with the phone's own pending
   writes on top. *)
View(p, a) ==
    LET queue == pending[p][auth[p]]
        After[k \in 0 .. Len(queue)] ==
            IF k = 0 THEN users[a]
            ELSE IF queue[k].collection = "users" /\ queue[k].id = a
                 THEN Written(queue[k], After[k - 1])
                 ELSE After[k - 1]
    IN  After[Len(queue)]
-----------------------------------------------------------------------------
DBTypeOK ==
    /\ auth \in [Phones -> AuthUsers]
    /\ pending \in [Phones -> [AuthUsers -> Seq(Writes)]]
    /\ committed \in [Phones -> Nat]
    /\ \A p \in Phones : /\ committed[p] <= Len(pending[p][auth[p]])
                         /\ auth[p] \in Denied => committed[p] = 0
    /\ users \in [Accounts -> UserData \cup {Nil}]
    /\ connection \in [Codes -> Accounts \cup {Nil}]

(* The accounts of `registered' made their profile on another phone before. *)
DBInit(registered) ==
    /\ auth = [p \in Phones |-> Nil]
    /\ pending = [p \in Phones |-> [u \in AuthUsers |-> <<>>]]
    /\ committed = [p \in Phones |-> 0]
    /\ users = [a \in Accounts |-> IF a \in registered
                                   THEN [profile |-> a, connectionCode |-> Nil]
                                   ELSE Nil]
    /\ connection = [c \in Codes |-> Nil]

Room(p, n) == Len(pending[p][auth[p]]) + n <= MaxQueued

(* The calls of one handler, in its order. *)
Enqueue(p, writes) ==
    /\ pending' = [pending EXCEPT ![p][auth[p]] = @ \o writes]
    /\ UNCHANGED <<auth, committed, users, connection>>

(* The server applies the next write the phone has sent. *)
Commit(p) ==
    /\ auth[p] \notin Denied
    /\ committed[p] < Len(pending[p][auth[p]])
    /\ LET write == pending[p][auth[p]][committed[p] + 1] IN
          IF write.collection = "users"
          THEN /\ users' = [users EXCEPT ![write.id] = Written(write, @)]
               /\ UNCHANGED connection
          ELSE /\ connection' = [connection EXCEPT ![write.id] = Written(write, @)]
               /\ UNCHANGED users
    /\ committed' = [committed EXCEPT ![p] = @ + 1]
    /\ UNCHANGED <<auth, pending>>

(* a slip: the write that was answered still counts as unanswered *)
AcknowledgeUncounted(p) ==
    /\ committed[p] > 0
    /\ pending' = [pending EXCEPT ![p][auth[p]] = Tail(@)]
    /\ UNCHANGED <<auth, committed, users, connection>>

(* The answer to the oldest write arrives. *)
Acknowledge(p) ==
    /\ committed[p] > 0
    /\ pending' = [pending EXCEPT ![p][auth[p]] = Tail(@)]
    /\ committed' = [committed EXCEPT ![p] = @ - 1]
    /\ UNCHANGED <<auth, users, connection>>

(* The server refuses the oldest write for good; the client drops it. *)
Reject(p) ==
    /\ auth[p] \in Denied
    /\ pending[p][auth[p]] # <<>>
    /\ pending' = [pending EXCEPT ![p][auth[p]] = Tail(@)]
    /\ UNCHANGED <<auth, committed, users, connection>>

(* a slip: a broken stream takes the queue with it *)
ReconnectDropping(p) ==
    /\ committed[p] > 0
    /\ pending' = [pending EXCEPT ![p][auth[p]] = <<>>]
    /\ committed' = [committed EXCEPT ![p] = 0]
    /\ UNCHANGED <<auth, users, connection>>

(* The write stream breaks: whatever was not answered is sent again. *)
Reconnect(p) ==
    /\ committed[p] > 0
    /\ committed' = [committed EXCEPT ![p] = 0]
    /\ UNCHANGED <<auth, pending, users, connection>>

(* Another auth user: another queue, on a stream of its own. *)
SetAuth(p, u) ==
    /\ auth' = [auth EXCEPT ![p] = u]
    /\ committed' = [committed EXCEPT ![p] = IF u = auth[p] THEN @ ELSE 0]
    /\ UNCHANGED <<pending, users, connection>>

(* All that may happen to the writes of the phones, whoever makes them. *)
DBNext ==
    \E p \in Phones :
        \/ \E write \in Writes : Room(p, 1) /\ Enqueue(p, <<write>>)
        \/ Commit(p) \/ Acknowledge(p) \/ Reject(p) \/ Reconnect(p)
        \/ \E u \in AuthUsers : SetAuth(p, u)

DBSpec == (\E registered \in SUBSET Accounts : DBInit(registered)) /\ [][DBNext]_dbVars

Drained == \A p \in Phones, u \in AuthUsers : pending[p][u] = <<>>
=============================================================================
