----------------------- MODULE FirestoreWritesProofs -----------------------
(***************************************************************************)
(* What holds of the write pipeline for any users, writes, pipeline limit  *)
(* and queue bound: no HARD_ASSERT fails, no write is stranded, answers    *)
(* meet their writes, and the pipeline implements the queue of AppDB.      *)
(*                                                                         *)
(* A task is a composition of functions from client to client, and so is   *)
(* its proof: one lemma per function says what it needs of a client and    *)
(* what it makes of it.                                                    *)
(***************************************************************************)
EXTENDS FirestoreWrites, SequenceTheorems, WellFoundedInduction, TLAPS

Queue(c) == c.queues[c.user]

(* A queue is in the order of its ids, and no id is given out twice. *)
Ordered(c) ==
    \A u \in Users : \A k \in DOMAIN c.queues[u] :
        /\ c.queues[u][k].id < c.nextBatchId
        /\ c.queues[u][k].id <= MaxBatchId
        /\ \A j \in DOMAIN c.queues[u] : j < k => c.queues[u][j].id < c.queues[u][k].id

(* The pipeline holds the oldest writes of the current user. *)
Oldest(c) ==
    /\ Len(c.pipeline) <= kMaxPendingWrites
    /\ Len(c.pipeline) <= Len(Queue(c))
    /\ c.pipeline = SubSeq(Queue(c), 1, Len(c.pipeline))

(* An open stream before its handshake, which somebody waits for. *)
Handshaking(c) ==
    /\ c.pipeline # <<>>
    /\ \/ c.sent = <<Handshake>> /\ c.answers = <<>>
       \/ c.sent = <<>> /\ c.answers = <<"handshake">>

(* An open stream after it: the answered writes, then those under way. *)
Matched(c) ==
    /\ Len(c.answers) <= Len(c.pipeline)
    /\ c.sent = SubSeq(Queue(c), Len(c.answers) + 1, Len(c.pipeline))
    /\ \A k \in DOMAIN c.answers :
          c.answers[k] = IF c.user \in Denied THEN "refused" ELSE "result"
    /\ c.user \in Denied => Len(c.answers) <= 1

StreamSound(c) ==
    /\ 0 \in c.requests => c.state = "Starting"
    /\ c.state \in {"Starting", "Backoff"} => c.pipeline # <<>>
    /\ ~IsOpen(c) => c.sent = <<>> /\ c.answers = <<>> /\ ~c.idleTimer
    /\ IsOpen(c) /\ ~c.handshakeComplete => Handshaking(c)
    /\ IsOpen(c) /\ c.handshakeComplete => Matched(c)
    /\ c.idleTimer => c.handshakeComplete /\ c.pipeline = <<>>

(* What every function of RemoteStore leaves true, in the middle of a task too. *)
Sound(c) ==
    /\ c \in Client /\ ~c.failed
    /\ Ordered(c) /\ Oldest(c) /\ StreamSound(c)

(* What is true between two tasks besides. *)
Settled(c) ==
    /\ c.networkEnabled
    /\ Len(c.pipeline) = kMaxPendingWrites \/ Len(c.pipeline) = Len(Queue(c))
    /\ c.pipeline # <<>> => IsStarted(c)
    /\ c.handshakeComplete => IsOpen(c)

ServerTypeOK ==
    /\ users \in [Accounts -> DB!UserData \cup {Nil}]
    /\ connection \in [Codes -> Accounts \cup {Nil}]

IInv == Sound(client) /\ Settled(client) /\ ServerTypeOK
-----------------------------------------------------------------------------
(* Facts about numbers and sequences *)

(* There is a least natural number of every kind there is one of. *)
LEMMA Least ==
    ASSUME NEW T \in SUBSET Nat, T # {}
    PROVE  \E m \in T : \A n \in T : m <= n
  <1> DEFINE Less == {pair \in Nat \X Nat : pair[1] < pair[2]}
  <1>1. IsWellFoundedOn(Less, Nat)
    BY NatLessThanWellFounded, Zenon DEF OpToRel
  <1>2. \A m, n \in Nat : n < m => <<n, m>> \in Less
    <2> TAKE m, n \in Nat
    <2>1. <<n, m>> \in Nat \X Nat /\ <<n, m>>[1] = n /\ <<n, m>>[2] = m
      OBVIOUS
    <2> QED
      BY <2>1
  <1> HIDE DEF Less
  <1>3. PICK m \in T : \A n \in T : <<n, m>> \notin Less
    BY <1>1, WFMin, Zenon
  <1>4. \A n \in T : n \in Nat
    OBVIOUS
  <1>5. \A n \in T : ~(n < m)
    BY <1>2, <1>3, <1>4, Zenon
  <1> QED
    BY <1>4, <1>5

(* The id a queue's next batch gets is larger than every id on disk. *)
LEMMA NextBatchId ==
    ASSUME NEW queues \in [Users -> Seq(Batch)],
           \A u \in Users : \A k \in DOMAIN queues[u] :
              /\ queues[u][k].id <= MaxBatchId
              /\ \A j \in DOMAIN queues[u] : j < k => queues[u][j].id < queues[u][k].id
    PROVE  /\ LoadNextBatchId(queues) \in Nat \ {0}
           /\ \A u \in Users : \A k \in DOMAIN queues[u] : queues[u][k].id < LoadNextBatchId(queues)
  <1> DEFINE Above(id) == \A u \in Users : LastId(queues[u]) < id
             T == {id \in Nat \ {0} : Above(id)}
  <1>0. ASSUME NEW u \in Users, NEW k \in DOMAIN queues[u]
        PROVE  /\ queues[u][k].id \in Nat /\ queues[u][k].id <= LastId(queues[u])
               /\ LastId(queues[u]) \in 0 .. MaxBatchId
    <2> DEFINE n == Len(queues[u])
    <2>1. n \in Nat /\ k \in 1 .. n /\ n \in DOMAIN queues[u]
      OBVIOUS
    <2>2. queues[u][k] \in Batch /\ queues[u][n] \in Batch
      BY <2>1, ElementOfSeq
    <2>3. LastId(queues[u]) = queues[u][n].id
      BY <2>1 DEF LastId, Last
    <2> QED
      BY <2>1, <2>2, <2>3 DEF Batch
  <1>1. \A u \in Users : LastId(queues[u]) \in 0 .. MaxBatchId
    <2> TAKE u \in Users
    <2>1. CASE queues[u] = <<>>
      BY <2>1, FirestoreWritesAssumption DEF LastId
    <2>2. CASE queues[u] # <<>>
      <3>1. 1 \in DOMAIN queues[u]
        BY <2>2
      <3> QED
        BY <1>0, <3>1
    <2> QED
      BY <2>1, <2>2
  <1>2. MaxBatchId + 1 \in T
    BY <1>1, FirestoreWritesAssumption
  <1>3. PICK m \in T : \A n \in T : m <= n
    BY <1>2, Least
  <1>4. m \in 1 .. MaxBatchId + 1 /\ Above(m)
    BY <1>2, <1>3, FirestoreWritesAssumption
  <1>5. m = 1 \/ \E u \in Users : LastId(queues[u]) = m - 1
    <2>1. CASE m # 1
      <3>1. m - 1 \notin T /\ m - 1 \in Nat \ {0}
        BY <1>3, <2>1
      <3>2. PICK u \in Users : ~(LastId(queues[u]) < m - 1)
        BY <3>1
      <3> QED
        BY <1>1, <1>4, <3>1, <3>2
    <2> QED
      BY <2>1
  <1> DEFINE P(id) == /\ \A u \in Users : LastId(queues[u]) < id
                      /\ id = 1 \/ \E u \in Users : LastId(queues[u]) = id - 1
  <1>6. \E id \in 1 .. MaxBatchId + 1 : P(id)
    BY <1>4, <1>5
  <1>7. LoadNextBatchId(queues) \in 1 .. MaxBatchId + 1 /\ P(LoadNextBatchId(queues))
    <2> HIDE DEF P
    <2>1. LoadNextBatchId(queues) = CHOOSE id \in 1 .. MaxBatchId + 1 : P(id)
      BY DEF LoadNextBatchId, P
    <2> QED
      BY <1>6, <2>1
  <1> QED
    BY <1>0, <1>1, <1>7, FirestoreWritesAssumption

(* Sequences cut in pieces *)
LEMMA Prefix ==
    ASSUME NEW S, NEW q \in Seq(S), NEW i \in Nat, NEW j \in Nat, i <= j + 1, j <= Len(q)
    PROVE  /\ SubSeq(q, i + 1, j) \in Seq(S)
           /\ Len(SubSeq(q, i + 1, j)) = IF i < j THEN j - i ELSE 0
           /\ \A k \in 1 .. j - i : SubSeq(q, i + 1, j)[k] = q[i + k]
  <1>1. \A k \in i + 1 .. j : q[k] \in S
    BY ElementOfSeq
  <1> QED
    BY <1>1, SubSeqProperties

(* The first j elements, as SubSeq takes them. *)
LEMMA FirstPart ==
    ASSUME NEW S, NEW q \in Seq(S), NEW j \in Nat, j <= Len(q)
    PROVE  /\ SubSeq(q, 1, j) \in Seq(S) /\ Len(SubSeq(q, 1, j)) = j
           /\ \A k \in 1 .. j : SubSeq(q, 1, j)[k] = q[k]
           /\ SubSeq(q, 1, j) = <<>> <=> j = 0
  <1>1. \A k \in 1 .. j : q[k] \in S
    BY ElementOfSeq
  <1>2. /\ SubSeq(q, 1, j) \in Seq(S) /\ Len(SubSeq(q, 1, j)) = j
        /\ \A k \in 1 .. j : SubSeq(q, 1, j)[k] = q[k]
    BY <1>1, SubSeqProperties
  <1> QED
    BY <1>2

(* A part of a prefix is a part of the whole. *)
LEMMA PrefixOfPrefix ==
    ASSUME NEW S, NEW q \in Seq(S), NEW i \in Nat, NEW j \in Nat, NEW n \in Nat,
           i <= j, j <= n, n <= Len(q)
    PROVE  SubSeq(SubSeq(q, 1, n), i + 1, j) = SubSeq(q, i + 1, j)
  <1> DEFINE p == SubSeq(q, 1, n)
  <1>1. p \in Seq(S) /\ Len(p) = n /\ \A k \in 1 .. n : p[k] = q[k]
    BY FirstPart
  <1> HIDE DEF p
  <1>2. /\ SubSeq(p, i + 1, j) \in Seq(S) /\ SubSeq(q, i + 1, j) \in Seq(S)
        /\ Len(SubSeq(p, i + 1, j)) = j - i /\ Len(SubSeq(q, i + 1, j)) = j - i
        /\ \A k \in 1 .. j - i : SubSeq(p, i + 1, j)[k] = SubSeq(q, i + 1, j)[k]
    BY <1>1, Prefix
  <1> QED
    BY <1>2, SeqEqual DEF p

(* Parts of a tail are parts of the whole, one place further on. *)
LEMMA TailPrefix ==
    ASSUME NEW S, NEW q \in Seq(S), q # <<>>, NEW i \in Nat, NEW j \in Nat,
           i <= j, j < Len(q)
    PROVE  SubSeq(Tail(q), i + 1, j) = SubSeq(q, i + 2, j + 1)
  <1>1. /\ Tail(q) \in Seq(S) /\ Len(Tail(q)) = Len(q) - 1
        /\ \A k \in 1 .. Len(q) - 1 : Tail(q)[k] = q[k + 1]
    BY HeadTailProperties
  <1>2. /\ SubSeq(Tail(q), i + 1, j) \in Seq(S) /\ SubSeq(q, i + 2, j + 1) \in Seq(S)
        /\ Len(SubSeq(Tail(q), i + 1, j)) = j - i /\ Len(SubSeq(q, i + 2, j + 1)) = j - i
        /\ \A k \in 1 .. j - i : SubSeq(Tail(q), i + 1, j)[k] = Tail(q)[i + k]
        /\ \A k \in 1 .. j - i : SubSeq(q, i + 2, j + 1)[k] = q[i + 1 + k]
    BY <1>1, Prefix, (i + 1) + 1 = i + 2
  <1>3. \A k \in 1 .. j - i : SubSeq(Tail(q), i + 1, j)[k] = SubSeq(q, i + 2, j + 1)[k]
    BY <1>1, <1>2
  <1> QED
    BY <1>2, <1>3, SeqEqual

(* An element at the end changes no part before it. *)
LEMMA AppendPrefix ==
    ASSUME NEW S, NEW q \in Seq(S), NEW e \in S, NEW i \in Nat, NEW j \in Nat,
           i <= j, j <= Len(q)
    PROVE  SubSeq(Append(q, e), i + 1, j) = SubSeq(q, i + 1, j)
  <1>1. /\ Append(q, e) \in Seq(S) /\ Len(Append(q, e)) = Len(q) + 1
        /\ \A k \in 1 .. Len(q) : Append(q, e)[k] = q[k]
    BY AppendProperties
  <1>2. /\ SubSeq(Append(q, e), i + 1, j) \in Seq(S) /\ SubSeq(q, i + 1, j) \in Seq(S)
        /\ Len(SubSeq(Append(q, e), i + 1, j)) = j - i /\ Len(SubSeq(q, i + 1, j)) = j - i
        /\ \A k \in 1 .. j - i : SubSeq(Append(q, e), i + 1, j)[k] = SubSeq(q, i + 1, j)[k]
    BY <1>1, Prefix
  <1> QED
    BY <1>2, SeqEqual
-----------------------------------------------------------------------------
(* The functions of the client *)

(* An assertion that holds leaves no trace. *)
LEMMA AssertHolds ==
    ASSUME NEW c \in Client, ~c.failed, NEW condition, condition
    PROVE  HardAssert(c, condition) = c
  <1>1. c.failed = FALSE
    BY DEF Client
  <1>2. [c EXCEPT !.failed = FALSE] = c
    BY <1>1 DEF Client
  <1>3. (c.failed \/ ~condition) = FALSE
    BY <1>1
  <1> QED
    BY <1>2, <1>3 DEF HardAssert

(* What the constants are assumed to be. *)
LEMMA Constants ==
    /\ kMaxPendingWrites \in Nat \ {0} /\ MaxBatchId \in Nat /\ MaxAge \in Nat
    /\ AppWrites \subseteq DB!Writes /\ Denied \subseteq Users
  BY FirestoreWritesAssumption, MaxAgeAssumption

(* The queue and the pipeline of a sound client, element by element. *)
LEMMA QueueFacts ==
    ASSUME NEW c \in Client, Ordered(c)
    PROVE  /\ c.user \in Users /\ Queue(c) \in Seq(Batch) /\ Len(Queue(c)) \in Nat
           /\ \A k \in 1 .. Len(Queue(c)) :
                 /\ Queue(c)[k] \in Batch /\ Queue(c)[k].id \in Nat \ {0}
                 /\ \A j \in 1 .. k - 1 : Queue(c)[j].id < Queue(c)[k].id
  <1>1. c.user \in Users /\ Queue(c) \in Seq(Batch)
    BY DEF Client, Queue
  <1>2. \A k \in 1 .. Len(Queue(c)) : Queue(c)[k] \in Batch
    BY <1>1, ElementOfSeq
  <1>3. DOMAIN Queue(c) = 1 .. Len(Queue(c)) /\ Len(Queue(c)) \in Nat
    BY <1>1
  <1>4. \A k \in 1 .. Len(Queue(c)) : \A j \in 1 .. k - 1 : Queue(c)[j].id < Queue(c)[k].id
    BY <1>1, <1>3 DEF Ordered, Queue
  <1> QED
    BY <1>1, <1>2, <1>3, <1>4 DEF Batch

(* GetNextMutationBatch goes on where the pipeline ends. *)
LEMMA UnretrievedIs ==
    ASSUME NEW c \in Client, Ordered(c), Oldest(c)
    PROVE  Unretrieved(c) = SubSeq(Queue(c), Len(c.pipeline) + 1, Len(Queue(c)))
  <1> DEFINE q == Queue(c)
             n == Len(c.pipeline)
             later == {k \in DOMAIN q : q[k].id > LastId(c.pipeline)}
  <1>1. /\ q \in Seq(Batch) /\ Len(q) \in Nat /\ DOMAIN q = 1 .. Len(q)
        /\ \A k \in 1 .. Len(q) : /\ q[k].id \in Nat \ {0}
                                  /\ \A j \in 1 .. k - 1 : q[j].id < q[k].id
    BY QueueFacts
  <1>2. c.pipeline \in Seq(Batch) /\ n \in Nat /\ n <= Len(q)
    BY <1>1 DEF Client, Oldest
  <1>3. n = Len(q) \/ n < Len(q)
    <2>1. n \in Nat /\ Len(q) \in Nat /\ n <= Len(q)
      BY <1>1, <1>2
    <2> HIDE DEF n, q
    <2> QED
      BY <2>1
  <1>4. \A k \in 1 .. n : c.pipeline[k] = q[k]
    BY <1>1, <1>2, FirstPart DEF Oldest
  <1>5. LastId(c.pipeline) = IF n = 0 THEN 0 ELSE q[n].id
    BY <1>2, <1>4 DEF LastId, Last
  <1> HIDE DEF q, n
  <1>6. later = n + 1 .. Len(q)
    <2>1. \A k \in 1 .. Len(q) : q[k].id > LastId(c.pipeline) <=> k > n
      <3> TAKE k \in 1 .. Len(q)
      <3>1. CASE n = 0
        BY <1>1, <1>5, <3>1
      <3>2. CASE n # 0 /\ k < n
        BY <1>1, <1>2, <1>5, <3>2
      <3>3. CASE n # 0 /\ k = n
        BY <1>1, <1>2, <1>5, <3>3
      <3>4. CASE n # 0 /\ k > n
        <4>1. q[n].id < q[k].id /\ q[n].id \in Nat
          BY <1>1, <1>2, <3>4
        <4> QED
          BY <1>1, <1>5, <3>4, <4>1
      <3> QED
        BY <1>2, <3>1, <3>2, <3>3, <3>4
    <2> QED
      BY <1>1, <1>2, <2>1
  <1>7. Unretrieved(c) = IF later = {} THEN <<>>
                         ELSE SubSeq(q, CHOOSE k \in later : \A j \in later : k <= j, Len(q))
    <2>1. RowsAfter[q] = [id \in Nat |->
                         LET after == {k \in DOMAIN q : q[k].id > id}
                         IN  IF after = {} THEN <<>>
                             ELSE SubSeq(q, CHOOSE k \in after : \A j \in after : k <= j, Len(q))]
      BY <1>1 DEF RowsAfter
    <2>2. LastId(c.pipeline) \in Nat
      BY <1>1, <1>2, <1>5
    <2> QED
      BY <1>1, <2>1, <2>2 DEF Unretrieved, q, Queue
  <1> HIDE DEF later
  <1>8. CASE n = Len(q)
    <2>1. later = {}
      BY <1>2, <1>6, <1>8
    <2>2. SubSeq(q, n + 1, Len(q)) = <<>>
      BY <1>1, <1>2, <1>8, SubSeqEmpty
    <2> QED
      BY <1>7, <2>1, <2>2 DEF q, n
  <1>9. CASE n < Len(q)
    <2>1. n + 1 \in later /\ \A j \in later : n + 1 <= j
      BY <1>1, <1>2, <1>6, <1>9
    <2>2. (CHOOSE k \in later : \A j \in later : k <= j) = n + 1
      <3>1. \A k \in later : (\A j \in later : k <= j) <=> k = n + 1
        BY <1>1, <1>2, <1>6, <1>9, <2>1
      <3> QED
        BY <2>1, <3>1
    <2> QED
      BY <1>7, <2>1, <2>2 DEF q, n
  <1> QED
    BY <1>3, <1>8, <1>9, Zenon

(* The fetched batches fill the pipeline, or empty what is left of the queue. *)
Room(c) == IF kMaxPendingWrites < Len(Queue(c)) THEN kMaxPendingWrites ELSE Len(Queue(c))

(* FillWritePipeline fetches what makes the pipeline the longest prefix of
   the queue that it may be. *)
LEMMA FetchedIs ==
    ASSUME NEW c \in Client, Ordered(c), Oldest(c), c.networkEnabled
    PROVE  /\ Fetched(c) = SubSeq(Queue(c), Len(c.pipeline) + 1, Room(c))
           /\ Fetched(c) \in Seq(Batch)
           /\ Len(Fetched(c)) = Room(c) - Len(c.pipeline)
           /\ c.pipeline \o Fetched(c) = SubSeq(Queue(c), 1, Room(c))
           /\ Room(c) \in Nat /\ Room(c) <= Len(Queue(c)) /\ Len(c.pipeline) <= Room(c)
  <1> DEFINE q == Queue(c)
             n == Len(c.pipeline)
             m == Room(c)
             rest == SubSeq(q, n + 1, Len(q))
  <1>1. q \in Seq(Batch) /\ Len(q) \in Nat
    BY QueueFacts
  <1>2. n \in Nat /\ n <= Len(q) /\ n <= kMaxPendingWrites
    BY DEF Client, Oldest
  <1>3. c.pipeline = SubSeq(q, 1, n)
    BY DEF Oldest
  <1>4. m \in Nat /\ m <= Len(q) /\ n <= m /\ m <= kMaxPendingWrites
    BY <1>1, <1>2, Constants DEF Room
  <1>5. Unretrieved(c) = rest
    BY UnretrievedIs
  <1>6. /\ rest \in Seq(Batch) /\ Len(rest) = Len(q) - n
        /\ \A k \in 1 .. Len(q) - n : rest[k] = q[n + k]
    <2> HIDE DEF q, n
    <2>1. n <= Len(q) + 1 /\ Len(q) - n = IF n < Len(q) THEN Len(q) - n ELSE 0
      BY <1>1, <1>2
    <2> QED
      BY <1>1, <1>2, <2>1, Prefix
  <1>7. Fetched(c) = SubSeq(rest, 1, m - n)
    <2>1. (IF kMaxPendingWrites - n < Len(rest) THEN kMaxPendingWrites - n ELSE Len(rest)) = m - n
      <3>1. m = IF kMaxPendingWrites < Len(q) THEN kMaxPendingWrites ELSE Len(q)
        BY DEF Room
      <3>2. Len(rest) = Len(q) - n
        BY <1>6
      <3> HIDE DEF q, n, m, rest
      <3> QED
        BY <1>1, <1>2, <3>1, <3>2, Constants
    <2>2. kMaxPendingWrites - n \in Nat
      <3> HIDE DEF n
      <3> QED
        BY <1>2, Constants
    <2>3. rest \in Seq(Batch)
      BY <1>6
    <2>4. FirstRows[rest] = [room \in Nat |->
                               SubSeq(rest, 1, IF room < Len(rest) THEN room ELSE Len(rest))]
      BY <2>3 DEF FirstRows
    <2>5. Fetched(c) = FirstRows[rest][kMaxPendingWrites - n]
      BY <1>5 DEF Fetched, CanUseNetwork
    <2> HIDE DEF rest, n, m
    <2> QED
      BY <2>1, <2>2, <2>3, <2>4, <2>5
  <1> HIDE DEF q, n, m, rest
  <1>8. /\ SubSeq(rest, 1, m - n) \in Seq(Batch)
        /\ Len(SubSeq(rest, 1, m - n)) = m - n
        /\ \A k \in 1 .. m - n : SubSeq(rest, 1, m - n)[k] = rest[k]
    <2>1. m - n \in Nat /\ m - n <= Len(rest) /\ 0 <= (m - n) + 1 /\ 0 + 1 = 1 /\ 0 \in Nat
      BY <1>1, <1>2, <1>4, <1>6
    <2> QED
      BY <1>6, <2>1, Prefix
  <1>9. /\ SubSeq(q, n + 1, m) \in Seq(Batch)
        /\ Len(SubSeq(q, n + 1, m)) = m - n
        /\ \A k \in 1 .. m - n : SubSeq(q, n + 1, m)[k] = q[n + k]
    BY <1>1, <1>2, <1>4, Prefix
  <1>10. \A k \in 1 .. m - n : rest[k] = q[n + k]
    BY <1>1, <1>2, <1>4, <1>6
  <1>11. SubSeq(rest, 1, m - n) = SubSeq(q, n + 1, m)
    BY <1>8, <1>9, <1>10, SeqEqual
  <1>12. SubSeq(q, 1, n) \o SubSeq(q, n + 1, m) = SubSeq(q, 1, m)
    <2>1. 1 \in 1 .. Len(q) + 1 /\ n \in 0 .. Len(q) /\ m \in n .. Len(q) /\ 0 = 1 - 1
      BY <1>1, <1>2, <1>4
    <2> QED
      BY <1>1, <2>1, ConcatAdjacentSubSeq
  <1> QED
    BY <1>2, <1>3, <1>4, <1>7, <1>9, <1>11, <1>12 DEF q, n, m

(* Start *)
LEMMA StartSound ==
    ASSUME NEW c, Sound(c), c.state \in {"Initial", "Error"}, c.pipeline # <<>>
    PROVE  LET d == Start(c) IN
           /\ Sound(d) /\ IsStarted(d) /\ ~IsOpen(d)
           /\ d = [c EXCEPT !.state = d.state, !.requests = d.requests]
  <1>1. c \in Client /\ ~c.failed
    BY DEF Sound
  <1>2. CASE c.state = "Error"
    <2>1. Start(c) = [c EXCEPT !.state = "Backoff"]
      BY <1>2 DEF Start
    <2>2. [c EXCEPT !.state = "Backoff"] \in Client
      BY <1>1 DEF Client, States
    <2> QED
      BY <1>1, <1>2, <2>1, <2>2
      DEF Sound, Ordered, Oldest, Queue, StreamSound, Handshaking, Matched, IsOpen, IsStarted, Client
  <1>3. CASE c.state = "Initial"
    <2>1. Start(c) = [c EXCEPT !.state = "Starting", !.requests = @ \cup {0}]
      BY <1>1, <1>3, AssertHolds DEF Start
    <2>2. [c EXCEPT !.state = "Starting", !.requests = @ \cup {0}] \in Client
      <3>1. c.requests \cup {0} \in SUBSET (0 .. MaxAge)
        BY <1>1, Constants DEF Client
      <3> QED
        BY <1>1, <3>1 DEF Client, States
    <2> QED
      BY <1>1, <1>3, <2>1, <2>2
      DEF Sound, Ordered, Oldest, Queue, StreamSound, Handshaking, Matched, IsOpen, IsStarted, Client
  <1> QED
    BY <1>2, <1>3

(* AddToWritePipeline sends the batches it adds on an open stream, and leaves
   them for the handshake otherwise: either way they match the queue. *)
LEMMA AddSound ==
    ASSUME NEW c, Sound(c), c.networkEnabled, c.pipeline # <<>> \/ Unretrieved(c) # <<>>
    PROVE  LET d == AddToWritePipeline(c, Fetched(c)) IN
           /\ Sound(d)
           /\ d = [c EXCEPT !.pipeline = SubSeq(Queue(c), 1, Room(c)),
                            !.sent = d.sent, !.idleTimer = d.idleTimer]
  <1> DEFINE q == Queue(c)
             n == Len(c.pipeline)
             m == Room(c)
             a == Len(c.answers)
             fetched == Fetched(c)
             added == [c EXCEPT !.pipeline = SubSeq(q, 1, m)]
             open == IsOpen(c) /\ c.handshakeComplete
             d == AddToWritePipeline(c, fetched)
  <1>1. /\ c \in Client /\ ~c.failed /\ Ordered(c) /\ Oldest(c) /\ StreamSound(c)
        /\ c.pipeline \in Seq(Batch) /\ c.sent \in Seq(Batch \cup {Handshake})
        /\ c.answers \in Seq(Answers)
    BY DEF Sound, Client
  <1>2. /\ q \in Seq(Batch) /\ Len(q) \in Nat /\ n \in Nat /\ n <= Len(q) /\ a \in Nat
    BY <1>1, QueueFacts DEF Oldest
  <1>3. /\ fetched = SubSeq(q, n + 1, m) /\ fetched \in Seq(Batch) /\ Len(fetched) = m - n
        /\ c.pipeline \o fetched = SubSeq(q, 1, m)
        /\ m \in Nat /\ m <= Len(q) /\ n <= m
    BY <1>1, FetchedIs
  <1>4. m = IF kMaxPendingWrites < Len(q) THEN kMaxPendingWrites ELSE Len(q)
    BY DEF Room
  <1>5. IsOpen(c) /\ c.handshakeComplete => Matched(c)
    BY <1>1 DEF StreamSound
  <1>6. c.idleTimer => IsOpen(c) /\ c.handshakeComplete /\ c.pipeline = <<>>
    BY <1>1 DEF StreamSound
  <1>7. Unretrieved(c) = SubSeq(q, n + 1, Len(q))
    BY <1>1, UnretrievedIs
  <1>8. n = 0 <=> c.pipeline = <<>>
    BY <1>1
  <1> HIDE DEF q, n, m, a, fetched
  <1>9. /\ SubSeq(q, 1, m) \in Seq(Batch) /\ Len(SubSeq(q, 1, m)) = m
        /\ SubSeq(q, 1, m) = <<>> <=> m = 0
    BY <1>2, <1>3, FirstPart
  <1>10. added \in Client
    BY <1>1, <1>9 DEF Client
  <1>11. /\ added.user = c.user /\ added.queues = c.queues /\ added.answers = c.answers
         /\ added.pipeline = SubSeq(q, 1, m) /\ added.sent = c.sent
         /\ added.idleTimer = c.idleTimer /\ added.state = c.state
         /\ added.handshakeComplete = c.handshakeComplete
         /\ added.requests = c.requests /\ added.failed = c.failed
         /\ added.nextBatchId = c.nextBatchId
    BY <1>1 DEF Client
  <1>12. c.idleTimer => open /\ fetched # <<>>
    <2> SUFFICES ASSUME c.idleTimer PROVE open /\ fetched # <<>>
      OBVIOUS
    <2>1. n = 0 /\ Unretrieved(c) # <<>>
      BY <1>6, <1>8
    <2>2. Len(q) > 0
      BY <1>2, <1>7, <2>1, SubSeqEmpty
    <2>3. m > 0
      BY <1>2, <1>4, <2>2, Constants
    <2> QED
      BY <1>3, <1>6, <2>1, <2>3
  <1>13. m <= kMaxPendingWrites /\ (n # 0 => m # 0)
    BY <1>2, <1>3, <1>4, Constants
  <1>14. ASSUME NEW e, e.user = c.user, e.queues = c.queues, e.nextBatchId = c.nextBatchId,
                e.pipeline = SubSeq(q, 1, m)
         PROVE  Ordered(e) /\ Oldest(e) /\ Queue(e) = q
    BY <1>1, <1>3, <1>9, <1>13, <1>14 DEF Ordered, Oldest, Queue, q
  <1>15. CASE ~(open /\ fetched # <<>>)
    <2>1. d = added
      <3>1. AddToWritePipeline(c, fetched) = [c EXCEPT !.pipeline = @ \o fetched]
        BY <1>15 DEF AddToWritePipeline
      <3> QED
        BY <1>3, <3>1
    <2>2. ~c.idleTimer
      BY <1>12, <1>15
    <2>3. open => n = m
      BY <1>2, <1>3, <1>15
    <2> HIDE DEF added
    <2>4. IsOpen(c) /\ ~c.handshakeComplete => Handshaking(added)
      BY <1>1, <1>8, <1>9, <1>11, <1>13 DEF StreamSound, Handshaking
    <2>5. open => Matched(added)
      <3>1. Len(added.pipeline) = m
        BY <1>9, <1>11
      <3>2. Queue(added) = q
        BY <1>11 DEF Queue, q
      <3>3. open => a <= n /\ c.sent = SubSeq(q, a + 1, n)
        BY <1>5 DEF Matched, q, n, a
      <3> QED
        BY <1>5, <1>11, <2>3, <3>1, <3>2, <3>3 DEF Matched, a
    <2>6. StreamSound(added)
      BY <1>1, <1>8, <1>9, <1>11, <1>13, <2>2, <2>4, <2>5 DEF StreamSound, IsOpen
    <2>7. added = [c EXCEPT !.pipeline = SubSeq(q, 1, m),
                            !.sent = added.sent, !.idleTimer = added.idleTimer]
      BY <1>1, <1>11 DEF Client, added
    <2> QED
      BY <1>1, <1>10, <1>11, <1>14, <2>1, <2>6, <2>7 DEF Sound, q, m, fetched
  <1>16. CASE open /\ fetched # <<>>
    <2> DEFINE sent == c.sent \o fetched
    <2>1. d = [added EXCEPT !.idleTimer = FALSE, !.sent = sent]
      <3>1. d = WriteMutations(added, fetched)
        BY <1>3, <1>16 DEF AddToWritePipeline
      <3>2. IsOpen(added) /\ added.handshakeComplete /\ ~added.failed
        BY <1>1, <1>11, <1>16 DEF IsOpen
      <3> HIDE DEF added, d, fetched
      <3>3. HardAssert(added, IsOpen(added) /\ added.handshakeComplete) = added
        BY <1>10, <3>2, AssertHolds
      <3>4. HardAssert(added, IsOpen(added)) = added
        BY <1>10, <3>2, AssertHolds
      <3> QED
        BY <1>11, <3>1, <3>3, <3>4 DEF WriteMutations, Write
    <2>2. sent \in Seq(Batch \cup {Handshake})
      <3>1. fetched \in Seq(Batch \cup {Handshake})
        BY <1>3, SeqMonotonic
      <3> QED
        BY <1>1, <3>1, ConcatProperties
    <2>3. a <= n /\ c.sent = SubSeq(q, a + 1, n)
      BY <1>5, <1>16 DEF Matched, q, n, a
    <2>4. sent = SubSeq(q, a + 1, m)
      <3>1. /\ a + 1 \in 1 .. Len(q) + 1
            /\ n \in (a + 1) - 1 .. Len(q)
            /\ m \in n .. Len(q)
        BY <1>2, <1>3, <2>3
      <3> QED
        BY <1>2, <1>3, <2>3, <3>1, ConcatAdjacentSubSeq
    <2>5. d = [c EXCEPT !.pipeline = SubSeq(q, 1, m), !.sent = sent, !.idleTimer = FALSE]
      BY <1>1, <2>1 DEF Client
    <2> HIDE DEF sent, added, d
    <2>6. d \in Client
      BY <1>10, <2>1, <2>2 DEF Client
    <2>7. /\ d.user = c.user /\ d.queues = c.queues /\ d.answers = c.answers
          /\ d.pipeline = SubSeq(q, 1, m) /\ d.sent = sent /\ d.idleTimer = FALSE
          /\ d.state = c.state /\ d.handshakeComplete = c.handshakeComplete
          /\ d.requests = c.requests /\ d.failed = c.failed /\ d.nextBatchId = c.nextBatchId
      BY <1>1, <2>5 DEF Client
    <2>8. Ordered(d) /\ Oldest(d) /\ Queue(d) = q
      BY <1>14, <2>7
    <2>9. Matched(d)
      <3>1. Len(d.answers) <= Len(d.pipeline)
        BY <1>2, <1>3, <1>9, <2>3, <2>7 DEF a
      <3>2. d.sent = SubSeq(Queue(d), Len(d.answers) + 1, Len(d.pipeline))
        BY <1>9, <2>4, <2>7, <2>8 DEF a
      <3> QED
        BY <1>5, <1>16, <2>7, <3>1, <3>2 DEF Matched
    <2>10. StreamSound(d)
      BY <1>1, <1>16, <2>7, <2>9 DEF StreamSound, IsOpen
    <2> QED
      BY <1>1, <2>5, <2>6, <2>7, <2>8, <2>10 DEF Sound, d, q, m, fetched
  <1> QED
    BY <1>15, <1>16

(* What no function of RemoteStore touches unless it closes a stream. *)
Kept(c, d) ==
    /\ d.user = c.user /\ d.queues = c.queues /\ d.nextBatchId = c.nextBatchId
    /\ d.networkEnabled = c.networkEnabled
    /\ d.answers = c.answers /\ d.handshakeComplete = c.handshakeComplete
    /\ IsOpen(d) <=> IsOpen(c)

(* ShouldStartWriteStream asks for everything Start asserts. *)
LEMMA StartIfNeededSound ==
    ASSUME NEW c, Sound(c)
    PROVE  LET d == StartIfNeeded(c) IN
           /\ Sound(d) /\ Kept(c, d) /\ d.pipeline = c.pipeline
           /\ d.networkEnabled /\ d.pipeline # <<>> => IsStarted(d)
  <1>1. CASE ShouldStartWriteStream(c)
    <2>1. c.pipeline # <<>> /\ c.state \in {"Initial", "Error"} /\ c \in Client
      BY <1>1 DEF ShouldStartWriteStream, IsStarted, Sound, Client, States
    <2> DEFINE d == Start(c)
    <2>2. /\ Sound(d) /\ IsStarted(d) /\ ~IsOpen(d)
          /\ d = [c EXCEPT !.state = d.state, !.requests = d.requests]
      BY <2>1, StartSound
    <2> HIDE DEF d
    <2>3. Kept(c, d) /\ d.pipeline = c.pipeline
      BY <2>1, <2>2 DEF Kept, Client, IsOpen
    <2> QED
      BY <1>1, <2>2, <2>3 DEF StartIfNeeded, d
  <1>2. CASE ~ShouldStartWriteStream(c)
    BY <1>2 DEF StartIfNeeded, ShouldStartWriteStream, CanUseNetwork, Kept
  <1> QED
    BY <1>1, <1>2

(* FillWritePipeline leaves a full pipeline, with a stream for it. *)
LEMMA FillSound ==
    ASSUME NEW c, Sound(c), c.networkEnabled
    PROVE  LET d == FillWritePipeline(c) IN
           /\ Sound(d) /\ Kept(c, d)
           /\ Len(d.pipeline) = Room(c)
           /\ d.pipeline # <<>> => IsStarted(d)
  <1>1. c \in Client /\ ~c.failed /\ Ordered(c) /\ Oldest(c) /\ StreamSound(c)
    BY DEF Sound
  <1>2. Queue(c) \in Seq(Batch) /\ Room(c) \in Nat /\ Room(c) <= Len(Queue(c))
    BY <1>1, QueueFacts, FetchedIs
  <1>3. CASE c.pipeline = <<>> /\ Unretrieved(c) = <<>>
    <2>1. FillWritePipeline(c) = StartIfNeeded(MarkIdle(c))
      BY <1>3 DEF FillWritePipeline, CanUseNetwork
    <2> DEFINE idle == [c EXCEPT !.idleTimer = @ \/ IsOpen(c)]
    <2>2. idle \in Client
      BY <1>1 DEF Client, IsOpen
    <2>3. /\ idle.user = c.user /\ idle.queues = c.queues /\ idle.answers = c.answers
          /\ idle.pipeline = c.pipeline /\ idle.sent = c.sent
          /\ idle.idleTimer = (c.idleTimer \/ IsOpen(c)) /\ idle.state = c.state
          /\ idle.handshakeComplete = c.handshakeComplete
          /\ idle.networkEnabled = c.networkEnabled
          /\ idle.requests = c.requests /\ idle.failed = c.failed
          /\ idle.nextBatchId = c.nextBatchId
      BY <1>1 DEF Client
    <2> HIDE DEF idle
    <2>4. IsOpen(c) => c.handshakeComplete
      BY <1>1, <1>3 DEF StreamSound, Handshaking
    <2>5. Matched(c) => Matched(idle)
      BY <2>3 DEF Matched, Queue
    <2>6. StreamSound(idle)
      BY <1>1, <1>3, <2>3, <2>4, <2>5 DEF StreamSound, IsOpen
    <2>7. Sound(idle) /\ Kept(c, idle)
      BY <1>1, <2>2, <2>3, <2>6 DEF Sound, Ordered, Oldest, Queue, Kept, IsOpen
    <2>8. Room(c) = Len(c.pipeline)
      <3>1. Len(c.pipeline) = 0 /\ Len(Queue(c)) \in Nat
        BY <1>2, <1>3
      <3>2. Unretrieved(c) = SubSeq(Queue(c), 1, Len(Queue(c)))
        BY <1>1, <3>1, UnretrievedIs, 0 + 1 = 1
      <3>3. Len(Queue(c)) = 0
        BY <1>2, <1>3, <3>1, <3>2, FirstPart
      <3> QED
        BY <1>2, <3>1, <3>3
    <2>9. MarkIdle(c) = idle
      BY DEF MarkIdle, idle
    <2> DEFINE d == StartIfNeeded(idle)
    <2>10. /\ Sound(d) /\ Kept(idle, d) /\ d.pipeline = idle.pipeline
           /\ d.networkEnabled /\ d.pipeline # <<>> => IsStarted(d)
      BY <2>7, StartIfNeededSound
    <2>11. FillWritePipeline(c) = d
      BY <2>1, <2>9
    <2> HIDE DEF d
    <2>12. Kept(c, d) /\ d.networkEnabled /\ d.pipeline = c.pipeline
      BY <2>3, <2>7, <2>10 DEF Kept
    <2> QED
      BY <2>8, <2>10, <2>11, <2>12
  <1>4. CASE c.pipeline # <<>> \/ Unretrieved(c) # <<>>
    <2> DEFINE added == AddToWritePipeline(c, Fetched(c))
    <2>1. FillWritePipeline(c) = StartIfNeeded(added)
      BY <1>4 DEF FillWritePipeline
    <2>2. /\ Sound(added)
          /\ added = [c EXCEPT !.pipeline = SubSeq(Queue(c), 1, Room(c)),
                               !.sent = added.sent, !.idleTimer = added.idleTimer]
      BY <1>4, AddSound
    <2> HIDE DEF added
    <2>3. Kept(c, added) /\ added.pipeline = SubSeq(Queue(c), 1, Room(c))
      BY <1>1, <2>2 DEF Kept, Client, IsOpen
    <2>4. Len(added.pipeline) = Room(c)
      BY <1>2, <2>3, FirstPart
    <2> DEFINE d == StartIfNeeded(added)
    <2>5. /\ Sound(d) /\ Kept(added, d) /\ d.pipeline = added.pipeline
          /\ d.networkEnabled /\ d.pipeline # <<>> => IsStarted(d)
      BY <2>2, StartIfNeededSound
    <2> HIDE DEF d
    <2>6. Kept(c, d) /\ d.networkEnabled /\ d.pipeline = added.pipeline
      BY <2>3, <2>5 DEF Kept
    <2> QED
      BY <2>1, <2>4, <2>5, <2>6 DEF d
  <1> QED
    BY <1>3, <1>4

(* What is left of a sequence without its first element. *)
LEMMA Tails ==
    ASSUME NEW S, NEW q \in Seq(S), q # <<>>
    PROVE  /\ Head(q) = q[1] /\ Head(q) \in S /\ RemoveAt(q, 1) = Tail(q)
           /\ Tail(q) \in Seq(S) /\ Len(q) \in Nat \ {0} /\ Len(Tail(q)) = Len(q) - 1
           /\ \A k \in 1 .. Len(q) - 1 : Tail(q)[k] = q[k + 1]
  <1>1. Head(q) = q[1] /\ Head(q) \in S /\ Len(q) \in Nat \ {0}
    BY HeadTailProperties
  <1>2. /\ Tail(q) \in Seq(S) /\ Len(Tail(q)) = Len(q) - 1
        /\ \A k \in 1 .. Len(q) - 1 : Tail(q)[k] = q[k + 1]
    BY HeadTailProperties
  <1>3. RemoveAt(q, 1) = <<>> \o Tail(q)
    <2>1. SubSeq(q, 1, 1 - 1) = <<>>
      BY SubSeqEmpty
    <2>2. SubSeq(q, 1 + 1, Len(q)) = Tail(q)
      BY TailIsSubSeq, 1 + 1 = 2
    <2> QED
      BY <2>1, <2>2 DEF RemoveAt
  <1>4. RemoveAt(q, 1) = Tail(q)
    BY <1>2, <1>3, ConcatEmptySeq
  <1> QED
    BY <1>1, <1>2, <1>4

(* RemoveMutationBatch of the oldest batch: its row is the one that is found. *)
LEMMA RemoveHead ==
    ASSUME NEW c \in Client, Ordered(c), Queue(c) # <<>>,
           NEW batch, batch = Head(Queue(c))
    PROVE  LET d == RemoveMutationBatch(c, batch) IN
           /\ d = [c EXCEPT !.queues[c.user] = Tail(@)]
           /\ d \in Client /\ Ordered(d) /\ Queue(d) = Tail(Queue(c))
  <1> DEFINE q == Queue(c)
             row == CHOOSE k \in DOMAIN q : q[k].id = batch.id
             d == [c EXCEPT !.queues[c.user] = Tail(@)]
  <1>1. /\ c.user \in Users /\ q \in Seq(Batch) /\ Len(q) \in Nat \ {0} /\ batch = q[1]
        /\ DOMAIN q = 1 .. Len(q)
        /\ \A k \in 1 .. Len(q) : /\ q[k].id \in Nat \ {0}
                                  /\ \A j \in 1 .. k - 1 : q[j].id < q[k].id
    BY QueueFacts, Tails
  <1>2. /\ RemoveAt(q, 1) = Tail(q) /\ Tail(q) \in Seq(Batch) /\ Len(Tail(q)) = Len(q) - 1
        /\ \A k \in 1 .. Len(q) - 1 : Tail(q)[k] = q[k + 1]
    BY <1>1, Tails
  <1>3. c.queues \in [Users -> Seq(Batch)]
    BY DEF Client
  <1>4. q = c.queues[c.user]
    BY DEF Queue
  <1> HIDE DEF q
  <1>5. 1 \in DOMAIN q /\ q[1].id = batch.id /\ row = 1
    <2>1. 1 \in DOMAIN q /\ q[1].id = batch.id
      BY <1>1
    <2>2. \A k \in 2 .. Len(q) : q[k].id # batch.id
      <3> TAKE k \in 2 .. Len(q)
      <3>1. q[1].id < q[k].id /\ q[1].id \in Nat /\ q[k].id \in Nat
        BY <1>1
      <3> QED
        BY <1>1, <3>1
    <2>3. \A k \in DOMAIN q : q[k].id = batch.id <=> k = 1
      BY <1>1, <2>1, <2>2
    <2> QED
      BY <2>1, <2>3
  <1>6. RemoveMutationBatch(c, batch) = [c EXCEPT !.queues[c.user] = RemoveAt(@, 1)]
    <2>1. RemoveMutationBatch(c, batch) =
             IF \E k \in DOMAIN q : q[k].id = batch.id
             THEN [c EXCEPT !.queues[c.user] = RemoveAt(q, row)]
             ELSE HardAssert(c, FALSE)
      BY <1>1, <1>3, <1>4 DEF RemoveMutationBatch, Client
    <2>2. [c EXCEPT !.queues[c.user] = RemoveAt(q, 1)] = [c EXCEPT !.queues[c.user] = RemoveAt(@, 1)]
      BY <1>4
    <2> HIDE DEF row
    <2> QED
      BY <1>5, <2>1, <2>2
  <1>7. [c EXCEPT !.queues[c.user] = RemoveAt(@, 1)] = d
    BY <1>2, <1>4
  <1>8. d \in Client
    BY <1>1, <1>2, <1>3, <1>4 DEF Client
  <1>9. /\ d.user = c.user /\ d.nextBatchId = c.nextBatchId
        /\ d.queues = [c.queues EXCEPT ![c.user] = Tail(q)]
    BY <1>4 DEF Client
  <1>10. Queue(d) = Tail(q)
    BY <1>1, <1>3, <1>9 DEF Queue
  <1> HIDE DEF d
  <1>11. Ordered(d)
    <2>1. ASSUME NEW u \in Users, NEW k \in DOMAIN d.queues[u]
          PROVE  /\ d.queues[u][k].id < d.nextBatchId
                 /\ d.queues[u][k].id <= MaxBatchId
                 /\ \A j \in DOMAIN d.queues[u] :
                       j < k => d.queues[u][j].id < d.queues[u][k].id
      <3>1. CASE u = c.user
        <4>1. d.queues[u] = Tail(q)
          BY <1>1, <1>3, <1>9, <3>1
        <4>2. k \in 1 .. Len(q) - 1 /\ DOMAIN Tail(q) = 1 .. Len(q) - 1
          BY <1>2, <2>1, <4>1
        <4>3. \A i \in 1 .. Len(q) : /\ q[i].id < c.nextBatchId /\ q[i].id <= MaxBatchId
                                     /\ \A j \in 1 .. Len(q) : j < i => q[j].id < q[i].id
          BY <1>1, <1>4 DEF Ordered
        <4>4. k + 1 \in 1 .. Len(q) /\ \A j \in 1 .. Len(q) - 1 : j + 1 \in 1 .. Len(q) /\ j \in Nat
          BY <1>1, <4>2
        <4>5. ASSUME NEW j \in 1 .. Len(q) - 1, j < k
              PROVE  q[j + 1].id < q[k + 1].id
          <5>1. j + 1 < k + 1
            BY <4>2, <4>5
          <5> QED
            BY <4>3, <4>4, <5>1
        <4> QED
          BY <1>2, <1>9, <4>1, <4>2, <4>3, <4>4, <4>5
      <3>2. CASE u # c.user
        BY <1>3, <1>9, <2>1, <3>2 DEF Ordered
      <3> QED
        BY <3>1, <3>2
    <2> QED
      BY <2>1 DEF Ordered
  <1> QED
    BY <1>6, <1>7, <1>8, <1>10, <1>11 DEF d, q

(* The oldest write leaves the pipeline and the queue: its result has come, or
   it was refused and the stream is closed. *)
Dropped(c, answers) ==
    RemoveMutationBatch([c EXCEPT !.answers = answers, !.pipeline = Tail(@)], Head(c.pipeline))

Droppable(c, answers) ==
    \/ /\ IsOpen(c) /\ c.handshakeComplete
       /\ c.answers # <<>> /\ Head(c.answers) = "result" /\ answers = Tail(c.answers)
    \/ c.state = "Initial" /\ answers = c.answers

(* Pipeline, queue and answers each lose their first element, and still fit. *)
LEMMA PopSound ==
    ASSUME NEW c, Sound(c), c.pipeline # <<>>, NEW answers, Droppable(c, answers)
    PROVE  LET d == Dropped(c, answers) IN
           /\ Sound(d)
           /\ d.user = c.user /\ d.nextBatchId = c.nextBatchId
           /\ d.queues = [c.queues EXCEPT ![c.user] = Tail(@)]
           /\ d.networkEnabled = c.networkEnabled
           /\ d.handshakeComplete = c.handshakeComplete
           /\ d.state = c.state /\ d.answers = answers
  <1> DEFINE q == Queue(c)
             n == Len(c.pipeline)
             p == [c EXCEPT !.answers = answers, !.pipeline = Tail(@)]
             d == RemoveMutationBatch(p, Head(c.pipeline))
             open == IsOpen(c)
  <1>1. /\ c \in Client /\ ~c.failed /\ Ordered(c) /\ Oldest(c) /\ StreamSound(c)
        /\ c.pipeline \in Seq(Batch) /\ c.answers \in Seq(Answers)
        /\ c.queues \in [Users -> Seq(Batch)] /\ c.user \in Users
    BY DEF Sound, Client
  <1>2. /\ q \in Seq(Batch) /\ Len(q) \in Nat /\ n \in Nat \ {0} /\ n <= Len(q)
        /\ n <= kMaxPendingWrites /\ c.pipeline = SubSeq(q, 1, n)
    BY <1>1, QueueFacts, Tails DEF Oldest
  <1>3. /\ Head(c.pipeline) = c.pipeline[1] /\ Tail(c.pipeline) \in Seq(Batch)
        /\ Len(Tail(c.pipeline)) = n - 1
    BY <1>1, Tails
  <1>4. q = c.queues[c.user]
    BY DEF Queue
  <1> HIDE DEF q, n
  <1>5. q # <<>> /\ Len(q) \in Nat \ {0}
    BY <1>2
  <1>6. /\ Head(q) = q[1] /\ Tail(q) \in Seq(Batch) /\ Len(Tail(q)) = Len(q) - 1
        /\ \A k \in 1 .. Len(q) - 1 : Tail(q)[k] = q[k + 1]
    BY <1>2, <1>5, Tails
  <1>7. Head(c.pipeline) = Head(q)
    <2>1. SubSeq(q, 1, n)[1] = q[1]
      BY <1>2, FirstPart
    <2> QED
      BY <1>2, <1>3, <1>6, <2>1
  <1>8. Tail(c.pipeline) = SubSeq(Tail(q), 1, n - 1)
    <2>1. Tail(SubSeq(q, 1, n)) = SubSeq(q, 2, n)
      BY <1>2, HeadTailOfSubSeq, 1 + 1 = 2
    <2>2. SubSeq(Tail(q), 0 + 1, n - 1) = SubSeq(q, 0 + 2, (n - 1) + 1)
      BY <1>2, <1>5, TailPrefix
    <2>3. (n - 1) + 1 = n /\ 0 + 1 = 1 /\ 0 + 2 = 2
      BY <1>2
    <2> QED
      BY <1>2, <2>1, <2>2, <2>3
  <1>9. answers \in Seq(Answers)
    BY <1>1, Tails DEF Droppable
  <1>10. /\ p \in Client /\ p.user = c.user /\ p.queues = c.queues
         /\ p.nextBatchId = c.nextBatchId /\ p.pipeline = Tail(c.pipeline)
         /\ p.answers = answers
    BY <1>1, <1>3, <1>9 DEF Client
  <1>11. Ordered(p) /\ Queue(p) = q
    BY <1>1, <1>4, <1>10 DEF Ordered, Queue
  <1>12. d = [p EXCEPT !.queues[p.user] = Tail(@)] /\ d \in Client /\ Ordered(d)
         /\ Queue(d) = Tail(q)
    BY <1>5, <1>7, <1>10, <1>11, RemoveHead
  <1>13. /\ d.user = c.user /\ d.nextBatchId = c.nextBatchId
         /\ d.queues = [c.queues EXCEPT ![c.user] = Tail(@)]
         /\ d.pipeline = SubSeq(Tail(q), 1, n - 1) /\ Len(d.pipeline) = n - 1
         /\ d.networkEnabled = c.networkEnabled /\ d.state = c.state
         /\ d.handshakeComplete = c.handshakeComplete /\ d.idleTimer = c.idleTimer
         /\ d.requests = c.requests /\ d.sent = c.sent /\ d.failed = c.failed
         /\ d.answers = answers
    BY <1>1, <1>3, <1>8, <1>12 DEF Client
  <1> HIDE DEF d, p
  <1>14. Oldest(d)
    <2>1. n - 1 <= kMaxPendingWrites /\ n - 1 <= Len(Tail(q))
      BY <1>2, <1>5, <1>6, Constants
    <2> QED
      BY <1>12, <1>13, <2>1 DEF Oldest
  <1>15. ~c.idleTimer
    BY <1>1 DEF StreamSound
  <1>16. ASSUME ~open PROVE StreamSound(d)
    <2>1. c.state = "Initial" /\ answers = c.answers
      BY <1>16 DEF Droppable
    <2> QED
      BY <1>1, <1>13, <1>15, <1>16, <2>1 DEF StreamSound, IsOpen
  <1>17. ASSUME open PROVE StreamSound(d)
    <2>1. /\ c.handshakeComplete /\ c.answers # <<>> /\ Head(c.answers) = "result"
          /\ answers = Tail(c.answers)
      BY <1>17 DEF Droppable, IsOpen
    <2>2. Matched(c)
      BY <1>1, <1>17, <2>1 DEF StreamSound
    <2> DEFINE a == Len(c.answers)
    <2>3. /\ a \in Nat \ {0} /\ a <= n
          /\ c.sent = SubSeq(q, a + 1, n)
          /\ \A k \in 1 .. a : c.answers[k] = IF c.user \in Denied THEN "refused" ELSE "result"
      BY <1>1, <2>1, <2>2, Tails DEF Matched, q, n
    <2>4. /\ Head(c.answers) = c.answers[1] /\ Len(answers) = a - 1
          /\ \A k \in 1 .. a - 1 : answers[k] = c.answers[k + 1]
      BY <1>1, <2>1, Tails
    <2> HIDE DEF a
    <2>5. c.user \notin Denied
      BY <2>1, <2>3, <2>4
    <2>6. SubSeq(Tail(q), (a - 1) + 1, n - 1) = SubSeq(q, (a - 1) + 2, (n - 1) + 1)
      BY <1>2, <1>5, <2>3, TailPrefix
    <2>7. (a - 1) + 2 = a + 1 /\ (n - 1) + 1 = n /\ (a - 1) + 1 = Len(d.answers) + 1
      BY <1>2, <1>13, <2>3, <2>4
    <2>8. d.sent = SubSeq(Queue(d), Len(d.answers) + 1, Len(d.pipeline))
      BY <1>12, <1>13, <2>3, <2>6, <2>7
    <2>9. \A k \in DOMAIN d.answers : d.answers[k] = "result"
      <3>1. DOMAIN d.answers = 1 .. a - 1
        BY <1>9, <1>13, <2>4
      <3>2. \A k \in 1 .. a - 1 : k + 1 \in 1 .. a
        BY <2>3
      <3> QED
        BY <1>13, <2>3, <2>4, <2>5, <3>1, <3>2
    <2>10. Matched(d)
      BY <1>2, <1>13, <2>3, <2>4, <2>5, <2>8, <2>9 DEF Matched
    <2> QED
      BY <1>1, <1>13, <1>15, <1>17, <2>1, <2>10 DEF StreamSound, IsOpen
  <1>18. Sound(d)
    BY <1>1, <1>12, <1>13, <1>14, <1>16, <1>17 DEF Sound
  <1> QED
    BY <1>13, <1>18 DEF d, p, Dropped

(* Stream::Close up to its notification *)
LEMMA ClosedIs ==
    ASSUME NEW c \in Client, ~c.failed, IsStarted(c), NEW status
    PROVE  LET d == Closed(c, status) IN
           /\ d \in Client /\ ~d.failed
           /\ d.user = c.user /\ d.queues = c.queues /\ d.nextBatchId = c.nextBatchId
           /\ d.networkEnabled = c.networkEnabled /\ d.pipeline = c.pipeline
           /\ d.handshakeComplete = c.handshakeComplete
           /\ d.state = IF status = "ok" THEN "Initial" ELSE "Error"
           /\ d.sent = <<>> /\ d.answers = <<>> /\ ~d.idleTimer /\ 0 \notin d.requests
  <1> DEFINE later == {age + 1 : age \in c.requests} \cap 0 .. MaxAge
             d == [c EXCEPT !.state = IF status = "ok" THEN "Initial" ELSE "Error",
                            !.idleTimer = FALSE, !.requests = later,
                            !.sent = <<>>, !.answers = <<>>]
  <1>1. Closed(c, status) = d
    BY AssertHolds DEF Closed
  <1>2. later \in SUBSET (0 .. MaxAge) /\ 0 \notin later
    <2>1. \A age \in c.requests : age \in Nat /\ age + 1 # 0
      BY Constants DEF Client
    <2> QED
      BY <2>1
  <1>3. <<>> \in Seq(Batch \cup {Handshake}) /\ <<>> \in Seq(Answers)
    BY EmptySeq
  <1> HIDE DEF later
  <1>4. d \in Client
    BY <1>2, <1>3 DEF Client, States
  <1> QED
    BY <1>1, <1>2, <1>4 DEF Client

(* A stream that is not open owes nothing to its handshake. *)
LEMMA HandshakeForgotten ==
    ASSUME NEW c, Sound(c), ~IsOpen(c)
    PROVE  LET d == [c EXCEPT !.handshakeComplete = FALSE] IN
           /\ Sound(d) /\ ~IsOpen(d) /\ d.handshakeComplete = FALSE
           /\ d.user = c.user /\ d.queues = c.queues /\ d.nextBatchId = c.nextBatchId
           /\ d.networkEnabled = c.networkEnabled /\ d.pipeline = c.pipeline
           /\ d.state = c.state /\ d.answers = <<>>
  <1> DEFINE d == [c EXCEPT !.handshakeComplete = FALSE]
  <1>1. /\ c \in Client /\ ~c.failed /\ Ordered(c) /\ Oldest(c) /\ StreamSound(c)
    BY DEF Sound
  <1>2. /\ d \in Client /\ d.user = c.user /\ d.queues = c.queues
        /\ d.nextBatchId = c.nextBatchId /\ d.networkEnabled = c.networkEnabled
        /\ d.pipeline = c.pipeline /\ d.state = c.state /\ d.answers = c.answers
        /\ d.sent = c.sent /\ d.idleTimer = c.idleTimer /\ d.requests = c.requests
        /\ d.failed = c.failed /\ d.handshakeComplete = FALSE
    BY <1>1 DEF Client
  <1> HIDE DEF d
  <1>3. c.answers = <<>> /\ ~c.idleTimer /\ ~IsOpen(d)
    BY <1>1, <1>2 DEF StreamSound, IsOpen
  <1>4. StreamSound(d)
    BY <1>1, <1>2, <1>3 DEF StreamSound, IsOpen
  <1>5. Ordered(d) /\ Oldest(d)
    BY <1>1, <1>2 DEF Ordered, Oldest, Queue
  <1> QED
    BY <1>1, <1>2, <1>3, <1>4, <1>5 DEF Sound, d

(* A closed stream whose client is otherwise as it was. *)
LEMMA ClosedSound ==
    ASSUME NEW c, Sound(c), IsStarted(c), NEW status
    PROVE  Sound(Closed(c, status))
  <1> DEFINE d == Closed(c, status)
  <1>1. /\ c \in Client /\ ~c.failed /\ Ordered(c) /\ Oldest(c) /\ StreamSound(c)
    BY DEF Sound
  <1>2. /\ d \in Client /\ ~d.failed
        /\ d.user = c.user /\ d.queues = c.queues /\ d.nextBatchId = c.nextBatchId
        /\ d.networkEnabled = c.networkEnabled /\ d.pipeline = c.pipeline
        /\ d.state \in {"Initial", "Error"}
        /\ d.sent = <<>> /\ d.answers = <<>> /\ ~d.idleTimer /\ 0 \notin d.requests
    BY <1>1, ClosedIs
  <1> HIDE DEF d
  <1>3. StreamSound(d)
    BY <1>1, <1>2 DEF StreamSound, IsOpen
  <1>4. Ordered(d) /\ Oldest(d)
    BY <1>1, <1>2 DEF Ordered, Oldest, Queue
  <1> QED
    BY <1>2, <1>3, <1>4 DEF Sound, d

(* Close with "ok" ends a stream that nobody needs, and nothing starts it again. *)
LEMMA OkClose ==
    ASSUME NEW c \in Client, ~c.failed, IsStarted(c) => ~c.networkEnabled \/ c.pipeline = <<>>
    PROVE  Close(c, "ok") = IF IsStarted(c)
                            THEN [Closed(c, "ok") EXCEPT !.handshakeComplete = FALSE] ELSE c
  <1>1. CASE IsStarted(c)
    <2> DEFINE d == Closed(c, "ok")
    <2>1. d \in Client /\ ~d.failed /\ ~(d.networkEnabled /\ d.pipeline # <<>>)
      BY <1>1, ClosedIs
    <2> HIDE DEF d
    <2>2. ~ShouldStartWriteStream(d)
      BY <2>1 DEF ShouldStartWriteStream, CanUseNetwork
    <2>3. HardAssert(d, ~ShouldStartWriteStream(d)) = d
      BY <2>1, <2>2, AssertHolds
    <2>4. OnWriteStreamClose(d, "ok") = d
      BY <2>2, <2>3 DEF OnWriteStreamClose, StartIfNeeded
    <2>5. Close(c, "ok") = [OnWriteStreamClose(d, "ok") EXCEPT !.handshakeComplete = FALSE]
      BY <1>1 DEF Close, d
    <2> QED
      BY <1>1, <2>4, <2>5 DEF d
  <1>2. CASE ~IsStarted(c)
    BY <1>2 DEF Close
  <1> QED
    BY <1>1, <1>2

(* What a client has once a stream is closed, on its way up again if needed. *)
Reclosed(c, d) ==
    /\ Sound(d) /\ Settled(d)
    /\ d.user = c.user /\ ~d.handshakeComplete /\ d.answers = <<>>

(* The oldest write was refused: HandleWriteError drops it and goes on. *)
LEMMA ErrorDrops ==
    ASSUME NEW c, Sound(c), c.networkEnabled, c.state = "Error", c.pipeline # <<>>
    PROVE  LET d == HandleWriteError(c) IN
           /\ Sound(d) /\ ~IsOpen(d) /\ d.user = c.user /\ d.networkEnabled
           /\ d.queues = [c.queues EXCEPT ![c.user] = Tail(@)]
           /\ Len(d.pipeline) = kMaxPendingWrites \/ Len(d.pipeline) = Len(Queue(d))
  <1> DEFINE e == [c EXCEPT !.state = "Initial"]
             p == [e EXCEPT !.answers = e.answers, !.pipeline = Tail(@)]
             r == RemoveMutationBatch(p, Head(e.pipeline))
             d == FillWritePipeline(r)
  <1>1. /\ c \in Client /\ ~c.failed /\ Ordered(c) /\ Oldest(c) /\ StreamSound(c)
        /\ c.pipeline \in Seq(Batch)
    BY DEF Sound, Client
  <1>2. /\ e \in Client /\ e.user = c.user /\ e.queues = c.queues
        /\ e.nextBatchId = c.nextBatchId /\ e.networkEnabled = c.networkEnabled
        /\ e.pipeline = c.pipeline /\ e.state = "Initial" /\ e.answers = c.answers
        /\ e.sent = c.sent /\ e.idleTimer = c.idleTimer /\ e.requests = c.requests
        /\ e.failed = c.failed /\ e.handshakeComplete = c.handshakeComplete
    BY <1>1 DEF Client, States
  <1>3. InhibitBackoff([c EXCEPT !.pipeline = Tail(@)]) = p
    <2> DEFINE t == [c EXCEPT !.pipeline = Tail(@)]
    <2>1. t \in Client
      BY <1>1, Tails DEF Client
    <2>2. t.state = "Error" /\ ~t.failed
      BY <1>1 DEF Client
    <2>3. HardAssert(t, ~IsStarted(t)) = t
      BY <2>1, <2>2, AssertHolds DEF IsStarted
    <2>4. [t EXCEPT !.state = "Initial"] = p
      BY <1>1 DEF Client
    <2> QED
      BY <2>3, <2>4 DEF InhibitBackoff
  <1>4. HandleWriteError(c) = d
    BY <1>2, <1>3 DEF HandleWriteError
  <1>5. Sound(e)
    <2> HIDE DEF e
    <2>1. StreamSound(e)
      BY <1>1, <1>2 DEF StreamSound, IsOpen
    <2> QED
      BY <1>1, <1>2, <2>1 DEF Sound, Ordered, Oldest, Queue
  <1> HIDE DEF e
  <1>6. /\ Sound(r) /\ r.user = e.user /\ r.queues = [e.queues EXCEPT ![e.user] = Tail(@)]
        /\ r.networkEnabled = e.networkEnabled /\ r.state = e.state
    <2>1. Droppable(e, e.answers) /\ e.pipeline # <<>>
      BY <1>2 DEF Droppable
    <2>2. r = Dropped(e, e.answers)
      BY DEF Dropped
    <2> HIDE DEF r
    <2> QED
      BY <1>5, <2>1, <2>2, PopSound
  <1> HIDE DEF r
  <1>7. Sound(d) /\ Kept(r, d) /\ Len(d.pipeline) = Room(r)
    BY <1>2, <1>6, FillSound
  <1> HIDE DEF d
  <1>8. Room(r) = kMaxPendingWrites \/ Room(r) = Len(Queue(d))
    BY <1>7 DEF Room, Kept, Queue
  <1>9. /\ ~IsOpen(d) /\ d.user = c.user /\ d.networkEnabled
        /\ d.queues = [c.queues EXCEPT ![c.user] = Tail(@)]
    BY <1>2, <1>6, <1>7 DEF Kept, IsOpen
  <1> QED
    BY <1>4, <1>7, <1>8, <1>9

(* Close with an error: the stream starts again if there is a write to send. *)
LEMMA ErrorClose ==
    ASSUME NEW c, Sound(c), Settled(c), IsStarted(c),
           NEW status \in {"transient", "permanent"}
    PROVE  LET d == Close(c, status) IN
           /\ Reclosed(c, d)
           /\ d.queues = IF status = "permanent" /\ c.pipeline # <<>> /\ c.handshakeComplete
                         THEN [c.queues EXCEPT ![c.user] = Tail(@)] ELSE c.queues
  <1> DEFINE drops == status = "permanent" /\ c.pipeline # <<>> /\ c.handshakeComplete
             e == Closed(c, status)
             x == IF drops THEN HandleWriteError(e) ELSE e
             f == StartIfNeeded(x)
             g == [f EXCEPT !.handshakeComplete = FALSE]
  <1>1. /\ c \in Client /\ ~c.failed /\ c.networkEnabled
        /\ Len(c.pipeline) = kMaxPendingWrites \/ Len(c.pipeline) = Len(Queue(c))
    BY DEF Sound, Settled
  <1>2. /\ Sound(e) /\ e.user = c.user /\ e.queues = c.queues
        /\ e.networkEnabled /\ e.pipeline = c.pipeline
        /\ e.handshakeComplete = c.handshakeComplete /\ e.state = "Error"
    BY <1>1, ClosedIs, ClosedSound
  <1>3. Close(c, status) = g
    BY <1>2 DEF Close, OnWriteStreamClose
  <1> HIDE DEF e
  <1>4. /\ Sound(x) /\ ~IsOpen(x) /\ x.user = c.user /\ x.networkEnabled
        /\ x.queues = IF drops THEN [c.queues EXCEPT ![c.user] = Tail(@)] ELSE c.queues
        /\ Len(x.pipeline) = kMaxPendingWrites \/ Len(x.pipeline) = Len(Queue(x))
    <2>1. CASE drops
      BY <1>2, <2>1, ErrorDrops
    <2>2. CASE ~drops
      BY <1>1, <1>2, <2>2 DEF IsOpen, Queue
    <2> QED
      BY <2>1, <2>2
  <1> HIDE DEF x, drops
  <1>5. /\ Sound(f) /\ Kept(x, f) /\ f.pipeline = x.pipeline
        /\ f.networkEnabled /\ f.pipeline # <<>> => IsStarted(f)
    BY <1>4, StartIfNeededSound
  <1> HIDE DEF f
  <1>6. /\ Sound(g) /\ ~IsOpen(g) /\ g.handshakeComplete = FALSE
        /\ g.user = f.user /\ g.queues = f.queues
        /\ g.networkEnabled = f.networkEnabled /\ g.pipeline = f.pipeline
        /\ g.state = f.state /\ g.answers = <<>>
    BY <1>4, <1>5, HandshakeForgotten DEF Kept
  <1> HIDE DEF g
  <1>7. Queue(g) = Queue(x) /\ g.networkEnabled /\ g.user = c.user /\ g.queues = x.queues
    BY <1>4, <1>5, <1>6 DEF Kept, Queue
  <1>8. Settled(g)
    BY <1>4, <1>5, <1>6, <1>7 DEF Settled, IsStarted
  <1> QED
    BY <1>3, <1>4, <1>6, <1>7, <1>8 DEF Reclosed, drops
-----------------------------------------------------------------------------
(* Starting over *)

(* EnableNetwork of a client that has neither a stream nor a pipeline. *)
LEMMA FreshStart ==
    ASSUME NEW c \in Client, ~c.failed, Ordered(c), c.pipeline = <<>>,
           c.state = "Initial", 0 \notin c.requests, c.handshakeComplete = FALSE,
           ~c.idleTimer, c.sent = <<>>, c.answers = <<>>
    PROVE  LET d == EnableNetwork(c) IN
           Reclosed(c, d) /\ d.queues = c.queues
  <1> DEFINE e == [c EXCEPT !.networkEnabled = TRUE]
             d == FillWritePipeline(e)
  <1>1. /\ e \in Client /\ e.user = c.user /\ e.queues = c.queues
        /\ e.nextBatchId = c.nextBatchId /\ e.networkEnabled
        /\ e.pipeline = <<>> /\ e.state = "Initial" /\ e.answers = <<>>
        /\ e.sent = <<>> /\ ~e.idleTimer /\ e.requests = c.requests
        /\ ~e.failed /\ ~e.handshakeComplete
    BY DEF Client
  <1>2. EnableNetwork(c) = d
    BY DEF EnableNetwork
  <1> HIDE DEF e
  <1>3. Queue(c) \in Seq(Batch) /\ Queue(e) = Queue(c) /\ Ordered(e)
    BY <1>1, QueueFacts DEF Ordered, Queue
  <1>4. Oldest(e)
    <2>1. Len(e.pipeline) = 0 /\ Len(Queue(e)) \in Nat /\ SubSeq(Queue(e), 1, 0) = <<>>
      BY <1>1, <1>3, SubSeqEmpty
    <2> QED
      BY <1>1, <2>1, Constants DEF Oldest
  <1>5. Sound(e)
    BY <1>1, <1>3, <1>4 DEF Sound, StreamSound, IsOpen
  <1>6. Sound(d) /\ Kept(e, d) /\ Len(d.pipeline) = Room(e) /\ (d.pipeline # <<>> => IsStarted(d))
    BY <1>1, <1>5, FillSound
  <1> HIDE DEF d
  <1>7. /\ d.user = c.user /\ d.queues = c.queues /\ d.networkEnabled
        /\ d.answers = <<>> /\ ~d.handshakeComplete
    BY <1>1, <1>6 DEF Kept
  <1>8. Room(e) = kMaxPendingWrites \/ Room(e) = Len(Queue(d))
    BY <1>3, <1>7 DEF Room, Queue
  <1>9. Settled(d)
    BY <1>6, <1>7, <1>8 DEF Settled
  <1> QED
    BY <1>2, <1>6, <1>7, <1>9 DEF Reclosed

(* What RestartNetwork needs: after HandleUserChange the pipeline is still that
   of the user before. *)
Restartable(c) ==
    /\ c \in Client /\ ~c.failed /\ Ordered(c)
    /\ 0 \in c.requests => c.state = "Starting"
    /\ ~IsOpen(c) => /\ c.sent = <<>> /\ c.answers = <<>>
                     /\ ~c.idleTimer /\ ~c.handshakeComplete

(* Between two tasks RestartNetwork may always be called. *)
LEMMA SettledRestartable ==
    ASSUME NEW c, Sound(c), Settled(c)
    PROVE  Restartable(c)
  BY DEF Sound, Settled, StreamSound, Restartable

(* RestartNetwork forgets the pipeline and the stream and begins again on the
   queue of whoever is signed in; its graceful stop finds no stream that
   should run. *)
LEMMA RestartSound ==
    ASSUME NEW c, Restartable(c)
    PROVE  LET d == RestartNetwork(c) IN
           Reclosed(c, d) /\ d.queues = c.queues
  <1> DEFINE down == [c EXCEPT !.networkEnabled = FALSE]
             x == IF IsStarted(down)
                  THEN [Closed(down, "ok") EXCEPT !.handshakeComplete = FALSE] ELSE down
             y == [x EXCEPT !.pipeline = <<>>]
             z == [y EXCEPT !.state = "Initial"]
  <1>1. c \in Client /\ ~c.failed /\ Ordered(c)
    BY DEF Restartable
  <1>2. /\ down \in Client /\ ~down.failed /\ ~down.networkEnabled
        /\ down.user = c.user /\ down.queues = c.queues /\ down.nextBatchId = c.nextBatchId
        /\ down.state = c.state /\ down.requests = c.requests /\ down.sent = c.sent
        /\ down.answers = c.answers /\ down.idleTimer = c.idleTimer
        /\ down.handshakeComplete = c.handshakeComplete
    BY <1>1 DEF Client
  <1> HIDE DEF down
  <1>3. /\ x \in Client /\ ~x.failed /\ x.user = c.user /\ x.queues = c.queues
        /\ x.nextBatchId = c.nextBatchId /\ x.state \in {"Initial", "Error"}
        /\ 0 \notin x.requests /\ x.handshakeComplete = FALSE /\ ~x.idleTimer
        /\ x.sent = <<>> /\ x.answers = <<>>
    <2>1. CASE IsStarted(down)
      <3> DEFINE e == Closed(down, "ok")
      <3>1. /\ e \in Client /\ ~e.failed
            /\ e.user = c.user /\ e.queues = c.queues /\ e.nextBatchId = c.nextBatchId
            /\ e.state = "Initial" /\ 0 \notin e.requests
            /\ e.sent = <<>> /\ e.answers = <<>> /\ ~e.idleTimer
        BY <1>2, <2>1, ClosedIs
      <3> HIDE DEF e
      <3>2. x = [e EXCEPT !.handshakeComplete = FALSE]
        BY <2>1 DEF e
      <3> QED
        BY <3>1, <3>2 DEF Client
    <2>2. CASE ~IsStarted(down)
      <3>1. c.state \in {"Initial", "Error"} /\ ~IsOpen(c)
        BY <1>1, <1>2, <2>2 DEF IsStarted, IsOpen, Client, States
      <3>2. down.handshakeComplete \in BOOLEAN
        BY <1>2 DEF Client
      <3> QED
        BY <1>2, <2>2, <3>1, <3>2 DEF Restartable
    <2> QED
      BY <2>1, <2>2
  <1>4. Close(down, "ok") = x
    BY <1>2, OkClose
  <1> HIDE DEF x
  <1>5. <<>> \in Seq(Batch)
    BY EmptySeq
  <1>6. /\ y \in Client /\ ~y.failed /\ ~IsStarted(y)
        /\ z \in Client /\ ~z.failed /\ z.user = c.user /\ z.queues = c.queues
        /\ z.nextBatchId = c.nextBatchId /\ z.state = "Initial" /\ z.pipeline = <<>>
        /\ 0 \notin z.requests /\ z.handshakeComplete = FALSE /\ ~z.idleTimer
        /\ z.sent = <<>> /\ z.answers = <<>>
    BY <1>3, <1>5 DEF Client, IsStarted, States
  <1>7. RestartNetwork(c) = EnableNetwork(z)
    <2>1. DisableNetworkInternal(down) = y
      BY <1>4 DEF DisableNetworkInternal
    <2>2. InhibitBackoff(y) = z
      <3> HIDE DEF y
      <3>1. HardAssert(y, ~IsStarted(y)) = y
        BY <1>6, AssertHolds
      <3> QED
        BY <3>1 DEF InhibitBackoff
    <2> QED
      BY <2>1, <2>2 DEF RestartNetwork, down
  <1> HIDE DEF y, z
  <1>8. Ordered(z)
    BY <1>1, <1>6 DEF Ordered
  <1>9. Reclosed(z, EnableNetwork(z)) /\ EnableNetwork(z).queues = z.queues
    BY <1>6, <1>8, FreshStart
  <1> QED
    BY <1>6, <1>7, <1>9 DEF Reclosed

(* Ids go on above those of every queue on disk, whoever signs in. *)
LEMMA UserChanges ==
    ASSUME NEW c, Restartable(c), NEW u \in Users
    PROVE  LET d == HandleUserChange(c, u) IN
           Restartable(d) /\ d.user = u /\ d.queues = c.queues
  <1> DEFINE d == HandleUserChange(c, u)
             id == LoadNextBatchId(c.queues)
  <1>1. c \in Client /\ ~c.failed /\ Ordered(c) /\ c.queues \in [Users -> Seq(Batch)]
    BY DEF Restartable, Client
  <1>2. /\ id \in Nat \ {0}
        /\ \A v \in Users : \A k \in DOMAIN c.queues[v] : c.queues[v][k].id < id
    BY <1>1, NextBatchId DEF Ordered
  <1>3. d = [c EXCEPT !.user = u, !.nextBatchId = id]
    BY DEF HandleUserChange
  <1> HIDE DEF id, d
  <1>4. /\ d \in Client /\ d.user = u /\ d.queues = c.queues /\ d.nextBatchId = id
        /\ d.state = c.state /\ d.requests = c.requests /\ d.sent = c.sent
        /\ d.answers = c.answers /\ d.idleTimer = c.idleTimer /\ d.failed = c.failed
        /\ d.handshakeComplete = c.handshakeComplete
    BY <1>1, <1>2, <1>3 DEF Client
  <1>5. Ordered(d)
    BY <1>1, <1>2, <1>4 DEF Ordered
  <1> QED
    BY <1>1, <1>4, <1>5 DEF Restartable, IsOpen, d

(* A process starts on the queues it finds. *)
LEMMA InitializedSound ==
    ASSUME NEW u \in Users, NEW queues \in [Users -> Seq(Batch)],
           \A v \in Users : \A k \in DOMAIN queues[v] :
              /\ queues[v][k].id <= MaxBatchId
              /\ \A j \in DOMAIN queues[v] : j < k => queues[v][j].id < queues[v][k].id
    PROVE  LET d == Initialized(u, queues) IN
           /\ Sound(d) /\ Settled(d)
           /\ d.user = u /\ ~d.handshakeComplete /\ d.answers = <<>> /\ d.queues = queues
  <1> DEFINE id == LoadNextBatchId(queues)
             c == [user |-> u, queues |-> queues, nextBatchId |-> id,
                   networkEnabled |-> FALSE, pipeline |-> <<>>,
                   state |-> "Initial", handshakeComplete |-> FALSE, idleTimer |-> FALSE,
                   requests |-> {}, sent |-> <<>>, answers |-> <<>>, failed |-> FALSE]
  <1>1. /\ id \in Nat \ {0}
        /\ \A v \in Users : \A k \in DOMAIN queues[v] : queues[v][k].id < id
    BY NextBatchId
  <1>2. Initialized(u, queues) = EnableNetwork(c)
    BY DEF Initialized
  <1> HIDE DEF id
  <1>3. <<>> \in Seq(Batch) /\ <<>> \in Seq(Batch \cup {Handshake}) /\ <<>> \in Seq(Answers)
    BY EmptySeq
  <1>4. c \in Client
    BY <1>1, <1>3 DEF Client, States
  <1>5. Ordered(c)
    BY <1>1 DEF Ordered
  <1>6. /\ c.user = u /\ c.queues = queues /\ c.pipeline = <<>> /\ c.state = "Initial"
        /\ 0 \notin c.requests /\ c.handshakeComplete = FALSE /\ ~c.idleTimer
        /\ c.sent = <<>> /\ c.answers = <<>> /\ ~c.failed
    OBVIOUS
  <1> HIDE DEF c
  <1>7. Reclosed(c, EnableNetwork(c)) /\ EnableNetwork(c).queues = c.queues
    BY <1>4, <1>5, <1>6, FreshStart
  <1> QED
    BY <1>2, <1>6, <1>7 DEF Reclosed
-----------------------------------------------------------------------------
(* The tasks, one by one: what a task makes of a client that is as it should be
   between two tasks, and what of that AppDB sees. *)
Good(c) == Sound(c) /\ Settled(c)

Unseen(c, d) ==
    /\ d.user = c.user /\ d.queues = c.queues
    /\ d.handshakeComplete = c.handshakeComplete /\ d.answers = c.answers

(* The parts of Good that the tasks need. *)
LEMMA GoodFacts ==
    ASSUME NEW c, Good(c)
    PROVE  /\ c \in Client /\ ~c.failed /\ Ordered(c) /\ Oldest(c) /\ StreamSound(c) /\ Settled(c)
           /\ c.user \in Users /\ c.queues \in [Users -> Seq(Batch)] /\ c.networkEnabled
           /\ c.pipeline \in Seq(Batch) /\ c.answers \in Seq(Answers)
           /\ c.sent \in Seq(Batch \cup {Handshake})
           /\ Queue(c) \in Seq(Batch) /\ Queue(c) = c.queues[c.user]
           /\ c.handshakeComplete => IsOpen(c) /\ Matched(c)
           /\ c.sent # <<>> \/ c.answers # <<>> => IsOpen(c)
           /\ IsOpen(c) /\ ~c.handshakeComplete => Handshaking(c)
  BY QueueFacts DEF Good, Sound, Settled, StreamSound, Client, Queue

(* WriteMutation gives the write the next id and the last place. *)
LEMMA WriteLocallySound ==
    ASSUME NEW c, Sound(c), NEW write \in AppWrites, c.nextBatchId <= MaxBatchId
    PROVE  LET d == WriteLocally(c, write) IN
           /\ Sound(d)
           /\ d.user = c.user /\ d.networkEnabled = c.networkEnabled
           /\ d.handshakeComplete = c.handshakeComplete /\ d.answers = c.answers
           /\ d.state = c.state
           /\ d.queues = [c.queues EXCEPT
                ![c.user] = Append(@, [id |-> c.nextBatchId, write |-> write])]
  <1> DEFINE q == Queue(c)
             b == [id |-> c.nextBatchId, write |-> write]
             d == WriteLocally(c, write)
             n == Len(c.pipeline)
  <1>1. /\ c \in Client /\ ~c.failed /\ Ordered(c) /\ Oldest(c) /\ StreamSound(c)
        /\ c.pipeline \in Seq(Batch) /\ c.answers \in Seq(Answers)
        /\ c.queues \in [Users -> Seq(Batch)] /\ c.user \in Users
        /\ c.nextBatchId \in Nat \ {0}
    BY DEF Sound, Client
  <1>2. /\ q \in Seq(Batch) /\ Len(q) \in Nat /\ n \in Nat /\ n <= Len(q)
        /\ n <= kMaxPendingWrites /\ c.pipeline = SubSeq(q, 1, n) /\ DOMAIN q = 1 .. Len(q)
    BY <1>1, QueueFacts DEF Oldest
  <1>3. q = c.queues[c.user]
    BY DEF Queue
  <1>4. b \in Batch /\ b.id = c.nextBatchId
    BY <1>1 DEF Batch
  <1> HIDE DEF q, b, n
  <1>5. /\ Append(q, b) \in Seq(Batch) /\ Len(Append(q, b)) = Len(q) + 1
        /\ \A k \in 1 .. Len(q) : Append(q, b)[k] = q[k]
        /\ Append(q, b)[Len(q) + 1] = b
    BY <1>2, <1>4, AppendProperties
  <1>6. d = [c EXCEPT !.queues = [@ EXCEPT ![c.user] = Append(q, b)], !.nextBatchId = @ + 1]
    BY <1>3 DEF WriteLocally, b
  <1> HIDE DEF d
  <1>7. /\ d \in Client /\ d.user = c.user
        /\ d.queues = [c.queues EXCEPT ![c.user] = Append(q, b)]
        /\ d.nextBatchId = c.nextBatchId + 1
        /\ d.networkEnabled = c.networkEnabled /\ d.pipeline = c.pipeline
        /\ d.state = c.state /\ d.requests = c.requests /\ d.sent = c.sent
        /\ d.answers = c.answers /\ d.idleTimer = c.idleTimer /\ d.failed = c.failed
        /\ d.handshakeComplete = c.handshakeComplete
    <2>1. [c.queues EXCEPT ![c.user] = Append(q, b)] \in [Users -> Seq(Batch)]
      BY <1>1, <1>5
    <2>2. c.nextBatchId + 1 \in Nat \ {0}
      BY <1>1
    <2> QED
      BY <1>1, <1>6, <2>1, <2>2 DEF Client
  <1>8. Queue(d) = Append(q, b)
    BY <1>1, <1>7 DEF Queue
  <1>9. Ordered(d)
    <2>1. ASSUME NEW u \in Users, NEW k \in DOMAIN d.queues[u]
          PROVE  /\ d.queues[u][k].id < d.nextBatchId
                 /\ d.queues[u][k].id <= MaxBatchId
                 /\ \A j \in DOMAIN d.queues[u] :
                       j < k => d.queues[u][j].id < d.queues[u][k].id
      <3>1. CASE u = c.user
        <4>1. d.queues[u] = Append(q, b)
          BY <1>1, <1>7, <3>1
        <4>2. k \in 1 .. Len(q) + 1 /\ DOMAIN Append(q, b) = 1 .. Len(q) + 1
          BY <1>5, <2>1, <4>1
        <4>3. \A i \in 1 .. Len(q) : /\ q[i].id < c.nextBatchId /\ q[i].id <= MaxBatchId
                                     /\ \A j \in 1 .. Len(q) : j < i => q[j].id < q[i].id
          BY <1>1, <1>2, <1>3 DEF Ordered
        <4>4. \A i \in 1 .. Len(q) : q[i].id \in Nat
          <5>1. \A i \in 1 .. Len(q) : q[i] \in Batch
            BY <1>2, ElementOfSeq
          <5> QED
            BY <5>1 DEF Batch
        <4>5. CASE k \in 1 .. Len(q)
          <5>1. \A j \in 1 .. Len(q) + 1 : j < k => j \in 1 .. Len(q)
            BY <1>2, <4>5
          <5>2. q[k].id < c.nextBatchId + 1
            BY <1>1, <4>3, <4>4, <4>5
          <5> QED
            BY <1>5, <1>7, <4>1, <4>2, <4>3, <4>5, <5>1, <5>2
        <4>6. CASE k = Len(q) + 1
          <5>1. \A j \in 1 .. Len(q) + 1 : j < k => j \in 1 .. Len(q)
            BY <1>2, <4>6
          <5>2. d.queues[u][k].id = c.nextBatchId
            BY <1>4, <1>5, <4>1, <4>6
          <5> QED
            BY <1>1, <1>5, <1>7, <4>1, <4>2, <4>3, <5>1, <5>2
        <4> QED
          BY <1>2, <4>2, <4>5, <4>6
      <3>2. CASE u # c.user
        <4>1. d.queues[u] = c.queues[u] /\ d.queues[u] \in Seq(Batch)
          BY <1>1, <1>7, <3>2
        <4>2. d.queues[u][k] \in Batch
          BY <2>1, <4>1, LenProperties, ElementOfSeq
        <4>3. d.queues[u][k].id \in Nat
          BY <4>2 DEF Batch
        <4>4. /\ d.queues[u][k].id < c.nextBatchId /\ d.queues[u][k].id <= MaxBatchId
              /\ \A j \in DOMAIN d.queues[u] :
                    j < k => d.queues[u][j].id < d.queues[u][k].id
          BY <1>1, <2>1, <4>1 DEF Ordered
        <4> QED
          BY <1>1, <1>7, <4>3, <4>4
      <3> QED
        BY <3>1, <3>2
    <2> QED
      BY <2>1 DEF Ordered
  <1>10. Oldest(d)
    <2>1. SubSeq(Append(q, b), 0 + 1, n) = SubSeq(q, 0 + 1, n)
      BY <1>2, <1>4, AppendPrefix
    <2>2. n <= Len(Append(q, b)) /\ 0 + 1 = 1
      BY <1>2, <1>5
    <2> QED
      BY <1>2, <1>7, <1>8, <2>1, <2>2 DEF Oldest, n
  <1>11. IsOpen(c) /\ c.handshakeComplete => Matched(d)
    <2> SUFFICES ASSUME IsOpen(c) /\ c.handshakeComplete PROVE Matched(d)
      OBVIOUS
    <2> DEFINE a == Len(c.answers)
    <2>1. Matched(c)
      BY <1>1 DEF StreamSound
    <2>2. a \in Nat /\ a <= n /\ c.sent = SubSeq(q, a + 1, n)
      BY <1>1, <2>1 DEF Matched, q, n
    <2>3. SubSeq(Append(q, b), a + 1, n) = SubSeq(q, a + 1, n)
      BY <1>2, <1>4, <2>2, AppendPrefix
    <2> QED
      BY <1>7, <1>8, <2>1, <2>2, <2>3 DEF Matched, n
  <1>12. StreamSound(d)
    BY <1>1, <1>7, <1>11 DEF StreamSound, IsOpen, Handshaking
  <1>13. d.queues = [c.queues EXCEPT ![c.user] = Append(@, b)]
    BY <1>3, <1>7
  <1>14. Sound(d)
    BY <1>1, <1>7, <1>9, <1>10, <1>12 DEF Sound
  <1> QED
    BY <1>7, <1>13, <1>14 DEF d, b

(* SyncEngine::WriteMutations: AppDB sees one write more in the user's queue. *)
LEMMA AppWriteGood ==
    ASSUME Good(client), NEW write \in AppWrites, AppWrite(write)
    PROVE  /\ Good(client')
           /\ Unseen([client EXCEPT !.queues[client.user] =
                        Append(@, [id |-> client.nextBatchId, write |-> write])], client')
  <1> DEFINE c == client
             w == WriteLocally(c, write)
             d == FillWritePipeline(w)
  <1>1. c \in Client /\ Sound(c) /\ Settled(c) /\ c.networkEnabled /\ c.nextBatchId <= MaxBatchId
    BY GoodFacts DEF Good, AppWrite
  <1>2. /\ Sound(w) /\ w.user = c.user /\ w.networkEnabled
        /\ w.handshakeComplete = c.handshakeComplete /\ w.answers = c.answers
        /\ w.state = c.state
        /\ w.queues = [c.queues EXCEPT
             ![c.user] = Append(@, [id |-> c.nextBatchId, write |-> write])]
    BY <1>1, WriteLocallySound
  <1>3. client' = d
    BY DEF AppWrite
  <1> HIDE DEF w
  <1>4. /\ Sound(d) /\ Kept(w, d) /\ Len(d.pipeline) = Room(w)
        /\ d.pipeline # <<>> => IsStarted(d)
    BY <1>2, FillSound
  <1> HIDE DEF d
  <1>5. Settled(d)
    <2>1. d.networkEnabled /\ Queue(d) = Queue(w)
      BY <1>2, <1>4 DEF Kept, Queue
    <2>2. d.handshakeComplete => IsOpen(d)
      BY <1>1, <1>2, <1>4 DEF Settled, Kept, IsOpen
    <2> QED
      BY <1>4, <2>1, <2>2 DEF Settled, Room
  <1> QED
    BY <1>1, <1>2, <1>3, <1>4, <1>5 DEF Good, Unseen, Kept, Client

(* A token of a closed stream is dropped; the one of this stream finds it
   Starting, and opens it or closes it. *)
LEMMA TokenArrivesGood ==
    ASSUME Good(client), NEW age \in 0 .. MaxAge, NEW ok \in BOOLEAN, TokenArrives(age, ok)
    PROVE  /\ Good(client')
           /\ Unseen(client, client') \/ (Unseen([client EXCEPT !.answers = <<>>,
                                                    !.handshakeComplete = FALSE], client'))
  <1> DEFINE c == client
             answered == [c EXCEPT !.requests = @ \ {age}]
             resumed == HardAssert(answered, c.state = "Starting")
  <1>1. /\ c \in Client /\ ~c.failed /\ Ordered(c) /\ Oldest(c) /\ StreamSound(c) /\ Settled(c)
        /\ c.answers \in Seq(Answers)
    BY GoodFacts
  <1>2. age \in c.requests
    BY DEF TokenArrives
  <1>3. /\ answered \in Client /\ ~answered.failed
        /\ answered.user = c.user /\ answered.queues = c.queues
        /\ answered.nextBatchId = c.nextBatchId /\ answered.networkEnabled = c.networkEnabled
        /\ answered.pipeline = c.pipeline /\ answered.state = c.state
        /\ answered.requests = c.requests \ {age} /\ answered.sent = c.sent
        /\ answered.answers = c.answers /\ answered.idleTimer = c.idleTimer
        /\ answered.handshakeComplete = c.handshakeComplete
    BY <1>1 DEF Client
  <1>4. client' = IF age # 0 THEN answered
                  ELSE IF ok THEN WriteHandshake([resumed EXCEPT !.state = "Open"])
                  ELSE Close(resumed, "transient")
    BY DEF TokenArrives
  <1> HIDE DEF answered
  <1>5. Sound(answered) /\ Settled(answered)
    <2>1. Matched(c) => Matched(answered)
      BY <1>3 DEF Matched, Queue
    <2>2. StreamSound(answered)
      BY <1>1, <1>3, <2>1 DEF StreamSound, IsOpen, Handshaking
    <2> QED
      BY <1>1, <1>3, <2>2 DEF Sound, Settled, Ordered, Oldest, Queue, IsOpen, IsStarted
  <1>6. CASE age # 0
    BY <1>3, <1>4, <1>5, <1>6 DEF Good, Unseen
  <1>7. CASE age = 0
    <2>1. c.state = "Starting" /\ c.pipeline # <<>> /\ ~c.handshakeComplete
      BY <1>1, <1>2, <1>7 DEF StreamSound, Settled, IsOpen
    <2>2. resumed = answered
      BY <1>3, <2>1, AssertHolds
    <2>3. CASE ok
      <3> DEFINE open == [answered EXCEPT !.state = "Open"]
                 d == [open EXCEPT !.idleTimer = FALSE, !.sent = @ \o <<Handshake>>]
      <3>1. open \in Client /\ ~open.failed /\ IsOpen(open) /\ ~open.handshakeComplete
        BY <1>3, <2>1 DEF Client, States, IsOpen
      <3>2. WriteHandshake(open) = d
        <4> HIDE DEF open
        <4>1. HardAssert(open, IsOpen(open) /\ ~open.handshakeComplete) = open
          BY <3>1, AssertHolds
        <4>2. HardAssert(open, IsOpen(open)) = open
          BY <3>1, AssertHolds
        <4> QED
          BY <4>1, <4>2 DEF WriteHandshake, Write
      <3>3. client' = d
        BY <1>4, <1>7, <2>2, <2>3, <3>2
      <3>4. c.sent = <<>> /\ c.answers = <<>>
        BY <1>1, <2>1 DEF StreamSound, IsOpen
      <3>5. <<Handshake>> \in Seq(Batch \cup {Handshake}) /\ <<>> \o <<Handshake>> = <<Handshake>>
        BY ConcatEmptySeq
      <3>6. d = [answered EXCEPT !.state = "Open", !.idleTimer = FALSE, !.sent = <<Handshake>>]
        BY <1>3, <3>4, <3>5 DEF Client
      <3> HIDE DEF d
      <3>7. /\ d \in Client /\ ~d.failed /\ d.user = c.user /\ d.queues = c.queues
            /\ d.nextBatchId = c.nextBatchId /\ d.networkEnabled = c.networkEnabled
            /\ d.pipeline = c.pipeline /\ d.state = "Open" /\ 0 \notin d.requests
            /\ d.sent = <<Handshake>> /\ d.answers = c.answers /\ d.idleTimer = FALSE
            /\ d.handshakeComplete = c.handshakeComplete
        BY <1>3, <1>7, <3>5, <3>6 DEF Client, States
      <3>8. StreamSound(d)
        BY <2>1, <3>4, <3>7 DEF StreamSound, IsOpen, Handshaking
      <3>9. Sound(d) /\ Settled(d)
        BY <1>1, <2>1, <3>7, <3>8 DEF Sound, Settled, Ordered, Oldest, Queue, IsOpen, IsStarted
      <3> QED
        BY <3>3, <3>7, <3>9 DEF Good, Unseen
    <2>4. CASE ~ok
      <3>1. client' = Close(answered, "transient")
        BY <1>4, <1>7, <2>2, <2>4
      <3>2. IsStarted(answered)
        BY <1>3, <2>1 DEF IsStarted
      <3>3. Reclosed(answered, Close(answered, "transient"))
            /\ Close(answered, "transient").queues = answered.queues
        BY <1>5, <3>2, ErrorClose
      <3>4. c.answers = <<>> /\ c.handshakeComplete = FALSE
        BY <1>1, <2>1 DEF StreamSound, IsOpen, Client
      <3>5. Close(answered, "transient").handshakeComplete \in BOOLEAN
        BY <3>3 DEF Reclosed, Sound, Client
      <3> QED
        BY <1>3, <3>1, <3>3, <3>4, <3>5 DEF Reclosed, Good, Unseen
    <2> QED
      BY <2>3, <2>4
  <1> QED
    BY <1>6, <1>7

(* The first answer of an open stream is the handshake's, and what waited for
   it is sent. *)
LEMMA HandshakeCompleteGood ==
    ASSUME Good(client), OnWriteStreamHandshakeComplete
    PROVE  /\ Good(client')
           /\ Unseen([client EXCEPT !.answers = <<>>, !.handshakeComplete = TRUE], client')
  <1> DEFINE c == client
             n == Len(c.pipeline)
             complete == [c EXCEPT !.answers = Tail(@), !.handshakeComplete = TRUE]
             d == [complete EXCEPT !.idleTimer = FALSE, !.sent = @ \o c.pipeline]
  <1>1. /\ c \in Client /\ ~c.failed /\ Ordered(c) /\ Oldest(c) /\ StreamSound(c) /\ Settled(c)
        /\ c.pipeline \in Seq(Batch) /\ Queue(c) \in Seq(Batch)
        /\ c.answers # <<>> => IsOpen(c)
        /\ IsOpen(c) /\ ~c.handshakeComplete => Handshaking(c)
    BY GoodFacts
  <1>2. c.answers # <<>> /\ ~c.handshakeComplete
    BY DEF OnWriteStreamHandshakeComplete, Answered
  <1>3. IsOpen(c) /\ c.pipeline # <<>> /\ c.sent = <<>> /\ c.answers = <<"handshake">>
    BY <1>1, <1>2 DEF Handshaking
  <1>4. Tail(c.answers) = <<>> /\ <<>> \in Seq(Answers)
    BY <1>3
  <1>5. /\ complete \in Client /\ ~complete.failed /\ IsOpen(complete)
        /\ complete.handshakeComplete /\ complete.pipeline = c.pipeline
    BY <1>1, <1>3, <1>4 DEF Client, IsOpen
  <1>6. client' = d
    <2>1. client' = WriteMutations(complete, complete.pipeline)
      <3>1. Popped = [c EXCEPT !.answers = Tail(@)]
        BY DEF Popped
      <3>2. client' = WriteMutations([Popped EXCEPT !.handshakeComplete = TRUE],
                                     [Popped EXCEPT !.handshakeComplete = TRUE].pipeline)
        BY DEF OnWriteStreamHandshakeComplete
      <3> QED
        BY <3>1, <3>2
    <2> HIDE DEF complete
    <2>2. HardAssert(complete, IsOpen(complete) /\ complete.handshakeComplete) = complete
      BY <1>5, AssertHolds
    <2>3. HardAssert(complete, IsOpen(complete)) = complete
      BY <1>5, AssertHolds
    <2> QED
      BY <1>5, <2>1, <2>2, <2>3 DEF WriteMutations, Write
  <1>7. <<>> \o c.pipeline = c.pipeline /\ c.pipeline \in Seq(Batch \cup {Handshake})
    BY <1>1, ConcatEmptySeq, SeqMonotonic
  <1>8. d = [c EXCEPT !.answers = <<>>, !.handshakeComplete = TRUE, !.idleTimer = FALSE,
                      !.sent = c.pipeline]
    BY <1>1, <1>3, <1>4, <1>7 DEF Client
  <1> HIDE DEF d
  <1>9. /\ d \in Client /\ ~d.failed /\ d.user = c.user /\ d.queues = c.queues
        /\ d.nextBatchId = c.nextBatchId /\ d.networkEnabled = c.networkEnabled
        /\ d.pipeline = c.pipeline /\ d.state = c.state /\ d.requests = c.requests
        /\ d.sent = c.pipeline /\ d.answers = <<>> /\ d.idleTimer = FALSE
        /\ d.handshakeComplete = TRUE
    BY <1>1, <1>4, <1>7, <1>8 DEF Client
  <1>10. Matched(d)
    <2>1. Len(d.answers) = 0 /\ DOMAIN d.answers = {} /\ 0 + 1 = 1 /\ Len(c.pipeline) \in Nat
      BY <1>1, <1>9
    <2>2. d.sent = SubSeq(Queue(d), 1, Len(d.pipeline))
      BY <1>1, <1>9 DEF Oldest, Queue
    <2> QED
      BY <1>9, <2>1, <2>2 DEF Matched
  <1>11. StreamSound(d)
    BY <1>1, <1>3, <1>9, <1>10 DEF StreamSound, IsOpen
  <1>12. Sound(d) /\ Settled(d)
    BY <1>1, <1>3, <1>9, <1>11 DEF Sound, Settled, Ordered, Oldest, Queue, IsOpen, IsStarted
  <1> QED
    BY <1>1, <1>6, <1>9, <1>12 DEF Good, Unseen, Client

(* The first answer after the handshake is the first write's. *)
LEMMA MutationResultGood ==
    ASSUME Good(client), OnWriteStreamMutationResult
    PROVE  /\ Good(client')
           /\ client.user \notin Denied /\ client.answers # <<>> /\ Queue(client) # <<>>
           /\ Unseen([client EXCEPT !.answers = Tail(@), !.queues[client.user] = Tail(@)],
                     client')
  <1> DEFINE c == client
             x == Dropped(c, Tail(c.answers))
             d == FillWritePipeline(x)
  <1>1. /\ c \in Client /\ ~c.failed /\ Sound(c) /\ Settled(c)
        /\ c.pipeline \in Seq(Batch) /\ c.answers \in Seq(Answers)
        /\ c.handshakeComplete => IsOpen(c) /\ Matched(c)
        /\ Oldest(c) /\ Queue(c) \in Seq(Batch) /\ c.networkEnabled
    BY GoodFacts DEF Good
  <1>2. c.answers # <<>> /\ Head(c.answers) # "refused" /\ c.handshakeComplete
    BY DEF OnWriteStreamMutationResult, Answered
  <1>3. Len(c.answers) \in Nat \ {0} /\ Head(c.answers) = c.answers[1]
    BY <1>1, <1>2, Tails
  <1>4. Head(c.answers) = "result" /\ c.user \notin Denied
    <2>1. 1 \in DOMAIN c.answers
      BY <1>1, <1>3
    <2> QED
      BY <1>1, <1>2, <1>3, <2>1 DEF Matched
  <1>5. c.pipeline # <<>> /\ Queue(c) # <<>>
    <2>1. Len(c.answers) <= Len(c.pipeline) /\ Len(c.pipeline) <= Len(Queue(c))
          /\ Len(c.pipeline) \in Nat /\ Len(Queue(c)) \in Nat
      BY <1>1, <1>2 DEF Matched, Oldest
    <2>2. Len(c.pipeline) # 0 /\ Len(Queue(c)) # 0
      BY <1>3, <2>1
    <2> QED
      BY <2>2, EmptySeq
  <1>6. client' = d
    <2> DEFINE p == [c EXCEPT !.answers = Tail(@)]
    <2>1. Popped = p
      BY DEF Popped
    <2>2. p \in Client /\ ~p.failed /\ p.pipeline = c.pipeline
      BY <1>1, <1>2, Tails DEF Client
    <2>3. client' = FillWritePipeline(
                      RemoveMutationBatch([HardAssert(p, c.pipeline # <<>>) EXCEPT
                                             !.pipeline = Tail(@)],
                                          Head(c.pipeline)))
      BY <2>1 DEF OnWriteStreamMutationResult
    <2> HIDE DEF p
    <2>4. HardAssert(p, c.pipeline # <<>>) = p
      BY <1>5, <2>2, AssertHolds
    <2>5. [p EXCEPT !.pipeline = Tail(@)] = [c EXCEPT !.answers = Tail(c.answers), !.pipeline = Tail(@)]
      BY <1>1 DEF Client, p
    <2> QED
      BY <2>3, <2>4, <2>5 DEF Dropped
  <1>7. /\ Sound(x) /\ x.user = c.user /\ x.queues = [c.queues EXCEPT ![c.user] = Tail(@)]
        /\ x.networkEnabled = c.networkEnabled /\ x.handshakeComplete = c.handshakeComplete
        /\ x.state = c.state /\ x.answers = Tail(c.answers)
    <2>1. Droppable(c, Tail(c.answers)) /\ Sound(c) /\ c.pipeline # <<>>
      BY <1>1, <1>2, <1>4, <1>5 DEF Droppable
    <2> HIDE DEF c
    <2> QED
      BY <2>1, PopSound
  <1> HIDE DEF x
  <1>8. Sound(d) /\ Kept(x, d) /\ Len(d.pipeline) = Room(x) /\ (d.pipeline # <<>> => IsStarted(d))
    BY <1>1, <1>7, FillSound
  <1> HIDE DEF d
  <1>9. Settled(d)
    <2>1. d.networkEnabled /\ Queue(d) = Queue(x)
      BY <1>1, <1>7, <1>8 DEF Kept, Queue
    <2>2. IsOpen(d)
      BY <1>1, <1>2, <1>7, <1>8 DEF Kept, IsOpen
    <2> QED
      BY <1>8, <2>1, <2>2 DEF Settled, Room
  <1> QED
    BY <1>1, <1>4, <1>5, <1>2, <1>6, <1>7, <1>8, <1>9 DEF Good, Unseen, Kept, Client

(* A stream the network or the server ends takes no write with it. *)
LEMMA StreamBrokenGood ==
    ASSUME Good(client), NEW status \in {"transient", "permanent"}, StreamBroken(status)
    PROVE  /\ Good(client')
           /\ Unseen([client EXCEPT !.answers = <<>>, !.handshakeComplete = FALSE], client')
  <1> DEFINE c == client
             d == Close(c, status)
  <1>1. c \in Client /\ Sound(c) /\ Settled(c) /\ IsStarted(c)
    BY GoodFacts DEF Good, StreamBroken, IsOpen, IsStarted
  <1>2. status = "permanent" => ~c.handshakeComplete
    BY DEF StreamBroken
  <1>3. Reclosed(c, d) /\ d.queues = c.queues
    BY <1>1, <1>2, ErrorClose
  <1>4. client' = d
    BY DEF StreamBroken
  <1> HIDE DEF d
  <1>5. d.handshakeComplete \in BOOLEAN
    BY <1>3 DEF Reclosed, Sound, Client
  <1> QED
    BY <1>1, <1>3, <1>4, <1>5 DEF Reclosed, Good, Unseen, Client

(* Only the writes of a user the server denies are refused, and the refused
   one is the oldest. *)
LEMMA WriteRefusedGood ==
    ASSUME Good(client), WriteRefused
    PROVE  /\ Good(client')
           /\ client.user \in Denied /\ Queue(client) # <<>>
           /\ Unseen([client EXCEPT !.answers = <<>>, !.handshakeComplete = FALSE,
                                    !.queues[client.user] = Tail(@)], client')
  <1> DEFINE c == client
             d == Close(c, "permanent")
  <1>1. /\ c \in Client /\ Sound(c) /\ Settled(c) /\ Oldest(c)
        /\ c.answers \in Seq(Answers) /\ c.pipeline \in Seq(Batch) /\ Queue(c) \in Seq(Batch)
        /\ c.handshakeComplete => Matched(c)
        /\ c.answers # <<>> => IsOpen(c)
        /\ IsOpen(c) /\ ~c.handshakeComplete => Handshaking(c)
    BY GoodFacts DEF Good
  <1>2. c.answers # <<>> /\ Head(c.answers) = "refused" /\ client' = d
    BY DEF WriteRefused
  <1>3. Head(c.answers) = c.answers[1] /\ Len(c.answers) \in Nat \ {0} /\ 1 \in DOMAIN c.answers
    BY <1>1, <1>2, Tails
  <1>4. c.handshakeComplete /\ Matched(c)
    <2>1. c.answers # <<"handshake">>
      BY <1>2
    <2> QED
      BY <1>1, <1>2, <2>1 DEF Handshaking
  <1>5. c.user \in Denied
    BY <1>2, <1>3, <1>4 DEF Matched
  <1>6. c.pipeline # <<>> /\ Queue(c) # <<>>
    <2>1. Len(c.answers) <= Len(c.pipeline) /\ Len(c.pipeline) <= Len(Queue(c))
          /\ Len(c.pipeline) \in Nat /\ Len(Queue(c)) \in Nat
      BY <1>1, <1>4 DEF Matched, Oldest
    <2>2. Len(c.pipeline) # 0 /\ Len(Queue(c)) # 0
      BY <1>3, <2>1
    <2> QED
      BY <2>2, EmptySeq
  <1>7. Reclosed(c, d) /\ d.queues = [c.queues EXCEPT ![c.user] = Tail(@)]
    <2>1. IsStarted(c)
      BY <1>1, <1>2 DEF IsOpen, IsStarted
    <2> QED
      BY <1>1, <1>4, <1>6, <2>1, ErrorClose
  <1> HIDE DEF d
  <1>8. d.handshakeComplete \in BOOLEAN
    BY <1>7 DEF Reclosed, Sound, Client
  <1> QED
    BY <1>1, <1>2, <1>5, <1>6, <1>7, <1>8 DEF Reclosed, Good, Unseen, Client

(* The timer starts the stream it was set for: nobody else has. *)
LEMMA BackoffElapsedGood ==
    ASSUME Good(client), BackoffElapsed
    PROVE  Good(client') /\ Unseen(client, client')
  <1> DEFINE c == client
             e == [c EXCEPT !.state = "Initial"]
             d == Start(e)
  <1>1. /\ c \in Client /\ ~c.failed /\ Ordered(c) /\ Oldest(c) /\ StreamSound(c) /\ Settled(c)
    BY GoodFacts
  <1>2. c.state = "Backoff" /\ client' = d
    BY DEF BackoffElapsed
  <1>3. /\ e \in Client /\ e.user = c.user /\ e.queues = c.queues
        /\ e.nextBatchId = c.nextBatchId /\ e.networkEnabled = c.networkEnabled
        /\ e.pipeline = c.pipeline /\ e.state = "Initial" /\ e.answers = c.answers
        /\ e.sent = c.sent /\ e.idleTimer = c.idleTimer /\ e.requests = c.requests
        /\ e.failed = c.failed /\ e.handshakeComplete = c.handshakeComplete
    BY <1>1 DEF Client, States
  <1> HIDE DEF e
  <1>4. Sound(e) /\ e.pipeline # <<>>
    <2>1. StreamSound(e) /\ e.pipeline # <<>>
      BY <1>1, <1>2, <1>3 DEF StreamSound, IsOpen
    <2> QED
      BY <1>1, <1>3, <2>1 DEF Sound, Ordered, Oldest, Queue
  <1>5. /\ Sound(d) /\ IsStarted(d)
        /\ d = [e EXCEPT !.state = d.state, !.requests = d.requests]
    BY <1>3, <1>4, StartSound
  <1> HIDE DEF d
  <1>6. /\ d.user = c.user /\ d.queues = c.queues /\ d.networkEnabled = c.networkEnabled
        /\ d.pipeline = c.pipeline /\ d.answers = c.answers
        /\ d.handshakeComplete = c.handshakeComplete
    BY <1>3, <1>5 DEF Client
  <1>7. Settled(d)
    BY <1>1, <1>2, <1>5, <1>6 DEF Settled, IsOpen, Queue
  <1> QED
    BY <1>2, <1>5, <1>6, <1>7 DEF Good, Unseen

(* The idle timer only runs while there is no write to send. *)
LEMMA IdleTimeoutGood ==
    ASSUME Good(client), IdleTimeout
    PROVE  /\ Good(client')
           /\ Unseen([client EXCEPT !.answers = <<>>, !.handshakeComplete = FALSE], client')
  <1> DEFINE c == client
             e == Closed(c, "ok")
             d == [e EXCEPT !.handshakeComplete = FALSE]
  <1>1. /\ c \in Client /\ ~c.failed /\ Sound(c) /\ StreamSound(c) /\ Settled(c)
    BY GoodFacts DEF Good
  <1>2. IsOpen(c) /\ IsStarted(c) /\ c.pipeline = <<>>
    BY <1>1 DEF IdleTimeout, StreamSound, IsOpen, IsStarted
  <1>3. client' = d
    BY <1>1, <1>2, OkClose DEF IdleTimeout
  <1>4. /\ Sound(e) /\ e.user = c.user /\ e.queues = c.queues
        /\ e.networkEnabled = c.networkEnabled /\ e.pipeline = c.pipeline
        /\ e.state = "Initial"
    BY <1>1, <1>2, ClosedIs, ClosedSound
  <1> HIDE DEF e
  <1>5. /\ Sound(d) /\ d.handshakeComplete = FALSE
        /\ d.user = e.user /\ d.queues = e.queues
        /\ d.networkEnabled = e.networkEnabled /\ d.pipeline = e.pipeline
        /\ d.answers = <<>>
    BY <1>4, HandshakeForgotten DEF IsOpen
  <1> HIDE DEF d
  <1>6. Settled(d)
    BY <1>1, <1>2, <1>4, <1>5 DEF Settled, Queue
  <1> QED
    BY <1>1, <1>3, <1>4, <1>5, <1>6 DEF Good, Unseen, Client

(* Whoever signs in, the queues stay and the answers under way are dropped. *)
LEMMA CredentialChangeGood ==
    ASSUME Good(client), NEW u \in Users, HandleCredentialChange(u)
    PROVE  /\ Good(client')
           /\ Unseen([client EXCEPT !.user = u, !.answers = <<>>, !.handshakeComplete = FALSE],
                     client')
  <1> DEFINE c == client
             x == IF u = c.user THEN c ELSE HandleUserChange(c, u)
             d == RestartNetwork(x)
  <1>1. c \in Client /\ Restartable(c)
    BY GoodFacts, SettledRestartable DEF Good
  <1>2. Restartable(x) /\ x.user = u /\ x.queues = c.queues
    BY <1>1, UserChanges
  <1>3. client' = d
    BY DEF HandleCredentialChange
  <1> HIDE DEF x
  <1>4. Reclosed(x, d) /\ d.queues = c.queues
    BY <1>2, RestartSound
  <1> HIDE DEF d
  <1>5. d.handshakeComplete \in BOOLEAN
    BY <1>4 DEF Reclosed, Sound, Client
  <1> QED
    BY <1>1, <1>2, <1>3, <1>4, <1>5 DEF Reclosed, Good, Unseen, Client

(* Connections that come and go drop answers and no writes. *)
LEMMA ConnectivityGood ==
    ASSUME Good(client), NEW available \in BOOLEAN, ConnectivityChanged(available)
    PROVE  /\ Good(client')
           /\ \/ Unseen(client, client')
              \/ Unseen([client EXCEPT !.answers = <<>>, !.handshakeComplete = FALSE], client')
  <1> DEFINE c == client
             ended == IF IsOpen(c) THEN Close(c, "transient") ELSE c
             d == IF available THEN RestartNetwork(ended) ELSE ended
  <1>1. c \in Client /\ Sound(c) /\ Settled(c)
    BY GoodFacts DEF Good
  <1>2. client' = d
    BY DEF ConnectivityChanged
  <1>3. /\ Sound(ended) /\ Settled(ended) /\ ended.user = c.user /\ ended.queues = c.queues
        /\ ended = c \/ (~ended.handshakeComplete /\ ended.answers = <<>>)
    <2>1. CASE IsOpen(c)
      <3>1. IsStarted(c)
        BY <2>1 DEF IsOpen, IsStarted
      <3>2. Reclosed(c, Close(c, "transient")) /\ Close(c, "transient").queues = c.queues
        BY <1>1, <3>1, ErrorClose
      <3> QED
        BY <2>1, <3>2 DEF Reclosed
    <2>2. CASE ~IsOpen(c)
      BY <1>1, <2>2
    <2> QED
      BY <2>1, <2>2
  <1> HIDE DEF ended
  <1>4. /\ Sound(d) /\ Settled(d) /\ d.user = c.user /\ d.queues = c.queues
        /\ d = c \/ (~d.handshakeComplete /\ d.answers = <<>>)
    <2>1. CASE available
      <3>1. Reclosed(ended, RestartNetwork(ended))
            /\ RestartNetwork(ended).queues = ended.queues
        BY <1>3, SettledRestartable, RestartSound
      <3> QED
        BY <1>3, <2>1, <3>1 DEF Reclosed
    <2>2. CASE ~available
      BY <1>3, <2>2
    <2> QED
      BY <2>1, <2>2
  <1> HIDE DEF d
  <1>5. d.handshakeComplete \in BOOLEAN
    BY <1>4 DEF Sound, Client
  <1> QED
    BY <1>1, <1>2, <1>4, <1>5 DEF Good, Unseen, Client

(* A new process finds the queues as the old one left them. *)
LEMMA RelaunchedGood ==
    ASSUME Good(client), Relaunched
    PROVE  /\ Good(client')
           /\ Unseen([client EXCEPT !.answers = <<>>, !.handshakeComplete = FALSE], client')
  <1> DEFINE c == client
             d == Initialized(c.user, c.queues)
  <1>1. c \in Client /\ c.user \in Users /\ c.queues \in [Users -> Seq(Batch)] /\ Ordered(c)
    BY GoodFacts
  <1>2. client' = d
    BY DEF Relaunched
  <1>3. /\ Sound(d) /\ Settled(d)
        /\ d.user = c.user /\ ~d.handshakeComplete /\ d.answers = <<>> /\ d.queues = c.queues
    BY <1>1, InitializedSound DEF Ordered
  <1> HIDE DEF d
  <1>4. d.handshakeComplete \in BOOLEAN
    BY <1>3 DEF Sound, Client
  <1> QED
    BY <1>1, <1>2, <1>3, <1>4 DEF Good, Unseen, Client
-----------------------------------------------------------------------------
(* The server *)

(* What the server reads next: the handshake, or the oldest write that has no
   answer yet. *)
LEMMA NextMessage ==
    ASSUME NEW c, Good(c), c.sent # <<>>
    PROVE  /\ IsOpen(c)
           /\ ~c.handshakeComplete =>
                 /\ Head(c.sent) = Handshake /\ Tail(c.sent) = <<>> /\ c.answers = <<>>
                 /\ c.pipeline # <<>>
           /\ c.handshakeComplete =>
                 /\ Matched(c) /\ Len(c.answers) < Len(c.pipeline)
                 /\ Len(c.answers) + 1 \in 1 .. Len(Queue(c))
                 /\ Head(c.sent) = Queue(c)[Len(c.answers) + 1]
                 /\ Head(c.sent) \in Batch /\ Head(c.sent) # Handshake
                 /\ Tail(c.sent) = SubSeq(Queue(c), Len(c.answers) + 2, Len(c.pipeline))
  <1> DEFINE q == Queue(c)
             a == Len(c.answers)
             n == Len(c.pipeline)
  <1>1. /\ IsOpen(c) /\ Oldest(c) /\ Ordered(c) /\ c \in Client
        /\ c.pipeline \in Seq(Batch) /\ c.answers \in Seq(Answers) /\ q \in Seq(Batch)
        /\ c.handshakeComplete => Matched(c)
        /\ ~c.handshakeComplete => Handshaking(c)
    BY GoodFacts
  <1>2. CASE ~c.handshakeComplete
    <2>1. c.sent = <<Handshake>> /\ c.answers = <<>> /\ c.pipeline # <<>>
      BY <1>1, <1>2 DEF Handshaking
    <2>2. Head(<<Handshake>>) = Handshake /\ Tail(<<Handshake>>) = <<>>
      OBVIOUS
    <2> QED
      BY <1>1, <1>2, <2>1, <2>2
  <1>3. CASE c.handshakeComplete
    <2>1. Matched(c) /\ c.sent = SubSeq(q, a + 1, n)
      BY <1>1, <1>3 DEF Matched
    <2>2. a \in Nat /\ n \in Nat /\ Len(q) \in Nat /\ a <= n /\ n <= Len(q)
      BY <1>1, <2>1 DEF Matched, Oldest
    <2> HIDE DEF q, a, n
    <2>3. a < n
      BY <2>1, <2>2, SubSeqEmpty
    <2>4. a + 1 \in 1 .. Len(q) /\ n \in a + 1 .. Len(q) /\ (a + 1) + 1 = a + 2
      BY <2>2, <2>3
    <2>5. Head(c.sent) = q[a + 1] /\ Tail(c.sent) = SubSeq(q, a + 2, n)
      BY <1>1, <2>1, <2>4, HeadTailOfSubSeq
    <2>6. q[a + 1] \in Batch
      BY <1>1, <2>4, ElementOfSeq
    <2>7. Handshake \notin Batch
      BY DEF Handshake, Batch
    <2> QED
      BY <1>1, <1>3, <2>1, <2>3, <2>4, <2>5, <2>6, <2>7 DEF q, a, n
  <1> QED
    BY <1>2, <1>3

(* One answer more, one message less, on a stream that stays sound. *)
LEMMA AnsweringGood ==
    ASSUME Good(client), client.sent # <<>>, NEW answer \in Answers, Answering(answer),
           \/ ~client.handshakeComplete /\ answer = "handshake"
           \/ client.handshakeComplete /\ client.user \notin Denied /\ answer = "result"
           \/ /\ client.handshakeComplete /\ client.user \in Denied /\ answer = "refused"
              /\ client.answers = <<>>
    PROVE  /\ Good(client')
           /\ Unseen([client EXCEPT !.answers = Append(@, answer)], client')
  <1> DEFINE c == client
             a == Len(c.answers)
             n == Len(c.pipeline)
             answers == Append(c.answers, answer)
             d == [c EXCEPT !.sent = Tail(@), !.answers = answers]
  <1>1. /\ c \in Client /\ ~c.failed /\ Ordered(c) /\ Oldest(c) /\ StreamSound(c) /\ Settled(c)
        /\ c.sent \in Seq(Batch \cup {Handshake}) /\ c.answers \in Seq(Answers)
        /\ c.pipeline \in Seq(Batch)
    BY GoodFacts
  <1>2. /\ IsOpen(c)
        /\ ~c.handshakeComplete =>
              Tail(c.sent) = <<>> /\ c.answers = <<>> /\ c.pipeline # <<>>
        /\ c.handshakeComplete =>
              /\ Matched(c) /\ a < n
              /\ Tail(c.sent) = SubSeq(Queue(c), a + 2, n)
    BY NextMessage
  <1>3. Tail(c.sent) \in Seq(Batch \cup {Handshake})
    BY <1>1, Tails
  <1>4. /\ answers \in Seq(Answers) /\ Len(answers) = a + 1
        /\ \A k \in 1 .. a : answers[k] = c.answers[k]
        /\ answers[a + 1] = answer /\ a \in Nat /\ n \in Nat /\ DOMAIN answers = 1 .. a + 1
    BY <1>1, AppendProperties
  <1>5. client' = d
    BY DEF Answering
  <1>6. c.answers = <<>> /\ answer = "handshake" => answers = <<"handshake">>
    OBVIOUS
  <1> HIDE DEF answers
  <1>7. /\ d \in Client /\ ~d.failed /\ d.user = c.user /\ d.queues = c.queues
        /\ d.nextBatchId = c.nextBatchId /\ d.networkEnabled = c.networkEnabled
        /\ d.pipeline = c.pipeline /\ d.state = c.state /\ d.requests = c.requests
        /\ d.sent = Tail(c.sent) /\ d.answers = answers /\ d.idleTimer = c.idleTimer
        /\ d.handshakeComplete = c.handshakeComplete
    BY <1>1, <1>3, <1>4 DEF Client
  <1> HIDE DEF d
  <1>8. ~c.handshakeComplete => Handshaking(d)
    BY <1>2, <1>6, <1>7 DEF Handshaking
  <1>9. c.handshakeComplete => Matched(d)
    <2> SUFFICES ASSUME c.handshakeComplete PROVE Matched(d)
      OBVIOUS
    <2>1. Matched(c) /\ a + 1 <= n /\ (a + 1) + 1 = a + 2
      BY <1>2, <1>4
    <2>2. \A k \in 1 .. a : c.answers[k] = IF c.user \in Denied THEN "refused" ELSE "result"
      BY <1>1, <2>1 DEF Matched
    <2>3. answer = IF c.user \in Denied THEN "refused" ELSE "result"
      OBVIOUS
    <2>4. \A k \in 1 .. a + 1 : k \in 1 .. a \/ k = a + 1
      BY <1>4
    <2>5. \A k \in DOMAIN d.answers :
             d.answers[k] = IF d.user \in Denied THEN "refused" ELSE "result"
      BY <1>4, <1>7, <2>2, <2>3, <2>4
    <2>6. d.user \in Denied => Len(d.answers) <= 1
      <3>1. c.user \in Denied => a = 0
        BY EmptySeq
      <3> QED
        BY <1>4, <1>7, <3>1
    <2>7. d.sent = SubSeq(Queue(d), Len(d.answers) + 1, Len(d.pipeline))
      BY <1>2, <1>4, <1>7, <2>1 DEF Queue
    <2> QED
      BY <1>4, <1>7, <2>1, <2>5, <2>6, <2>7 DEF Matched
  <1>10. ~c.idleTimer
    <2>1. c.pipeline = <<>> => n = 0
      OBVIOUS
    <2>2. c.handshakeComplete => n # 0
      BY <1>2, <1>4
    <2> QED
      BY <1>1, <2>1, <2>2 DEF StreamSound
  <1>11. StreamSound(d)
    BY <1>1, <1>2, <1>7, <1>8, <1>9, <1>10 DEF StreamSound, IsOpen
  <1>12. Sound(d) /\ Settled(d)
    BY <1>1, <1>7, <1>11 DEF Sound, Settled, Ordered, Oldest, Queue, IsOpen, IsStarted
  <1> QED
    BY <1>1, <1>5, <1>7, <1>12 DEF Good, Unseen, Client, answers

(* A handshake is answered before anything else. *)
LEMMA ServerAcceptsGood ==
    ASSUME Good(client), ServerAcceptsHandshake
    PROVE  /\ Good(client') /\ ~client.handshakeComplete
           /\ Unseen([client EXCEPT !.answers = Append(@, "handshake")], client')
  <1>1. ~client.handshakeComplete /\ client.sent # <<>>
    BY NextMessage DEF ServerAcceptsHandshake, Reads
  <1>2. Answering("handshake") /\ "handshake" \in Answers
    BY DEF ServerAcceptsHandshake, Answers
  <1> QED
    BY <1>1, <1>2, AnsweringGood

(* The server applies writes only after the handshake. *)
LEMMA ServerAppliesGood ==
    ASSUME Good(client), ServerApplies
    PROVE  /\ Good(client') /\ client.handshakeComplete /\ client.user \notin Denied
           /\ Unseen([client EXCEPT !.answers = Append(@, "result")], client')
  <1>1. client.handshakeComplete /\ client.sent # <<>>
    BY NextMessage DEF ServerApplies, Reads
  <1>2. Answering("result") /\ "result" \in Answers /\ client.user \notin Denied
    BY DEF ServerApplies, Answers
  <1> QED
    BY <1>1, <1>2, AnsweringGood

(* A user the server denies has at most one write answered: the server reads
   nothing more on that stream. *)
LEMMA ServerRefusesGood ==
    ASSUME Good(client), ServerRefuses
    PROVE  /\ Good(client') /\ client.user \in Denied
           /\ Unseen([client EXCEPT !.answers = Append(@, "refused")], client')
  <1>1. /\ client.handshakeComplete /\ client.sent # <<>> /\ Matched(client)
        /\ client.user \in Denied /\ "refused" \notin ToSet(client.answers)
        /\ Answering("refused") /\ "refused" \in Answers
    <2>1. /\ client.sent # <<>> /\ Head(client.sent) # Handshake /\ client.user \in Denied
          /\ "refused" \notin ToSet(client.answers) /\ Answering("refused")
      BY DEF ServerRefuses, Reads
    <2>2. client.handshakeComplete
      BY <2>1, NextMessage
    <2>3. Matched(client)
      BY <2>2, GoodFacts
    <2> QED
      BY <2>1, <2>2, <2>3 DEF Answers
  <1>2. client.answers = <<>>
    <2>1. client.answers \in Seq(Answers)
      BY GoodFacts
    <2>2. SUFFICES ASSUME client.answers # <<>> PROVE FALSE
      OBVIOUS
    <2>3. 1 \in DOMAIN client.answers
      BY <2>1, <2>2
    <2>4. client.answers[1] = "refused"
      BY <1>1, <2>3 DEF Matched
    <2>5. "refused" \in ToSet(client.answers)
      BY <2>3, <2>4 DEF ToSet
    <2> QED
      BY <1>1, <2>5
  <1> QED
    BY <1>1, <1>2, AnsweringGood
-----------------------------------------------------------------------------
(* The server's documents *)

(* What kinds of write there are. *)
LEMMA WriteCases ==
    ASSUME NEW w \in DB!Writes
    PROVE  \/ /\ w.collection = "users" /\ w.id \in Accounts
              /\ \/ w.op = "addData" /\ w.data \in DB!UserData
                 \/ w.op = "addSingleData" /\ w.data \in Codes
           \/ /\ w.collection = "connection" /\ w.id \in Codes
              /\ \/ w.op = "addData" /\ w.data \in Accounts
                 \/ w.op = "removeData" /\ w.data = Nil
  BY DEF DB!Writes, DB!addData, DB!addSingleData, DB!removeData

(* An applied write leaves a document of its collection, or none. *)
LEMMA AppliedTyped ==
    ASSUME Good(client), ServerTypeOK, ServerApplies
    PROVE  ServerTypeOK'
  <1> DEFINE w == Head(client.sent).write
  <1>1. w \in DB!Writes
    <2>1. Head(client.sent) \in Batch
      BY NextMessage DEF ServerApplies, Reads
    <2> QED
      BY <2>1, Constants DEF Batch
  <1>2. CASE w.collection = "users"
    <2>1. /\ users' = [users EXCEPT ![w.id] = DB!Written(w, users[w.id])]
          /\ UNCHANGED connection
      BY <1>2 DEF ServerApplies
    <2>2. w.id \in Accounts
      BY <1>1, <1>2, WriteCases
    <2>3. users[w.id] \in DB!UserData \cup {Nil}
      BY <2>2 DEF ServerTypeOK
    <2>4. DB!Written(w, users[w.id]) \in DB!UserData \cup {Nil}
      BY <1>1, <1>2, <2>3, WriteCases DEF DB!Written, DB!UserData
    <2> HIDE DEF w
    <2> QED
      BY <2>1, <2>2, <2>4 DEF ServerTypeOK
  <1>3. CASE w.collection # "users"
    <2>1. /\ connection' = [connection EXCEPT ![w.id] = DB!Written(w, connection[w.id])]
          /\ UNCHANGED users
      BY <1>3 DEF ServerApplies
    <2>2. w.id \in Codes
      BY <1>1, <1>3, WriteCases
    <2>3. connection[w.id] \in Accounts \cup {Nil}
      BY <2>2 DEF ServerTypeOK
    <2>4. DB!Written(w, connection[w.id]) \in Accounts \cup {Nil}
      BY <1>1, <1>3, <2>3, WriteCases DEF DB!Written
    <2> HIDE DEF w
    <2> QED
      BY <2>1, <2>2, <2>4 DEF ServerTypeOK
  <1> QED
    BY <1>2, <1>3
-----------------------------------------------------------------------------
(* The inductive invariant *)

(* The first launch, with empty queues, satisfies the invariant. *)
LEMMA InitGood ==
    ASSUME Init
    PROVE  IInv
  <1>1. /\ client = Initialized(Nil, [u \in Users |-> <<>>]) /\ Nil \in Users
        /\ [u \in Users |-> <<>>] \in [Users -> Seq(Batch)]
        /\ \A v \in Users : DOMAIN [u \in Users |-> <<>>][v] = {}
    BY DEF Init, Users
  <1>2. Good(client)
    BY <1>1, InitializedSound DEF Good
  <1>3. ServerTypeOK
    BY DEF Init, DB!DBInit, DB!UserData, ServerTypeOK
  <1> QED
    BY <1>2, <1>3 DEF IInv, Good

(* Every task keeps the invariant. *)
LEMMA NextGood ==
    ASSUME IInv, [Next]_vars
    PROVE  IInv'
  <1>1. Good(client) /\ ServerTypeOK
    BY DEF IInv, Good
  <1>2. SUFFICES Good(client') /\ ServerTypeOK'
    BY DEF IInv, Good
  <1>3. ASSUME NEW write \in AppWrites, AppWrite(write)
        PROVE  Good(client') /\ ServerTypeOK'
    BY <1>1, <1>3, AppWriteGood DEF AppWrite, ServerTypeOK
  <1>4. ASSUME NEW age \in 0 .. MaxAge, NEW ok \in BOOLEAN, TokenArrives(age, ok)
        PROVE  Good(client') /\ ServerTypeOK'
    BY <1>1, <1>4, TokenArrivesGood DEF TokenArrives, ServerTypeOK
  <1>5. CASE OnWriteStreamHandshakeComplete
    BY <1>1, <1>5, HandshakeCompleteGood DEF OnWriteStreamHandshakeComplete, ServerTypeOK
  <1>6. CASE OnWriteStreamMutationResult
    BY <1>1, <1>6, MutationResultGood DEF OnWriteStreamMutationResult, ServerTypeOK
  <1>7. ASSUME NEW status \in {"transient", "permanent"}, StreamBroken(status)
        PROVE  Good(client') /\ ServerTypeOK'
    BY <1>1, <1>7, StreamBrokenGood DEF StreamBroken, ServerTypeOK
  <1>8. CASE WriteRefused
    BY <1>1, <1>8, WriteRefusedGood DEF WriteRefused, ServerTypeOK
  <1>9. CASE BackoffElapsed
    BY <1>1, <1>9, BackoffElapsedGood DEF BackoffElapsed, ServerTypeOK
  <1>10. CASE IdleTimeout
    BY <1>1, <1>10, IdleTimeoutGood DEF IdleTimeout, ServerTypeOK
  <1>11. ASSUME NEW u \in Users, HandleCredentialChange(u)
         PROVE  Good(client') /\ ServerTypeOK'
    BY <1>1, <1>11, CredentialChangeGood DEF HandleCredentialChange, ServerTypeOK
  <1>12. ASSUME NEW available \in BOOLEAN, ConnectivityChanged(available)
         PROVE  Good(client') /\ ServerTypeOK'
    BY <1>1, <1>12, ConnectivityGood DEF ConnectivityChanged, ServerTypeOK
  <1>13. CASE Relaunched
    BY <1>1, <1>13, RelaunchedGood DEF Relaunched, ServerTypeOK
  <1>14. CASE ServerAcceptsHandshake
    BY <1>1, <1>14, ServerAcceptsGood DEF ServerAcceptsHandshake, ServerTypeOK
  <1>15. CASE ServerApplies
    BY <1>1, <1>15, ServerAppliesGood, AppliedTyped
  <1>16. CASE ServerRefuses
    BY <1>1, <1>16, ServerRefusesGood DEF ServerRefuses, ServerTypeOK
  <1>17. CASE UNCHANGED vars
    BY <1>1, <1>17 DEF vars, ServerTypeOK
  <1> QED
    BY <1>3, <1>4, <1>5, <1>6, <1>7, <1>8, <1>9, <1>10, <1>11, <1>12, <1>13, <1>14,
       <1>15, <1>16, <1>17 DEF Next

(* Between two tasks the client is sound and settled, in every execution: the
   inductive invariant from which all the rest follows. *)
THEOREM Invariance == Spec => []IInv
  BY InitGood, NextGood, PTL DEF Spec

(* The properties the runs check follow from the invariant. *)
LEMMA InvariantImplies ==
    ASSUME IInv
    PROVE  TypeOK /\ NoAssertFails /\ NothingStranded /\ AnswersMatch
  <1> DEFINE c == client
             q == Queue(c)
             n == Len(c.pipeline)
             a == Len(c.answers)
  <1>1. /\ c \in Client /\ ~c.failed /\ Oldest(c) /\ Settled(c) /\ ServerTypeOK
        /\ q \in Seq(Batch) /\ c.pipeline \in Seq(Batch) /\ c.answers \in Seq(Answers)
        /\ c.handshakeComplete => Matched(c)
    BY GoodFacts DEF IInv, Good
  <1>2. /\ Len(q) \in Nat /\ n \in Nat /\ n <= Len(q) /\ n <= kMaxPendingWrites
        /\ c.pipeline = SubSeq(q, 1, n) /\ a \in Nat
        /\ n = kMaxPendingWrites \/ n = Len(q)
    BY <1>1 DEF Oldest, Settled
  <1>3. TypeOK /\ NoAssertFails
    BY <1>1 DEF TypeOK, NoAssertFails, ServerTypeOK
  <1>4. NothingStranded
    <2>1. NothingStranded <=>
             /\ c.pipeline = SubSeq(q, 1, IF Len(q) < kMaxPendingWrites THEN Len(q)
                                          ELSE kMaxPendingWrites)
             /\ c.pipeline # <<>> => IsStarted(c)
      BY DEF NothingStranded, Queue
    <2> HIDE DEF q, n
    <2>2. (IF Len(q) < kMaxPendingWrites THEN Len(q) ELSE kMaxPendingWrites) = n
      BY <1>2, Constants
    <2> QED
      BY <1>1, <1>2, <2>1, <2>2 DEF Settled
  <1>5. AnswersMatch
    <2> SUFFICES ASSUME c.handshakeComplete
                 PROVE  a <= n /\ c.sent = SubSeq(c.pipeline, a + 1, n)
      BY DEF AnswersMatch
    <2>1. a <= n /\ c.sent = SubSeq(q, a + 1, n)
      BY <1>1 DEF Matched
    <2> HIDE DEF q, n, a
    <2>2. SubSeq(SubSeq(q, 1, n), a + 1, n) = SubSeq(q, a + 1, n)
      BY <1>1, <1>2, <2>1, PrefixOfPrefix
    <2> QED
      BY <1>2, <2>1, <2>2
  <1> QED
    BY <1>3, <1>4, <1>5

(* The client's memory, its disk and the server's documents stay what they are
   made of, through every task, broken stream and new process. *)
THEOREM TypesOK == Spec => []TypeOK
  BY Invariance, InvariantImplies, PTL

(* No HARD_ASSERT of the write path fails, in any order of tasks. *)
THEOREM AssertionsHold == Spec => []NoAssertFails
  BY Invariance, InvariantImplies, PTL

(* The oldest writes are in the pipeline, and a stream is up for them or on its
   way up: FillWritePipeline and OnWriteStreamClose forget none. *)
THEOREM NothingStrandedEver == Spec => []NothingStranded
  BY Invariance, InvariantImplies, PTL

(* The next result is the next write's: what is under way is the pipeline
   without its answered writes. *)
THEOREM AnswersMeetWrites == Spec => []AnswersMatch
  BY Invariance, InvariantImplies, PTL
-----------------------------------------------------------------------------
(* The refinement: every task is a step of AppDB, or none of its business. *)
WritesOf(queue) == [k \in DOMAIN queue |-> queue[k].write]

(* The writes of a queue, as AppDB sees them, element by element. *)
LEMMA WritesOfQueue ==
    ASSUME NEW q \in Seq(Batch)
    PROVE  /\ WritesOf(q) \in Seq(AppWrites) /\ Len(WritesOf(q)) = Len(q)
           /\ \A k \in 1 .. Len(q) : WritesOf(q)[k] = q[k].write
  <1>1. /\ Len(q) \in Nat /\ DOMAIN q = 1 .. Len(q)
        /\ \A k \in 1 .. Len(q) : q[k] \in Batch
    BY ElementOfSeq
  <1>2. \A k \in 1 .. Len(q) : q[k].write \in AppWrites
    BY <1>1 DEF Batch
  <1>3. WritesOf(q) = [k \in 1 .. Len(q) |-> q[k].write]
    BY <1>1 DEF WritesOf
  <1> QED
    BY <1>1, <1>2, <1>3

(* The oldest batch is the oldest write. *)
LEMMA WritesOfTail ==
    ASSUME NEW q \in Seq(Batch), q # <<>>
    PROVE  WritesOf(q) # <<>> /\ WritesOf(Tail(q)) = Tail(WritesOf(q))
  <1>1. /\ Tail(q) \in Seq(Batch) /\ Len(q) \in Nat \ {0} /\ Len(Tail(q)) = Len(q) - 1
        /\ \A k \in 1 .. Len(q) - 1 : Tail(q)[k] = q[k + 1]
    BY Tails
  <1>2. /\ WritesOf(q) \in Seq(AppWrites) /\ Len(WritesOf(q)) = Len(q)
        /\ \A k \in 1 .. Len(q) : WritesOf(q)[k] = q[k].write
    BY WritesOfQueue
  <1>3. /\ WritesOf(Tail(q)) \in Seq(AppWrites) /\ Len(WritesOf(Tail(q))) = Len(q) - 1
        /\ \A k \in 1 .. Len(q) - 1 : WritesOf(Tail(q))[k] = Tail(q)[k].write
    BY <1>1, WritesOfQueue
  <1>4. WritesOf(q) # <<>>
    BY <1>1, <1>2, EmptySeq
  <1>5. /\ Tail(WritesOf(q)) \in Seq(AppWrites) /\ Len(Tail(WritesOf(q))) = Len(q) - 1
        /\ \A k \in 1 .. Len(q) - 1 : Tail(WritesOf(q))[k] = WritesOf(q)[k + 1]
    BY <1>2, <1>4, Tails
  <1>6. \A k \in 1 .. Len(q) - 1 : k + 1 \in 1 .. Len(q)
    BY <1>1
  <1>7. \A k \in 1 .. Len(q) - 1 : WritesOf(Tail(q))[k] = Tail(WritesOf(q))[k]
    BY <1>1, <1>2, <1>3, <1>5, <1>6
  <1> QED
    BY <1>3, <1>4, <1>5, <1>7, SeqEqual

(* The newest batch is the newest write. *)
LEMMA WritesOfAppend ==
    ASSUME NEW q \in Seq(Batch), NEW b \in Batch
    PROVE  WritesOf(Append(q, b)) = WritesOf(q) \o <<b.write>>
  <1>1. /\ Append(q, b) \in Seq(Batch) /\ Len(Append(q, b)) = Len(q) + 1 /\ Len(q) \in Nat
        /\ \A k \in 1 .. Len(q) : Append(q, b)[k] = q[k]
        /\ Append(q, b)[Len(q) + 1] = b
    BY AppendProperties
  <1>2. /\ WritesOf(q) \in Seq(AppWrites) /\ Len(WritesOf(q)) = Len(q)
        /\ \A k \in 1 .. Len(q) : WritesOf(q)[k] = q[k].write
    BY WritesOfQueue
  <1>3. /\ WritesOf(Append(q, b)) \in Seq(AppWrites)
        /\ Len(WritesOf(Append(q, b))) = Len(q) + 1
        /\ \A k \in 1 .. Len(q) + 1 : WritesOf(Append(q, b))[k] = Append(q, b)[k].write
    BY <1>1, WritesOfQueue
  <1>4. <<b.write>> \in Seq(AppWrites) /\ Len(<<b.write>>) = 1 /\ <<b.write>>[1] = b.write
    BY DEF Batch
  <1>5. /\ WritesOf(q) \o <<b.write>> \in Seq(AppWrites)
        /\ Len(WritesOf(q) \o <<b.write>>) = Len(q) + 1
        /\ \A k \in 1 .. Len(q) + 1 : (WritesOf(q) \o <<b.write>>)[k] =
              IF k <= Len(q) THEN WritesOf(q)[k] ELSE <<b.write>>[k - Len(q)]
    BY <1>2, <1>4, ConcatProperties
  <1>6. \A k \in 1 .. Len(q) + 1 :
           WritesOf(Append(q, b))[k] = (WritesOf(q) \o <<b.write>>)[k]
    <2> TAKE k \in 1 .. Len(q) + 1
    <2>1. CASE k \in 1 .. Len(q)
      BY <1>1, <1>2, <1>3, <1>5, <2>1
    <2>2. CASE k = Len(q) + 1
      <3>1. ~(k <= Len(q)) /\ k - Len(q) = 1
        BY <1>1, <2>2
      <3>2. (WritesOf(q) \o <<b.write>>)[k] = <<b.write>>[k - Len(q)]
        BY <1>5, <3>1
      <3>3. WritesOf(Append(q, b))[k] = b.write
        BY <1>1, <1>3, <2>2
      <3> QED
        BY <1>4, <3>1, <3>2, <3>3
    <2>3. k \in 1 .. Len(q) \/ k = Len(q) + 1
      BY <1>1
    <2> QED
      BY <2>1, <2>2, <2>3, Zenon
  <1> QED
    BY <1>3, <1>5, <1>6, SeqEqual

Seen == DB!DBNext \/ UNCHANGED DB!dbVars

(* What AppDB sees of the client, before and after a step. *)
LEMMA Views ==
    /\ Pending = [u \in Users |-> WritesOf(client.queues[u])]
    /\ Pending' = [u \in Users |-> WritesOf(client'.queues[u])]
    /\ Committed = IF client.handshakeComplete /\ client.user \notin Denied
                   THEN Len(client.answers) ELSE 0
    /\ Committed' = IF client'.handshakeComplete /\ client'.user \notin Denied
                    THEN Len(client'.answers) ELSE 0
  BY DEF Pending, Committed, WritesOf

(* The number of committed writes is a number. *)
LEMMA CommittedNat ==
    ASSUME Good(client)
    PROVE  Committed \in Nat
  BY GoodFacts, LenProperties DEF Committed

(* What was not answered is sent again, or nothing was. *)
LEMMA ReconnectSeen ==
    ASSUME Good(client), client'.user = client.user, client'.queues = client.queues,
           Committed' = 0 \/ Committed' = Committed, UNCHANGED <<users, connection>>
    PROVE  Seen
  <1>1. Pending' = Pending
    BY Views
  <1>2. CASE Committed' = Committed
    BY <1>1, <1>2 DEF Seen, DB!dbVars
  <1>3. CASE Committed' = 0 /\ Committed # 0
    <2>1. Committed > 0
      BY <1>3, CommittedNat
    <2>2. DB!Reconnect(Phone)
      BY <1>1, <1>3, <2>1 DEF DB!Reconnect
    <2> QED
      BY <2>2 DEF Seen, DB!DBNext
  <1> QED
    BY <1>2, <1>3

(* Another user signs in: another queue, nothing of it sent yet. *)
LEMMA SetAuthSeen ==
    ASSUME Good(client), NEW u \in Users, client'.user = u, client'.queues = client.queues,
           u # client.user, Committed' = 0, UNCHANGED <<users, connection>>
    PROVE  Seen
  <1>1. Pending' = Pending
    BY Views
  <1>2. DB!SetAuth(Phone, u)
    BY <1>1 DEF DB!SetAuth
  <1>3. u \in DB!AuthUsers
    BY DEF DB!AuthUsers, Users
  <1> QED
    BY <1>2, <1>3 DEF Seen, DB!DBNext

(* A write the app makes joins the user's queue. *)
LEMMA EnqueueSeen ==
    ASSUME Good(client), NEW b \in Batch, client'.user = client.user,
           client'.queues = [client.queues EXCEPT ![client.user] = Append(@, b)],
           Len(Queue(client)) < MaxQueued,
           Committed' = Committed, UNCHANGED <<users, connection>>
    PROVE  Seen
  <1> DEFINE u == client.user
             q == Queue(client)
  <1>1. /\ u \in Users /\ q \in Seq(Batch) /\ q = client.queues[u]
        /\ client.queues \in [Users -> Seq(Batch)] /\ b.write \in AppWrites
    BY GoodFacts DEF Batch
  <1>2. WritesOf(Append(q, b)) = WritesOf(q) \o <<b.write>> /\ Len(WritesOf(q)) = Len(q)
    BY <1>1, WritesOfAppend, WritesOfQueue
  <1>3. Pending[u] = WritesOf(q)
    BY <1>1, Views
  <1>4. Pending' = [Pending EXCEPT ![u] = Pending[u] \o <<b.write>>]
    <2> DEFINE queues == client'.queues
    <2>1. queues[u] = Append(q, b) /\ \A v \in Users : v # u => queues[v] = client.queues[v]
      BY <1>1
    <2>2. Pending' = [v \in Users |-> WritesOf(queues[v])]
      BY Views
    <2> HIDE DEF queues, q
    <2> QED
      BY <1>1, <1>2, <1>3, <2>1, <2>2, Views
  <1>5. DB!Enqueue(Phone, <<b.write>>)
    BY <1>4 DEF DB!Enqueue
  <1>6. DB!Room(Phone, 1)
    <2>1. Len(q) + 1 <= MaxQueued
      BY <1>1, FirestoreWritesAssumption
    <2> QED
      BY <1>2, <1>3, <2>1 DEF DB!Room
  <1>7. b.write \in DB!Writes
    BY <1>1, Constants
  <1> QED
    BY <1>5, <1>6, <1>7 DEF Seen, DB!DBNext

(* The oldest write leaves its queue. *)
LEMMA OldestLeaves ==
    ASSUME Good(client), Queue(client) # <<>>,
           client'.queues = [client.queues EXCEPT ![client.user] = Tail(@)]
    PROVE  /\ Pending[client.user] # <<>>
           /\ Pending' = [Pending EXCEPT ![client.user] = Tail(Pending[client.user])]
  <1> DEFINE u == client.user
             q == Queue(client)
             queues == client'.queues
  <1>1. /\ u \in Users /\ q \in Seq(Batch) /\ q = client.queues[u]
        /\ client.queues \in [Users -> Seq(Batch)]
    BY GoodFacts
  <1>2. WritesOf(q) # <<>> /\ WritesOf(Tail(q)) = Tail(WritesOf(q))
    BY <1>1, WritesOfTail
  <1>3. Pending[u] = WritesOf(q)
    BY <1>1, Views
  <1>4. queues[u] = Tail(q) /\ \A v \in Users : v # u => queues[v] = client.queues[v]
    BY <1>1
  <1>5. Pending' = [v \in Users |-> WritesOf(queues[v])]
    BY Views
  <1> HIDE DEF queues, q
  <1>6. Pending' = [Pending EXCEPT ![u] = Tail(Pending[u])]
    BY <1>1, <1>2, <1>3, <1>4, <1>5, Views
  <1> QED
    BY <1>2, <1>3, <1>6

(* The answer to a committed write takes it off the queue. *)
LEMMA AcknowledgeSeen ==
    ASSUME Good(client), Queue(client) # <<>>, client'.user = client.user,
           client'.queues = [client.queues EXCEPT ![client.user] = Tail(@)],
           Committed > 0, Committed' = Committed - 1, UNCHANGED <<users, connection>>
    PROVE  Seen
  <1>1. Pending' = [Pending EXCEPT ![client.user] = Tail(Pending[client.user])]
    BY OldestLeaves
  <1>2. DB!Acknowledge(Phone)
    BY <1>1 DEF DB!Acknowledge
  <1> QED
    BY <1>2 DEF Seen, DB!DBNext

(* A refused write leaves the queue uncommitted. *)
LEMMA RejectSeen ==
    ASSUME Good(client), Queue(client) # <<>>, client'.user = client.user,
           client'.queues = [client.queues EXCEPT ![client.user] = Tail(@)],
           client.user \in Denied, UNCHANGED <<users, connection>>
    PROVE  Seen
  <1>1. /\ Pending[client.user] # <<>>
        /\ Pending' = [Pending EXCEPT ![client.user] = Tail(Pending[client.user])]
    BY OldestLeaves
  <1>2. Committed = 0 /\ Committed' = 0
    BY Views
  <1>3. DB!Reject(Phone)
    BY <1>1, <1>2 DEF DB!Reject
  <1> QED
    BY <1>3 DEF Seen, DB!DBNext

(* The write the server applies is the first that is not committed yet. *)
LEMMA CommitSeen ==
    ASSUME Good(client), ServerApplies
    PROVE  Seen
  <1> DEFINE c == client
             u == client.user
             q == Queue(client)
             a == Len(client.answers)
             write == Pending[u][Committed + 1]
  <1>1. /\ c.handshakeComplete /\ u \notin Denied
        /\ Unseen([c EXCEPT !.answers = Append(@, "result")], client')
    BY ServerAppliesGood
  <1>2. /\ c \in Client /\ u \in Users /\ q \in Seq(Batch) /\ q = c.queues[u]
        /\ c.queues \in [Users -> Seq(Batch)] /\ c.answers \in Seq(Answers)
    BY GoodFacts
  <1>3. /\ client'.user = u /\ client'.queues = c.queues
        /\ client'.handshakeComplete = c.handshakeComplete
        /\ client'.answers = Append(c.answers, "result")
    BY <1>1, <1>2 DEF Unseen, Client
  <1>4. Len(client'.answers) = a + 1 /\ a \in Nat
    BY <1>2, <1>3, AppendProperties DEF Answers
  <1>5. Committed = a /\ Committed' = Committed + 1
    BY <1>1, <1>3, <1>4, Views
  <1>6. /\ a + 1 \in 1 .. Len(q) /\ Head(c.sent) = q[a + 1]
    BY <1>1, NextMessage DEF ServerApplies, Reads
  <1>7. Pending[u] = WritesOf(q) /\ Pending' = Pending
    BY <1>2, <1>3, Views
  <1>8. /\ Len(WritesOf(q)) = Len(q) /\ WritesOf(q)[a + 1] = q[a + 1].write /\ Len(q) \in Nat
    BY <1>2, <1>6, WritesOfQueue
  <1>9. write = Head(c.sent).write /\ Committed < Len(Pending[u])
    BY <1>4, <1>5, <1>6, <1>7, <1>8
  <1>10. IF write.collection = "users"
         THEN /\ users' = [users EXCEPT ![write.id] = DB!Written(write, users[write.id])]
              /\ UNCHANGED connection
         ELSE /\ connection' = [connection EXCEPT
                   ![write.id] = DB!Written(write, connection[write.id])]
              /\ UNCHANGED users
    <2> HIDE DEF write
    <2> QED
      BY <1>9 DEF ServerApplies
  <1>11. DB!Commit(Phone)
    <2>1. [p \in {Phone} |-> Pending][Phone][[p \in {Phone} |-> client.user][Phone]]
              [[p \in {Phone} |-> Committed][Phone] + 1] = write
      OBVIOUS
    <2> HIDE DEF write, q
    <2> QED
      BY <1>1, <1>3, <1>5, <1>7, <1>9, <1>10, <2>1 DEF DB!Commit
  <1> QED
    BY <1>11 DEF Seen, DB!DBNext

(* Every step of the pipeline is a step of AppDB, or stutters. *)
LEMMA NextSeen ==
    ASSUME IInv, [Next]_vars
    PROVE  Seen
  <1> DEFINE c == client
             quiet == \/ Unseen(c, client')
                      \/ Unseen([c EXCEPT !.answers = <<>>, !.handshakeComplete = FALSE], client')
  <1>1. /\ Good(c) /\ c \in Client /\ c.user \in Users /\ c.queues \in [Users -> Seq(Batch)]
        /\ c.answers \in Seq(Answers)
        /\ c.handshakeComplete => IsOpen(c) /\ Matched(c)
    BY GoodFacts DEF IInv, Good
  <1>2. ASSUME quiet, UNCHANGED <<users, connection>>
        PROVE  Seen
    <2>1. client'.user = c.user /\ client'.queues = c.queues
      BY <1>1, <1>2 DEF Unseen, Client
    <2>2. \/ client'.handshakeComplete = c.handshakeComplete /\ client'.answers = c.answers
          \/ client'.handshakeComplete = FALSE
      BY <1>1, <1>2 DEF Unseen, Client
    <2>3. Committed' = Committed \/ Committed' = 0
      BY <2>1, <2>2, Views
    <2> QED
      BY <1>1, <1>2, <2>1, <2>3, ReconnectSeen
  <1>3. ASSUME NEW write \in AppWrites, AppWrite(write)
        PROVE  Seen
    <2> DEFINE b == [id |-> c.nextBatchId, write |-> write]
    <2>1. /\ Unseen([c EXCEPT !.queues[c.user] = Append(@, b)], client')
          /\ Len(Queue(c)) < MaxQueued /\ UNCHANGED <<users, connection>>
      BY <1>1, <1>3, AppWriteGood DEF AppWrite, Queue
    <2>2. b \in Batch
      BY <1>1 DEF Batch, Client
    <2> HIDE DEF b
    <2>3. /\ client'.user = c.user
          /\ client'.queues = [c.queues EXCEPT ![c.user] = Append(@, b)]
          /\ client'.handshakeComplete = c.handshakeComplete /\ client'.answers = c.answers
      BY <1>1, <2>1 DEF Unseen, Client
    <2>4. Committed' = Committed
      BY <2>3, Views
    <2> QED
      BY <1>1, <2>1, <2>2, <2>3, <2>4, EnqueueSeen
  <1>4. ASSUME NEW age \in 0 .. MaxAge, NEW ok \in BOOLEAN, TokenArrives(age, ok)
        PROVE  Seen
    BY <1>1, <1>2, <1>4, TokenArrivesGood DEF TokenArrives
  <1>5. CASE OnWriteStreamHandshakeComplete
    <2>1. /\ Unseen([c EXCEPT !.answers = <<>>, !.handshakeComplete = TRUE], client')
          /\ ~c.handshakeComplete /\ UNCHANGED <<users, connection>>
      BY <1>1, <1>5, HandshakeCompleteGood DEF OnWriteStreamHandshakeComplete
    <2>2. client'.user = c.user /\ client'.queues = c.queues /\ client'.answers = <<>>
      BY <1>1, <2>1 DEF Unseen, Client
    <2>3. Committed' = 0
      BY <2>2, Views
    <2> QED
      BY <1>1, <2>1, <2>2, <2>3, ReconnectSeen
  <1>6. CASE OnWriteStreamMutationResult
    <2>1. /\ c.user \notin Denied /\ c.answers # <<>> /\ Queue(c) # <<>>
          /\ Unseen([c EXCEPT !.answers = Tail(@), !.queues[c.user] = Tail(@)], client')
          /\ c.handshakeComplete /\ UNCHANGED <<users, connection>>
      BY <1>1, <1>6, MutationResultGood DEF OnWriteStreamMutationResult
    <2>2. /\ client'.user = c.user
          /\ client'.queues = [c.queues EXCEPT ![c.user] = Tail(@)]
          /\ client'.handshakeComplete = c.handshakeComplete
          /\ client'.answers = Tail(c.answers)
      BY <1>1, <2>1 DEF Unseen, Client
    <2>3. Len(c.answers) \in Nat \ {0} /\ Len(Tail(c.answers)) = Len(c.answers) - 1
      BY <1>1, <2>1, Tails
    <2>4. Committed > 0 /\ Committed' = Committed - 1
      BY <2>1, <2>2, <2>3, Views
    <2> QED
      BY <1>1, <2>1, <2>2, <2>4, AcknowledgeSeen
  <1>7. ASSUME NEW status \in {"transient", "permanent"}, StreamBroken(status)
        PROVE  Seen
    BY <1>1, <1>2, <1>7, StreamBrokenGood DEF StreamBroken
  <1>8. CASE WriteRefused
    <2>1. /\ c.user \in Denied /\ Queue(c) # <<>> /\ UNCHANGED <<users, connection>>
          /\ Unseen([c EXCEPT !.answers = <<>>, !.handshakeComplete = FALSE,
                              !.queues[c.user] = Tail(@)], client')
      BY <1>1, <1>8, WriteRefusedGood DEF WriteRefused
    <2>2. client'.user = c.user /\ client'.queues = [c.queues EXCEPT ![c.user] = Tail(@)]
      BY <1>1, <2>1 DEF Unseen, Client
    <2> QED
      BY <1>1, <2>1, <2>2, RejectSeen
  <1>9. CASE BackoffElapsed
    BY <1>1, <1>2, <1>9, BackoffElapsedGood DEF BackoffElapsed
  <1>10. CASE IdleTimeout
    BY <1>1, <1>2, <1>10, IdleTimeoutGood DEF IdleTimeout
  <1>11. ASSUME NEW u \in Users, HandleCredentialChange(u)
         PROVE  Seen
    <2>1. /\ Unseen([c EXCEPT !.user = u, !.answers = <<>>, !.handshakeComplete = FALSE],
                    client')
          /\ UNCHANGED <<users, connection>>
      BY <1>1, <1>11, CredentialChangeGood DEF HandleCredentialChange
    <2>2. client'.user = u /\ client'.queues = c.queues /\ client'.handshakeComplete = FALSE
      BY <1>1, <2>1 DEF Unseen, Client
    <2>3. Committed' = 0
      BY <2>2, Views
    <2> QED
      BY <1>1, <2>1, <2>2, <2>3, ReconnectSeen, SetAuthSeen
  <1>12. ASSUME NEW available \in BOOLEAN, ConnectivityChanged(available)
         PROVE  Seen
    BY <1>1, <1>2, <1>12, ConnectivityGood DEF ConnectivityChanged
  <1>13. CASE Relaunched
    BY <1>1, <1>2, <1>13, RelaunchedGood DEF Relaunched
  <1>14. ASSUME NEW answer, Good(client),
                ~c.handshakeComplete \/ c.user \in Denied,
                Unseen([c EXCEPT !.answers = Append(@, answer)], client'),
                UNCHANGED <<users, connection>>
         PROVE  Seen
    <2>1. /\ client'.user = c.user /\ client'.queues = c.queues
          /\ client'.handshakeComplete = c.handshakeComplete
      BY <1>1, <1>14 DEF Unseen, Client
    <2>2. Committed' = 0
      BY <1>14, <2>1, Views
    <2> QED
      BY <1>1, <1>14, <2>1, <2>2, ReconnectSeen
  <1>15. CASE ServerAcceptsHandshake
    BY <1>1, <1>14, <1>15, ServerAcceptsGood DEF ServerAcceptsHandshake
  <1>16. CASE ServerApplies
    BY <1>1, <1>16, CommitSeen
  <1>17. CASE ServerRefuses
    BY <1>1, <1>14, <1>17, ServerRefusesGood DEF ServerRefuses
  <1>18. CASE UNCHANGED vars
    <2>1. client' = client /\ UNCHANGED <<users, connection>> /\ Committed' = Committed
      BY <1>18 DEF vars, Committed
    <2> QED
      BY <1>1, <2>1, ReconnectSeen
  <1> QED
    BY <1>3, <1>4, <1>5, <1>6, <1>7, <1>8, <1>9, <1>10, <1>11, <1>12, <1>13, <1>15,
       <1>16, <1>17, <1>18 DEF Next

(* What StartFlow takes for granted about the client that sends the writes of a
   phone: the pipeline, with its streams, tokens, timers and restarts, is the
   queue of AppDB.  A write is committed in its turn and leaves the queue with
   its answer, and nothing else the client does is to be seen. *)
THEOREM PipelineImplementsAppDB == Spec => ImplementsAppDB
  <1>1. Init => \E registered \in SUBSET Accounts : DB!DBInit(registered)
    BY DEF Init
  <1>2. IInv /\ [Next]_vars => [DB!DBNext]_(DB!dbVars)
    BY NextSeen DEF Seen
  <1> QED
    BY <1>1, <1>2, Invariance, PTL DEF Spec, ImplementsAppDB, DB!DBSpec
=============================================================================
