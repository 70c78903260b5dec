-------------------------- MODULE FirestoreWrites --------------------------
(***************************************************************************)
(* The write pipeline of the Firestore client on one phone: SyncEngine,    *)
(* LocalStore's mutation queues, RemoteStore, WriteStream and Stream.      *)
(*                                                                         *)
(* Everything runs on the worker queue, one task at a time; an action is   *)
(* one task, with every call it makes.  The client is one record, and the  *)
(* functions of the code are operators from client to client, so that a    *)
(* task is their composition, as it is in the code.  Between two tasks the *)
(* queues of all users are on disk, the rest is in memory.                 *)
(***************************************************************************)
EXTENDS FirestoreStream, SequencesExt

CONSTANTS Phone, Accounts, Codes, Nil,
          Denied,             \* users whose writes the server refuses
          AppWrites,          \* the writes the app may make
          kMaxPendingWrites,
          MaxQueued,          \* bound: writes in one queue
          MaxBatchId          \* bound: ids given out before they start again

VARIABLES client, users, connection

vars == <<client, users, connection>>

Users == Accounts \cup {Nil}

(* What the client's writes are to the rest of the app: AppDB on this phone. *)
Pending == [u \in Users |-> [k \in DOMAIN client.queues[u] |-> client.queues[u][k].write]]
Committed == IF client.handshakeComplete /\ client.user \notin Denied
             THEN Len(client.answers) ELSE 0

DB == INSTANCE AppDB WITH
        Phones <- {Phone},
        auth <- [p \in {Phone} |-> client.user],
        pending <- [p \in {Phone} |-> Pending],
        committed <- [p \in {Phone} |-> Committed]

ASSUME FirestoreWritesAssumption ==
    /\ Denied \subseteq Users
    /\ AppWrites \subseteq DB!Writes
    /\ kMaxPendingWrites \in Nat \ {0}
    /\ MaxQueued \in Nat /\ MaxBatchId \in Nat
-----------------------------------------------------------------------------
Batch == [id : Nat \ {0}, write : AppWrites]
Handshake == [id |-> 0, write |-> Nil]
Answers == {"handshake", "result", "refused"}

Client == [user : Users, queues : [Users -> Seq(Batch)], nextBatchId : Nat \ {0},
           networkEnabled : BOOLEAN, pipeline : Seq(Batch),
           state : States, handshakeComplete : BOOLEAN, idleTimer : BOOLEAN,
           requests : SUBSET (0 .. MaxAge),
           sent : Seq(Batch \cup {Handshake}), answers : Seq(Answers),
           failed : BOOLEAN]
-----------------------------------------------------------------------------
(* WriteStream *)
WriteHandshake(c) ==
    Write(HardAssert(c, IsOpen(c) /\ ~c.handshakeComplete), <<Handshake>>)

WriteMutations(c, batches) ==
    Write(HardAssert(c, IsOpen(c) /\ c.handshakeComplete), batches)
-----------------------------------------------------------------------------
(* LocalStore and its mutation queues *)
LastId(batches) == IF batches = <<>> THEN 0 ELSE Last(batches).id

(* a slip: the largest id in use, not the next one *)
LoadLastBatchId(queues) ==
    CHOOSE id \in 0 .. MaxBatchId :
        /\ \A u \in Users : LastId(queues[u]) <= id
        /\ id = 0 \/ \E u \in Users : LastId(queues[u]) = id

(* LoadNextBatchIdFromDb: one more than the ids in all queues on disk. *)
LoadNextBatchId(queues) ==
    CHOOSE id \in 1 .. MaxBatchId + 1 :
        /\ \A u \in Users : LastId(queues[u]) < id
        /\ id = 1 \/ \E u \in Users : LastId(queues[u]) = id - 1

WriteLocally(c, write) ==
    [c EXCEPT !.queues[c.user] = Append(@, [id |-> c.nextBatchId, write |-> write]),
              !.nextBatchId = @ + 1]

(* LevelDB deletes the row with the key, after asserting that there is one. *)
RemoveMutationBatch(c, batch) ==
    IF \E k \in DOMAIN c.queues[c.user] : c.queues[c.user][k].id = batch.id
    THEN [c EXCEPT !.queues[c.user] =
            RemoveAt(@, CHOOSE k \in DOMAIN @ : @[k].id = batch.id)]
    ELSE HardAssert(c, FALSE)

HandleUserChange(c, u) ==
    [c EXCEPT !.user = u, !.nextBatchId = LoadNextBatchId(c.queues)]
-----------------------------------------------------------------------------
(* RemoteStore *)
CanUseNetwork(c) == c.networkEnabled

ShouldStartWriteStream(c) == CanUseNetwork(c) /\ ~IsStarted(c) /\ c.pipeline # <<>>

StartIfNeeded(c) == IF ShouldStartWriteStream(c) THEN Start(c) ELSE c

(* a slip: an open stream is taken for one past its handshake *)
AddToWritePipelineEarly(c, batches) ==
    LET added == [c EXCEPT !.pipeline = @ \o batches]
    IN  IF batches # <<>> /\ IsOpen(c) THEN Write(added, batches) ELSE added

AddToWritePipeline(c, batches) ==
    LET added == [c EXCEPT !.pipeline = @ \o batches]
    IN  IF batches # <<>> /\ IsOpen(c) /\ c.handshakeComplete
        THEN WriteMutations(added, batches) ELSE added

(* What GetNextMutationBatch finds one after the other: the rows, in the order of
   their ids, from the first one with a greater id. *)
RowsAfter[queue \in Seq(Batch)] ==
    [id \in Nat |->
        LET later == {k \in DOMAIN queue : queue[k].id > id}
        IN  IF later = {} THEN <<>>
            ELSE SubSeq(queue, CHOOSE k \in later : \A j \in later : k <= j, Len(queue))]

(* GetNextMutationBatch is asked again as long as there is room. *)
FirstRows[rows \in Seq(Batch)] ==
    [room \in Nat |-> SubSeq(rows, 1, IF room < Len(rows) THEN room ELSE Len(rows))]

Unretrieved(c) == RowsAfter[c.queues[c.user]][LastId(c.pipeline)]

Fetched(c) ==
    IF CanUseNetwork(c) THEN FirstRows[Unretrieved(c)][kMaxPendingWrites - Len(c.pipeline)]
    ELSE <<>>

FillWritePipeline(c) ==
    StartIfNeeded(IF CanUseNetwork(c) /\ c.pipeline = <<>> /\ Unretrieved(c) = <<>>
                  THEN MarkIdle(c)
                  ELSE AddToWritePipeline(c, Fetched(c)))

(* A permanent error: the request itself was the problem. *)
HandleWriteError(c) ==
    FillWritePipeline(
        RemoveMutationBatch(InhibitBackoff([c EXCEPT !.pipeline = Tail(@)]),
                            Head(c.pipeline)))

(* a slip: the stream is not started again *)
OnWriteStreamCloseForGood(c, status) ==
    IF status = "ok" THEN HardAssert(c, ~ShouldStartWriteStream(c))
    ELSE IF status = "permanent" /\ c.pipeline # <<>> /\ c.handshakeComplete
         THEN HandleWriteError(c) ELSE c

(* a slip: any permanent error is taken for one of the first write *)
OnWriteStreamCloseBlaming(c, status) ==
    StartIfNeeded(
        IF status = "ok" THEN HardAssert(c, ~ShouldStartWriteStream(c))
        ELSE IF status = "permanent" /\ c.pipeline # <<>>
             THEN HandleWriteError(c) ELSE c)

(* HandleHandshakeError only forgets the stream token. *)
OnWriteStreamClose(c, status) ==
    StartIfNeeded(
        IF status = "ok" THEN HardAssert(c, ~ShouldStartWriteStream(c))
        ELSE IF status = "permanent" /\ c.pipeline # <<>> /\ c.handshakeComplete
             THEN HandleWriteError(c) ELSE c)

(* Stream::Close with NotifyStreamClose: the handshake counts as complete until
   OnWriteStreamClose has returned. *)
Close(c, status) ==
    IF status = "ok" /\ ~IsStarted(c) THEN c
    ELSE [OnWriteStreamClose(Closed(c, status), status) EXCEPT !.handshakeComplete = FALSE]

DisableNetworkInternal(c) == [Close(c, "ok") EXCEPT !.pipeline = <<>>]

EnableNetwork(c) == FillWritePipeline([c EXCEPT !.networkEnabled = TRUE])

RestartNetwork(c) ==
    EnableNetwork(InhibitBackoff(DisableNetworkInternal([c EXCEPT !.networkEnabled = FALSE])))
-----------------------------------------------------------------------------
(* The tasks of the worker queue *)

(* SyncEngine::WriteMutations *)
AppWrite(write) ==
    /\ Len(client.queues[client.user]) < MaxQueued
    /\ client.nextBatchId <= MaxBatchId
    /\ client' = FillWritePipeline(WriteLocally(client, write))
    /\ UNCHANGED <<users, connection>>

(* RequestCredentials' answer: ResumeStartWithCredentials, unless the stream
   was closed since.  GrpcStream::Start calls OnStreamStart at once. *)
TokenArrives(age, ok) ==
    LET answered == [client EXCEPT !.requests = @ \ {age}]
        resumed == HardAssert(answered, client.state = "Starting")
    IN  /\ age \in client.requests
        /\ client' = IF age # 0 THEN answered
                     ELSE IF ok THEN WriteHandshake([resumed EXCEPT !.state = "Open"])
                     ELSE Close(resumed, "transient")
        /\ UNCHANGED <<users, connection>>

Answered == client.answers # <<>> /\ Head(client.answers) # "refused"

Popped == [client EXCEPT !.answers = Tail(@)]

(* NotifyStreamResponse: the first response is the handshake's. *)
OnWriteStreamHandshakeComplete ==
    /\ Answered
    /\ ~client.handshakeComplete
    /\ client' = LET complete == [Popped EXCEPT !.handshakeComplete = TRUE]
                 IN  WriteMutations(complete, complete.pipeline)
    /\ UNCHANGED <<users, connection>>

OnWriteStreamMutationResult ==
    /\ Answered
    /\ client.handshakeComplete
    /\ client' = LET answered == HardAssert(Popped, client.pipeline # <<>>)
                 IN  FillWritePipeline(
                        RemoveMutationBatch([answered EXCEPT !.pipeline = Tail(@)],
                                            Head(client.pipeline)))
    /\ UNCHANGED <<users, connection>>

(* OnStreamFinish: the network or the server ends the stream.  Before the
   handshake is complete the error may be of any kind. *)
StreamBroken(status) ==
    /\ IsOpen(client)
    /\ status = "permanent" => ~client.handshakeComplete
    /\ client' = Close(client, status)
    /\ UNCHANGED <<users, connection>>

(* OnStreamFinish: the server has refused the first write. *)
WriteRefused ==
    /\ client.answers # <<>> /\ Head(client.answers) = "refused"
    /\ client' = Close(client, "permanent")
    /\ UNCHANGED <<users, connection>>

(* a slip: the stream is left in its initial state *)
BackoffElapsedOnly ==
    /\ client.state = "Backoff"
    /\ client' = [client EXCEPT !.state = "Initial"]
    /\ UNCHANGED <<users, connection>>

BackoffElapsed ==
    /\ client.state = "Backoff"
    /\ client' = Start([client EXCEPT !.state = "Initial"])
    /\ UNCHANGED <<users, connection>>

IdleTimeout ==
    /\ client.idleTimer
    /\ client' = Close(client, "ok")
    /\ UNCHANGED <<users, connection>>

(* SyncEngine::HandleCredentialChange: another user, or the same one again. *)
HandleCredentialChange(u) ==
    /\ client' = RestartNetwork(IF u = client.user THEN client
                                ELSE HandleUserChange(client, u))
    /\ UNCHANGED <<users, connection>>

(* ConnectivityMonitor's callbacks: GrpcConnection's ends the calls it has, and
   RemoteStore's starts again if there is a network. *)
ConnectivityChanged(available) ==
    LET ended == IF IsOpen(client) THEN Close(client, "transient") ELSE client
    IN  /\ client' = IF available THEN RestartNetwork(ended) ELSE ended
        /\ UNCHANGED <<users, connection>>

(* FirestoreClient::Initialize on what the disk and the keychain hold. *)
Initialized(u, queues) ==
    EnableNetwork(
        [user |-> u, queues |-> queues, nextBatchId |-> LoadNextBatchId(queues),
         networkEnabled |-> FALSE, pipeline |-> <<>>,
         state |-> "Initial", handshakeComplete |-> FALSE, idleTimer |-> FALSE,
         requests |-> {}, sent |-> <<>>, answers |-> <<>>, failed |-> FALSE])

(* The process ends and is launched again. *)
Relaunched ==
    /\ client' = Initialized(client.user, client.queues)
    /\ UNCHANGED <<users, connection>>
-----------------------------------------------------------------------------
(* The server *)

(* It reads what the client sends in order, until it has refused a write. *)
Reads == client.sent # <<>> /\ "refused" \notin ToSet(client.answers)

Answering(answer) ==
    client' = [client EXCEPT !.sent = Tail(@), !.answers = Append(@, answer)]

ServerAcceptsHandshake ==
    /\ Reads
    /\ Head(client.sent) = Handshake
    /\ Answering("handshake")
    /\ UNCHANGED <<users, connection>>

ServerApplies ==
    /\ Reads
    /\ client.user \notin Denied
    /\ LET write == Head(client.sent).write IN
          /\ Head(client.sent) # Handshake
          /\ IF write.collection = "users"
             THEN /\ users' = [users EXCEPT ![write.id] = DB!Written(write, @)]
                  /\ UNCHANGED connection
             ELSE /\ connection' = [connection EXCEPT ![write.id] = DB!Written(write, @)]
                  /\ UNCHANGED users
    /\ Answering("result")

ServerRefuses ==
    /\ Reads
    /\ client.user \in Denied
    /\ Head(client.sent) # Handshake
    /\ Answering("refused")
    /\ UNCHANGED <<users, connection>>
-----------------------------------------------------------------------------
Init ==
    /\ client = Initialized(Nil, [u \in Users |-> <<>>])
    /\ \E registered \in SUBSET Accounts : DB!DBInit(registered)

Next ==
    /\ ~client.failed
    /\ \/ \E write \in AppWrites : AppWrite(write)
       \/ \E age \in 0 .. MaxAge, ok \in BOOLEAN : TokenArrives(age, ok)
       \/ OnWriteStreamHandshakeComplete
       \/ OnWriteStreamMutationResult
       \/ \E status \in {"transient", "permanent"} : StreamBroken(status)
       \/ WriteRefused
       \/ BackoffElapsed
       \/ IdleTimeout
       \/ \E u \in Users : HandleCredentialChange(u)
       \/ \E available \in BOOLEAN : ConnectivityChanged(available)
       \/ Relaunched
       \/ ServerAcceptsHandshake \/ ServerApplies \/ ServerRefuses

Spec == Init /\ [][Next]_vars

(* The timer fires (weak).  Tokens, connections and answers fail and are tried
   again; what is tried again and again succeeds in the end (strong). *)
Fairness ==
    /\ WF_vars(BackoffElapsed)
    /\ SF_vars(TokenArrives(0, TRUE))
    /\ SF_vars(ServerAcceptsHandshake) /\ SF_vars(OnWriteStreamHandshakeComplete)
    /\ SF_vars(ServerApplies) /\ SF_vars(OnWriteStreamMutationResult)
    /\ SF_vars(ServerRefuses) /\ SF_vars(WriteRefused)

FairSpec == Spec /\ Fairness
-----------------------------------------------------------------------------
TypeOK ==
    /\ client \in Client
    /\ users \in [Accounts -> DB!UserData \cup {Nil}]
    /\ connection \in [Codes -> Accounts \cup {Nil}]

(* None of the HARD_ASSERTs of the write path ever fails: no result without a
   write, no graceful stop of a stream that is needed, no write before the
   handshake, no late token, no batch that is gone. *)
NoAssertFails == ~client.failed

(* No write is stranded: the pipeline holds the current user's oldest writes, as
   many as it may, and while there is one the stream is up or on its way up
   (FillWritePipeline, OnWriteStreamClose). *)
NothingStranded ==
    LET queue == client.queues[client.user]
        room == IF Len(queue) < kMaxPendingWrites THEN Len(queue) ELSE kMaxPendingWrites
    IN  /\ client.pipeline = SubSeq(queue, 1, room)
        /\ client.pipeline # <<>> => IsStarted(client)

(* Answers meet their writes: what is still under way to the server is the
   pipeline without the writes that are answered, in the pipeline's order
   (OnWriteStreamMutationResult pops the first write, whatever was answered). *)
AnswersMatch ==
    client.handshakeComplete /\ client.user \notin Denied =>
        /\ Len(client.answers) <= Len(client.pipeline)
        /\ client.sent = SubSeq(client.pipeline, Len(client.answers) + 1, Len(client.pipeline))

(* What StartFlow takes for granted about the sender, as AppDB states it: the
   pipeline implements the queue of AppDB, whatever breaks, stops or restarts. *)
ImplementsAppDB == DB!DBSpec

(* StartFlow's fairness of Sent: a write that waits for ever is applied. *)
KeepsSending ==
    <>[](client.user \notin Denied /\ Committed < Len(client.queues[client.user]))
        => []<><<ServerApplies>>_vars

(* The first write of a queue moves on, answered or refused, unless its user
   signs out: it never waits behind a stream that nobody starts. *)
First(u, id) ==
    /\ client.user = u
    /\ client.queues[u] # <<>>
    /\ Head(client.queues[u]).id = id

FirstMovesOn == \A u \in Users, id \in 1 .. MaxBatchId : First(u, id) ~> ~First(u, id)
=============================================================================
