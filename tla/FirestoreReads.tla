--------------------------- MODULE FirestoreReads ---------------------------
(***************************************************************************)
(* getDocument of the Firestore client, for one document: the listener it  *)
(* attaches and removes again, the watch stream, the online state and its  *)
(* timer.  checkProfile's read of users/<token> is the app's only read.    *)
(*                                                                         *)
(* Two threads: the main queue, where the app calls and is called back,    *)
(* and the worker queue, one task at a time.  As in FirestoreWrites the    *)
(* client is one record and a task is a composition of its functions.      *)
(*                                                                         *)
(* Versions of the document: Unknown is what a cache has that never heard  *)
(* of it, Absent the version before it is created, and then one more with  *)
(* every change.                                                           *)
(***************************************************************************)
EXTENDS FirestoreStream, Integers, SequencesExt

CONSTANTS Reads,        \* calls of getDocument; each is made once
          MaxVersion,   \* bound: the last version of the document
          MaxEvents     \* bound: events of one listener that wait for the main queue

VARIABLES client,
          called,       \* the reads that were asked for
          tasks,        \* the worker queue's tasks from the main queue
          muted,        \* the reads whose listener is muted
          answers,      \* what each read's completion was called with
          document,     \* the server's version of the document
          allowed       \* whether the signed-in user may read it

vars == <<client, called, tasks, muted, answers, document, allowed>>

Unknown == 0
Absent == 1
Versions == Unknown .. MaxVersion

ASSUME FirestoreReadsAssumption ==
    MaxVersion \in Nat \ {0} /\ MaxEvents \in Nat \ {0}
-----------------------------------------------------------------------------
(* since: the server's version when the view was made. *)
Snapshot == [version : Versions, fromCache : BOOLEAN, since : Versions]
Errors == [error : {"denied", "unavailable"}]
Results == Errors \cup {s \in Snapshot : s.fromCache => s.version > Absent}
Kinds == {"added", "removed", "denied", "current", "global", "early"}
Messages == [kind : Kinds, version : Versions]
Requests == {"watch", "unwatch"}

(* online, timer, failures: the OnlineStateTracker (failures: whether there
   were any).  outstanding, current, changed: the WatchChangeAggregator's state
   of the target, changed being has_pending_changes_; update: the document it
   holds for the next snapshot.  listeners, raised, events: the EventManager's
   listeners, those that have had their first event, and what is on the main
   queue for them.  remoteDocument, updateTime: the document in the cache and
   the version it stands for, which for a document that was deduced to be absent
   is the snapshot's.  contains: whether the target's keys have the document.
   synced: the View's current_.  watching, told: the server's side of the
   stream.  rejoined, of no variable of the code: whether the target was ever
   added anew with its current_ left over from before. *)
Client == [state : States, requests : SUBSET (0 .. MaxAge), idleTimer : BOOLEAN,
           sent : Seq(Requests), answers : Seq(Messages), failed : BOOLEAN,
           networkEnabled : BOOLEAN,
           online : {"Unknown", "Online", "Offline"}, timer : BOOLEAN, failures : BOOLEAN,
           outstanding : Int, current : BOOLEAN, changed : BOOLEAN, update : Versions,
           listeners : SUBSET Reads, raised : SUBSET Reads,
           events : [Reads -> Seq(Snapshot \cup Errors)],
           remoteDocument : Versions, updateTime : Versions, contains : BOOLEAN,
           synced : BOOLEAN, since : Versions,
           watching : BOOLEAN, told : Versions, rejoined : BOOLEAN]

IsListening(c) == c.listeners # {}
-----------------------------------------------------------------------------
(* EventManager and its QueryListeners *)
Post(c, reads, event) ==
    [c EXCEPT !.events = [r \in Reads |->
        IF r \in reads /\ Len(@[r]) < MaxEvents THEN Append(@[r], event) ELSE @[r]]]

ViewSnapshot(c) ==
    [version |-> c.remoteDocument, fromCache |-> ~c.synced, since |-> c.since]

(* With wait_for_sync_when_online. *)
ShouldRaiseInitialEvent(c) == c.synced \/ c.online = "Offline"

OnViewSnapshot(c, reads) ==
    LET due == {r \in reads : r \in c.raised \/ ShouldRaiseInitialEvent(c)}
    IN  [Post(c, due, ViewSnapshot(c)) EXCEPT !.raised = @ \cup due]

OnOnlineStateChanged(c) == OnViewSnapshot(c, c.listeners \ c.raised)

(* SyncEngine: a view is not in sync any more once the client is offline. *)
ApplyOnlineStateChange(c, state) ==
    IF c.synced /\ state = "Offline"
    THEN OnViewSnapshot([c EXCEPT !.synced = FALSE], c.listeners) ELSE c
-----------------------------------------------------------------------------
(* OnlineStateTracker *)
SetAndBroadcast(c, state) ==
    IF state = c.online THEN c
    ELSE OnOnlineStateChanged([ApplyOnlineStateChange(c, state) EXCEPT !.online = state])

HandleWatchStreamStart(c) ==
    IF c.failures THEN c
    ELSE [HardAssert(SetAndBroadcast(c, "Unknown"), ~c.timer) EXCEPT !.timer = TRUE]

(* a slip: the timer is left to run *)
HandleWatchStreamFailureTimed(c) ==
    IF c.online = "Online"
    THEN HardAssert(SetAndBroadcast(c, "Unknown"), ~c.failures /\ ~c.timer)
    ELSE SetAndBroadcast([c EXCEPT !.failures = TRUE], "Offline")

(* kMaxWatchStreamFailures is one. *)
HandleWatchStreamFailure(c) ==
    IF c.online = "Online"
    THEN HardAssert(SetAndBroadcast(c, "Unknown"), ~c.failures /\ ~c.timer)
    ELSE SetAndBroadcast([c EXCEPT !.failures = TRUE, !.timer = FALSE], "Offline")

UpdateState(c, state) ==
    SetAndBroadcast([c EXCEPT !.timer = FALSE, !.failures = FALSE], state)
-----------------------------------------------------------------------------
(* RemoteStore and its WatchChangeAggregator *)
CanUseNetwork(c) == c.networkEnabled

(* a slip: responses that are due are not counted *)
SendUncounted(c, request) == Write(c, <<request>>)

(* SendWatchRequest and SendUnwatchRequest, with RecordPendingTargetRequest *)
Send(c, request) == [Write(c, <<request>>) EXCEPT !.outstanding = @ + 1]

ShouldStartWatchStream(c) == CanUseNetwork(c) /\ ~IsStarted(c) /\ IsListening(c)

StartWatchStream(c) == HandleWatchStreamStart(Start(c))

OnWatchStreamOpen(c) == IF IsListening(c) THEN Send(c, "watch") ELSE c

(* a slip: a stream that fails is left alone *)
OnWatchStreamCloseForGood(c, status) ==
    IF ShouldStartWatchStream(c)
    THEN HandleWatchStreamFailure(HardAssert(c, status # "ok"))
    ELSE UpdateState(c, "Unknown")

OnWatchStreamClose(c, status) ==
    IF ShouldStartWatchStream(c)
    THEN StartWatchStream(HandleWatchStreamFailure(HardAssert(c, status # "ok")))
    ELSE UpdateState(c, "Unknown")

(* Stream::Close, and CleanUpWatchStreamState on this side and the server's. *)
Close(c, status) ==
    IF status = "ok" /\ ~IsStarted(c) THEN c
    ELSE OnWatchStreamClose(
            [Closed(c, status) EXCEPT !.outstanding = 0, !.current = FALSE, !.changed = FALSE,
                                      !.update = Unknown, !.watching = FALSE, !.told = Unknown],
            status)

EnableNetwork(c) ==
    LET enabled == [c EXCEPT !.networkEnabled = TRUE]
    IN  IF ShouldStartWatchStream(enabled) THEN StartWatchStream(enabled)
        ELSE UpdateState(enabled, "Unknown")

RestartNetwork(c) ==
    EnableNetwork(InhibitBackoff(UpdateState(
        Close([c EXCEPT !.networkEnabled = FALSE], "ok"), "Unknown")))

Listen(c) ==
    IF ShouldStartWatchStream(c) THEN StartWatchStream(c)
    ELSE IF IsOpen(c) THEN Send(c, "watch") ELSE c

StopListening(c) ==
    IF IsOpen(c) THEN MarkIdle(Send(c, "unwatch"))
    ELSE IF CanUseNetwork(c) THEN UpdateState(c, "Unknown") ELSE c

(* a slip: responses that are due do not matter *)
IsListenedTarget(c) == IsListening(c)

(* The target counts only while no response is due. *)
IsActiveTarget(c) == c.outstanding = 0 /\ IsListening(c)

(* a slip: a document the target never held is left to limbo resolution *)
LacksNoDocument(c) == FALSE

(* A current target that neither holds the document nor has been sent it. *)
LacksDocument(c) == IsActiveTarget(c) /\ c.current /\ c.update = Unknown /\ ~c.contains

(* RaiseWatchSnapshot, CreateRemoteEvent, LocalStore::ApplyRemoteEvent and the
   view's ApplyChanges: a newer document goes into the cache, one that the
   target lacks is deduced to be absent, and a target that changed, or has a
   new resume token, tells its view whether it is current. *)
RaiseWatchSnapshot(c, version, token) ==
    LET absent == LacksDocument(c) /\ version >= c.updateTime
        newer == c.update > c.updateTime
        reported == IsActiveTarget(c) /\ (c.changed \/ token \/ LacksDocument(c))
        next == [c EXCEPT
            !.remoteDocument = IF absent THEN Absent ELSE IF newer THEN c.update ELSE @,
            !.updateTime = IF absent THEN version ELSE IF newer THEN c.update ELSE @,
            !.contains = @ \/ (reported /\ c.update # Unknown),
            !.synced = IF reported THEN c.current ELSE @,
            !.changed = @ /\ ~IsActiveTarget(c), !.update = Unknown]
        shows == next.remoteDocument # c.remoteDocument
                    /\ (next.remoteDocument > Absent \/ c.remoteDocument > Absent)
    IN  IF shows \/ next.synced # c.synced THEN OnViewSnapshot(next, next.listeners) ELSE next

(* RecordTargetResponse, and what the last response that was due resets:
   RemoveTarget the whole target, ClearPendingChanges not its current_. *)
Responded(c, kind) ==
    LET last == c.outstanding = 1
    IN  [c EXCEPT !.outstanding = @ - 1, !.changed = @ /\ ~last,
                  !.current = @ /\ ~(last /\ kind = "removed"),
                  !.rejoined = @ \/ (last /\ kind = "added" /\ c.current)]

(* ProcessTargetError: HandleRejectedListen, RemoveTarget. *)
ProcessTargetError(c) ==
    IF ~IsListening(c) THEN c
    ELSE [Post(c, c.listeners, [error |-> "denied"]) EXCEPT
            !.listeners = {}, !.synced = FALSE,
            !.outstanding = 0, !.current = FALSE, !.changed = FALSE]

(* The document, if there is one, and the target's CURRENT, which follows it. *)
HandleCurrent(c, version) ==
    IF ~IsActiveTarget(c) THEN c
    ELSE [c EXCEPT !.update = IF version > Absent THEN version ELSE @,
                   !.current = TRUE, !.changed = TRUE]

(* token: whether the message brings a new resume token. *)
OnWatchStreamChange(c, message, token) ==
    LET online == UpdateState(c, "Online")
    IN  CASE message.kind \in {"added", "removed"} -> Responded(online, message.kind)
          [] message.kind = "denied" -> ProcessTargetError(online)
          [] message.kind = "current" -> HandleCurrent(online, message.version)
          [] message.kind \in {"global", "early"} ->
                RaiseWatchSnapshot(online, message.version, token)
-----------------------------------------------------------------------------
(* The main queue *)

(* GetDocument: AddSnapshotListener's task is the worker's to run. *)
getDocument(r) ==
    /\ r \notin called
    /\ called' = called \cup {r}
    /\ tasks' = Append(tasks, [op |-> "add", read |-> r])
    /\ UNCHANGED <<client, muted, answers, document, allowed>>

(* a slip: a cache that knows no document is taken at its word *)
AnswerAsIs(event) == event

(* Nothing in the cache is no answer while the client is offline. *)
Answer(event) ==
    IF event \notin Errors /\ event.fromCache /\ event.version <= Absent
    THEN [error |-> "unavailable"] ELSE event

(* a slip: the listener is removed, not muted *)
OnEventUnmuted(r) ==
    /\ client.events[r] # <<>>
    /\ client' = [client EXCEPT !.events[r] = Tail(@)]
    /\ LET event == Head(client.events[r]) IN
          /\ answers' = [answers EXCEPT ![r] = Append(@, Answer(event))]
          /\ tasks' = IF event \in Errors THEN tasks
                      ELSE Append(tasks, [op |-> "remove", read |-> r])
    /\ UNCHANGED <<called, muted, document, allowed>>

(* AsyncEventListener and ListenOnce: the first snapshot mutes and removes the
   listener and is the answer. *)
OnEvent(r) ==
    /\ client.events[r] # <<>>
    /\ client' = [client EXCEPT !.events[r] = Tail(@)]
    /\ LET event == Head(client.events[r]) IN
          IF r \in muted THEN UNCHANGED <<answers, tasks, muted>>
          ELSE /\ answers' = [answers EXCEPT ![r] = Append(@, Answer(event))]
               /\ IF event \in Errors THEN UNCHANGED <<tasks, muted>>
                  ELSE /\ tasks' = Append(tasks, [op |-> "remove", read |-> r])
                       /\ muted' = muted \cup {r}
    /\ UNCHANGED <<called, document, allowed>>
-----------------------------------------------------------------------------
(* The tasks of the worker queue *)

(* AddQueryListener: a later listener gets the view as it is; the first makes
   one from the cache and listens. *)
AddQueryListener(c, r) ==
    LET added == [c EXCEPT !.listeners = @ \cup {r}]
    IN  IF IsListening(c) THEN OnViewSnapshot(added, {r})
        ELSE Listen(OnViewSnapshot([added EXCEPT !.synced = FALSE, !.since = document], {r}))

RemoveQueryListener(c, r) ==
    LET removed == [c EXCEPT !.listeners = @ \ {r}]
    IN  IF r \notin c.listeners \/ IsListening(removed) THEN removed
        ELSE StopListening([removed EXCEPT !.synced = FALSE])

RunTask ==
    /\ tasks # <<>>
    /\ LET task == Head(tasks) IN
          client' = IF task.op = "add" THEN AddQueryListener(client, task.read)
                    ELSE RemoveQueryListener(client, task.read)
    /\ tasks' = Tail(tasks)
    /\ UNCHANGED <<called, muted, answers, document, allowed>>

(* Everything else leaves the app's side as it is. *)
WorkerDoes(c) ==
    /\ client' = c
    /\ UNCHANGED <<called, tasks, muted, answers, document>>

(* RequestCredentials' answer; NotifyStreamOpen follows at once. *)
TokenArrives(age, ok) ==
    LET answered == [client EXCEPT !.requests = @ \ {age}]
        resumed == HardAssert(answered, client.state = "Starting")
    IN  /\ age \in client.requests
        /\ WorkerDoes(IF age # 0 THEN answered
                      ELSE IF ok THEN OnWatchStreamOpen([resumed EXCEPT !.state = "Open"])
                      ELSE Close(resumed, "error"))
        /\ UNCHANGED allowed

Received(kind) ==
    /\ client.answers # <<>> /\ Head(client.answers).kind = kind
    /\ \E token \in BOOLEAN :
          WorkerDoes(OnWatchStreamChange([client EXCEPT !.answers = Tail(@)],
                                         Head(client.answers), token))
    /\ UNCHANGED allowed

StreamBroken == IsOpen(client) /\ WorkerDoes(Close(client, "error")) /\ UNCHANGED allowed

BackoffElapsed ==
    /\ client.state = "Backoff"
    /\ WorkerDoes(Start([client EXCEPT !.state = "Initial"]))
    /\ UNCHANGED allowed

IdleTimeout == client.idleTimer /\ WorkerDoes(Close(client, "ok")) /\ UNCHANGED allowed

(* kOnlineStateTimeout *)
OnlineStateTimeout ==
    /\ client.timer
    /\ WorkerDoes(SetAndBroadcast(
            [HardAssert(client, client.online = "Unknown") EXCEPT !.timer = FALSE], "Offline"))
    /\ UNCHANGED allowed

(* Another user, who may or may not read the document. *)
HandleCredentialChange ==
    /\ WorkerDoes(RestartNetwork(client))
    /\ allowed' \in BOOLEAN

ConnectivityChanged(available) ==
    LET ended == IF IsOpen(client) THEN Close(client, "error") ELSE client
    IN  /\ WorkerDoes(IF available THEN RestartNetwork(ended) ELSE ended)
        /\ UNCHANGED allowed
-----------------------------------------------------------------------------
(* The server *)
Message(kind, version) == [kind |-> kind, version |-> version]

ServerListens ==
    /\ client.sent # <<>>
    /\ LET watch == Head(client.sent) = "watch"
           reply == IF ~watch THEN "removed" ELSE IF allowed THEN "added" ELSE "denied"
       IN  WorkerDoes([client EXCEPT !.sent = Tail(@),
                                     !.watching = watch /\ allowed, !.told = Unknown,
                                     !.answers = Append(@, Message(reply, Unknown))])
    /\ UNCHANGED allowed

(* The document if there is news, and that the stream is consistent again. *)
ServerTells ==
    /\ client.watching /\ client.told # document
    /\ WorkerDoes([client EXCEPT !.told = document,
            !.answers = @ \o <<Message("current", document), Message("global", document)>>])
    /\ UNCHANGED allowed

(* A snapshot of the stream before the target is current in it.  One at the end
   of the stream stands for any number. *)
ServerSnapshot ==
    /\ client.watching /\ client.told = Unknown
    /\ client.answers # <<>> => Last(client.answers).kind # "early"
    /\ WorkerDoes([client EXCEPT !.answers = Append(@, Message("early", document))])
    /\ UNCHANGED allowed

DocumentChanges ==
    /\ document < MaxVersion
    /\ document' = document + 1
    /\ UNCHANGED <<client, called, tasks, muted, answers, allowed>>
-----------------------------------------------------------------------------
(* A cache from an earlier run of the app, which may be behind. *)
Init ==
    /\ document \in Absent .. MaxVersion
    /\ allowed \in BOOLEAN
    /\ called = {} /\ tasks = <<>> /\ muted = {} /\ answers = [r \in Reads |-> <<>>]
    /\ \E cached \in Unknown .. document, contains \in BOOLEAN :
       /\ contains => cached > Absent
       /\ client = [state |-> "Initial", requests |-> {}, idleTimer |-> FALSE,
                    sent |-> <<>>, answers |-> <<>>, failed |-> FALSE,
                    networkEnabled |-> TRUE,
                    online |-> "Unknown", timer |-> FALSE, failures |-> FALSE,
                    outstanding |-> 0, current |-> FALSE, changed |-> FALSE, update |-> Unknown,
                    listeners |-> {}, raised |-> {}, events |-> [r \in Reads |-> <<>>],
                    remoteDocument |-> cached, updateTime |-> cached, contains |-> contains,
                    synced |-> FALSE, since |-> Unknown,
                    watching |-> FALSE, told |-> Unknown, rejoined |-> FALSE]

Next ==
    /\ ~client.failed
    /\ \/ \E r \in Reads : getDocument(r) \/ OnEvent(r)
       \/ RunTask
       \/ \E age \in 0 .. MaxAge, ok \in BOOLEAN : TokenArrives(age, ok)
       \/ \E kind \in Kinds : Received(kind)
       \/ StreamBroken \/ BackoffElapsed \/ IdleTimeout \/ OnlineStateTimeout
       \/ HandleCredentialChange
       \/ \E available \in BOOLEAN : ConnectivityChanged(available)
       \/ ServerListens \/ ServerTells \/ ServerSnapshot \/ DocumentChanges

Spec == Init /\ [][Next]_vars

(* The server answers and tells, and its messages arrive, or the stream ends. *)
ServerSpeaks == ServerListens \/ ServerTells \/ StreamBroken
MessageArrives == (\E kind \in Kinds : Received(kind)) \/ StreamBroken

(* The queues run, the timers fire, a request for a token and an open stream
   come to something, good or bad. *)
Fairness ==
    /\ WF_vars(RunTask) /\ \A r \in Reads : WF_vars(OnEvent(r))
    /\ WF_vars(BackoffElapsed) /\ WF_vars(OnlineStateTimeout)
    /\ WF_vars(\E ok \in BOOLEAN : TokenArrives(0, ok))
    /\ WF_vars(ServerSpeaks) /\ WF_vars(MessageArrives)

FairSpec == Spec /\ Fairness
-----------------------------------------------------------------------------
TypeOK ==
    /\ client \in Client
    /\ called \subseteq Reads /\ muted \subseteq Reads
    /\ tasks \in Seq([op : {"add", "remove"}, read : Reads])
    /\ answers \in [Reads -> Seq(Results)]
    /\ document \in Versions /\ allowed \in BOOLEAN

(* None of the HARD_ASSERTs of the read path fails: the online state timer is
   never started twice, nor does it fire in a state that is known; no stream is
   stopped that is needed, none is written to that is not open. *)
NoAssertFails == ~client.failed

(* A completion runs once: later events of its listener, and those that were on
   the main queue already, never reach it (ListenOnce would ask for the result
   of its promise a second time). *)
AnsweredOnce == \A r \in Reads : Len(answers[r]) <= 1

(* What is said to come from the server is no older than the listener's view. *)
UpToDate ==
    \A r \in Reads : \A event \in ToSet(answers[r]) \ Errors :
        ~event.fromCache => event.version >= event.since

(* It is, unless a target was added anew that was current: messages that answer
   an earlier listen of the same document, on the same stream, are told apart by
   the responses that are due, and snapshots that come early say nothing. *)
Fresh == ~client.rejoined => UpToDate

(* A view in sync shows no document that its target does not hold, so nothing is
   left to resolve in limbo: what is missing was deduced to be absent. *)
NeverInLimbo == client.synced /\ client.remoteDocument > Absent => client.contains

(* Both ends of the stream count alike: the responses the client waits for are
   its requests under way and the server's responses to them. *)
ResponsesCounted ==
    IsOpen(client) /\ allowed =>
        client.outstanding = Len(client.sent)
            + Cardinality({k \in DOMAIN client.answers :
                              client.answers[k].kind \in {"added", "removed"}})

(* No read is forgotten: while one listens the stream is up or on its way up,
   and an open stream listens at the server or has been asked to. *)
NoReadForgotten ==
    IsListening(client) =>
        /\ IsStarted(client)
        /\ IsOpen(client) /\ allowed =>
              IF client.sent = <<>> THEN client.watching ELSE Last(client.sent) = "watch"

(* The timeout of online_state_tracker.cc:50: a stream attempt that neither
   succeeds nor fails does not keep a read waiting in the unknown state. *)
WaitIsTimed ==
    IsListening(client) /\ client.state \in {"Starting", "Open"} /\ client.online = "Unknown"
        => client.timer

(* From some time on nobody restarts the streams, and none breaks that has
   been heard from. *)
Disturbed ==
    \/ HandleCredentialChange
    \/ \E available \in BOOLEAN : ConnectivityChanged(available)
    \/ StreamBroken /\ client.online = "Online"

Calm == <>[][~Disturbed]_vars

(* Every read's completion is called in the end, with a document or an error,
   whether or not there is a network: a read waits behind no stream that nobody
   starts and for no answer to a request that was never sent. *)
EveryReadAnswered == Calm => \A r \in Reads : r \in called ~> answers[r] # <<>>
=============================================================================
