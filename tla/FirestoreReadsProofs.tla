------------------------ MODULE FirestoreReadsProofs ------------------------
(***************************************************************************)
(* What holds of getDocument for any reads and bounds: no HARD_ASSERT      *)
(* fails, a completion runs at most once, what comes from the server is    *)
(* fresh, both ends of the stream count alike and no read is forgotten.    *)
(*                                                                         *)
(* A task is a composition of functions from client to client: one lemma   *)
(* per function says what it needs of a client and what it leaves alone.   *)
(* doc and al stand for the server's document and whether it may be read.  *)
(***************************************************************************)
EXTENDS FirestoreReads, SequenceTheorems, FiniteSetTheorems, FunctionTheorems, TLAPS

(* Where the responses to requests are in what the server has sent. *)
Responses(messages) ==
    {k \in DOMAIN messages : messages[k].kind \in {"added", "removed"}}

(* An error is the last event of a listener that is gone, and what a view in sync
   showed is no older than its listener, if no target was ever added anew. *)
EventsSound(c) ==
    \A r \in Reads : \A k \in DOMAIN c.events[r] :
        LET event == c.events[r][k] IN
        IF event \in Errors THEN k = Len(c.events[r]) /\ r \notin c.listeners
        ELSE ~c.rejoined /\ ~event.fromCache => event.version >= event.since

(* A stream that is not open has nothing under way. *)
Empty(c) ==
    /\ c.sent = <<>> /\ c.answers = <<>> /\ ~c.idleTimer
    /\ c.outstanding = 0 /\ ~c.current /\ ~c.watching /\ c.told = Unknown

(* The cache has the document it stands for, and a target that holds the document
   has it there. *)
Honest(c) ==
    /\ c.updateTime = c.remoteDocument
    /\ c.contains => c.remoteDocument > Absent
    /\ c.synced => c.remoteDocument >= c.since

(* What every function leaves true, in the middle of a task too. *)
Core(c, doc) ==
    /\ c \in Client /\ ~c.failed
    /\ 0 \in c.requests => c.state = "Starting"
    /\ ~IsOpen(c) => Empty(c)
    /\ c.update # Unknown => c.update > Absent
    /\ ~c.rejoined => Honest(c)
    /\ c.since <= doc
    /\ EventsSound(c)

(* The online state tracker's assertions. *)
Tracker(c) ==
    /\ c.timer => c.online = "Unknown"
    /\ c.failures => c.online = "Offline"

(* What the server tells after the last response answers the current listen. *)
ToldFresh(c) ==
    \A k \in DOMAIN c.answers :
        c.answers[k].kind = "current" /\ (\A j \in Responses(c.answers) : j < k)
            => c.answers[k].version >= c.since

(* An open stream whose target the server has been asked for, or has; of a target
   that is current the document is on its way into the cache, in it, or absent. *)
Watched(c) ==
    /\ IF c.sent = <<>> THEN c.watching /\ ToldFresh(c) ELSE c.sent[Len(c.sent)] = "watch"
    /\ c.current /\ c.outstanding = 0 /\ ~c.rejoined =>
          \/ c.since <= Absent
          \/ c.changed /\ c.update > Absent /\ c.update >= c.since
          \/ c.contains /\ c.remoteDocument >= c.since

(* An open stream, to a server that lets the user read the document or not. *)
Channel(c, al) ==
    IsOpen(c) =>
        /\ c.idleTimer => ~IsListening(c)
        /\ al => /\ \A k \in DOMAIN c.answers : c.answers[k].kind # "denied"
                 /\ c.outstanding = Len(c.sent) + Cardinality(Responses(c.answers))
                 /\ IsListening(c) => Watched(c)
        /\ ~al => /\ ~c.watching /\ ~c.current
                  /\ \A k \in DOMAIN c.answers : c.answers[k].kind # "current"

(* A snapshot that is not early follows the target's CURRENT, and if that counted,
   the document is in the snapshot unless there is none. *)
Paired(c) ==
    \A k \in DOMAIN c.answers :
        /\ c.answers[k].kind = "current" => c.answers[k].version >= Absent
        /\ c.answers[k].kind = "global" =>
              IF k = 1
              THEN IsActiveTarget(c) => c.update > Absent \/ c.answers[k].version = Absent
              ELSE /\ c.answers[k - 1].kind = "current"
                   /\ c.answers[k - 1].version = c.answers[k].version

(* Between a CURRENT and an early snapshot there is a response. *)
Parted(c) ==
    \A i \in DOMAIN c.answers : c.answers[i].kind = "current" =>
        /\ c.told = Unknown => \E j \in Responses(c.answers) : i < j
        /\ \A k \in DOMAIN c.answers : i < k /\ c.answers[k].kind = "early" =>
              \E j \in Responses(c.answers) : i < j /\ j < k

(* A target that is current, and was not when it was added, was told so. *)
Told(c) ==
    IsActiveTarget(c) /\ c.current /\ ~c.rejoined =>
        /\ c.told # Unknown
        /\ \A k \in DOMAIN c.answers : c.answers[k].kind # "early"

InOrder(c, al) == al => Paired(c) /\ Parted(c) /\ Told(c)

(* What is true between two tasks besides. *)
Up(c) ==
    /\ c.networkEnabled
    /\ IsListening(c) => IsStarted(c)
    /\ c.timer => IsStarted(c)

Good(c, doc, al) == Core(c, doc) /\ Tracker(c) /\ Channel(c, al) /\ InOrder(c, al) /\ Up(c)

AddTask(r) == [op |-> "add", read |-> r]

(* A read is added once, and what it was answered with, it was answered for good. *)
OnceAdded(r) ==
    /\ r \in client.listeners \/ client.events[r] # <<>> \/ answers[r] # <<>> \/ r \in muted
          => r \in called /\ \A k \in DOMAIN tasks : tasks[k] # AddTask(r)
    /\ \A k \in DOMAIN tasks : tasks[k] = AddTask(r) =>
          /\ r \in called
          /\ \A j \in DOMAIN tasks : tasks[j] = AddTask(r) => j = k

OnceAnswered(r) ==
    /\ Len(answers[r]) <= 1
    /\ answers[r] # <<>> /\ r \notin muted => client.events[r] = <<>> /\ r \notin client.listeners
    /\ \A k \in DOMAIN answers[r] :
          answers[r][k] \notin Errors /\ ~client.rejoined /\ ~answers[r][k].fromCache
              => answers[r][k].version >= answers[r][k].since

AppTypeOK ==
    /\ called \subseteq Reads /\ muted \subseteq Reads
    /\ tasks \in Seq([op : {"add", "remove"}, read : Reads])
    /\ answers \in [Reads -> Seq(Results)]
    /\ document \in Absent .. MaxVersion /\ allowed \in BOOLEAN

IInv ==
    /\ AppTypeOK
    /\ Good(client, document, allowed)
    /\ \A r \in Reads : OnceAdded(r) /\ OnceAnswered(r)
-----------------------------------------------------------------------------
(* What a function of the client leaves as it is: everything but the stream's
   state, the online state and the events of the listeners, and a view that is
   out of sync stays so. *)
Kept(c, d) ==
    /\ d.idleTimer = c.idleTimer /\ d.sent = c.sent /\ d.answers = c.answers
    /\ d.networkEnabled = c.networkEnabled /\ d.outstanding = c.outstanding
    /\ d.current = c.current /\ d.changed = c.changed /\ d.update = c.update
    /\ d.listeners = c.listeners
    /\ d.remoteDocument = c.remoteDocument /\ d.since = c.since
    /\ d.watching = c.watching /\ d.told = c.told
    /\ d.updateTime = c.updateTime /\ d.contains = c.contains
    /\ d.rejoined = c.rejoined
    /\ \A r \in Reads \ c.listeners : d.events[r] = c.events[r]
    /\ d.synced => c.synced

(* The stream besides. *)
Still(c, d) == Kept(c, d) /\ d.state = c.state /\ d.requests = c.requests

(* Listeners only go, only they get events, and an added target stays one. *)
Grows(c, d) ==
    /\ d.listeners \subseteq c.listeners
    /\ c.rejoined => d.rejoined
    /\ \A r \in Reads \ c.listeners : d.events[r] = c.events[r]
-----------------------------------------------------------------------------
(* Sequences, and the responses in them *)

(* Taking the first element moves the others one place. *)
LEMMA Tails ==
    ASSUME NEW S, NEW q \in Seq(S), q # <<>>
    PROVE  /\ Len(q) \in Nat \ {0} /\ DOMAIN q = 1 .. Len(q) /\ Head(q) = q[1] /\ Head(q) \in S
           /\ Tail(q) \in Seq(S) /\ Len(Tail(q)) = Len(q) - 1
           /\ DOMAIN Tail(q) = 1 .. Len(q) - 1
           /\ \A k \in 1 .. Len(q) - 1 : Tail(q)[k] = q[k + 1]
  <1>1. Len(q) \in Nat \ {0}
    BY EmptySeq
  <1>2. Tail(q) \in Seq(S) /\ Len(Tail(q)) = Len(q) - 1 /\ Head(q) \in S
        /\ \A k \in 1 .. Len(Tail(q)) : Tail(q)[k] = q[k + 1]
    BY HeadTailProperties
  <1> QED
    BY <1>1, <1>2, LenProperties

(* Every position after the first is one of the tail's. *)
LEMMA TailPlaces ==
    ASSUME NEW S, NEW q \in Seq(S), q # <<>>
    PROVE  /\ \A k \in DOMAIN Tail(q) : k \in Nat /\ k + 1 \in DOMAIN q /\ Tail(q)[k] = q[k + 1]
           /\ \A k \in DOMAIN q : k \in Nat /\ (k = 1 \/ (k - 1 \in DOMAIN Tail(q) /\ k > 1))
           /\ 1 \in DOMAIN q
  BY Tails

(* An element at the end leaves the others where they are. *)
LEMMA Appended ==
    ASSUME NEW S, NEW q \in Seq(S), NEW e \in S
    PROVE  /\ Append(q, e) \in Seq(S) /\ Len(Append(q, e)) = Len(q) + 1 /\ Len(q) \in Nat
           /\ DOMAIN q = 1 .. Len(q) /\ DOMAIN Append(q, e) = 1 .. Len(q) + 1
           /\ \A k \in 1 .. Len(q) : Append(q, e)[k] = q[k]
           /\ Append(q, e)[Len(q) + 1] = e
           /\ Append(q, e) # <<>>
  BY AppendProperties, LenProperties

(* There are finitely many responses in a sequence of messages. *)
LEMMA ResponsesFinite ==
    ASSUME NEW m \in Seq(Messages)
    PROVE  /\ Responses(m) \subseteq 1 .. Len(m) /\ Len(m) \in Nat
           /\ IsFiniteSet(Responses(m)) /\ Cardinality(Responses(m)) \in Nat
  <1>1. Responses(m) \subseteq 1 .. Len(m) /\ Len(m) \in Nat
    BY LenProperties DEF Responses
  <1>2. IsFiniteSet(1 .. Len(m))
    BY <1>1, FS_Interval
  <1>3. IsFiniteSet(Responses(m))
    BY <1>1, <1>2, FS_Subset
  <1> QED
    BY <1>1, <1>3, FS_CardinalityType

(* Another message counts if it is a response. *)
LEMMA ResponsesAppend ==
    ASSUME NEW m \in Seq(Messages), NEW e \in Messages
    PROVE  /\ Responses(Append(m, e)) = IF e.kind \in {"added", "removed"}
                                        THEN Responses(m) \cup {Len(m) + 1} ELSE Responses(m)
           /\ Cardinality(Responses(Append(m, e))) =
                 Cardinality(Responses(m)) + IF e.kind \in {"added", "removed"} THEN 1 ELSE 0
  <1>1. /\ DOMAIN m = 1 .. Len(m) /\ Len(m) \in Nat
        /\ DOMAIN Append(m, e) = 1 .. Len(m) + 1
        /\ \A k \in 1 .. Len(m) : Append(m, e)[k] = m[k]
        /\ Append(m, e)[Len(m) + 1] = e
    BY Appended
  <1>2. Responses(Append(m, e)) = IF e.kind \in {"added", "removed"}
                                  THEN Responses(m) \cup {Len(m) + 1} ELSE Responses(m)
    BY <1>1 DEF Responses
  <1>3. Len(m) + 1 \notin Responses(m)
    BY <1>1 DEF Responses
  <1>4. IsFiniteSet(Responses(m)) /\ Cardinality(Responses(m)) \in Nat
    BY ResponsesFinite
  <1>5. Cardinality(Responses(m) \cup {Len(m) + 1}) = Cardinality(Responses(m)) + 1
    BY <1>3, <1>4, FS_AddElement
  <1> QED
    BY <1>2, <1>4, <1>5

(* A message taken counts no more, the others are one place earlier. *)
LEMMA ResponsesTail ==
    ASSUME NEW m \in Seq(Messages), m # <<>>
    PROVE  /\ \A k \in DOMAIN Tail(m) : k \in Responses(Tail(m)) <=> k + 1 \in Responses(m)
           /\ Cardinality(Responses(m)) = Cardinality(Responses(Tail(m)))
                 + IF Head(m).kind \in {"added", "removed"} THEN 1 ELSE 0
  <1> DEFINE S == Responses(Tail(m))
             T == Responses(m) \ {1}
             f == [k \in S |-> k + 1]
  <1>1. /\ Tail(m) \in Seq(Messages) /\ Head(m) = m[1] /\ 1 \in DOMAIN m
        /\ \A k \in DOMAIN Tail(m) : k \in Nat /\ k + 1 \in DOMAIN m /\ Tail(m)[k] = m[k + 1]
        /\ \A k \in DOMAIN m : k \in Nat /\ (k = 1 \/ (k - 1 \in DOMAIN Tail(m) /\ k > 1))
        /\ 0 \notin DOMAIN Tail(m)
    BY Tails, TailPlaces
  <1>2. \A k \in DOMAIN Tail(m) : k \in Responses(Tail(m)) <=> k + 1 \in Responses(m)
    BY <1>1 DEF Responses
  <1>3. \A k \in S : k \in DOMAIN Tail(m) /\ k \in Nat /\ k # 0
    BY <1>1 DEF Responses
  <1>4. \A k \in T : k \in DOMAIN m /\ k \in Nat /\ k - 1 \in DOMAIN Tail(m) /\ (k - 1) + 1 = k
    BY <1>1 DEF Responses
  <1>5. f \in Bijection(S, T)
    <2>1. f \in [S -> T]
      BY <1>2, <1>3
    <2>2. \A a, b \in S : f[a] = f[b] => a = b
      BY <1>3
    <2>3. \A t \in T : \E s \in S : f[s] = t
      <3> TAKE t \in T
      <3>1. t - 1 \in S
        BY <1>2, <1>4
      <3> QED
        BY <1>4, <3>1
    <2> QED
      BY <2>1, <2>2, <2>3 DEF Bijection, Injection, Surjection, IsInjective
  <1>6. IsFiniteSet(S) /\ Cardinality(S) \in Nat /\ IsFiniteSet(Responses(m))
        /\ Cardinality(Responses(m)) \in Nat
    BY <1>1, ResponsesFinite
  <1>7. Cardinality(T) = Cardinality(S)
    <2>1. ExistsBijection(S, T)
      BY <1>5, Fun_ExistsBij
    <2> QED
      BY <1>6, <2>1, FS_Bijection
  <1>8. Cardinality(T) = IF 1 \in Responses(m) THEN Cardinality(Responses(m)) - 1
                         ELSE Cardinality(Responses(m))
    BY <1>6, FS_RemoveElement
  <1>9. 1 \in Responses(m) <=> Head(m).kind \in {"added", "removed"}
    BY <1>1 DEF Responses
  <1> HIDE DEF S, T
  <1> QED
    BY <1>2, <1>6, <1>7, <1>8, <1>9 DEF S

(* No messages, no responses. *)
LEMMA ResponsesEmpty == Cardinality(Responses(<<>>)) = 0
  <1>1. Responses(<<>>) = {}
    BY DEF Responses
  <1> QED
    BY <1>1, FS_EmptySet
-----------------------------------------------------------------------------
(* The functions of the client *)

(* What the constants are assumed to be. *)
LEMMA Constants ==
    /\ MaxVersion \in Nat \ {0} /\ MaxEvents \in Nat \ {0} /\ MaxAge \in Nat
    /\ Unknown \in Versions /\ Absent \in Versions
    /\ \A v \in Versions : v \in Nat
  BY FirestoreReadsAssumption, MaxAgeAssumption DEF Versions, Unknown, Absent

(* An assertion that holds leaves no trace. *)
LEMMA AssertHolds ==
    ASSUME NEW c \in Client, ~c.failed, NEW condition, condition
    PROVE  HardAssert(c, condition) = c
  <1>1. c.failed = FALSE
    BY DEF Client
  <1>2. [c EXCEPT !.failed = FALSE] = c
    BY <1>1 DEF Client
  <1>3. (c.failed \/ ~condition) = FALSE
    BY <1>1
  <1> QED
    BY <1>2, <1>3 DEF HardAssert

(* Post gives some listeners one event more, and nobody else any. *)
LEMMA PostIs ==
    ASSUME NEW c \in Client, NEW reads, NEW event \in Snapshot \cup Errors
    PROVE  LET d == Post(c, reads, event) IN
           /\ d \in Client
           /\ d = [c EXCEPT !.events = d.events]
           /\ \A r \in Reads : \/ d.events[r] = c.events[r]
                               \/ r \in reads /\ d.events[r] = Append(c.events[r], event)
  <1> DEFINE New(r) == IF r \in reads /\ Len(c.events[r]) < MaxEvents
                       THEN Append(c.events[r], event) ELSE c.events[r]
             events == [r \in Reads |-> New(r)]
  <1>1. \A r \in Reads : c.events[r] \in Seq(Snapshot \cup Errors)
    BY DEF Client
  <1>2. \A r \in Reads : New(r) \in Seq(Snapshot \cup Errors)
    BY <1>1, AppendProperties
  <1> HIDE DEF New
  <1>3. events \in [Reads -> Seq(Snapshot \cup Errors)]
    BY <1>2
  <1>4. Post(c, reads, event) = [c EXCEPT !.events = events]
    BY DEF Post, New
  <1>5. \A r \in Reads : events[r] = New(r)
    OBVIOUS
  <1> HIDE DEF events
  <1>6. [c EXCEPT !.events = events] \in Client
    BY <1>3 DEF Client
  <1>7. [c EXCEPT !.events = events].events = events
    BY DEF Client
  <1> QED
    BY <1>4, <1>5, <1>6, <1>7 DEF New

(* A listener that is still there gets a snapshot after snapshots only. *)
LEMMA OnViewSnapshotKeeps ==
    ASSUME NEW c, NEW doc, Core(c, doc), NEW reads, reads \subseteq c.listeners
    PROVE  LET d == OnViewSnapshot(c, reads) IN
           /\ Core(d, doc) /\ Still(c, d)
           /\ d.online = c.online /\ d.timer = c.timer /\ d.failures = c.failures
           /\ d.synced = c.synced
           /\ \A r \in Reads \ reads : d.events[r] = c.events[r]
  <1> DEFINE due == {r \in reads : r \in c.raised \/ ShouldRaiseInitialEvent(c)}
             event == ViewSnapshot(c)
             p == Post(c, due, event)
             d == [p EXCEPT !.raised = @ \cup due]
  <1>0. c \in Client /\ ~c.failed /\ c.listeners \subseteq Reads /\ due \subseteq c.listeners
        /\ due \subseteq reads
    BY DEF Core, Client
  <1>1. event \in Snapshot
    BY <1>0 DEF ViewSnapshot, Snapshot, Client
  <1>2. event \notin Errors
    BY DEF ViewSnapshot, Errors
  <1>3. ~c.rejoined /\ ~event.fromCache => event.version >= event.since
    BY <1>0 DEF ViewSnapshot, Core, Honest
  <1>4. OnViewSnapshot(c, reads) = d
    BY DEF OnViewSnapshot
  <1> HIDE DEF due, event
  <1>5. /\ p \in Client
        /\ p = [c EXCEPT !.events = p.events]
        /\ \A r \in Reads : \/ p.events[r] = c.events[r]
                            \/ r \in due /\ p.events[r] = Append(c.events[r], event)
    <2>1. event \in Snapshot \cup Errors
      BY <1>1
    <2> QED
      BY <1>0, <2>1, PostIs
  <1> HIDE DEF p
  <1>6. /\ d \in Client /\ d.events = p.events
        /\ d.state = c.state /\ d.requests = c.requests /\ d.idleTimer = c.idleTimer
        /\ d.sent = c.sent /\ d.answers = c.answers /\ d.failed = c.failed
        /\ d.networkEnabled = c.networkEnabled /\ d.outstanding = c.outstanding
        /\ d.current = c.current /\ d.changed = c.changed /\ d.update = c.update
        /\ d.listeners = c.listeners
        /\ d.remoteDocument = c.remoteDocument /\ d.since = c.since
        /\ d.watching = c.watching /\ d.told = c.told /\ d.synced = c.synced
        /\ d.updateTime = c.updateTime /\ d.contains = c.contains
        /\ d.rejoined = c.rejoined
        /\ d.online = c.online /\ d.timer = c.timer /\ d.failures = c.failures
    BY <1>0, <1>5 DEF Client
  <1> HIDE DEF d
  <1>7. EventsSound(d)
    <2>1. ASSUME NEW r \in Reads, NEW k \in DOMAIN d.events[r]
          PROVE  LET e == d.events[r][k] IN
                 IF e \in Errors THEN k = Len(d.events[r]) /\ r \notin d.listeners
                 ELSE ~d.rejoined /\ ~e.fromCache => e.version >= e.since
      <3> DEFINE q == c.events[r]
      <3>1. q \in Seq(Snapshot \cup Errors)
        BY <1>0 DEF Client
      <3>2. \A i \in DOMAIN q : IF q[i] \in Errors THEN i = Len(q) /\ r \notin c.listeners
                                ELSE ~c.rejoined /\ ~q[i].fromCache => q[i].version >= q[i].since
        BY DEF Core, EventsSound
      <3>3. CASE d.events[r] = q
        BY <1>6, <3>2, <3>3
      <3>4. CASE r \in due /\ d.events[r] = Append(q, event)
        <4> HIDE DEF q
        <4>1. /\ Len(q) \in Nat /\ DOMAIN q = 1 .. Len(q)
              /\ DOMAIN Append(q, event) = 1 .. Len(q) + 1
              /\ \A i \in 1 .. Len(q) : Append(q, event)[i] = q[i]
              /\ Append(q, event)[Len(q) + 1] = event
          BY <1>1, <3>1, Appended
        <4>2. CASE k \in 1 .. Len(q)
          <5>1. d.events[r][k] = q[k] /\ q[k] \notin Errors
            BY <1>0, <3>2, <3>4, <4>1, <4>2
          <5> QED
            BY <1>6, <3>2, <4>1, <4>2, <5>1
        <4>3. CASE k = Len(q) + 1
          BY <1>2, <1>3, <1>6, <3>4, <4>1, <4>3
        <4> QED
          BY <2>1, <3>4, <4>1, <4>2, <4>3
      <3> QED
        BY <1>5, <1>6, <3>3, <3>4
    <2> QED
      BY <2>1 DEF EventsSound
  <1>8. Core(d, doc)
    BY <1>6, <1>7 DEF Core, Honest, IsOpen, Empty
  <1>9. \A r \in Reads \ reads : d.events[r] = c.events[r]
    BY <1>0, <1>5, <1>6
  <1>10. Still(c, d)
    BY <1>0, <1>6, <1>9 DEF Still, Kept
  <1> QED
    BY <1>4, <1>6, <1>8, <1>9, <1>10

(* A client that differs in its online state only is as sound. *)
LEMMA CoreSame ==
    ASSUME NEW c, NEW doc, Core(c, doc), NEW d \in Client, Still(c, d),
           d.failed = c.failed, d.events = c.events
    PROVE  Core(d, doc)
  BY DEF Core, Honest, Still, Kept, IsOpen, Empty, EventsSound

(* Two functions one after the other leave alone what both leave alone. *)
LEMMA StillTwice ==
    ASSUME NEW c, NEW d, NEW e, Still(c, d), Still(d, e)
    PROVE  Still(c, e)
  BY DEF Still, Kept

(* Two steps that keep the stream keep it together. *)
LEMMA KeptTwice ==
    ASSUME NEW c, NEW d, NEW e, Kept(c, d), Kept(d, e)
    PROVE  Kept(c, e)
  BY DEF Kept

(* Broadcasting an online state changes the state and who has had an event. *)
LEMMA SetAndBroadcastKeeps ==
    ASSUME NEW c, NEW doc, Core(c, doc), NEW state \in {"Unknown", "Online", "Offline"}
    PROVE  LET d == SetAndBroadcast(c, state) IN
           /\ Core(d, doc) /\ Still(c, d)
           /\ d.online = state /\ d.timer = c.timer /\ d.failures = c.failures
  <1> DEFINE out == [c EXCEPT !.synced = FALSE]
             a == ApplyOnlineStateChange(c, state)
             b == [a EXCEPT !.online = state]
             d == OnViewSnapshot(b, b.listeners \ b.raised)
  <1>1. CASE state = c.online
    BY <1>1 DEF SetAndBroadcast, Still, Kept
  <1>2. CASE state # c.online
    <2>0. c \in Client /\ ~c.failed
      BY DEF Core
    <2>1. SetAndBroadcast(c, state) = d
      BY <1>2 DEF SetAndBroadcast, OnOnlineStateChanged
    <2>2. /\ Core(a, doc) /\ Still(c, a)
          /\ a.timer = c.timer /\ a.failures = c.failures
      <3>1. CASE c.synced /\ state = "Offline"
        <4>1. out \in Client /\ out.failed = c.failed /\ out.events = c.events
              /\ out.timer = c.timer /\ out.failures = c.failures /\ Still(c, out)
          BY <2>0 DEF Client, Still, Kept
        <4>2. Core(out, doc)
          BY <4>1, CoreSame
        <4>3. out.listeners = c.listeners
          BY <4>1 DEF Still, Kept
        <4>4. a = OnViewSnapshot(out, out.listeners)
          BY <3>1, <4>3 DEF ApplyOnlineStateChange
        <4> HIDE DEF out, a
        <4>5. /\ Core(a, doc) /\ Still(out, a)
              /\ a.timer = out.timer /\ a.failures = out.failures
          BY <4>2, <4>4, OnViewSnapshotKeeps
        <4> QED
          BY <4>1, <4>5, StillTwice
      <3>2. CASE ~(c.synced /\ state = "Offline")
        BY <3>2 DEF ApplyOnlineStateChange, Still, Kept
      <3> QED
        BY <3>1, <3>2
    <2> HIDE DEF a
    <2>3. a \in Client
      BY <2>2 DEF Core
    <2>4. b \in Client /\ b.failed = a.failed /\ b.events = a.events /\ b.online = state
          /\ b.timer = a.timer /\ b.failures = a.failures /\ Still(a, b)
      BY <2>3 DEF Client, Still, Kept
    <2> HIDE DEF b
    <2>5. Core(b, doc) /\ b.listeners \ b.raised \subseteq b.listeners
      BY <2>2, <2>4, CoreSame
    <2>6. /\ Core(d, doc) /\ Still(b, d)
          /\ d.online = b.online /\ d.timer = b.timer /\ d.failures = b.failures
      BY <2>5, OnViewSnapshotKeeps
    <2> HIDE DEF d
    <2>7. Still(c, d)
      BY <2>2, <2>4, <2>6, StillTwice
    <2> QED
      BY <2>1, <2>2, <2>4, <2>6, <2>7
  <1> QED
    BY <1>1, <1>2

(* The timer starts for a stream attempt after no failure. *)
LEMMA HandleWatchStreamStartKeeps ==
    ASSUME NEW c, NEW doc, Core(c, doc), Tracker(c), ~c.timer
    PROVE  LET d == HandleWatchStreamStart(c) IN
           Core(d, doc) /\ Tracker(d) /\ Still(c, d)
  <1> DEFINE b == SetAndBroadcast(c, "Unknown")
             d == [b EXCEPT !.timer = TRUE]
  <1>1. CASE c.failures
    BY <1>1 DEF HandleWatchStreamStart, Still, Kept
  <1>2. CASE ~c.failures
    <2>1. Core(b, doc) /\ Still(c, b) /\ b.online = "Unknown" /\ ~b.timer /\ ~b.failures
      BY <1>2, SetAndBroadcastKeeps
    <2> HIDE DEF b
    <2>2. b \in Client /\ ~b.failed
      BY <2>1 DEF Core
    <2>3. HardAssert(b, ~c.timer) = b
      BY <2>2, AssertHolds
    <2>4. HandleWatchStreamStart(c) = d
      BY <1>2, <2>3 DEF HandleWatchStreamStart, b
    <2>5. d \in Client /\ d.failed = b.failed /\ d.events = b.events
          /\ d.online = b.online /\ d.failures = b.failures /\ Still(b, d)
      BY <2>2 DEF Client, Still, Kept
    <2> HIDE DEF d
    <2>6. Core(d, doc) /\ Still(c, d)
      BY <2>1, <2>5, CoreSame, StillTwice
    <2> QED
      BY <2>1, <2>4, <2>5, <2>6 DEF Tracker
  <1> QED
    BY <1>1, <1>2

(* A failure stops the timer, or finds it stopped. *)
LEMMA HandleWatchStreamFailureKeeps ==
    ASSUME NEW c, NEW doc, Core(c, doc), Tracker(c)
    PROVE  LET d == HandleWatchStreamFailure(c) IN
           Core(d, doc) /\ Tracker(d) /\ Still(c, d) /\ ~d.timer
  <1>0. c \in Client /\ ~c.failed
    BY DEF Core
  <1>1. CASE c.online = "Online"
    <2> DEFINE b == SetAndBroadcast(c, "Unknown")
    <2>1. ~c.failures /\ ~c.timer
      BY <1>1 DEF Tracker
    <2>2. Core(b, doc) /\ Still(c, b) /\ b.online = "Unknown" /\ ~b.timer /\ ~b.failures
      BY <2>1, SetAndBroadcastKeeps
    <2> HIDE DEF b
    <2>3. HardAssert(b, ~c.failures /\ ~c.timer) = b
      <3>1. b \in Client /\ ~b.failed
        BY <2>2 DEF Core
      <3> QED
        BY <2>1, <3>1, AssertHolds
    <2> QED
      BY <1>1, <2>2, <2>3 DEF HandleWatchStreamFailure, Tracker, b
  <1>2. CASE c.online # "Online"
    <2> DEFINE a == [c EXCEPT !.failures = TRUE, !.timer = FALSE]
               b == SetAndBroadcast(a, "Offline")
    <2>1. a \in Client /\ a.failed = c.failed /\ a.events = c.events /\ ~a.timer /\ Still(c, a)
      BY <1>0 DEF Client, Still, Kept
    <2>2. HandleWatchStreamFailure(c) = b
      BY <1>2 DEF HandleWatchStreamFailure
    <2> HIDE DEF a
    <2>3. Core(a, doc)
      BY <2>1, CoreSame
    <2>4. Core(b, doc) /\ Still(a, b) /\ b.online = "Offline" /\ b.timer = a.timer
      BY <2>3, SetAndBroadcastKeeps
    <2> HIDE DEF b
    <2> QED
      BY <2>1, <2>2, <2>4, StillTwice DEF Tracker
  <1> QED
    BY <1>1, <1>2

(* A state that is set is known to the tracker, whose timer is stopped. *)
LEMMA UpdateStateKeeps ==
    ASSUME NEW c, NEW doc, Core(c, doc), NEW state \in {"Unknown", "Online", "Offline"}
    PROVE  LET d == UpdateState(c, state) IN
           Core(d, doc) /\ Tracker(d) /\ Still(c, d) /\ ~d.timer
  <1> DEFINE a == [c EXCEPT !.timer = FALSE, !.failures = FALSE]
             b == SetAndBroadcast(a, state)
  <1>0. c \in Client /\ ~c.failed
    BY DEF Core
  <1>1. a \in Client /\ a.failed = c.failed /\ a.events = c.events
        /\ ~a.timer /\ ~a.failures /\ Still(c, a)
    BY <1>0 DEF Client, Still, Kept
  <1>2. UpdateState(c, state) = b
    BY DEF UpdateState
  <1> HIDE DEF a
  <1>3. Core(a, doc)
    BY <1>1, CoreSame
  <1>4. Core(b, doc) /\ Still(a, b) /\ b.timer = a.timer /\ b.failures = a.failures
    BY <1>3, SetAndBroadcastKeeps
  <1> HIDE DEF b
  <1> QED
    BY <1>1, <1>2, <1>4, StillTwice DEF Tracker

(* A stream that is not started can be, and is on its way up then. *)
LEMMA StartKeeps ==
    ASSUME NEW c, NEW doc, Core(c, doc), ~IsStarted(c)
    PROVE  LET d == Start(c) IN
           /\ Core(d, doc) /\ Kept(c, d) /\ d.state \in {"Starting", "Backoff"}
           /\ d.online = c.online /\ d.timer = c.timer /\ d.failures = c.failures
  <1> DEFINE b == [c EXCEPT !.state = "Backoff"]
             s == [c EXCEPT !.state = "Starting", !.requests = @ \cup {0}]
  <1>0. c \in Client /\ ~c.failed /\ c.state \in {"Initial", "Error"} /\ c.requests \in SUBSET (0 .. MaxAge)
    BY DEF Core, Client, IsStarted, States
  <1>1. CASE c.state = "Error"
    <2>1. Start(c) = b
      BY <1>1 DEF Start
    <2>2. /\ b \in Client /\ b.failed = c.failed /\ b.events = c.events
          /\ b.requests = c.requests /\ b.state = "Backoff" /\ b.synced = c.synced
          /\ b.online = c.online /\ b.timer = c.timer /\ b.failures = c.failures /\ Kept(c, b)
      BY <1>0 DEF Client, Kept, States
    <2> HIDE DEF b
    <2> QED
      BY <1>1, <2>1, <2>2 DEF Core, Honest, Kept, IsOpen, Empty, EventsSound
  <1>2. CASE c.state = "Initial"
    <2>1. Start(c) = s
      BY <1>0, <1>2, AssertHolds DEF Start
    <2>2. 0 \in 0 .. MaxAge
      BY Constants
    <2>3. /\ s \in Client /\ s.failed = c.failed /\ s.events = c.events
          /\ s.state = "Starting" /\ s.synced = c.synced
          /\ s.online = c.online /\ s.timer = c.timer /\ s.failures = c.failures /\ Kept(c, s)
      BY <1>0, <2>2 DEF Client, Kept, States
    <2> HIDE DEF s
    <2> QED
      BY <1>2, <2>1, <2>3 DEF Core, Honest, Kept, IsOpen, Empty, EventsSound
  <1> QED
    BY <1>0, <1>1, <1>2

(* StartWatchStream, with no timer running. *)
LEMMA StartWatchStreamKeeps ==
    ASSUME NEW c, NEW doc, Core(c, doc), Tracker(c), ~c.timer, ~IsStarted(c)
    PROVE  LET d == StartWatchStream(c) IN
           Core(d, doc) /\ Tracker(d) /\ Kept(c, d) /\ d.state \in {"Starting", "Backoff"}
  <1> DEFINE b == Start(c)
             d == HandleWatchStreamStart(b)
  <1>1. /\ Core(b, doc) /\ Kept(c, b) /\ b.state \in {"Starting", "Backoff"}
        /\ b.online = c.online /\ b.timer = c.timer /\ b.failures = c.failures
    BY StartKeeps
  <1> HIDE DEF b
  <1>2. Tracker(b) /\ ~b.timer
    BY <1>1 DEF Tracker
  <1>3. Core(d, doc) /\ Tracker(d) /\ Still(b, d)
    BY <1>1, <1>2, HandleWatchStreamStartKeeps
  <1>4. StartWatchStream(c) = d
    BY DEF StartWatchStream, b
  <1> HIDE DEF d
  <1>5. Kept(c, d) /\ d.state = b.state
    BY <1>1, <1>3, KeptTwice DEF Still
  <1> QED
    BY <1>1, <1>3, <1>4, <1>5

(* What a closed stream leaves of its client. *)
Shut(c, d) ==
    /\ ~IsOpen(d)
    /\ d.listeners = c.listeners /\ d.networkEnabled = c.networkEnabled
    /\ d.rejoined = c.rejoined
    /\ \A r \in Reads \ c.listeners : d.events[r] = c.events[r]

(* A stream that is needed and allowed is up again after it has broken, and one
   that is stopped is not needed. *)
LEMMA CloseKeeps ==
    ASSUME NEW c, NEW doc, Core(c, doc), Tracker(c), IsStarted(c),
           NEW status \in {"ok", "error"},
           status = "ok" => ~c.networkEnabled \/ ~IsListening(c)
    PROVE  LET d == Close(c, status) IN
           /\ Core(d, doc) /\ Tracker(d) /\ Shut(c, d)
           /\ IsStarted(d) <=> c.networkEnabled /\ IsListening(c)
           /\ d.timer => IsStarted(d)
  <1> DEFINE next == IF status = "ok" THEN "Initial" ELSE "Error"
             late == {age + 1 : age \in c.requests} \cap 0 .. MaxAge
             z == [c EXCEPT !.state = next, !.idleTimer = FALSE, !.requests = late,
                            !.sent = <<>>, !.answers = <<>>,
                            !.outstanding = 0, !.current = FALSE, !.changed = FALSE, !.update = Unknown,
                            !.watching = FALSE, !.told = Unknown]
             d == OnWatchStreamClose(z, status)
  <1>0. c \in Client /\ ~c.failed /\ c.requests \in SUBSET (0 .. MaxAge)
    BY DEF Core, Client
  <1>1. Close(c, status) = d
    <2>1. HardAssert(c, IsStarted(c)) = c
      BY <1>0, AssertHolds
    <2>2. Closed(c, status) = [c EXCEPT !.state = next, !.idleTimer = FALSE, !.requests = late,
                                        !.sent = <<>>, !.answers = <<>>]
      BY <2>1 DEF Closed
    <2>3. [Closed(c, status) EXCEPT !.outstanding = 0, !.current = FALSE, !.changed = FALSE, !.update = Unknown,
                                    !.watching = FALSE, !.told = Unknown] = z
      BY <1>0, <2>2 DEF Client
    <2> HIDE DEF z
    <2> QED
      BY <2>3 DEF Close
  <1>2. 0 \notin late /\ late \in SUBSET (0 .. MaxAge)
    <2>1. \A age \in c.requests : age + 1 # 0
      BY <1>0, Constants
    <2> QED
      BY <2>1
  <1>3. next \in {"Initial", "Error"}
    OBVIOUS
  <1> HIDE DEF late, next
  <1>4. z \in Client
    <2> DEFINE y == [c EXCEPT !.state = next, !.idleTimer = FALSE, !.requests = late,
                              !.sent = <<>>, !.answers = <<>>]
    <2>1. <<>> \in Seq(Requests) /\ <<>> \in Seq(Messages) /\ next \in States
      BY <1>3 DEF States
    <2>2. y \in Client
      BY <1>0, <1>2, <2>1 DEF Client
    <2> HIDE DEF y
    <2>3. [y EXCEPT !.outstanding = 0, !.current = FALSE, !.changed = FALSE, !.update = Unknown,
                    !.watching = FALSE, !.told = Unknown] \in Client
      <3>1. Unknown \in Versions /\ 0 \in Int
        BY Constants
      <3>2. [y EXCEPT !.outstanding = 0] \in Client
        BY <2>2, <3>1 DEF Client
      <3> QED
        BY <3>1, <3>2, <2>2 DEF Client
    <2>4. [y EXCEPT !.outstanding = 0, !.current = FALSE, !.changed = FALSE, !.update = Unknown,
                    !.watching = FALSE, !.told = Unknown] = z
      BY <1>0 DEF y, Client
    <2> QED
      BY <2>3, <2>4
  <1>5. /\ z.failed = c.failed /\ z.events = c.events /\ z.state = next /\ z.requests = late
        /\ z.online = c.online /\ z.timer = c.timer /\ z.failures = c.failures
        /\ z.listeners = c.listeners /\ z.networkEnabled = c.networkEnabled
        /\ z.synced = c.synced /\ z.remoteDocument = c.remoteDocument /\ z.since = c.since
        /\ z.updateTime = c.updateTime /\ z.contains = c.contains /\ z.rejoined = c.rejoined
        /\ z.update = Unknown /\ Empty(z)
    BY <1>0 DEF Client, Empty
  <1> HIDE DEF z
  <1>6. Core(z, doc) /\ Tracker(z) /\ ~IsStarted(z) /\ ~IsOpen(z)
    BY <1>2, <1>3, <1>4, <1>5 DEF Core, Honest, EventsSound, Tracker, IsStarted, IsOpen
  <1>7. CASE c.networkEnabled /\ IsListening(c)
    <2> DEFINE f == HandleWatchStreamFailure(z)
               g == StartWatchStream(f)
    <2>1. ShouldStartWatchStream(z) /\ status # "ok"
      BY <1>5, <1>6, <1>7 DEF ShouldStartWatchStream, CanUseNetwork, IsListening
    <2>2. d = g
      <3>1. HardAssert(z, status # "ok") = z
        BY <1>4, <1>5, <1>0, <2>1, AssertHolds
      <3> QED
        BY <2>1, <3>1 DEF OnWatchStreamClose
    <2>3. Core(f, doc) /\ Tracker(f) /\ Still(z, f) /\ ~f.timer
      BY <1>6, HandleWatchStreamFailureKeeps
    <2> HIDE DEF f
    <2>4. ~IsStarted(f)
      BY <1>6, <2>3 DEF Still, IsStarted
    <2>5. Core(g, doc) /\ Tracker(g) /\ Kept(f, g) /\ g.state \in {"Starting", "Backoff"}
      BY <2>3, <2>4, StartWatchStreamKeeps
    <2> HIDE DEF g
    <2>6. Shut(c, g)
      BY <1>5, <2>3, <2>5 DEF Shut, Still, Kept, IsOpen
    <2> HIDE DEF d
    <2> QED
      BY <1>1, <1>7, <2>2, <2>5, <2>6 DEF IsStarted
  <1>8. CASE ~(c.networkEnabled /\ IsListening(c))
    <2> DEFINE u == UpdateState(z, "Unknown")
    <2>1. d = u
      BY <1>5, <1>8 DEF OnWatchStreamClose, ShouldStartWatchStream, CanUseNetwork, IsListening
    <2>2. Core(u, doc) /\ Tracker(u) /\ Still(z, u) /\ ~u.timer
      BY <1>6, UpdateStateKeeps
    <2> HIDE DEF u
    <2>3. Shut(c, u) /\ ~IsStarted(u)
      BY <1>5, <1>6, <2>2 DEF Shut, Still, Kept, IsOpen, IsStarted
    <2> HIDE DEF d
    <2> QED
      BY <1>1, <1>8, <2>1, <2>2, <2>3
  <1> QED
    BY <1>7, <1>8

(* After a restart the stream is on its way up if somebody listens. *)
LEMMA RestartNetworkKeeps ==
    ASSUME NEW c, NEW doc, Core(c, doc), Tracker(c)
    PROVE  LET d == RestartNetwork(c) IN
           /\ Core(d, doc) /\ Tracker(d) /\ Up(d)
           /\ ~IsOpen(d) /\ Grows(c, d)
  <1> DEFINE a == [c EXCEPT !.networkEnabled = FALSE]
             b == Close(a, "ok")
             e == UpdateState(b, "Unknown")
             f == [e EXCEPT !.state = "Initial"]
             g == [f EXCEPT !.networkEnabled = TRUE]
             s == StartWatchStream(g)
             u == UpdateState(g, "Unknown")
  <1>0. c \in Client /\ ~c.failed
    BY DEF Core
  <1>1. /\ a \in Client /\ a.failed = c.failed /\ a.events = c.events /\ a.requests = c.requests
        /\ a.online = c.online /\ a.timer = c.timer /\ a.failures = c.failures
        /\ a.listeners = c.listeners /\ a.networkEnabled = FALSE /\ a.state = c.state
        /\ a.synced = c.synced /\ a.remoteDocument = c.remoteDocument /\ a.since = c.since
        /\ a.updateTime = c.updateTime /\ a.contains = c.contains /\ a.rejoined = c.rejoined
        /\ a.update = c.update
        /\ Empty(c) => Empty(a)
    BY <1>0 DEF Client, Empty
  <1> HIDE DEF a
  <1>2. Core(a, doc) /\ Tracker(a)
    BY <1>1 DEF Core, Honest, EventsSound, Tracker, IsOpen
  <1>3. Core(b, doc) /\ Shut(a, b) /\ ~IsStarted(b)
    <2>1. CASE IsStarted(a)
      BY <1>1, <1>2, <2>1, CloseKeeps
    <2>2. CASE ~IsStarted(a)
      <3>1. b = a
        BY <2>2 DEF Close
      <3> QED
        BY <1>2, <2>2, <3>1 DEF Shut, IsOpen, IsStarted
    <2> QED
      BY <2>1, <2>2
  <1> HIDE DEF b
  <1>4. Core(e, doc) /\ Tracker(e) /\ Still(b, e) /\ ~e.timer
    BY <1>3, UpdateStateKeeps
  <1>5. RestartNetwork(c) = EnableNetwork(InhibitBackoff(e))
    BY DEF RestartNetwork, e, b, a
  <1> HIDE DEF e
  <1>6. e \in Client /\ ~e.failed /\ ~IsStarted(e) /\ ~IsOpen(e) /\ 0 \notin e.requests /\ Empty(e)
    BY <1>3, <1>4 DEF Still, Kept, Core, IsStarted, IsOpen
  <1>7. InhibitBackoff(e) = f
    BY <1>6, AssertHolds DEF InhibitBackoff
  <1>8. /\ g \in Client /\ g.failed = e.failed /\ g.events = e.events /\ g.requests = e.requests
        /\ g.online = e.online /\ g.timer = e.timer /\ g.failures = e.failures
        /\ g.listeners = e.listeners /\ g.networkEnabled = TRUE /\ g.state = "Initial"
        /\ g.synced = e.synced /\ g.remoteDocument = e.remoteDocument /\ g.since = e.since
        /\ g.updateTime = e.updateTime /\ g.contains = e.contains /\ g.rejoined = e.rejoined
        /\ g.update = e.update /\ Empty(g)
    BY <1>6 DEF Client, Empty, States
  <1>9. RestartNetwork(c) = IF IsListening(g) THEN s ELSE u
    <2>1. ShouldStartWatchStream(g) <=> IsListening(g)
      BY <1>8 DEF ShouldStartWatchStream, CanUseNetwork, IsStarted
    <2> QED
      BY <1>5, <1>7, <2>1 DEF EnableNetwork
  <1> HIDE DEF f, g
  <1>10. Core(g, doc) /\ Tracker(g) /\ ~g.timer /\ ~IsStarted(g)
    BY <1>4, <1>6, <1>8 DEF Core, Honest, EventsSound, Tracker, IsOpen, IsStarted
  <1>11. g.listeners = c.listeners /\ g.rejoined = c.rejoined
         /\ \A r \in Reads \ c.listeners : g.events[r] = c.events[r]
    BY <1>1, <1>3, <1>4, <1>8 DEF Shut, Still, Kept
  <1>12. CASE IsListening(g)
    <2>1. Core(s, doc) /\ Tracker(s) /\ Kept(g, s) /\ s.state \in {"Starting", "Backoff"}
      BY <1>10, StartWatchStreamKeeps
    <2> HIDE DEF s
    <2> QED
      BY <1>8, <1>9, <1>11, <1>12, <2>1 DEF Kept, Up, IsOpen, IsStarted, Grows
  <1>13. CASE ~IsListening(g)
    <2>1. Core(u, doc) /\ Tracker(u) /\ Still(g, u) /\ ~u.timer
      BY <1>10, UpdateStateKeeps
    <2> HIDE DEF u
    <2> QED
      BY <1>8, <1>9, <1>11, <1>13, <2>1 DEF Still, Kept, Up, IsOpen, IsStarted, Grows, IsListening
  <1> QED
    BY <1>12, <1>13

(* The channel and the state of the stream do not see the online state. *)
LEMMA ChannelStill ==
    ASSUME NEW c, NEW d, NEW al, Still(c, d), Channel(c, al)
    PROVE  Channel(d, al)
  BY DEF Still, Kept, Channel, Watched, ToldFresh, IsOpen, IsListening

(* The order of what comes sees only whether the target counts. *)
LEMMA InOrderSame ==
    ASSUME NEW c, NEW d, NEW al, InOrder(c, al),
           d.answers = c.answers, d.told = c.told, d.update = c.update,
           d.current = c.current, d.rejoined = c.rejoined,
           al /\ IsActiveTarget(d) => IsActiveTarget(c)
    PROVE  InOrder(d, al)
  BY DEF InOrder, Paired, Parted, Told

LEMMA InOrderStill ==
    ASSUME NEW c, NEW d, NEW al, Kept(c, d), InOrder(c, al)
    PROVE  InOrder(d, al)
  BY InOrderSame DEF Kept, IsActiveTarget, IsListening

(* Nothing comes on a stream that is not open. *)
LEMMA InOrderEmpty ==
    ASSUME NEW c, NEW al, Empty(c)
    PROVE  InOrder(c, al)
  BY DEF InOrder, Paired, Parted, Told, Empty

(* A client whose stream is as it was is up, or not, as it was. *)
LEMMA UpStill ==
    ASSUME NEW c, NEW d, Still(c, d), Up(c), d.timer => c.timer
    PROVE  Up(d)
  BY DEF Still, Kept, Up, IsListening, IsStarted

(* What keeps the stream adds no listener to one whose listeners only go. *)
LEMMA GrowsStill ==
    ASSUME NEW c, NEW d, NEW e, Grows(c, d), Kept(d, e)
    PROVE  Grows(c, e)
  BY DEF Grows, Kept

(* What is sent is sent last, stops the idle timer and is to be responded to. *)
LEMMA SendIs ==
    ASSUME NEW c, NEW doc, Core(c, doc), IsOpen(c), NEW request \in Requests
    PROVE  LET d == Send(c, request) IN
           /\ Core(d, doc) /\ ~d.idleTimer
           /\ d.sent = Append(c.sent, request) /\ d.outstanding = c.outstanding + 1
           /\ d.state = c.state /\ d.requests = c.requests /\ d.answers = c.answers
           /\ d.networkEnabled = c.networkEnabled /\ d.online = c.online
           /\ d.timer = c.timer /\ d.failures = c.failures /\ d.current = c.current
           /\ d.changed = c.changed
           /\ d.update = c.update /\ d.listeners = c.listeners /\ d.events = c.events
           /\ d.remoteDocument = c.remoteDocument /\ d.synced = c.synced
           /\ d.since = c.since /\ d.watching = c.watching /\ d.told = c.told
           /\ d.updateTime = c.updateTime /\ d.contains = c.contains
           /\ d.rejoined = c.rejoined
  <1> DEFINE sent == Append(c.sent, request)
             d == [c EXCEPT !.idleTimer = FALSE, !.sent = sent, !.outstanding = c.outstanding + 1]
  <1>0. c \in Client /\ ~c.failed
    BY DEF Core
  <1>1. sent \in Seq(Requests) /\ sent = c.sent \o <<request>>
    <2>1. c.sent \in Seq(Requests)
      BY <1>0 DEF Client
    <2> QED
      BY <2>1, AppendProperties, AppendIsConcat
  <1>2. c.outstanding + 1 \in Int
    BY <1>0 DEF Client
  <1> HIDE DEF sent
  <1>3. Send(c, request) = d
    <2>1. HardAssert(c, IsOpen(c)) = c
      BY <1>0, AssertHolds
    <2>2. Write(c, <<request>>) = [c EXCEPT !.idleTimer = FALSE, !.sent = sent]
      BY <1>1, <2>1 DEF Write
    <2>3. Write(c, <<request>>).outstanding = c.outstanding
      BY <1>0, <2>2 DEF Client
    <2> QED
      BY <1>0, <2>2, <2>3 DEF Send, Client
  <1>4. /\ d \in Client /\ d.failed = c.failed /\ ~d.idleTimer
        /\ d.sent = sent /\ d.outstanding = c.outstanding + 1
        /\ d.state = c.state /\ d.requests = c.requests /\ d.answers = c.answers
        /\ d.networkEnabled = c.networkEnabled /\ d.online = c.online
        /\ d.timer = c.timer /\ d.failures = c.failures /\ d.current = c.current
        /\ d.changed = c.changed
        /\ d.update = c.update /\ d.listeners = c.listeners /\ d.events = c.events
        /\ d.remoteDocument = c.remoteDocument /\ d.synced = c.synced
        /\ d.since = c.since /\ d.watching = c.watching /\ d.told = c.told
        /\ d.updateTime = c.updateTime /\ d.contains = c.contains
        /\ d.rejoined = c.rejoined
    BY <1>0, <1>1, <1>2 DEF Client
  <1> HIDE DEF d
  <1>5. Core(d, doc)
    BY <1>4 DEF Core, Honest, IsOpen, EventsSound
  <1> QED
    BY <1>3, <1>4, <1>5 DEF sent

(* A stream that breaks, or is stopped when it is not needed. *)
LEMMA CloseGood ==
    ASSUME NEW c, NEW doc, NEW al, Good(c, doc, al), IsStarted(c),
           NEW status \in {"ok", "error"}, status = "ok" => ~IsListening(c)
    PROVE  LET d == Close(c, status) IN Good(d, doc, al) /\ Grows(c, d)
  <1> DEFINE d == Close(c, status)
  <1>1. /\ Core(d, doc) /\ Tracker(d) /\ Shut(c, d)
        /\ IsStarted(d) <=> c.networkEnabled /\ IsListening(c)
        /\ d.timer => IsStarted(d)
    BY CloseKeeps DEF Good
  <1> HIDE DEF d
  <1>2. Channel(d, al)
    BY <1>1 DEF Channel, Shut
  <1>3. Up(d) /\ Grows(c, d)
    BY <1>1 DEF Good, Up, Shut, IsListening, Grows
  <1>4. InOrder(d, al)
    BY <1>1, InOrderEmpty DEF Shut, Core
  <1> QED
    BY <1>1, <1>2, <1>3, <1>4 DEF Good, d

(* A restarted network leaves a client as it is between two tasks: nothing is
   open yet. *)
LEMMA RestartNetworkGood ==
    ASSUME NEW c, NEW doc, Core(c, doc), Tracker(c), NEW al
    PROVE  LET d == RestartNetwork(c) IN Good(d, doc, al) /\ Grows(c, d)
  BY RestartNetworkKeeps, InOrderEmpty DEF Good, Channel, Core

(* A later listener gets the view as it is; the first has the server asked. *)
LEMMA AddQueryListenerGood ==
    ASSUME Good(client, document, allowed), document \in Versions,
           NEW r \in Reads, client.events[r] = <<>>
    PROVE  LET d == AddQueryListener(client, r) IN
           /\ Good(d, document, allowed)
           /\ d.listeners = client.listeners \cup {r} /\ d.rejoined = client.rejoined
           /\ \A s \in Reads \ (client.listeners \cup {r}) : d.events[s] = client.events[s]
  <1> DEFINE c == client
             d == AddQueryListener(c, r)
             later == [c EXCEPT !.listeners = @ \cup {r}]
             first == [later EXCEPT !.synced = FALSE, !.since = document]
             v == OnViewSnapshot(first, {r})
  <1>0. c \in Client /\ ~c.failed /\ document \in Nat
    BY Constants DEF Good, Core
  <1>1. /\ later \in Client /\ later.failed = c.failed /\ later.state = c.state
        /\ later.requests = c.requests /\ later.idleTimer = c.idleTimer
        /\ later.sent = c.sent /\ later.answers = c.answers
        /\ later.networkEnabled = c.networkEnabled /\ later.online = c.online
        /\ later.timer = c.timer /\ later.failures = c.failures
        /\ later.outstanding = c.outstanding /\ later.current = c.current
        /\ later.changed = c.changed
        /\ later.update = c.update /\ later.listeners = c.listeners \cup {r}
        /\ later.events = c.events /\ later.remoteDocument = c.remoteDocument
        /\ later.synced = c.synced /\ later.since = c.since
        /\ later.watching = c.watching /\ later.told = c.told
        /\ later.updateTime = c.updateTime /\ later.contains = c.contains
        /\ later.rejoined = c.rejoined
    BY <1>0 DEF Client
  <1>2. /\ first \in Client /\ first.failed = c.failed /\ first.state = c.state
        /\ first.requests = c.requests /\ first.idleTimer = c.idleTimer
        /\ first.sent = c.sent /\ first.answers = c.answers
        /\ first.networkEnabled = c.networkEnabled /\ first.online = c.online
        /\ first.timer = c.timer /\ first.failures = c.failures
        /\ first.outstanding = c.outstanding /\ first.current = c.current
        /\ first.changed = c.changed
        /\ first.update = c.update /\ first.listeners = c.listeners \cup {r}
        /\ first.events = c.events /\ first.remoteDocument = c.remoteDocument
        /\ first.synced = FALSE /\ first.since = document
        /\ first.watching = c.watching /\ first.told = c.told
        /\ first.updateTime = c.updateTime /\ first.contains = c.contains
        /\ first.rejoined = c.rejoined
    <2> HIDE DEF later
    <2> QED
      BY <1>1 DEF Client
  <1>3. d = IF IsListening(c) THEN OnViewSnapshot(later, {r}) ELSE Listen(v)
    BY DEF AddQueryListener
  <1> HIDE DEF later, first
  <1>4. EventsSound(later) /\ EventsSound(first)
    BY <1>1, <1>2 DEF Good, Core, EventsSound
  <1>5. Core(later, document) /\ Core(first, document) /\ Tracker(later) /\ Tracker(first)
    BY <1>0, <1>1, <1>2, <1>4 DEF Good, Core, Honest, Empty, IsOpen, Tracker
  <1> SUFFICES /\ Good(d, document, allowed) /\ d.listeners = c.listeners \cup {r}
               /\ d.rejoined = c.rejoined
               /\ \A s \in Reads \ (c.listeners \cup {r}) : d.events[s] = c.events[s]
    OBVIOUS
  <1> HIDE DEF d
  <1>6. CASE IsListening(c)
    <2>1. /\ Core(d, document) /\ Still(later, d)
          /\ d.online = later.online /\ d.timer = later.timer /\ d.failures = later.failures
      BY <1>1, <1>3, <1>5, <1>6, OnViewSnapshotKeeps
    <2>2. Channel(later, allowed) /\ Up(later) /\ IsListening(later)
      BY <1>1, <1>6 DEF Good, Channel, Watched, ToldFresh, Up, IsOpen, IsListening, IsStarted
    <2>3. Channel(d, allowed) /\ Up(d) /\ InOrder(d, allowed)
      <3>1. IsActiveTarget(later) => IsActiveTarget(c)
        BY <1>1, <1>6 DEF IsActiveTarget
      <3>2. InOrder(later, allowed)
        BY <1>1, <3>1, InOrderSame DEF Good
      <3> QED
        BY <2>1, <2>2, <3>2, ChannelStill, UpStill, InOrderStill DEF Still
    <2>4. Tracker(d)
      BY <1>5, <2>1 DEF Tracker
    <2> QED
      BY <1>1, <2>1, <2>3, <2>4 DEF Good, Still, Kept
  <1>7. CASE ~IsListening(c)
    <2> HIDE DEF v
    <2>1. /\ Core(v, document) /\ Still(first, v)
          /\ v.online = first.online /\ v.timer = first.timer /\ v.failures = first.failures
      BY <1>2, <1>5, OnViewSnapshotKeeps DEF v
    <2>2. Tracker(v) /\ IsListening(v) /\ v.networkEnabled /\ d = Listen(v)
          /\ v.listeners = c.listeners \cup {r} /\ v.state = c.state
          /\ v.rejoined = c.rejoined
          /\ \A s \in Reads \ (c.listeners \cup {r}) : v.events[s] = c.events[s]
      BY <1>2, <1>3, <1>5, <1>7, <2>1 DEF Tracker, IsListening, Still, Kept, Good, Up
    <2>3. v.timer => IsStarted(v)
      BY <1>2, <2>1, <2>2 DEF Good, Up, IsStarted
    <2>4. CASE ~IsStarted(v)
      <3>1. d = StartWatchStream(v)
        BY <2>2, <2>4 DEF Listen, ShouldStartWatchStream, CanUseNetwork
      <3>2. Core(d, document) /\ Tracker(d) /\ Kept(v, d) /\ d.state \in {"Starting", "Backoff"}
        BY <2>1, <2>2, <2>3, <2>4, <3>1, StartWatchStreamKeeps
      <3>3. Channel(d, allowed) /\ Up(d) /\ ~IsOpen(d)
        BY <2>2, <3>2 DEF Channel, IsOpen, Up, Kept, IsStarted
      <3>4. InOrder(d, allowed)
        BY <3>2, <3>3, InOrderEmpty DEF Core
      <3> QED
        BY <2>2, <3>2, <3>3, <3>4 DEF Good, Kept
    <2>5. CASE IsOpen(v)
      <3>1. d = Send(v, "watch") /\ IsStarted(v)
        BY <2>2, <2>5 DEF Listen, ShouldStartWatchStream, IsOpen, IsStarted
      <3>2. /\ Core(d, document) /\ ~d.idleTimer
            /\ d.sent = Append(v.sent, "watch") /\ d.outstanding = v.outstanding + 1
            /\ d.state = v.state /\ d.answers = v.answers
            /\ d.networkEnabled = v.networkEnabled /\ d.online = v.online
            /\ d.timer = v.timer /\ d.failures = v.failures /\ d.current = v.current
            /\ d.changed = v.changed
            /\ d.listeners = v.listeners /\ d.events = v.events /\ d.update = v.update
            /\ d.watching = v.watching /\ d.told = v.told
            /\ d.updateTime = v.updateTime /\ d.contains = v.contains
            /\ d.rejoined = v.rejoined
        BY <2>1, <2>5, <3>1, SendIs DEF Requests
      <3>3. Tracker(d) /\ Up(d)
        BY <2>2, <3>1, <3>2 DEF Tracker, Up, IsStarted, IsListening
      <3>5. allowed => /\ \A k \in DOMAIN v.answers : v.answers[k].kind # "denied"
                       /\ v.outstanding = Len(v.sent) + Cardinality(Responses(v.answers))
        BY <1>2, <2>1, <2>5 DEF Good, Channel, Still, Kept, IsOpen
      <3>6. ~allowed => /\ ~v.watching /\ ~v.current
                        /\ \A k \in DOMAIN v.answers : v.answers[k].kind # "current"
        BY <1>2, <2>1, <2>5 DEF Good, Channel, Still, Kept, IsOpen
      <3>7. v.sent \in Seq(Requests) /\ v.answers \in Seq(Messages) /\ v.outstanding \in Int
        BY <2>1 DEF Core, Client
      <3>8. Len(v.sent) \in Nat /\ Cardinality(Responses(v.answers)) \in Nat
        BY <3>7, LenProperties, ResponsesFinite
      <3>9. Len(d.sent) = Len(v.sent) + 1 /\ d.sent # <<>> /\ d.sent[Len(d.sent)] = "watch"
        BY <3>2, <3>7, AppendProperties DEF Requests
      <3>10. allowed => /\ d.outstanding = Len(d.sent) + Cardinality(Responses(d.answers))
                        /\ d.outstanding # 0
        BY <3>2, <3>5, <3>7, <3>8, <3>9
      <3>11. allowed => Watched(d)
        BY <3>9, <3>10 DEF Watched
      <3>12. Channel(d, allowed)
        BY <3>2, <3>5, <3>6, <3>10, <3>11 DEF Channel
      <3>13. InOrder(d, allowed)
        <4>1. allowed => ~IsActiveTarget(d)
          BY <3>10 DEF IsActiveTarget
        <4> QED
          BY <1>2, <2>1, <3>2, <4>1, InOrderSame DEF Good, Still, Kept
      <3> QED
        BY <2>2, <3>2, <3>3, <3>12, <3>13 DEF Good
    <2>6. CASE IsStarted(v) /\ ~IsOpen(v)
      <3>1. d = v
        BY <2>2, <2>6 DEF Listen, ShouldStartWatchStream
      <3>2. Channel(d, allowed) /\ Up(d)
        BY <2>2, <2>6, <3>1 DEF Channel, Up
      <3>3. InOrder(d, allowed)
        BY <2>1, <2>6, <3>1, InOrderEmpty DEF Core
      <3> QED
        BY <2>1, <2>2, <3>1, <3>2, <3>3 DEF Good
    <2> QED
      BY <2>4, <2>5, <2>6
  <1> QED
    BY <1>6, <1>7

(* The last listener that goes takes the target with it. *)
LEMMA RemoveQueryListenerGood ==
    ASSUME NEW c, NEW doc, NEW al, Good(c, doc, al), NEW r \in Reads
    PROVE  LET d == RemoveQueryListener(c, r) IN Good(d, doc, al) /\ Grows(c, d)
  <1> DEFINE d == RemoveQueryListener(c, r)
             removed == [c EXCEPT !.listeners = @ \ {r}]
             last == [removed EXCEPT !.synced = FALSE]
             s == Send(last, "unwatch")
             u == UpdateState(last, "Unknown")
  <1>0. c \in Client /\ ~c.failed
    BY DEF Good, Core
  <1>1. /\ removed \in Client /\ removed.failed = c.failed /\ removed.state = c.state
        /\ removed.requests = c.requests /\ removed.idleTimer = c.idleTimer
        /\ removed.sent = c.sent /\ removed.answers = c.answers
        /\ removed.networkEnabled = c.networkEnabled /\ removed.online = c.online
        /\ removed.timer = c.timer /\ removed.failures = c.failures
        /\ removed.outstanding = c.outstanding /\ removed.current = c.current
        /\ removed.changed = c.changed
        /\ removed.update = c.update /\ removed.listeners = c.listeners \ {r}
        /\ removed.events = c.events /\ removed.remoteDocument = c.remoteDocument
        /\ removed.synced = c.synced /\ removed.since = c.since
        /\ removed.watching = c.watching /\ removed.told = c.told
        /\ removed.updateTime = c.updateTime /\ removed.contains = c.contains
        /\ removed.rejoined = c.rejoined
    BY <1>0 DEF Client
  <1>2. /\ last \in Client /\ last.failed = c.failed /\ last.state = c.state
        /\ last.requests = c.requests /\ last.idleTimer = c.idleTimer
        /\ last.sent = c.sent /\ last.answers = c.answers
        /\ last.networkEnabled = c.networkEnabled /\ last.online = c.online
        /\ last.timer = c.timer /\ last.failures = c.failures
        /\ last.outstanding = c.outstanding /\ last.current = c.current
        /\ last.changed = c.changed
        /\ last.update = c.update /\ last.listeners = c.listeners \ {r}
        /\ last.events = c.events /\ last.remoteDocument = c.remoteDocument
        /\ last.synced = FALSE /\ last.since = c.since
        /\ last.watching = c.watching /\ last.told = c.told
        /\ last.updateTime = c.updateTime /\ last.contains = c.contains
        /\ last.rejoined = c.rejoined
    <2> HIDE DEF removed
    <2> QED
      BY <1>1 DEF Client
  <1>3. d = IF r \notin c.listeners \/ IsListening(removed) THEN removed ELSE StopListening(last)
    BY DEF RemoveQueryListener
  <1> HIDE DEF removed, last
  <1>4. Core(removed, doc) /\ Core(last, doc) /\ Tracker(removed) /\ Tracker(last)
    BY <1>1, <1>2 DEF Good, Core, Honest, Empty, IsOpen, Tracker, EventsSound
  <1> SUFFICES Good(d, doc, al) /\ Grows(c, d)
    OBVIOUS
  <1> HIDE DEF d
  <1>5. CASE r \notin c.listeners \/ IsListening(removed)
    <2>1. Channel(removed, al) /\ Up(removed)
      BY <1>1 DEF Good, Channel, Watched, ToldFresh, Up, IsOpen, IsListening, IsStarted
    <2>2. IsActiveTarget(removed) => IsActiveTarget(c)
      BY <1>1 DEF IsActiveTarget, IsListening
    <2>3. InOrder(removed, al)
      BY <1>1, <2>2, InOrderSame DEF Good
    <2> QED
      BY <1>1, <1>3, <1>4, <1>5, <2>1, <2>3 DEF Good, Grows
  <1>6. CASE ~(r \notin c.listeners \/ IsListening(removed))
    <2>1. d = StopListening(last) /\ ~IsListening(last) /\ last.networkEnabled
      BY <1>1, <1>2, <1>3, <1>6 DEF IsListening, Good, Up
    <2>2. CASE IsOpen(last)
      <3> DEFINE i == [s EXCEPT !.idleTimer = TRUE]
      <3>1. /\ Core(s, doc)
            /\ s.sent = Append(last.sent, "unwatch") /\ s.outstanding = last.outstanding + 1
            /\ s.state = last.state /\ s.requests = last.requests /\ s.answers = last.answers
            /\ s.networkEnabled = last.networkEnabled /\ s.online = last.online
            /\ s.timer = last.timer /\ s.failures = last.failures /\ s.current = last.current
            /\ s.changed = last.changed
            /\ s.listeners = last.listeners /\ s.events = last.events /\ s.update = last.update
            /\ s.watching = last.watching /\ s.told = last.told
            /\ s.updateTime = last.updateTime /\ s.contains = last.contains
            /\ s.rejoined = last.rejoined
        BY <1>4, <2>2, SendIs DEF Requests
      <3> HIDE DEF s
      <3>2. s \in Client
        BY <3>1 DEF Core
      <3>3. /\ i \in Client /\ i.failed = s.failed /\ i.state = s.state
            /\ i.requests = s.requests /\ i.sent = s.sent /\ i.answers = s.answers
            /\ i.networkEnabled = s.networkEnabled /\ i.online = s.online
            /\ i.timer = s.timer /\ i.failures = s.failures
            /\ i.outstanding = s.outstanding /\ i.current = s.current /\ i.changed = s.changed
            /\ i.listeners = s.listeners /\ i.update = s.update
            /\ i.events = s.events /\ i.remoteDocument = s.remoteDocument
            /\ i.synced = s.synced /\ i.since = s.since
            /\ i.watching = s.watching /\ i.told = s.told
            /\ i.updateTime = s.updateTime /\ i.contains = s.contains
            /\ i.rejoined = s.rejoined
        BY <3>2 DEF Client
      <3>4. d = i
        <4>1. (s.idleTimer \/ IsOpen(s)) = TRUE
          BY <2>2, <3>1 DEF IsOpen
        <4> QED
          BY <2>1, <2>2, <4>1 DEF StopListening, MarkIdle, s
      <3> HIDE DEF i
      <3>5. Core(i, doc)
        BY <2>2, <3>1, <3>3 DEF Core, Honest, IsOpen, EventsSound
      <3>6. Tracker(i) /\ Up(i) /\ ~IsListening(i)
        BY <1>2, <1>4, <2>1, <3>1, <3>3 DEF Tracker, Up, Good, IsListening, IsStarted
      <3>7. al => /\ \A k \in DOMAIN last.answers : last.answers[k].kind # "denied"
                  /\ last.outstanding = Len(last.sent) + Cardinality(Responses(last.answers))
        BY <1>2, <2>2 DEF Good, Channel, IsOpen
      <3>8. ~al => /\ ~last.watching /\ ~last.current
                   /\ \A k \in DOMAIN last.answers : last.answers[k].kind # "current"
        BY <1>2, <2>2 DEF Good, Channel, IsOpen
      <3>9. last.sent \in Seq(Requests) /\ last.answers \in Seq(Messages)
            /\ last.outstanding \in Int
        BY <1>2 DEF Client
      <3>10. Len(last.sent) \in Nat /\ Cardinality(Responses(last.answers)) \in Nat
        BY <3>9, LenProperties, ResponsesFinite
      <3>11. Len(i.sent) = Len(last.sent) + 1
        BY <3>1, <3>3, <3>9, AppendProperties DEF Requests
      <3>12. al => i.outstanding = Len(i.sent) + Cardinality(Responses(i.answers))
        BY <3>1, <3>3, <3>7, <3>9, <3>10, <3>11
      <3>13. Channel(i, al)
        BY <3>1, <3>3, <3>6, <3>7, <3>8, <3>12 DEF Channel
      <3>14. Grows(c, i)
        BY <1>2, <3>1, <3>3 DEF Grows
      <3>15. InOrder(i, al)
        <4>1. ~IsActiveTarget(i)
          BY <3>6 DEF IsActiveTarget
        <4> QED
          BY <1>2, <3>1, <3>3, <4>1, InOrderSame DEF Good
      <3> QED
        BY <3>4, <3>5, <3>6, <3>13, <3>14, <3>15 DEF Good
    <2>3. CASE ~IsOpen(last)
      <3>1. d = u
        BY <2>1, <2>3 DEF StopListening, CanUseNetwork
      <3>2. Core(u, doc) /\ Tracker(u) /\ Still(last, u) /\ ~u.timer
        BY <1>4, UpdateStateKeeps
      <3> HIDE DEF u
      <3>3. Channel(u, al) /\ Up(u)
        BY <2>1, <2>3, <3>2 DEF Channel, Still, Kept, IsOpen, Up, IsListening
      <3>4. Grows(c, last)
        BY <1>2 DEF Grows
      <3>5. Grows(c, u)
        BY <3>2, <3>4, GrowsStill DEF Still
      <3>6. InOrder(u, al)
        BY <2>3, <3>2, InOrderEmpty DEF Core, Still, IsOpen
      <3> QED
        BY <3>1, <3>2, <3>3, <3>5, <3>6 DEF Good
    <2> QED
      BY <2>2, <2>3
  <1> QED
    BY <1>5, <1>6
-----------------------------------------------------------------------------
(* What comes on the stream *)

(* The messages after the first are as fresh as all. *)
LEMMA ToldFreshTail ==
    ASSUME NEW c \in Client, c.answers # <<>>, ToldFresh(c),
           NEW d, d.answers = Tail(c.answers), d.since = c.since
    PROVE  ToldFresh(d)
  <1> DEFINE m == c.answers
             t == Tail(c.answers)
  <1>1. m \in Seq(Messages)
    BY DEF Client
  <1>2. /\ \A k \in DOMAIN t : k \in Nat /\ k + 1 \in DOMAIN m /\ t[k] = m[k + 1]
        /\ \A k \in DOMAIN m : k \in Nat /\ (k = 1 \/ (k - 1 \in DOMAIN t /\ k > 1))
        /\ \A k \in DOMAIN t : k \in Responses(t) <=> k + 1 \in Responses(m)
        /\ DOMAIN t \subseteq Nat \ {0}
    BY <1>1, Tails, TailPlaces, ResponsesTail
  <1>3. Responses(m) \subseteq DOMAIN m
    BY DEF Responses
  <1>4. ToldFresh(c) => \A k \in DOMAIN m :
            m[k].kind = "current" /\ (\A j \in Responses(m) : j < k) => m[k].version >= c.since
    BY DEF ToldFresh
  <1>5. ASSUME NEW k \in DOMAIN t, t[k].kind = "current", \A j \in Responses(t) : j < k
        PROVE  t[k].version >= c.since
    <2>1. ASSUME NEW j \in Responses(m) PROVE j < k + 1
      <3>1. j \in Nat /\ k \in Nat \ {0} /\ (j = 1 \/ (j - 1 \in DOMAIN t /\ j > 1))
        BY <1>2, <1>3
      <3>2. CASE j = 1
        BY <3>1, <3>2
      <3>3. CASE j - 1 \in DOMAIN t /\ j > 1
        <4>1. (j - 1) + 1 = j
          BY <3>1
        <4>2. j - 1 \in Responses(t)
          BY <1>2, <2>1, <3>3, <4>1
        <4> QED
          BY <1>5, <3>1, <4>2
      <3> QED
        BY <3>1, <3>2, <3>3
    <2> QED
      BY <1>2, <1>4, <1>5, <2>1
  <1> QED
    BY <1>5 DEF ToldFresh

(* The first message taken, the others are as they were: what it came with is
   asked for if it is the target's CURRENT. *)
LEMMA PairedTail ==
    ASSUME NEW c \in Client, c.answers # <<>>, Paired(c),
           NEW d, d.answers = Tail(c.answers),
           IsActiveTarget(d) /\ Head(c.answers).kind = "current"
               => d.update > Absent \/ Head(c.answers).version = Absent
    PROVE  Paired(d)
  <1> DEFINE m == c.answers
             t == d.answers
  <1>1. m \in Seq(Messages)
    BY DEF Client
  <1>2. /\ \A k \in DOMAIN t : k \in Nat /\ k + 1 \in DOMAIN m /\ t[k] = m[k + 1]
        /\ \A k \in DOMAIN t : k # 1 => k - 1 \in DOMAIN t
        /\ DOMAIN t \subseteq Nat \ {0} /\ Head(m) = m[1]
    BY <1>1, Tails
  <1>3. \A k \in DOMAIN m :
            /\ m[k].kind = "current" => m[k].version >= Absent
            /\ m[k].kind = "global" /\ k # 1 =>
                  m[k - 1].kind = "current" /\ m[k - 1].version = m[k].version
    BY DEF Paired
  <1> SUFFICES ASSUME NEW k \in DOMAIN t
               PROVE  /\ t[k].kind = "current" => t[k].version >= Absent
                      /\ t[k].kind = "global" =>
                            IF k = 1
                            THEN IsActiveTarget(d) => d.update > Absent \/ t[k].version = Absent
                            ELSE t[k - 1].kind = "current" /\ t[k - 1].version = t[k].version
    BY DEF Paired
  <1>4. k \in Nat \ {0} /\ k + 1 \in DOMAIN m /\ k + 1 # 1 /\ (k + 1) - 1 = k /\ t[k] = m[k + 1]
    BY <1>2
  <1>5. t[k].kind = "current" => t[k].version >= Absent
    BY <1>3, <1>4
  <1>6. t[k].kind = "global" => m[k].kind = "current" /\ m[k].version = t[k].version
    BY <1>3, <1>4
  <1>7. k # 1 => t[k - 1] = m[k]
    <2>1. k # 1 => (k - 1) + 1 = k
      BY <1>4
    <2> QED
      BY <1>2, <2>1
  <1> QED
    BY <1>2, <1>5, <1>6, <1>7

(* A response that parts two messages does so when an earlier one is taken. *)
LEMMA PartedTail ==
    ASSUME NEW c \in Client, c.answers # <<>>, Parted(c),
           NEW d, d.answers = Tail(c.answers), d.told = c.told
    PROVE  Parted(d)
  <1> DEFINE m == c.answers
             t == d.answers
  <1>1. m \in Seq(Messages)
    BY DEF Client
  <1>2. /\ \A k \in DOMAIN t : k \in Nat /\ k + 1 \in DOMAIN m /\ t[k] = m[k + 1]
        /\ \A k \in DOMAIN m : k \in Nat /\ (k = 1 \/ (k - 1 \in DOMAIN t /\ k > 1))
        /\ \A k \in DOMAIN t : k \in Responses(t) <=> k + 1 \in Responses(m)
        /\ DOMAIN t \subseteq Nat \ {0}
    BY <1>1, Tails, TailPlaces, ResponsesTail
  <1>3. \A i \in DOMAIN m : m[i].kind = "current" =>
            /\ c.told = Unknown => \E j \in Responses(m) : i < j
            /\ \A k \in DOMAIN m : i < k /\ m[k].kind = "early" =>
                  \E j \in Responses(m) : i < j /\ j < k
    BY DEF Parted
  <1>4. ASSUME NEW i \in DOMAIN t, NEW j \in Responses(m), i + 1 < j
        PROVE  j - 1 \in Responses(t) /\ i < j - 1 /\ j \in Nat
    <2>1. j \in DOMAIN m /\ j \in Nat /\ i \in Nat
      BY <1>2 DEF Responses
    <2>2. j - 1 \in DOMAIN t /\ (j - 1) + 1 = j /\ i < j - 1
      BY <1>2, <1>4, <2>1
    <2> QED
      BY <1>2, <2>1, <2>2
  <1> SUFFICES ASSUME NEW i \in DOMAIN t, t[i].kind = "current"
               PROVE  /\ d.told = Unknown => \E j \in Responses(t) : i < j
                      /\ \A k \in DOMAIN t : i < k /\ t[k].kind = "early" =>
                            \E j \in Responses(t) : i < j /\ j < k
    BY DEF Parted
  <1>5. i + 1 \in DOMAIN m /\ m[i + 1].kind = "current" /\ i \in Nat
    BY <1>2
  <1>6. ASSUME d.told = Unknown PROVE \E j \in Responses(t) : i < j
    <2>1. PICK j \in Responses(m) : i + 1 < j
      BY <1>3, <1>5, <1>6
    <2> QED
      BY <1>4, <2>1
  <1>7. ASSUME NEW k \in DOMAIN t, i < k, t[k].kind = "early"
        PROVE  \E j \in Responses(t) : i < j /\ j < k
    <2>1. k + 1 \in DOMAIN m /\ m[k + 1].kind = "early" /\ i + 1 < k + 1 /\ k \in Nat
      BY <1>2, <1>5, <1>7
    <2>2. PICK j \in Responses(m) : i + 1 < j /\ j < k + 1
      BY <1>3, <1>5, <2>1
    <2>3. j - 1 \in Responses(t) /\ i < j - 1 /\ j \in Nat
      BY <1>4, <2>2
    <2>4. j - 1 < k
      BY <2>1, <2>2, <2>3
    <2> QED
      BY <2>3, <2>4
  <1> QED
    BY <1>6, <1>7

(* What is left of the client when its first message is taken. *)
Took(c, d) ==
    /\ d \in Client /\ d.answers = Tail(c.answers)
    /\ d.state = c.state /\ d.requests = c.requests /\ d.idleTimer = c.idleTimer
    /\ d.sent = c.sent /\ d.outstanding = c.outstanding /\ d.current = c.current
    /\ d.changed = c.changed
    /\ d.update = c.update /\ d.listeners = c.listeners
    /\ d.remoteDocument = c.remoteDocument /\ d.since = c.since
    /\ d.watching = c.watching /\ d.told = c.told
    /\ d.updateTime = c.updateTime /\ d.contains = c.contains
    /\ d.rejoined = c.rejoined

(* What a response changes of the target. *)
LEMMA RespondedIs ==
    ASSUME NEW c \in Client, NEW kind
    PROVE  LET d == Responded(c, kind) IN
           /\ d \in Client /\ d.outstanding = c.outstanding - 1
           /\ d.current <=> c.current /\ ~(c.outstanding = 1 /\ kind = "removed")
           /\ d.rejoined <=> c.rejoined \/ (c.outstanding = 1 /\ kind = "added" /\ c.current)
           /\ d.failed = c.failed /\ d.events = c.events /\ d.synced = c.synced
           /\ d.networkEnabled = c.networkEnabled
           /\ d.state = c.state /\ d.requests = c.requests /\ d.idleTimer = c.idleTimer
           /\ d.sent = c.sent /\ d.answers = c.answers /\ d.update = c.update
           /\ d.listeners = c.listeners /\ d.remoteDocument = c.remoteDocument
           /\ d.updateTime = c.updateTime /\ d.contains = c.contains
           /\ d.since = c.since /\ d.watching = c.watching /\ d.told = c.told
           /\ d.online = c.online /\ d.timer = c.timer /\ d.failures = c.failures
  <1> DEFINE last == c.outstanding = 1
             due == c.outstanding - 1
             changed == c.changed /\ ~last
             current == c.current /\ ~(last /\ kind = "removed")
             rejoined == c.rejoined \/ (last /\ kind = "added" /\ c.current)
  <1>1. due \in Int /\ changed \in BOOLEAN /\ current \in BOOLEAN /\ rejoined \in BOOLEAN
    BY DEF Client
  <1>2. Responded(c, kind) = [c EXCEPT !.outstanding = due, !.changed = changed,
                                       !.current = current, !.rejoined = rejoined]
    BY DEF Responded, Client
  <1> SUFFICES LET d == Responded(c, kind) IN
               /\ d \in Client /\ d.outstanding = due /\ d.current = current
               /\ d.rejoined = rejoined
               /\ d.failed = c.failed /\ d.events = c.events /\ d.synced = c.synced
               /\ d.networkEnabled = c.networkEnabled
               /\ d.state = c.state /\ d.requests = c.requests /\ d.idleTimer = c.idleTimer
               /\ d.sent = c.sent /\ d.answers = c.answers /\ d.update = c.update
               /\ d.listeners = c.listeners /\ d.remoteDocument = c.remoteDocument
               /\ d.updateTime = c.updateTime /\ d.contains = c.contains
               /\ d.since = c.since /\ d.watching = c.watching /\ d.told = c.told
               /\ d.online = c.online /\ d.timer = c.timer /\ d.failures = c.failures
    OBVIOUS
  <1> HIDE DEF due, changed, current, rejoined
  <1>3. [c EXCEPT !.outstanding = due] \in Client
    BY <1>1 DEF Client
  <1>4. ASSUME NEW y \in Client PROVE [y EXCEPT !.changed = changed] \in Client
    BY <1>1 DEF Client
  <1>5. ASSUME NEW y \in Client
        PROVE  [y EXCEPT !.current = current, !.rejoined = rejoined] \in Client
    BY <1>1 DEF Client
  <1>6. [c EXCEPT !.outstanding = due, !.changed = changed,
                  !.current = current, !.rejoined = rejoined] \in Client
    BY <1>3, <1>4, <1>5 DEF Client
  <1> QED
    BY <1>1, <1>2, <1>6 DEF Client

(* With the last response that was due a target that was removed is not current,
   and one that is current was added anew. *)
LEMMA RespondedChannel ==
    ASSUME NEW c \in Client, NEW al, Channel(c, al), InOrder(c, al), IsOpen(c),
           c.answers # <<>>, Head(c.answers).kind \in {"added", "removed"},
           NEW d, Took(c, d),
           NEW e, e = Responded(d, Head(c.answers).kind)
    PROVE  Channel(e, al) /\ InOrder(e, al)
  <1>1. /\ e.answers = Tail(c.answers) /\ e.state = c.state /\ e.idleTimer = c.idleTimer
        /\ e.sent = c.sent /\ e.outstanding = c.outstanding - 1
        /\ e.current => c.current
        /\ e.current /\ c.outstanding = 1 => e.rejoined
        /\ e.update = c.update /\ e.listeners = c.listeners
        /\ e.remoteDocument = c.remoteDocument /\ e.since = c.since
        /\ e.watching = c.watching /\ e.told = c.told
    BY RespondedIs DEF Took
  <1>2. c.answers \in Seq(Messages) /\ c.outstanding \in Int /\ c.sent \in Seq(Requests)
    BY DEF Client
  <1>3. /\ Tail(c.answers) \in Seq(Messages)
        /\ \A k \in DOMAIN e.answers : k + 1 \in DOMAIN c.answers /\ e.answers[k] = c.answers[k + 1]
        /\ Cardinality(Responses(c.answers)) = Cardinality(Responses(e.answers)) + 1
    <2>1. Tail(c.answers) \in Seq(Messages)
      BY <1>2, Tails
    <2>2. \A k \in DOMAIN Tail(c.answers) :
              k + 1 \in DOMAIN c.answers /\ Tail(c.answers)[k] = c.answers[k + 1]
      BY <1>2, TailPlaces
    <2>3. Cardinality(Responses(c.answers)) = Cardinality(Responses(Tail(c.answers))) + 1
      BY <1>2, ResponsesTail
    <2> QED
      BY <1>1, <2>1, <2>2, <2>3
  <1>4. Len(c.sent) \in Nat /\ Cardinality(Responses(e.answers)) \in Nat
    BY <1>1, <1>2, <1>3, LenProperties, ResponsesFinite
  <1>5. al => e.outstanding = Len(e.sent) + Cardinality(Responses(e.answers))
    <2> DEFINE n == Len(c.sent)
               m == Cardinality(Responses(c.answers))
               l == Cardinality(Responses(e.answers))
    <2>1. al => c.outstanding = n + m
      BY DEF Channel
    <2>2. /\ n \in Nat /\ l \in Nat /\ m = l + 1 /\ c.outstanding \in Int
          /\ e.outstanding = c.outstanding - 1 /\ Len(e.sent) = n
      BY <1>1, <1>2, <1>3, <1>4
    <2> HIDE DEF n, m, l
    <2>3. al => e.outstanding = n + l
      BY <2>1, <2>2
    <2> QED
      BY <2>2, <2>3 DEF l
  <1>7. e.outstanding = 0 /\ e.current => e.rejoined
    <2>1. e.outstanding = c.outstanding - 1 /\ c.outstanding \in Int
      BY <1>1, <1>2
    <2>2. e.outstanding = 0 => c.outstanding = 1
      BY <2>1
    <2> QED
      BY <1>1, <2>2
  <1>6. Watched(c) => Watched(e)
    <2>1. ToldFresh(c) => ToldFresh(e)
      BY <1>1, ToldFreshTail
    <2> QED
      BY <1>1, <1>7, <2>1 DEF Watched
  <1>8. InOrder(e, al)
    <2>1. Paired(c) => Paired(e)
      BY <1>1, PairedTail
    <2>2. Parted(c) => Parted(e)
      BY <1>1, PartedTail
    <2>3. Told(e)
      BY <1>7 DEF Told, IsActiveTarget
    <2> QED
      BY <2>1, <2>2, <2>3 DEF InOrder
  <1> QED
    BY <1>1, <1>3, <1>5, <1>6, <1>8 DEF Channel, IsListening

(* Any other message leaves the channel as it is. *)
LEMMA TookChannel ==
    ASSUME NEW c \in Client, NEW al, Channel(c, al), IsOpen(c), c.answers # <<>>,
           Head(c.answers).kind \notin {"added", "removed"},
           NEW d, Took(c, d)
    PROVE  Channel(d, al)
  <1>2. c.answers \in Seq(Messages) /\ c.outstanding \in Int
    BY DEF Client
  <1>3. /\ Tail(c.answers) \in Seq(Messages)
        /\ \A k \in DOMAIN d.answers : k + 1 \in DOMAIN c.answers /\ d.answers[k] = c.answers[k + 1]
        /\ Cardinality(Responses(c.answers)) = Cardinality(Responses(d.answers)) + 0
    <2>1. Tail(c.answers) \in Seq(Messages)
      BY <1>2, Tails
    <2>2. \A k \in DOMAIN Tail(c.answers) :
              k + 1 \in DOMAIN c.answers /\ Tail(c.answers)[k] = c.answers[k + 1]
      BY <1>2, TailPlaces
    <2>3. Cardinality(Responses(c.answers)) = Cardinality(Responses(Tail(c.answers))) + 0
      BY <1>2, ResponsesTail
    <2> QED
      BY <2>1, <2>2, <2>3 DEF Took
  <1>4. Cardinality(Responses(d.answers)) \in Nat
    BY <1>3, ResponsesFinite DEF Took
  <1>5. Cardinality(Responses(c.answers)) = Cardinality(Responses(d.answers))
    BY <1>3, <1>4
  <1>6. Watched(c) => Watched(d)
    <2>1. ToldFresh(c) => ToldFresh(d)
      BY ToldFreshTail DEF Took
    <2> QED
      BY <2>1 DEF Watched, Took
  <1> QED
    BY <1>3, <1>5, <1>6 DEF Channel, IsListening, Took

(* Any other message but the target's CURRENT leaves the order as it is. *)
LEMMA TookInOrder ==
    ASSUME NEW c \in Client, NEW al, InOrder(c, al), c.answers # <<>>,
           Head(c.answers).kind \notin {"added", "removed", "current"},
           NEW d, Took(c, d)
    PROVE  /\ InOrder(d, al)
           /\ al /\ d.answers # <<>> => d.answers[1].kind # "global"
  <1>1. c.answers \in Seq(Messages) /\ d.answers = Tail(c.answers) /\ d.told = c.told
    BY DEF Client, Took
  <1>2. /\ Tail(c.answers) \in Seq(Messages) /\ Head(c.answers) = c.answers[1]
        /\ \A k \in DOMAIN d.answers : k + 1 \in DOMAIN c.answers /\ d.answers[k] = c.answers[k + 1]
    BY <1>1, Tails, TailPlaces
  <1>3. Paired(c) => Paired(d)
    BY <1>1, PairedTail
  <1>4. Parted(c) => Parted(d)
    BY <1>1, PartedTail
  <1>5. Told(c) => Told(d)
    BY <1>2 DEF Told, Took, IsActiveTarget, IsListening
  <1>6. Paired(c) /\ d.answers # <<>> => d.answers[1].kind # "global"
    <2>1. d.answers # <<>> => 1 \in DOMAIN d.answers
      BY <1>1, <1>2, TailPlaces
    <2>2. d.answers # <<>> => 2 \in DOMAIN c.answers /\ d.answers[1] = c.answers[2]
      BY <1>2, <2>1
    <2>3. Paired(c) => \A k \in DOMAIN c.answers :
              c.answers[k].kind = "global" /\ k # 1 => c.answers[k - 1].kind = "current"
      BY DEF Paired
    <2>4. ASSUME Paired(c), 2 \in DOMAIN c.answers, c.answers[2].kind = "global"
          PROVE  c.answers[1].kind = "current"
      <3>1. 2 # 1 /\ 2 - 1 = 1
        OBVIOUS
      <3>2. c.answers[2 - 1].kind = "current"
        BY <2>3, <2>4, <3>1
      <3> QED
        BY <3>1, <3>2
    <2> QED
      BY <1>2, <2>2, <2>4
  <1> QED
    BY <1>3, <1>4, <1>5, <1>6 DEF InOrder

(* A snapshot brings the cache up to date and, of a current target, the view. *)
LEMMA RaiseWatchSnapshotKeeps ==
    ASSUME NEW c, NEW doc, NEW al \in BOOLEAN, Core(c, doc), Channel(c, al), IsOpen(c),
           InOrder(c, al), al /\ c.answers # <<>> => c.answers[1].kind # "global",
           NEW v \in Versions, NEW token \in BOOLEAN,
           LacksDocument(c) /\ ~c.rejoined => v = Absent
    PROVE  LET d == RaiseWatchSnapshot(c, v, token) IN
           /\ Core(d, doc) /\ Channel(d, al) /\ InOrder(d, al) /\ Grows(c, d)
           /\ d.state = c.state /\ d.listeners = c.listeners
           /\ d.networkEnabled = c.networkEnabled
           /\ d.online = c.online /\ d.timer = c.timer /\ d.failures = c.failures
  <1> DEFINE lacks == LacksDocument(c)
             active == IsActiveTarget(c)
             reported == active /\ (c.changed \/ token \/ lacks)
             stored == IF lacks /\ v >= c.updateTime THEN Absent
                       ELSE IF c.update > c.updateTime THEN c.update ELSE c.remoteDocument
             time == IF lacks /\ v >= c.updateTime THEN v
                     ELSE IF c.update > c.updateTime THEN c.update ELSE c.updateTime
             contains == c.contains \/ (reported /\ c.update # Unknown)
             synced == IF reported THEN c.current ELSE c.synced
             changed == c.changed /\ ~active
             n == [c EXCEPT !.remoteDocument = stored, !.updateTime = time,
                            !.contains = contains, !.synced = synced,
                            !.changed = changed, !.update = Unknown]
             o == OnViewSnapshot(n, n.listeners)
             d == RaiseWatchSnapshot(c, v, token)
  <1>0. /\ c \in Client /\ ~c.failed
        /\ c.update \in Versions /\ c.remoteDocument \in Versions /\ c.since \in Versions
        /\ c.updateTime \in Versions /\ c.outstanding \in Int
        /\ c.contains \in BOOLEAN /\ c.current \in BOOLEAN /\ c.changed \in BOOLEAN
        /\ c.synced \in BOOLEAN
    BY DEF Core, Client
  <1>1. /\ c.update \in Nat /\ c.remoteDocument \in Nat /\ c.since \in Nat
        /\ c.updateTime \in Nat /\ v \in Nat
    BY <1>0, Constants
  <1>2. /\ active \in BOOLEAN /\ lacks \in BOOLEAN
        /\ lacks => active /\ c.current /\ c.update = Unknown /\ ~c.contains
        /\ active <=> c.outstanding = 0 /\ IsListening(c)
    BY <1>0 DEF IsActiveTarget, LacksDocument
  <1>3. d = IF \/ (n.remoteDocument # c.remoteDocument
                       /\ (n.remoteDocument > Absent \/ c.remoteDocument > Absent))
               \/ n.synced # c.synced THEN o ELSE n
    <2>1. n = [c EXCEPT
                !.remoteDocument = IF lacks /\ v >= c.updateTime THEN Absent
                                   ELSE IF c.update > c.updateTime THEN c.update ELSE @,
                !.updateTime = IF lacks /\ v >= c.updateTime THEN v
                               ELSE IF c.update > c.updateTime THEN c.update ELSE @,
                !.contains = @ \/ (reported /\ c.update # Unknown),
                !.synced = IF reported THEN c.current ELSE @,
                !.changed = @ /\ ~IsActiveTarget(c), !.update = Unknown]
      BY <1>0 DEF Client
    <2> QED
      BY <2>1 DEF RaiseWatchSnapshot
  <1>4. stored \in Versions /\ time \in Versions
    BY <1>0, Constants
  <1>5. contains \in BOOLEAN /\ synced \in BOOLEAN /\ changed \in BOOLEAN
    BY <1>0
  <1>6. ~c.rejoined => Honest(c) /\ (lacks => v = Absent)
    BY DEF Core
  <1>7. c.update # Unknown => c.update > Absent
    BY DEF Core
  <1>8. ~c.rejoined =>
            /\ time = stored
            /\ stored >= c.update /\ (~lacks => stored >= c.remoteDocument)
            /\ lacks => stored >= Absent
            /\ c.contains \/ c.update # Unknown => stored > Absent
    <2> SUFFICES ASSUME ~c.rejoined
                 PROVE  /\ time = stored
                        /\ stored >= c.update /\ (~lacks => stored >= c.remoteDocument)
                        /\ lacks => stored >= Absent
                        /\ c.contains \/ c.update # Unknown => stored > Absent
      OBVIOUS
    <2>1. /\ c.updateTime = c.remoteDocument
          /\ lacks => c.update = Unknown /\ ~c.contains /\ v = Absent
          /\ c.contains => c.remoteDocument > Absent
      BY <1>2, <1>6 DEF Honest
    <2> HIDE DEF lacks
    <2>2. lacks \in BOOLEAN
      BY <1>2
    <2>3. /\ stored = IF lacks /\ v >= c.updateTime THEN Absent
                      ELSE IF c.update > c.updateTime THEN c.update ELSE c.remoteDocument
          /\ time = IF lacks /\ v >= c.updateTime THEN v
                    ELSE IF c.update > c.updateTime THEN c.update ELSE c.updateTime
      OBVIOUS
    <2> HIDE DEF stored, time
    <2> QED
      BY <1>0, <1>1, <1>7, <2>1, <2>2, <2>3 DEF Unknown, Absent
  <1>9. active /\ c.current /\ ~c.rejoined =>
            \/ c.since <= Absent
            \/ c.changed /\ c.update > Absent /\ c.update >= c.since
            \/ c.contains /\ c.remoteDocument >= c.since
    <2>1. c.current => al
      BY DEF Channel
    <2> HIDE DEF active
    <2> QED
      BY <1>2, <2>1 DEF Channel, Watched
  <1> HIDE DEF stored, time, lacks, active
  <1>10. active /\ c.current /\ ~c.rejoined => stored >= c.since
    <2>1. stored \in Nat
      BY <1>4, Constants
    <2>2. CASE active /\ c.current /\ ~c.rejoined /\ c.since <= Absent
      <3>1. lacks \/ c.contains \/ c.update # Unknown
        BY <2>2 DEF lacks, active, LacksDocument
      <3>2. stored >= Absent
        BY <1>8, <2>1, <2>2, <3>1 DEF Absent
      <3> QED
        BY <1>1, <2>1, <2>2, <3>2 DEF Absent
    <2>3. CASE ~c.rejoined /\ c.update >= c.since
      BY <1>1, <1>8, <2>1, <2>3
    <2>4. CASE ~c.rejoined /\ c.contains /\ c.remoteDocument >= c.since
      BY <1>1, <1>2, <1>8, <2>1, <2>4
    <2> QED
      BY <1>9, <2>2, <2>3, <2>4
  <1>11. ~c.rejoined /\ synced => stored >= c.since
    <2>1. stored \in Nat
      BY <1>4, Constants
    <2>2. CASE reported
      BY <1>10, <2>2
    <2>3. CASE ~reported /\ ~c.rejoined /\ c.synced
      <3>1. c.remoteDocument >= c.since /\ ~lacks
        BY <1>2, <1>6, <2>3 DEF Honest
      <3> QED
        BY <1>1, <1>8, <2>1, <2>3, <3>1
    <2> QED
      BY <2>2, <2>3
  <1>12. ~c.rejoined /\ contains => stored > Absent
    BY <1>8
  <1>13. active /\ c.current /\ ~c.rejoined => c.since <= Absent \/ (contains /\ stored >= c.since)
    <2>1. c.changed /\ c.update > Absent /\ active => contains
      BY <1>1 DEF Unknown, Absent
    <2> QED
      BY <1>9, <1>10, <2>1
  <1> HIDE DEF reported, contains, synced, changed
  <1>14. /\ n \in Client /\ n.failed = c.failed /\ n.state = c.state
         /\ n.requests = c.requests /\ n.idleTimer = c.idleTimer
         /\ n.sent = c.sent /\ n.answers = c.answers
         /\ n.networkEnabled = c.networkEnabled /\ n.online = c.online
         /\ n.timer = c.timer /\ n.failures = c.failures
         /\ n.outstanding = c.outstanding /\ n.current = c.current
         /\ n.update = Unknown /\ n.listeners = c.listeners
         /\ n.events = c.events /\ n.remoteDocument = stored /\ n.updateTime = time
         /\ n.contains = contains /\ n.synced = synced /\ n.since = c.since
         /\ n.watching = c.watching /\ n.told = c.told /\ n.rejoined = c.rejoined
    <2> DEFINE y == [c EXCEPT !.remoteDocument = stored, !.updateTime = time,
                              !.update = Unknown]
    <2>1. y \in Client
      BY <1>0, <1>4, Constants DEF Client
    <2>2. n = [y EXCEPT !.contains = contains, !.synced = synced, !.changed = changed]
      BY <1>0 DEF Client
    <2>3. n \in Client
      <3> HIDE DEF y, n
      <3> QED
        BY <1>5, <2>1, <2>2 DEF Client
    <2> QED
      BY <1>0, <2>3 DEF Client
  <1> HIDE DEF n
  <1>15. Core(n, doc)
    <2>1. ~n.rejoined => Honest(n)
      BY <1>8, <1>11, <1>12, <1>14 DEF Honest
    <2>2. ~IsOpen(n) => Empty(n)
      BY <1>14 DEF IsOpen
    <2> QED
      BY <1>14, <2>1, <2>2 DEF Core, EventsSound
  <1>16. Channel(n, al)
    <2>1. IsListening(c) /\ Watched(c) => Watched(n)
      BY <1>2, <1>13, <1>14 DEF Watched, ToldFresh
    <2> QED
      BY <1>14, <2>1 DEF Channel, IsListening, IsOpen
  <1>17. InOrder(n, al)
    <2>1. IsActiveTarget(n) <=> IsActiveTarget(c)
      BY <1>14 DEF IsActiveTarget, IsListening
    <2>2. al /\ Paired(c) => Paired(n)
      <3>1. \A k \in DOMAIN c.answers : al /\ k = 1 => c.answers[k].kind # "global"
        OBVIOUS
      <3> QED
        BY <1>14, <3>1 DEF Paired
    <2>3. Parted(c) => Parted(n)
      BY <1>14 DEF Parted
    <2>4. Told(c) => Told(n)
      BY <1>14, <2>1 DEF Told
    <2> QED
      BY <2>2, <2>3, <2>4 DEF InOrder
  <1>18. CASE d = n
    BY <1>14, <1>15, <1>16, <1>17, <1>18 DEF Grows
  <1>19. CASE d = o
    <2>1. /\ Core(o, doc) /\ Still(n, o)
          /\ o.online = n.online /\ o.timer = n.timer /\ o.failures = n.failures
      BY <1>15, OnViewSnapshotKeeps
    <2> HIDE DEF o
    <2>2. Channel(o, al) /\ InOrder(o, al)
      BY <1>16, <1>17, <2>1, ChannelStill, InOrderStill DEF Still
    <2>3. Grows(c, o)
      BY <1>14, <2>1 DEF Grows, Still, Kept
    <2> HIDE DEF d
    <2> QED
      BY <1>14, <1>19, <2>1, <2>2, <2>3 DEF Still, Kept, d
  <1> QED
    BY <1>3, <1>18, <1>19

(* A rejected listen: every listener has the error as its last event. *)
LEMMA ProcessTargetErrorKeeps ==
    ASSUME NEW c, NEW doc, Core(c, doc), Channel(c, FALSE), IsOpen(c)
    PROVE  LET d == ProcessTargetError(c) IN
           /\ Core(d, doc) /\ Channel(d, FALSE) /\ Grows(c, d)
           /\ d.state = c.state /\ d.listeners \subseteq c.listeners
           /\ d.networkEnabled = c.networkEnabled
           /\ d.online = c.online /\ d.timer = c.timer /\ d.failures = c.failures
  <1> DEFINE event == [error |-> "denied"]
             p == Post(c, c.listeners, event)
             d == [p EXCEPT !.listeners = {}, !.synced = FALSE, !.outstanding = 0,
                            !.current = FALSE, !.changed = FALSE]
  <1>0. c \in Client /\ ~c.failed /\ c.listeners \subseteq Reads
    BY DEF Core, Client
  <1>1. CASE ~IsListening(c)
    <2>1. ProcessTargetError(c) = c
      BY <1>1 DEF ProcessTargetError
    <2> QED
      BY <2>1 DEF Grows
  <1>2. CASE IsListening(c)
    <2>1. ProcessTargetError(c) = d
      BY <1>2 DEF ProcessTargetError
    <2>2. event \in Errors /\ event \in Snapshot \cup Errors
      BY DEF Errors
    <2> HIDE DEF event
    <2>3. /\ p \in Client
          /\ p = [c EXCEPT !.events = p.events]
          /\ \A r \in Reads : \/ p.events[r] = c.events[r]
                              \/ r \in c.listeners /\ p.events[r] = Append(c.events[r], event)
      BY <1>0, <2>2, PostIs
    <2> HIDE DEF p
    <2>4. /\ d \in Client /\ d.events = p.events /\ d.listeners = {} /\ ~d.synced
          /\ d.outstanding = 0 /\ ~d.current
          /\ d.state = c.state /\ d.requests = c.requests /\ d.idleTimer = c.idleTimer
          /\ d.sent = c.sent /\ d.answers = c.answers /\ d.failed = c.failed
          /\ d.networkEnabled = c.networkEnabled
          /\ d.remoteDocument = c.remoteDocument /\ d.update = c.update /\ d.since = c.since
          /\ d.watching = c.watching /\ d.told = c.told
          /\ d.updateTime = c.updateTime /\ d.contains = c.contains
          /\ d.rejoined = c.rejoined
          /\ d.online = c.online /\ d.timer = c.timer /\ d.failures = c.failures
      <3>1. /\ p.state = c.state /\ p.requests = c.requests /\ p.idleTimer = c.idleTimer
            /\ p.sent = c.sent /\ p.answers = c.answers /\ p.failed = c.failed
            /\ p.networkEnabled = c.networkEnabled
            /\ p.remoteDocument = c.remoteDocument /\ p.update = c.update /\ p.since = c.since
            /\ p.watching = c.watching /\ p.told = c.told
            /\ p.updateTime = c.updateTime /\ p.contains = c.contains
            /\ p.rejoined = c.rejoined
            /\ p.online = c.online /\ p.timer = c.timer /\ p.failures = c.failures
        BY <1>0, <2>3 DEF Client
      <3>2. d \in Client
        <4> DEFINE y == [p EXCEPT !.outstanding = 0]
        <4>1. 0 \in Int /\ {} \in SUBSET Reads
          OBVIOUS
        <4>2. y \in Client
          BY <2>3, <4>1 DEF Client
        <4> HIDE DEF y
        <4>3. [y EXCEPT !.listeners = {}, !.synced = FALSE, !.current = FALSE,
                        !.changed = FALSE] \in Client
          BY <4>1, <4>2 DEF Client
        <4>4. [y EXCEPT !.listeners = {}, !.synced = FALSE, !.current = FALSE,
                        !.changed = FALSE] = d
          BY <2>3 DEF y, Client
        <4> QED
          BY <4>3, <4>4
      <3>3. /\ d.events = p.events /\ d.listeners = {} /\ ~d.synced
            /\ d.outstanding = 0 /\ ~d.current
            /\ d.state = p.state /\ d.requests = p.requests /\ d.idleTimer = p.idleTimer
            /\ d.sent = p.sent /\ d.answers = p.answers /\ d.failed = p.failed
            /\ d.networkEnabled = p.networkEnabled
            /\ d.remoteDocument = p.remoteDocument /\ d.update = p.update /\ d.since = p.since
            /\ d.watching = p.watching /\ d.told = p.told
            /\ d.updateTime = p.updateTime /\ d.contains = p.contains
            /\ d.rejoined = p.rejoined
            /\ d.online = p.online /\ d.timer = p.timer /\ d.failures = p.failures
        BY <2>3 DEF Client
      <3> HIDE DEF d
      <3> QED
        BY <3>1, <3>2, <3>3
    <2> HIDE DEF d
    <2>5. EventsSound(d)
      <3>1. ASSUME NEW r \in Reads, NEW k \in DOMAIN d.events[r]
            PROVE  LET e == d.events[r][k] IN
                   IF e \in Errors THEN k = Len(d.events[r]) /\ r \notin d.listeners
                   ELSE ~d.rejoined /\ ~e.fromCache => e.version >= e.since
        <4> DEFINE q == c.events[r]
        <4>1. q \in Seq(Snapshot \cup Errors)
          BY <1>0 DEF Client
        <4>2. \A i \in DOMAIN q : IF q[i] \in Errors THEN i = Len(q) /\ r \notin c.listeners
                                  ELSE ~c.rejoined /\ ~q[i].fromCache => q[i].version >= q[i].since
          BY DEF Core, EventsSound
        <4>3. CASE d.events[r] = q
          BY <2>4, <3>1, <4>2, <4>3
        <4>4. CASE r \in c.listeners /\ d.events[r] = Append(q, event)
          <5> HIDE DEF q
          <5>1. /\ Len(q) \in Nat /\ DOMAIN q = 1 .. Len(q)
                /\ DOMAIN Append(q, event) = 1 .. Len(q) + 1
                /\ \A i \in 1 .. Len(q) : Append(q, event)[i] = q[i]
                /\ Append(q, event)[Len(q) + 1] = event
                /\ Len(Append(q, event)) = Len(q) + 1
            BY <2>2, <4>1, Appended
          <5>2. CASE k \in 1 .. Len(q)
            <6>1. d.events[r][k] = q[k] /\ q[k] \notin Errors
              BY <4>2, <4>4, <5>1, <5>2
            <6> QED
              BY <2>4, <4>2, <5>1, <5>2, <6>1
          <5>3. CASE k = Len(q) + 1
            BY <2>2, <2>4, <4>4, <5>1, <5>3
          <5> QED
            BY <3>1, <4>4, <5>1, <5>2, <5>3
        <4> QED
          BY <2>3, <2>4, <4>3, <4>4
      <3> QED
        BY <3>1 DEF EventsSound
    <2>6. Core(d, doc)
      BY <2>4, <2>5 DEF Core, Honest, IsOpen
    <2>7. Channel(d, FALSE)
      BY <2>4 DEF Channel, IsListening, IsOpen
    <2>8. Grows(c, d)
      BY <2>3, <2>4 DEF Grows
    <2> QED
      BY <2>1, <2>4, <2>6, <2>7, <2>8
  <1> QED
    BY <1>1, <1>2

(* The server's answer to the current listen: it is no older than the listener,
   as no response is due any more. *)
LEMMA HandleCurrentKeeps ==
    ASSUME NEW c \in Client, NEW al \in BOOLEAN, Channel(c, al), InOrder(c, al),
           IsOpen(c), c.answers # <<>>,
           Head(c.answers).kind = "current",
           NEW d, NEW doc, Core(d, doc), Took(c, d)
    PROVE  LET e == HandleCurrent(d, Head(c.answers).version) IN
           /\ Core(e, doc) /\ Channel(e, al) /\ InOrder(e, al) /\ Grows(d, e)
           /\ e.state = d.state /\ e.listeners = d.listeners
           /\ e.networkEnabled = d.networkEnabled
           /\ e.online = d.online /\ e.timer = d.timer /\ e.failures = d.failures
  <1> DEFINE version == Head(c.answers).version
             update == IF version > Absent THEN version ELSE d.update
             e == [d EXCEPT !.update = update, !.current = TRUE, !.changed = TRUE]
  <1>0. d \in Client /\ ~d.failed /\ c.answers \in Seq(Messages) /\ c.sent \in Seq(Requests)
    BY DEF Core, Client
  <1>1. Channel(d, al)
    <2>1. Head(c.answers).kind \notin {"added", "removed"}
      OBVIOUS
    <2> QED
      BY <2>1, TookChannel
  <1>2. CASE ~IsActiveTarget(d)
    <2>1. HandleCurrent(d, version) = d
      BY <1>2 DEF HandleCurrent
    <2>2. InOrder(d, al)
      <3>1. Paired(c) => Paired(d)
        BY <1>2, PairedTail DEF Took
      <3>2. Parted(c) => Parted(d)
        BY PartedTail DEF Took
      <3> QED
        BY <1>2, <3>1, <3>2 DEF InOrder, Told
    <2> QED
      BY <1>1, <2>1, <2>2 DEF Grows
  <1>3. CASE IsActiveTarget(d)
    <2>1. HandleCurrent(d, version) = e
      BY <1>3 DEF HandleCurrent
    <2>2. /\ version \in Versions /\ 1 \in DOMAIN c.answers
          /\ c.answers[1].kind = "current" /\ c.answers[1].version = version
      <3>1. Head(c.answers) \in Messages
        BY <1>0, Tails
      <3> QED
        BY <1>0, <3>1, Tails, TailPlaces DEF Messages
    <2> HIDE DEF version
    <2>12. version \in Nat /\ update \in Versions /\ update \in Nat /\ d.update \in Versions
      BY <1>0, <2>2, Constants DEF Client
    <2>13. /\ update # Unknown => update > Absent
           /\ version > Absent => update = version
      BY <2>12 DEF Core
    <2> HIDE DEF update
    <2>3. /\ e \in Client /\ e.failed = d.failed /\ e.state = d.state
          /\ e.requests = d.requests /\ e.idleTimer = d.idleTimer
          /\ e.sent = d.sent /\ e.answers = d.answers
          /\ e.networkEnabled = d.networkEnabled /\ e.online = d.online
          /\ e.timer = d.timer /\ e.failures = d.failures
          /\ e.outstanding = d.outstanding /\ e.current /\ e.changed /\ e.update = update
          /\ e.listeners = d.listeners
          /\ e.events = d.events /\ e.remoteDocument = d.remoteDocument
          /\ e.synced = d.synced /\ e.since = d.since /\ e.watching = d.watching
          /\ e.told = d.told
          /\ e.updateTime = d.updateTime /\ e.contains = d.contains
          /\ e.rejoined = d.rejoined
      BY <1>0, <2>12 DEF Client
    <2> HIDE DEF e
    <2>4. IsOpen(d) /\ d.outstanding = 0 /\ IsListening(d) /\ c.outstanding = 0 /\ IsListening(c)
      BY <1>3 DEF IsActiveTarget, Took, IsOpen, IsListening
    <2>5. al
      BY <2>2 DEF Channel
    <2>6. version >= c.since /\ Responses(c.answers) = {}
      <3>1. Len(c.sent) \in Nat /\ Cardinality(Responses(c.answers)) \in Nat
            /\ IsFiniteSet(Responses(c.answers))
        BY <1>0, LenProperties, ResponsesFinite
      <3>2. 0 = Len(c.sent) + Cardinality(Responses(c.answers))
        BY <2>4, <2>5 DEF Channel
      <3>3. Len(c.sent) = 0 /\ Cardinality(Responses(c.answers)) = 0
        BY <3>1, <3>2
      <3>4. c.sent = <<>> /\ Responses(c.answers) = {}
        BY <1>0, <3>1, <3>3, EmptySeq, FS_EmptySet
      <3>5. ToldFresh(c)
        BY <2>4, <2>5, <3>4 DEF Channel, Watched
      <3> QED
        BY <2>2, <3>4, <3>5 DEF ToldFresh
    <2>7. Core(e, doc)
      BY <2>3, <2>4, <2>13 DEF Core, Honest, IsOpen, EventsSound
    <2>8. Watched(d) => Watched(e)
      <3>1. e.since <= Absent \/ (e.update > Absent /\ e.update >= e.since)
        <4>1. e.since \in Nat /\ e.since = c.since
          BY <1>0, <2>3, Constants DEF Client, Took
        <4> QED
          BY <2>3, <2>6, <2>12, <2>13, <4>1 DEF Absent
      <3> QED
        BY <2>3, <3>1 DEF Watched, ToldFresh
    <2>9. Channel(e, al)
      BY <1>1, <2>3, <2>5, <2>8 DEF Channel, IsOpen, IsListening
    <2>10. Grows(d, e)
      BY <2>3 DEF Grows
    <2>11. InOrder(e, al)
      <3>1. Paired(c) => Paired(e)
        <4>1. Paired(c) => version >= Absent
          BY <2>2 DEF Paired
        <4>2. Paired(c) => e.update > Absent \/ version = Absent
          BY <2>3, <2>12, <2>13, <4>1 DEF Absent
        <4>3. e.answers = Tail(c.answers)
          BY <2>3 DEF Took
        <4> QED
          BY <4>2, <4>3, PairedTail DEF version
      <3>2. Parted(c) => Parted(e)
        BY <2>3, PartedTail DEF Took
      <3>3. Parted(c) => Told(e)
        <4>1. \A k \in DOMAIN e.answers :
                  k \in Nat \ {0} /\ k + 1 \in DOMAIN c.answers /\ e.answers[k] = c.answers[k + 1]
          BY <1>0, <2>3, Tails DEF Took
        <4>2. Parted(c) => /\ c.told # Unknown
                           /\ \A k \in DOMAIN c.answers : 1 < k => c.answers[k].kind # "early"
          BY <2>2, <2>6 DEF Parted
        <4> QED
          BY <2>3, <4>1, <4>2 DEF Told, Took
      <3> QED
        BY <3>1, <3>2, <3>3 DEF InOrder
    <2> QED
      BY <2>1, <2>3, <2>7, <2>9, <2>10, <2>11 DEF version, update
  <1> QED
    BY <1>2, <1>3
-----------------------------------------------------------------------------
(* The tasks of the worker queue *)

(* The tracker's side of an unchanged online state. *)
LEMMA TrackerSame ==
    ASSUME NEW c, NEW d, Tracker(c), d.online = c.online, d.timer = c.timer,
           d.failures = c.failures
    PROVE  Tracker(d)
  BY DEF Tracker

(* Listeners that only go, twice. *)
LEMMA GrowsTwice ==
    ASSUME NEW c, NEW d, NEW e, Grows(c, d), Grows(d, e)
    PROVE  Grows(c, e)
  BY DEF Grows

(* A step of the worker gives nobody an event who does not listen, and so
   keeps what is true of each read. *)
LEMMA WorkerStep ==
    ASSUME IInv, NEW d, WorkerDoes(d), allowed' \in BOOLEAN,
           Good(d, document, allowed'), Grows(client, d)
    PROVE  IInv'
  <1>1. /\ client' = d /\ called' = called /\ tasks' = tasks /\ muted' = muted
        /\ answers' = answers /\ document' = document
    BY DEF WorkerDoes
  <1>2. AppTypeOK'
    BY <1>1 DEF IInv, AppTypeOK
  <1>3. Good(client', document', allowed')
    BY <1>1
  <1>4. ASSUME NEW r \in Reads PROVE OnceAdded(r)' /\ OnceAnswered(r)'
    <2>1. OnceAdded(r) /\ OnceAnswered(r)
      BY DEF IInv
    <2>2. /\ r \in client'.listeners => r \in client.listeners
          /\ r \notin client.listeners => client'.events[r] = client.events[r]
          /\ client.rejoined => client'.rejoined
      BY <1>1 DEF Grows
    <2>3. OnceAdded(r)'
      BY <1>1, <2>1, <2>2 DEF OnceAdded
    <2>4. OnceAnswered(r)'
      BY <1>1, <2>1, <2>2 DEF OnceAnswered
    <2> QED
      BY <2>3, <2>4
  <1> QED
    BY <1>2, <1>3, <1>4 DEF IInv

(* A message taken from the stream, and the online state it brings about. *)
LEMMA ReceivedStep ==
    ASSUME IInv, NEW kind \in Kinds, Received(kind)
    PROVE  IInv'
  <1> PICK token \in BOOLEAN :
          WorkerDoes(OnWatchStreamChange([client EXCEPT !.answers = Tail(@)],
                                         Head(client.answers), token))
    BY DEF Received
  <1> DEFINE c == client
             message == Head(client.answers)
             t == [client EXCEPT !.answers = Tail(@)]
             o == UpdateState(t, "Online")
             d == OnWatchStreamChange(t, message, token)
  <1>0. /\ c.answers # <<>> /\ message.kind = kind /\ WorkerDoes(d) /\ allowed' = allowed
        /\ allowed \in BOOLEAN
    BY DEF Received, IInv, AppTypeOK
  <1>1. /\ c \in Client /\ ~c.failed /\ c.answers \in Seq(Messages)
        /\ Core(c, document) /\ Channel(c, allowed) /\ InOrder(c, allowed) /\ Up(c)
        /\ message \in Messages /\ message = c.answers[1] /\ 1 \in DOMAIN c.answers
    <2>1. c \in Client /\ c.answers \in Seq(Messages)
      BY DEF IInv, Good, Core, Client
    <2> QED
      BY <1>0, <2>1, Tails, TailPlaces DEF IInv, Good, Core
  <1>2. IsOpen(c)
    BY <1>0, <1>1 DEF Core, Empty
  <1>3. /\ t \in Client /\ t.answers = Tail(c.answers) /\ t.failed = c.failed
        /\ t.events = c.events /\ t.synced = c.synced /\ t.networkEnabled = c.networkEnabled
        /\ t.state = c.state /\ t.requests = c.requests /\ t.idleTimer = c.idleTimer
        /\ t.sent = c.sent /\ t.outstanding = c.outstanding /\ t.current = c.current
        /\ t.changed = c.changed
        /\ t.update = c.update /\ t.listeners = c.listeners
        /\ t.remoteDocument = c.remoteDocument /\ t.since = c.since
        /\ t.watching = c.watching /\ t.told = c.told
        /\ t.updateTime = c.updateTime /\ t.contains = c.contains
        /\ t.rejoined = c.rejoined
    <2>1. Tail(c.answers) \in Seq(Messages)
      BY <1>0, <1>1, Tails
    <2> QED
      BY <1>1, <2>1 DEF Client
  <1> HIDE DEF t
  <1>4. Core(t, document)
    BY <1>1, <1>2, <1>3 DEF Core, Honest, EventsSound, IsOpen
  <1>5. Core(o, document) /\ Tracker(o) /\ Still(t, o) /\ ~o.timer
    BY <1>4, UpdateStateKeeps
  <1>6. d = CASE kind \in {"added", "removed"} -> Responded(o, kind)
              [] kind = "denied" -> ProcessTargetError(o)
              [] kind = "current" -> HandleCurrent(o, message.version)
              [] kind \in {"global", "early"} -> RaiseWatchSnapshot(o, message.version, token)
    BY <1>0 DEF OnWatchStreamChange
  <1> HIDE DEF o
  <1>7. Took(c, o) /\ IsOpen(o) /\ o.networkEnabled /\ Grows(c, o)
    BY <1>1, <1>2, <1>3, <1>5 DEF Took, Still, Kept, Core, IsOpen, Up, Grows
  <1> HIDE DEF d, message, c
  <1> SUFFICES /\ Core(d, document) /\ Channel(d, allowed) /\ InOrder(d, allowed)
               /\ Grows(o, d)
               /\ d.state = o.state /\ d.networkEnabled = o.networkEnabled
               /\ d.online = o.online /\ d.timer = o.timer /\ d.failures = o.failures
    <2>1. Tracker(d)
      BY <1>5, TrackerSame
    <2>2. Up(d)
      BY <1>5, <1>7 DEF Up, IsOpen, IsStarted
    <2>3. Grows(c, d)
      BY <1>7, GrowsTwice
    <2> QED
      BY <1>0, <2>1, <2>2, <2>3, WorkerStep DEF Good, c
  <1>8. CASE kind \in {"added", "removed"}
    <2>1. d = Responded(o, Head(c.answers).kind) /\ Head(c.answers).kind \in {"added", "removed"}
      BY <1>0, <1>6, <1>8 DEF message, c
    <2>2. o \in Client
      BY <1>7 DEF Took
    <2>3. /\ d \in Client /\ d.failed = o.failed /\ d.events = o.events
          /\ d.synced = o.synced /\ d.networkEnabled = o.networkEnabled
          /\ d.state = o.state /\ d.requests = o.requests /\ d.idleTimer = o.idleTimer
          /\ d.listeners = o.listeners /\ d.update = o.update
          /\ d.updateTime = o.updateTime /\ d.contains = o.contains
          /\ d.remoteDocument = o.remoteDocument /\ d.since = o.since
          /\ d.online = o.online /\ d.timer = o.timer /\ d.failures = o.failures
          /\ o.rejoined => d.rejoined
      BY <2>1, <2>2, RespondedIs
    <2>4. Core(d, document)
      BY <1>5, <1>7, <2>3 DEF Core, Honest, EventsSound, IsOpen
    <2>5. Channel(d, allowed) /\ InOrder(d, allowed)
      BY <1>0, <1>1, <1>2, <1>7, <2>1, RespondedChannel DEF c
    <2>6. Grows(o, d)
      BY <2>3 DEF Grows
    <2> QED
      BY <2>3, <2>4, <2>5, <2>6
  <1>9. CASE kind = "denied"
    <2>1. d = ProcessTargetError(o)
      BY <1>6, <1>9
    <2>2. ~allowed
      <3>1. message = c.answers[1] /\ 1 \in DOMAIN c.answers
        BY <1>0, <1>1, Tails, TailPlaces DEF message, c
      <3> QED
        BY <1>0, <1>1, <1>2, <1>9, <3>1 DEF Channel
    <2>3. Channel(o, FALSE)
      <3>1. kind \notin {"added", "removed"} /\ Channel(c, FALSE)
        BY <1>0, <1>1, <1>9, <2>2
      <3> QED
        BY <1>0, <1>1, <1>2, <1>7, <3>1, TookChannel DEF message, c
    <2>4. Core(d, document) /\ Channel(d, FALSE) /\ Grows(o, d)
      BY <1>5, <1>7, <2>1, <2>3, ProcessTargetErrorKeeps
    <2>5. InOrder(d, allowed)
      BY <2>2 DEF InOrder
    <2> QED
      BY <1>0, <1>5, <1>7, <2>1, <2>2, <2>3, <2>4, <2>5, ProcessTargetErrorKeeps
  <1>10. CASE kind = "current"
    <2>1. d = HandleCurrent(o, Head(c.answers).version) /\ Head(c.answers).kind = "current"
      BY <1>0, <1>6, <1>10 DEF message, c
    <2> QED
      BY <1>0, <1>1, <1>2, <1>5, <1>7, <2>1, HandleCurrentKeeps
  <1>11. CASE kind \in {"global", "early"}
    <2>1. d = RaiseWatchSnapshot(o, message.version, token) /\ message.version \in Versions
      BY <1>1, <1>6, <1>11 DEF Messages
    <2>2. /\ Channel(o, allowed) /\ InOrder(o, allowed)
          /\ allowed /\ o.answers # <<>> => o.answers[1].kind # "global"
      <3>1. Head(c.answers).kind \notin {"added", "removed", "current"}
        BY <1>0, <1>11 DEF message, c
      <3> QED
        BY <1>0, <1>1, <1>2, <1>7, <3>1, TookChannel, TookInOrder DEF c
    <2>3. LacksDocument(o) /\ ~o.rejoined => message.version = Absent
      <3>1. LacksDocument(o) => /\ IsActiveTarget(c) /\ c.current /\ c.update = Unknown
                                /\ o.rejoined = c.rejoined /\ allowed
        BY <1>0, <1>1, <1>2, <1>7 DEF LacksDocument, Took, IsActiveTarget, IsListening, Channel
      <3>2. allowed /\ kind = "global" /\ IsActiveTarget(c) =>
                c.update > Absent \/ message.version = Absent
        BY <1>0, <1>1 DEF InOrder, Paired
      <3>3. allowed /\ kind = "early" /\ IsActiveTarget(c) /\ c.current => c.rejoined
        BY <1>0, <1>1 DEF InOrder, Told
      <3> QED
        BY <1>11, <3>1, <3>2, <3>3 DEF Unknown, Absent
    <2> DEFINE e == RaiseWatchSnapshot(o, message.version, token)
    <2>4. /\ Core(e, document) /\ Channel(e, allowed) /\ InOrder(e, allowed) /\ Grows(o, e)
          /\ e.state = o.state /\ e.networkEnabled = o.networkEnabled
          /\ e.online = o.online /\ e.timer = o.timer /\ e.failures = o.failures
      <3>1. Core(o, document) /\ IsOpen(o) /\ allowed \in BOOLEAN
        BY <1>0, <1>5, <1>7
      <3> QED
        BY <2>1, <2>2, <2>3, <3>1, RaiseWatchSnapshotKeeps
    <2> QED
      BY <2>1, <2>4
  <1> QED
    BY <1>8, <1>9, <1>10, <1>11 DEF Kinds

(* A token opens the stream, and the stream asks for what is listened to. *)
LEMMA TokenArrivesStep ==
    ASSUME IInv, NEW age \in 0 .. MaxAge, NEW ok \in BOOLEAN, TokenArrives(age, ok)
    PROVE  IInv'
  <1> DEFINE c == client
             a == [client EXCEPT !.requests = @ \ {age}]
             resumed == HardAssert(a, client.state = "Starting")
             x == [a EXCEPT !.state = "Open"]
             d == IF age # 0 THEN a
                  ELSE IF ok THEN OnWatchStreamOpen([resumed EXCEPT !.state = "Open"])
                  ELSE Close(resumed, "error")
  <1>0. age \in c.requests /\ WorkerDoes(d) /\ allowed' = allowed /\ allowed \in BOOLEAN
    BY DEF TokenArrives, IInv, AppTypeOK
  <1>1. c \in Client /\ ~c.failed /\ Good(c, document, allowed)
    BY DEF IInv, Good, Core
  <1>2. /\ a \in Client /\ a.answers = c.answers /\ a.failed = c.failed
        /\ a.events = c.events /\ a.synced = c.synced /\ a.networkEnabled = c.networkEnabled
        /\ a.state = c.state /\ a.requests = c.requests \ {age} /\ a.idleTimer = c.idleTimer
        /\ a.sent = c.sent /\ a.outstanding = c.outstanding /\ a.current = c.current
        /\ a.changed = c.changed
        /\ a.update = c.update /\ a.listeners = c.listeners
        /\ a.remoteDocument = c.remoteDocument /\ a.since = c.since
        /\ a.watching = c.watching /\ a.told = c.told
        /\ a.updateTime = c.updateTime /\ a.contains = c.contains
        /\ a.rejoined = c.rejoined
        /\ a.online = c.online /\ a.timer = c.timer /\ a.failures = c.failures
    BY <1>1 DEF Client
  <1>3. age = 0 => resumed = a
    <2>1. age = 0 => c.state = "Starting"
      BY <1>0, <1>1 DEF Good, Core
    <2> HIDE DEF a
    <2> QED
      BY <1>1, <1>2, <2>1, AssertHolds
  <1>4. d = IF age # 0 THEN a ELSE IF ok THEN OnWatchStreamOpen(x) ELSE Close(a, "error")
    BY <1>3
  <1> HIDE DEF d, a, resumed
  <1>5. Good(a, document, allowed) /\ Grows(c, a)
    <2>1. IsActiveTarget(a) => IsActiveTarget(c)
      BY <1>2 DEF IsActiveTarget, IsListening
    <2>2. InOrder(a, allowed)
      BY <1>1, <1>2, <2>1, InOrderSame DEF Good
    <2> QED
      BY <1>1, <1>2, <2>2 DEF Good, Core, Honest, Empty, EventsSound, IsOpen, Tracker, Channel,
         Watched, ToldFresh, IsListening, Up, IsStarted, Grows
  <1> SUFFICES Good(d, document, allowed) /\ Grows(c, d)
    BY <1>0, WorkerStep
  <1>6. CASE age # 0
    BY <1>4, <1>5, <1>6
  <1>7. CASE age = 0 /\ ~ok
    <2>1. IsStarted(a)
      BY <1>0, <1>1, <1>2, <1>7 DEF Good, Core, IsStarted
    <2>2. d = Close(a, "error")
      BY <1>4, <1>7
    <2>3. Good(d, document, allowed) /\ Grows(a, d)
      BY <1>5, <2>1, <2>2, CloseGood
    <2> QED
      BY <1>5, <2>3, GrowsTwice
  <1>8. CASE age = 0 /\ ok
    <2>1. d = OnWatchStreamOpen(x)
      BY <1>4, <1>8
    <2>2. a.state = "Starting" /\ Empty(a) /\ 0 \notin a.requests
      BY <1>0, <1>1, <1>2, <1>5, <1>8 DEF Good, Core, IsOpen
    <2>3. /\ x \in Client /\ x.answers = a.answers /\ x.failed = a.failed
          /\ x.events = a.events /\ x.synced = a.synced /\ x.networkEnabled = a.networkEnabled
          /\ x.state = "Open" /\ x.requests = a.requests /\ x.idleTimer = a.idleTimer
          /\ x.sent = a.sent /\ x.outstanding = a.outstanding /\ x.current = a.current
          /\ x.changed = a.changed
          /\ x.update = a.update /\ x.listeners = a.listeners
          /\ x.remoteDocument = a.remoteDocument /\ x.since = a.since
          /\ x.watching = a.watching /\ x.told = a.told
          /\ x.updateTime = a.updateTime /\ x.contains = a.contains
          /\ x.rejoined = a.rejoined
          /\ x.online = a.online /\ x.timer = a.timer /\ x.failures = a.failures
      BY <1>2 DEF Client, States
    <2> HIDE DEF x
    <2>4. Core(x, document) /\ Tracker(x) /\ IsOpen(x) /\ Up(x)
      BY <1>5, <2>2, <2>3 DEF Good, Core, Honest, EventsSound, IsOpen, Tracker, Up, IsStarted, IsListening
    <2>5. /\ x.sent = <<>> /\ x.answers = <<>> /\ ~x.idleTimer /\ x.outstanding = 0
          /\ ~x.current /\ ~x.watching /\ Empty(x)
      BY <2>2, <2>3 DEF Empty
    <2>6. Grows(c, x)
      BY <1>2, <2>3 DEF Grows
    <2>7. Len(<<>>) = 0 /\ Cardinality(Responses(<<>>)) = 0
      BY ResponsesEmpty
    <2>8. CASE ~IsListening(x)
      <3>1. d = x
        BY <2>1, <2>8 DEF OnWatchStreamOpen
      <3>2. Channel(x, allowed)
        BY <2>5, <2>7, <2>8 DEF Channel
      <3> QED
        BY <2>4, <2>5, <2>6, <3>1, <3>2, InOrderEmpty DEF Good
    <2>9. CASE IsListening(x)
      <3>1. d = Send(x, "watch")
        BY <2>1, <2>9 DEF OnWatchStreamOpen
      <3>2. /\ Core(d, document) /\ ~d.idleTimer
            /\ d.sent = Append(x.sent, "watch") /\ d.outstanding = x.outstanding + 1
            /\ d.state = x.state /\ d.answers = x.answers
            /\ d.networkEnabled = x.networkEnabled /\ d.online = x.online
            /\ d.timer = x.timer /\ d.failures = x.failures /\ d.current = x.current
            /\ d.changed = x.changed
            /\ d.update = x.update
            /\ d.listeners = x.listeners /\ d.events = x.events
            /\ d.watching = x.watching /\ d.told = x.told
            /\ d.updateTime = x.updateTime /\ d.contains = x.contains
            /\ d.rejoined = x.rejoined
        BY <2>4, <3>1, SendIs DEF Requests
      <3>3. d.sent = <<"watch">> /\ d.outstanding = 1 /\ d.answers = <<>>
        BY <2>5, <3>2
      <3>4. Len(d.sent) = 1 /\ d.sent # <<>> /\ d.sent[1] = "watch"
        BY <3>3
      <3>5. d.outstanding = Len(d.sent) + Cardinality(Responses(d.answers))
        BY <2>7, <3>3, <3>4
      <3>6. Watched(d)
        BY <3>3, <3>4 DEF Watched
      <3>7. Channel(d, allowed)
        BY <2>5, <3>2, <3>3, <3>5, <3>6 DEF Channel
      <3>8. Tracker(d) /\ Up(d) /\ Grows(c, d)
        BY <2>4, <2>6, <3>2 DEF Tracker, Up, Grows, IsStarted, IsListening
      <3>9. InOrder(d, allowed)
        <4>1. ~IsActiveTarget(d)
          BY <3>3 DEF IsActiveTarget
        <4> QED
          BY <2>5, <3>2, <4>1, InOrderEmpty, InOrderSame
      <3> QED
        BY <3>2, <3>7, <3>8, <3>9 DEF Good
    <2> QED
      BY <2>8, <2>9
  <1> QED
    BY <1>6, <1>7, <1>8

(* The network or the server ends the stream. *)
LEMMA StreamBrokenStep ==
    ASSUME IInv, StreamBroken
    PROVE  IInv'
  <1>1. /\ IsStarted(client) /\ WorkerDoes(Close(client, "error"))
        /\ allowed' = allowed /\ allowed \in BOOLEAN
    BY DEF StreamBroken, IsOpen, IsStarted, IInv, AppTypeOK
  <1>2. Good(Close(client, "error"), document, allowed) /\ Grows(client, Close(client, "error"))
    BY <1>1, CloseGood DEF IInv
  <1> QED
    BY <1>1, <1>2, WorkerStep

(* The idle timer runs while nobody listens. *)
LEMMA IdleTimeoutStep ==
    ASSUME IInv, IdleTimeout
    PROVE  IInv'
  <1>1. /\ IsStarted(client) /\ WorkerDoes(Close(client, "ok")) /\ ~IsListening(client)
        /\ allowed' = allowed /\ allowed \in BOOLEAN
    BY DEF IdleTimeout, IsStarted, IInv, AppTypeOK, Good, Core, Empty, IsOpen, Channel
  <1>2. Good(Close(client, "ok"), document, allowed) /\ Grows(client, Close(client, "ok"))
    BY <1>1, CloseGood DEF IInv
  <1> QED
    BY <1>1, <1>2, WorkerStep

(* After the backoff the stream asks for a token. *)
LEMMA BackoffElapsedStep ==
    ASSUME IInv, BackoffElapsed
    PROVE  IInv'
  <1> DEFINE c == client
             i == [client EXCEPT !.state = "Initial"]
             d == Start(i)
  <1>0. c.state = "Backoff" /\ WorkerDoes(d) /\ allowed' = allowed /\ allowed \in BOOLEAN
    BY DEF BackoffElapsed, IInv, AppTypeOK
  <1>1. c \in Client /\ ~c.failed /\ Good(c, document, allowed)
    BY DEF IInv, Good, Core
  <1>2. /\ i \in Client /\ i.answers = c.answers /\ i.failed = c.failed
        /\ i.events = c.events /\ i.synced = c.synced /\ i.networkEnabled = c.networkEnabled
        /\ i.state = "Initial" /\ i.requests = c.requests /\ i.idleTimer = c.idleTimer
        /\ i.sent = c.sent /\ i.outstanding = c.outstanding /\ i.current = c.current
        /\ i.changed = c.changed
        /\ i.update = c.update /\ i.listeners = c.listeners
        /\ i.remoteDocument = c.remoteDocument /\ i.since = c.since
        /\ i.watching = c.watching /\ i.told = c.told
        /\ i.updateTime = c.updateTime /\ i.contains = c.contains
        /\ i.rejoined = c.rejoined
        /\ i.online = c.online /\ i.timer = c.timer /\ i.failures = c.failures
    BY <1>1 DEF Client, States
  <1> HIDE DEF i
  <1>3. Core(i, document) /\ ~IsStarted(i) /\ ~IsOpen(i) /\ Tracker(i) /\ Grows(c, i)
    BY <1>0, <1>1, <1>2 DEF Good, Core, Honest, Empty, EventsSound, IsOpen, IsStarted, Tracker,
       Grows
  <1>4. /\ Core(d, document) /\ Kept(i, d) /\ d.state \in {"Starting", "Backoff"}
        /\ d.online = i.online /\ d.timer = i.timer /\ d.failures = i.failures
    BY <1>3, StartKeeps
  <1> HIDE DEF d
  <1>5. Tracker(d) /\ Up(d) /\ Channel(d, allowed)
    BY <1>1, <1>2, <1>3, <1>4 DEF Good, Tracker, Up, Kept, IsStarted, Channel, IsOpen
  <1>6. Grows(c, d)
    BY <1>3, <1>4, GrowsStill
  <1>7. InOrder(d, allowed)
    BY <1>4, InOrderEmpty DEF Core, IsOpen
  <1> QED
    BY <1>0, <1>4, <1>5, <1>6, <1>7, WorkerStep DEF Good

(* The timer that runs out is one of the unknown state. *)
LEMMA OnlineStateTimeoutStep ==
    ASSUME IInv, OnlineStateTimeout
    PROVE  IInv'
  <1> DEFINE c == client
             a == [client EXCEPT !.timer = FALSE]
             d == SetAndBroadcast(a, "Offline")
  <1>1. c \in Client /\ ~c.failed /\ Good(c, document, allowed) /\ allowed \in BOOLEAN
    BY DEF IInv, Good, Core, AppTypeOK
  <1>2. WorkerDoes(d) /\ allowed' = allowed
    <2>1. c.online = "Unknown"
      BY <1>1 DEF OnlineStateTimeout, Good, Tracker
    <2>2. HardAssert(c, c.online = "Unknown") = c
      BY <1>1, <2>1, AssertHolds
    <2> QED
      BY <2>2 DEF OnlineStateTimeout
  <1>3. a \in Client /\ a.failed = c.failed /\ a.events = c.events /\ ~a.timer /\ Still(c, a)
    BY <1>1 DEF Client, Still, Kept
  <1> HIDE DEF a
  <1>4. Core(a, document)
    BY <1>1, <1>3, CoreSame DEF Good
  <1>5. Core(d, document) /\ Still(a, d) /\ d.online = "Offline" /\ d.timer = a.timer
    BY <1>4, SetAndBroadcastKeeps
  <1> HIDE DEF d
  <1>6. Still(c, d) /\ ~d.timer
    BY <1>3, <1>5, StillTwice
  <1>7. Tracker(d) /\ Up(d) /\ Channel(d, allowed) /\ Grows(c, d)
    BY <1>1, <1>5, <1>6, ChannelStill, UpStill DEF Good, Tracker, Still, Kept, Grows
  <1>8. InOrder(d, allowed)
    BY <1>1, <1>6, InOrderStill DEF Good, Still
  <1> QED
    BY <1>1, <1>2, <1>5, <1>7, <1>8, WorkerStep DEF Good

(* Another user, and so perhaps another answer of the server's. *)
LEMMA HandleCredentialChangeStep ==
    ASSUME IInv, HandleCredentialChange
    PROVE  IInv'
  <1>1. WorkerDoes(RestartNetwork(client)) /\ allowed' \in BOOLEAN
    BY DEF HandleCredentialChange
  <1>2. /\ Good(RestartNetwork(client), document, allowed')
        /\ Grows(client, RestartNetwork(client))
    BY RestartNetworkGood DEF IInv, Good
  <1> QED
    BY <1>1, <1>2, WorkerStep

(* The network comes or goes. *)
LEMMA ConnectivityChangedStep ==
    ASSUME IInv, NEW available \in BOOLEAN, ConnectivityChanged(available)
    PROVE  IInv'
  <1> DEFINE e == IF IsOpen(client) THEN Close(client, "error") ELSE client
             d == IF available THEN RestartNetwork(e) ELSE e
  <1>1. WorkerDoes(d) /\ allowed' = allowed /\ allowed \in BOOLEAN
    BY DEF ConnectivityChanged, IInv, AppTypeOK
  <1>2. Good(e, document, allowed) /\ Grows(client, e)
    <2>1. CASE IsOpen(client)
      BY <2>1, CloseGood DEF IInv, IsOpen, IsStarted
    <2>2. CASE ~IsOpen(client)
      BY <2>2 DEF IInv, Grows
    <2> QED
      BY <2>1, <2>2
  <1> HIDE DEF e
  <1>3. Good(d, document, allowed) /\ Grows(client, d)
    <2>1. CASE available
      <3>1. Good(RestartNetwork(e), document, allowed) /\ Grows(e, RestartNetwork(e))
        BY <1>2, RestartNetworkGood DEF Good
      <3> QED
        BY <1>2, <2>1, <3>1, GrowsTwice
    <2>2. CASE ~available
      BY <1>2, <2>2
    <2> QED
      BY <2>1, <2>2
  <1> HIDE DEF d
  <1> QED
    BY <1>1, <1>3, WorkerStep
-----------------------------------------------------------------------------
(* The server and the main queue *)

(* What the server sends is the last message of the stream. *)
LEMMA AnswersAppend ==
    ASSUME NEW m \in Seq(Messages), NEW e \in Messages
    PROVE  /\ Append(m, e) \in Seq(Messages)
           /\ \A k \in DOMAIN Append(m, e) :
                 (k \in DOMAIN m /\ Append(m, e)[k] = m[k]) \/ (k = Len(m) + 1 /\ Append(m, e)[k] = e)
           /\ Responses(m) \subseteq Responses(Append(m, e))
  BY Appended, ResponsesAppend

(* A message at the end keeps the pairs if a snapshot follows its CURRENT. *)
LEMMA PairedAppend ==
    ASSUME NEW c, c.answers \in Seq(Messages), Paired(c), NEW e \in Messages,
           NEW d, d.answers = Append(c.answers, e), d.update = c.update,
           IsActiveTarget(d) => IsActiveTarget(c),
           e.kind = "current" => e.version >= Absent,
           e.kind = "global" => /\ c.answers # <<>>
                                /\ c.answers[Len(c.answers)].kind = "current"
                                /\ c.answers[Len(c.answers)].version = e.version
    PROVE  Paired(d)
  <1> DEFINE m == c.answers
             n == Len(c.answers)
             t == d.answers
  <1>1. /\ n \in Nat /\ DOMAIN m = 1 .. n /\ DOMAIN t = 1 .. n + 1
        /\ \A k \in 1 .. n : t[k] = m[k]
        /\ t[n + 1] = e /\ (m # <<>> => n # 0)
    BY Appended, EmptySeq
  <1>2. \A k \in DOMAIN m :
            /\ m[k].kind = "current" => m[k].version >= Absent
            /\ m[k].kind = "global" =>
                  IF k = 1
                  THEN IsActiveTarget(c) => c.update > Absent \/ m[k].version = Absent
                  ELSE m[k - 1].kind = "current" /\ m[k - 1].version = m[k].version
    BY DEF Paired
  <1>3. e.kind = "global" => m # <<>> /\ m[n].kind = "current" /\ m[n].version = e.version
    OBVIOUS
  <1> SUFFICES ASSUME NEW k \in DOMAIN t
               PROVE  /\ t[k].kind = "current" => t[k].version >= Absent
                      /\ t[k].kind = "global" =>
                            IF k = 1
                            THEN IsActiveTarget(d) => d.update > Absent \/ t[k].version = Absent
                            ELSE t[k - 1].kind = "current" /\ t[k - 1].version = t[k].version
    BY DEF Paired
  <1> HIDE DEF m, n, t
  <1>4. CASE k \in 1 .. n
    <2>1. t[k] = m[k] /\ (k # 1 => t[k - 1] = m[k - 1])
      BY <1>1, <1>4
    <2> QED
      BY <1>1, <1>2, <1>4, <2>1
  <1>5. CASE k = n + 1
    <2>1. t[k] = e /\ (e.kind = "global" => k # 1 /\ t[k - 1] = m[n])
      BY <1>1, <1>3, <1>5
    <2> QED
      BY <1>3, <2>1
  <1> QED
    BY <1>1, <1>4, <1>5

(* A message at the end keeps the parts if it is a response, if it comes early
   while the server has not told, or if the server has. *)
LEMMA PartedAppend ==
    ASSUME NEW c, c.answers \in Seq(Messages), Parted(c), NEW e \in Messages,
           NEW d, d.answers = Append(c.answers, e),
           \/ e.kind \in {"added", "removed"}
           \/ e.kind = "early" /\ c.told = Unknown
           \/ e.kind # "early" /\ d.told # Unknown
    PROVE  Parted(d)
  <1> DEFINE m == c.answers
             n == Len(c.answers)
             t == d.answers
  <1>1. /\ n \in Nat /\ DOMAIN m = 1 .. n /\ DOMAIN t = 1 .. n + 1
        /\ \A k \in 1 .. n : t[k] = m[k]
        /\ t[n + 1] = e
    BY Appended
  <1>2. /\ Responses(m) \subseteq Responses(t) /\ Responses(m) \subseteq 1 .. n
        /\ e.kind \in {"added", "removed"} => n + 1 \in Responses(t)
    BY ResponsesAppend, ResponsesFinite
  <1>3. \A i \in DOMAIN m : m[i].kind = "current" =>
            /\ c.told = Unknown => \E j \in Responses(m) : i < j
            /\ \A k \in DOMAIN m : i < k /\ m[k].kind = "early" =>
                  \E j \in Responses(m) : i < j /\ j < k
    BY DEF Parted
  <1> SUFFICES ASSUME NEW i \in DOMAIN t, t[i].kind = "current"
               PROVE  /\ d.told = Unknown => \E j \in Responses(t) : i < j
                      /\ \A k \in DOMAIN t : i < k /\ t[k].kind = "early" =>
                            \E j \in Responses(t) : i < j /\ j < k
    BY DEF Parted
  <1> HIDE DEF m, n, t
  <1>4. CASE i = n + 1
    BY <1>1, <1>4
  <1>5. CASE i \in 1 .. n
    <2>1. m[i].kind = "current" /\ i \in DOMAIN m
      BY <1>1, <1>5
    <2>2. d.told = Unknown => \E j \in Responses(t) : i < j
      <3>1. CASE e.kind \in {"added", "removed"}
        BY <1>1, <1>2, <1>5, <3>1
      <3>2. CASE e.kind = "early" /\ c.told = Unknown
        BY <1>2, <1>3, <2>1, <3>2
      <3> QED
        BY <3>1, <3>2
    <2>3. ASSUME NEW k \in DOMAIN t, i < k, t[k].kind = "early"
          PROVE  \E j \in Responses(t) : i < j /\ j < k
      <3>1. CASE k \in 1 .. n
        BY <1>1, <1>2, <1>3, <2>1, <2>3, <3>1
      <3>2. CASE k = n + 1
        <4>1. c.told = Unknown
          BY <1>1, <2>3, <3>2
        <4>2. PICK j \in Responses(m) : i < j
          BY <1>3, <2>1, <4>1
        <4> QED
          BY <1>1, <1>2, <3>2, <4>2
      <3> QED
        BY <1>1, <3>1, <3>2
    <2> QED
      BY <2>2, <2>3
  <1> QED
    BY <1>1, <1>4, <1>5

(* The server's response to a request is counted with those under way. *)
LEMMA ServerListensStep ==
    ASSUME IInv, ServerListens
    PROVE  IInv'
  <1> DEFINE c == client
             watch == Head(client.sent) = "watch"
             reply == IF ~watch THEN "removed" ELSE IF allowed THEN "added" ELSE "denied"
             message == Message(reply, Unknown)
             watching == watch /\ allowed
             d == [client EXCEPT !.sent = Tail(@), !.watching = watching, !.told = Unknown,
                                 !.answers = Append(@, message)]
  <1>0. c.sent # <<>> /\ WorkerDoes(d) /\ allowed' = allowed /\ allowed \in BOOLEAN
    BY DEF ServerListens, IInv, AppTypeOK
  <1>1. /\ c \in Client /\ ~c.failed /\ Good(c, document, allowed)
        /\ c.sent \in Seq(Requests) /\ c.answers \in Seq(Messages) /\ c.outstanding \in Int
    BY DEF IInv, Good, Core, Client
  <1>2. /\ message \in Messages /\ message.kind = reply /\ watching \in BOOLEAN
        /\ reply \in {"added", "removed", "denied"}
        /\ reply = "denied" => ~allowed
    BY <1>0, Constants DEF Message, Messages, Kinds
  <1>3. /\ Tail(c.sent) \in Seq(Requests) /\ Len(c.sent) \in Nat \ {0}
        /\ Len(Tail(c.sent)) = Len(c.sent) - 1 /\ Head(c.sent) = c.sent[1]
        /\ \A k \in 1 .. Len(c.sent) - 1 : Tail(c.sent)[k] = c.sent[k + 1]
    BY <1>0, <1>1, Tails
  <1> HIDE DEF message
  <1>4. /\ Append(c.answers, message) \in Seq(Messages)
        /\ \A k \in DOMAIN Append(c.answers, message) :
              \/ k \in DOMAIN c.answers /\ Append(c.answers, message)[k] = c.answers[k]
              \/ k = Len(c.answers) + 1 /\ Append(c.answers, message)[k] = message
        /\ Cardinality(Responses(Append(c.answers, message))) =
              Cardinality(Responses(c.answers)) + IF reply = "denied" THEN 0 ELSE 1
        /\ reply # "denied" => Len(c.answers) + 1 \in Responses(Append(c.answers, message))
        /\ Cardinality(Responses(c.answers)) \in Nat
        /\ Len(c.answers) \in Nat /\ DOMAIN c.answers = 1 .. Len(c.answers)
    BY <1>1, <1>2, AnswersAppend, ResponsesAppend, ResponsesFinite, LenProperties
  <1> HIDE DEF watch, reply, watching
  <1>5. /\ d \in Client /\ d.answers = Append(c.answers, message) /\ d.failed = c.failed
        /\ d.events = c.events /\ d.synced = c.synced /\ d.networkEnabled = c.networkEnabled
        /\ d.state = c.state /\ d.requests = c.requests /\ d.idleTimer = c.idleTimer
        /\ d.sent = Tail(c.sent) /\ d.outstanding = c.outstanding /\ d.current = c.current
        /\ d.changed = c.changed
        /\ d.update = c.update /\ d.listeners = c.listeners
        /\ d.remoteDocument = c.remoteDocument /\ d.since = c.since /\ d.watching = watching
        /\ d.told = Unknown /\ d.updateTime = c.updateTime /\ d.contains = c.contains
        /\ d.rejoined = c.rejoined /\ d.online = c.online /\ d.timer = c.timer /\ d.failures = c.failures
    BY <1>1, <1>2, <1>3, <1>4, Constants DEF Client
  <1> HIDE DEF d
  <1>6. IsOpen(c) /\ IsOpen(d)
    BY <1>0, <1>1, <1>5 DEF Good, Core, Empty, IsOpen
  <1>7. Core(d, document) /\ Tracker(d) /\ Up(d) /\ Grows(c, d)
    BY <1>1, <1>5, <1>6 DEF Good, Core, Honest, EventsSound, IsOpen, Tracker, Up,
       IsListening, IsStarted, Grows
  <1>8. CASE allowed
    <2>1. reply # "denied"
      BY <1>2, <1>8
    <2>2. /\ \A k \in DOMAIN c.answers : c.answers[k].kind # "denied"
          /\ c.outstanding = Len(c.sent) + Cardinality(Responses(c.answers))
          /\ IsListening(c) => Watched(c)
      BY <1>1, <1>6, <1>8 DEF Good, Channel
    <2>3. \A k \in DOMAIN d.answers : d.answers[k].kind # "denied"
      BY <1>2, <1>4, <1>5, <2>1, <2>2
    <2>4. d.outstanding = Len(d.sent) + Cardinality(Responses(d.answers))
      <3> DEFINE n == Len(c.sent)
                 m == Cardinality(Responses(c.answers))
      <3>1. /\ n \in Nat \ {0} /\ m \in Nat /\ Len(d.sent) = n - 1
            /\ Cardinality(Responses(d.answers)) = m + 1 /\ d.outstanding = n + m
        BY <1>3, <1>4, <1>5, <2>1, <2>2
      <3> HIDE DEF n, m
      <3> QED
        BY <3>1
    <2>5. ToldFresh(d)
      <3>1. ASSUME NEW k \in DOMAIN d.answers, d.answers[k].kind = "current",
                   \A j \in Responses(d.answers) : j < k
            PROVE  FALSE
        <4>1. Len(c.answers) + 1 < k
          BY <1>4, <1>5, <2>1, <3>1
        <4>2. k \in DOMAIN c.answers \/ k = Len(c.answers) + 1
          BY <1>4, <1>5
        <4> QED
          BY <1>4, <4>1, <4>2
      <3> QED
        BY <3>1 DEF ToldFresh
    <2>6. ASSUME IsListening(c) PROVE Watched(d)
      <3>1. c.sent[Len(c.sent)] = "watch"
        BY <1>0, <2>2, <2>6 DEF Watched
      <3>2. CASE d.sent = <<>>
        <4>1. Len(c.sent) = 1
          <5> DEFINE n == Len(c.sent)
          <5>1. n \in Nat \ {0} /\ Len(d.sent) = n - 1
            BY <1>3, <1>5
          <5>2. Len(d.sent) = 0
            BY <3>2
          <5> HIDE DEF n
          <5>3. n = 1
            BY <5>1, <5>2
          <5> QED
            BY <5>3 DEF n
        <4>2. d.watching
          BY <1>3, <1>5, <1>8, <3>1, <4>1 DEF watching, watch
        <4> QED
          BY <1>5, <2>2, <2>5, <2>6, <3>2, <4>2 DEF Watched
      <3>3. CASE d.sent # <<>>
        <4>1. Len(c.sent) - 1 \in 1 .. Len(c.sent) - 1 /\ (Len(c.sent) - 1) + 1 = Len(c.sent)
          <5> DEFINE n == Len(c.sent)
          <5>1. n \in Nat \ {0} /\ Len(d.sent) = n - 1
            BY <1>3, <1>5
          <5>2. Len(d.sent) # 0
            BY <1>3, <1>5, <3>3, EmptySeq
          <5> HIDE DEF n
          <5>3. n - 1 \in 1 .. n - 1 /\ (n - 1) + 1 = n
            BY <5>1, <5>2
          <5> QED
            BY <5>3 DEF n
        <4>2. d.sent[Len(d.sent)] = "watch"
          BY <1>3, <1>5, <3>1, <4>1
        <4> QED
          BY <1>5, <2>2, <2>6, <3>3, <4>2 DEF Watched
      <3> QED
        BY <3>2, <3>3
    <2>7. Channel(d, allowed)
      BY <1>1, <1>5, <1>6, <1>8, <2>3, <2>4, <2>6 DEF Channel, IsListening, Good
    <2>8. InOrder(d, allowed)
      <3>1. ~IsActiveTarget(d)
        <4> DEFINE n == Len(d.sent)
                   m == Cardinality(Responses(c.answers))
        <4>1. n \in Nat /\ m \in Nat /\ d.outstanding = n + (m + 1)
          BY <1>3, <1>4, <1>5, <2>1, <2>4
        <4> HIDE DEF n, m
        <4>2. d.outstanding # 0
          BY <4>1
        <4> QED
          BY <4>2 DEF IsActiveTarget
      <3>2. Paired(c) /\ Parted(c)
        BY <1>1, <1>8 DEF Good, InOrder
      <3>3. Paired(d)
        BY <1>1, <1>2, <1>5, <2>1, <3>1, <3>2, PairedAppend
      <3>4. Parted(d)
        BY <1>1, <1>2, <1>5, <2>1, <3>2, PartedAppend
      <3> QED
        BY <3>1, <3>3, <3>4 DEF InOrder, Told
    <2> QED
      BY <1>0, <1>7, <2>7, <2>8, WorkerStep DEF Good
  <1>9. CASE ~allowed
    <2>1. ~d.watching
      BY <1>5, <1>9 DEF watching
    <2>2. \A k \in DOMAIN d.answers : d.answers[k].kind # "current"
      BY <1>1, <1>2, <1>4, <1>5, <1>6, <1>9 DEF Good, Channel
    <2>3. Channel(d, allowed)
      BY <1>1, <1>5, <1>6, <1>9, <2>1, <2>2 DEF Channel, IsListening, Good
    <2> QED
      BY <1>0, <1>7, <1>9, <2>3, WorkerStep DEF Good, InOrder
  <1> QED
    BY <1>0, <1>8, <1>9

(* The server tells the version it has, which is the newest. *)
LEMMA ServerTellsStep ==
    ASSUME IInv, ServerTells
    PROVE  IInv'
  <1> DEFINE c == client
             news == Message("current", document)
             mark == Message("global", document)
             first == Append(c.answers, news)
             both == Append(first, mark)
             d == [client EXCEPT !.told = document, !.answers = both]
  <1>1. /\ c \in Client /\ ~c.failed /\ Good(c, document, allowed) /\ allowed \in BOOLEAN
        /\ c.answers \in Seq(Messages) /\ document \in Versions /\ c.since <= document
        /\ c.since \in Nat /\ document \in Nat /\ document >= Absent /\ document # Unknown
    <2>1. document \in Absent .. MaxVersion
      BY DEF IInv, AppTypeOK
    <2>2. document \in Versions /\ document >= Absent /\ document # Unknown
      BY <2>1, FirestoreReadsAssumption DEF Versions, Unknown, Absent
    <2> QED
      BY <2>2, Constants DEF IInv, Good, Core, Client, AppTypeOK
  <1>2. /\ news \in Messages /\ mark \in Messages
        /\ news.kind = "current" /\ news.version = document
        /\ mark.kind = "global" /\ mark.version = document
    BY <1>1, Constants DEF Message, Messages, Kinds
  <1>3. c.watching /\ WorkerDoes(d) /\ allowed' = allowed
    <2>1. c.answers \o <<news, mark>> = both
      <3> HIDE DEF news, mark
      <3>1. <<news, mark>> = Append(<<news>>, mark)
        OBVIOUS
      <3>2. c.answers \o <<news>> = first /\ first \in Seq(Messages)
        BY <1>1, <1>2, AppendIsConcat, AppendProperties
      <3>3. /\ <<news, mark>> \in Seq(Messages) /\ Len(<<news, mark>>) = 2
            /\ <<news, mark>>[1] = news /\ <<news, mark>>[2] = mark
        BY <1>2
      <3>4. /\ c.answers \o <<news, mark>> \in Seq(Messages)
            /\ Len(c.answers \o <<news, mark>>) = Len(c.answers) + 2
            /\ \A i \in 1 .. Len(c.answers) + 2 : (c.answers \o <<news, mark>>)[i] =
                  IF i <= Len(c.answers) THEN c.answers[i] ELSE <<news, mark>>[i - Len(c.answers)]
        BY <1>1, <3>3, ConcatProperties
      <3>5. /\ both \in Seq(Messages) /\ Len(both) = Len(c.answers) + 2
            /\ Len(c.answers) \in Nat
            /\ \A i \in 1 .. Len(c.answers) : both[i] = c.answers[i]
            /\ both[Len(c.answers) + 1] = news /\ both[Len(c.answers) + 2] = mark
        <4>1. /\ Len(first) = Len(c.answers) + 1 /\ first[Len(c.answers) + 1] = news
              /\ \A i \in 1 .. Len(c.answers) : first[i] = c.answers[i]
              /\ Len(c.answers) \in Nat
          BY <1>1, <1>2, Appended
        <4> HIDE DEF first
        <4>2. /\ both \in Seq(Messages) /\ Len(both) = Len(first) + 1
              /\ \A i \in 1 .. Len(first) : both[i] = first[i]
              /\ both[Len(first) + 1] = mark
          BY <1>2, <3>2, Appended
        <4> HIDE DEF both
        <4> QED
          BY <4>1, <4>2
      <3> HIDE DEF both
      <3>6. \A i \in 1 .. Len(c.answers) + 2 :
               i <= Len(c.answers) \/ i = Len(c.answers) + 1 \/ i = Len(c.answers) + 2
        BY <3>5
      <3>7. \A i \in 1 .. Len(both) : both[i] = (c.answers \o <<news, mark>>)[i]
        BY <3>3, <3>4, <3>5, <3>6
      <3> QED
        BY <3>4, <3>5, <3>7, SeqEqual
    <2> QED
      BY <2>1 DEF ServerTells
  <1> HIDE DEF news, mark
  <1>4. /\ first \in Seq(Messages)
        /\ \A k \in DOMAIN first : \/ k \in DOMAIN c.answers /\ first[k] = c.answers[k]
                                   \/ first[k] = news
        /\ Responses(first) = Responses(c.answers)
        /\ first # <<>> /\ first[Len(first)] = news
    BY <1>1, <1>2, AnswersAppend, ResponsesAppend, Appended
  <1> HIDE DEF first
  <1>5. /\ both \in Seq(Messages)
        /\ \A k \in DOMAIN both : \/ k \in DOMAIN first /\ both[k] = first[k]
                                  \/ both[k] = mark
        /\ Responses(both) = Responses(first)
    BY <1>2, <1>4, AnswersAppend, ResponsesAppend
  <1> HIDE DEF both
  <1>6. /\ d \in Client /\ d.answers = both /\ d.failed = c.failed
        /\ d.events = c.events /\ d.synced = c.synced /\ d.networkEnabled = c.networkEnabled
        /\ d.state = c.state /\ d.requests = c.requests /\ d.idleTimer = c.idleTimer
        /\ d.sent = c.sent /\ d.outstanding = c.outstanding /\ d.current = c.current
        /\ d.changed = c.changed
        /\ d.update = c.update /\ d.listeners = c.listeners
        /\ d.remoteDocument = c.remoteDocument /\ d.since = c.since
        /\ d.watching = c.watching /\ d.told = document
        /\ d.updateTime = c.updateTime /\ d.contains = c.contains
        /\ d.rejoined = c.rejoined
        /\ d.online = c.online /\ d.timer = c.timer /\ d.failures = c.failures
    BY <1>1, <1>5 DEF Client
  <1> HIDE DEF d
  <1>7. IsOpen(c) /\ allowed
    BY <1>1, <1>3 DEF Good, Core, Empty, Channel
  <1>8. Core(d, document) /\ Tracker(d) /\ Up(d) /\ Grows(c, d)
    BY <1>1, <1>6, <1>7 DEF Good, Core, Honest, EventsSound, IsOpen, Tracker, Up,
       IsListening, IsStarted, Grows
  <1>9. ToldFresh(c) => ToldFresh(d)
    BY <1>1, <1>2, <1>4, <1>5, <1>6 DEF ToldFresh
  <1>10. Watched(c) => Watched(d)
    BY <1>6, <1>9 DEF Watched
  <1>11. \A k \in DOMAIN d.answers : \/ k \in DOMAIN c.answers /\ d.answers[k] = c.answers[k]
                                     \/ d.answers[k] = news
                                     \/ d.answers[k] = mark
    BY <1>4, <1>5, <1>6
  <1>12. Channel(d, allowed)
    BY <1>1, <1>2, <1>4, <1>5, <1>6, <1>7, <1>10, <1>11 DEF Good, Channel, IsListening, IsOpen
  <1>13. InOrder(d, allowed)
    <2> DEFINE f == [client EXCEPT !.told = document, !.answers = first]
    <2>1. /\ f.answers = first /\ f.told = document /\ f.update = c.update
          /\ f.outstanding = c.outstanding /\ f.listeners = c.listeners
      BY <1>1 DEF Client
    <2>2. /\ IsActiveTarget(f) <=> IsActiveTarget(c)
          /\ IsActiveTarget(d) <=> IsActiveTarget(c)
      BY <1>6, <2>1 DEF IsActiveTarget, IsListening
    <2> HIDE DEF f
    <2>3. Paired(c) /\ Parted(c) /\ Told(c)
      BY <1>1, <1>7 DEF Good, InOrder
    <2>4. Paired(f) /\ Parted(f)
      BY <1>1, <1>2, <2>1, <2>2, <2>3, PairedAppend, PartedAppend DEF first
    <2>5. Paired(d) /\ Parted(d)
      BY <1>1, <1>2, <1>4, <1>6, <2>1, <2>2, <2>4, PairedAppend, PartedAppend DEF both
    <2>6. Told(d)
      BY <1>1, <1>2, <1>6, <1>11, <2>2, <2>3 DEF Told
    <2> QED
      BY <2>5, <2>6 DEF InOrder
  <1> QED
    BY <1>1, <1>3, <1>8, <1>12, <1>13, WorkerStep DEF Good

(* A snapshot that comes early follows no CURRENT of the listen it comes for. *)
LEMMA ServerSnapshotStep ==
    ASSUME IInv, ServerSnapshot
    PROVE  IInv'
  <1> DEFINE c == client
             message == Message("early", document)
             d == [client EXCEPT !.answers = Append(@, message)]
  <1>1. /\ c \in Client /\ ~c.failed /\ Good(c, document, allowed) /\ allowed \in BOOLEAN
        /\ c.answers \in Seq(Messages) /\ document \in Versions
    <2>1. document \in Versions
      BY FirestoreReadsAssumption DEF IInv, AppTypeOK, Versions, Unknown, Absent
    <2> QED
      BY <2>1 DEF IInv, Good, Core, Client, AppTypeOK
  <1>2. message \in Messages /\ message.kind = "early"
    BY <1>1 DEF Message, Messages, Kinds
  <1>3. c.watching /\ c.told = Unknown /\ WorkerDoes(d) /\ allowed' = allowed
    BY DEF ServerSnapshot
  <1> HIDE DEF message
  <1>4. /\ Append(c.answers, message) \in Seq(Messages)
        /\ \A k \in DOMAIN Append(c.answers, message) :
              \/ k \in DOMAIN c.answers /\ Append(c.answers, message)[k] = c.answers[k]
              \/ Append(c.answers, message)[k] = message
        /\ Responses(Append(c.answers, message)) = Responses(c.answers)
    BY <1>1, <1>2, AnswersAppend, ResponsesAppend
  <1>5. /\ d \in Client /\ d.answers = Append(c.answers, message) /\ d.failed = c.failed
        /\ d.events = c.events /\ d.synced = c.synced /\ d.networkEnabled = c.networkEnabled
        /\ d.state = c.state /\ d.requests = c.requests /\ d.idleTimer = c.idleTimer
        /\ d.sent = c.sent /\ d.outstanding = c.outstanding /\ d.current = c.current
        /\ d.changed = c.changed
        /\ d.update = c.update /\ d.listeners = c.listeners
        /\ d.remoteDocument = c.remoteDocument /\ d.since = c.since
        /\ d.watching = c.watching /\ d.told = c.told
        /\ d.updateTime = c.updateTime /\ d.contains = c.contains
        /\ d.rejoined = c.rejoined
        /\ d.online = c.online /\ d.timer = c.timer /\ d.failures = c.failures
    BY <1>1, <1>4 DEF Client
  <1> HIDE DEF d
  <1>6. IsOpen(c) /\ allowed
    BY <1>1, <1>3 DEF Good, Core, Empty, Channel
  <1>7. Core(d, document) /\ Tracker(d) /\ Up(d) /\ Grows(c, d)
    BY <1>1, <1>5, <1>6 DEF Good, Core, Honest, EventsSound, IsOpen, Tracker, Up,
       IsListening, IsStarted, Grows
  <1>8. Watched(c) => Watched(d)
    <2>1. ToldFresh(c) => ToldFresh(d)
      BY <1>2, <1>4, <1>5 DEF ToldFresh
    <2> QED
      BY <1>5, <2>1 DEF Watched
  <1>9. Channel(d, allowed)
    BY <1>1, <1>2, <1>4, <1>5, <1>6, <1>8 DEF Good, Channel, IsListening, IsOpen
  <1>10. InOrder(d, allowed)
    <2>1. IsActiveTarget(d) <=> IsActiveTarget(c)
      BY <1>5 DEF IsActiveTarget, IsListening
    <2>2. Paired(c) /\ Parted(c) /\ Told(c)
      BY <1>1, <1>6 DEF Good, InOrder
    <2>3. Paired(d) /\ Parted(d)
      BY <1>1, <1>2, <1>3, <1>5, <2>1, <2>2, PairedAppend, PartedAppend
    <2>4. Told(d)
      BY <1>3, <1>5, <2>1, <2>2 DEF Told
    <2> QED
      BY <2>3, <2>4 DEF InOrder
  <1> QED
    BY <1>1, <1>3, <1>7, <1>9, <1>10, WorkerStep DEF Good

(* A newer document is no older than any view. *)
LEMMA DocumentChangesStep ==
    ASSUME IInv, DocumentChanges
    PROVE  IInv'
  <1>1. /\ client' = client /\ called' = called /\ tasks' = tasks /\ muted' = muted
        /\ answers' = answers /\ allowed' = allowed
        /\ document < MaxVersion /\ document' = document + 1
    BY DEF DocumentChanges
  <1>2. /\ document \in Absent .. MaxVersion /\ MaxVersion \in Nat
        /\ client.since \in 0 .. MaxVersion
    BY Constants DEF IInv, AppTypeOK, Versions, Unknown, Good, Core, Client
  <1>3. document' \in Absent .. MaxVersion
    BY <1>1, <1>2 DEF Absent
  <1>4. AppTypeOK'
    BY <1>1, <1>3 DEF IInv, AppTypeOK
  <1>5. client.since <= document'
    <2>1. client.since <= document
      BY DEF IInv, Good, Core
    <2> QED
      BY <1>1, <1>2, <2>1 DEF Absent
  <1>6. Good(client, document', allowed)
    BY <1>5 DEF IInv, Good, Core
  <1>7. \A r \in Reads : OnceAdded(r)' /\ OnceAnswered(r)'
    BY <1>1 DEF IInv, OnceAdded, OnceAnswered
  <1> QED
    BY <1>1, <1>4, <1>6, <1>7 DEF IInv

(* A read is asked for once, before anybody has heard of it. *)
LEMMA getDocumentStep ==
    ASSUME IInv, NEW r \in Reads, getDocument(r)
    PROVE  IInv'
  <1> DEFINE Tasks == [op : {"add", "remove"}, read : Reads]
  <1>1. /\ r \notin called /\ called' = called \cup {r} /\ tasks' = Append(tasks, AddTask(r))
        /\ client' = client /\ muted' = muted /\ answers' = answers
        /\ document' = document /\ allowed' = allowed
    BY DEF getDocument, AddTask
  <1>2. tasks \in Seq(Tasks) /\ AddTask(r) \in Tasks
    BY DEF IInv, AppTypeOK, AddTask
  <1> HIDE DEF Tasks
  <1>3. /\ tasks' \in Seq(Tasks) /\ Len(tasks) \in Nat /\ DOMAIN tasks = 1 .. Len(tasks)
        /\ DOMAIN tasks' = 1 .. Len(tasks) + 1
        /\ \A k \in 1 .. Len(tasks) : tasks'[k] = tasks[k]
        /\ tasks'[Len(tasks) + 1] = AddTask(r)
    BY <1>1, <1>2, Appended
  <1>4. AppTypeOK'
    BY <1>1, <1>3 DEF IInv, AppTypeOK, Tasks
  <1>5. Good(client', document', allowed')
    BY <1>1 DEF IInv
  <1>6. ASSUME NEW s \in Reads PROVE OnceAdded(s)' /\ OnceAnswered(s)'
    <2>1. OnceAdded(s) /\ OnceAnswered(s)
      BY DEF IInv
    <2>2. OnceAnswered(s)'
      BY <1>1, <2>1 DEF OnceAnswered
    <2>3. CASE s = r
      <3>1. /\ ~(r \in client.listeners \/ client.events[r] # <<>> \/ answers[r] # <<>> \/ r \in muted)
            /\ \A k \in DOMAIN tasks : tasks[k] # AddTask(r)
        BY <1>1, <2>1, <2>3 DEF OnceAdded
      <3>2. \A k \in DOMAIN tasks' : tasks'[k] = AddTask(r) => k = Len(tasks) + 1
        BY <1>3, <3>1
      <3>3. OnceAdded(r)'
        BY <1>1, <3>1, <3>2 DEF OnceAdded
      <3> QED
        BY <2>2, <2>3, <3>3
    <2>4. CASE s # r
      <3>1. AddTask(s) # AddTask(r)
        BY <2>4 DEF AddTask
      <3>2. \A k \in DOMAIN tasks' : tasks'[k] = AddTask(s) => k \in DOMAIN tasks /\ tasks[k] = AddTask(s)
        BY <1>3, <3>1
      <3>3. OnceAdded(s)'
        BY <1>1, <2>1, <3>2 DEF OnceAdded
      <3> QED
        BY <2>2, <3>3
    <2> QED
      BY <2>3, <2>4
  <1> QED
    BY <1>4, <1>5, <1>6 DEF IInv

(* The first snapshot mutes its listener; an error was the last event anyway. *)
LEMMA OnEventStep ==
    ASSUME IInv, NEW r \in Reads, OnEvent(r)
    PROVE  IInv'
  <1> DEFINE c == client
             q == client.events[r]
             event == Head(client.events[r])
             d == [client EXCEPT !.events[r] = Tail(@)]
             Tasks == [op : {"add", "remove"}, read : Reads]
             remove == [op |-> "remove", read |-> r]
  <1>1. /\ q # <<>> /\ client' = d /\ called' = called
        /\ document' = document /\ allowed' = allowed
        /\ \/ r \in muted /\ answers' = answers /\ tasks' = tasks /\ muted' = muted
           \/ /\ r \notin muted
              /\ answers' = [answers EXCEPT ![r] = Append(@, Answer(event))]
              /\ \/ event \in Errors /\ tasks' = tasks /\ muted' = muted
                 \/ event \notin Errors /\ tasks' = Append(tasks, remove) /\ muted' = muted \cup {r}
    BY DEF OnEvent
  <1>2. /\ c \in Client /\ Good(c, document, allowed) /\ c.events \in [Reads -> Seq(Snapshot \cup Errors)]
        /\ q \in Seq(Snapshot \cup Errors)
        /\ OnceAdded(r) /\ OnceAnswered(r)
        /\ AppTypeOK /\ tasks \in Seq(Tasks) /\ answers \in [Reads -> Seq(Results)]
    BY DEF IInv, Good, Core, Client, AppTypeOK
  <1>3. /\ Len(q) \in Nat \ {0} /\ event = q[1] /\ event \in Snapshot \cup Errors
        /\ Tail(q) \in Seq(Snapshot \cup Errors) /\ Len(Tail(q)) = Len(q) - 1
        /\ DOMAIN Tail(q) = 1 .. Len(q) - 1 /\ DOMAIN q = 1 .. Len(q)
        /\ \A k \in 1 .. Len(q) - 1 : Tail(q)[k] = q[k + 1]
    BY <1>1, <1>2, Tails
  <1>4. \A k \in DOMAIN q : IF q[k] \in Errors THEN k = Len(q) /\ r \notin c.listeners
                            ELSE ~c.rejoined /\ ~q[k].fromCache => q[k].version >= q[k].since
    BY <1>2 DEF Good, Core, EventsSound
  <1>5. event \in Errors => Tail(q) = <<>> /\ r \notin c.listeners
    <2> HIDE DEF q, event
    <2>1. 1 \in DOMAIN q
      BY <1>3
    <2>3. q[1] \in Errors => 1 = Len(q) /\ r \notin c.listeners
      BY <1>4, <2>1
    <2>4. event \in Errors => Len(q) = 1 /\ r \notin c.listeners
      BY <1>3, <2>3
    <2>2. Len(q) = 1 => Tail(q) = <<>>
      BY <1>3, EmptySeq
    <2> QED
      BY <2>2, <2>4
  <1>6. event \notin Errors /\ ~c.rejoined /\ ~event.fromCache => event.version >= event.since
    BY <1>3, <1>4
  <1>7. /\ d \in Client /\ d.events = [c.events EXCEPT ![r] = Tail(q)]
        /\ d.answers = c.answers /\ d.failed = c.failed
        /\ d.synced = c.synced /\ d.networkEnabled = c.networkEnabled
        /\ d.state = c.state /\ d.requests = c.requests /\ d.idleTimer = c.idleTimer
        /\ d.sent = c.sent /\ d.outstanding = c.outstanding /\ d.current = c.current
        /\ d.changed = c.changed
        /\ d.update = c.update /\ d.listeners = c.listeners
        /\ d.remoteDocument = c.remoteDocument /\ d.since = c.since
        /\ d.watching = c.watching /\ d.told = c.told
        /\ d.updateTime = c.updateTime /\ d.contains = c.contains
        /\ d.rejoined = c.rejoined
        /\ d.online = c.online /\ d.timer = c.timer /\ d.failures = c.failures
    BY <1>2, <1>3 DEF Client
  <1>8. d.events[r] = Tail(q) /\ \A s \in Reads : s # r => d.events[s] = c.events[s]
    BY <1>2, <1>7
  <1> HIDE DEF d
  <1>9. EventsSound(d)
    <2>1. ASSUME NEW s \in Reads, NEW k \in DOMAIN d.events[s]
          PROVE  LET e == d.events[s][k] IN
                 IF e \in Errors THEN k = Len(d.events[s]) /\ s \notin d.listeners
                 ELSE ~d.rejoined /\ ~e.fromCache => e.version >= e.since
      <3>1. CASE s = r
        <4>1. k \in 1 .. Len(q) - 1 /\ d.events[s][k] = q[k + 1] /\ k + 1 \in DOMAIN q
              /\ Len(d.events[s]) = Len(q) - 1
          <5>1. d.events[s] = Tail(q)
            BY <1>8, <3>1
          <5> HIDE DEF q, event
          <5>2. k \in 1 .. Len(q) - 1
            BY <1>3, <2>1, <5>1
          <5>3. k + 1 \in DOMAIN q
            BY <1>3, <5>2
          <5> QED
            BY <1>3, <5>1, <5>2, <5>3
        <4>2. k + 1 = Len(q) => k = Len(q) - 1
          BY <1>3, <4>1
        <4> QED
          BY <1>4, <1>7, <3>1, <4>1, <4>2
      <3>2. CASE s # r
        BY <1>2, <1>7, <1>8, <2>1, <3>2 DEF Good, Core, EventsSound
      <3> QED
        BY <3>1, <3>2
    <2> QED
      BY <2>1 DEF EventsSound
  <1>10. Good(d, document, allowed)
    <2>1. IsActiveTarget(d) => IsActiveTarget(c)
      BY <1>7 DEF IsActiveTarget, IsListening
    <2>2. InOrder(d, allowed)
      BY <1>2, <1>7, <2>1, InOrderSame DEF Good
    <2> QED
      BY <1>2, <1>7, <1>9, <2>2 DEF Good, Core, Honest, Empty, IsOpen, Tracker, Channel, Watched,
         ToldFresh, IsListening, Up, IsStarted
  <1> HIDE DEF q, event, Tasks, c
  <1>11. Answer(event) \in Results
    <2>1. CASE event \in Errors
      BY <2>1 DEF Answer, Results
    <2>2. CASE event \notin Errors
      <3>1. event \in Snapshot /\ event.version \in Nat /\ Absent \in Nat
        BY <1>3, <2>2, Constants DEF Snapshot
      <3>2. CASE event.fromCache /\ event.version <= Absent
        BY <2>2, <3>2 DEF Answer, Results, Errors
      <3>3. CASE ~(event.fromCache /\ event.version <= Absent)
        <4>1. event.fromCache => event.version > Absent
          BY <3>1, <3>3
        <4> QED
          BY <2>2, <3>1, <3>3, <4>1 DEF Answer, Results
      <3> QED
        BY <3>2, <3>3
    <2> QED
      BY <2>1, <2>2
  <1>12. remove \in Tasks
    BY DEF Tasks
  <1>13. /\ tasks' \in Seq(Tasks)
         /\ \A k \in DOMAIN tasks' : \/ k \in DOMAIN tasks /\ tasks'[k] = tasks[k]
                                     \/ tasks'[k] = remove
    <2>1. /\ Append(tasks, remove) \in Seq(Tasks)
          /\ \A k \in DOMAIN Append(tasks, remove) :
                \/ k \in DOMAIN tasks /\ Append(tasks, remove)[k] = tasks[k]
                \/ Append(tasks, remove)[k] = remove
      BY <1>2, <1>12, Appended
    <2> QED
      BY <1>1, <1>2, <2>1
  <1>14. answers' \in [Reads -> Seq(Results)] /\ \A s \in Reads : s # r => answers'[s] = answers[s]
    <2>1. Append(answers[r], Answer(event)) \in Seq(Results)
      BY <1>2, <1>11, AppendProperties
    <2> QED
      BY <1>1, <1>2, <2>1
  <1>15. muted' \subseteq Reads /\ \A s \in Reads : s # r => (s \in muted' <=> s \in muted)
    BY <1>1, <1>2 DEF AppTypeOK
  <1>16. AppTypeOK'
    BY <1>1, <1>2, <1>13, <1>14, <1>15 DEF AppTypeOK, Tasks
  <1>17. ASSUME NEW s \in Reads PROVE OnceAdded(s)'
    <2>1. OnceAdded(s)
      BY DEF IInv
    <2>2. \A k \in DOMAIN tasks' : tasks'[k] = AddTask(s) => k \in DOMAIN tasks /\ tasks[k] = AddTask(s)
      <3>1. remove # AddTask(s)
        BY DEF AddTask
      <3> HIDE DEF remove
      <3> QED
        BY <1>13, <3>1
    <2>3. CASE s = r
      <3>1. r \in called /\ \A k \in DOMAIN tasks : tasks[k] # AddTask(r)
        BY <1>1, <1>2 DEF OnceAdded, q
      <3> QED
        BY <1>1, <2>2, <2>3, <3>1 DEF OnceAdded
    <2>4. CASE s # r
      <3>1. client'.listeners = client.listeners /\ client'.events[s] = client.events[s]
            /\ answers'[s] = answers[s] /\ (s \in muted' <=> s \in muted) /\ called' = called
        BY <1>1, <1>7, <1>8, <1>14, <1>15, <2>4 DEF c
      <3> QED
        BY <2>1, <2>2, <3>1 DEF OnceAdded
    <2> QED
      BY <2>3, <2>4
  <1>18. ASSUME NEW s \in Reads PROVE OnceAnswered(s)'
    <2>1. OnceAnswered(s)
      BY DEF IInv
    <2>2. CASE s # r
      <3>1. client'.listeners = client.listeners /\ client'.events[s] = client.events[s]
            /\ answers'[s] = answers[s] /\ (s \in muted' <=> s \in muted)
            /\ client'.rejoined = client.rejoined
        BY <1>1, <1>7, <1>8, <1>14, <1>15, <2>2 DEF c
      <3> QED
        BY <2>1, <3>1 DEF OnceAnswered
    <2>3. CASE s = r /\ r \in muted
      <3>1. answers' = answers /\ muted' = muted /\ client'.rejoined = client.rejoined
        BY <1>1, <1>7, <2>3 DEF c
      <3> QED
        BY <2>1, <2>3, <3>1 DEF OnceAnswered
    <2>4. CASE s = r /\ r \notin muted
      <3>1. answers[r] = <<>>
        BY <1>1, <1>2, <2>4 DEF OnceAnswered, q
      <3>2. answers'[r] = <<Answer(event)>>
        BY <1>1, <1>2, <2>4, <3>1
      <3>3. /\ Len(answers'[r]) = 1
            /\ \A k \in DOMAIN answers'[r] : answers'[r][k] = Answer(event)
        BY <3>2
      <3>4. Answer(event) \notin Errors /\ ~client'.rejoined /\ ~Answer(event).fromCache
               => Answer(event).version >= Answer(event).since
        <4>1. CASE event \notin Errors /\ event.fromCache /\ event.version <= Absent
          BY <4>1 DEF Answer, Errors
        <4>2. CASE ~(event \notin Errors /\ event.fromCache /\ event.version <= Absent)
          BY <1>1, <1>6, <1>7, <4>2 DEF Answer
        <4> QED
          BY <4>1, <4>2
      <3>5. r \notin muted' => client'.events[r] = <<>> /\ r \notin client'.listeners
        BY <1>1, <1>5, <1>7, <1>8, <2>4 DEF c
      <3> QED
        BY <2>4, <3>3, <3>4, <3>5 DEF OnceAnswered
    <2> QED
      BY <2>2, <2>3, <2>4
  <1> QED
    BY <1>1, <1>10, <1>16, <1>17, <1>18 DEF IInv

(* A read's listener is added once, before the read is answered. *)
LEMMA RunTaskStep ==
    ASSUME IInv, RunTask
    PROVE  IInv'
  <1> DEFINE task == Head(tasks)
             r == task.read
             Tasks == [op : {"add", "remove"}, read : Reads]
  <1>1. /\ tasks # <<>> /\ tasks' = Tail(tasks) /\ called' = called /\ muted' = muted
        /\ answers' = answers /\ document' = document /\ allowed' = allowed
        /\ client' = IF task.op = "add" THEN AddQueryListener(client, r)
                     ELSE RemoveQueryListener(client, r)
    BY DEF RunTask
  <1>2. tasks \in Seq(Tasks) /\ document \in Versions /\ Good(client, document, allowed)
    BY FirestoreReadsAssumption DEF IInv, AppTypeOK, Versions, Unknown, Absent
  <1>3. /\ task \in Tasks /\ tasks' \in Seq(Tasks)
        /\ 1 \in DOMAIN tasks /\ task = tasks[1]
        /\ \A k \in DOMAIN tasks' : k \in Nat /\ k + 1 \in DOMAIN tasks /\ tasks'[k] = tasks[k + 1]
                                    /\ k + 1 # 1
    <2>1. /\ task \in Tasks /\ Tail(tasks) \in Seq(Tasks) /\ task = tasks[1]
          /\ DOMAIN tasks = 1 .. Len(tasks) /\ Len(tasks) \in Nat \ {0}
          /\ DOMAIN Tail(tasks) = 1 .. Len(tasks) - 1
          /\ \A k \in 1 .. Len(tasks) - 1 : Tail(tasks)[k] = tasks[k + 1]
      BY <1>1, <1>2, Tails
    <2> QED
      BY <1>1, <2>1
  <1>4. r \in Reads /\ (task.op = "add" => task = AddTask(r))
    BY <1>3 DEF AddTask
  <1>5. AppTypeOK'
    BY <1>1, <1>3 DEF IInv, AppTypeOK
  <1> HIDE DEF task, r, Tasks
  <1>6. CASE task.op # "add"
    <2>1. client' = RemoveQueryListener(client, r)
      BY <1>1, <1>6
    <2>2. Good(client', document, allowed) /\ Grows(client, client')
      BY <1>2, <1>4, <2>1, RemoveQueryListenerGood
    <2>3. ASSUME NEW s \in Reads PROVE OnceAdded(s)' /\ OnceAnswered(s)'
      <3>1. OnceAdded(s) /\ OnceAnswered(s)
        BY DEF IInv
      <3>2. /\ s \in client'.listeners => s \in client.listeners
            /\ s \notin client.listeners => client'.events[s] = client.events[s]
            /\ client.rejoined => client'.rejoined
        BY <2>2 DEF Grows
      <3>3. /\ \A k \in DOMAIN tasks' : tasks'[k] = AddTask(s) => tasks[k + 1] = AddTask(s)
            /\ \A k, j \in DOMAIN tasks' : k + 1 = j + 1 => k = j
        BY <1>3
      <3>4. OnceAdded(s)'
        BY <1>1, <1>3, <3>1, <3>2, <3>3 DEF OnceAdded
      <3>5. OnceAnswered(s)'
        BY <1>1, <3>1, <3>2 DEF OnceAnswered
      <3> QED
        BY <3>4, <3>5
    <2> QED
      BY <1>1, <1>5, <2>2, <2>3 DEF IInv
  <1>7. CASE task.op = "add"
    <2>1. client' = AddQueryListener(client, r) /\ tasks[1] = AddTask(r)
      BY <1>1, <1>3, <1>4, <1>7
    <2>2. /\ OnceAdded(r)
          /\ r \notin client.listeners /\ client.events[r] = <<>> /\ answers[r] = <<>>
          /\ r \notin muted /\ r \in called
      BY <1>3, <1>4, <2>1 DEF IInv, OnceAdded
    <2>3. /\ Good(client', document, allowed)
          /\ client'.listeners = client.listeners \cup {r}
          /\ client'.rejoined = client.rejoined
          /\ \A s \in Reads \ (client.listeners \cup {r}) : client'.events[s] = client.events[s]
      BY <1>2, <1>4, <2>1, <2>2, AddQueryListenerGood
    <2>4. ASSUME NEW s \in Reads PROVE OnceAdded(s)' /\ OnceAnswered(s)'
      <3>1. OnceAdded(s) /\ OnceAnswered(s)
        BY DEF IInv
      <3>2. CASE s = r
        <4>1. /\ tasks[1] = AddTask(s) /\ s \notin client.listeners
              /\ client.events[s] = <<>> /\ answers[s] = <<>>
              /\ s \notin muted /\ s \in called
          BY <2>1, <2>2, <3>2
        <4>2. \A k \in DOMAIN tasks' : tasks'[k] # AddTask(s)
          BY <1>3, <3>1, <4>1 DEF OnceAdded
        <4>3. OnceAdded(s)'
          BY <1>1, <4>1, <4>2 DEF OnceAdded
        <4>4. OnceAnswered(s)'
          BY <1>1, <4>1 DEF OnceAnswered
        <4> QED
          BY <4>3, <4>4
      <3>3. CASE s # r
        <4>1. /\ s \in client'.listeners => s \in client.listeners
              /\ s \notin client.listeners => client'.events[s] = client.events[s]
              /\ client'.rejoined = client.rejoined
          BY <2>3, <3>3
        <4>2. /\ \A k \in DOMAIN tasks' : tasks'[k] = AddTask(s) => tasks[k + 1] = AddTask(s)
              /\ \A k, j \in DOMAIN tasks' : k + 1 = j + 1 => k = j
          BY <1>3
        <4>3. OnceAdded(s)'
          BY <1>1, <1>3, <3>1, <4>1, <4>2 DEF OnceAdded
        <4>4. OnceAnswered(s)'
          BY <1>1, <3>1, <4>1 DEF OnceAnswered
        <4> QED
          BY <4>3, <4>4
      <3> QED
        BY <3>2, <3>3
    <2> QED
      BY <1>1, <1>5, <2>3, <2>4 DEF IInv
  <1> QED
    BY <1>6, <1>7
-----------------------------------------------------------------------------
(* The theorems *)

(* Nothing is asked for at first, and the cache is not ahead of the server. *)
LEMMA InitIInv ==
    ASSUME Init
    PROVE  IInv
  <1>1. /\ document \in Absent .. MaxVersion /\ allowed \in BOOLEAN
        /\ called = {} /\ tasks = <<>> /\ muted = {} /\ answers = [r \in Reads |-> <<>>]
    BY DEF Init
  <1>2. PICK cached \in Unknown .. document, contains \in BOOLEAN :
          /\ contains => cached > Absent
          /\ client =
                [state |-> "Initial", requests |-> {}, idleTimer |-> FALSE,
                 sent |-> <<>>, answers |-> <<>>, failed |-> FALSE,
                 networkEnabled |-> TRUE,
                 online |-> "Unknown", timer |-> FALSE, failures |-> FALSE,
                 outstanding |-> 0, current |-> FALSE, changed |-> FALSE, update |-> Unknown,
                 listeners |-> {}, raised |-> {}, events |-> [r \in Reads |-> <<>>],
                 remoteDocument |-> cached, updateTime |-> cached, contains |-> contains,
                 synced |-> FALSE, since |-> Unknown,
                 watching |-> FALSE, told |-> Unknown, rejoined |-> FALSE]
    BY DEF Init
  <1>3. document \in Versions /\ cached \in Versions /\ Unknown \in Versions /\ Unknown <= document
    BY <1>1, Constants DEF Versions, Unknown, Absent
  <1>4. /\ client.events \in [Reads -> Seq(Snapshot \cup Errors)]
        /\ \A r \in Reads : client.events[r] = <<>>
        /\ client.sent \in Seq(Requests) /\ client.answers \in Seq(Messages)
        /\ client.sent = <<>> /\ client.answers = <<>>
    BY <1>2
  <1>5. client \in Client
    <2> DEFINE events == [r \in Reads |-> <<>>]
    <2>1. events \in [Reads -> Seq(Snapshot \cup Errors)]
      OBVIOUS
    <2> HIDE DEF events
    <2> QED
      BY <1>2, <1>3, <2>1 DEF Client, States, events
  <1>6. Good(client, document, allowed)
    <2>1. EventsSound(client)
      BY <1>4 DEF EventsSound
    <2>2. Core(client, document)
      BY <1>2, <1>3, <1>5, <2>1 DEF Core, Honest, Empty, IsOpen
    <2>3. InOrder(client, allowed)
      BY <1>2, <2>2, InOrderEmpty DEF Core, IsOpen
    <2> QED
      BY <1>2, <2>2, <2>3 DEF Good, Tracker, Channel, IsOpen, Up, IsListening
  <1>7. AppTypeOK
    BY <1>1, <1>3 DEF AppTypeOK
  <1>8. \A r \in Reads : OnceAdded(r) /\ OnceAnswered(r)
    BY <1>1, <1>2, <1>4 DEF OnceAdded, OnceAnswered
  <1> QED
    BY <1>6, <1>7, <1>8 DEF IInv

(* Every step keeps the inductive invariant, one lemma per action. *)
LEMMA NextIInv ==
    ASSUME IInv, [Next]_vars
    PROVE  IInv'
  <1>1. CASE Next
    <2>1. ASSUME NEW r \in Reads, getDocument(r) PROVE IInv'
      BY <2>1, getDocumentStep
    <2>2. ASSUME NEW r \in Reads, OnEvent(r) PROVE IInv'
      BY <2>2, OnEventStep
    <2>3. CASE RunTask
      BY <2>3, RunTaskStep
    <2>4. ASSUME NEW age \in 0 .. MaxAge, NEW ok \in BOOLEAN, TokenArrives(age, ok) PROVE IInv'
      BY <2>4, TokenArrivesStep
    <2>5. ASSUME NEW kind \in Kinds, Received(kind) PROVE IInv'
      BY <2>5, ReceivedStep
    <2>6. CASE StreamBroken
      BY <2>6, StreamBrokenStep
    <2>7. CASE BackoffElapsed
      BY <2>7, BackoffElapsedStep
    <2>8. CASE IdleTimeout
      BY <2>8, IdleTimeoutStep
    <2>9. CASE OnlineStateTimeout
      BY <2>9, OnlineStateTimeoutStep
    <2>10. CASE HandleCredentialChange
      BY <2>10, HandleCredentialChangeStep
    <2>11. ASSUME NEW available \in BOOLEAN, ConnectivityChanged(available) PROVE IInv'
      BY <2>11, ConnectivityChangedStep
    <2>12. CASE ServerListens
      BY <2>12, ServerListensStep
    <2>13. CASE ServerTells
      BY <2>13, ServerTellsStep
    <2>14. CASE ServerSnapshot
      BY <2>14, ServerSnapshotStep
    <2>15. CASE DocumentChanges
      BY <2>15, DocumentChangesStep
    <2> QED
      BY <1>1, <2>1, <2>2, <2>3, <2>4, <2>5, <2>6, <2>7, <2>8, <2>9, <2>10, <2>11, <2>12,
         <2>13, <2>14, <2>15 DEF Next
  <1>2. CASE UNCHANGED vars
    <2>1. /\ client' = client /\ called' = called /\ tasks' = tasks /\ muted' = muted
          /\ answers' = answers /\ document' = document /\ allowed' = allowed
      BY <1>2 DEF vars
    <2> QED
      BY <2>1 DEF IInv, AppTypeOK, OnceAdded, OnceAnswered
  <1> QED
    BY <1>1, <1>2

(* The invariant of getDocument's client, for any reads and bounds. *)
THEOREM Invariance == Spec => []IInv
  <1>1. Init => IInv
    BY InitIInv
  <1>2. IInv /\ [Next]_vars => IInv'
    BY NextIInv
  <1> QED
    BY <1>1, <1>2, PTL DEF Spec

(* Every state is one of the types' (FirestoreReads' TypeOK). *)
THEOREM TypesOK == Spec => []TypeOK
  <1>1. IInv => TypeOK
    <2>1. Absent .. MaxVersion \subseteq Versions
      BY FirestoreReadsAssumption DEF Versions, Unknown, Absent
    <2> QED
      BY <2>1 DEF IInv, AppTypeOK, Good, Core, TypeOK
  <1> QED
    BY <1>1, Invariance, PTL

(* No HARD_ASSERT of the read path fails: the online state timer is started when
   it does not run and fires in the unknown state, a stream is started and
   stopped in the states it may be, and written to while it is open. *)
THEOREM AssertionsHold == Spec => []NoAssertFails
  <1>1. IInv => NoAssertFails
    BY DEF IInv, Good, Core, NoAssertFails
  <1> QED
    BY <1>1, Invariance, PTL

(* A completion runs at most once, whatever is on the main queue for it. *)
THEOREM CompletionsRunOnce == Spec => []AnsweredOnce
  <1>1. IInv => AnsweredOnce
    BY DEF IInv, OnceAnswered, AnsweredOnce
  <1> QED
    BY <1>1, Invariance, PTL

(* What is said to come from the server is no older than the listener's view,
   unless a target was added anew that was still current. *)
THEOREM AnswersFresh == Spec => []Fresh
  <1>1. ASSUME IInv PROVE Fresh
    <2>1. ASSUME ~client.rejoined, NEW r \in Reads,
                 NEW event \in ToSet(answers[r]) \ Errors, ~event.fromCache
          PROVE  event.version >= event.since
      <3>1. PICK k \in DOMAIN answers[r] : event = answers[r][k]
        BY <2>1 DEF ToSet
      <3>2. OnceAnswered(r)
        BY <1>1 DEF IInv
      <3> QED
        BY <2>1, <3>1, <3>2 DEF OnceAnswered
    <2> QED
      BY <2>1 DEF Fresh, UpToDate
  <1> QED
    BY <1>1, Invariance, PTL

(* The client waits for its requests under way and the responses to them. *)
THEOREM BothEndsCountAlike == Spec => []ResponsesCounted
  <1>1. IInv => ResponsesCounted
    BY DEF IInv, Good, Channel, ResponsesCounted, Responses
  <1> QED
    BY <1>1, Invariance, PTL

(* While a read listens the stream is up or on its way up, and an open stream
   listens at the server or has been asked to. *)
THEOREM NoReadForgottenEver == Spec => []NoReadForgotten
  <1>1. IInv => NoReadForgotten
    BY DEF IInv, Good, Up, Channel, Watched, NoReadForgotten, Last
  <1> QED
    BY <1>1, Invariance, PTL
=============================================================================
