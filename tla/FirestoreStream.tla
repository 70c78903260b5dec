-------------------------- MODULE FirestoreStream --------------------------
(***************************************************************************)
(* Stream of the Firestore client: what the write stream and the watch     *)
(* stream share.  A client is a record with, among others, the fields      *)
(*   state      the state of the stream                                    *)
(*   requests   token requests under way, by how often the stream was      *)
(*              closed since they were made                                *)
(*   idleTimer  whether the idle timer runs                                *)
(*   sent, answers    the two directions of the open stream                *)
(*   failed     a HARD_ASSERT did not hold                                 *)
(* and the functions of the code are operators from client to client.      *)
(***************************************************************************)
EXTENDS Naturals, Sequences

CONSTANT MaxAge               \* bound: closes a token request may outlive

ASSUME MaxAgeAssumption == MaxAge \in Nat

States == {"Initial", "Starting", "Open", "Error", "Backoff"}

HardAssert(c, condition) == [c EXCEPT !.failed = @ \/ ~condition]

IsOpen(c) == c.state = "Open"
IsStarted(c) == c.state \in {"Starting", "Backoff", "Open"}

(* Start, with RequestCredentials; after an error BackoffAndTryRestarting. *)
Start(c) ==
    IF c.state = "Error" THEN [c EXCEPT !.state = "Backoff"]
    ELSE [HardAssert(c, c.state = "Initial") EXCEPT
            !.state = "Starting", !.requests = @ \cup {0}]

InhibitBackoff(c) == [HardAssert(c, ~IsStarted(c)) EXCEPT !.state = "Initial"]

MarkIdle(c) == [c EXCEPT !.idleTimer = @ \/ IsOpen(c)]

(* a slip: a message does not stop the idle timer *)
WriteKeepingTimer(c, messages) ==
    [HardAssert(c, IsOpen(c)) EXCEPT !.sent = @ \o messages]

(* Write, with CancelIdleCheck *)
Write(c, messages) ==
    [HardAssert(c, IsOpen(c)) EXCEPT !.idleTimer = FALSE, !.sent = @ \o messages]

(* a slip: a token that is under way is taken for one of the next start *)
ClosedKeepingRequests(c, status) ==
    [HardAssert(c, IsStarted(c)) EXCEPT
        !.state = IF status = "ok" THEN "Initial" ELSE "Error",
        !.idleTimer = FALSE, !.sent = <<>>, !.answers = <<>>]

(* Close up to NotifyStreamClose: close_count_ makes the token requests late,
   and what the stream had under way is gone with it. *)
Closed(c, status) ==
    [HardAssert(c, IsStarted(c)) EXCEPT
        !.state = IF status = "ok" THEN "Initial" ELSE "Error",
        !.idleTimer = FALSE,
        !.requests = {age + 1 : age \in @} \cap 0 .. MaxAge,
        !.sent = <<>>, !.answers = <<>>]
=============================================================================
