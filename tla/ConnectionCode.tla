--------------------------- MODULE ConnectionCode --------------------------
(***************************************************************************)
(* How getConnectionCode (makeNewConnectViewController.swift) turns its    *)
(* random number into the text it shows: a loop counts the digits, zeros   *)
(* fill the label up to six, and String(randomNum) is appended.  A step is *)
(* one turn of the loop, or the statements after it.                       *)
(*                                                                         *)
(* A label is kept as what it is made of: its leading zeros and the number *)
(* that String prints after them.                                          *)
(***************************************************************************)
EXTENDS Naturals

CONSTANT Draws          \* bound: the numbers the random generator may give

Limit == 10 * 100000      \* arc4random_uniform(1000000)

ASSUME DrawsAssumption == Draws \subseteq 0 .. Limit - 1

VARIABLES pc, randomNum, temp, digit, label

vars == <<pc, randomNum, temp, digit, label>>

Empty == [zeros |-> 0, number |-> Limit]

TypeOK ==
    /\ pc \in {"counting", "shown"}
    /\ randomNum \in 0 .. Limit - 1
    /\ temp \in 0 .. Limit - 1
    /\ digit \in 0 .. 6
    /\ label \in [zeros : 0 .. 6, number : 0 .. Limit]

Init ==
    /\ pc = "counting"
    /\ randomNum \in Draws
    /\ temp = randomNum
    /\ digit = 0
    /\ label = Empty

(* while temp > 0 *)
CountDigit ==
    /\ pc = "counting"
    /\ temp > 0
    /\ temp' = temp \div 10
    /\ digit' = digit + 1
    /\ UNCHANGED <<pc, randomNum, label>>

(* a slip: the closed range 0...6-digit has one element more *)
ZerosOneMore(digits) == IF 6 - digits >= 0 THEN 6 - digits + 1 ELSE 0

(* for _ in 0...6-digit-1, entered only when the range is not empty *)
Zeros(digits) == IF 6 - digits - 1 >= 0 THEN 6 - digits ELSE 0

Show ==
    /\ pc = "counting"
    /\ temp = 0
    /\ pc' = "shown"
    /\ label' = [zeros |-> Zeros(digit), number |-> randomNum]
    /\ UNCHANGED <<randomNum, temp, digit>>

Next == CountDigit \/ Show

Spec == Init /\ [][Next]_vars
-----------------------------------------------------------------------------
(* How many characters String prints for a number below the limit: one for
   zero. *)
Printed(n) ==
    CASE n < 10 -> 1
      [] 10 <= n /\ n < 100 -> 2
      [] 100 <= n /\ n < 1000 -> 3
      [] 1000 <= n /\ n < 10000 -> 4
      [] 10000 <= n /\ n < 100000 -> 5
      [] 100000 <= n -> 6

Length(text) == text.zeros + Printed(text.number)

(* The label of every number but zero has six characters, whatever the number
   of digits the loop counted, and ends in the number that was drawn. *)
SixDigits ==
    pc = "shown" /\ randomNum # 0 => Length(label) = 6 /\ label.number = randomNum
=============================================================================
