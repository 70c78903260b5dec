----------------------- MODULE ConnectionCodeProofs ------------------------
(***************************************************************************)
(* The code of every number but zero has six digits.  The loop invariant:  *)
(* temp is randomNum without its last `digit' digits, and randomNum has at *)
(* least `digit' of them.                                                  *)
(***************************************************************************)
EXTENDS ConnectionCode, TLAPS

(* randomNum without its last d digits *)
Without(d, n) ==
    CASE d = 0 -> n
      [] d = 1 -> n \div 10
      [] d = 2 -> n \div 100
      [] d = 3 -> n \div 1000
      [] d = 4 -> n \div 10000
      [] d = 5 -> n \div 100000
      [] d = 6 -> (n \div 100000) \div 10

Counted ==
    /\ temp = Without(digit, randomNum)
    /\ digit > 0 => Without(digit - 1, randomNum) > 0

LabelPadded ==
    pc = "shown" => temp = 0 /\ label = [zeros |-> Zeros(digit), number |-> randomNum]

IInv == TypeOK /\ Counted /\ LabelPadded

(* Limit stays folded below: the provers take large numerals badly. *)
LEMMA LimitValue == Limit \in Nat /\ Limit \div 100000 = 10 /\ Limit % 100000 = 0
  BY SMT DEF Limit

(* A number that can be drawn has six digits at most. *)
LEMMA BelowLimit ==
    ASSUME NEW n \in 0 .. Limit - 1
    PROVE  n \in Nat /\ n \div 100000 < 10
  <1>1. n \in Nat /\ n < Limit
    BY LimitValue, SMT
  <1> QED
    BY <1>1, LimitValue, SMT

(* Without, line by line. *)
LEMMA WithoutValues ==
    ASSUME NEW n \in Nat
    PROVE  /\ Without(0, n) = n
           /\ Without(1, n) = n \div 10
           /\ Without(2, n) = n \div 100
           /\ Without(3, n) = n \div 1000
           /\ Without(4, n) = n \div 10000
           /\ Without(5, n) = n \div 100000
           /\ Without(6, n) = (n \div 100000) \div 10
  BY SMT DEF Without

(* A number whose first digit is its d-th has d digits. *)
LEMMA DigitsCounted ==
    ASSUME NEW n \in 0 .. Limit - 1, NEW d \in 1 .. 6,
           Without(d, n) = 0, Without(d - 1, n) > 0
    PROVE  Printed(n) = d
  <1>1. n \in Nat /\ n \div 100000 < 10
    BY BelowLimit
  <1>2. CASE d = 1
    <2>1. Without(1, n) = 0 /\ Without(0, n) > 0
      BY <1>2, SMT
    <2>2. 1 <= n /\ n < 10
      BY <1>1, <2>1, WithoutValues, SMT
    <2> QED
      BY <1>1, <1>2, <2>2, SMT DEF Printed
  <1>3. CASE d = 2
    <2>1. n \div 100 = 0 /\ n \div 10 > 0
      BY <1>1, <1>3, WithoutValues, SMT
    <2>2. 10 <= n /\ n < 100
      BY <1>1, <2>1, SMT
    <2> QED
      BY <1>1, <1>3, <2>2, SMT DEF Printed
  <1>4. CASE d = 3
    <2>1. Without(3, n) = 0 /\ Without(2, n) > 0
      BY <1>4, SMT
    <2>2. 100 <= n /\ n < 1000
      BY <1>1, <2>1, WithoutValues, SMT
    <2> QED
      BY <1>1, <1>4, <2>2, SMT DEF Printed
  <1>5. CASE d = 4
    <2>1. Without(4, n) = 0 /\ Without(3, n) > 0
      BY <1>5, SMT
    <2>2. 1000 <= n /\ n < 10000
      BY <1>1, <2>1, WithoutValues, SMT
    <2> QED
      BY <1>1, <1>5, <2>2, SMT DEF Printed
  <1>6. CASE d = 5
    <2>1. Without(5, n) = 0 /\ Without(4, n) > 0
      BY <1>6, SMT
    <2>2. 10000 <= n /\ n < 100000
      BY <1>1, <2>1, WithoutValues, SMT
    <2> QED
      BY <1>1, <1>6, <2>2, SMT DEF Printed
  <1>7. CASE d = 6
    <2>1. Without(6, n) = 0 /\ Without(5, n) > 0
      BY <1>7, SMT
    <2>2. 100000 <= n /\ n \div 100000 < 10
      BY <1>1, <2>1, WithoutValues, SMT
    <2> QED
      BY <1>1, <1>7, <2>2, SMT DEF Printed
  <1> QED
    BY <1>2, <1>3, <1>4, <1>5, <1>6, <1>7, SMT

(* One turn of the loop takes one digit off. *)
LEMMA OneDigitLess ==
    ASSUME NEW n \in 0 .. Limit - 1, NEW d \in 0 .. 6, Without(d, n) > 0
    PROVE  /\ d < 6
           /\ Without(d, n) \div 10 = Without(d + 1, n)
           /\ Without(d, n) \in 0 .. Limit - 1
           /\ Without(d, n) \div 10 \in 0 .. Limit - 1
  <1>0. n \in Nat /\ n \div 100000 < 10
    BY BelowLimit
  <1>1. d # 6
    <2>1. (n \div 100000) \div 10 = 0
      BY <1>0, SMT
    <2> QED
      BY <1>0, <2>1, WithoutValues, SMT
  <1>2. d \in {0, 1, 2, 3, 4, 5}
    BY <1>1, SMT
  <1>3. Without(d, n) \div 10 = Without(d + 1, n) /\ Without(d, n) \in 0 .. n
    <2>1. CASE d = 0
      <3>1. Without(0, n) = n /\ Without(1, n) = n \div 10
        BY <1>0, SMT DEF Without
      <3>2. n \div 10 = n \div 10 /\ n \in 0 .. n
        BY <1>0, SMT
      <3> QED
        BY <2>1, <3>1, <3>2, SMT
    <2>2. CASE d = 1
      <3>1. Without(1, n) = n \div 10 /\ Without(2, n) = n \div 100
        BY <1>0, SMT DEF Without
      <3>2. (n \div 10) \div 10 = n \div 100 /\ n \div 10 \in 0 .. n
        BY <1>0, SMT
      <3> QED
        BY <2>2, <3>1, <3>2, SMT
    <2>3. CASE d = 2
      <3>1. Without(2, n) = n \div 100 /\ Without(3, n) = n \div 1000
        BY <1>0, SMT DEF Without
      <3>2. (n \div 100) \div 10 = n \div 1000 /\ n \div 100 \in 0 .. n
        BY <1>0, SMT
      <3> QED
        BY <2>3, <3>1, <3>2, SMT
    <2>4. CASE d = 3
      <3>1. Without(3, n) = n \div 1000 /\ Without(4, n) = n \div 10000
        BY <1>0, SMT DEF Without
      <3>2. (n \div 1000) \div 10 = n \div 10000 /\ n \div 1000 \in 0 .. n
        BY <1>0, SMT
      <3> QED
        BY <2>4, <3>1, <3>2, SMT
    <2>5. CASE d = 4
      <3>1. Without(4, n) = n \div 10000 /\ Without(5, n) = n \div 100000
        BY <1>0, SMT DEF Without
      <3>2. (n \div 10000) \div 10 = n \div 100000 /\ n \div 10000 \in 0 .. n
        BY <1>0, SMT
      <3> QED
        BY <2>5, <3>1, <3>2, SMT
    <2>6. CASE d = 5
      <3>1. Without(5, n) = n \div 100000 /\ Without(6, n) = (n \div 100000) \div 10
        BY <1>0, SMT DEF Without
      <3>2. (n \div 100000) \div 10 = (n \div 100000) \div 10 /\ n \div 100000 \in 0 .. n
        BY <1>0, SMT
      <3> QED
        BY <2>6, <3>1, <3>2, SMT
    <2> QED  BY <1>2, <2>1, <2>2, <2>3, <2>4, <2>5, <2>6
  <1>4. \A m \in 0 .. n : m \in 0 .. Limit - 1 /\ m \div 10 \in 0 .. Limit - 1
    <2> SUFFICES ASSUME NEW m \in 0 .. n
                 PROVE  m \in 0 .. Limit - 1 /\ m \div 10 \in 0 .. Limit - 1
      OBVIOUS
    <2>1. m \in Nat /\ m < Limit /\ m \div 10 \in 0 .. m
      BY <1>0, LimitValue, SMT
    <2> QED
      BY <2>1, LimitValue, SMT
  <1> QED
    BY <1>2, <1>3, <1>4, SMT

(* Before the loop nothing is counted. *)
LEMMA InitIInv == Init => IInv
  BY DrawsAssumption, LimitValue, SMT DEF Init, IInv, TypeOK, Counted, LabelPadded, Empty, Without

(* Every turn of the loop keeps temp and digit in step with the number drawn,
   and the label is made of both. *)
LEMMA NextIInv == IInv /\ [Next]_vars => IInv'
  <1> SUFFICES ASSUME IInv, [Next]_vars PROVE IInv'
    OBVIOUS
  <1> USE DEF IInv, TypeOK
  <1>1. CASE CountDigit
    <2>1. Without(digit, randomNum) > 0 /\ digit < 6 /\ pc # "shown"
      BY <1>1, OneDigitLess, SMT DEF CountDigit, Counted
    <2>2. temp' \in 0 .. Limit - 1 /\ temp' = Without(digit', randomNum')
      BY <1>1, <2>1, OneDigitLess, SMT DEF CountDigit, Counted
    <2>3. digit' \in 0 .. 6 /\ digit' > 0 /\ digit' - 1 = digit
      BY <1>1, <2>1, SMT DEF CountDigit
    <2>4. Counted'
      BY <1>1, <2>1, <2>2, <2>3, SMT DEF CountDigit, Counted
    <2> QED
      BY <1>1, <2>1, <2>2, <2>3, <2>4, SMT DEF CountDigit, LabelPadded
  <1>2. CASE Show
    <2>1. Zeros(digit) \in 0 .. 6
      BY SMT DEF Zeros
    <2>2. label' \in [zeros : 0 .. 6, number : 0 .. Limit]
      BY <1>2, <2>1, LimitValue, SMT DEF Show
    <2>3. Counted'
      BY <1>2, SMT DEF Show, Counted, Without
    <2> QED
      BY <1>2, <2>2, <2>3, SMT DEF Show, LabelPadded, Zeros
  <1>3. CASE UNCHANGED vars
    BY <1>3, SMT DEF vars, Counted, LabelPadded, Without, Zeros
  <1> QED
    BY <1>1, <1>2, <1>3, SMT DEF Next

(* What the loop has counted is what String prints. *)
LEMMA IInvSixDigits == IInv => SixDigits
  <1> SUFFICES ASSUME IInv, pc = "shown", randomNum # 0
               PROVE  Length(label) = 6 /\ label.number = randomNum
    BY SMT DEF SixDigits
  <1> USE DEF IInv, TypeOK, Counted, LabelPadded
  <1>1. digit \in 1 .. 6
    BY SMT DEF Without
  <1>2. Printed(randomNum) = digit
    BY <1>1, DigitsCounted
  <1> QED
    BY <1>1, <1>2, SMT DEF Length, Zeros

(* getConnectionCode's loop and padding, for every number it can draw but
   zero: the label is six characters and ends in the number drawn. *)
THEOREM CodesHaveSixDigits == Spec => []SixDigits
  <1>1. Spec => []IInv
    BY InitIInv, NextIInv, PTL DEF Spec
  <1> QED
    BY <1>1, IInvSixDigits, PTL

(* The loop counts no more than six digits of any number it can draw, so that the
   range of zeros never ends below its start. *)
THEOREM DigitsBounded == Spec => []TypeOK
  <1>1. Spec => []IInv
    BY InitIInv, NextIInv, PTL DEF Spec
  <1>2. IInv => TypeOK
    BY DEF IInv
  <1> QED
    BY <1>1, <1>2, PTL
=============================================================================
