SPECIFICATION Spec
CONSTANT Draws <- Sample
INVARIANTS
  TypeOK
  SixDigits
\* the label is shown once
CHECK_DEADLOCK FALSE
