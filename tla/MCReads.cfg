SPECIFICATION Spec
CONSTANTS
  Reads = {r1, r2}
  MaxVersion = 2
  MaxEvents = 2
  MaxAge = 1
SYMMETRY Symmetry
INVARIANTS
  TypeOK
  NoAssertFails
  AnsweredOnce
  Fresh
  NeverInLimbo
  ResponsesCounted
  NoReadForgotten
