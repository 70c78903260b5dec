SPECIFICATION Spec
INVARIANTS
  TypeOK
  WrongOnlyIfEdited
  NothingRedIsSent
