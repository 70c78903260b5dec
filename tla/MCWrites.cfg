SPECIFICATION FairSpec
CONSTANTS
  Nil = Nil
  Phone = p1
  Accounts = {a1}
  Codes = {c1}
  Denied = {Nil}
  AppWrites <- AddsAndDeletes
  kMaxPendingWrites = 2
  MaxQueued = 3
  MaxBatchId = 3
  MaxAge = 1
INVARIANTS
  TypeOK
  NoAssertFails
  NothingStranded
  AnswersMatch
PROPERTIES
  ImplementsAppDB
  KeepsSending
  FirstMovesOn
