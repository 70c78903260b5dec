SPECIFICATION Spec
SYMMETRY Symmetry
CONSTANTS
  Nil = Nil
  Phones = {p1}
  Accounts = {a1}
  Codes = {c1}
  Calls = {k1, k2}
  MaxQueued = 2
  Denied = {}
  AccountsOn <- AllAccounts
  Draws <- AllCodes
INVARIANTS
  NoCrash
  TokenPersisted
  ScreenReady
  PictureHasProfile
