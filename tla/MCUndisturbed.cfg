SPECIFICATION UndisturbedSpec
VIEW NoPictures
SYMMETRY Symmetry
CONSTANTS
  Nil = Nil
  Phones = {p1}
  Accounts = {a1}
  Codes = {c1, c2}
  Calls = {k1, k2}
  MaxQueued = 5
  Denied = {}
  AccountsOn <- AllAccounts
  Draws <- AllCodes
INVARIANTS
  ShownCodeIsLive
  SavedProfileOnServer
  CodePointsBack
