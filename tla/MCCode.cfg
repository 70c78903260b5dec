SPECIFICATION FairSpec
VIEW NoPictures
CONSTANTS
  Nil = Nil
  Phones = {p1}
  Accounts = {a1}
  Codes = {c1}
  Calls = {k1}
  MaxQueued = 3
  Denied = {Nil}
  AccountsOn <- AllAccounts
  Draws <- AllCodes
INVARIANTS
  TypeOK
  ShownCodeIsLive
PROPERTY CodeEventuallyLive
