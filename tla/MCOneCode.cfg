SPECIFICATION UndisturbedSpec
VIEW NoPictures
CONSTANTS
  Nil = Nil
  Phones = {p1}
  Accounts = {a1}
  Codes = {c1, c2}
  Calls = {k1}
  MaxQueued = 3
  Denied = {}
  AccountsOn <- AllAccounts
  Draws <- AllCodes
INVARIANT OneCodePerSender
