SPECIFICATION Spec
VIEW NoPictures
SYMMETRY Symmetry
CONSTANTS
  Nil = Nil
  Phones = {p1}
  Accounts = {a1, a2}
  Codes = {c1}
  Calls = {k1}
  MaxQueued = 2
  Denied = {Nil}
  AccountsOn <- AllAccounts
  Draws <- NoCodes
INVARIANT AuthorIsOwner
PROPERTY ForeignOnlyByRace
