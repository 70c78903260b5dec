SPECIFICATION Spec
CONSTANTS
  Reads = {r1, r2}
  MaxVersion = 2
  MaxEvents = 1
  MaxAge = 0
INVARIANT UpToDate
