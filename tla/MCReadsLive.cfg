SPECIFICATION FairSpec
CONSTANTS
  Reads = {r1, r2}
  MaxVersion = 1
  MaxEvents = 1
  MaxAge = 0
PROPERTY EveryReadAnswered
