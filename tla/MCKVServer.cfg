SPECIFICATION Spec
CONSTANTS
  c1 = c1
  c2 = c2
  Clerk <- Clerks
  Program <- WriterAndReader
  NServer = 2
  Lab = {"3A", "3B"}
  MaxTries <- FirstTwice
  MaxEntries = 3
  Crashable <- Restarts
  MaxCrashes = 1
INVARIANTS TypeOK StoreIsReplay Linearizable ChannelHasRoom
CHECK_DEADLOCK FALSE
