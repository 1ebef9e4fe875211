CONSTANTS
  c1 = c1
  c2 = c2
  Consumers <- MCConsumers
  BufferSize = 2
  MaxEvents = 5
SPECIFICATION FairSpec

INVARIANTS NothingLost OneEnding
PROPERTIES NothingAfterEnding EndingIsTold
