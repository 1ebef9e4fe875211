CONSTANTS
  o1 = o1
  o2 = o2
  o3 = o3
  NoOp = NoOp
  Ops <- MCOps
  MaxMid = 1
  MaxOutgoing = 2
  MaxForged = 1
SPECIFICATION FairLedger
INVARIANTS OwnAcknowledgement HonestNeverUnmatched EveryAckHasAHome
PROPERTIES NothingAcceptedAfterInvalidation EveryOperationEnds
CHECK_DEADLOCK FALSE
