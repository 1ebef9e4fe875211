CONSTANTS
  r1 = r1
  r2 = r2
  Requests <- MCRequests
  MaxOutstanding = 1
SPECIFICATION FairSpec
INVARIANTS RetrySafety
PROPERTIES HonoursContract ResponseNotLost EverySendEnds
CHECK_DEADLOCK FALSE
