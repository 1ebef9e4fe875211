CONSTANTS
  MaxAttempts = 2
  MaxAddresses = 2
  Descriptors = {1, 2, 3}
  MaxWrites = 2
SPECIFICATION FairSpec
INVARIANT DescriptorsAreOwned
PROPERTY CloseIsHeard
CHECK_DEADLOCK FALSE
