CONSTANTS
  Keys <- MCKeys
  Modes <- MCModes
  Malformed = {"bad"}
  Unreadable = {"garbled"}
  Slots <- MCSlots
  CacheSize = 1
  MaxReceived <- MCMaxReceived
SPECIFICATION FairSpec
INVARIANTS InvokedOncePerMemory HandledOnce
PROPERTIES NoAnswerBegunAfterClose EveryAnswerTried
CHECK_DEADLOCK FALSE
