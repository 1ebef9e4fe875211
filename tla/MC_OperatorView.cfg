CONSTANTS
  Tokens = {t1, t2}
  MaxGens = 3
  MaxIds = 2
  RetryLimit = 1
SPECIFICATION Spec
SYMMETRY MCSymmetry
CONSTRAINT MCBound
INVARIANT NothingPublished
PROPERTIES DialogWaits PublishedInView
CHECK_DEADLOCK FALSE
