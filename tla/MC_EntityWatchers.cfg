CONSTANTS
  l = l
  o = o
  a = a
  b = b
  c = c
  Watchers = {l, o}
  Kinds <- MCKinds
  Filters <- MCFilters
  Entities = {a, b, c}
  Sizes = {1, 2}
  MaxPending = 2
  MaxBytes = 3
  MaxMessages = 3
SPECIFICATION Spec
SYMMETRY MCSymmetry
INVARIANTS PendingIsSound ClosedOwnsNothing
PROPERTY TracksInOrder
CHECK_DEADLOCK FALSE
