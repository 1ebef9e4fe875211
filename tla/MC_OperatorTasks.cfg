CONSTANTS
  Tokens = {t1, t2}
  Views = {"v"}
  Generations = {g1, g2}
  Sockets = {s1, s2}
  Entities = {"a", "b"}
  Targets = {"a"}
  MaxEntities = 1
  MaxPrepared = 1
  MaxClients = 2
  MaxConnections = 2
SPECIFICATION OperatorSpec
SYMMETRY MCSymmetry
INVARIANTS AcknowledgedIsFinal
PROPERTY PublishedAsReviewed
CHECK_DEADLOCK FALSE
