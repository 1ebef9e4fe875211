CONSTANTS
  Callers = {"c1"}
  Fails <- MCFails
  MaxAttempts = 2
  MaxElapsed = 2
  StableAfter = 1
  MaxSessions = 2
SPECIFICATION Spec
INVARIANTS Informed Driven
PROPERTIES ReadyIsReal BudgetIsEarned
CHECK_DEADLOCK FALSE
