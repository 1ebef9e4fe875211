CONSTANTS
  d = d
  t = t
  e = e
  f = f
  g = g
  Sup = Sup
  Filters = {f, g}
  Ops <- MCOps
  FilterOf <- MCFilterOf
  Durable = {d, e}
  Pinned = {t}
  MaxSessions = 2
  MaxCancels = 2
SPECIFICATION Spec
INVARIANTS RestIsSound RegisteredIsSubscribed TransientStaysInSession NobodyIsStuck
CHECK_DEADLOCK FALSE
