CONSTANTS
  before = before  now = now  past = past  c1 = c1  c2 = c2  a1 = a1
  Prop = {before, now, past}
  Clause = {c1, c2, a1}
  VolatileClause = {a1}
  AssumptionClause = {a1}
  NULL = NULL
  Bodies <- TransitionBodies
  MAX_TIME_STAMP = 1
  Splices <- MCSplices
  LeaveSupport = FALSE
SPECIFICATION SpliceSpec
INVARIANTS CachesExactAfter JustificationsExactAfter ConsistentMeansClosed
PROPERTIES CallsReturn
