CONSTANTS
  p1 = p1  p2 = p2  c1 = c1  c2 = c2  a1 = a1
  Prop = {p1, p2}
  Clause = {c1, c2, a1}
  VolatileClause = {a1}
  AssumptionClause = {a1}
  NULL = NULL
  Bodies <- AllBodies
  MAX_TIME_STAMP = 1
SYMMETRY ClauseSymmetry
SPECIFICATION Spec
INVARIANTS
  TypeOK CachesExact JustificationsExact WellFounded ValuesEntailed
  InconsistentMeansNoModel ConsistentMeansClosed ConflictIsNogood
  NoIntegrityTestFails SameAsFromScratch
PROPERTIES OnlyUnsupportedRetracted
