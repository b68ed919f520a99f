SPECIFICATION FairSpec
CONSTANTS
  A = A
  B = B
  C = C
  x = x
  y = y
  v = v
  Assumption <- MCAssumption
  Assignment <- MCAssignment
  NULL = NULL
  variable <- MCvariable
  default <- MCdefault
  weight <- MCweight
  Observable = {x, y}
  Value = {v}
  WeightModulus = 65536
  Settings <- MCSettings
INVARIANTS
  TypeOK
  CandidatesCover
  SmallCoversFound
  PassedAreConsistent
PROPERTY
  SearchReturns
