SPECIFICATION Spec
CONSTANTS
  A1 = A1
  A2 = A2
  B = B
  S = S
  x = x
  y = y
  v = v
  w = w
  NULL = NULL
  StateVariable = S
  Assumption <- MCAssumption
  Assignment <- MCAssignment
  variable <- MCvariable
  default <- MCdefault
  weight <- MCweight
  Part <- MCPart
  trajectory <- MCtrajectory
  fault <- MCfault
  Observable = {x}
  Value = {v, w}
  Settings <- RevisedSettings
  ReviseObservations = TRUE
INVARIANT
  BestFirst
