CONSTANTS
  MAX_MSGS = 2
  MaxCalls = 1
  Fcn = {"COMMAND"}
  Timed = {TRUE}
SPECIFICATION FairSpec
PROPERTIES DestructorReturns
