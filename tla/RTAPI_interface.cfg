CONSTANTS
  MAX_MSGS = 2
  MaxCalls = 2
  Fcn = {"COMMAND", "REPORT_FULL_STATE"}
  Timed = {TRUE, FALSE}
SPECIFICATION FairSpec
INVARIANTS TypeOK HeardInOrder DoneMeansDrained
PROPERTIES CallsReturn EveryCallApplied DestructorReturnsWhenIdle
