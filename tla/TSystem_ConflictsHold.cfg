SPECIFICATION Spec
CONSTANTS
  valve = valve
  on = on
  off = off
  stuck = stuck
  open = open
  flow = flow
  still = still
  Component = {valve}
  Mode = {on, off, stuck}
  Command = {open}
  IDLE = IDLE
  Reading = {flow, still}
  NONE = NONE
  STATE_VAR = STATE_VAR
  initial <- MCinitialOn
  nominal <- MCnominal
  failure <- MCfailure
  cost <- MCcost
  shows <- MCshows
  max_history_length = 2
  max_truncated_candidates = 0
  number_tracked = 2
  ReviseObservations = FALSE
  MaxTime = 4
  MaxFailures = 1
  MaxConflicts = 1
INVARIANT
  ConflictsHold
