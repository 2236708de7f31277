CONSTANTS
  None = None
  Users = {u1}
  StateIds = {s1, s2}
  Starters = {c1, c2}
  Pollers = {}
  Cancels = FALSE
  MaxWorkers = 1
  MaxPending = 1
  MaxRecords = 2
  MaxJobs = 3
  MaxTime = 3
  MaxRestarts = 1
SPECIFICATION Spec
INVARIANTS TypeOK Retained CurrentSaved
PROPERTY SingleFlight
CHECK_DEADLOCK FALSE
