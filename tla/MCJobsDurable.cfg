CONSTANTS
  None = None
  Users = {u1}
  StateIds = {s1}
  Starters = {c1}
  Pollers = {}
  Cancels = FALSE
  MaxWorkers = 1
  MaxPending = 1
  MaxRecords = 2
  MaxJobs = 2
  MaxTime = 4
  MaxRestarts = 0
SPECIFICATION Spec
INVARIANT DurableLatest
CHECK_DEADLOCK FALSE
