CONSTANTS
  None = None
  Users = {u1}
  StateIds = {s1}
  Starters = {c1, c2}
  Pollers = {p1}
  Cancels = FALSE
  MaxWorkers = 1
  MaxPending = 1
  MaxRecords = 2
  MaxJobs = 2
  MaxTime = 3
  MaxRestarts = 0
SPECIFICATION Spec
PROPERTY SingleFlight
CHECK_DEADLOCK FALSE
