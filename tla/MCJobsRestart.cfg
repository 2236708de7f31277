CONSTANTS
  None = None
  Users = {u1}
  StateIds = {s1}
  Starters = {c1}
  Pollers = {p1}
  Cancels = TRUE
  MaxWorkers = 1
  MaxPending = 1
  MaxRecords = 2
  MaxJobs = 3
  MaxTime = 2
  MaxRestarts = 1
SPECIFICATION Spec
INVARIANTS SlotsAccounted NoPhantom
PROPERTY JobsFinish
CHECK_DEADLOCK FALSE
