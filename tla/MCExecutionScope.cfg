CONSTANTS
  None = None
  a1 = a1
  a2 = a2
  b1 = b1
  A = A
  B = B
  States <- MCStates
  Leagues <- MCLeagues
  LeagueOf <- MCLeagueOf
  Readers = {r1}
  MaxWorkers = 2
  MaxJobs = 2
  MaxTasks = 3
  MaxGenerations = 3
  MaxSyncs = 1
  MaxFaults = 1
SPECIFICATION Spec
INVARIANTS TypeOK NothingReacquired
PROPERTY TransitionsEnd
CHECK_DEADLOCK FALSE
