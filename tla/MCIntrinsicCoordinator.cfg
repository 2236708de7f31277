CONSTANTS
  None = None
  a1 = a1
  a2 = a2
  b1 = b1
  d1 = d1
  Users = {u1}
  Callers = {c1}
  StateIds <- MCStateIds
  LeagueOf <- MCLeagueOf
  InputsOf <- MCInputsOf
  MaxRecords = 2
  MaxAttempts = 2
  MaxClears = 1
SPECIFICATION Spec
INVARIANTS TypeOK RecordsCurrent Backed
PROPERTIES ActiveKept Settles
CHECK_DEADLOCK FALSE
