CONSTANTS
  None = None
  a1 = a1
  a2 = a2
  b1 = b1
  A = A
  B = B
  Leagues <- MCLeagues
  States <- MCStates
  LeagueOf <- MCLeagueOf
  ObservedAt <- MCObservedAt
  Teams = {t1, t2}
  MaxWrites = 4
  MaxAttempts = 2
SPECIFICATION Spec
INVARIANTS TypeOK SettledDurable BarrierHonest
PROPERTIES WritesInOrder QueueDrains
CHECK_DEADLOCK FALSE
