CONSTANTS
  None = None
  a1 = a1
  a2 = a2
  b1 = b1
  A = A
  B = B
  Leagues <- MCLeagues
  States <- MCStates
  LeagueOf <- MCLeagueOf
  ObservedAt <- MCObservedAt
  Teams = {t1, t2}
  MaxWrites = 3
  MaxAttempts = 1
SPECIFICATION Spec
INVARIANT NoStandoff
CHECK_DEADLOCK FALSE
