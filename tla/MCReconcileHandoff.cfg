CONSTANTS
  None = None
  a1 = a1
  a2 = a2
  b1 = b1
  A = A
  B = B
  t1 = t1
  t2 = t2
  f1 = f1
  r1 = r1
  r2 = r2
  States <- MCStates
  Leagues <- MCLeagues
  Teams <- MCTeams
  Forecasts <- MCForecasts
  PublicationIds = {p1}
  LeagueOf <- MCLeagueOf
  TeamsOf <- MCTeamsOf
  AsOf <- MCAsOf
  InputPrint <- MCInputPrint
  Cutoff <- MCCutoff
  Ready <- MCReady
  Supplement <- MCSupplement
  MaxGenerations = 3
  Requesters <- MCRequesters
  MaxJobs = 2
SYMMETRY MCSymmetry
SPECIFICATION Spec
INVARIANT HandoffOwned
CHECK_DEADLOCK FALSE
