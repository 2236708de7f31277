CONSTANTS
  None = None
  a1 = a1
  a2 = a2
  b1 = b1
  A = A
  B = B
  t1 = t1
  t2 = t2
  early = early
  late = late
  States <- MCStates
  Leagues <- MCLeagues
  Teams <- MCTeams
  Forecasts <- MCForecasts
  PublicationIds = {p1}
  LeagueOf <- MCLeagueOf
  TeamsOf <- MCTeamsOf
  AsOf <- MCAsOf
  InputPrint <- MCInputPrint
  Cutoff <- MCCutoff
  Ready <- MCReady
  Supplement <- MCSupplement
  MaxGenerations = 2
SPECIFICATION Spec
INVARIANTS TypeOK EvidenceCoherent SeedCurrent ServedSameLeague
PROPERTIES LastGoodKept ViewSpec
CHECK_DEADLOCK FALSE
