CONSTANTS
  None = None
  States <- MCStates
  Teams = {t1, t2}
  MaxRuns = 2
  MaxPromotions = 2
  MaxEvents = 2
  MaxQueue = 2
  MaxFaults = 2
SPECIFICATION Spec
INVARIANT PriorRestored
CHECK_DEADLOCK FALSE
