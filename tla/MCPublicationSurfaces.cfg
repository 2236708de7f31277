CONSTANTS
  None = None
  States <- MCStates
  Teams = {t1}
  MaxRuns = 3
  MaxPromotions = 2
  MaxEvents = 5
  MaxQueue = 2
  MaxFaults = 2
SPECIFICATION Spec
INVARIANT SurfacesCurrent
CHECK_DEADLOCK FALSE
