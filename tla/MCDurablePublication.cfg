CONSTANTS
  None = None
  States <- MCStates
  Teams = {t1, t2}
  MaxRuns = 3
  MaxPromotions = 3
  MaxEvents = 5
  MaxQueue = 2
  MaxFaults = 2
SPECIFICATION Spec
INVARIANTS TypeOK ManifestBacked RestartCurrent SurfacesPaired
PROPERTIES AtomicPublish PublishDurable
CHECK_DEADLOCK FALSE
