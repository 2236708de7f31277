CONSTANTS
  t1 = t1
  t2 = t2
  t3 = t3
  t4 = t4
  Threads = {t1, t2, t3, t4}
  Kinds = {"simulation", "presentation"}
  NoThread = NoThread
  MaxWaiters = 2
  MaxClaims = 3
SPECIFICATION Spec
INVARIANTS TypeOK LaneExclusion NoLostWakeup AccountsBalance
PROPERTY WaitersDrain
CHECK_DEADLOCK FALSE
