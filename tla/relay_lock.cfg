SPECIFICATION Spec
CONSTANTS
  Procs = {p1, p2}
  PoolSize = 3
  LockCap = 2
  MaxFaults = 2
INVARIANTS TypeOK OneElected SchedulerLockReturned LockReachable
