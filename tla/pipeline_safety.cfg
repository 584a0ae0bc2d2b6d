SPECIFICATION Spec
CONSTANTS
  a1 = a1
  a2 = a2
  f1 = f1
  f2 = f2
  Attempts = {a1, f1}
  Foreign = {f1}
  Malformed = {f1}
  Later = {}
  Poison = {}
  Results <- MCResults
  Workers = {w1, w2}
  Reapers = {r1}
  Scheduler = Scheduler
  Operator = Operator
  None = None
  MaxPushes = 1
  MaxCopies = 1
  MaxFaults = 1
  MaxOutboxErrors = 1
  MaxWorkerCrashes = 1
  MaxMoverCrashes = 1
CHECK_DEADLOCK FALSE
SYMMETRY MCSymmetry
INVARIANTS TypeOK NoTaskLost
