SPECIFICATION FairSpec
CONSTANTS
  a1 = a1
  a2 = a2
  f1 = f1
  f2 = f2
  Attempts = {a2}
  Foreign = {}
  Malformed = {}
  Later = {}
  Poison = {a2}
  Results <- MCResults
  Workers = {w1}
  Reapers = {r1}
  Scheduler = Scheduler
  Operator = Operator
  None = None
  MaxPushes = 1
  MaxCopies = 1
  MaxFaults = 0
  MaxOutboxErrors = 0
  MaxWorkerCrashes = 0
  MaxMoverCrashes = 0
CHECK_DEADLOCK FALSE
PROPERTY PoisonDeadLettered
