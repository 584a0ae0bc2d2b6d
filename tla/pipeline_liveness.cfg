SPECIFICATION FairSpec
CONSTANTS
  a1 = a1
  a2 = a2
  f1 = f1
  f2 = f2
  Attempts = {a1}
  Foreign = {}
  Malformed = {}
  Later = {a1}
  Poison = {}
  Results <- MCResults
  Workers = {w1, w2}
  Reapers = {r1}
  Scheduler = Scheduler
  Operator = Operator
  None = None
  MaxPushes = 2
  MaxCopies = 1
  MaxFaults = 1
  MaxOutboxErrors = 0
  MaxWorkerCrashes = 1
  MaxMoverCrashes = 0
CHECK_DEADLOCK FALSE
INVARIANTS NoTaskLost PushedOncePerFault
PROPERTIES AckAfterOutcome Delivered
