SPECIFICATION Spec
CONSTANTS
  Requests = {r1, r2, r3}
  Procs = {p1, p2}
  Window = 2
  max_requests <- MCMaxRequests
  Latency = 1
  MaxTime = 3
  MaxFaults = 1
  None = None
CHECK_DEADLOCK FALSE
SYMMETRY MCSymmetry
INVARIANTS TypeOK LimitPerWindow CountersExpire PayloadPresent WholeWithOneProcess
