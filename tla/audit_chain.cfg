SPECIFICATION Spec
CONSTANTS
  t1 = t1
  t2 = t2
  h1 = h1
  h2 = h2
  Runs = {r1, r2}
  Txns = {t1, t2}
  Hosts = {h1}
  HostOf <- MCHostOf
  Bytes <- MCBytes
  StepIds <- MCStepIds
  Kinds <- MCKinds
  VerifyLimit = 2
  MaxAppends = 2
  MaxEvents = 3
  MaxTime = 1
  None = None
CHECK_DEADLOCK FALSE
INVARIANTS TypeOK ChainLinked VerifierAccepts TamperDetected
