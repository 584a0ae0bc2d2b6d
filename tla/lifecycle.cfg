SPECIFICATION Spec
CONSTANTS
  N = 1
  max_attempts <- MCMaxAttempts
  escalate_on_failure = {}
  Ops = {"execute", "advance", "resume", "cancel_workflow", "cancel", "claim", "resolve", "reject"}
  Actors = {ann, bob}
  Txns = {t1, t2}
  None = None
  MaxRedeliveries = 1
  MaxResolutions = 1
CHECK_DEADLOCK FALSE
SYMMETRY MCSymmetry
INVARIANTS TypeOK AttemptsBounded AuditMatchesRows
PROPERTIES ClaimExclusive
