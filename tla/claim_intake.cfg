SPECIFICATION IntakeSpec
CONSTANTS
  N = 5
  max_attempts <- ClaimMaxAttempts
  escalate_on_failure <- ClaimEscalates
  Ops = {"execute", "advance", "resume"}
  Actors = {}
  Txns = {t1, t2}
  None = None
  MaxRedeliveries = 1
  MaxResolutions = 2
  Docs = {d1, d2}
  Claims <- MCClaims
  MaxReexecutions = 1
CHECK_DEADLOCK FALSE
SYMMETRY MCSymmetry
INVARIANTS IntakeTypeOK NoSilentApproval ExtractRetried CleanClaimAccepted AttemptsBounded AuditMatchesRows
