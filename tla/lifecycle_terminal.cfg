SPECIFICATION Spec
CONSTANTS
  N = 2
  max_attempts <- MCMaxAttempts
  escalate_on_failure = {1}
  Ops = {"execute", "advance", "cancel", "claim", "resolve"}
  Actors = {ann}
  Txns = {t1, t2}
  None = None
  MaxRedeliveries = 0
  MaxResolutions = 1
CHECK_DEADLOCK FALSE
SYMMETRY MCSymmetry
PROPERTIES FollowsDomain
