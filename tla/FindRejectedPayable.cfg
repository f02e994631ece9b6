CONSTANTS
  Thread = {t1}
  None = None
  Timeout = {None, 1}
  Sla = 1
  MaxTime = 4
  Backend <- PodBackend
SPECIFICATION Spec
CHECK_DEADLOCK FALSE
INVARIANT ProofIsBacked
