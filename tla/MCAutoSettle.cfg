CONSTANTS
  Thread = {t1, t2}
  None = None
  Timeout = {None, 1}
  Sla = 1
  MaxTime = 4
  Backend <- SchemaBackend
SPECIFICATION Spec
SYMMETRY Symmetric
CHECK_DEADLOCK FALSE
INVARIANTS ProofIsBacked OrchestratorFollows MoneyAgrees
