CONSTANTS
  Exchange = {x1, x2}
  Arbitrator = arb
  Account = {arb, a1, a2}
  Verifier = {v1}
  Credential = {k1}
  Zero = Zero
  MaxAmount = 1
  Deadline = {0, 1}
  MaxTime = 2
  MaxDepth = 2
SPECIFICATION Spec
SYMMETRY Symmetric
CHECK_DEADLOCK FALSE
INVARIANTS PaidOnceAsDecided Solvent
PROPERTIES DecidedForGood
