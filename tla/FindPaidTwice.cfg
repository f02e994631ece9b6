CONSTANTS
  Thread = {t1, t2}
  Claim = {m1}
  Agent = {a1}
  Nonce = {n1}
  NoClaim = NoClaim
  MaxRequest = 4
  MaxCrash = 0
SPECIFICATION ClaimSpec
CHECK_DEADLOCK FALSE
INVARIANT RedeemsExclude
