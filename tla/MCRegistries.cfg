CONSTANTS
  Thread = {t1, t2}
  Key = {k1, k2}
  NoExchange = NoExchange
  Limit = 2
  MaxDay = 1
  MaxExchange = 3
  MaxPropose = 4
  e1 = e1
  Cred = {c1}
  Exchange = {e1}
  NoCred = NoCred
  Price <- Small
  Asked <- Amounts
  MaxAmount = 3
  MaxPeriod = 1
  MaxGrants = 3
  Claim = {m1, m2}
  Agent = {a1, a2}
  Nonce = {n1}
  NoClaim = NoClaim
  MaxRequest = 5
  MaxCrash = 1
  Closing = {x1, x2}
  Foreign <- Chain2
  MaxImports = 2
  MaxNumber = 2
  MaxCertCall = 3
  MaxCertStarts = 1
SPECIFICATION Spec
SYMMETRY Symmetric
CHECK_DEADLOCK FALSE
INVARIANTS ProposalsAreSound LimitIsKept ClaimsAreSound EntriesLeadBack EntriesStandOnce VerifiesWhenSerial CertificatesStand
PROPERTIES RevokedLetsNothingBegin AppendOnly
