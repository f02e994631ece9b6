CONSTANTS
  i1 = i1  i2 = i2
  Item = {i1, i2}
  OutboxOps = {"verify", "confirm", "dispute"}
  NoItem = NoItem
  MaxFlush = 2
  MaxBackups = 1
  l1 = l1  l2 = l2  l3 = l3
  Leg = {l1, l2, l3}
  LegOrder <- Listed
  Optional = {l1}
  MaxRuns = 2
  MaxCalls = 3
  p1 = p1  p2 = p2
  Sub <- Subtasks
  Provider = {p1, p2}
  NoProvider = NoProvider
  Asked <- PriceOf
  Standing <- ScoreOf
  Budget = 8
  PriceWeight = 4
  RepWeight = 3
  MaxGoalRuns = 2
  Deal = {d1}
  Hold = {h1, h2}
  NoDeal = NoDeal
  Cost <- Price
  MaxSeed = 6
  Gas = 2
  SpareGas = 3
  GasRate = 1
  MaxBumps = 3
  SparePayer <- SpareFee
  MaxSponsored = 2
  Job = {j1}
  MaxAsk = 4
  MaxTry = 2
  GoalLegs = 2
  FeeFunds = 1
  k1 = k1  k2 = k2
  Clerk = {k1, k2}
  Shop <- Verifiers
  RuleSet <- Ruled
  Goods <- Delivered
  Meter = {"m1"}
  Kwh = {1, 2}
  MaxShops = 2
  MaxSaves = 3
  Msg <- Requests
  Party <- Signers
  Ways = {"sqlite", "memory"}
  Window = 1
  MaxClock = 2
  MaxAdmit = 3
  MaxFall = 1
SPECIFICATION Spec
CHECK_DEADLOCK FALSE
INVARIANTS OutboxIsHonest ComposerIsSound PatrolIsBacked SupplyChainIsSound WalletIsSound ToolsAreSound VerdictsAreSound GateIsSound
