CONSTANTS
  t1 = t1  t2 = t2
  Trade <- Trades
  AgentOrder <- Agents
  WashThreshold = 2
  MinCluster = 3
  Watched = {"c"}
  Outcome = {"settled", "rejected"}
  MinEdges = 3
  Remote <- Told
  Foreign <- Elsewheres
  Caller = {t1, t2}
  MaxBusy = 3
  ListingId = {"i1", "i2"}
  Mirrored = "i2"
  Seller = {"s1", "s2"}
  NoSeller = "none"
  ManifestId <- ManifestOf
  Offer <- Offers
  Status = {"revoked"}
  Floor = 50
  Effective <- ScoreOf
  Discounted <- PenaltyOf
  Weigh <- Weights
  MaxPrice = 2
  MaxSlow = 2
  Limit = 1
  DiscoverFactor = 2
  Fetch = 2
  Witness = {"w1"}
  NoWitness = "w0"
  Worker = {t1, t2}
  MaxSecond = 1
  MaxVersion = 2
  RequireStake = TRUE
  GateMin = 80
  Bonus = 5
  BonusCap = 25
  MicroMax = 10
  MacroMin = 100
  ChainMax = 40
  Amount = {5, 50, 500}
  Priced = {"USD"}
  Wish <- Wishes
  Cap <- Abilities
  Configured <- Started
  MaxRestart = 1
  Thread = {t1, t2}
  Email = {"e1"}
  AgentId = {"a1"}
  MaxCall = 4
  MaxReboot = 1
  Deal = 2
  MaxFreeze = 3
  MaxOp = 2
  MaxTicket = 2
  MaxFact = 1
  MaxStarts = 3
SPECIFICATION Spec
SYMMETRY Symmetric
CHECK_DEADLOCK FALSE
INVARIANTS ScoresAreHonest ListingsAreSound StakeIsSound  AccountsAreSound DeskIsSound StartIsSound
