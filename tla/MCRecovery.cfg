CONSTANTS
  Thread = {t1, t2}
  Handle = {h1}
  Vdc = {d1}
  NoHandle = NoHandle
  NoVdc = NoVdc
  Ops <- EveryOp
  Timed <- NoTimeouts
  MaxAuth = 1
  MaxVersion = 8
SPECIFICATION FairSpec
INVARIANT EngineInv
PROPERTY RecoveryIsCompleted
