CONSTANTS
  Thread = {t1, t2}
  Handle = {h1, h2}
  Vdc = {d1, d2}
  NoHandle = NoHandle
  NoVdc = NoVdc
  Ops <- RequestOps
  Timed <- NoTimeouts
  MaxAuth = 1
  MaxVersion = 10
SPECIFICATION Spec
INVARIANT SettledIsDualSigned
