CONSTANTS
  Thread = {t1, t2}
  Handle = {h1, h2}
  Vdc = {d1, d2}
  NoHandle = NoHandle
  NoVdc = NoVdc
  Ops <- HttpOps
  Timed <- VerifyAndConfirm
  MaxAuth = 2
  MaxVersion = 7
SPECIFICATION Spec
SYMMETRY Symmetric
INVARIANTS TypeOK MoneyIsJournalled ReceiptIsTruthful ClosedIsAccounted LedgerIsJustified DeliveryIsStored
PROPERTIES NothingIsLost ImplementsLifecycle
