\* Every outcome of a run, resets, failing creations, two transactions.
SPECIFICATION Spec
CONSTANTS
  t1 = t1  t2 = t2  t3 = t3
  i1 = i1  i2 = i2  i3 = i3  i4 = i4  i5 = i5  i6 = i6
  Tx = {t1, t2}
  Ids = {i1, i2, i3, i4}
  NoInstance = NoInstance
  MaxSize = 2
  MinSize = 1
  ChangeSize = 1
  ApplyThreshold = 0
  DiscardCount = 0
  Outcomes = {"ok", "fail", "initFail", "panic"}
  MaxApply = 1
  MaxDuds = 1
  ResetsAllowed = TRUE
VIEW MCView
SYMMETRY MCSymmetry
INVARIANTS TypeOK InstanceInOnePlace SizeIsExact NoSendOnClosedChannel NoResetOfClosedPool
CHECK_DEADLOCK FALSE
