\* A failed initialisation waits for the lock a second reset holds.
SPECIFICATION FairSpec
CONSTANTS
  t1 = t1  t2 = t2  t3 = t3
  i1 = i1  i2 = i2  i3 = i3  i4 = i4  i5 = i5  i6 = i6
  Tx = {t1}
  Ids = {i1, i2}
  NoInstance = NoInstance
  MaxSize = 2
  MinSize = 1
  ChangeSize = 1
  ApplyThreshold = 1
  DiscardCount = 0
  Outcomes = {"ok", "initFail"}
  MaxApply = 1
  MaxDuds = 0
  ResetsAllowed = TRUE
PROPERTY ResetReturns
CHECK_DEADLOCK FALSE
