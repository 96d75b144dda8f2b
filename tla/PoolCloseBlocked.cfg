\* Errors and discards: closing a pool may never complete.
SPECIFICATION FairSpec
CONSTANTS
  t1 = t1  t2 = t2  t3 = t3
  i1 = i1  i2 = i2  i3 = i3  i4 = i4  i5 = i5  i6 = i6
  Tx = {t1}
  Ids = {i1, i2, i3}
  NoInstance = NoInstance
  MaxSize = 2
  MinSize = 1
  ChangeSize = 1
  ApplyThreshold = 1
  DiscardCount = 0
  Outcomes = {"ok", "fail"}
  MaxApply = 1
  MaxDuds = 0
  ResetsAllowed = FALSE
PROPERTY CloseCompletes
CHECK_DEADLOCK FALSE
