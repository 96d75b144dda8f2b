\* A growth between the removal and the replacement of a discarded instance.
SPECIFICATION Spec
CONSTANTS
  t1 = t1  t2 = t2  t3 = t3
  i1 = i1  i2 = i2  i3 = i3  i4 = i4  i5 = i5  i6 = i6
  Tx = {t1, t2}
  Ids = {i1, i2, i3, i4, i5, i6}
  NoInstance = NoInstance
  MaxSize = 4
  MinSize = 2
  ChangeSize = 2
  ApplyThreshold = 0
  DiscardCount = 0
  Outcomes = {"ok", "fail"}
  MaxApply = 1
  MaxDuds = 0
  ResetsAllowed = FALSE
SYMMETRY MCSymmetry
INVARIANT SizeAtMostMax
CHECK_DEADLOCK FALSE
