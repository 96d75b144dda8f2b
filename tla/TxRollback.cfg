\* What a failed call leaves behind.
SPECIFICATION Spec
CONSTANTS
  A = A  B = B  k1 = k1  k2 = k2  v1 = v1  Nil = Nil  Absent = Absent
  Contracts = {A, B}
  Keys = {k1}
  Values = {Nil, v1}
  Payload = A
  CallContractDepth = 1
  BlockVersion = 2040000
  PlainKey <- NoField
  FieldBytes <- NoBytes
  Iterators = FALSE
PROPERTY RollbackKeepsNothing
CHECK_DEADLOCK FALSE
