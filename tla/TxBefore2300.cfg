\* A block of version 2.2, with iterators: every write set of one contract.
SPECIFICATION Spec
CONSTANTS
  A = A  B = B  k1 = k1  k2 = k2  v1 = v1  Nil = Nil  Absent = Absent
  Contracts = {A}
  Keys = {k1}
  Values = {Nil, v1}
  Payload = A
  CallContractDepth = 2
  BlockVersion = 220
  PlainKey <- NoField
  FieldBytes <- NoBytes
  Iterators = TRUE
PROPERTY OnlyPutsChangeTheView
CHECK_DEADLOCK FALSE
