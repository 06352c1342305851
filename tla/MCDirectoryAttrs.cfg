CONSTANTS
  Client = {c1}
  DetectConflicts = TRUE
  Absent = Absent
  Keep = Keep
  NoTxn = NoTxn
  NilUuid = NilUuid
  Uuid = {NilUuid}
  Dn = {n1, n2}
  Name = {a}
  Val = {x, y}
  MaxAttr = 1
  MaxChange = 2
  MaxDnt = 2
  NoObject = NoObject
  NoCall = NoCall
SPECIFICATION Spec
SYMMETRY NameSymmetry
PROPERTY PutIsReadBack
