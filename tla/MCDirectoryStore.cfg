CONSTANTS
  Client = {c1, c2}
  DetectConflicts = TRUE
  Absent = Absent
  Keep = Keep
  NoTxn = NoTxn
  NilUuid = NilUuid
  Uuid = {NilUuid, u1}
  Dn = {n1, n2}
  Name = {a}
  Val = {x}
  MaxAttr = 1
  MaxChange = 1
  MaxDnt = 2
  NoObject = NoObject
  NoCall = NoCall
SPECIFICATION Spec
SYMMETRY NameSymmetry
INVARIANTS TypeOK UuidIndexSound DntForOne
PROPERTY RefinesDirectory
