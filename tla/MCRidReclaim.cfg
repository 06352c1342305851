\* A pool whose domain SID ends in the byte 0xFF is reclaimed.
CONSTANTS
  Client = {c1}
  Pool = {p1}
  LocalPool = {}
  EndsInFF = {p1}
  DetectConflicts = TRUE
  Absent = Absent
  Keep = Keep
  NoTxn = NoTxn
  InitialRid = 2
  BatchSize = 2
  U32 = 8
  BatchRequest = {2, 3}
  MaxCounter = 9
SPECIFICATION Spec
INVARIANT ReclaimReinitialises
