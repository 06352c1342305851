\* Two allocations of a UID, one after the other.
CONSTANTS
  Client = {c1}
  DetectConflicts = TRUE
  Absent = Absent
  Keep = Keep
  NoTxn = NoTxn
  Uuid = {u1, u2}
  Sid = {s1}
  UidBase = 4
  MaxUid = 2
  CacheCapacity = 1
SPECIFICATION Spec
INVARIANT UidsStartAtBase
