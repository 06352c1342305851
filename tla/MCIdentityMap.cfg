\* Two callers of one process, with a cache of one entry for two principals,
\* and UIDs that wrap around to the first one after four allocations.
CONSTANTS
  Client = {c1, c2}
  DetectConflicts = TRUE
  Absent = Absent
  Keep = Keep
  NoTxn = NoTxn
  Uuid = {u1, u2}
  Sid = {s1, s2}
  UidBase = 4
  MaxUid = 2
  CacheCapacity = 1
SYMMETRY NameSymmetry
SPECIFICATION Spec
INVARIANTS TypeOK Bijective StaleOnlyWhenMissed UidLeadsBack
