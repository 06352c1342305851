\* Two callers on one pool of a store that detects conflicts.  Batches of two
\* RIDs and 7 for 2^32: a few allocations pass the high-water mark several times,
\* saturate it between two batch boundaries, and take the counter past the limit.
CONSTANTS
  Client = {c1, c2}
  Pool = {p1}
  LocalPool = {}
  EndsInFF = {}
  DetectConflicts = TRUE
  Absent = Absent
  Keep = Keep
  NoTxn = NoTxn
  InitialRid = 2
  BatchSize = 2
  U32 = 7
  BatchRequest = {2, 3}
  MaxCounter = 9
SYMMETRY ClientSymmetry
SPECIFICATION Spec
INVARIANTS TypeOK RidUnique HighWater NextRidIsFresh ReclaimReinitialises
