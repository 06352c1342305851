CONSTANTS
  n1 = n1
  n2 = n2
  n3 = n3
  Node = {n1, n2, n3}
  Quorum = {{n1, n2}, {n1, n3}, {n2, n3}}
  Nil = Nil
  MaxTerm = 2
  MaxLog = 2
SPECIFICATION Spec
SYMMETRY NodeSymmetry
INVARIANTS TypeOK ElectionSafety LogMatching AcknowledgedKept LeaderCompleteness
