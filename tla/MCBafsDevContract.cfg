CONSTANTS
  NULL = NULL
  Thread = {t1, t2}
  Pdev = {p1, p2}
  Ctrl = {c1, c2}
  Group = {g1}
  Names <- DistinctNames
  File = {f1, f2}
  Minor = {0, 1, 2}
  MaxKept = 1
  Overlap <- ContractPairs
  Protocol = TRUE
SPECIFICATION Spec
SYMMETRY Symmetry
INVARIANTS
  NoFault
  RefExact
  BoundIsUsable
