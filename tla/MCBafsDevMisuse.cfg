CONSTANTS
  NULL = NULL
  Thread = {t1, t2}
  Pdev = {p1}
  Ctrl = {c1, c2}
  Group = {g1}
  Names <- AllNames
  File = {f1}
  Minor = {0, 1, 2}
  MaxKept = 1
  Overlap <- AllPairs
  Protocol = FALSE
SPECIFICATION Spec
SYMMETRY Symmetry
INVARIANTS
  MinorsExact
  CoreRefExact
  RegionOwned
  NothingLeft
