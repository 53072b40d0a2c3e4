CONSTANTS
  p1 = p1
  p2 = p2
  p3 = p3
  NULL = NULL
  Thread = {t1, t2}
  Proc = {p1, p2, p3}
  Pid = {1, 2}
  PidOf <- MCPidOf
  File = {f1, f2, f3}
  Ctx = {c1, c2, c3}
  MaxLeak = 1
  Overlap <- AllPairs
  Inherit = TRUE
SPECIFICATION Spec
SYMMETRY Symmetry
INVARIANTS
  TableExact
  RefExact
  PidRefExact
PROPERTIES
  ImplementsAbs
