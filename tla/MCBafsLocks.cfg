CONSTANTS
  p1 = p1
  NULL = NULL
  Thread = {t1, t2}
  Proc = {p1}
  Mem = {m1, m2}
  Group = {g1}
  ProcOf <- MCProcOf
  OwnerOf <- MCOwnerOf
  NCtrls = 2
SPECIFICATION FairSpec
CHECK_DEADLOCK FALSE
INVARIANT OneInversion
PROPERTY CallsReturn
