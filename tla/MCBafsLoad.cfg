CONSTANTS
  NULL = NULL
  Thread = {t1, t2}
  Proc = {p1, p2}
  Pid = {1}
  PidOf <- MCPidOf
  File = {f1, f2}
  Ctx = {c1, c2, c3}
  MaxLeak = 1
  Overlap <- ContractPairs
  Inherit = FALSE
  Ctrl = {k1, k2}
  Group = {g1}
  MaxLoads = 2
  EarlyOpen = FALSE
  KeepGroups = FALSE
SPECIFICATION LoadSpec
SYMMETRY Symmetry
INVARIANTS
  NoFault
  OwnContext
  DevicesBacked
  CodeUnused
  AllGivenBack
