CONSTANTS
  t1 = t1
  t2 = t2
  c1 = c1
  c2 = c2
  f1 = f1
  f2 = f2
  NULL = NULL
  Thread = {t1, t2}
  File = {f2}
  GroupFile = {f2}
  Ctrl = {c1, c2}
  CtrlsOf <- MCCtrlsOf
  Mem = {m1}
  Dma = {d1}
  Addr = {a1, a2}
  MaxId = 1
  Loc = {"CPU", "CUDA", "OTHER"}
  Overlap <- AllPairs
  Protocol = FALSE
SPECIFICATION Spec
SYMMETRY Symmetry
INVARIANTS
  CtrlRefExact
  DmaListsSound
  TablesBacked
