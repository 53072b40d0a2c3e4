CONSTANTS
  t1 = t1
  t2 = t2
  c1 = c1
  c2 = c2
  f1 = f1
  f2 = f2
  NULL = NULL
  Thread = {t1, t2}
  File = {f1, f2}
  GroupFile = {f2}
  Ctrl = {c1, c2}
  CtrlsOf <- MCCtrlsOf
  Mem = {m1}
  Dma = {d1, d2}
  Addr = {a1}
  MaxId = 1
  Loc = {"CPU", "CUDA"}
  Overlap <- RacePairs
  Protocol = TRUE
SPECIFICATION FairSpec
INVARIANTS
  CpuDmaPagesPinned
  CallbackSafe
PROPERTIES
  ReleasedIsFreed
