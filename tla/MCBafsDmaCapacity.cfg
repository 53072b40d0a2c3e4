CONSTANTS
  PageSize = 4
  GpuPageSize = {4, 8}
  U32 = 16
  Size = {5}
  Length = {1, 2, 3, 4}
  Target <- SmallTarget
  Cap = {2, 4}
  MaxDma = 4
SPECIFICATION Spec
INVARIANT CapacityRespected
