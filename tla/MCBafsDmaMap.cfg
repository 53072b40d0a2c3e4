CONSTANTS
  PageSize = 4
  GpuPageSize = {4, 8}
  U32 = 16
  Size = {0, 1, 4, 5, 8, 12, 13, 15}
  Length = {1, 2, 3, 4}
  Target <- MCTarget
  Cap = {0, 3}
  MaxDma = 4
SPECIFICATION Spec
INVARIANTS
  UnmapMatches
  BusExact
  MappingsCover
  
  MemoryExact
