CONSTANTS
  NULL = NULL
  Thread = {t1, t2}
  Ctrl = {0, 1}
  MaxGroup = 1
  MaxFd = 2
  MaxReg = 1
  PageSize = 2
  Careful = TRUE
  Failures = TRUE
SPECIFICATION Spec
SYMMETRY Symmetry
INVARIANTS
  CoreKept
  HandleIsRight
