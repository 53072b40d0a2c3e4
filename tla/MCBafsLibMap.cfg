CONSTANTS
  NULL = NULL
  Thread = {t1, t2}
  Ctrl = {0, 1}
  MaxGroup = 1
  MaxFd = 2
  MaxReg = 2
  PageSize = 4096
  Careful = TRUE
  Failures = FALSE
SPECIFICATION Spec
SYMMETRY Symmetry
INVARIANT MapSucceeds
