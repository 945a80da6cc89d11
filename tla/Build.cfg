SPECIFICATION Spec
CONSTANTS
  lib = lib
  mid = mid
  app = app
  Pkg = {lib, mid, app}
  Imports <- Triangle
  CacheUsed = TRUE
  WritesFail = FALSE
  MaxBuilds = 3
INVARIANTS
  CompiledTogether
  NoFalseAlarm
\* No build follows the last one considered.
CHECK_DEADLOCK FALSE
