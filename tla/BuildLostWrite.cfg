SPECIFICATION Spec
CONSTANTS
  lib = lib
  mid = mid
  app = app
  Pkg = {lib, mid, app}
  Imports <- Triangle
  CacheUsed = FALSE
  WritesFail = TRUE
  MaxBuilds = 1
INVARIANT NothingUnchecked
\* No build follows the last one considered.
CHECK_DEADLOCK FALSE
