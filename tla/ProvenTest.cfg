SPECIFICATION Spec
CONSTANTS
  Other = Other
  None = None
  Goroutine = {g1, g2}
  Pred = {p, q}
  Code <- Distinct
  MaxDepth = 1
  Alone = TRUE
INVARIANTS
  TypeOK
  ScopedFlag
  VerdictsTrue
PROPERTY
  SilentOutside
