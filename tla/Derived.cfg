SPECIFICATION Spec
CONSTANTS
  p = p
  q = q
  f1 = f1
  f2 = f2
  f3 = f3
  None = None
  Pred = {p, q}
  Claim <- LeafOr
  Func = {f1, f2, f3}
  Decls <- InOrder
  Bodies <- UniformBodies
  Cap = 8
INVARIANTS
  AdvertisedHold
  DerivedSupported
  SettlesOnLeast
  SettlesBeforeCap
PROPERTY
  OnlyGrows
\* The program stops when its build fails.
CHECK_DEADLOCK FALSE
