SPECIFICATION Spec
CONSTANTS
  p = p
  q = q
  Pred = {p}
  Claim <- LeafClaims
  Key <- KeyX
  Root <- RootMC
  Arg = "$arg"
  Params = {"x"}
  Guards <- LeafGuards
  Constructs = {"must", "block", "assign", "outer"}
  MaxStmts = 3
INVARIANTS
  EveryFactHolds
\* The walk ends with the function, or with the first missing obligation.
CHECK_DEADLOCK FALSE
