SPECIFICATION Spec
CONSTANTS
  p = p
  q = q
  Pred = {p, q}
  Claim <- LeafOrClaims
  Key <- KeyX
  Root <- RootMC
  Arg = "$arg"
  Params = {"x"}
  Guards <- LeafGuards
  Constructs = {"if", "elseif", "return", "assign", "must", "define", "decl", "header", "block", "loop", "silent", "assigncall", "assignmust", "escape", "outer"}
  MaxStmts = 3
INVARIANTS
  TypeOK
  FreshFactsHold
  FoundFactsHold
  DerivedReturnsHold
\* The walk ends with the function, or with the first missing obligation.
CHECK_DEADLOCK FALSE
