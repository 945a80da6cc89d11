SPECIFICATION Spec
CONSTANTS
  p = p
  q = q
  Pred = {p}
  Claim <- LeafClaims
  Key <- KeyXF
  Root <- RootMC
  Arg = "$arg"
  Params = {"x"}
  Guards <- PathGuards
  Constructs = {"assign", "incdec", "escape", "call", "nested", "assigncall", "must", "assignmust", "that", "if", "elseif", "return", "panic", "block", "loop", "switch", "define"}
  MaxStmts = 3
INVARIANTS
  EveryFactHolds
\* The walk ends with the function, or with the first missing obligation.
CHECK_DEADLOCK FALSE
