SPECIFICATION Spec
CONSTANTS
  p = p
  q = q
  Pred = {p}
  Claim <- LeafClaims
  Key <- KeyXY
  Root <- RootMC
  Arg = "$arg"
  Params = {"x"}
  Guards <- LeafGuards
  Constructs = {"call", "nested", "assign", "incdec", "escape", "assigncall", "multi", "must", "assignmust", "decl", "silent", "if", "elseif", "that", "selfthat", "block", "loop", "switch", "return", "panic", "outer", "define", "header"}
  MaxStmts = 2
PROPERTIES
  ImplementsCloneRestore
\* The walk ends with the function, or with the first missing obligation.
CHECK_DEADLOCK FALSE
