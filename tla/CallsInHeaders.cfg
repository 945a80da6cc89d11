SPECIFICATION MCSpec
CONSTANTS
  Lines = {}
  ToolPaths = {"/go/compile", "/go/link"}
  Compiler = {"/go/compile"}
  Source = {"a.go", "b.go"}
  CopyOf <- Copies
  Stub = "/tmp/stub.go"
  Functions = {}
  Rules = {}
  Predicates = {"a", "b", "c", "lit", "s.ok"}
  Bodies <- MCHeaders
  Depth <- MCDepth
  PredNode = {}
  ExprNode = {}
  CallNode <- MCCallNode
  StmtNode <- HeaderNode
  Exprs = {}
  Subjects = {"x", "y"}
  LitArgs = {}
  ParamTypes <- MCParamTypes
  Demanded <- MCDemanded
  Files = {}
  Own = "own"
  LastSegment <- Segments
  PackageName <- Clauses
  Contracted <- MCContracted
  MaxInt = 7
  Fraction = 2
  PackageOf <- MCPackageOf
  Ending <- MCEnding
INVARIANT
  CallsChecked
CHECK_DEADLOCK FALSE
