SPECIFICATION MCSpec
CONSTANTS
  Lines <- MCLines
  ToolPaths = {"/go/compile", "/go/link"}
  Compiler = {"/go/compile"}
  Source = {"a.go", "b.go"}
  CopyOf <- Copies
  Stub = "/tmp/stub.go"
  Functions <- MCFunctions
  Rules <- MCRules
  Predicates = {"a", "b", "c", "lit", "s.ok"}
  Bodies <- MCBodies
  Depth <- MCDepth
  PredNode <- MCPredNode
  ExprNode <- MCExprNode
  CallNode <- MCCallNode
  StmtNode <- MCStmtNode
  Exprs <- MCExprs
  Subjects = {"x", "y"}
  LitArgs <- MCLitArgs
  ParamTypes <- MCParamTypes
  Demanded <- MCDemanded
  Files <- MCFiles
  Own = "own"
  LastSegment <- Segments
  PackageName <- Clauses
  Contracted <- MCContracted
  MaxInt = 7
  Fraction = 2
  PackageOf <- MCPackageOf
  Ending <- MCEnding
INVARIANTS
  TypeOK
  ToolAsInvoked
  SuccessorsRun
  InputsExist
  FilesRemoved
  SuccessIsTheTools
  ContractsHarvested
  RulesHarvested
  CallsChecked
  GuardsTrue
  PlantedTrue
  LiteralsTrue
  ProgramKept
  PlacesKept
  ImportsKept
CHECK_DEADLOCK FALSE
