---------------------------- MODULE SourcePasses ----------------------------
(***************************************************************************)
(* The passes over the syntax of one file of a package being compiled,     *)
(* each a function of its input: scanning functions and rules, finding     *)
(* calls, reading conditions and expressions, deciding literals, erasing   *)
(* contracts.                                                              *)
(***************************************************************************)
EXTENDS Scanner, CallSites, Conditions, Literals, Rewriter

CONSTANTS Functions,   \* declarations with contracts, as in Scanner
          Rules,       \* rule declarations
          Bodies,      \* function bodies with imports, as in CallSites
          Exprs,       \* expressions, as in Conditions
          LitArgs,     \* literals, as in Literals
          ParamTypes,  \* parameter types
          Demanded,    \* what callees ask: [required, ors]
          Files        \* files, as in Rewriter

InputAssumption ==
  /\ UNION {UNION {Operands(c) : c \in ToSet(f.calls)} : f \in Functions} \subseteq PredNode
  /\ \A f \in Functions : WellNamed(f)
  /\ UNION {ToSet(r.from) \cup ToSet(r.given) \cup ToSet(r.to) : r \in Rules} \subseteq PredNode
  /\ \A r \in Rules : r.form # "Given" => r.given = <<>>
  /\ UNION {ToSet(b.body) : b \in Bodies} \subseteq StmtNode
  /\ Exprs \subseteq ExprNode
  /\ \A a \in LitArgs : a.mag \in Nat /\ a.neg \in Nat
  /\ \A f \in Files : WellFormed(f)
  /\ \A T \in ParamTypes : T.kind \in Kinds
  /\ \A d \in Demanded : \A o \in d.ors : o \in Seq(ToSet(o))
ASSUME InputAssumption

VARIABLES pass, input, answer, done

passVars == <<pass, input, answer, done>>

PassInit ==
  /\ answer = <<>> /\ done = FALSE
  /\ \/ pass = "func" /\ input \in Functions
     \/ pass = "rule" /\ input \in Rules
     \/ pass = "calls" /\ input \in Bodies
     \/ pass = "expr" /\ input \in Exprs
     \/ pass = "literal" /\ input \in [arg : LitArgs, type : ParamTypes, asked : Demanded]
     \/ pass = "rewrite" /\ input \in Files

Answers(a) == ~done /\ done' = TRUE /\ answer' = a /\ UNCHANGED <<pass, input>>

Scan      == pass = "func" /\ Answers(ScanFunc(input))
ScanRule  == pass = "rule" /\ Answers(ExtractInferRule(input))
CheckCalls == pass = "calls" /\ Answers(AnalyzeFile(input))
Read      == pass = "expr" /\ Answers([then    |-> CollectGuardFacts[input][FALSE],
                                       else    |-> CollectGuardFacts[input][TRUE],
                                       planted |-> WalkCalls[input]])
Decide    == pass = "literal"
             /\ Answers(EvalLiterals(input.arg, input.asked.required, input.asked.ors))
Erase     == pass = "rewrite" /\ Answers(RewriteSource(input))

PassNext == Scan \/ ScanRule \/ CheckCalls \/ Read \/ Decide \/ Erase

PassSpec == PassInit /\ [][PassNext]_passVars
------------------------------------------------------------------------------
Answered(p) == done /\ pass = p

\* A function whose contracts the scanner accepts without a diagnostic demands
\* of its callers, and promises them, what its contracts say (recordThat,
\* recordReturns, resolveAndFlat, buildParamIndex).
ContractsHarvested == Answered("func") => ContractsAsDeclared(input, answer)

\* The rule that the preprocessor trusts is the rule that infertest verifies
\* (extractInferRule, Rule.Check), and none is lost without a diagnostic.
RulesHarvested == Answered("rule") => RulesAsVerified(input, answer)

\* The preprocessor checks every call of a function with contracts (walkCalls,
\* resolveCallee), at every place where one can stand.
CallsChecked == Answered("calls") => ChecksEveryCall(input, answer)

\* Each branch of an if is analysed with facts that hold whenever it runs
\* (collectGuardFacts).
GuardsTrue == Answered("expr") => GuardFactsTrue(input, answer.then, answer.else)

\* What the calls in an expression prove holds once it has been evaluated
\* (walkCalls, plantFromInlineFactCall).
PlantedTrue == Answered("expr") => PlantedFactsTrue(input, answer.planted)

\* A literal is accepted for a parameter only if the value that arrives there
\* has the predicates (evalLibraryPredicate).
LiteralsTrue ==
  Answered("literal") =>
    LiteralFactsTrue(input.arg, input.type, input.asked.required, input.asked.ors, answer)

\* Erasing the contracts leaves the program without its contracts
\* (applyRewrites), ...
ProgramKept == Answered("rewrite") => KeepsProgram(input, answer)

\* ... every remaining word where it was (blankRange), ...
PlacesKept == Answered("rewrite") => KeepsPlaces(input, answer)

\* ... and no import without a use (appendImportSentinel).
ImportsKept == Answered("rewrite") => KeepsImports(input, answer)
=============================================================================
