----------------------------- MODULE CallSites -----------------------------
(***************************************************************************)
(* Which calls the analyzer checks, and against whose contract: the        *)
(* statements it walks (analyzeStmt), the calls it finds in them           *)
(* (walkCalls) and the function it takes a name for (collectImports,       *)
(* resolveCallee, lookupCalleeSummary); against what Go calls.             *)
(*                                                                         *)
(* A call is [at, fn, args]: its place, a name or a qualified one, and the *)
(* calls in its arguments.  A statement is [kind, calls, bodies]: the      *)
(* calls in its own expressions (of a compound statement, in its header)   *)
(* and the lists of statements in it.  An import is [path, name], with     *)
(* name "" for none.                                                       *)
(***************************************************************************)
EXTENDS Syntax

CONSTANTS CallNode,    \* calls, the ones in their arguments among them
          StmtNode,    \* statements, the ones in their bodies among them
          Own,         \* the path of the package being compiled
          LastSegment, \* of each import path
          PackageName, \* of each import path: what its package clause says
          Contracted   \* functions, as <<path, name>>, whose callers must prove something

Simple   == {"expr", "assign", "var", "return"}
Compound == {"block", "if", "for", "range", "switch"}

\* The statements in the bodies of a statement.
Enclosed(s) == UNION {ToSet(b) : b \in ToSet(s.bodies)}

CallAssumption ==
  /\ WellFounded(CallNode, Operands)
  /\ WellFounded(StmtNode, Enclosed)
  /\ UNION {s.calls : s \in StmtNode} \subseteq CallNode
  /\ \A s \in StmtNode : s.kind \in Simple => Enclosed(s) = {}
  /\ \A c \in CallNode : Len(c.fn) # 1 => c.fn[1] # "_"
ASSUME CallAssumption

\* Faulty: the name of an import is the last segment of its path.
AliasBySegment(imp) == LastSegment[imp.path]
AliasOf(imp) == IF imp.name = "" THEN LastSegment[imp.path] ELSE imp.name

\* The paths that a qualifier may stand for; blank and dot imports have none.
CollectImports(imports, q) ==
  {imp.path : imp \in {i \in ToSet(imports) : i.name \notin {"_", "."} /\ AliasOf(i) = q}}

\* resolveCallee and lookupCalleeSummary: at most one function.
ContractsOf(fn, imports) ==
  Contracted \cap
    (IF Len(fn) = 1 THEN {<<Own, fn[1]>>}
     ELSE {<<path, fn[2]>> : path \in CollectImports(imports, fn[1])})

CallsUnder[c \in CallNode] == {c} \cup UNION {CallsUnder[d] : d \in Operands(c)}

\* walkCalls, for the expressions of a statement.
WalkCallSites(calls) == UNION {CallsUnder[c] : c \in calls}

\* analyzeBlock and analyzeStmt: the calls that are checked; the header of a
\* compound statement is not walked, and statements of other kinds not at all.
AnalyzeStmt[s \in StmtNode] ==
  CASE s.kind \in Simple   -> WalkCallSites(s.calls)
    [] s.kind \in Compound -> UNION {AnalyzeStmt[t] : t \in Enclosed(s)}
    [] OTHER -> {}

\* recordCallDischarge: where, and against which contract. Of the contract's
\* parameters those past the call's last argument are passed over in
\* silence, as in f(two()); here a call has an argument for each of them.
RecordCallDischarge(c, imports) == {<<c.at, f>> : f \in ContractsOf(c.fn, imports)}

\* analyzePackageFiles, for a file with its imports and a function body.
AnalyzeFile(f) ==
  UNION {RecordCallDischarge(c, f.imports) : c \in UNION {AnalyzeStmt[s] : s \in ToSet(f.body)}}
------------------------------------------------------------------------------
(* What runs.                                                              *)

\* The functions that Go may mean by the name; one, in a file that compiles.
Denoted(fn, imports) ==
  IF Len(fn) = 1
  THEN {<<Own, fn[1]>>} \cup {<<i.path, fn[1]>> : i \in {j \in ToSet(imports) : j.name = "."}}
  ELSE {<<i.path, fn[2]>> :
          i \in {j \in ToSet(imports) :
                   fn[1] = (IF j.name = "" THEN PackageName[j.path] ELSE j.name)}}

CallsIn[s \in StmtNode] == WalkCallSites(s.calls) \cup UNION {CallsIn[t] : t \in Enclosed(s)}

\* Every call in the function, wherever it stands, is checked against the
\* contract of the function that Go calls there, and against no other.
ChecksEveryCall(f, checked) ==
  checked = UNION {{<<c.at, g>> : g \in Contracted \cap Denoted(c.fn, f.imports)} :
                     c \in UNION {CallsIn[s] : s \in ToSet(f.body)}}

\* No statement is of a kind the analyzer does not know, or calls in a header.
StatementsKnown ==
  \A s \in StmtNode : s.kind \in Simple \cup Compound /\ (s.kind \in Compound => s.calls = {})

\* There is no dot import, and a package not named like its path has a name.
ImportsNamed(f) ==
  \A imp \in ToSet(f.imports) :
    imp.name # "." /\ (imp.name = "" => LastSegment[imp.path] = PackageName[imp.path])
=============================================================================
