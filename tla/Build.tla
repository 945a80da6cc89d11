-------------------------------- MODULE Build --------------------------------
(***************************************************************************)
(* Builds of a program, one planUserPackage per compiled package, and the  *)
(* sidecars through which packages tell each other their contracts.        *)
(*                                                                         *)
(* A package is what the pipeline needs to know of its sources: whether it *)
(* has a contract to tell (required arguments, advertised results, rules), *)
(* which imports it calls without the proof they require, and which        *)
(* imports' advertised results its own proofs rest on. The go command is   *)
(* external: it compiles a package after its imports, skips one whose      *)
(* cached result is up to date, and gives each build a new directory, in   *)
(* which the sidecars are.                                                 *)
(***************************************************************************)
EXTENDS Naturals

CONSTANTS
  Pkg,         \* packages
  Imports,     \* the direct imports of each
  CacheUsed,   \* cached results are reused by later builds
  WritesFail,  \* a sidecar may fail to be written
  MaxBuilds    \* builds considered

ASSUME ImportsAssumption == Imports \in [Pkg -> SUBSET Pkg]
ASSUME FlagsAssumption   == CacheUsed \in BOOLEAN /\ WritesFail \in BOOLEAN
ASSUME BuildsAssumption  == MaxBuilds \in Nat

VARIABLES
  contract,  \* sources: whether a package has a contract
  gap,       \* sources: the imports it calls without proof
  relies,    \* sources: the imports whose results its proofs rest on
  fresh,     \* the package's cached result is up to date
  sidecar,   \* the sidecar is in the present build's directory
  done,      \* packages the present build has finished ...
  compiled,  \* ... and those of them it has compiled
  build,     \* "idle", "running", "failed" or "linked"
  alarms,    \* packages the present build reported
  builds     \* builds started

sources == <<contract, gap, relies>>
vars == <<sources, fresh, sidecar, done, compiled, build, alarms, builds>>

TypeOK ==
  /\ contract \in [Pkg -> BOOLEAN]
  /\ gap \in [Pkg -> SUBSET Pkg] /\ relies \in [Pkg -> SUBSET Pkg]
  /\ fresh \in [Pkg -> BOOLEAN] /\ sidecar \in [Pkg -> BOOLEAN]
  /\ done \in SUBSET Pkg /\ compiled \in SUBSET Pkg /\ alarms \in SUBSET Pkg
  /\ build \in {"idle", "running", "failed", "linked"}
  /\ builds \in Nat

PerImport == {f \in [Pkg -> SUBSET Pkg] : \A k \in Pkg : f[k] \subseteq Imports[k]}

Init ==
  /\ contract \in [Pkg -> BOOLEAN] /\ gap \in PerImport /\ relies \in PerImport
  /\ fresh = [k \in Pkg |-> FALSE] /\ sidecar = [k \in Pkg |-> FALSE]
  /\ done = {} /\ compiled = {} /\ build = "idle" /\ alarms = {} /\ builds = 0

-----------------------------------------------------------------------------
WithContract == {k \in Pkg : contract[k]}

\* The imports a compile knows the contract of: readImportSummaries.
\* Faulty: an import without a sidecar is taken to have a contract.
KnownAssumed == Pkg

Known == {k \in Pkg : contract[k] /\ sidecar[k]}

\* p calls one of K without proof, or rests a proof on another than those: a
\* callee without a summary asks for nothing (recordCallDischarge), and has
\* no postcondition to offer (returnFacts). A proof that rests on a missing
\* summary counts as missing though the obligation may be that of a callee
\* without a summary too: more is reported here than by the code.
Unproven(p, K) == gap[p] \cap K # {} \/ ~(relies[p] \subseteq K)

\* p's compile has diagnostics; there is something wrong with p's sources.
Reported(p) == Unproven(p, Known)
Wrong(p)    == Unproven(p, WithContract)

-----------------------------------------------------------------------------
\* The programmer edits p.
Edit(p) ==
  /\ build # "running" /\ builds < MaxBuilds
  /\ \E c \in BOOLEAN, g, r \in SUBSET Imports[p] :
       /\ contract' = [contract EXCEPT ![p] = c]
       /\ gap' = [gap EXCEPT ![p] = g]
       /\ relies' = [relies EXCEPT ![p] = r]
  /\ fresh' = [fresh EXCEPT ![p] = FALSE]
  /\ build' = "idle" /\ alarms' = {}
  /\ UNCHANGED <<sidecar, done, compiled, builds>>

Start ==
  /\ build # "running" /\ builds < MaxBuilds
  /\ builds' = builds + 1
  /\ build' = "running" /\ done' = {} /\ compiled' = {} /\ alarms' = {}
  /\ sidecar' = [k \in Pkg |-> FALSE]
  /\ fresh' = [k \in Pkg |-> CacheUsed /\ fresh[k]]
  /\ UNCHANGED sources

Ready(p) == build = "running" /\ p \notin done \cup alarms /\ Imports[p] \subseteq done

\* The plan has diagnostics: nothing is compiled, no sidecar is written.
\* Faulty: the package is compiled all the same.
RejectLate(p) ==
  /\ Ready(p) /\ ~fresh[p] /\ Reported(p)
  /\ done' = done \cup {p} /\ compiled' = compiled \cup {p}
  /\ UNCHANGED <<sources, fresh, sidecar, build, alarms, builds>>

Reject(p) ==
  /\ Ready(p) /\ ~fresh[p] /\ Reported(p)
  /\ alarms' = alarms \cup {p}
  /\ UNCHANGED <<sources, fresh, sidecar, done, compiled, build, builds>>

\* The sidecar is written when there is something to tell and writing works;
\* then the rewritten sources are compiled. What imports p is out of date when
\* the compiler's output differs from the last.
Compile(p) ==
  /\ Ready(p) /\ ~fresh[p] /\ ~Reported(p)
  /\ \E written \in BOOLEAN :
       /\ written => contract[p]
       /\ contract[p] /\ ~WritesFail => written
       /\ sidecar' = [sidecar EXCEPT ![p] = written]
  /\ \E changed \in BOOLEAN :
       fresh' = [k \in Pkg |-> k = p \/ (fresh[k] /\ ~(changed /\ p \in Imports[k]))]
  /\ done' = done \cup {p} /\ compiled' = compiled \cup {p}
  /\ UNCHANGED <<sources, build, alarms, builds>>

\* An infrastructure error, or the compiler's own. What the go command still
\* compiles of the rest, it may as well have compiled before.
CompileFails(p) ==
  /\ Ready(p) /\ ~fresh[p]
  /\ build' = "failed"
  /\ UNCHANGED <<sources, fresh, sidecar, done, compiled, alarms, builds>>

\* The go command finds the cached result up to date and runs no tool.
Reuse(p) ==
  /\ Ready(p) /\ fresh[p]
  /\ done' = done \cup {p}
  /\ UNCHANGED <<sources, fresh, sidecar, compiled, build, alarms, builds>>

\* The build ends when no package is left that could be compiled.
End ==
  /\ build = "running" /\ \A p \in Pkg : ~Ready(p)
  /\ build' = IF done = Pkg THEN "linked" ELSE "failed"
  /\ UNCHANGED <<sources, fresh, sidecar, done, compiled, alarms, builds>>

Next ==
  \/ \E p \in Pkg : Edit(p) \/ Reject(p) \/ Compile(p) \/ CompileFails(p) \/ Reuse(p)
  \/ Start \/ End

Spec == Init /\ [][Next]_vars

-----------------------------------------------------------------------------
(***************************************************************************)
(* No silent bypass: when everything was compiled and the program links,   *)
(* no call of it lacks a proof its callee's package requires, and no proof *)
(* rests on a contract nobody declares.                                    *)
(***************************************************************************)
NothingUnchecked == build = "linked" /\ compiled = Pkg => \A p \in Pkg : ~Wrong(p)

(***************************************************************************)
(* The same of what a build compiles when cached results, which tell       *)
(* nothing, make up the rest: every proof rests on contracts that exist,   *)
(* and none is missing between two packages compiled together. It holds at *)
(* any moment, in builds that fail too.                                    *)
(***************************************************************************)
CompiledTogether ==
  build # "idle" =>
    \A p \in compiled :
      /\ relies[p] \subseteq WithContract
      /\ \A k \in gap[p] \cap compiled : ~contract[k]

(***************************************************************************)
(* A package whose imports were compiled is reported only for what is      *)
(* wrong with its sources.                                                 *)
(***************************************************************************)
NoFalseAlarm == \A p \in alarms : Imports[p] \subseteq compiled => Wrong(p)
=============================================================================
