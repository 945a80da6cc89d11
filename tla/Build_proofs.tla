---------------------------- MODULE Build_proofs ----------------------------
(***************************************************************************)
(* When every sidecar is written, a build checks all calls between the     *)
(* packages it compiles, for every set of packages and whatever imports    *)
(* what, with cached results or without.                                   *)
(***************************************************************************)
EXTENDS Build, TLAPS

SourcesOK ==
  /\ contract \in [Pkg -> BOOLEAN]
  /\ gap \in [Pkg -> SUBSET Pkg] /\ \A k \in Pkg : gap[k] \subseteq Imports[k]
  /\ relies \in [Pkg -> SUBSET Pkg] /\ \A k \in Pkg : relies[k] \subseteq Imports[k]

(***************************************************************************)
(* The invariant: what a build has compiled has told its contract, and     *)
(* what it has compiled or reported comes after all it imports, so that    *)
(* nothing a package needs to know of is compiled later.                   *)
(***************************************************************************)
Told == \A k \in compiled : contract[k] => sidecar[k]

ImportsFirst ==
  /\ compiled \subseteq done
  /\ \A p \in compiled \cup alarms : Imports[p] \subseteq done

BuildInv ==
  /\ TypeOK /\ SourcesOK
  /\ alarms # {} => build # "idle"
  /\ build # "idle" => Told /\ ImportsFirst
  /\ CompiledTogether
  /\ NoFalseAlarm

-----------------------------------------------------------------------------
LEMMA InitInv == Init => BuildInv
BY DEF Init, BuildInv, TypeOK, SourcesOK, PerImport, CompiledTogether, NoFalseAlarm

LEMMA EditInv == ASSUME BuildInv, NEW p \in Pkg, Edit(p) PROVE BuildInv'
<1>1. PICK c \in BOOLEAN, g \in SUBSET Imports[p], r \in SUBSET Imports[p] :
        /\ contract' = [contract EXCEPT ![p] = c]
        /\ gap' = [gap EXCEPT ![p] = g]
        /\ relies' = [relies EXCEPT ![p] = r]
  BY DEF Edit
<1>2. /\ fresh' = [fresh EXCEPT ![p] = FALSE] /\ build' = "idle" /\ alarms' = {}
      /\ UNCHANGED <<sidecar, done, compiled, builds>>
  BY DEF Edit
<1>3. g \in SUBSET Pkg /\ r \in SUBSET Pkg
  BY ImportsAssumption
<1>4. SourcesOK'
  BY <1>1, <1>3 DEF BuildInv, SourcesOK
<1>5. TypeOK'
  BY <1>1, <1>2, <1>3 DEF BuildInv, TypeOK
<1> QED BY <1>2, <1>4, <1>5 DEF BuildInv, CompiledTogether, NoFalseAlarm

LEMMA StartInv == ASSUME BuildInv, Start PROVE BuildInv'
<1>1. /\ build' = "running" /\ done' = {} /\ compiled' = {} /\ alarms' = {}
      /\ sidecar' = [k \in Pkg |-> FALSE] /\ fresh' = [k \in Pkg |-> CacheUsed /\ fresh[k]]
      /\ builds' = builds + 1 /\ UNCHANGED <<contract, gap, relies>>
  BY DEF Start, sources
<1>2. TypeOK' /\ SourcesOK'
  BY <1>1 DEF BuildInv, TypeOK, SourcesOK
<1> QED BY <1>1, <1>2 DEF BuildInv, Told, ImportsFirst, CompiledTogether, NoFalseAlarm

LEMMA RejectInv == ASSUME BuildInv, NEW p \in Pkg, Reject(p) PROVE BuildInv'
<1>1. alarms' = alarms \cup {p} /\ build = "running" /\ Imports[p] \subseteq done
  BY DEF Reject, Ready
<1>2. UNCHANGED <<contract, gap, relies, fresh, sidecar, done, compiled, build, builds>>
  BY DEF Reject, sources
<1>3. ASSUME Imports[p] \subseteq compiled PROVE Wrong(p)
  <2>1. gap[p] \subseteq Imports[p] /\ relies[p] \subseteq Imports[p] /\ Imports[p] \subseteq Pkg
    BY ImportsAssumption DEF BuildInv, SourcesOK
  <2>2. \A k \in Imports[p] : k \in WithContract => k \in Known
    BY <1>1, <1>3 DEF BuildInv, Told, WithContract, Known
  <2>3. Known \subseteq WithContract
    BY DEF Known, WithContract
  <2>4. CASE gap[p] \cap Known # {}
    BY <2>3, <2>4 DEF Wrong, Unproven
  <2>5. CASE ~(relies[p] \subseteq Known)
    BY <2>1, <2>2, <2>5 DEF Wrong, Unproven
  <2> QED BY <2>4, <2>5 DEF Reject, Reported, Unproven
<1>4. TypeOK' /\ SourcesOK'
  BY <1>1, <1>2 DEF BuildInv, TypeOK, SourcesOK
<1>5. NoFalseAlarm'
  BY <1>1, <1>2, <1>3 DEF BuildInv, NoFalseAlarm, Wrong, Unproven, WithContract
<1>6. Told' /\ ImportsFirst' /\ CompiledTogether'
  BY <1>1, <1>2 DEF BuildInv, Told, ImportsFirst, CompiledTogether, WithContract
<1> QED BY <1>1, <1>2, <1>4, <1>5, <1>6 DEF BuildInv

LEMMA CompileInv == ASSUME ~WritesFail, BuildInv, NEW p \in Pkg, Compile(p) PROVE BuildInv'
<1>1. PICK written \in BOOLEAN :
        (contract[p] => written) /\ sidecar' = [sidecar EXCEPT ![p] = written]
  BY DEF Compile
<1>2. PICK changed \in BOOLEAN :
        fresh' = [k \in Pkg |-> k = p \/ (fresh[k] /\ ~(changed /\ p \in Imports[k]))]
  BY DEF Compile
<1>3. /\ done' = done \cup {p} /\ compiled' = compiled \cup {p}
      /\ UNCHANGED <<contract, gap, relies, build, alarms, builds>>
  BY DEF Compile, sources
<1>4. build = "running" /\ p \notin done /\ Imports[p] \subseteq done
  BY DEF Compile, Ready
<1>5. gap[p] \cap Known = {} /\ relies[p] \subseteq Known
  BY DEF Compile, Reported, Unproven
<1>6. TypeOK' /\ SourcesOK'
  BY <1>1, <1>2, <1>3 DEF BuildInv, TypeOK, SourcesOK
<1>7. Told'
  BY <1>1, <1>3, <1>4 DEF BuildInv, TypeOK, Told
<1>8. ImportsFirst'
  BY <1>3, <1>4 DEF BuildInv, ImportsFirst
<1>9. \A k \in Pkg : gap[k] \subseteq Imports[k]
  BY DEF BuildInv, SourcesOK
<1>10. CompiledTogether'
  <2>1. \A k \in gap[p] \cap compiled : ~contract[k]
    BY <1>4, <1>5 DEF BuildInv, TypeOK, Told, Known
  <2>2. relies[p] \subseteq WithContract
    BY <1>5 DEF Known, WithContract
  <2>3. p \notin gap[p]
    BY <1>4, <1>9
  <2>4. \A k \in compiled : p \notin gap[k] /\ k \in Pkg
    BY <1>4, <1>9 DEF BuildInv, ImportsFirst, TypeOK
  <2> QED BY <1>3, <1>4, <2>1, <2>2, <2>3, <2>4 DEF BuildInv, CompiledTogether, WithContract
<1>11. NoFalseAlarm'
  <2>1. \A k \in alarms : p \notin Imports[k]
    BY <1>4 DEF BuildInv, ImportsFirst
  <2> QED BY <1>3, <2>1 DEF BuildInv, NoFalseAlarm, Wrong, Unproven, WithContract
<1> QED BY <1>3, <1>4, <1>6, <1>7, <1>8, <1>10, <1>11 DEF BuildInv

LEMMA ReuseInv == ASSUME BuildInv, NEW p \in Pkg, Reuse(p) PROVE BuildInv'
<1>1. done' = done \cup {p} /\ build = "running"
  BY DEF Reuse, Ready
<1>2. UNCHANGED <<contract, gap, relies, fresh, sidecar, compiled, build, alarms, builds>>
  BY DEF Reuse, sources
<1>3. TypeOK' /\ SourcesOK'
  BY <1>1, <1>2 DEF BuildInv, TypeOK, SourcesOK
<1>4. Told' /\ ImportsFirst'
  BY <1>1, <1>2 DEF BuildInv, Told, ImportsFirst
<1>5. CompiledTogether' /\ NoFalseAlarm'
  BY <1>2 DEF BuildInv, CompiledTogether, NoFalseAlarm, Wrong, Unproven, WithContract
<1> QED BY <1>1, <1>2, <1>3, <1>4, <1>5 DEF BuildInv

\* A build that stops leaves everything else as it is.
LEMMA StopInv ==
  ASSUME BuildInv, UNCHANGED <<sources, fresh, sidecar, done, compiled, alarms, builds>>,
         build' = build \/ (build = "running" /\ build' \in {"failed", "linked"})
  PROVE  BuildInv'
<1>1. UNCHANGED <<contract, gap, relies, fresh, sidecar, done, compiled, alarms, builds>>
  BY DEF sources
<1>2. TypeOK' /\ SourcesOK'
  BY <1>1 DEF BuildInv, TypeOK, SourcesOK
<1>3. NoFalseAlarm'
  BY <1>1 DEF BuildInv, NoFalseAlarm, Wrong, Unproven, WithContract
<1>4. build' # "idle" => build # "idle"
  OBVIOUS
<1>5. build' # "idle" => Told' /\ ImportsFirst'
  BY <1>1, <1>4 DEF BuildInv, Told, ImportsFirst
<1>6. CompiledTogether'
  BY <1>1, <1>4 DEF BuildInv, CompiledTogether, WithContract
<1>7. alarms' # {} => build' # "idle"
  BY <1>1 DEF BuildInv
<1> QED BY <1>2, <1>3, <1>5, <1>6, <1>7 DEF BuildInv

LEMMA NextInv == ASSUME ~WritesFail PROVE BuildInv /\ [Next]_vars => BuildInv'
<1> SUFFICES ASSUME BuildInv, [Next]_vars PROVE BuildInv'
  OBVIOUS
<1>1. ASSUME NEW p \in Pkg, CompileFails(p) PROVE BuildInv'
  BY <1>1, StopInv DEF CompileFails, Ready
<1>2. CASE End
  BY <1>2, StopInv DEF End
<1>3. CASE UNCHANGED vars
  BY <1>3, StopInv DEF vars
<1> QED BY <1>1, <1>2, <1>3, EditInv, StartInv, RejectInv, CompileInv, ReuseInv DEF Next

LEMMA InvHolds == ASSUME ~WritesFail PROVE Spec => []BuildInv
<1>1. BuildInv /\ [Next]_vars => BuildInv'
  BY NextInv
<1> QED BY <1>1, InitInv, PTL DEF Spec

-----------------------------------------------------------------------------
(***************************************************************************)
(* With every sidecar written, the packages a build compiles are checked   *)
(* against each other, whatever is cached and however many builds and      *)
(* edits preceded.                                                         *)
(***************************************************************************)
THEOREM CompiledChecked ==
  ASSUME ~WritesFail PROVE Spec => []CompiledTogether
<1>1. BuildInv => CompiledTogether
  BY DEF BuildInv
<1> QED BY <1>1, InvHolds, PTL

(***************************************************************************)
(* So a program all of whose packages are compiled in one build, and that  *)
(* links, has had all its calls checked.                                   *)
(***************************************************************************)
THEOREM FullBuildChecksAll ==
  ASSUME ~WritesFail PROVE Spec => []NothingUnchecked
<1>1. BuildInv => NothingUnchecked
  <2> SUFFICES ASSUME BuildInv, build = "linked", compiled = Pkg, NEW p \in Pkg
               PROVE  ~Wrong(p)
    BY DEF NothingUnchecked
  <2>1. relies[p] \subseteq WithContract /\ \A k \in gap[p] \cap Pkg : ~contract[k]
    BY DEF BuildInv, CompiledTogether
  <2> QED BY <2>1 DEF Wrong, Unproven, WithContract
<1> QED BY <1>1, InvHolds, PTL

(***************************************************************************)
(* And no package whose imports were compiled is reported without reason.  *)
(***************************************************************************)
THEOREM FoundedAlarms ==
  ASSUME ~WritesFail PROVE Spec => []NoFalseAlarm
<1>1. BuildInv => NoFalseAlarm
  BY DEF BuildInv
<1> QED BY <1>1, InvHolds, PTL
=============================================================================
