--------------------------- MODULE DerivedReturns ---------------------------
(***************************************************************************)
(* How the postconditions of one package's functions are discovered        *)
(* (analyzePackageFiles): every function is walked again and again with    *)
(* what the passes so far have derived for its callees, until nothing      *)
(* changes or the safety cap is reached; then the claims pinned by         *)
(* proven.Returns are verified, and the program runs.                      *)
(*                                                                         *)
(* One walk is Analyzer's subject. Here a function is the set of its       *)
(* returns: what the walk itself establishes there, whose result is        *)
(* returned, what the return pins. Functions with preconditions differ in  *)
(* nothing but Declared and are left out. The run is a ghost: one value on *)
(* its way up a chain of calls, each returning what the call below gave.   *)
(***************************************************************************)
EXTENDS Naturals, Sequences, FiniteSets

CONSTANTS
  Pred,    \* predicates
  Claim,   \* claims, as in EventStream: a leaf is a singleton
  Func,    \* the functions of the package
  Decls,   \* the order in which they are declared
  None,    \* not a function: the returned value came from no call
  Bodies,  \* the bodies a function may have: sets of returns
  Cap      \* safetyCap

\* ident: return v. pinned, trusted: return proven.Returns(v, ...) and
\* return trust.Returns(v, ...). other: a literal, a call, an expression.
ReturnStmt ==
  [shape : {"ident", "pinned", "trusted", "other"},
   facts : SUBSET Claim, callee : Func \cup {None}, pins : SUBSET Claim]

ASSUME ClaimsAssumption == Claim \subseteq (SUBSET Pred) \ {{}}
ASSUME NoneAssumption   == None \notin Func
\* Every function of the package is declared in one of its files.
ASSUME DeclsAssumption  ==
  Decls \in Seq(Func) /\ \A f \in Func : \E i \in DOMAIN Decls : Decls[i] = f
ASSUME FiniteAssumption == IsFiniteSet(Func) /\ IsFiniteSet(Claim)
ASSUME BodiesAssumption ==
  /\ Bodies \subseteq SUBSET ReturnStmt
  /\ \A b \in Bodies : \A r \in b : r.shape \in {"ident", "other"} => r.pins = {}
ASSUME CapAssumption    == Cap \in Nat \ {0}

VARIABLES
  body,     \* the program
  derived,  \* DerivedReturnPreds and DerivedReturnOrs of each function
  phase,    \* "discovery", then "discharge", then "run" or "failed"
  pos,      \* discovery: the declaration to walk next ...
  round,    \* ... in this round ...
  changed,  \* ... and whether the round recorded anything new
  unwound,  \* ghost: the function that has just returned, or None ...
  value     \* ghost: ... and the predicates true of what it returned

vars == <<body, derived, phase, pos, round, changed, unwound, value>>

TypeOK ==
  /\ body \in [Func -> Bodies]
  /\ derived \in [Func -> SUBSET Claim]
  /\ phase \in {"discovery", "discharge", "run", "failed"}
  /\ pos \in 1..(Len(Decls) + 1)
  /\ round \in 1..Cap
  /\ changed \in BOOLEAN
  /\ unwound \in Func \cup {None}
  /\ value \in SUBSET Pred

-----------------------------------------------------------------------------
(* The summary of a function.                                              *)

Pins(f) == UNION {r.pins : r \in body[f]}

\* The scanner keeps no summary of a function that pins only disjunctions.
Declared(f) == IF \E c \in Pins(f) : \E p \in Pred : c = {p} THEN Pins(f) ELSE {}

\* What f's callers may rely on (returnFacts), given what is derived.
Advertised(f, d) == IF f = None THEN {} ELSE Declared(f) \cup d[f]

\* The facts on the returned value where the walk meets the return.
Established(r, d) == r.facts \cup Advertised(r.callee, d)

\* snapshotReturn sees them only when the result is an identifier.
ReturnSnapshot(r, d) == IF r.shape = "ident" THEN Established(r, d) ELSE {}

\* Faulty: returns of other shapes do not count.
DerivableIdent(f, d) ==
  IF body[f] = {} THEN {}
  ELSE {c \in Claim : \A r \in body[f] : r.shape = "ident" => c \in ReturnSnapshot(r, d)}

\* intersectReturns
Derivable(f, d) ==
  IF body[f] = {} THEN {}
  ELSE {c \in Claim : \A r \in body[f] : c \in ReturnSnapshot(r, d)}

-----------------------------------------------------------------------------
(* The passes.                                                             *)

\* Faulty: a function not walked yet is taken to guarantee everything.
InitOptimistic ==
  /\ body \in [Func -> Bodies]
  /\ derived = [f \in Func |-> Claim]
  /\ phase = "discovery" /\ pos = 1 /\ round = 1 /\ changed = FALSE
  /\ unwound = None /\ value = {}

Init ==
  /\ body \in [Func -> Bodies]
  /\ derived = [f \in Func |-> {}]
  /\ phase = "discovery" /\ pos = 1 /\ round = 1 /\ changed = FALSE
  /\ unwound = None /\ value = {}

\* Faulty: every walk counts as a change, as when lists in map order are compared.
WalkAlwaysChanging ==
  /\ phase = "discovery" /\ pos <= Len(Decls)
  /\ derived' = [derived EXCEPT ![Decls[pos]] = Derivable(Decls[pos], derived)]
  /\ changed' = TRUE
  /\ pos' = pos + 1
  /\ UNCHANGED <<body, phase, round, unwound, value>>

\* Faulty: only the last function of a round decides whether it changed.
WalkForgettingChange ==
  /\ phase = "discovery" /\ pos <= Len(Decls)
  /\ LET f == Decls[pos]
     IN  /\ derived' = [derived EXCEPT ![f] = Derivable(f, derived)]
         /\ changed' = (derived'[f] # derived[f])
  /\ pos' = pos + 1
  /\ UNCHANGED <<body, phase, round, unwound, value>>

Walk ==
  /\ phase = "discovery" /\ pos <= Len(Decls)
  /\ LET f == Decls[pos]
     IN  /\ derived' = [derived EXCEPT ![f] = Derivable(f, derived)]
         /\ changed' = (changed \/ derived'[f] # derived[f])
  /\ pos' = pos + 1
  /\ UNCHANGED <<body, phase, round, unwound, value>>

\* Faulty: a round starts from nothing.
NextRoundAnew ==
  /\ phase = "discovery" /\ pos > Len(Decls) /\ changed /\ round < Cap
  /\ derived' = [f \in Func |-> {}]
  /\ pos' = 1 /\ round' = round + 1 /\ changed' = FALSE
  /\ UNCHANGED <<body, phase, unwound, value>>

NextRound ==
  /\ phase = "discovery" /\ pos > Len(Decls) /\ changed /\ round < Cap
  /\ pos' = 1 /\ round' = round + 1 /\ changed' = FALSE
  /\ UNCHANGED <<body, derived, phase, unwound, value>>

Settle ==
  /\ phase = "discovery" /\ pos > Len(Decls) /\ (~changed \/ round = Cap)
  /\ phase' = "discharge"
  /\ UNCHANGED <<body, derived, pos, round, changed, unwound, value>>

\* An obligation is met by its exact claim or by a leaf among its
\* alternatives.
Meets(C, c) == c \in C \/ \E p \in c : {p} \in C

\* verifyProvenReturns. In a test file a pinned return is a trusted one: its
\* claims are advertised, and not verified.
Verified(r) == r.shape = "pinned" => \A c \in r.pins : Meets(Established(r, derived), c)

Discharge ==
  /\ phase = "discharge"
  /\ phase' = IF \A f \in Func : \A r \in body[f] : Verified(r) THEN "run" ELSE "failed"
  /\ UNCHANGED <<body, derived, pos, round, changed, unwound, value>>

-----------------------------------------------------------------------------
(* The run.                                                                *)

Satisfies(v, C) == \A c \in C : c \cap v # {}

\* What an execution that returns v by r has checked or vouched for itself.
Examined(r, v) ==
  /\ Satisfies(v, r.facts)
  /\ r.shape = "trusted" => Satisfies(v, r.pins)

\* f returns a value of its own making.
ReturnOwn(f, r, v) ==
  /\ phase = "run" /\ r \in body[f] /\ r.callee = None
  /\ Examined(r, v)
  /\ unwound' = f /\ value' = v
  /\ UNCHANGED <<body, derived, phase, pos, round, changed>>

\* f returns what the call that has just returned gave it.
ReturnPassed(f, r) ==
  /\ phase = "run" /\ r \in body[f] /\ unwound # None /\ r.callee = unwound
  /\ Examined(r, value)
  /\ unwound' = f
  /\ UNCHANGED <<body, derived, phase, pos, round, changed, value>>

Next ==
  \/ Walk \/ NextRound \/ Settle \/ Discharge
  \/ \E f \in Func : \E r \in body[f] :
       ReturnPassed(f, r) \/ \E v \in SUBSET Pred : ReturnOwn(f, r, v)

Spec == Init /\ [][Next]_vars

-----------------------------------------------------------------------------
Grows == \A f \in Func : derived[f] \subseteq derived'[f]

(***************************************************************************)
(* "the only way derived returns change is to GROW": no pass withdraws a   *)
(* postcondition an earlier one found, so no caller has relied on a claim  *)
(* that is gone by the discharge pass.                                     *)
(***************************************************************************)
OnlyGrows == [][Grows]_vars

(***************************************************************************)
(* Whenever discovery stops, settled or capped, each function derives no   *)
(* more than its callees' final claims support: the discharge pass and the *)
(* importing packages use a consistent picture.                            *)
(***************************************************************************)
DerivedSupported == \A f \in Func : derived[f] \subseteq Derivable(f, derived)

\* Every return of a function that pins a claim pins it.
Uniform(b) == \A r, s \in b : r.pins = s.pins

(***************************************************************************)
(* A build that passes advertises the truth: whatever a call chain,        *)
(* recursion included, returns satisfies the claims of the function that   *)
(* returns it. README.md:232: "a function with mixed return shapes         *)
(* advertises only what holds at every return site".                       *)
(***************************************************************************)
AdvertisedHold ==
  phase = "run" /\ unwound # None => Satisfies(value, Advertised(unwound, derived))

(***************************************************************************)
(* The order of declarations does not matter: when no round is left to     *)
(* change anything, what is derived is the least solution, the one every   *)
(* other solution contains.                                                *)
(***************************************************************************)
Solutions == {d \in [Func -> SUBSET Claim] : \A f \in Func : Derivable(f, d) \subseteq d[f]}

SettlesOnLeast ==
  phase = "discharge" /\ ~changed =>
    /\ derived \in Solutions
    /\ \A d \in Solutions : \A f \in Func : derived[f] \subseteq d[f]

(***************************************************************************)
(* "terminates well before this": discovery settles within one round more  *)
(* than there are pairs of a function and a claim.                         *)
(***************************************************************************)
SettlesBeforeCap == round <= Cardinality(Func) * Cardinality(Claim) + 1
=============================================================================
