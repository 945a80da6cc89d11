----------------------------- MODULE Conditions -----------------------------
(***************************************************************************)
(* What the analyzer reads off an expression: the facts that an            *)
(* if-condition proves for its two branches (collectGuardFacts), and the   *)
(* facts that calls of prove.Must and trust.That inside an expression      *)
(* leave behind (walkCalls, plantFromInlineFactCall).                      *)
(*                                                                         *)
(* An expression is [op, fact, args]: a call of a predicate on a tracked   *)
(* subject has the fact it decides; a comparison with nil the fact NonNil  *)
(* of its subject; the others have operands. All of a condition is         *)
(* evaluated in one world: nothing in it changes what another part of it   *)
(* speaks of, and no initialiser of the if shadows a subject (the walk     *)
(* takes both for the same variable).                                      *)
(***************************************************************************)
EXTENDS Syntax

CONSTANTS ExprNode, \* expressions, their operands among them
          Subjects  \* tracked subjects

Vouching == {"prove.Must", "prove.That", "trust.That"}
Logical  == {"!", "()", "&&", "||"}

ExprAssumption ==
  /\ WellFounded(ExprNode, Operands)
  /\ \A e \in ExprNode :
       /\ e.args \in Seq(Operands(e))
       /\ e.op \in {"!", "()"} => Len(e.args) = 1
       /\ e.op \in {"&&", "||"} => Len(e.args) = 2
       /\ e.op \in {"!=", "=="} => e.fact[2] \in Subjects
ASSUME ExprAssumption

NilOf(v)    == <<"Nil", v>>
NonNilOf(v) == <<"NonNil", v>>

\* The facts that an expression may prove.
Facts ==
  {NilOf(v) : v \in Subjects} \cup {NonNilOf(v) : v \in Subjects}
  \cup {e.fact : e \in {d \in ExprNode : d.op = "pred" \/ d.op \in Vouching}}

\* Faulty: the else branch gets the fact of the then branch.
NilComparisonUnturned(op, v, negated) == IF op = "!=" THEN NonNilOf(v) ELSE NilOf(v)
\* nilCompareVar: what a comparison with nil proves of its subject v.
NilComparison(op, v, negated) == IF (op = "!=") # negated THEN NonNilOf(v) ELSE NilOf(v)

\* The facts proved when e is true, or, negated, when it is false.
CollectGuardFacts[e \in ExprNode] ==
  [negated \in BOOLEAN |->
     CASE e.op = "!"  -> CollectGuardFacts[e.args[1]][~negated]
       [] e.op = "()" -> CollectGuardFacts[e.args[1]][negated]
       [] e.op = "&&" /\ ~negated ->
            CollectGuardFacts[e.args[1]][FALSE] \cup CollectGuardFacts[e.args[2]][FALSE]
       [] e.op \in {"!=", "=="} -> {NilComparison(e.op, e.fact[2], negated)}
       [] e.op = "pred" /\ ~negated -> {e.fact}
       [] OTHER -> {}]

\* Faulty: prove.That plants too, though its error is still to be checked.
PlantFromAnyFactCall(e) == IF e.op \in Vouching THEN {e.fact} ELSE {}
\* prove.That says nothing by itself.
PlantFromInlineFactCall(e) == IF e.op \in {"prove.Must", "trust.That"} THEN {e.fact} ELSE {}

\* Every call in the expression, wherever it stands, is taken to run.
WalkCalls[e \in ExprNode] ==
  PlantFromInlineFactCall(e) \cup UNION {WalkCalls[d] : d \in Operands(e)}
------------------------------------------------------------------------------
(* What Go does with the expression, given the set of facts that hold.     *)

\* A call of anything else, and the result of a function that took the checked
\* value, may be true or false: H holds <<"opaque", e>> when it is true.
Opaque == {<<"opaque", e>> : e \in {d \in ExprNode : d.op \notin Logical \cup {"!=", "==", "pred"}}}

\* Nil and NonNil of one subject exclude each other.
World(H) == \A v \in Subjects : NilOf(v) \in H <=> NonNilOf(v) \notin H
Worlds   == {H \in SUBSET (Facts \cup Opaque) : World(H)}

IsTrue[e \in ExprNode] ==
  [H \in Worlds |->
     CASE e.op = "!"    -> ~IsTrue[e.args[1]][H]
       [] e.op = "()"   -> IsTrue[e.args[1]][H]
       [] e.op = "&&"   -> IsTrue[e.args[1]][H] /\ IsTrue[e.args[2]][H]
       [] e.op = "||"   -> IsTrue[e.args[1]][H] \/ IsTrue[e.args[2]][H]
       [] e.op = "!="   -> NonNilOf(e.fact[2]) \in H
       [] e.op = "=="   -> NilOf(e.fact[2]) \in H
       [] e.op = "pred" -> e.fact \in H
       [] OTHER         -> <<"opaque", e>> \in H]

\* Evaluation ends without a panic: prove.Must panics unless its fact holds,
\* trust.That vouches for it, && and || evaluate their right operand only when
\* the left one does not decide, a function literal is not run here.
Completes[e \in ExprNode] ==
  [H \in Worlds |->
     CASE e.op \in {"prove.Must", "trust.That"} -> e.fact \in H /\ \A d \in Operands(e) : Completes[d][H]
       [] e.op = "func" -> TRUE
       [] e.op = "&&" -> Completes[e.args[1]][H] /\ (IsTrue[e.args[1]][H] => Completes[e.args[2]][H])
       [] e.op = "||" -> Completes[e.args[1]][H] /\ (~IsTrue[e.args[1]][H] => Completes[e.args[2]][H])
       [] OTHER       -> \A d \in Operands(e) : Completes[d][H]]

\* In the branch that is taken, every fact planted for it holds.
GuardFactsTrue(e, then, else) ==
  \A H \in Worlds : (IF IsTrue[e][H] THEN then ELSE else) \subseteq H

\* After the statement, every fact planted by a call in it holds.
PlantedFactsTrue(e, planted) == \A H \in Worlds : Completes[e][H] => planted \subseteq H

\* Nothing that plants a fact stands where evaluation may pass it by.
NothingSkipped ==
  \A e \in ExprNode : /\ e.op \in {"&&", "||"} => WalkCalls[e.args[2]] = {}
                      /\ e.op = "func" => \A d \in Operands(e) : WalkCalls[d] = {}
=============================================================================
