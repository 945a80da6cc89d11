------------------------------- MODULE Syntax -------------------------------
(***************************************************************************)
(* What expressions, contracts and function bodies have in common: a node  *)
(* is made of nodes of the same kind, and there is an end to it.           *)
(***************************************************************************)
EXTENDS Naturals, Sequences, SequencesExt

CONSTANT Depth(_)  \* of a node, in nodes

Operands(x) == ToSet(x.args)

\* S has what its nodes are made of.
WellFounded(S, Parts(_)) ==
  /\ UNION {Parts(x) : x \in S} \subseteq S
  /\ \A x \in S : Depth(x) \in Nat /\ \A y \in Parts(x) : Depth(y) < Depth(x)
=============================================================================
