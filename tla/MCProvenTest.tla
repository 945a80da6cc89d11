----------------------------- MODULE MCProvenTest -----------------------------
(* Small instances of ProvenTest. *)
EXTENDS ProvenTest

\* Every predicate a function of its own.
Distinct == [pr \in Pred |-> pr]
=============================================================================
