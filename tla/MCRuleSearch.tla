---------------------------- MODULE MCRuleSearch ----------------------------
(* Small instances of RuleSearch. *)
EXTENDS RuleSearch

CONSTANTS p, q, goal

Lists(R, n) == UNION {[1..k -> R] : k \in 0..n}

RuleOf(from, to) == [from |-> from, to |-> to]

Singles == {{c} : c \in Pred}
Chains  == {RuleOf(<<c>>, T) : c \in Pred, T \in Singles \cup {{p, q}}}
Joins   == {RuleOf(<<c, d>>, T) : c, d \in Pred, T \in Singles}

\* Every list of two rules of one or two premises, and of three with at most
\* one join.
AllLists ==
  Lists(Chains \cup Joins, 2) \cup
  {<<x, y, z>> : x, y, z \in Chains} \cup
  {<<x, y, z>> : x \in Joins, y, z \in Chains} \cup
  {<<y, x, z>> : x \in Joins, y, z \in Chains}
=============================================================================
