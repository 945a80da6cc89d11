--------------------------- MODULE MCDerivedReturns --------------------------
(* Small instances of DerivedReturns. *)
EXTENDS DerivedReturns

CONSTANTS p, q, f1, f2, f3

InOrder == <<f1, f2, f3>>
LeafOr  == {{p}, {p, q}}

R(shape, facts, callee, pins) ==
  [shape |-> shape, facts |-> facts, callee |-> callee, pins |-> pins]

Checked(C)       == R("ident", C, None, {})
Passes(k)        == R("ident", {}, k, {})
Expression       == R("other", {}, None, {})
PinsOne(C, k, c) == R("pinned", C, k, {c})
Vouches(c)       == R("trusted", {}, None, {c})

\* Functions that pin nothing: one return, or two.
Plain ==
  {{}, {Expression}, {Expression, Checked({{p}})}}
  \cup {{Checked(C)} : C \in SUBSET Claim}
  \cup {{Passes(k), r} : k \in Func, r \in {Checked({{p}}), Checked({})} \cup {Passes(l) : l \in Func}}

\* Functions each of whose returns pins the same.
Pinning ==
  {{PinsOne({{p}}, None, {p, q})}}
  \cup {{PinsOne({}, k, c)} : k \in Func, c \in Claim}
  \cup {{Vouches(c)} : c \in Claim}
  \cup {{PinsOne({c}, None, c), PinsOne({}, k, c)} : c \in Claim, k \in Func}
  \cup {{PinsOne({c}, None, c), Vouches(c)} : c \in Claim}

UniformBodies == {b \in Plain \cup Pinning : Uniform(b)}

\* Functions that pin at one return and return something else at another.
MixedBodies == {{PinsOne({{p}}, None, {p}), r} : r \in {Expression} \cup {Passes(k) : k \in Func}}
=============================================================================
