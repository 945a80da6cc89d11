----------------------------- MODULE MCAnalyzer -----------------------------
(* Small instances of Analyzer. *)
EXTENDS AnalyzerRefinement

CONSTANTS p, q

KeyX   == {"x", "$arg"}
KeyXF  == {"x", "x.F", "$arg"}
KeyXY  == {"x", "y", "$arg"}
RootMC == [k \in Key |-> IF k = "x.F" THEN "x" ELSE k]

LeafClaims == {{pr} : pr \in Pred}
LeafOrClaims == {{p}, {p, q}}

F(k) == [claim |-> {p}, key |-> k]

\* if pred(k) and if !pred(k), for every key.
LeafGuards ==
  {[yes |-> {F(k)}, no |-> {}] : k \in Key \ {Arg}} \cup
  {[yes |-> {}, no |-> {F(k)}] : k \in Key \ {Arg}}

\* if pred(x.F) and if !pred(x).
PathGuards == {[yes |-> {F("x.F")}, no |-> {}], [yes |-> {}, no |-> {F("x")}]}
=============================================================================
