------------------------- MODULE AnalyzerRefinement -------------------------
(***************************************************************************)
(* The event-stream analyzer implements the clone-and-restore one. The     *)
(* current fact set is what the lookup finds from the current scope, and   *)
(* the clone a branch will restore is what it finds from the scope the     *)
(* branch was opened in.                                                   *)
(***************************************************************************)
EXTENDS Analyzer

FoundFrom(s) == {f \in Claim \X Key : HasFact(f[1], f[2], s)}
Undated(F)   == {<<f.claim, f.key>> : f \in F}

\* The scope the branch of frame d is walked in.
BranchScope(d) == IF d = Len(stack) THEN current ELSE stack[d + 1].prev

\* The first frame is the function, which nothing encloses.
Saved ==
  [d \in 1..Len(stack) - 1 |->
     [clone |-> FoundFrom(stack[d + 1].prev),
      condition |-> Undated(stack[d + 1].yes \cup stack[d + 1].no),
      branch |-> BranchScope(d + 1)]]

CR == INSTANCE CloneRestore WITH
        Fact <- Claim \X Key, facts <- FoundFrom(current), saved <- Saved

\* Every behaviour of the event-stream walk is one of the clone-and-restore
\* walk: branches start from what held before the statement, siblings do not
\* see each other's facts, and what holds after a statement is what held
\* before it plus facts of its condition.
ImplementsCloneRestore == CR!Spec
=============================================================================
