---------------------------- MODULE CloneRestore ----------------------------
(***************************************************************************)
(* What the event stream stands for: the analyzer it replaced, which kept  *)
(* one mutable set of facts, cloned it on entering a branch and restored   *)
(* the clone on leaving (analyzer_events.go:15-20 and 66-69, and           *)
(* analyzer_resolver.go:26-27, name it as the behaviour to preserve).      *)
(*                                                                         *)
(* facts is what holds here. saved holds, for each open branch, innermost  *)
(* last, the clone to restore, the facts its condition may contribute and  *)
(* which branch of the statement is being walked.                          *)
(***************************************************************************)
EXTENDS Naturals, Sequences

CONSTANTS Fact

VARIABLES facts, saved

Init == facts \in SUBSET Fact /\ saved = <<>>

Last  == saved[Len(saved)]
Front == SubSeq(saved, 1, Len(saved) - 1)

\* now is the clone `base` and some of the condition's facts, no others.
Restores(now, base, condition) == base \subseteq now /\ now \subseteq base \cup condition

\* Straight-line statements plant and forget; no clone changes.
Work == facts' \in SUBSET Fact /\ saved' = saved

\* A branch starts from a clone of what holds (the two-statement prove.That
\* form has forgotten its target before).
Enter ==
  /\ Len(saved') = Len(saved) + 1
  /\ \A i \in DOMAIN saved : saved'[i] = saved[i]
  /\ LET opened == saved'[Len(saved')]
     IN  /\ opened.clone \subseteq facts
         /\ Restores(facts', opened.clone, opened.condition)

\* The next branch of the same statement starts from the same clone.
NextBranch ==
  /\ saved # <<>>
  /\ Len(saved') = Len(saved)
  /\ LET b == saved'[Len(saved)].branch
     IN  b # Last.branch /\ saved' = Append(Front, [Last EXCEPT !.branch = b])
  /\ Restores(facts', Last.clone, Last.condition)

\* The same, straight into a statement nested in that branch (else if).
NextNested ==
  /\ saved # <<>>
  /\ Len(saved') = Len(saved) + 1
  /\ \A i \in DOMAIN Front : saved'[i] = saved[i]
  /\ LET sibling == saved'[Len(saved)]
         opened  == saved'[Len(saved')]
     IN  /\ sibling = [Last EXCEPT !.branch = sibling.branch]
         /\ Restores(opened.clone, Last.clone, Last.condition)
         /\ Restores(facts', opened.clone, opened.condition)

\* Nothing learnt inside survives but what the condition says.
Leave ==
  /\ saved # <<>>
  /\ saved' = Front
  /\ Restores(facts', Last.clone, Last.condition)

Next == Work \/ Enter \/ NextBranch \/ NextNested \/ Leave

Spec == Init /\ [][Next]_<<facts, saved>>
=============================================================================
