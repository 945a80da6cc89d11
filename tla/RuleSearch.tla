----------------------------- MODULE RuleSearch -----------------------------
(***************************************************************************)
(* The backward search for a predicate through the declared inference      *)
(* rules (dischargedViaEventsRec and allDischargeViaEvents), one query.    *)
(* What the event stream answers for each predicate is a set of facts; the *)
(* recursion is an explicit stack. All recursive calls of a query share    *)
(* one visited set, which is never undone.                                 *)
(*                                                                         *)
(* allRules lists the package's own rules in order and then those of each  *)
(* import, walking a Go map anew in every recursive call. Here each import *)
(* has one rule and any may come next; an import with several keeps their  *)
(* order, which is one of these.                                           *)
(***************************************************************************)
EXTENDS Naturals, Sequences

CONSTANTS
  Pred,      \* predicates
  RuleLists, \* the lists of rules in sight: sequences of Rule
  Own,       \* how many of them, the first ones, are the package's own
  Goals      \* the predicates asked for

\* infer.From(from...).Given(...).To(to...): the conditions of Given are
\* discharged like those of From, after them.
Rule == [from : Seq(Pred), to : SUBSET Pred]

ASSUME RulesAssumption == RuleLists \subseteq Seq(Rule)
ASSUME OwnAssumption   == Own \in Nat
ASSUME GoalsAssumption == Goals \subseteq Pred

VARIABLES
  facts,    \* the predicates the event stream has on the subject
  rules,
  query,    \* the predicate asked for
  visited,  \* predicates whose search has begun
  calls,    \* open searches, innermost last
  answer    \* "none" until the query returns

vars == <<facts, rules, query, visited, calls, answer>>

Search == [goal : Pred, tried : SUBSET Nat, trying : BOOLEAN, premises : Seq(Pred)]

TypeOK ==
  /\ facts \in SUBSET Pred
  /\ rules \in RuleLists
  /\ query \in Pred
  /\ visited \in SUBSET Pred
  /\ calls \in Seq(Search)
  /\ answer \in {"none", "yes", "no"}

-----------------------------------------------------------------------------
Top == calls[Len(calls)]
Below(k) == SubSeq(calls, 1, Len(calls) - k)

SearchFor(p) == [goal |-> p, tried |-> {}, trying |-> FALSE, premises |-> <<>>]

Init ==
  /\ facts \in SUBSET Pred
  /\ rules \in RuleLists
  /\ query \in Goals
  /\ IF query \in facts
     THEN visited = {} /\ calls = <<>> /\ answer = "yes"
     ELSE visited = {query} /\ calls = <<SearchFor(query)>> /\ answer = "none"

Candidates(s) == {i \in DOMAIN rules : i \notin s.tried /\ s.goal \in rules[i].to}

\* The package's own rules come first, in order.
NextInOrder(i, s) == \A j \in Candidates(s) : j < i => i > Own /\ j > Own

\* Take up the next rule that concludes the goal.
\* Faulty: a rule that was tried comes up again.
TryRuleAgain(i) ==
  /\ calls # <<>> /\ ~Top.trying
  /\ i \in Candidates(Top) /\ NextInOrder(i, Top)
  /\ calls' = Append(Below(1), [Top EXCEPT !.trying = TRUE, !.premises = rules[i].from])
  /\ UNCHANGED <<facts, rules, query, visited, answer>>

TryRule(i) ==
  /\ calls # <<>> /\ ~Top.trying
  /\ i \in Candidates(Top) /\ NextInOrder(i, Top)
  /\ calls' = Append(Below(1), [Top EXCEPT !.tried = @ \cup {i}, !.trying = TRUE,
                                           !.premises = rules[i].from])
  /\ UNCHANGED <<facts, rules, query, visited, answer>>

Asks == calls # <<>> /\ Top.trying /\ Top.premises # <<>>

\* The search of a caller once its premise has been found, or not found.
\* Faulty: one premise is enough.
GoOnAny(s) == [s EXCEPT !.premises = <<>>]

GoOn(s)   == [s EXCEPT !.premises = Tail(@)]
GiveUp(s) == [s EXCEPT !.trying = FALSE, !.premises = <<>>]

PremiseKnown ==
  /\ Asks /\ Head(Top.premises) \in facts
  /\ calls' = Append(Below(1), GoOn(Top))
  /\ UNCHANGED <<facts, rules, query, visited, answer>>

PremiseVisited ==
  /\ Asks /\ Head(Top.premises) \in visited \ facts
  /\ calls' = Append(Below(1), GiveUp(Top))
  /\ UNCHANGED <<facts, rules, query, visited, answer>>

SearchPremise ==
  /\ Asks /\ Head(Top.premises) \notin visited \cup facts
  /\ visited' = visited \cup {Head(Top.premises)}
  /\ calls' = Append(calls, SearchFor(Head(Top.premises)))
  /\ UNCHANGED <<facts, rules, query, answer>>

\* The innermost search returns; its caller goes on or gives its rule up.
Return(found) ==
  LET caller == calls[Len(calls) - 1] IN
  /\ IF Len(calls) = 1
     THEN calls' = <<>> /\ answer' = (IF found THEN "yes" ELSE "no")
     ELSE /\ calls' = Append(Below(2), IF found THEN GoOn(caller) ELSE GiveUp(caller))
          /\ answer' = answer
  /\ UNCHANGED <<facts, rules, query, visited>>

Conclude == calls # <<>> /\ Top.trying /\ Top.premises = <<>> /\ Return(TRUE)

\* Faulty: the search ends with the first rule that fails.
ExhaustEarly ==
  /\ calls # <<>> /\ ~Top.trying
  /\ Top.tried # {} \/ Candidates(Top) = {}
  /\ Return(FALSE)

Exhaust == calls # <<>> /\ ~Top.trying /\ Candidates(Top) = {} /\ Return(FALSE)

Next ==
  \/ \E i \in DOMAIN rules : TryRule(i)
  \/ PremiseKnown \/ PremiseVisited \/ SearchPremise
  \/ Conclude \/ Exhaust

Spec == Init /\ [][Next]_vars

\* The search is sequential code: it runs on.
FairSpec == Spec /\ WF_vars(Next)

-----------------------------------------------------------------------------
(* What follows from the facts: whatever is in every set closed under the  *)
(* rules.                                                                  *)

Premises(s) == {s[j] : j \in DOMAIN s}

Closed(S) ==
  /\ facts \subseteq S
  /\ \A i \in DOMAIN rules : Premises(rules[i].from) \subseteq S => rules[i].to \subseteq S

Follows(p) == \A S \in SUBSET Pred : Closed(S) => p \in S

(***************************************************************************)
(* The search finds nothing but what follows from the facts by the rules,  *)
(* although alternatives share the visited set and the order changes from  *)
(* call to call.                                                           *)
(***************************************************************************)
Sound == answer = "yes" => Follows(query)

(***************************************************************************)
(* analyzer.go:1450: "rule search is exhaustive so order does not affect   *)
(* correctness". The search finds whatever follows.                        *)
(***************************************************************************)
Exhaustive == answer = "no" => ~Follows(query)

(***************************************************************************)
(* Where no rule has two premises, it does.                                *)
(***************************************************************************)
ChainsExhaustive == (\A i \in DOMAIN rules : Len(rules[i].from) <= 1) => Exhaustive

\* "degenerate cycles terminate": whatever the rules, the query returns.
Returns == <>(answer # "none")
=============================================================================
