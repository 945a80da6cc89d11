-------------------------- MODULE RuleSearch_proofs --------------------------
(***************************************************************************)
(* The rule search is sound, for every set of rules, whatever their order, *)
(* and complete where no rule has two premises.                            *)
(***************************************************************************)
EXTENDS RuleSearch, TLAPS

(***************************************************************************)
(* The invariant. In a search that is trying a rule, the goal follows once *)
(* the premises still to be found do; each search was begun for the next   *)
(* premise of the one below it, the first for the query.                   *)
(***************************************************************************)
Reduced(s) ==
  s.trying => \A S \in SUBSET Pred :
                Closed(S) /\ Premises(s.premises) \subseteq S => s.goal \in S

Waiting(s, p) == s.trying /\ s.premises # <<>> /\ Head(s.premises) = p

Linked ==
  /\ calls # <<>> => calls[1].goal = query
  /\ \A n \in 1..(Len(calls) - 1) : Waiting(calls[n], calls[n + 1].goal)

SearchInv ==
  /\ \A n \in DOMAIN calls : Reduced(calls[n])
  /\ Linked
  /\ Sound

-----------------------------------------------------------------------------
(* The stack.                                                              *)

LEMMA TopType == TypeOK /\ calls # <<>> => Len(calls) \in Nat /\ Len(calls) >= 1 /\ Top \in Search
BY DEF TypeOK, Top

LEMMA BelowIs ==
  ASSUME TypeOK, NEW k \in {1, 2}, Len(calls) >= k
  PROVE  /\ Below(k) \in Seq(Search)
         /\ Len(Below(k)) = Len(calls) - k
         /\ \A n \in 1..(Len(calls) - k) : Below(k)[n] = calls[n]
BY DEF TypeOK, Below

LEMMA TailPremises ==
  ASSUME NEW s \in Seq(Pred), s # <<>>
  PROVE  /\ Head(s) \in Pred
         /\ Tail(s) \in Seq(Pred)
         /\ Premises(s) \subseteq Premises(Tail(s)) \cup {Head(s)}
<1>1. \A n \in 1..Len(s) : n = 1 \/ (n - 1 \in 1..Len(Tail(s)) /\ s[n] = Tail(s)[n - 1])
  OBVIOUS
<1>2. \A n \in 1..Len(s) : s[n] = Head(s) \/ s[n] \in Premises(Tail(s))
  <2>1. \A n \in 1..Len(Tail(s)) : Tail(s)[n] \in Premises(Tail(s))
    BY DEF Premises
  <2> QED BY <1>1, <2>1
<1>3. DOMAIN s = 1..Len(s)
  OBVIOUS
<1>4. Premises(s) \subseteq Premises(Tail(s)) \cup {Head(s)}
  BY <1>2, <1>3 DEF Premises
<1> QED BY <1>4

LEMMA GoOnType ==
  ASSUME NEW s \in Search
  PROVE  GiveUp(s) \in Search /\ (s.premises # <<>> => GoOn(s) \in Search)
<1>1. GiveUp(s) \in Search
  <2>1. <<>> \in Seq(Pred)
    OBVIOUS
  <2> QED BY <2>1 DEF Search, GiveUp
<1>2. ASSUME s.premises # <<>> PROVE GoOn(s) \in Search
  <2>1. Tail(s.premises) \in Seq(Pred)
    BY <1>2, TailPremises DEF Search
  <2> QED BY <2>1 DEF Search, GoOn
<1> QED BY <1>1, <1>2

LEMMA RuleType ==
  ASSUME TypeOK, NEW i \in DOMAIN rules
  PROVE  rules[i].from \in Seq(Pred) /\ rules[i].to \in SUBSET Pred /\ i \in Nat
<1>1. rules \in Seq(Rule)
  BY RulesAssumption DEF TypeOK
<1>2. i \in 1..Len(rules) /\ Len(rules) \in Nat
  BY <1>1
<1>3. rules[i] \in Rule
  BY <1>1, <1>2
<1> QED BY <1>2, <1>3 DEF Rule

\* The innermost search, or the one below it, is replaced.
LEMMA Replaced ==
  ASSUME TypeOK, Linked, NEW k \in {1, 2}, Len(calls) >= k,
         NEW t \in Search, t.goal = calls[Len(calls) - k + 1].goal,
         calls' = Append(Below(k), t), query' = query
  PROVE  /\ calls' \in Seq(Search)
         /\ Linked'
         /\ \A n \in DOMAIN calls' : calls'[n] = t \/ \E m \in DOMAIN calls : calls'[n] = calls[m]
<1> DEFINE m == Len(calls) - k
<1>1. calls \in Seq(Search) /\ Len(calls) \in Nat /\ m \in Nat
  BY DEF TypeOK
<1>2. /\ Below(k) \in Seq(Search) /\ Len(Below(k)) = m
      /\ \A n \in 1..m : Below(k)[n] = calls[n]
  BY BelowIs
<1> HIDE DEF m
<1>3. /\ calls' \in Seq(Search) /\ Len(calls') = m + 1
      /\ calls'[m + 1] = t /\ \A n \in 1..m : calls'[n] = calls[n]
  BY <1>1, <1>2
<1>4. \A n \in 1..(m + 1) : calls'[n].goal = calls[n].goal
  <2>1. t.goal = calls[m + 1].goal
    BY DEF m
  <2> QED BY <1>1, <1>3, <2>1
<1>5. m + 1 \in 1..Len(calls) /\ 1..m \subseteq 1..(Len(calls) - 1)
  BY <1>1 DEF m
<1>6. Linked'
  <2>1. calls # <<>> /\ 1 \in 1..(m + 1)
    BY <1>1, <1>5
  <2>2. calls'[1].goal = query'
    BY <1>4, <2>1 DEF Linked
  <2>3. \A n \in 1..m : Waiting(calls'[n], calls'[n + 1].goal)
    <3>1. \A n \in 1..m : n + 1 \in 1..(m + 1)
      BY <1>1
    <3> QED BY <1>3, <1>4, <1>5, <3>1 DEF Linked
  <2>4. Len(calls') - 1 = m
    BY <1>1, <1>3
  <2> QED BY <2>2, <2>3, <2>4 DEF Linked, Waiting
<1>7. \A n \in 1..(m + 1) : calls'[n] = t \/ \E j \in DOMAIN calls : calls'[n] = calls[j]
  <2>1. \A n \in 1..m : n \in DOMAIN calls
    BY <1>1, <1>5
  <2>2. \A n \in 1..(m + 1) : n = m + 1 \/ n \in 1..m
    BY <1>1
  <2> QED BY <1>3, <2>1, <2>2
<1> QED BY <1>3, <1>6, <1>7

-----------------------------------------------------------------------------
(* What a step does to the searches.                                       *)

\* A premise that is in every closed set may be struck off.
LEMMA GoOnReduced ==
  ASSUME NEW s \in Search, Reduced(s), s.trying, s.premises # <<>>,
         \A S \in SUBSET Pred : Closed(S) => Head(s.premises) \in S
  PROVE  Reduced(GoOn(s))
<1>1. /\ GoOn(s).goal = s.goal
      /\ GoOn(s).premises = Tail(s.premises)
  BY DEF GoOn, Search
<1>2. Premises(s.premises) \subseteq Premises(Tail(s.premises)) \cup {Head(s.premises)}
  BY TailPremises DEF Search
<1> QED BY <1>1, <1>2 DEF Reduced

LEMMA GiveUpReduced == ASSUME NEW s \in Search PROVE Reduced(GiveUp(s))
BY DEF Reduced, GiveUp, Search

\* Closed sets stay closed: the facts and the rules do not change.
LEMMA SameClosed ==
  ASSUME UNCHANGED <<facts, rules>>
  PROVE  \A s : Reduced(s)' <=> Reduced(s)
BY DEF Reduced, Closed, Premises
-----------------------------------------------------------------------------
(* One lemma per action.                                                   *)

Kept == TypeOK' /\ SearchInv'

LEMMA TypeFromCalls ==
  ASSUME TypeOK, UNCHANGED <<facts, rules, query>>, visited' \in SUBSET Pred,
         calls' \in Seq(Search), answer' \in {"none", "yes", "no"}
  PROVE  TypeOK'
BY DEF TypeOK

LEMMA SameSound ==
  ASSUME Sound, UNCHANGED <<facts, rules, query, answer>> PROVE Sound'
BY DEF Sound, Follows, Closed, Premises

\* The innermost search, or the one below it, goes on as the reduced search t.
LEMMA ReplacedKept ==
  ASSUME TypeOK, SearchInv, NEW k \in {1, 2}, Len(calls) >= k,
         NEW t \in Search, t.goal = calls[Len(calls) - k + 1].goal, Reduced(t),
         calls' = Append(Below(k), t), UNCHANGED <<facts, rules, query, visited, answer>>
  PROVE  Kept
<1>1. /\ calls' \in Seq(Search)
      /\ Linked'
      /\ \A n \in DOMAIN calls' : calls'[n] = t \/ \E m \in DOMAIN calls : calls'[n] = calls[m]
  BY Replaced DEF SearchInv
<1>2. TypeOK'
  BY <1>1, TypeFromCalls DEF TypeOK
<1>3. \A n \in DOMAIN calls' : Reduced(calls'[n])
  BY <1>1 DEF SearchInv
<1>4. \A n \in DOMAIN calls' : Reduced(calls[n])'
  BY <1>3, SameClosed DEF Reduced, Closed, Premises
<1>5. Sound'
  BY SameSound DEF SearchInv
<1> QED BY <1>1, <1>2, <1>4, <1>5 DEF Kept, SearchInv

LEMMA TryRuleKept ==
  ASSUME TypeOK, SearchInv, NEW i \in DOMAIN rules, TryRule(i) PROVE Kept
<1> DEFINE t == [Top EXCEPT !.tried = @ \cup {i}, !.trying = TRUE,
                            !.premises = rules[i].from]
<1>1. Top \in Search /\ Len(calls) \in Nat /\ Len(calls) >= 1
  BY TopType DEF TryRule
<1>2. rules[i].from \in Seq(Pred) /\ i \in Nat /\ Top.goal \in rules[i].to
  BY RuleType DEF TryRule, Candidates
<1>3. t \in Search
  BY <1>1, <1>2 DEF Search
<1>4. t.goal = Top.goal /\ t.premises = rules[i].from
  BY <1>1 DEF Search
<1>5. Reduced(t)
  BY <1>2, <1>4 DEF Reduced, Closed
<1>6. Top = calls[Len(calls) - 1 + 1]
  BY <1>1 DEF Top
<1>7. calls' = Append(Below(1), t) /\ UNCHANGED <<facts, rules, query, visited, answer>>
  BY DEF TryRule
<1> HIDE DEF t
<1> QED BY <1>1, <1>3, <1>4, <1>5, <1>6, <1>7, ReplacedKept

LEMMA TopReduced == TypeOK /\ SearchInv /\ calls # <<>> => Reduced(Top)
<1>1. TypeOK /\ calls # <<>> => Len(calls) \in DOMAIN calls
  BY DEF TypeOK
<1> QED BY <1>1 DEF SearchInv, Top

LEMMA PremiseKnownKept == TypeOK /\ SearchInv /\ PremiseKnown => Kept
<1> SUFFICES ASSUME TypeOK, SearchInv, PremiseKnown PROVE Kept
  OBVIOUS
<1>1. Top \in Search /\ Len(calls) \in Nat /\ Len(calls) >= 1 /\ Reduced(Top)
  BY TopType, TopReduced DEF PremiseKnown, Asks
<1>2. Top.trying /\ Top.premises # <<>> /\ Head(Top.premises) \in facts
  BY DEF PremiseKnown, Asks
<1>3. Reduced(GoOn(Top))
  BY <1>1, <1>2, GoOnReduced DEF Closed
<1>4. GoOn(Top) \in Search /\ GoOn(Top).goal = Top.goal
  BY <1>1, <1>2, GoOnType DEF GoOn, Search
<1>5. Top = calls[Len(calls) - 1 + 1]
  BY <1>1 DEF Top
<1>6. calls' = Append(Below(1), GoOn(Top)) /\ UNCHANGED <<facts, rules, query, visited, answer>>
  BY DEF PremiseKnown
<1> QED BY <1>1, <1>3, <1>4, <1>5, <1>6, ReplacedKept

LEMMA PremiseVisitedKept == TypeOK /\ SearchInv /\ PremiseVisited => Kept
<1> SUFFICES ASSUME TypeOK, SearchInv, PremiseVisited PROVE Kept
  OBVIOUS
<1>1. Top \in Search /\ Len(calls) \in Nat /\ Len(calls) >= 1
  BY TopType DEF PremiseVisited, Asks
<1>2. GiveUp(Top) \in Search /\ GiveUp(Top).goal = Top.goal /\ Reduced(GiveUp(Top))
  BY <1>1, GoOnType, GiveUpReduced DEF GiveUp, Search
<1>3. Top = calls[Len(calls) - 1 + 1]
  BY <1>1 DEF Top
<1>4. calls' = Append(Below(1), GiveUp(Top)) /\ UNCHANGED <<facts, rules, query, visited, answer>>
  BY DEF PremiseVisited
<1> QED BY <1>1, <1>2, <1>3, <1>4, ReplacedKept

LEMMA SearchPremiseKept == TypeOK /\ SearchInv /\ SearchPremise => Kept
<1> SUFFICES ASSUME TypeOK, SearchInv, SearchPremise PROVE Kept
  OBVIOUS
<1> DEFINE p == Head(Top.premises)
           m == Len(calls)
<1>1. Top \in Search /\ m \in Nat /\ m >= 1 /\ calls \in Seq(Search)
  BY TopType DEF SearchPremise, Asks, TypeOK
<1>2. p \in Pred /\ Top.trying /\ Top.premises # <<>>
  BY <1>1, TailPremises DEF SearchPremise, Asks, Search
<1>3. Waiting(Top, p) /\ Top = calls[m]
  BY <1>2 DEF Waiting, Top
<1>4. /\ calls' = Append(calls, SearchFor(p)) /\ visited' = visited \cup {p}
      /\ UNCHANGED <<facts, rules, query, answer>>
  BY DEF SearchPremise
<1>5. SearchFor(p) \in Search /\ SearchFor(p).goal = p /\ Reduced(SearchFor(p))
  <2>1. <<>> \in Seq(Pred)
    OBVIOUS
  <2> QED BY <1>2, <2>1 DEF SearchFor, Search, Reduced
<1> HIDE DEF p, m
<1>6. /\ calls' \in Seq(Search) /\ Len(calls') = m + 1
      /\ calls'[m + 1] = SearchFor(p) /\ \A n \in 1..m : calls'[n] = calls[n]
  BY <1>1, <1>4, <1>5 DEF m
<1>7. TypeOK'
  BY <1>2, <1>4, <1>6, TypeFromCalls DEF TypeOK
<1>8. \A n \in DOMAIN calls' : Reduced(calls'[n])
  <2>1. \A n \in 1..(m + 1) : n = m + 1 \/ n \in 1..m
    BY <1>1
  <2>2. \A n \in 1..m : n \in DOMAIN calls
    BY <1>1 DEF m
  <2> QED BY <1>5, <1>6, <2>1, <2>2 DEF SearchInv
<1>9. \A n \in DOMAIN calls' : Reduced(calls[n])'
  BY <1>4, <1>8, SameClosed DEF Reduced, Closed, Premises
<1>10. Linked'
  <2>1. calls # <<>> /\ 1 \in 1..m
    BY <1>1 DEF m
  <2>2. calls'[1].goal = query'
    BY <1>4, <1>6, <2>1 DEF SearchInv, Linked
  <2>3. \A n \in 1..m : Waiting(calls'[n], calls'[n + 1].goal)
    <3>1. SUFFICES ASSUME NEW n \in 1..m PROVE Waiting(calls'[n], calls'[n + 1].goal)
      OBVIOUS
    <3>2. CASE n = m
      BY <1>3, <1>5, <1>6, <3>2
    <3>3. CASE n # m
      <4>1. n \in 1..(m - 1) /\ n + 1 \in 1..m
        BY <1>1, <3>3
      <4>2. Waiting(calls[n], calls[n + 1].goal)
        BY <4>1 DEF SearchInv, Linked, m
      <4> QED BY <1>6, <4>1, <4>2
    <3> QED BY <3>2, <3>3
  <2>4. Len(calls') - 1 = m
    BY <1>1, <1>6
  <2> QED BY <2>2, <2>3, <2>4 DEF Linked, Waiting
<1>11. Sound'
  BY <1>4, SameSound DEF SearchInv
<1> QED BY <1>7, <1>9, <1>10, <1>11 DEF Kept, SearchInv

\* The outermost search returns.
LEMMA AnsweredKept ==
  ASSUME TypeOK, SearchInv, Len(calls) = 1, NEW found \in BOOLEAN, Return(found),
         found => Follows(query)
  PROVE  Kept
<1>1. calls' = <<>> /\ answer' = (IF found THEN "yes" ELSE "no")
  BY DEF Return
<1>2. UNCHANGED <<facts, rules, query, visited>>
  BY DEF Return
<1>3. calls' \in Seq(Search) /\ Len(calls') = 0 /\ DOMAIN calls' = {}
  BY <1>1
<1>4. TypeOK'
  BY <1>1, <1>2, <1>3, TypeFromCalls DEF TypeOK
<1>5. Linked'
  BY <1>1, <1>3 DEF Linked
<1>6. Sound'
  BY <1>1, <1>2 DEF Sound, Follows, Closed, Premises
<1> QED BY <1>3, <1>4, <1>5, <1>6 DEF Kept, SearchInv

\* A search that returns to another, which goes on as t.
LEMMA ReturnedKept ==
  ASSUME TypeOK, SearchInv, Len(calls) > 1,
         NEW t \in Search, t.goal = calls[Len(calls) - 1].goal, Reduced(t),
         calls' = Append(Below(2), t), UNCHANGED <<facts, rules, query, visited, answer>>
  PROVE  Kept
<1>1. Len(calls) \in Nat
  BY DEF TypeOK
<1>2. Len(calls) >= 2 /\ Len(calls) - 2 + 1 = Len(calls) - 1
  BY <1>1
<1> QED BY <1>2, ReplacedKept

LEMMA CallerFacts ==
  ASSUME TypeOK, SearchInv, calls # <<>>, Len(calls) # 1
  PROVE  LET caller == calls[Len(calls) - 1]
         IN  /\ Len(calls) > 1 /\ caller \in Search /\ Reduced(caller)
             /\ Waiting(caller, Top.goal)
<1> DEFINE m == Len(calls) - 1
<1>1. calls \in Seq(Search) /\ Len(calls) \in Nat /\ Len(calls) >= 1
  BY TopType DEF TypeOK
<1>2. m \in 1..(Len(calls) - 1) /\ m \in 1..Len(calls) /\ m + 1 = Len(calls) /\ Len(calls) > 1
  <2>1. \A n \in Nat : n >= 1 /\ n # 1 =>
          n - 1 \in 1..(n - 1) /\ n - 1 \in 1..n /\ (n - 1) + 1 = n /\ n > 1
    OBVIOUS
  <2> QED BY <1>1, <2>1
<1>3. calls[m] \in Search /\ Reduced(calls[m])
  BY <1>1, <1>2 DEF SearchInv
<1>4. Waiting(calls[m], calls[m + 1].goal)
  BY <1>2 DEF SearchInv, Linked
<1> QED BY <1>2, <1>3, <1>4 DEF Top

LEMMA ConcludeKept == TypeOK /\ SearchInv /\ Conclude => Kept
<1> SUFFICES ASSUME TypeOK, SearchInv, Conclude PROVE Kept
  OBVIOUS
<1>1. calls # <<>> /\ Top.trying /\ Top.premises = <<>> /\ Return(TRUE)
  BY DEF Conclude
<1>2. \A S \in SUBSET Pred : Closed(S) => Top.goal \in S
  <2>1. Premises(Top.premises) = {}
    BY <1>1 DEF Premises
  <2> QED BY <1>1, <2>1, TopReduced DEF Reduced
<1>3. CASE Len(calls) = 1
  <2>1. Top.goal = query
    BY <1>1, <1>3 DEF Top, SearchInv, Linked
  <2> QED BY <1>1, <1>2, <1>3, <2>1, AnsweredKept DEF Follows
<1>4. CASE Len(calls) # 1
  <2> DEFINE caller == calls[Len(calls) - 1]
  <2>1. /\ Len(calls) > 1 /\ caller \in Search /\ Reduced(caller)
        /\ caller.trying /\ caller.premises # <<>> /\ Head(caller.premises) = Top.goal
    BY <1>1, <1>4, CallerFacts DEF Waiting
  <2>2. /\ calls' = Append(Below(2), GoOn(caller))
        /\ UNCHANGED <<facts, rules, query, visited, answer>>
    BY <1>1, <1>4 DEF Return
  <2> HIDE DEF caller
  <2>3. Reduced(GoOn(caller)) /\ GoOn(caller) \in Search
    BY <1>2, <2>1, GoOnReduced, GoOnType
  <2>4. GoOn(caller).goal = caller.goal
    BY <2>1 DEF GoOn, Search
  <2> QED BY <2>1, <2>2, <2>3, <2>4, ReturnedKept DEF caller
<1> QED BY <1>3, <1>4

LEMMA ExhaustKept == TypeOK /\ SearchInv /\ Exhaust => Kept
<1> SUFFICES ASSUME TypeOK, SearchInv, Exhaust PROVE Kept
  OBVIOUS
<1>1. calls # <<>> /\ Return(FALSE)
  BY DEF Exhaust
<1>2. CASE Len(calls) = 1
  BY <1>1, <1>2, AnsweredKept
<1>3. CASE Len(calls) # 1
  <2> DEFINE caller == calls[Len(calls) - 1]
  <2>1. Len(calls) > 1 /\ caller \in Search
    BY <1>1, <1>3, CallerFacts
  <2>2. /\ calls' = Append(Below(2), GiveUp(caller))
        /\ UNCHANGED <<facts, rules, query, visited, answer>>
    BY <1>1, <1>3 DEF Return
  <2> HIDE DEF caller
  <2>3. GiveUp(caller) \in Search /\ Reduced(GiveUp(caller)) /\ GiveUp(caller).goal = caller.goal
    BY <2>1, GoOnType, GiveUpReduced DEF GiveUp, Search
  <2> QED BY <2>1, <2>2, <2>3, ReturnedKept DEF caller
<1> QED BY <1>2, <1>3

-----------------------------------------------------------------------------
LEMMA InitKept == Init => TypeOK /\ SearchInv
<1> SUFFICES ASSUME Init PROVE TypeOK /\ SearchInv
  OBVIOUS
<1>1. query \in Pred
  BY GoalsAssumption DEF Init
<1>2. CASE query \in facts
  <2>1. calls = <<>> /\ calls \in Seq(Search) /\ Len(calls) = 0 /\ DOMAIN calls = {}
    BY <1>2 DEF Init
  <2>2. Follows(query)
    BY <1>2 DEF Follows, Closed
  <2> QED BY <1>1, <1>2, <2>1, <2>2 DEF Init, TypeOK, SearchInv, Linked, Sound
<1>3. CASE query \notin facts
  <2>1. calls = <<SearchFor(query)>> /\ visited = {query} /\ answer = "none"
    BY <1>3 DEF Init
  <2>2. SearchFor(query) \in Search /\ Reduced(SearchFor(query)) /\ SearchFor(query).goal = query
    <3>1. <<>> \in Seq(Pred)
      OBVIOUS
    <3> QED BY <1>1, <3>1 DEF SearchFor, Search, Reduced
  <2>3. /\ calls \in Seq(Search) /\ DOMAIN calls = {1} /\ Len(calls) = 1
        /\ calls[1] = SearchFor(query)
    BY <2>1, <2>2
  <2>4. Linked /\ \A n \in DOMAIN calls : Reduced(calls[n])
    BY <2>2, <2>3 DEF Linked
  <2> QED BY <1>1, <2>1, <2>3, <2>4 DEF Init, TypeOK, SearchInv, Sound
<1> QED BY <1>2, <1>3

LEMMA NextKept == TypeOK /\ SearchInv /\ [Next]_vars => Kept
<1> SUFFICES ASSUME TypeOK, SearchInv, [Next]_vars PROVE Kept
  OBVIOUS
<1>1. CASE UNCHANGED vars
  <2>1. UNCHANGED <<facts, rules, query, visited, calls, answer>>
    BY <1>1 DEF vars
  <2>2. TypeOK'
    BY <2>1 DEF TypeOK
  <2>3. Sound'
    BY <2>1, SameSound DEF SearchInv
  <2>4. Linked'
    BY <2>1 DEF SearchInv, Linked, Waiting
  <2>5. \A n \in DOMAIN calls' : Reduced(calls'[n])
    BY <2>1 DEF SearchInv
  <2>6. (\A n \in DOMAIN calls : Reduced(calls[n]))'
    BY <2>1, <2>5, SameClosed DEF Reduced, Closed, Premises
  <2> QED BY <2>2, <2>3, <2>4, <2>6 DEF Kept, SearchInv
<1>2. CASE Next
  BY <1>2, TryRuleKept, PremiseKnownKept, PremiseVisitedKept, SearchPremiseKept,
     ConcludeKept, ExhaustKept DEF Next
<1> QED BY <1>1, <1>2

(***************************************************************************)
(* Every search is for a predicate, and stays well typed.                  *)
(***************************************************************************)
THEOREM SearchTyped == Spec => []TypeOK
BY InitKept, NextKept, PTL DEF Spec, Kept

(***************************************************************************)
(* A predicate the search reports follows from the facts by the rules:     *)
(* sharing the visited set among alternatives, and trying rules in another *)
(* order in every call, lose answers and never invent one.                 *)
(***************************************************************************)
THEOREM SearchSound == Spec => []Sound
<1>1. TypeOK /\ SearchInv /\ [Next]_vars => TypeOK' /\ SearchInv'
  BY NextKept DEF Kept
<1>2. SearchInv => Sound
  BY DEF SearchInv
<1> QED BY <1>1, <1>2, InitKept, PTL DEF Spec

-----------------------------------------------------------------------------
(* Completeness for rules of one premise. The visited set cuts a search    *)
(* short at a predicate whose own search is still open, or has failed;     *)
(* with one premise each the predicates visited without success are then   *)
(* closed under going back: what concludes one of them asks for another.   *)

OnePremise == \A i \in DOMAIN rules : Len(rules[i].from) <= 1

\* With one premise each, the success of a search is the success of the query.
Succeeds(s) == s.trying /\ s.premises = <<>>
Winning     == calls # <<>> /\ Succeeds(Top)

\* The search s has not yet given rule i up.
May(s, i)     == i \notin s.tried \/ (s.trying /\ s.premises = rules[i].from)
Pending(v, i) == \E n \in DOMAIN calls : calls[n].goal = v /\ May(calls[n], i)

\* Rule i waits for what was asked for without success.
Refuted(i) == Premises(rules[i].from) \cap visited # {}

Examined ==
  \A i \in DOMAIN rules : \A v \in visited \cap rules[i].to : Pending(v, i) \/ Refuted(i)

Short == \A n \in DOMAIN calls : Len(calls[n].premises) <= 1

ExhaustInv ==
  /\ visited \cap facts = {}
  /\ answer # "none" => calls = <<>>
  /\ answer = "no" => query \in visited
  /\ \A n \in DOMAIN calls : calls[n].goal \in visited
  /\ OnePremise => Short
  /\ OnePremise /\ answer # "yes" /\ ~Winning => Examined

LEMMA ReplacedAt ==
  ASSUME TypeOK, NEW k \in {1, 2}, Len(calls) >= k, NEW t \in Search,
         calls' = Append(Below(k), t)
  PROVE  /\ Len(calls) \in Nat /\ DOMAIN calls = 1..Len(calls)
         /\ Len(calls') = Len(calls) - k + 1
         /\ DOMAIN calls' = 1..(Len(calls) - k + 1)
         /\ calls'[Len(calls) - k + 1] = t
         /\ \A n \in 1..(Len(calls) - k) : calls'[n] = calls[n]
<1> DEFINE m == Len(calls) - k
<1>1. calls \in Seq(Search) /\ Len(calls) \in Nat /\ m \in Nat /\ DOMAIN calls = 1..Len(calls)
  BY DEF TypeOK
<1>2. /\ Below(k) \in Seq(Search) /\ Len(Below(k)) = m
      /\ \A n \in 1..m : Below(k)[n] = calls[n]
  BY BelowIs
<1> HIDE DEF m
<1>3. /\ Len(calls') = m + 1 /\ DOMAIN calls' = 1..(m + 1)
      /\ calls'[m + 1] = t /\ \A n \in 1..m : calls'[n] = calls[n]
  BY <1>1, <1>2
<1> QED BY <1>1, <1>3 DEF m

\* Searches from n on are replaced by t, or have failed: rules that they may
\* still have used are left to t, or refuted.
Leaves(n, t) ==
  \A i \in DOMAIN rules : \A e \in n..Len(calls) :
    calls[e].goal \in rules[i].to /\ May(calls[e], i) =>
      Refuted(i) \/ (calls[e].goal = t.goal /\ May(t, i))

LEMMA ReplacedExhausts ==
  ASSUME TypeOK, ExhaustInv, answer = "none",
         NEW k \in {1, 2}, Len(calls) >= k,
         NEW t \in Search, t.goal = calls[Len(calls) - k + 1].goal,
         OnePremise => Len(t.premises) <= 1,
         OnePremise /\ ~Succeeds(t) => ~Winning /\ Leaves(Len(calls) - k + 1, t),
         calls' = Append(Below(k), t), UNCHANGED <<facts, rules, query, visited, answer>>
  PROVE  ExhaustInv'
<1> DEFINE m == Len(calls) - k
<1>1. /\ m \in Nat /\ Len(calls) \in Nat /\ DOMAIN calls = 1..Len(calls)
      /\ Len(calls') = m + 1 /\ DOMAIN calls' = 1..(m + 1) /\ calls'[m + 1] = t
      /\ \A n \in 1..m : calls'[n] = calls[n]
  <2>1. m \in Nat
    BY DEF TypeOK
  <2> QED BY <2>1, ReplacedAt
<1>2. m + 1 \in DOMAIN calls /\ \A n \in 1..m : n \in DOMAIN calls
  BY <1>1
<1>3. t.goal = calls[m + 1].goal
  OBVIOUS
<1>4. OnePremise /\ ~Succeeds(t) => ~Winning /\ Leaves(m + 1, t)
  OBVIOUS
<1> HIDE DEF m
<1>5. \A n \in 1..(m + 1) : n = m + 1 \/ n \in 1..m
  BY <1>1
<1>6. \A n \in DOMAIN calls' : calls'[n].goal \in visited'
  BY <1>1, <1>2, <1>3, <1>5 DEF ExhaustInv
<1>7. ASSUME OnePremise' PROVE Short'
  <2>1. OnePremise
    BY <1>7 DEF OnePremise
  <2>2. Len(t.premises) <= 1 /\ Short
    BY <2>1 DEF ExhaustInv
  <2> QED BY <1>1, <1>2, <1>5, <2>2 DEF Short
<1>8. ASSUME OnePremise', ~Winning' PROVE Examined'
  <2>1. OnePremise
    BY <1>8 DEF OnePremise
  <2>2. ~Succeeds(t)
    <3>1. calls' # <<>> /\ calls'[Len(calls')] = t
      BY <1>1
    <3> QED BY <1>8, <3>1 DEF Winning, Top, Succeeds
  <2>3. Examined /\ Leaves(m + 1, t)
    BY <1>4, <2>1, <2>2 DEF ExhaustInv
  <2>4. SUFFICES ASSUME NEW i \in DOMAIN rules, NEW v \in visited \cap rules[i].to, ~Refuted(i)
                 PROVE  Pending(v, i)'
    BY DEF Examined, Refuted, Premises
  <2>5. PICK n \in DOMAIN calls : calls[n].goal = v /\ May(calls[n], i)
    BY <2>3, <2>4 DEF Examined, Pending
  <2>6. CASE n \in 1..m
    <3>1. calls'[n] = calls[n] /\ n \in DOMAIN calls'
      BY <1>1, <2>6
    <3> QED BY <2>5, <3>1 DEF Pending, May
  <2>7. CASE n \notin 1..m
    <3>1. n \in (m + 1)..Len(calls)
      BY <1>1, <2>7
    <3>2. t.goal = v /\ May(t, i)
      BY <2>3, <2>4, <2>5, <3>1 DEF Leaves
    <3>3. m + 1 \in DOMAIN calls'
      BY <1>1
    <3> QED BY <1>1, <3>2, <3>3 DEF Pending, May
  <2> QED BY <2>6, <2>7
<1> QED BY <1>6, <1>7, <1>8 DEF ExhaustInv

\* What an open search shows.
LEMMA Searching ==
  ASSUME TypeOK, SearchInv, ExhaustInv, calls # <<>>
  PROVE  /\ answer = "none" /\ Len(calls) \in Nat /\ Len(calls) >= 1
         /\ Top = calls[Len(calls)] /\ Top = calls[Len(calls) - 1 + 1]
         /\ Top \in Search /\ Top.goal \in visited
         /\ OnePremise => Len(Top.premises) <= 1
         /\ \A e \in Len(calls)..Len(calls) : e = Len(calls)
         /\ \A e \in (Len(calls) - 1 + 1)..Len(calls) : e = Len(calls)
<1>1. Len(calls) \in Nat /\ Len(calls) >= 1 /\ Top \in Search
  BY TopType
<1>2. Len(calls) \in DOMAIN calls /\ Len(calls) - 1 + 1 = Len(calls)
  BY <1>1 DEF TypeOK
<1>3. \A n \in Nat : \A e \in n..n : e = n
  OBVIOUS
<1> QED BY <1>1, <1>2, <1>3 DEF ExhaustInv, Short, Top

LEMMA TryRuleExhausts ==
  ASSUME TypeOK, SearchInv, ExhaustInv, NEW j \in DOMAIN rules, TryRule(j)
  PROVE  ExhaustInv'
<1> DEFINE t == [Top EXCEPT !.tried = @ \cup {j}, !.trying = TRUE,
                            !.premises = rules[j].from]
<1>1. /\ answer = "none" /\ Len(calls) \in Nat /\ Len(calls) >= 1
      /\ Top = calls[Len(calls)] /\ Top = calls[Len(calls) - 1 + 1] /\ Top \in Search
      /\ \A e \in (Len(calls) - 1 + 1)..Len(calls) : e = Len(calls)
  BY Searching DEF TryRule
<1>2. rules[j].from \in Seq(Pred) /\ j \in Nat
  BY RuleType
<1>3. t \in Search
  BY <1>1, <1>2 DEF Search
<1>4. /\ t.goal = Top.goal /\ t.premises = rules[j].from /\ t.trying = TRUE
      /\ t.tried = Top.tried \cup {j}
  BY <1>1 DEF Search
<1>5. ~Top.trying /\ calls' = Append(Below(1), t)
      /\ UNCHANGED <<facts, rules, query, visited, answer>>
  BY DEF TryRule
<1> HIDE DEF t
<1>6. ~Winning
  BY <1>5 DEF Winning, Succeeds
<1>7. Leaves(Len(calls) - 1 + 1, t)
  BY <1>1, <1>4, <1>5 DEF Leaves, May
<1>8. OnePremise => Len(t.premises) <= 1
  BY <1>4 DEF OnePremise
<1> QED BY <1>1, <1>3, <1>4, <1>5, <1>6, <1>7, <1>8, ReplacedExhausts

\* A premise that is not the last one: with one premise, there is none.
LEMMA OneLeft ==
  ASSUME NEW s \in Search, s.premises # <<>>, Len(s.premises) <= 1
  PROVE  GoOn(s).premises = <<>>
<1>1. s.premises \in Seq(Pred)
  BY DEF Search
<1>2. Tail(s.premises) = <<>>
  BY <1>1
<1> QED BY <1>2 DEF GoOn, Search

LEMMA PremiseKnownExhausts == TypeOK /\ SearchInv /\ ExhaustInv /\ PremiseKnown => ExhaustInv'
<1> SUFFICES ASSUME TypeOK, SearchInv, ExhaustInv, PremiseKnown PROVE ExhaustInv'
  OBVIOUS
<1>1. /\ answer = "none" /\ Len(calls) \in Nat /\ Len(calls) >= 1
      /\ Top = calls[Len(calls) - 1 + 1] /\ Top \in Search
      /\ OnePremise => Len(Top.premises) <= 1
  BY Searching DEF PremiseKnown, Asks
<1>2. /\ Top.trying /\ Top.premises # <<>>
      /\ calls' = Append(Below(1), GoOn(Top)) /\ UNCHANGED <<facts, rules, query, visited, answer>>
  BY DEF PremiseKnown, Asks
<1>3. GoOn(Top) \in Search /\ GoOn(Top).goal = Top.goal /\ GoOn(Top).trying = Top.trying
  BY <1>1, <1>2, GoOnType DEF GoOn, Search
<1>4. OnePremise => GoOn(Top).premises = <<>>
  BY <1>1, <1>2, OneLeft
<1>5. OnePremise => Len(GoOn(Top).premises) <= 1 /\ Succeeds(GoOn(Top))
  BY <1>2, <1>3, <1>4 DEF Succeeds
<1> QED BY <1>1, <1>2, <1>3, <1>5, ReplacedExhausts

\* A search that gives up a rule whose premise was visited.
LEMMA GivenUp ==
  ASSUME NEW s \in Search, s.premises # <<>>, Head(s.premises) \in visited,
         NEW i \in DOMAIN rules, May(s, i)
  PROVE  Refuted(i) \/ May(GiveUp(s), i)
<1>1. GiveUp(s).tried = s.tried
  BY DEF GiveUp, Search
<1>2. CASE s.premises = rules[i].from
  <2>1. s.premises \in Seq(Pred)
    BY DEF Search
  <2>2. 1 \in DOMAIN s.premises /\ Head(s.premises) = s.premises[1]
    BY <2>1
  <2> QED BY <1>2, <2>2 DEF Refuted, Premises
<1>3. CASE s.premises # rules[i].from
  BY <1>1, <1>3 DEF May
<1> QED BY <1>2, <1>3

LEMMA GiveUpIs ==
  ASSUME NEW s \in Search
  PROVE  /\ GiveUp(s) \in Search /\ GiveUp(s).goal = s.goal
         /\ ~Succeeds(GiveUp(s)) /\ Len(GiveUp(s).premises) <= 1
BY GoOnType DEF GiveUp, Search, Succeeds

LEMMA PremiseVisitedExhausts == TypeOK /\ SearchInv /\ ExhaustInv /\ PremiseVisited => ExhaustInv'
<1> SUFFICES ASSUME TypeOK, SearchInv, ExhaustInv, PremiseVisited PROVE ExhaustInv'
  OBVIOUS
<1>1. /\ answer = "none" /\ Len(calls) \in Nat /\ Len(calls) >= 1
      /\ Top = calls[Len(calls)] /\ Top = calls[Len(calls) - 1 + 1] /\ Top \in Search
      /\ \A e \in (Len(calls) - 1 + 1)..Len(calls) : e = Len(calls)
  BY Searching DEF PremiseVisited, Asks
<1>2. /\ Top.premises # <<>> /\ Head(Top.premises) \in visited
      /\ calls' = Append(Below(1), GiveUp(Top)) /\ UNCHANGED <<facts, rules, query, visited, answer>>
  BY DEF PremiseVisited, Asks
<1>3. ~Winning
  BY <1>2 DEF Winning, Succeeds
<1>4. Leaves(Len(calls) - 1 + 1, GiveUp(Top))
  <2>1. \A i \in DOMAIN rules : May(Top, i) => Refuted(i) \/ May(GiveUp(Top), i)
    BY <1>1, <1>2, GivenUp
  <2> QED BY <1>1, <2>1, GiveUpIs DEF Leaves
<1> QED BY <1>1, <1>2, <1>3, <1>4, GiveUpIs, ReplacedExhausts

LEMMA SearchPremiseExhausts == TypeOK /\ SearchInv /\ ExhaustInv /\ SearchPremise => ExhaustInv'
<1> SUFFICES ASSUME TypeOK, SearchInv, ExhaustInv, SearchPremise PROVE ExhaustInv'
  OBVIOUS
<1> DEFINE p == Head(Top.premises)
           m == Len(calls)
<1>1. /\ answer = "none" /\ m \in Nat /\ m >= 1 /\ Top \in Search /\ calls \in Seq(Search)
      /\ DOMAIN calls = 1..m
  BY Searching DEF SearchPremise, Asks, TypeOK
<1>2. /\ p \notin facts /\ Top.premises # <<>>
      /\ calls' = Append(calls, SearchFor(p)) /\ visited' = visited \cup {p}
      /\ UNCHANGED <<facts, rules, query, answer>>
  BY DEF SearchPremise, Asks
<1>3. /\ SearchFor(p).goal = p /\ SearchFor(p).tried = {} /\ Len(SearchFor(p).premises) <= 1
  BY DEF SearchFor
<1>4. p \in Pred
  BY <1>1, <1>2, TailPremises DEF Search
<1>5. SearchFor(p) \in Search
  <2>1. <<>> \in Seq(Pred)
    OBVIOUS
  <2> QED BY <1>4, <2>1 DEF SearchFor, Search
<1>6. ~Winning
  BY <1>2 DEF Winning, Succeeds
<1> HIDE DEF p, m
<1>7. /\ DOMAIN calls' = 1..(m + 1) /\ calls'[m + 1] = SearchFor(p)
      /\ \A n \in 1..m : calls'[n] = calls[n]
  BY <1>1, <1>2, <1>5 DEF m
<1>8. \A n \in 1..(m + 1) : n = m + 1 \/ n \in 1..m
  BY <1>1
<1>9. visited' \cap facts' = {} /\ \A n \in DOMAIN calls' : calls'[n].goal \in visited'
  BY <1>1, <1>2, <1>3, <1>7, <1>8 DEF ExhaustInv
<1>10. ASSUME OnePremise' PROVE Short'
  <2>1. OnePremise
    BY <1>2, <1>10 DEF OnePremise
  <2>2. Short
    BY <2>1 DEF ExhaustInv
  <2> QED BY <1>1, <1>3, <1>7, <1>8, <2>2 DEF Short
<1>11. ASSUME OnePremise' PROVE Examined'
  <2>1. OnePremise
    BY <1>2, <1>11 DEF OnePremise
  <2>2. Examined
    BY <1>1, <1>6, <2>1 DEF ExhaustInv
  <2>3. SUFFICES ASSUME NEW i \in DOMAIN rules, NEW v \in visited' \cap rules[i].to, ~Refuted(i)'
                 PROVE  Pending(v, i)'
    BY <1>2 DEF Examined, Refuted, Premises
  <2>4. ~Refuted(i)
    BY <1>2, <2>3 DEF Refuted, Premises
  <2>5. CASE v = p
    <3>1. m + 1 \in DOMAIN calls'
      BY <1>1, <1>7
    <3> QED BY <1>3, <1>7, <2>5, <3>1 DEF Pending, May
  <2>6. CASE v \in visited
    <3>1. PICK n \in DOMAIN calls : calls[n].goal = v /\ May(calls[n], i)
      BY <2>2, <2>3, <2>4, <2>6 DEF Examined, Pending
    <3>2. n \in DOMAIN calls' /\ calls'[n] = calls[n]
      BY <1>1, <1>7
    <3> QED BY <1>2, <3>1, <3>2 DEF Pending, May
  <2> QED BY <1>2, <2>3, <2>5, <2>6
<1>12. answer' = "none"
  BY <1>1, <1>2
<1> QED BY <1>9, <1>10, <1>11, <1>12 DEF ExhaustInv

LEMMA ConcludeExhausts == TypeOK /\ SearchInv /\ ExhaustInv /\ Conclude => ExhaustInv'
<1> SUFFICES ASSUME TypeOK, SearchInv, ExhaustInv, Conclude PROVE ExhaustInv'
  OBVIOUS
<1>1. calls # <<>> /\ Return(TRUE)
  BY DEF Conclude
<1>2. CASE Len(calls) = 1
  <2>1. /\ calls' = <<>> /\ answer' = "yes" /\ UNCHANGED <<facts, rules, query, visited>>
    BY <1>1, <1>2 DEF Return
  <2> QED BY <2>1 DEF ExhaustInv, Short
<1>3. CASE Len(calls) # 1
  <2> DEFINE caller == calls[Len(calls) - 1]
  <2>1. /\ Len(calls) > 1 /\ caller \in Search /\ caller.trying /\ caller.premises # <<>>
    BY <1>1, <1>3, CallerFacts DEF Waiting
  <2>2. /\ calls' = Append(Below(2), GoOn(caller))
        /\ UNCHANGED <<facts, rules, query, visited, answer>>
    BY <1>1, <1>3 DEF Return
  <2>3. answer = "none" /\ Len(calls) \in Nat
    BY <1>1, Searching
  <2>4. Len(calls) >= 2 /\ Len(calls) - 2 + 1 = Len(calls) - 1 /\ Len(calls) - 1 \in 1..Len(calls)
    BY <2>1, <2>3
  <2>5. OnePremise => Len(caller.premises) <= 1
    <3>1. Len(calls) - 1 \in DOMAIN calls
      BY <2>4 DEF TypeOK
    <3> QED BY <3>1 DEF ExhaustInv, Short
  <2>6. caller = calls[Len(calls) - 2 + 1]
    BY <2>4
  <2> HIDE DEF caller
  <2>7. GoOn(caller) \in Search /\ GoOn(caller).goal = caller.goal /\ GoOn(caller).trying = caller.trying
    BY <2>1, GoOnType DEF GoOn, Search
  <2>8. OnePremise => GoOn(caller).premises = <<>>
    BY <2>1, <2>5, OneLeft
  <2>9. OnePremise => Len(GoOn(caller).premises) <= 1 /\ Succeeds(GoOn(caller))
    BY <2>1, <2>7, <2>8 DEF Succeeds
  <2> QED BY <2>2, <2>3, <2>4, <2>6, <2>7, <2>9, ReplacedExhausts
<1> QED BY <1>2, <1>3

LEMMA ExhaustExhausts == TypeOK /\ SearchInv /\ ExhaustInv /\ Exhaust => ExhaustInv'
<1> SUFFICES ASSUME TypeOK, SearchInv, ExhaustInv, Exhaust PROVE ExhaustInv'
  OBVIOUS
<1>1. calls # <<>> /\ ~Top.trying /\ Candidates(Top) = {} /\ Return(FALSE)
  BY DEF Exhaust
<1>2. ~Winning
  BY <1>1 DEF Winning, Succeeds
<1>3. /\ answer = "none" /\ Len(calls) \in Nat /\ Len(calls) >= 1
      /\ Top = calls[Len(calls)] /\ Top.goal \in visited
  BY <1>1, Searching
<1>4. \A i \in DOMAIN rules : ~(Top.goal \in rules[i].to /\ May(Top, i))
  BY <1>1 DEF Candidates, May
<1>5. CASE Len(calls) = 1
  <2>1. calls' = <<>> /\ answer' = "no" /\ UNCHANGED <<facts, rules, query, visited>>
    BY <1>1, <1>5 DEF Return
  <2>2. query \in visited
    BY <1>1, <1>3, <1>5 DEF SearchInv, Linked
  <2>3. ASSUME OnePremise' PROVE Examined'
    <3>1. Examined
      BY <1>2, <1>3, <2>1, <2>3 DEF ExhaustInv, OnePremise
    <3>2. \A n \in DOMAIN calls : n = Len(calls)
      BY <1>5 DEF TypeOK
    <3>3. \A i \in DOMAIN rules : \A v \in visited \cap rules[i].to : Refuted(i)
      BY <1>3, <1>4, <3>1, <3>2 DEF Examined, Pending
    <3> QED BY <2>1, <3>3 DEF Examined, Refuted, Premises
  <2> QED BY <2>1, <2>2, <2>3 DEF ExhaustInv, Short
<1>6. CASE Len(calls) # 1
  <2> DEFINE caller == calls[Len(calls) - 1]
  <2>1. /\ Len(calls) > 1 /\ caller \in Search /\ caller.premises # <<>>
        /\ Head(caller.premises) = Top.goal
    BY <1>1, <1>6, CallerFacts DEF Waiting
  <2>2. /\ calls' = Append(Below(2), GiveUp(caller))
        /\ UNCHANGED <<facts, rules, query, visited, answer>>
    BY <1>1, <1>6 DEF Return
  <2>3. /\ Len(calls) >= 2 /\ Len(calls) - 2 + 1 = Len(calls) - 1
        /\ \A e \in (Len(calls) - 1)..Len(calls) : e = Len(calls) - 1 \/ e = Len(calls)
    BY <1>3, <2>1
  <2>4. caller = calls[Len(calls) - 2 + 1]
    BY <2>3
  <2>5. \A i \in DOMAIN rules : May(caller, i) => Refuted(i) \/ May(GiveUp(caller), i)
    BY <1>3, <2>1, GivenUp
  <2>6. Leaves(Len(calls) - 2 + 1, GiveUp(caller))
    <3>1. GiveUp(caller).goal = caller.goal
      BY <2>1, GiveUpIs
    <3>2. SUFFICES ASSUME NEW i \in DOMAIN rules, NEW e \in (Len(calls) - 1)..Len(calls),
                          calls[e].goal \in rules[i].to, May(calls[e], i)
                   PROVE  Refuted(i) \/ (calls[e].goal = GiveUp(caller).goal /\ May(GiveUp(caller), i))
      BY <2>3 DEF Leaves
    <3>3. e = Len(calls) - 1 \/ e = Len(calls)
      BY <2>3
    <3>4. CASE e = Len(calls)
      BY <1>3, <1>4, <3>2, <3>4
    <3>5. CASE e = Len(calls) - 1
      BY <2>5, <3>1, <3>2, <3>5
    <3> QED BY <3>3, <3>4, <3>5
  <2> HIDE DEF caller
  <2> QED BY <1>2, <1>3, <2>1, <2>2, <2>3, <2>4, <2>6, GiveUpIs, ReplacedExhausts
<1> QED BY <1>5, <1>6

LEMMA InitExhausts == Init => ExhaustInv
<1> SUFFICES ASSUME Init PROVE ExhaustInv
  OBVIOUS
<1>1. CASE query \in facts
  <2>1. calls = <<>> /\ answer = "yes" /\ visited = {} /\ DOMAIN calls = {}
    BY <1>1 DEF Init
  <2> QED BY <2>1 DEF ExhaustInv, Short
<1>2. CASE query \notin facts
  <2>1. calls = <<SearchFor(query)>> /\ visited = {query} /\ answer = "none"
    BY <1>2 DEF Init
  <2>2. DOMAIN calls = {1} /\ calls[1] = SearchFor(query)
    BY <2>1
  <2>3. /\ SearchFor(query).goal = query /\ SearchFor(query).tried = {}
        /\ Len(SearchFor(query).premises) <= 1
    BY DEF SearchFor
  <2>4. Examined
    BY <2>1, <2>2, <2>3 DEF Examined, Pending, May
  <2> QED BY <1>2, <2>1, <2>2, <2>3, <2>4 DEF ExhaustInv, Short
<1> QED BY <1>1, <1>2

LEMMA NextExhausts == TypeOK /\ SearchInv /\ ExhaustInv /\ [Next]_vars => ExhaustInv'
<1> SUFFICES ASSUME TypeOK, SearchInv, ExhaustInv, [Next]_vars PROVE ExhaustInv'
  OBVIOUS
<1>1. CASE UNCHANGED vars
  BY <1>1 DEF vars, ExhaustInv, OnePremise, Short, Winning, Succeeds, Top, Examined,
              Pending, May, Refuted, Premises
<1>2. CASE Next
  BY <1>2, TryRuleExhausts, PremiseKnownExhausts, PremiseVisitedExhausts,
     SearchPremiseExhausts, ConcludeExhausts, ExhaustExhausts DEF Next
<1> QED BY <1>1, <1>2

LEMMA ExhaustedFails == TypeOK /\ ExhaustInv => ChainsExhaustive
<1> SUFFICES ASSUME TypeOK, ExhaustInv, OnePremise, answer = "no" PROVE ~Follows(query)
  BY DEF ChainsExhaustive, Exhaustive, OnePremise
<1> DEFINE S == Pred \ visited
<1>1. calls = <<>> /\ DOMAIN calls = {} /\ query \in visited /\ visited \cap facts = {}
  BY DEF ExhaustInv
<1>2. \A i \in DOMAIN rules : \A v \in visited \cap rules[i].to : Refuted(i)
  BY <1>1 DEF ExhaustInv, Winning, Examined, Pending
<1>3. \A i \in DOMAIN rules : Premises(rules[i].from) \subseteq S => rules[i].to \subseteq S
  BY <1>2, RuleType DEF Refuted
<1>4. Closed(S)
  BY <1>1, <1>3 DEF Closed, TypeOK
<1> QED BY <1>1, <1>4 DEF Follows

(***************************************************************************)
(* Where no rule has two premises, a search that fails has missed nothing, *)
(* although the visited set is shared by alternatives and never undone     *)
(* (analyzer_resolver.go:105-134).                                         *)
(***************************************************************************)
THEOREM ChainsAreExhausted == Spec => []ChainsExhaustive
<1>1. TypeOK /\ SearchInv /\ [Next]_vars => TypeOK' /\ SearchInv'
  BY NextKept DEF Kept
<1> QED BY <1>1, InitKept, InitExhausts, NextExhausts, ExhaustedFails, PTL DEF Spec
=============================================================================
