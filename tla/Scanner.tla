------------------------------- MODULE Scanner -------------------------------
(***************************************************************************)
(* What the scanner harvests from the declarations of a file (scanner.go): *)
(* the contracts of a function and the inference rules, with diagnostics   *)
(* for what it cannot take; against what the declared predicates answer at *)
(* run time (pkg/proven, pkg/infer, pkg/infertest).                        *)
(*                                                                         *)
(* A predicate argument is [op, name, args].  Lists of predicates are      *)
(* sets: nothing depends on their order or on repetitions.                 *)
(***************************************************************************)
EXTENDS Syntax

CONSTANTS PredNode,   \* predicate arguments, their operands among them
          Predicates  \* names of predicates

PredAssumption ==
  /\ WellFounded(PredNode, Operands)
  /\ \A t \in PredNode : /\ t.args \in Seq(Operands(t))
                         /\ t.op = "Not" => Len(t.args) = 1
                         /\ t.op \in {"name", "selector"} => t.name \in Predicates
ASSUME PredAssumption

\* The outcome of resolving: leaves that must all hold, disjunctions that must
\* each hold; or a refusal, with a diagnostic (said) or without.
Resolved(leaves, ors) == [ok |-> TRUE, said |-> FALSE, leaves |-> leaves, ors |-> ors]
Refused(said)         == [ok |-> FALSE, said |-> said, leaves |-> {}, ors |-> {}]

Leaves(R) == UNION {r.leaves : r \in R}
Ors(R)    == UNION {r.ors : r \in R}
Said(R)   == \E r \in R : r.said
AllOk(R)  == \A r \in R : r.ok

\* All the arguments of a list, or none of them.
Together(R) == IF AllOk(R) THEN Resolved(Leaves(R), Ors(R)) ELSE Refused(Said(R))

IsNamed(t) == t.op \in {"name", "selector"}

\* An argument of proven.Or.  A selector whose package is unknown says nothing.
ResolveLeafOnly(t) ==
  IF IsNamed(t) THEN Resolved({t.name}, {}) ELSE Refused(t.op # "unknown selector")

\* The arguments of an Or, all of them or none.
Alternatives(t) == Together({ResolveLeafOnly(u) : u \in Operands(t)})

ResolveAndFlat[t \in PredNode] ==
  CASE IsNamed(t)   -> Resolved({t.name}, {})
    [] t.op = "And" -> Together({ResolveAndFlat[u] : u \in Operands(t)})
    [] t.op = "Or" /\ t.args # <<>> ->
         IF Alternatives(t).ok THEN Resolved({}, {Alternatives(t).leaves}) ELSE Alternatives(t)
    [] OTHER        -> Refused(TRUE)

\* No alternative of an Or comes from an unknown package.
OrsKnown == \A t \in PredNode : t.op = "Or" => \A u \in Operands(t) : u.op # "unknown selector"

Arguments(c) == {ResolveAndFlat[t] : t \in Operands(c)}
------------------------------------------------------------------------------
(* Functions: [params, calls], params a sequence of fields, each of them   *)
(* the sequence of its names; calls [fn, subject, args, lit], in the body  *)
(* or (lit) in a function literal inside it, with at least one predicate.  *)

\* One slot per parameter, nameless ones included.
Slots(f) == FlattenSeq([i \in DOMAIN f.params |-> IF f.params[i] = <<>> THEN <<"_">> ELSE f.params[i]])

\* Faulty: nameless parameters take no slot.
ParamIndexNamed(f, v) ==
  SelectInSeq(SelectSeq(Slots(f), LAMBDA w : w # "_"), LAMBDA w : w = v)

\* buildParamIndex, from 1; 0 for a name that is no parameter. Names are all
\* the scanner has: a local that shadows a parameter is taken for it. Here
\* no local does.
ParamIndex(f, v) == IF v = "_" THEN 0 ELSE SelectInSeq(Slots(f), LAMBDA w : w = v)

Trackable(c) == c.subject # "expression"

Thats(f)   == {c \in ToSet(f.calls) : c.fn = "proven.That"}
Returns(f) == {c \in ToSet(f.calls) : c.fn \in {"proven.Returns", "trust.Returns"}}

\* An argument that cannot be resolved is skipped; the others are recorded.
Record(C) == LET R == UNION {Arguments(c) : c \in C} IN [leaves |-> Leaves(R), ors |-> Ors(R)]

\* The assertions on parameter i.
On(f, i) == {c \in Thats(f) : Trackable(c) /\ ParamIndex(f, c.subject) = i}
\* A function without any of these is not recorded.
Kept(f)  == (\E i \in DOMAIN Slots(f) : On(f, i) # {}) \/ Record(Returns(f)).leaves # {}
Nothing  == [leaves |-> {}, ors |-> {}]

ScanFunc(f) ==
  [said    |-> \/ \E c \in Thats(f) : ~Trackable(c)
               \/ \E c \in ToSet(f.calls) : (c \in Thats(f) => Trackable(c)) /\ Said(Arguments(c)),
   params  |-> [i \in DOMAIN Slots(f) |-> IF Kept(f) THEN Record(On(f, i)) ELSE Nothing],
   returns |-> IF Kept(f) THEN Record(Returns(f)) ELSE Nothing]

\* What Go asks of a function: its parameters differ, and _ is no expression.
WellNamed(f) ==
  /\ f.params \in Seq(Seq(STRING))
  /\ \A i, j \in DOMAIN Slots(f) : Slots(f)[i] = Slots(f)[j] => i = j \/ Slots(f)[i] = "_"
  /\ \A c \in ToSet(f.calls) : c.subject # "_"

\* No function literal has contracts of its own, and no disjunctive
\* postcondition stands alone.
PlainContracts(f) == (\A c \in ToSet(f.calls) : ~c.lit) /\ (Kept(f) \/ Record(Returns(f)).ors = {})
------------------------------------------------------------------------------
(* Rules: [pkg, form, from, given, to], where pkg is what the chain starts *)
(* with and form is From for From(..).To(..), Given with a Given between.  *)

NoRule(said) == [ok |-> FALSE, said |-> said, from |-> {}, given |-> {}, to |-> {}]

\* Faulty: arguments that cannot be resolved, and disjunctions, are skipped.
SlotLenient(args) ==
  Resolved(UNION {ResolveAndFlat[t].leaves : t \in ToSet(args)}, {})

\* resolvePredicates: no disjunction.
Slot(args) ==
  LET R == {ResolveAndFlat[t] : t \in ToSet(args)}
  IN  IF AllOk(R) /\ Ors(R) # {} THEN Refused(TRUE)
      ELSE IF AllOk(R) THEN Resolved(Leaves(R), {})
      ELSE Refused(Said(R) \/ Ors(R) # {})

ExtractInferRule(r) ==
  LET to    == Slot(r.to)
      given == IF r.form = "Given" THEN Slot(r.given) ELSE Resolved({}, {})
      from  == Slot(r.from)
  IN  CASE r.to = <<>> -> NoRule(FALSE)
        [] r.to # <<>> /\ ~to.ok -> NoRule(to.said)
        [] OTHER ->
             IF \/ r.pkg # "infer" \/ r.form \notin {"From", "Given"} \/ r.from = <<>>
                \/ r.form = "Given" /\ r.given = <<>>
             THEN NoRule(FALSE)
             ELSE IF ~given.ok THEN NoRule(given.said)
             ELSE IF ~from.ok THEN NoRule(from.said)
             ELSE [ok |-> TRUE, said |-> FALSE,
                   from |-> from.leaves, given |-> given.leaves, to |-> to.leaves]
------------------------------------------------------------------------------
(* Run time: H is the set of named predicates that hold on the value; any   *)
(* combination may.                                                        *)

Values == SUBSET Predicates

Answer[t \in PredNode] ==
  [H \in Values |->
     CASE t.op = "And" -> \A u \in Operands(t) : Answer[u][H]
       [] t.op = "Or"  -> \E u \in Operands(t) : Answer[u][H]
       [] t.op = "Not" -> ~Answer[t.args[1]][H]
       [] OTHER        -> t.name \in H]

AllHold(args, H) == \A t \in ToSet(args) : Answer[t][H]

\* Rule.Check, Rule.Applies; a rule without Given has the empty list.
Check(r, H) ==
  r.from # <<>> /\ AllHold(r.from, H) /\ (r.given # <<>> => AllHold(r.given, H)) => AllHold(r.to, H)
Applies(r, H) == r.from # <<>> /\ AllHold(r.from, H) /\ (r.given # <<>> => AllHold(r.given, H))

\* infertest: the test passes.
Verify(r, Samples)        == \A H \in Samples : Check(r, H)
VerifyApplies(r, Samples) == Verify(r, Samples) /\ \E H \in Samples : Applies(r, H)
------------------------------------------------------------------------------
Demands(o, H) == o.leaves \subseteq H /\ \A alts \in o.ors : alts \cap H # {}

\* A function that the scanner takes without a word: what callers must prove of
\* each argument, and what they are told of the result, is what the contracts
\* of the function itself check at run time, on every value.
ContractsAsDeclared(f, s) ==
  LET own(C) == {c \in C : ~c.lit}
  IN  ~s.said =>
        \A H \in Values :
          /\ \A i \in DOMAIN Slots(f) :
               Demands(s.params[i], H)
                 <=> \A c \in own(Thats(f)) : c.subject = Slots(f)[i] => AllHold(c.args, H)
          /\ Demands(s.returns, H) <=> \A c \in own(Returns(f)) : AllHold(c.args, H)

\* A rule is harvested only from pkg/infer and says on every value what
\* infertest verifies for it; one with all its slots is never dropped silently.
RulesAsVerified(r, rule) ==
  /\ rule.ok =>
       /\ r.pkg = "infer" /\ r.form \in {"From", "Given"}
       /\ \A H \in Values :
            /\ Verify(r, {H}) <=> (rule.from \cup rule.given \subseteq H => rule.to \subseteq H)
            /\ VerifyApplies(r, {H}) <=> rule.from \cup rule.given \cup rule.to \subseteq H
  /\ (/\ r.pkg = "infer" /\ r.from # <<>> /\ r.to # <<>>
      /\ \/ r.form = "From"
         \/ r.form = "Given" /\ r.given # <<>>)
       => rule.ok \/ rule.said
=============================================================================
