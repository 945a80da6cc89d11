------------------------------ MODULE Analyzer ------------------------------
(***************************************************************************)
(* The flow-sensitive walk of one function body (analyzer.go), in lockstep *)
(* with one execution of that body.                                        *)
(*                                                                         *)
(* The walked function is not given: each step walks one more statement,   *)
(* any that Constructs allows, so the behaviours are the walks of every    *)
(* function of at most MaxStmts statements. The state of the walk is the   *)
(* event stream, the stack of open statements, the return snapshots and    *)
(* whether an obligation was reported missing. The execution is a ghost:   *)
(* whether it reaches each open statement, which predicates are true of    *)
(* each key's present value, and when that value came to be. A loop body   *)
(* is walked once and executed at an arbitrary iteration.                  *)
(***************************************************************************)
EXTENDS EventStream

CONSTANTS
  Arg,         \* the synthetic key "$arg0" of a nested call's result
  Params,      \* the variables declared by the function's signature
  Guards,      \* if-conditions: the facts each yields when true, when false
  Constructs,  \* the statement kinds the function may contain
  MaxStmts     \* the most statements walked

Var == {v \in Key : Root[v] = v} \ {Arg}
Subject == Key \ {Arg}
Facts == [claim : Claim, key : Subject]

ASSUME ArgAssumption == Arg \in Key /\ \A k \in Key : Root[k] = Arg <=> k = Arg
ASSUME ParamsAssumption == Params \subseteq Var
ASSUME GuardsAssumption == Guards \subseteq [yes : SUBSET Facts, no : SUBSET Facts]
ASSUME MaxStmtsAssumption == MaxStmts \in Nat

VARIABLES
  stack,      \* open statements, innermost last; the first is the function
  snapshots,  \* the claims on the returned identifier, one per return
  missing,    \* an obligation was not discharged: the build fails
  clock,      \* ghost: statements walked
  env,        \* ghost: the predicates true of each key's value
  touched,    \* ghost: the moment from which each key has that value
  result      \* ghost: what the execution returned

vars == <<stream, stack, snapshots, missing, clock, env, touched, result>>

Value == SUBSET Pred

Frame ==
  [kind : {"func", "then", "else", "elseif", "block", "loop", "case"},
   prev : Nat,                \* the scope to come back to
   yes : SUBSET DatedFact,    \* facts when the condition is true ...
   no : SUBSET DatedFact,     \* ... and when it is false
   escapes : BOOLEAN,         \* a return or panic at this block's top level
   before : BOOLEAN,          \* else: then escapes; case: an earlier one ran
   taken : BOOLEAN,           \* ghost: the execution enters here
   live : BOOLEAN,            \* ghost: and has not left the function since
   declared : SUBSET Var,     \* variables declared in this scope ...
   outerEnv : [Key -> Value], \* ... ghost: and what they shadow
   outerTouched : [Key -> Nat],
   havoc : SUBSET Var,        \* ghost: variables other iterations assign
   base : Nat]                \* ghost: entries when the frame was pushed

TypeOK ==
  /\ StreamTypeOK
  /\ stack \in Seq(Frame) /\ stack # <<>>
  /\ snapshots \subseteq SUBSET Claim
  /\ missing \in BOOLEAN
  /\ clock \in Nat
  /\ env \in [Key -> Value]
  /\ touched \in [Key -> Nat]
  /\ result \in [returned : BOOLEAN, value : Value, tainted : BOOLEAN]

-----------------------------------------------------------------------------
(* The execution.                                                          *)

True(c, k) == c \cap env[k] # {}
AllTrue(F) == \A f \in F : True(f.claim, f.key)

Dated(F, t)  == {[claim |-> f.claim, key |-> f.key, asOf |-> t] : f \in F}
On(C, k, t)  == {[claim |-> c, key |-> k, asOf |-> t] : c \in C}
Satisfies(value, C) == \A c \in C : c \cap value # {}

Top  == stack[Len(stack)]
Rest == SubSeq(stack, 1, Len(stack) - 1)
SetTop(f) == stack' = [stack EXCEPT ![Len(stack)] = f]

KeysOf(V) == {k \in Key : Root[k] \in V}
Values(V) == [KeysOf(V) -> Value]

\* The execution, if it is here, gives the variables of V new values.
Mutate(V, new, here) ==
  /\ env' = [k \in Key |-> IF here /\ k \in KeysOf(V) THEN new[k] ELSE env[k]]
  /\ touched' =
       [k \in Key |-> IF here /\ k \in KeysOf(V) THEN clock + 1 ELSE touched[k]]

\* The frame f once V is declared in its scope.
Declaring(f, V) ==
  LET shadowed == KeysOf(V \ f.declared)
  IN  [f EXCEPT
        !.declared = @ \cup V,
        !.outerEnv = [k \in Key |-> IF k \in shadowed THEN env[k] ELSE @[k]],
        !.outerTouched =
           [k \in Key |-> IF k \in shadowed THEN touched[k] ELSE @[k]]]

\* One statement of the open block: it declares D, changes M, and goes on if
\* `ok` (the condition a panicking check tests).
Execute(D, M, new, ok) ==
  /\ Mutate(M, new, Top.live)
  /\ SetTop([Declaring(Top, D) EXCEPT !.live = @ /\ ok])

-----------------------------------------------------------------------------
(* Walking a block: one more statement.                                    *)

\* An else-if holds its if and nothing else.
NextStmt(kind) ==
  /\ kind \in Constructs
  /\ ~missing /\ clock < MaxStmts /\ Top.kind # "elseif"
  /\ clock' = clock + 1

Record(F, V, G) == events' = Append(events, Recorded(F, V, clock + 1, G, current))

NewFrame(kind, prev, yes, no) ==
  [kind |-> kind, prev |-> prev, yes |-> yes, no |-> no,
   escapes |-> FALSE, before |-> FALSE, taken |-> TRUE, live |-> TRUE,
   declared |-> {}, outerEnv |-> [k \in Key |-> {}],
   outerTouched |-> [k \in Key |-> 0], havoc |-> {}, base |-> Len(events)]

Init ==
  \E seeds \in SUBSET [claim : Claim, key : Params] :
    /\ StreamInit(Dated(seeds, 0))
    /\ stack = <<[NewFrame("func", 1, {}, {}) EXCEPT !.declared = Params]>>
    /\ snapshots = {}
    /\ missing = FALSE
    /\ clock = 0
    /\ env \in {e \in [Key -> Value] : e[Arg] = {}}
    /\ AllTrue(seeds)
    /\ touched = [k \in Key |-> 0]
    /\ result = [returned |-> FALSE, value |-> {}, tainted |-> FALSE]

\* Calls with obligations (recordCallDischarge) and in-body assertions
\* (verifyProvenThat, verifyProvenReturns): one lookup at this point.
Call(k, c) ==
  /\ NextStmt("call")
  /\ missing' = ~Discharged(c, k, current)
  /\ UNCHANGED <<stream, stack, snapshots, env, touched, result>>

\* target(f()): the facts C that f returns ride a synthetic key in a scope
\* that is left as soon as the argument has been checked.
CallNested(C, c) ==
  /\ NextStmt("nested")
  /\ path' = Opened(current)
  /\ events' = Append(events, Source(On(C, Arg, clock), NextScope))
  /\ \E s \in {NextScope} : missing' = ~Discharged(c, Arg, s)'
  /\ UNCHANGED <<current, stack, snapshots, env, touched, result>>

-----------------------------------------------------------------------------
(* Assignments. In a nested scope `=` reaches an outer variable and `:=`   *)
(* declares a new one; the walk records the same write for both.           *)

MayBind(mode, l) ==
  IF mode = ":=" THEN "define" \in Constructs /\ l = Root[l]
  ELSE Len(stack) = 1 \/ Root[l] \in Top.declared \/ "outer" \in Constructs

Declares(mode, V) == IF mode = ":=" THEN V ELSE {}

\* l = e, l := e: any value, no facts.
AssignValue(mode, l) ==
  /\ NextStmt("assign")
  /\ MayBind(mode, l)
  /\ Record({}, {Root[l]}, {})
  /\ \E new \in Values({Root[l]}) :
       Execute(Declares(mode, {Root[l]}), {Root[l]}, new, TRUE)
  /\ UNCHANGED <<path, current, snapshots, missing, result>>

\* v++, and f(&v): the walk records a write, the execution any new value.
Overwrite(kind, v) ==
  /\ NextStmt(kind)
  /\ MayBind("=", v)
  /\ Record({}, {v}, {})
  /\ \E new \in Values({v}) : Execute({}, {v}, new, TRUE)
  /\ UNCHANGED <<path, current, snapshots, missing, result>>

IncDec(v)     == Overwrite("incdec", v)
AddrEscape(v) == Overwrite("escape", v)

\* l = f(): f's return facts C become facts on l, after the write.
AssignCall(mode, l, C) ==
  /\ NextStmt("assigncall")
  /\ MayBind(mode, l)
  /\ Record({}, {Root[l]}, On(C, l, clock + 1))
  /\ \E new \in Values({Root[l]}) :
       /\ Satisfies(new[l], C)
       /\ Execute(Declares(mode, {Root[l]}), {Root[l]}, new, TRUE)
  /\ UNCHANGED <<path, current, snapshots, missing, result>>

\* v, w = f(): the facts are planted on both, though f's contract speaks of
\* its first result only (the second is dated 0: never examined).
AssignTwo(mode, v, w, C) ==
  /\ NextStmt("multi")
  /\ v # w /\ MayBind(mode, v) /\ MayBind(mode, w)
  /\ Record({}, {v, w}, On(C, v, clock + 1) \cup On(C, w, 0))
  /\ \E new \in Values({v, w}) :
       /\ Satisfies(new[v], C)
       /\ Execute(Declares(mode, {v, w}), {v, w}, new, TRUE)
  /\ UNCHANGED <<path, current, snapshots, missing, result>>

\* prove.Must(k, c) as a statement; trust.That(k, c) likewise, with the
\* programmer's word in place of the check.
Must(k, c) ==
  /\ NextStmt("must")
  /\ Record({}, {}, On({c}, k, clock))
  /\ Execute({}, {}, env, True(c, k))
  /\ UNCHANGED <<path, current, snapshots, missing, result>>

\* l = prove.Must(k, c): a fact on k, the write, a fact on l.
AssignMust(mode, l, k, c) ==
  /\ NextStmt("assignmust")
  /\ MayBind(mode, l)
  /\ Record(On({c}, k, clock), {Root[l]}, On({c}, l, clock + 1))
  /\ \E new \in Values({Root[l]}) :
       /\ new[l] = env[k]
       /\ Execute(Declares(mode, {Root[l]}), {Root[l]}, new, True(c, k))
  /\ UNCHANGED <<path, current, snapshots, missing, result>>

\* var v = f(), or var v = e with C empty: facts as for an assignment, but
\* no write is recorded.
Decl(v, C) ==
  /\ NextStmt("decl")
  /\ v \notin Top.declared
  /\ Record({}, {}, On(C, v, clock + 1))
  /\ \E new \in Values({v}) :
       /\ Satisfies(new[v], C)
       /\ Execute({v}, {v}, new, TRUE)
  /\ UNCHANGED <<path, current, snapshots, missing, result>>

\* A mutation the walk has no case for: v.f++, f(&v.f), *r = e with r = &v.
Silent(v) ==
  /\ NextStmt("silent")
  /\ \E new \in Values({v}) : Execute({}, {v}, new, TRUE)
  /\ UNCHANGED <<stream, snapshots, missing, result>>

-----------------------------------------------------------------------------
(* Statements with bodies. A branch is pushed with its scope, the facts    *)
(* planted on entry, and whether the execution takes it.                   *)

\* An execution that is here may take the branch if F holds, and may pass it
\* by if G holds.
MayTake(taken, F, G) ==
  IF Top.live THEN AllTrue(IF taken THEN F ELSE G) ELSE ~taken

Branch(f, taken) == [f EXCEPT !.taken = taken, !.live = taken]

\* Open f's scope under scope s with the facts F planted in it.
Open(s, F) ==
  /\ path' = Opened(s)
  /\ current' = NextScope
  /\ events' = Append(events, Source(F, NextScope))

If(g) ==
  /\ NextStmt("if")
  /\ Open(current, Dated(g.yes, clock))
  /\ \E taken \in BOOLEAN :
       /\ MayTake(taken, g.yes, g.no)
       /\ stack' = Append(stack, Branch(NewFrame("then", current,
                     Dated(g.yes, clock), Dated(g.no, clock)), taken))
  /\ UNCHANGED <<snapshots, missing, env, touched, result>>

(***************************************************************************)
(* v, err := prove.That(k, c) followed by if err != nil or if err == nil:  *)
(* the two statements are consumed together (tryProvePattern). V is {v},   *)
(* or {} when the value is discarded; v may be a path, whose root is then  *)
(* what the walk sees written, and which gets no fact for being assigned.  *)
(* prove.That returns its argument whether or not the check passes. A      *)
(* switch clause is walked statement by statement, so the pattern is not   *)
(* recognised directly inside one.                                         *)
(***************************************************************************)
Roots(V) == {Root[v] : v \in V}

ProveTargets(V, k, c) ==
  {[claim |-> c, key |-> t, asOf |-> IF t \in V THEN clock + 1 ELSE clock] :
     t \in (V \cap Var) \cup {k}}

ProveThatIf(mode, V, k, c, op) ==
  LET proved == ProveTargets(V, k, c)
      yes   == IF op = "==" THEN proved ELSE {}
      no    == IF op = "!=" THEN proved ELSE {}
      taken == Top.live /\ (True(c, k) <=> op = "==")
      opening == Declaring(Top, Declares(mode, Roots(V)))
  IN
  /\ NextStmt("that")
  /\ Top.kind # "case"
  /\ \A v \in V : MayBind(mode, v)
  /\ "selfthat" \in Constructs \/ k \in V \/ Root[k] \notin Roots(V)
  /\ path' = Opened(current)
  /\ current' = NextScope
  /\ events' = Append(Append(events, Recorded({}, Roots(V), clock + 1, {}, current)),
                      Source(yes, NextScope))
  /\ stack' = Append([stack EXCEPT ![Len(stack)] = opening],
                     Branch(NewFrame("then", current, yes, no), taken))
  /\ \E new \in Values(Roots(V)) :
       /\ \A v \in V : new[v] = env[k]
       /\ Mutate(Roots(V), new, Top.live)
  /\ UNCHANGED <<snapshots, missing, result>>

-----------------------------------------------------------------------------
(* The end of a branch.                                                    *)

\* The frame that encloses the branch, once the branch has been walked.
Outer == [stack[Len(stack) - 1] EXCEPT !.live = IF Top.taken THEN Top.live ELSE @]
Popped == [Rest EXCEPT ![Len(Rest)] = Outer]

\* The execution is in the enclosing block and passed this branch by.
PassedBy == ~Top.taken /\ Outer.live

\* The variables the branch declared are gone, those they shadowed are back.
EndScope ==
  LET gone == KeysOf(Top.declared) IN
  /\ env' = [k \in Key |-> IF k \in gone THEN Top.outerEnv[k] ELSE env[k]]
  /\ touched' = [k \in Key |-> IF k \in gone THEN Top.outerTouched[k] ELSE touched[k]]

Close(F) ==
  /\ stack' = Popped
  /\ current' = Top.prev
  /\ events' = Append(events, Source(F, Top.prev))
  /\ EndScope
  /\ UNCHANGED <<path, snapshots, missing, clock, result>>

\* The end of an if without else: when its body always escapes, what the
\* condition's failure means holds from here on.
EndThen ==
  /\ Top.kind = "then" /\ ~missing
  /\ Close(IF Top.escapes THEN Top.no ELSE {})

\* The branch that follows the one being closed.
Sibling(kind) ==
  Branch([NewFrame(kind, Top.prev, Top.yes, Top.no) EXCEPT !.before = Top.escapes],
         PassedBy)

\* Faulty: the else scope is opened inside the then scope.
ElseInsideThen ==
  /\ Top.kind = "then" /\ ~missing
  /\ stack' = Append(Popped, Sibling("else"))
  /\ Open(current, Top.no)
  /\ EndScope
  /\ UNCHANGED <<snapshots, missing, clock, result>>

Else ==
  /\ Top.kind = "then" /\ ~missing
  /\ stack' = Append(Popped, Sibling("else"))
  /\ Open(Top.prev, Top.no)
  /\ EndScope
  /\ UNCHANGED <<snapshots, missing, clock, result>>

\* else if: a scope for the else, and the nested if's scope inside it.
ElseIf(g) ==
  /\ "elseif" \in Constructs /\ clock < MaxStmts
  /\ Top.kind = "then" /\ ~missing
  /\ clock' = clock + 1
  /\ path' = Append(Opened(Top.prev),
                    path[Top.prev] \cup {NextScope, NextScope + 1})
  /\ current' = NextScope + 1
  /\ events' = Append(Append(events, Source(Top.no, NextScope)),
                      Source(Dated(g.yes, clock), NextScope + 1))
  /\ EndScope
  /\ \E taken \in BOOLEAN :
       /\ IF PassedBy
          THEN \A f \in (IF taken THEN g.yes ELSE g.no) : f.claim \cap env'[f.key] # {}
          ELSE ~taken
       /\ stack' = Append(Append(Popped, Sibling("elseif")),
                     Branch(NewFrame("then", NextScope, Dated(g.yes, clock),
                                     Dated(g.no, clock)), taken))
  /\ UNCHANGED <<snapshots, missing, result>>

\* Faulty: the facts of the branch that escaped survive.
SurvivingEscaped ==
  LET elseEscapes == Top.kind = "else" /\ Top.escapes
  IN  CASE Top.before /\ ~elseEscapes -> Top.yes
        [] ~Top.before /\ elseEscapes -> Top.no
        [] OTHER -> {}

\* What survives an if-else: the facts of the one branch that falls
\* through. A nested else-if counts as not escaping.
Surviving ==
  LET elseEscapes == Top.kind = "else" /\ Top.escapes
  IN  CASE Top.before /\ ~elseEscapes -> Top.no
        [] ~Top.before /\ elseEscapes -> Top.yes
        [] OTHER -> {}

EndElse ==
  /\ Top.kind \in {"else", "elseif"} /\ ~missing
  /\ Close(Surviving)

-----------------------------------------------------------------------------
(* Blocks, loops and switches: the scope opens with no facts.              *)

Block ==
  /\ NextStmt("block")
  /\ Open(current, {})
  /\ stack' = Append(stack, Branch(NewFrame("block", current, {}, {}), Top.live))
  /\ UNCHANGED <<snapshots, missing, env, touched, result>>

(***************************************************************************)
(* for and range: the header is not walked and the body is walked once.    *)
(* The execution is at some iteration: the variables of W were assigned by *)
(* earlier ones, those of D are declared by the header.                    *)
(***************************************************************************)
Loop(W, D) ==
  /\ NextStmt("loop")
  /\ W # {} => "outer" \in Constructs
  /\ D # {} => "header" \in Constructs
  /\ Open(current, {})
  /\ \E taken \in BOOLEAN, new \in Values(W \cup D) :
       /\ MayTake(taken, {}, {})
       /\ Mutate(W \cup D, new, taken)
       /\ stack' = Append(stack,
            Branch(Declaring([NewFrame("loop", current, {}, {})
                              EXCEPT !.havoc = W], D), taken))
  /\ UNCHANGED <<snapshots, missing, result>>

\* switch: one scope per clause, siblings; one clause runs, or several in a
\* row by fallthrough. The tag and the case expressions are not walked.
Switch ==
  /\ NextStmt("switch")
  /\ Open(current, {})
  /\ \E taken \in BOOLEAN :
       /\ MayTake(taken, {}, {})
       /\ stack' = Append(stack, Branch(NewFrame("case", current, {}, {}), taken))
  /\ UNCHANGED <<snapshots, missing, env, touched, result>>

NextCase ==
  /\ Top.kind = "case" /\ ~missing /\ clock < MaxStmts
  /\ clock' = clock + 1
  /\ Open(Top.prev, {})
  /\ EndScope
  /\ \E taken \in BOOLEAN :
       /\ taken => (PassedBy /\ ~Top.before) \/ (Top.taken /\ Top.live)
       /\ stack' = Append(Popped,
            Branch([NewFrame("case", Top.prev, {}, {})
                    EXCEPT !.before = Top.before \/ Top.taken], taken))
  /\ UNCHANGED <<snapshots, missing, result>>

\* A body whose other iterations assign W does assign W.
WritesHavoc ==
  \A v \in Top.havoc :
    \E j \in DOMAIN events : j > Top.base /\ v \in events[j].wrote

EndBody ==
  /\ Top.kind \in {"block", "loop", "case"} /\ ~missing
  /\ WritesHavoc
  /\ Close({})

-----------------------------------------------------------------------------
(* Leaving the function.                                                   *)

\* The last change of k's value is not recorded as a write visible here.
Hidden(k) ==
  /\ touched[k] > 0
  /\ ~\E j \in DOMAIN events :
        Bars(j, Root[k], current) /\ events[j].at = touched[k]

Escape == SetTop([Top EXCEPT !.escapes = TRUE, !.live = FALSE])

\* Faulty: a return of something other than an identifier takes no snapshot.
LeaveUncounted(snapshot, value, tainted) ==
  /\ Escape
  /\ snapshots' = IF snapshot = {} THEN snapshots ELSE snapshots \cup {snapshot}
  /\ result' = IF Top.live
               THEN [returned |-> TRUE, value |-> value, tainted |-> tainted]
               ELSE result
  /\ UNCHANGED <<stream, missing, env, touched>>

Leave(snapshot, value, tainted) ==
  /\ Escape
  /\ snapshots' = snapshots \cup {snapshot}
  /\ result' = IF Top.live
               THEN [returned |-> TRUE, value |-> value, tainted |-> tainted]
               ELSE result
  /\ UNCHANGED <<stream, missing, env, touched>>

\* return v: the facts on v are the snapshot.
Return(v) ==
  /\ NextStmt("return")
  /\ Leave(Snapshot(v, current), env[v], Hidden(v))

\* A return whose first result is no identifier: a literal, a call.
ReturnOther ==
  /\ NextStmt("return")
  /\ \E value \in Value : Leave({}, value, FALSE)

Panic ==
  /\ NextStmt("panic")
  /\ Escape
  /\ UNCHANGED <<stream, snapshots, missing, env, touched, result>>

\* intersectReturns: what the function advertises to its callers.
DerivedReturns ==
  IF snapshots = {} THEN {} ELSE {c \in Claim : \A s \in snapshots : c \in s}

-----------------------------------------------------------------------------
Modes == {"=", ":="}
SomeClaims == (SUBSET Claim) \ {{}}

Simple ==
  \/ \E k \in Subject, c \in Claim : Call(k, c) \/ Must(k, c)
  \/ \E C \in SomeClaims, c \in Claim : CallNested(C, c)
  \/ \E l \in Subject, mode \in Modes :
       \/ AssignValue(mode, l)
       \/ \E C \in SomeClaims : AssignCall(mode, l, C)
       \/ \E k \in Subject, c \in Claim : AssignMust(mode, l, k, c)
  \/ \E v, w \in Var, mode \in Modes, C \in SomeClaims : AssignTwo(mode, v, w, C)
  \/ \E v \in Var : IncDec(v) \/ AddrEscape(v) \/ Silent(v) \/ Return(v)
  \/ \E v \in Var, C \in SUBSET Claim : Decl(v, C)
  \/ ReturnOther \/ Panic

Compound ==
  \/ \E g \in Guards : If(g) \/ ElseIf(g)
  \/ \E V \in {{}} \cup {{l} : l \in Subject}, k \in Subject, c \in Claim,
        mode \in Modes, op \in {"==", "!="} : ProveThatIf(mode, V, k, c, op)
  \/ Else \/ EndThen \/ EndElse
  \/ Block \/ Switch \/ NextCase \/ EndBody
  \/ \E W, D \in SUBSET Var : Loop(W, D)

Next == Simple \/ Compound

Spec == Init /\ [][Next]_vars

-----------------------------------------------------------------------------
(* What the walk promises.                                                 *)

Fresh(f) == f.asOf >= touched[f.key]

(***************************************************************************)
(* Facts are planted only where they are true. Whenever the execution      *)
(* reaches this point, every fact in sight that was recorded for the       *)
(* present value of its key is true of that value: on both sides of a      *)
(* guard, after a join that one branch escapes, for both targets of        *)
(* prove.That, across shadowing, whatever ran in between.                  *)
(***************************************************************************)
FreshFactsHold ==
  Top.live => \A i \in DOMAIN events :
                Visible(i, current) =>
                  \A f \in events[i].pre \cup events[i].post :
                    Fresh(f) => True(f.claim, f.key)

(***************************************************************************)
(* No discharged obligation fails at run time unless the walk was blind to *)
(* the change. A fact the lookup finds here (so: any call it would accept  *)
(* here) is true of the execution's value, except on a variable whose last *)
(* change is recorded as no write that is visible here.                    *)
(***************************************************************************)
FoundFactsHold ==
  Top.live => \A c \in Claim, k \in Key :
                HasFact(c, k, current) /\ ~Hidden(k) => True(c, k)

(***************************************************************************)
(* The postconditions derived for the function (the intersection over its  *)
(* returns) are true of the value an execution returns, when that value's  *)
(* last change was not hidden at the return.                               *)
(***************************************************************************)
DerivedReturnsHold ==
  result.returned /\ ~result.tainted => Satisfies(result.value, DerivedReturns)

(***************************************************************************)
(* README, "Mutation and soundness": whatever changes x drops every fact   *)
(* on x, so that a fact the lookup finds is always true of the value.      *)
(***************************************************************************)
EveryFactHolds ==
  Top.live => \A c \in Claim, k \in Key : HasFact(c, k, current) => True(c, k)
=============================================================================
