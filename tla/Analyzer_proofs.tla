-------------------------- MODULE Analyzer_proofs --------------------------
(***************************************************************************)
(* The walk, for every set of predicates, claims, keys and guards, every   *)
(* set of constructs and any number of statements.                         *)
(*                                                                         *)
(* First, its types. With them goes what keeps `current' = Top.prev` and   *)
(* the pops defined: the first frame is the function's, no other is, and   *)
(* every scope a frame came from exists.                                   *)
(*                                                                         *)
(* Then, what the walk believes is true of the execution: the facts it     *)
(* plants, those its lookups find and the postconditions it derives. The   *)
(* properties speak of the open block only. The invariant says the same of *)
(* every enclosing block, for the execution's variables as they will be    *)
(* when the blocks inside it have been closed.                             *)
(***************************************************************************)
EXTENDS Analyzer, SequenceTheorems, TLAPS

WellNested(s, scopes) ==
  /\ s \in Seq(Frame) /\ s # <<>>
  /\ s[1].kind = "func"
  /\ \A d \in 2..Len(s) : s[d].kind # "func"
  /\ \A d \in 1..Len(s) : s[d].prev \in 1..scopes

TypedWalk == TypeOK /\ WellNested(stack, Len(path))

-----------------------------------------------------------------------------
(* Operators.                                                              *)

\* Datings and claim lists are sets of dated facts.
LEMMA DatedType ==
  ASSUME NEW F \in SUBSET [claim : Claim, key : Key], NEW t \in Nat
  PROVE  Dated(F, t) \in SUBSET DatedFact
  BY DEF Dated, DatedFact

LEMMA OnType ==
  ASSUME NEW C \in SUBSET Claim, NEW k \in Key, NEW t \in Nat
  PROVE  On(C, k, t) \in SUBSET DatedFact
  BY DEF On, DatedFact

LEMMA RecordedType ==
  ASSUME NEW F \in SUBSET DatedFact, NEW V \in SUBSET Key, NEW t \in Nat,
         NEW G \in SUBSET DatedFact, NEW s \in Nat
  PROVE  Recorded(F, V, t, G, s) \in Entry
  BY DEF Recorded, Entry

LEMMA SourceType ==
  ASSUME NEW G \in SUBSET DatedFact, NEW s \in Nat
  PROVE  Source(G, s) \in Entry
  BY DEF Source, Recorded, Entry

LEMMA VarType == Var \subseteq Key /\ Subject \subseteq Key /\ Params \subseteq Var
  BY ParamsAssumption DEF Var, Subject

LEMMA GuardType ==
  ASSUME NEW g \in Guards
  PROVE  /\ g.yes \in SUBSET [claim : Claim, key : Key]
         /\ g.no \in SUBSET [claim : Claim, key : Key]
  BY GuardsAssumption, VarType DEF Facts

LEMMA RootType == \A k \in Key : Root[k] \in Key
  BY RootAssumption

\* The root of a subject is a variable.
LEMMA SubjectRoot == \A k \in Subject : Root[k] \in Var
  BY RootAssumption, ArgAssumption DEF Subject, Var

Kinds == {"func", "then", "else", "elseif", "block", "loop", "case"}

LEMMA NewFrameType ==
  ASSUME events \in Seq(Entry), NEW kind \in Kinds, NEW prev \in Nat,
         NEW yes \in SUBSET DatedFact, NEW no \in SUBSET DatedFact
  PROVE  /\ NewFrame(kind, prev, yes, no) \in Frame
         /\ NewFrame(kind, prev, yes, no).kind = kind
         /\ NewFrame(kind, prev, yes, no).prev = prev
<1>1. Len(events) \in Nat
  BY LenProperties
<1>2. [k \in Key |-> {}] \in [Key -> Value] /\ [k \in Key |-> 0] \in [Key -> Nat]
  BY DEF Value
<1> QED
  BY <1>1, <1>2 DEF NewFrame, Frame, Kinds

LEMMA BranchType ==
  ASSUME NEW f \in Frame, NEW taken \in BOOLEAN
  PROVE  /\ Branch(f, taken) \in Frame
         /\ Branch(f, taken).kind = f.kind
         /\ Branch(f, taken).prev = f.prev
  BY DEF Branch, Frame

LEMMA DeclaringType ==
  ASSUME NEW f \in Frame, NEW V \in SUBSET Var,
         env \in [Key -> Value], touched \in [Key -> Nat]
  PROVE  /\ Declaring(f, V) \in Frame
         /\ Declaring(f, V).kind = f.kind
         /\ Declaring(f, V).prev = f.prev
<1> DEFINE shadowed == KeysOf(V \ f.declared)
           e == [k \in Key |-> IF k \in shadowed THEN env[k] ELSE f.outerEnv[k]]
           t == [k \in Key |-> IF k \in shadowed THEN touched[k] ELSE f.outerTouched[k]]
<1>1. f.outerEnv \in [Key -> Value] /\ f.outerTouched \in [Key -> Nat]
  BY DEF Frame
<1>2. e \in [Key -> Value] /\ t \in [Key -> Nat]
  BY <1>1
<1>3. f.declared \cup V \in SUBSET Var
  BY DEF Frame
<1>4. Declaring(f, V) = [f EXCEPT !.declared = f.declared \cup V,
                                  !.outerEnv = e, !.outerTouched = t]
  BY DEF Declaring
<1> HIDE DEF shadowed, e, t
<1> QED
  BY <1>2, <1>3, <1>4 DEF Frame

\* New values for some variables keep the execution's state well typed.
LEMMA MutateType ==
  ASSUME TypeOK, NEW V, NEW new, \A k \in KeysOf(V) : new[k] \in Value,
         NEW here \in BOOLEAN, Mutate(V, new, here)
  PROVE  env' \in [Key -> Value] /\ touched' \in [Key -> Nat]
  BY DEF TypeOK, Mutate

LEMMA EndScopeType ==
  ASSUME TypeOK, Top \in Frame, EndScope
  PROVE  env' \in [Key -> Value] /\ touched' \in [Key -> Nat]
<1>1. Top.outerEnv \in [Key -> Value] /\ Top.outerTouched \in [Key -> Nat]
  BY DEF Frame
<1> QED
  BY <1>1 DEF TypeOK, EndScope, KeysOf

-----------------------------------------------------------------------------
(* The stack of open statements.                                           *)

LEMMA NestedTop ==
  ASSUME TypedWalk
  PROVE  /\ Len(stack) \in Nat /\ Len(stack) >= 1
         /\ Top \in Frame
         /\ Top.prev \in 1..Len(path)
         /\ Top.prev \in Nat
         /\ Top.kind # "func" => Len(stack) > 1
<1>1. Len(stack) \in Nat /\ Len(stack) >= 1
  BY EmptySeq DEF TypedWalk, WellNested
<1>2. Len(stack) \in 1..Len(stack)
  BY <1>1
<1>3. Top \in Frame
  BY <1>2, ElementOfSeq DEF Top, TypedWalk, WellNested
<1>4. Top.prev \in 1..Len(path)
  BY <1>2 DEF Top, TypedWalk, WellNested
<1>5. Top.prev \in Nat
  BY <1>3 DEF Frame
<1>6. Len(stack) = 1 => Top.kind = "func"
  BY DEF Top, TypedWalk, WellNested
<1>7. Len(stack) # 1 => Len(stack) > 1
  <2>1. \A n \in Nat : n >= 1 /\ n # 1 => n > 1
    OBVIOUS
  <2> QED
    BY <1>1, <2>1, Zenon
<1> QED
  BY <1>1, <1>3, <1>4, <1>5, <1>6, <1>7, Zenon

LEMMA NestedExcept ==
  ASSUME NEW s, NEW n \in Nat, WellNested(s, n), NEW f \in Frame,
         f.kind = s[Len(s)].kind, f.prev \in 1..n
  PROVE  WellNested([s EXCEPT ![Len(s)] = f], n)
<1> DEFINE t == [s EXCEPT ![Len(s)] = f]
<1>1. Len(s) \in Nat /\ Len(s) >= 1 /\ s \in Seq(Frame)
  BY EmptySeq DEF WellNested
<1>2. /\ t \in Seq(Frame) /\ Len(t) = Len(s)
      /\ \A j \in 1..Len(s) : t[j] = IF j = Len(s) THEN f ELSE s[j]
  BY <1>1, ExceptSeq
<1>3. t # <<>>
  BY <1>1, <1>2, EmptySeq
<1> HIDE DEF t
<1>4. \A j \in 1..Len(s) : t[j].kind = s[j].kind /\ t[j].prev \in 1..n
  BY <1>1, <1>2 DEF WellNested
<1>5. 1 \in 1..Len(s) /\ \A j \in 2..Len(s) : j \in 1..Len(s)
  BY <1>1
<1>6. t[1].kind = "func" /\ \A j \in 2..Len(s) : t[j].kind # "func"
  BY <1>4, <1>5 DEF WellNested
<1> QED
  BY <1>2, <1>3, <1>4, <1>6 DEF WellNested, t

LEMMA NestedAppend ==
  ASSUME NEW s, NEW n \in Nat, WellNested(s, n), NEW f \in Frame,
         f.kind # "func", f.prev \in 1..n
  PROVE  WellNested(Append(s, f), n)
<1>1. Len(s) \in Nat /\ Len(s) >= 1 /\ s \in Seq(Frame)
  BY EmptySeq DEF WellNested
<1>2. /\ Append(s, f) \in Seq(Frame) /\ Len(Append(s, f)) = Len(s) + 1
      /\ Append(s, f) # <<>>
      /\ \A j \in 1..Len(s) : Append(s, f)[j] = s[j]
      /\ Append(s, f)[Len(s) + 1] = f
  BY <1>1
<1> QED
  BY <1>1, <1>2 DEF WellNested

LEMMA NestedFront ==
  ASSUME NEW s, NEW n \in Nat, WellNested(s, n), Len(s) > 1
  PROVE  /\ WellNested(SubSeq(s, 1, Len(s) - 1), n)
         /\ Len(SubSeq(s, 1, Len(s) - 1)) = Len(s) - 1
         /\ \A j \in 1..Len(s) - 1 : SubSeq(s, 1, Len(s) - 1)[j] = s[j]
<1>1. Len(s) \in Nat /\ Len(s) >= 1 /\ s \in Seq(Frame)
  BY EmptySeq DEF WellNested
<1>2. /\ SubSeq(s, 1, Len(s) - 1) \in Seq(Frame)
      /\ Len(SubSeq(s, 1, Len(s) - 1)) = Len(s) - 1
      /\ \A j \in 1..Len(s) - 1 : SubSeq(s, 1, Len(s) - 1)[j] = s[j]
  BY <1>1, ElementOfSeq
<1>3. SubSeq(s, 1, Len(s) - 1) # <<>>
  <2>0. \A m \in Nat : m > 1 => m - 1 # 0
    OBVIOUS
  <2>1. Len(s) - 1 # 0
    BY <1>1, <2>0, Zenon
  <2>2. SubSeq(s, 1, Len(s) - 1) = <<>> => Len(SubSeq(s, 1, Len(s) - 1)) = 0
    BY EmptySeq, Zenon
  <2> QED
    BY <1>2, <2>1, <2>2, Zenon
<1> QED
  BY <1>1, <1>2, <1>3 DEF WellNested

LEMMA NestedPopped ==
  ASSUME TypedWalk, Top.kind # "func"
  PROVE  /\ WellNested(Popped, Len(path))
         /\ Outer \in Frame
         /\ PassedBy \in BOOLEAN
<1> DEFINE n == Len(path)
           f == stack[Len(stack) - 1]
<1>1. n \in Nat /\ WellNested(stack, n)
  BY LenProperties DEF TypedWalk, TypeOK, StreamTypeOK
<1>2. Len(stack) \in Nat /\ Len(stack) > 1 /\ Top \in Frame
  BY NestedTop
<1>3. /\ WellNested(Rest, n) /\ Len(Rest) = Len(stack) - 1
      /\ Rest[Len(Rest)] = f
  BY <1>1, <1>2, NestedFront DEF Rest
<1>4. f \in Frame /\ f.prev \in 1..n
  BY <1>1, <1>2, ElementOfSeq DEF WellNested
<1>5. Outer \in Frame /\ Outer.kind = f.kind /\ Outer.prev = f.prev
  BY <1>2, <1>4 DEF Outer, Frame
<1>6. Popped = [Rest EXCEPT ![Len(Rest)] = Outer]
  BY DEF Popped
<1>7. WellNested(Popped, n)
  BY <1>1, <1>3, <1>4, <1>5, <1>6, NestedExcept
<1>8. PassedBy \in BOOLEAN
  BY <1>2, <1>5 DEF PassedBy, Frame
<1> QED
  BY <1>5, <1>7, <1>8

\* Opening a scope leaves every frame well nested in the larger tree.
LEMMA OpenedType ==
  ASSUME TypedWalk, NEW parent \in 1..Len(path)
  PROVE  /\ Opened(parent) \in Seq(SUBSET Nat)
         /\ Len(Opened(parent)) = NextScope
         /\ NextScope \in Nat /\ NextScope \in 1..NextScope
         /\ \A s : WellNested(s, Len(path)) => WellNested(s, NextScope)
         /\ 1..Len(path) \subseteq 1..NextScope
<1>1. path \in Seq(SUBSET Nat) /\ Len(path) \in Nat
  BY LenProperties DEF TypedWalk, TypeOK, StreamTypeOK
<1>2. path[parent] \in SUBSET Nat
  BY <1>1, ElementOfSeq
<1>3. NextScope \in Nat /\ NextScope \in 1..NextScope
  BY <1>1 DEF NextScope
<1>4. path[parent] \cup {NextScope} \in SUBSET Nat
  BY <1>2, <1>3
<1>5. Opened(parent) \in Seq(SUBSET Nat) /\ Len(Opened(parent)) = NextScope
  BY <1>1, <1>4 DEF Opened, NextScope
<1>6. 1..Len(path) \subseteq 1..NextScope
  BY <1>1 DEF NextScope
<1> QED
  BY <1>3, <1>5, <1>6 DEF WellNested

-----------------------------------------------------------------------------
(* Statements of the open block.                                           *)

LEMMA SetTopTyped ==
  ASSUME TypedWalk, NEW f \in Frame, f.kind = Top.kind, f.prev = Top.prev, SetTop(f)
  PROVE  WellNested(stack', Len(path))
<1>1. Len(path) \in Nat
  BY LenProperties DEF TypedWalk, TypeOK, StreamTypeOK
<1> QED
  BY <1>1, NestedTop, NestedExcept DEF TypedWalk, SetTop, Top

LEMMA ExecuteTyped ==
  ASSUME TypedWalk, NEW D \in SUBSET Var, NEW M, NEW new,
         \A k \in KeysOf(M) : new[k] \in Value,
         NEW ok \in BOOLEAN, Execute(D, M, new, ok)
  PROVE  /\ WellNested(stack', Len(path))
         /\ env' \in [Key -> Value] /\ touched' \in [Key -> Nat]
<1>1. Top \in Frame /\ TypeOK
  BY NestedTop DEF TypedWalk
<1>2. Top.live \in BOOLEAN
  BY <1>1 DEF Frame
<1>3. env' \in [Key -> Value] /\ touched' \in [Key -> Nat]
  BY <1>1, <1>2, MutateType DEF Execute
<1> DEFINE d == Declaring(Top, D)
           f == [d EXCEPT !.live = d.live /\ ok]
<1>4. d \in Frame /\ d.kind = Top.kind /\ d.prev = Top.prev
  BY <1>1, DeclaringType DEF TypeOK
<1>5. SetTop(f)
  BY DEF Execute
<1> HIDE DEF d
<1>6. f \in Frame /\ f.kind = Top.kind /\ f.prev = Top.prev
  BY <1>4 DEF Frame
<1> QED
  BY <1>3, <1>5, <1>6, SetTopTyped

LEMMA RecordTyped ==
  ASSUME TypedWalk, NEW F \in SUBSET DatedFact, NEW V \in SUBSET Key,
         NEW G \in SUBSET DatedFact, Record(F, V, G)
  PROVE  events' \in Seq(Entry)
<1>1. events \in Seq(Entry) /\ current \in Nat /\ clock + 1 \in Nat
  BY LenProperties DEF TypedWalk, TypeOK, StreamTypeOK
<1>2. Recorded(F, V, clock + 1, G, current) \in Entry
  BY <1>1, RecordedType
<1> QED
  BY <1>1, <1>2 DEF Record

LEMMA ClockTyped == TypedWalk => clock \in Nat /\ clock + 1 \in Nat
  BY DEF TypedWalk, TypeOK

\* A statement that records, executes and does nothing else.
LEMMA StatementTyped ==
  ASSUME TypedWalk, clock' = clock + 1,
         events' \in Seq(Entry), WellNested(stack', Len(path)),
         env' \in [Key -> Value], touched' \in [Key -> Nat],
         UNCHANGED <<path, current, snapshots, missing, result>>
  PROVE  TypedWalk'
  BY ClockTyped DEF TypedWalk, TypeOK, StreamTypeOK, WellNested

LEMMA AssignValueTyped ==
  ASSUME TypedWalk, NEW mode, NEW l \in Subject, AssignValue(mode, l)
  PROVE  TypedWalk'
<1>1. Root[l] \in Var /\ Root[l] \in Key
  BY SubjectRoot, VarType
<1>2. PICK new \in Values({Root[l]}) :
        Execute(Declares(mode, {Root[l]}), {Root[l]}, new, TRUE)
  BY DEF AssignValue
<1>3. Declares(mode, {Root[l]}) \in SUBSET Var
  BY <1>1 DEF Declares
<1>4. /\ WellNested(stack', Len(path))
      /\ env' \in [Key -> Value] /\ touched' \in [Key -> Nat]
  BY <1>2, <1>3, ExecuteTyped DEF Values
<1>5. events' \in Seq(Entry)
  BY <1>1, RecordTyped DEF AssignValue
<1> QED
  BY <1>4, <1>5, StatementTyped DEF AssignValue, NextStmt

LEMMA OverwriteTyped ==
  ASSUME TypedWalk, NEW kind, NEW v \in Var, Overwrite(kind, v)
  PROVE  TypedWalk'
<1>1. v \in Key
  BY VarType
<1>2. PICK new \in Values({v}) : Execute({}, {v}, new, TRUE)
  BY DEF Overwrite
<1>3. /\ WellNested(stack', Len(path))
      /\ env' \in [Key -> Value] /\ touched' \in [Key -> Nat]
  BY <1>2, ExecuteTyped DEF Values
<1>4. events' \in Seq(Entry)
  BY <1>1, RecordTyped DEF Overwrite
<1> QED
  BY <1>3, <1>4, StatementTyped DEF Overwrite, NextStmt

LEMMA AssignCallTyped ==
  ASSUME TypedWalk, NEW mode, NEW l \in Subject, NEW C \in SUBSET Claim,
         AssignCall(mode, l, C)
  PROVE  TypedWalk'
<1>1. Root[l] \in Var /\ Root[l] \in Key /\ l \in Key
  BY SubjectRoot, VarType
<1>2. PICK new \in Values({Root[l]}) :
        Execute(Declares(mode, {Root[l]}), {Root[l]}, new, TRUE)
  BY DEF AssignCall
<1>3. Declares(mode, {Root[l]}) \in SUBSET Var
  BY <1>1 DEF Declares
<1>4. /\ WellNested(stack', Len(path))
      /\ env' \in [Key -> Value] /\ touched' \in [Key -> Nat]
  BY <1>2, <1>3, ExecuteTyped DEF Values
<1>5. On(C, l, clock + 1) \in SUBSET DatedFact
  BY <1>1, ClockTyped, OnType
<1>6. events' \in Seq(Entry)
  BY <1>1, <1>5, RecordTyped DEF AssignCall
<1> QED
  BY <1>4, <1>6, StatementTyped DEF AssignCall, NextStmt

LEMMA AssignTwoTyped ==
  ASSUME TypedWalk, NEW mode, NEW v \in Var, NEW w \in Var,
         NEW C \in SUBSET Claim, AssignTwo(mode, v, w, C)
  PROVE  TypedWalk'
<1>1. v \in Key /\ w \in Key
  BY VarType
<1>2. PICK new \in Values({v, w}) :
        Execute(Declares(mode, {v, w}), {v, w}, new, TRUE)
  BY DEF AssignTwo
<1>3. Declares(mode, {v, w}) \in SUBSET Var
  BY DEF Declares
<1>4. /\ WellNested(stack', Len(path))
      /\ env' \in [Key -> Value] /\ touched' \in [Key -> Nat]
  BY <1>2, <1>3, ExecuteTyped DEF Values
<1>5. On(C, v, clock + 1) \in SUBSET DatedFact /\ On(C, w, 0) \in SUBSET DatedFact
  BY <1>1, ClockTyped, OnType
<1>6. events' \in Seq(Entry)
  BY <1>1, <1>5, RecordTyped DEF AssignTwo
<1> QED
  BY <1>4, <1>6, StatementTyped DEF AssignTwo, NextStmt

LEMMA MustTyped ==
  ASSUME TypedWalk, NEW k \in Subject, NEW c \in Claim, Must(k, c)
  PROVE  TypedWalk'
<1>1. On({c}, k, clock) \in SUBSET DatedFact
  BY ClockTyped, OnType, VarType
<1>2. events' \in Seq(Entry)
  BY <1>1, RecordTyped DEF Must
<1>3. KeysOf({}) = {} /\ True(c, k) \in BOOLEAN
  BY DEF KeysOf, True
<1>4. /\ WellNested(stack', Len(path))
      /\ env' \in [Key -> Value] /\ touched' \in [Key -> Nat]
  BY <1>3, ExecuteTyped DEF Must
<1> QED
  BY <1>2, <1>4, StatementTyped DEF Must, NextStmt

LEMMA AssignMustTyped ==
  ASSUME TypedWalk, NEW mode, NEW l \in Subject, NEW k \in Subject, NEW c \in Claim,
         AssignMust(mode, l, k, c)
  PROVE  TypedWalk'
<1>1. Root[l] \in Var /\ Root[l] \in Key /\ l \in Key /\ k \in Key
  BY SubjectRoot, VarType
<1>2. PICK new \in Values({Root[l]}) :
        Execute(Declares(mode, {Root[l]}), {Root[l]}, new, True(c, k))
  BY DEF AssignMust
<1>3. Declares(mode, {Root[l]}) \in SUBSET Var /\ True(c, k) \in BOOLEAN
  BY <1>1 DEF Declares, True
<1>4. /\ WellNested(stack', Len(path))
      /\ env' \in [Key -> Value] /\ touched' \in [Key -> Nat]
  BY <1>2, <1>3, ExecuteTyped DEF Values
<1>5. /\ On({c}, k, clock) \in SUBSET DatedFact
      /\ On({c}, l, clock + 1) \in SUBSET DatedFact
  BY <1>1, ClockTyped, OnType
<1>6. events' \in Seq(Entry)
  BY <1>1, <1>5, RecordTyped DEF AssignMust
<1> QED
  BY <1>4, <1>6, StatementTyped DEF AssignMust, NextStmt

LEMMA DeclTyped ==
  ASSUME TypedWalk, NEW v \in Var, NEW C \in SUBSET Claim, Decl(v, C)
  PROVE  TypedWalk'
<1>1. v \in Key /\ {v} \in SUBSET Var
  BY VarType
<1>2. PICK new \in Values({v}) : Execute({v}, {v}, new, TRUE)
  BY DEF Decl
<1>3. /\ WellNested(stack', Len(path))
      /\ env' \in [Key -> Value] /\ touched' \in [Key -> Nat]
  BY <1>1, <1>2, ExecuteTyped DEF Values
<1>4. On(C, v, clock + 1) \in SUBSET DatedFact
  BY <1>1, ClockTyped, OnType
<1>5. events' \in Seq(Entry)
  BY <1>4, RecordTyped DEF Decl
<1> QED
  BY <1>3, <1>5, StatementTyped DEF Decl, NextStmt

LEMMA SilentTyped ==
  ASSUME TypedWalk, NEW v \in Var, Silent(v)
  PROVE  TypedWalk'
<1>1. PICK new \in Values({v}) : Execute({}, {v}, new, TRUE)
  BY DEF Silent
<1>2. /\ WellNested(stack', Len(path))
      /\ env' \in [Key -> Value] /\ touched' \in [Key -> Nat]
  BY <1>1, ExecuteTyped DEF Values
<1>3. /\ UNCHANGED <<events, path, current, snapshots, missing, result>>
      /\ clock' = clock + 1
  BY DEF Silent, NextStmt, stream
<1>4. events' \in Seq(Entry)
  BY <1>3 DEF TypedWalk, TypeOK, StreamTypeOK
<1> QED
  BY <1>2, <1>3, <1>4, StatementTyped

-----------------------------------------------------------------------------
(* Obligations, and leaving the function.                                  *)

LEMMA CallTyped ==
  ASSUME TypedWalk, NEW k, NEW c, Call(k, c)
  PROVE  TypedWalk'
<1>1. missing' \in BOOLEAN
  BY DEF Call
<1> QED
  BY <1>1, ClockTyped
  DEF Call, NextStmt, stream, TypedWalk, TypeOK, StreamTypeOK, WellNested

LEMMA CallNestedTyped ==
  ASSUME TypedWalk, NEW C \in SUBSET Claim, NEW c, CallNested(C, c)
  PROVE  TypedWalk'
<1>1. /\ path \in Seq(SUBSET Nat) /\ Len(path) \in Nat /\ current \in 1..Len(path)
      /\ events \in Seq(Entry)
  BY LenProperties DEF TypedWalk, TypeOK, StreamTypeOK
<1>2. missing' \in BOOLEAN
  BY DEF CallNested
<1>3. /\ path' \in Seq(SUBSET Nat) /\ Len(path') = NextScope
      /\ WellNested(stack', Len(path')) /\ current' \in 1..Len(path')
  BY <1>1, OpenedType DEF CallNested, TypedWalk
<1>4. On(C, Arg, clock) \in SUBSET DatedFact
  BY ClockTyped, OnType, ArgAssumption
<1>5. Source(On(C, Arg, clock), NextScope) \in Entry
  BY <1>1, <1>4, SourceType, OpenedType
<1>6. events' \in Seq(Entry)
  BY <1>1, <1>5 DEF CallNested
<1> QED
  BY <1>2, <1>3, <1>6, ClockTyped
  DEF CallNested, NextStmt, TypedWalk, TypeOK, StreamTypeOK

LEMMA EscapeTyped ==
  ASSUME TypedWalk, Escape
  PROVE  WellNested(stack', Len(path))
<1> DEFINE f == [Top EXCEPT !.escapes = TRUE, !.live = FALSE]
<1>1. Top \in Frame
  BY NestedTop
<1>2. f \in Frame /\ f.kind = Top.kind /\ f.prev = Top.prev
  BY <1>1 DEF Frame
<1> QED
  BY <1>2, SetTopTyped DEF Escape

LEMMA LeaveTyped ==
  ASSUME TypedWalk, NEW snapshot \in SUBSET Claim, NEW value \in Value,
         NEW tainted \in BOOLEAN, Leave(snapshot, value, tainted),
         clock' = clock + 1
  PROVE  TypedWalk'
<1>1. WellNested(stack', Len(path))
  BY EscapeTyped DEF Leave
<1>2. snapshots' \subseteq SUBSET Claim
  BY DEF Leave, TypedWalk, TypeOK
<1>3. result' \in [returned : BOOLEAN, value : Value, tainted : BOOLEAN]
  BY DEF Leave, TypedWalk, TypeOK
<1> QED
  BY <1>1, <1>2, <1>3, ClockTyped
  DEF Leave, stream, TypedWalk, TypeOK, StreamTypeOK, WellNested

LEMMA ReturnTyped ==
  ASSUME TypedWalk, NEW v \in Var, Return(v)
  PROVE  TypedWalk'
<1>1. Snapshot(v, current) \in SUBSET Claim
  BY DEF Snapshot
<1>2. env[v] \in Value
  BY VarType DEF TypedWalk, TypeOK
<1>3. Hidden(v) \in BOOLEAN
  BY DEF Hidden
<1> QED
  BY <1>1, <1>2, <1>3, LeaveTyped DEF Return, NextStmt

LEMMA ReturnOtherTyped ==
  ASSUME TypedWalk, ReturnOther
  PROVE  TypedWalk'
<1>1. PICK value \in Value : Leave({}, value, FALSE)
  BY DEF ReturnOther
<1> QED
  BY <1>1, LeaveTyped DEF ReturnOther, NextStmt

LEMMA PanicTyped ==
  ASSUME TypedWalk, Panic
  PROVE  TypedWalk'
  BY EscapeTyped, ClockTyped
  DEF Panic, NextStmt, stream, TypedWalk, TypeOK, StreamTypeOK, WellNested

-----------------------------------------------------------------------------
(* Statements with bodies.                                                 *)

LEMMA ScopesTyped ==
  TypedWalk => /\ current \in 1..Len(path) /\ current \in Nat
               /\ Len(path) \in Nat /\ path \in Seq(SUBSET Nat)
               /\ events \in Seq(Entry) /\ WellNested(stack, Len(path))
  BY LenProperties DEF TypedWalk, TypeOK, StreamTypeOK

LEMMA OpenTyped ==
  ASSUME TypedWalk, NEW parent \in 1..Len(path), NEW F \in SUBSET DatedFact,
         Open(parent, F)
  PROVE  /\ StreamTypeOK'
         /\ \A s : WellNested(s, Len(path)) => WellNested(s, Len(path'))
         /\ Len(path') \in Nat
         /\ 1..Len(path) \subseteq 1..Len(path')
<1>1. /\ path' \in Seq(SUBSET Nat) /\ Len(path') = NextScope
      /\ NextScope \in Nat /\ current' \in 1..Len(path')
  BY OpenedType DEF Open
<1>2. Source(F, NextScope) \in Entry
  BY <1>1, SourceType
<1>3. events' \in Seq(Entry)
  BY <1>2, ScopesTyped DEF Open
<1> QED
  BY <1>1, <1>3, OpenedType DEF Open, StreamTypeOK

\* Pushing the frame of a branch that came from an existing scope.
LEMMA PushTyped ==
  ASSUME TypedWalk, NEW base, NEW f \in Frame, NEW n \in Nat,
         WellNested(base, n), f.kind # "func", f.prev \in 1..n, Len(path') = n,
         stack' = Append(base, f)
  PROVE  WellNested(stack', Len(path'))
  BY NestedAppend

\* A statement with a body, once its effects are known to be well typed.
LEMMA CompoundTyped ==
  ASSUME TypedWalk, clock' \in Nat, StreamTypeOK', WellNested(stack', Len(path')),
         env' \in [Key -> Value], touched' \in [Key -> Nat],
         UNCHANGED <<snapshots, missing, result>>
  PROVE  TypedWalk'
  BY DEF TypedWalk, TypeOK, WellNested

LEMMA IfTyped ==
  ASSUME TypedWalk, NEW g \in Guards, If(g)
  PROVE  TypedWalk'
<1> DEFINE yes == Dated(g.yes, clock)
           no  == Dated(g.no, clock)
<1>1. yes \in SUBSET DatedFact /\ no \in SUBSET DatedFact
  BY GuardType, DatedType, ClockTyped
<1>2. PICK taken \in BOOLEAN :
        stack' = Append(stack, Branch(NewFrame("then", current, yes, no), taken))
  BY DEF If
<1> DEFINE f == Branch(NewFrame("then", current, yes, no), taken)
<1>3. f \in Frame /\ f.kind = "then" /\ f.prev = current
  BY <1>1, NewFrameType, BranchType, ScopesTyped DEF Kinds
<1>4. Open(current, yes)
  BY DEF If
<1> HIDE DEF f, yes, no
<1>5. /\ StreamTypeOK' /\ Len(path') \in Nat
      /\ WellNested(stack, Len(path')) /\ f.prev \in 1..Len(path')
  BY <1>1, <1>3, <1>4, OpenTyped, ScopesTyped
<1>6. stack' = Append(stack, f)
  BY <1>2 DEF f
<1>7. WellNested(stack', Len(path'))
  BY <1>3, <1>5, <1>6, PushTyped
<1> QED
  BY <1>5, <1>7, CompoundTyped, ClockTyped
  DEF If, NextStmt, TypedWalk, TypeOK

LEMMA BlockTyped ==
  ASSUME TypedWalk, Block
  PROVE  TypedWalk'
<1> DEFINE f == Branch(NewFrame("block", current, {}, {}), Top.live)
<1>1. Top.live \in BOOLEAN
  BY NestedTop DEF Frame
<1>2. f \in Frame /\ f.kind = "block" /\ f.prev = current
  BY <1>1, NewFrameType, BranchType, ScopesTyped DEF Kinds
<1>3. Open(current, {}) /\ stack' = Append(stack, f)
  BY DEF Block
<1> HIDE DEF f
<1>4. /\ StreamTypeOK' /\ Len(path') \in Nat
      /\ WellNested(stack, Len(path')) /\ f.prev \in 1..Len(path')
  BY <1>2, <1>3, OpenTyped, ScopesTyped
<1>5. WellNested(stack', Len(path'))
  BY <1>2, <1>3, <1>4, PushTyped
<1> QED
  BY <1>4, <1>5, CompoundTyped, ClockTyped
  DEF Block, NextStmt, TypedWalk, TypeOK

LEMMA SwitchTyped ==
  ASSUME TypedWalk, Switch
  PROVE  TypedWalk'
<1>1. PICK taken \in BOOLEAN :
        stack' = Append(stack, Branch(NewFrame("case", current, {}, {}), taken))
  BY DEF Switch
<1> DEFINE f == Branch(NewFrame("case", current, {}, {}), taken)
<1>2. f \in Frame /\ f.kind = "case" /\ f.prev = current
  BY NewFrameType, BranchType, ScopesTyped DEF Kinds
<1>3. Open(current, {}) /\ stack' = Append(stack, f)
  BY <1>1 DEF Switch
<1> HIDE DEF f
<1>4. /\ StreamTypeOK' /\ Len(path') \in Nat
      /\ WellNested(stack, Len(path')) /\ f.prev \in 1..Len(path')
  BY <1>2, <1>3, OpenTyped, ScopesTyped
<1>5. WellNested(stack', Len(path'))
  BY <1>2, <1>3, <1>4, PushTyped
<1> QED
  BY <1>4, <1>5, CompoundTyped, ClockTyped
  DEF Switch, NextStmt, TypedWalk, TypeOK

LEMMA LoopTyped ==
  ASSUME TypedWalk, NEW W \in SUBSET Var, NEW D \in SUBSET Var, Loop(W, D)
  PROVE  TypedWalk'
<1> DEFINE bare == NewFrame("loop", current, {}, {})
           hav  == [bare EXCEPT !.havoc = W]
           decl == Declaring(hav, D)
<1>1. PICK taken \in BOOLEAN, new \in Values(W \cup D) :
        /\ Mutate(W \cup D, new, taken)
        /\ stack' = Append(stack, Branch(decl, taken))
  BY DEF Loop
<1> DEFINE f == Branch(decl, taken)
<1>2. bare \in Frame /\ bare.kind = "loop" /\ bare.prev = current
  BY NewFrameType, ScopesTyped DEF Kinds
<1> HIDE DEF bare
<1>3. hav \in Frame /\ hav.kind = "loop" /\ hav.prev = current
  BY <1>2 DEF Frame
<1> HIDE DEF hav
<1>4. decl \in Frame /\ decl.kind = "loop" /\ decl.prev = current
  BY <1>3, DeclaringType DEF TypedWalk, TypeOK
<1> HIDE DEF decl
<1>5. f \in Frame /\ f.kind = "loop" /\ f.prev = current
  BY <1>4, BranchType
<1>6. Open(current, {}) /\ stack' = Append(stack, f)
  BY <1>1 DEF Loop
<1>7. env' \in [Key -> Value] /\ touched' \in [Key -> Nat]
  BY <1>1, MutateType DEF Values, TypedWalk
<1> HIDE DEF f
<1>8. /\ StreamTypeOK' /\ Len(path') \in Nat
      /\ WellNested(stack, Len(path')) /\ f.prev \in 1..Len(path')
  BY <1>5, <1>6, OpenTyped, ScopesTyped
<1>9. WellNested(stack', Len(path'))
  BY <1>5, <1>6, <1>8, PushTyped
<1> QED
  BY <1>7, <1>8, <1>9, CompoundTyped, ClockTyped DEF Loop, NextStmt

LEMMA ProveTargetsType ==
  ASSUME TypedWalk, NEW V \in SUBSET Subject, NEW k \in Subject, NEW c \in Claim
  PROVE  ProveTargets(V, k, c) \in SUBSET DatedFact
  BY ClockTyped, VarType DEF ProveTargets, DatedFact

LEMMA RootsType ==
  ASSUME NEW V \in SUBSET Subject
  PROVE  Roots(V) \in SUBSET Var /\ V \subseteq KeysOf(Roots(V))
  BY SubjectRoot, VarType DEF Roots, KeysOf

LEMMA ProveThatIfTyped ==
  ASSUME TypedWalk, NEW V \in SUBSET Subject, NEW k \in Subject, NEW c \in Claim,
         NEW mode, NEW op, ProveThatIf(mode, V, k, c, op)
  PROVE  TypedWalk'
<1> DEFINE W       == Roots(V)
           proved  == ProveTargets(V, k, c)
           yes     == IF op = "==" THEN proved ELSE {}
           no      == IF op = "!=" THEN proved ELSE {}
           taken   == Top.live /\ (True(c, k) <=> op = "==")
           opening == Declaring(Top, Declares(mode, W))
           base    == [stack EXCEPT ![Len(stack)] = opening]
           bare    == NewFrame("then", current, yes, no)
           f       == Branch(bare, taken)
           wrote   == Recorded({}, W, clock + 1, {}, current)
           planted == Source(yes, NextScope)
<1>1. yes \in SUBSET DatedFact /\ no \in SUBSET DatedFact
  BY ProveTargetsType
<1>2. taken \in BOOLEAN /\ Top \in Frame
  BY NestedTop DEF Frame
<1>3. bare \in Frame /\ bare.kind = "then" /\ bare.prev = current
  <2> HIDE DEF yes, no
  <2> QED
    BY <1>1, NewFrameType, ScopesTyped DEF Kinds
<1>4. f \in Frame /\ f.kind = "then" /\ f.prev = current
  <2> HIDE DEF bare, taken
  <2> QED
    BY <1>2, <1>3, BranchType
<1>5. Declares(mode, W) \in SUBSET Var
  BY RootsType DEF Declares
<1>6. opening \in Frame /\ opening.kind = Top.kind /\ opening.prev = Top.prev
  BY <1>2, <1>5, DeclaringType DEF TypedWalk, TypeOK
<1>7. WellNested(base, Len(path))
  <2> HIDE DEF opening
  <2> QED
    BY <1>6, NestedTop, NestedExcept, ScopesTyped DEF Top
<1>8. wrote \in Entry
  BY RootsType, RecordedType, ClockTyped, ScopesTyped, VarType
<1>9. planted \in Entry
  BY <1>1, SourceType, OpenedType, ScopesTyped
<1>10. /\ path' = Opened(current) /\ current' = NextScope
       /\ events' = Append(Append(events, wrote), planted)
       /\ stack' = Append(base, f)
       /\ UNCHANGED <<snapshots, missing, result>> /\ clock' = clock + 1
  BY DEF ProveThatIf, NextStmt
<1>11. env' \in [Key -> Value] /\ touched' \in [Key -> Nat]
  <2>1. PICK new \in Values(W) : Mutate(W, new, Top.live)
    BY DEF ProveThatIf
  <2>2. Top.live \in BOOLEAN
    BY <1>2 DEF Frame
  <2> QED
    BY <2>1, <2>2, MutateType DEF Values, TypedWalk
<1> HIDE DEF f, base, wrote, planted
<1>12. /\ events' \in Seq(Entry)
       /\ path' \in Seq(SUBSET Nat) /\ Len(path') \in Nat
       /\ current' \in 1..Len(path')
       /\ WellNested(base, Len(path')) /\ f.prev \in 1..Len(path')
  BY <1>4, <1>7, <1>8, <1>9, <1>10, OpenedType, ScopesTyped
<1>13. WellNested(stack', Len(path'))
  BY <1>4, <1>10, <1>12, PushTyped
<1> QED
  BY <1>10, <1>11, <1>12, <1>13, CompoundTyped, ClockTyped DEF StreamTypeOK

-----------------------------------------------------------------------------
(* The end of a branch.                                                    *)

LEMMA CloseTyped ==
  ASSUME TypedWalk, Top.kind # "func", NEW F \in SUBSET DatedFact, Close(F)
  PROVE  TypedWalk'
<1>1. WellNested(stack', Len(path))
  BY NestedPopped DEF Close
<1>2. env' \in [Key -> Value] /\ touched' \in [Key -> Nat]
  BY EndScopeType, NestedTop DEF Close, TypedWalk
<1>3. Source(F, Top.prev) \in Entry
  BY SourceType, NestedTop
<1>4. events' \in Seq(Entry) /\ current' \in 1..Len(path)
  BY <1>3, ScopesTyped, NestedTop DEF Close
<1> QED
  BY <1>1, <1>2, <1>4, ClockTyped, ScopesTyped
  DEF Close, TypedWalk, TypeOK, StreamTypeOK, WellNested

LEMMA BranchFacts ==
  ASSUME TypedWalk
  PROVE  Top.yes \in SUBSET DatedFact /\ Top.no \in SUBSET DatedFact
  BY NestedTop DEF Frame

LEMMA EndThenTyped ==
  ASSUME TypedWalk, EndThen
  PROVE  TypedWalk'
<1>1. (IF Top.escapes THEN Top.no ELSE {}) \in SUBSET DatedFact
  BY BranchFacts
<1> QED
  BY <1>1, CloseTyped DEF EndThen

LEMMA EndElseTyped ==
  ASSUME TypedWalk, EndElse
  PROVE  TypedWalk'
<1>1. Surviving \in SUBSET DatedFact
  BY BranchFacts DEF Surviving
<1> QED
  BY <1>1, CloseTyped DEF EndElse

LEMMA EndBodyTyped ==
  ASSUME TypedWalk, EndBody
  PROVE  TypedWalk'
<1>1. Top.kind # "func"
  BY DEF EndBody
<1> QED
  BY <1>1, CloseTyped DEF EndBody

LEMMA SiblingType ==
  ASSUME TypedWalk, Top.kind # "func", NEW kind \in Kinds
  PROVE  /\ Sibling(kind) \in Frame
         /\ Sibling(kind).kind = kind /\ Sibling(kind).prev = Top.prev
<1> DEFINE bare == NewFrame(kind, Top.prev, Top.yes, Top.no)
           f    == [bare EXCEPT !.before = Top.escapes]
<1>1. bare \in Frame /\ bare.kind = kind /\ bare.prev = Top.prev
  BY NewFrameType, NestedTop, BranchFacts, ScopesTyped
<1> HIDE DEF bare
<1>2. Top.escapes \in BOOLEAN
  BY NestedTop DEF Frame
<1>3. f \in Frame /\ f.kind = kind /\ f.prev = Top.prev
  BY <1>1, <1>2 DEF Frame
<1>4. Sibling(kind) = Branch(f, PassedBy)
  BY DEF Sibling, bare
<1> HIDE DEF f
<1> QED
  BY <1>3, <1>4, BranchType, NestedPopped

LEMMA ElseTyped ==
  ASSUME TypedWalk, Else
  PROVE  TypedWalk'
<1>1. /\ Top.kind # "func"
      /\ stack' = Append(Popped, Sibling("else"))
      /\ Open(Top.prev, Top.no) /\ EndScope
      /\ UNCHANGED <<snapshots, missing, clock, result>>
  BY DEF Else
<1>2. /\ Sibling("else") \in Frame
      /\ Sibling("else").kind = "else" /\ Sibling("else").prev = Top.prev
  BY <1>1, SiblingType DEF Kinds
<1>3. /\ StreamTypeOK' /\ Len(path') \in Nat
      /\ WellNested(Popped, Len(path')) /\ Top.prev \in 1..Len(path')
  BY <1>1, OpenTyped, NestedTop, NestedPopped, BranchFacts
<1>4. WellNested(stack', Len(path'))
  BY <1>1, <1>2, <1>3, PushTyped
<1>5. env' \in [Key -> Value] /\ touched' \in [Key -> Nat]
  BY <1>1, EndScopeType, NestedTop DEF TypedWalk
<1> QED
  BY <1>1, <1>3, <1>4, <1>5, CompoundTyped, ClockTyped

LEMMA NextCaseTyped ==
  ASSUME TypedWalk, NextCase
  PROVE  TypedWalk'
<1> DEFINE bare == NewFrame("case", Top.prev, {}, {})
           next == [bare EXCEPT !.before = Top.before \/ Top.taken]
<1>1. PICK taken \in BOOLEAN : stack' = Append(Popped, Branch(next, taken))
  BY DEF NextCase
<1> DEFINE f == Branch(next, taken)
<1>2. bare \in Frame /\ bare.kind = "case" /\ bare.prev = Top.prev
  BY NewFrameType, NestedTop, ScopesTyped DEF Kinds
<1> HIDE DEF bare
<1>3. next \in Frame /\ next.kind = "case" /\ next.prev = Top.prev
  BY <1>2, NestedTop DEF Frame
<1> HIDE DEF next
<1>4. f \in Frame /\ f.kind = "case" /\ f.prev = Top.prev
  BY <1>3, BranchType
<1>5. /\ Top.kind # "func" /\ stack' = Append(Popped, f)
      /\ Open(Top.prev, {}) /\ EndScope /\ clock' = clock + 1
      /\ UNCHANGED <<snapshots, missing, result>>
  BY <1>1 DEF NextCase
<1> HIDE DEF f
<1>6. /\ StreamTypeOK' /\ Len(path') \in Nat
      /\ WellNested(Popped, Len(path')) /\ f.prev \in 1..Len(path')
  BY <1>4, <1>5, OpenTyped, NestedTop, NestedPopped
<1>7. WellNested(stack', Len(path'))
  BY <1>4, <1>5, <1>6, PushTyped
<1>8. env' \in [Key -> Value] /\ touched' \in [Key -> Nat]
  BY <1>5, EndScopeType, NestedTop DEF TypedWalk
<1> QED
  BY <1>5, <1>6, <1>7, <1>8, CompoundTyped, ClockTyped

LEMMA ElseIfTyped ==
  ASSUME TypedWalk, NEW g \in Guards, ElseIf(g)
  PROVE  TypedWalk'
<1> DEFINE yes  == Dated(g.yes, clock)
           no   == Dated(g.no, clock)
           outer == Sibling("elseif")
           base == Append(Popped, outer)
           bare == NewFrame("then", NextScope, yes, no)
           here == path[Top.prev] \cup {NextScope, NextScope + 1}
           one  == Source(Top.no, NextScope)
           two  == Source(yes, NextScope + 1)
<1>1. PICK taken \in BOOLEAN : stack' = Append(base, Branch(bare, taken))
  BY DEF ElseIf
<1> DEFINE f == Branch(bare, taken)
<1>2. yes \in SUBSET DatedFact /\ no \in SUBSET DatedFact
  BY GuardType, DatedType, ClockTyped
<1>3. NextScope \in Nat /\ NextScope + 1 \in Nat /\ NextScope = Len(path) + 1
  BY ScopesTyped DEF NextScope
<1>4. bare \in Frame /\ bare.kind = "then" /\ bare.prev = NextScope
  <2> HIDE DEF yes, no
  <2> QED
    BY <1>2, <1>3, NewFrameType, ScopesTyped DEF Kinds
<1> HIDE DEF bare
<1>5. f \in Frame /\ f.kind = "then" /\ f.prev = NextScope
  BY <1>4, BranchType
<1>6. /\ Top.kind # "func" /\ EndScope /\ clock' = clock + 1
      /\ path' = Append(Opened(Top.prev), here)
      /\ current' = NextScope + 1
      /\ events' = Append(Append(events, one), two)
      /\ UNCHANGED <<snapshots, missing, result>>
  BY DEF ElseIf
<1>7. stack' = Append(base, f)
  BY <1>1
<1> HIDE DEF f
<1>8. outer \in Frame /\ outer.kind = "elseif" /\ outer.prev = Top.prev
  BY <1>6, SiblingType DEF Kinds
<1> HIDE DEF outer
<1>9. here \in SUBSET Nat
  BY <1>3, NestedTop, ScopesTyped, ElementOfSeq
<1> HIDE DEF here
<1>10. /\ path' \in Seq(SUBSET Nat) /\ Len(path') = NextScope + 1
       /\ Top.prev \in 1..NextScope + 1 /\ NextScope \in 1..NextScope + 1
       /\ NextScope + 1 \in 1..NextScope + 1
  BY <1>3, <1>6, <1>9, OpenedType, NestedTop
<1>11. one \in Entry /\ two \in Entry
  BY <1>2, <1>3, BranchFacts, SourceType
<1> HIDE DEF one, two
<1>12. events' \in Seq(Entry)
  BY <1>6, <1>11, ScopesTyped
<1>13. WellNested(Popped, NextScope + 1)
  <2>1. WellNested(Popped, NextScope)
    BY <1>6, NestedPopped, NestedTop, OpenedType
  <2>2. 1..NextScope \subseteq 1..NextScope + 1
    BY <1>3
  <2> QED
    BY <2>1, <2>2 DEF WellNested
<1>14. WellNested(base, NextScope + 1)
  BY <1>3, <1>8, <1>10, <1>13, NestedAppend
<1> HIDE DEF base
<1>15. WellNested(stack', Len(path'))
  BY <1>3, <1>5, <1>7, <1>10, <1>14, PushTyped
<1>16. env' \in [Key -> Value] /\ touched' \in [Key -> Nat]
  BY <1>6, EndScopeType, NestedTop DEF TypedWalk
<1> QED
  BY <1>6, <1>10, <1>12, <1>15, <1>16, CompoundTyped, ClockTyped DEF StreamTypeOK

-----------------------------------------------------------------------------
LEMMA InitTyped == Init => TypedWalk
<1> SUFFICES ASSUME Init PROVE TypedWalk
  OBVIOUS
<1>1. PICK seeds \in SUBSET [claim : Claim, key : Params] :
        /\ StreamInit(Dated(seeds, 0))
        /\ stack = <<[NewFrame("func", 1, {}, {}) EXCEPT !.declared = Params]>>
        /\ snapshots = {}
        /\ missing = FALSE
        /\ clock = 0
        /\ env \in {e \in [Key -> Value] : e[Arg] = {}}
        /\ touched = [k \in Key |-> 0]
        /\ result = [returned |-> FALSE, value |-> {}, tainted |-> FALSE]
  BY DEF Init
<1>2. Dated(seeds, 0) \in SUBSET DatedFact
  BY DatedType, VarType
<1>3. Source(Dated(seeds, 0), 1) \in Entry
  BY <1>2, SourceType
<1>4. StreamTypeOK
  BY <1>1, <1>3 DEF StreamInit, StreamTypeOK
<1> DEFINE bare == NewFrame("func", 1, {}, {})
           f    == [bare EXCEPT !.declared = Params]
<1>5. bare \in Frame /\ bare.kind = "func" /\ bare.prev = 1
  BY <1>4, NewFrameType DEF StreamTypeOK, Kinds
<1>6. stack = <<f>>
  BY <1>1
<1> HIDE DEF bare
<1>7. f \in Frame /\ f.kind = "func" /\ f.prev = 1
  BY <1>5, VarType DEF Frame
<1> HIDE DEF f
<1>8. Len(path) = 1
  BY <1>1 DEF StreamInit
<1>9. WellNested(stack, Len(path))
  BY <1>6, <1>7, <1>8 DEF WellNested
<1>10. touched \in [Key -> Nat] /\ env \in [Key -> Value]
  BY <1>1
<1>11. result \in [returned : BOOLEAN, value : Value, tainted : BOOLEAN]
  BY <1>1 DEF Value
<1> QED
  BY <1>1, <1>4, <1>9, <1>10, <1>11 DEF TypedWalk, TypeOK, WellNested

LEMMA NextTyped == TypedWalk /\ [Next]_vars => TypedWalk'
<1> SUFFICES ASSUME TypedWalk, [Next]_vars PROVE TypedWalk'
  OBVIOUS
<1>1. CASE Simple
  BY <1>1, CallTyped, MustTyped, CallNestedTyped, AssignValueTyped, AssignCallTyped,
     AssignMustTyped, AssignTwoTyped, OverwriteTyped, SilentTyped, ReturnTyped,
     DeclTyped, ReturnOtherTyped, PanicTyped
  DEF Simple, SomeClaims, IncDec, AddrEscape
<1>2. CASE Compound
  <2>1. CASE \E V \in {{}} \cup {{l} : l \in Subject}, k \in Subject, c \in Claim,
               mode \in Modes, op \in {"==", "!="} : ProveThatIf(mode, V, k, c, op)
    BY <2>1, ProveThatIfTyped
  <2>2. CASE \E g \in Guards : If(g) \/ ElseIf(g)
    BY <2>2, IfTyped, ElseIfTyped
  <2>3. CASE \E W, D \in SUBSET Var : Loop(W, D)
    BY <2>3, LoopTyped
  <2>4. CASE Else \/ EndThen \/ EndElse \/ Block \/ Switch \/ NextCase \/ EndBody
    BY <2>4, ElseTyped, EndThenTyped, EndElseTyped, BlockTyped, SwitchTyped,
       NextCaseTyped, EndBodyTyped
  <2> QED
    BY <1>2, <2>1, <2>2, <2>3, <2>4 DEF Compound
<1>3. CASE UNCHANGED vars
  BY <1>3 DEF vars, stream, TypedWalk, TypeOK, StreamTypeOK, WellNested
<1> QED
  BY <1>1, <1>2, <1>3 DEF Next

\* Whatever the function, the walk's state (analyzer.go:307-335) and the
\* stream it records stay well formed: every event's scope and the current
\* one exist, and every open statement can be closed.
THEOREM WalkIsTyped == Spec => []TypedWalk
  BY InitTyped, NextTyped, PTL DEF Spec

THEOREM TypeCorrect == Spec => []TypeOK
<1>1. TypedWalk => TypeOK
  BY DEF TypedWalk
<1> QED
  BY <1>1, WalkIsTyped, PTL

-----------------------------------------------------------------------------
(* Facts.                                                                  *)

\* The forms whose facts the walk misdates: v, w = f(), and prove.That on a
\* variable, or a path of it, where the same statement assigns another key of
\* that variable.
Attentive == Constructs \cap {"multi", "selfthat"} = {}

\* The functions in which every change of a variable is recorded as a write
\* that is visible as long as the variable is in scope.
Fragment ==
  Attentive /\ Constructs \cap {"outer", "decl", "silent", "header"} = {}

-----------------------------------------------------------------------------
(* The walk and the execution, level by level.                             *)

(***************************************************************************)
(* env[d], since[d] and here[d] are what the execution's variables will be *)
(* and whether it will be in the block of the d-th open statement, once    *)
(* the statements above it have been closed.                               *)
(***************************************************************************)
Walk ==
  [ev : Seq(Entry), pa : Seq(SUBSET Nat), cu : Nat, st : Seq(Frame), ck : Nat,
   env : [Nat -> [Key -> Value]], since : [Nat -> [Key -> Nat]],
   here : [Nat -> BOOLEAN]]

\* The scope in which the walk will be back at level d.
ScopeAt(w, d) == IF d = Len(w.st) THEN w.cu ELSE w.st[d + 1].prev

Seen(w, i, d) == w.ev[i].scope \in w.pa[ScopeAt(w, d)]

\* Closing a statement gives back what its frame has kept.
Unwinds(w) ==
  /\ w.here[Len(w.st)] = w.st[Len(w.st)].live
  /\ \A d \in 1..Len(w.st) : w.here[d] => w.st[d].live
  /\ \A d \in 2..Len(w.st) :
       /\ w.here[d - 1] = IF w.st[d].taken THEN w.here[d] ELSE w.st[d - 1].live
       /\ \A k \in Key :
            IF Root[k] \in w.st[d].declared
            THEN /\ w.env[d - 1][k] = w.st[d].outerEnv[k]
                 /\ w.since[d - 1][k] = w.st[d].outerTouched[k]
            ELSE /\ w.env[d - 1][k] = w.env[d][k]
                 /\ w.since[d - 1][k] = w.since[d][k]

\* Scopes of outer levels see part of what inner ones see, and nothing that
\* is recorded inside.
Linked(w) ==
  /\ \A s \in 1..Len(w.pa) : s \in w.pa[s] /\ w.pa[s] \subseteq 1..Len(w.pa)
  /\ \A i \in 1..Len(w.ev) : w.ev[i].scope \in 1..Len(w.pa)
  /\ \A d \in 1..Len(w.st) : ScopeAt(w, d) \in 1..Len(w.pa)
  /\ \A d, e \in 1..Len(w.st) :
       d < e => /\ w.pa[ScopeAt(w, d)] \subseteq w.pa[ScopeAt(w, e)]
                /\ ScopeAt(w, e) \notin w.pa[ScopeAt(w, d)]

Planted(e) == e.pre \cup e.post

\* Nothing is dated in the future.
Dates(w) ==
  /\ \A i \in 1..Len(w.ev) :
       w.ev[i].at <= w.ck /\ \A f \in Planted(w.ev[i]) : f.asOf <= w.ck
  /\ \A d \in 1..Len(w.st) : \A f \in w.st[d].yes \cup w.st[d].no : f.asOf <= w.ck

\* A block that escapes is left for good, and the else of an if that escapes
\* is the branch that an execution still in the function took.
Branches(w) ==
  /\ \A d \in 1..Len(w.st) : w.st[d].escapes => ~w.st[d].live
  /\ \A d \in 2..Len(w.st) :
       w.st[d].kind \in {"else", "elseif"} /\ w.st[d].before /\ w.here[d - 1]
         => w.st[d].taken

Holds(w, d, f) == f.asOf >= w.since[d][f.key] => f.claim \cap w.env[d][f.key] # {}

\* What the condition of an open if says of the execution that is in it, or
\* that has passed it by.
Held(f) ==
  IF f.kind = "then" THEN IF f.taken THEN f.yes ELSE f.no
  ELSE IF f.kind \in {"else", "elseif"} THEN IF f.taken THEN f.no ELSE f.yes
  ELSE {}

\* At each level, what is in sight and what the open branch may still plant
\* there are true of every value they were recorded for.
Sound(w) ==
  /\ \A d \in 1..Len(w.st) : w.here[d] =>
       \A i \in 1..Len(w.ev) : Seen(w, i, d) =>
         \A f \in Planted(w.ev[i]) : Holds(w, d, f)
  /\ \A d \in 2..Len(w.st) : w.here[d - 1] =>
       \A f \in Held(w.st[d]) : Holds(w, d - 1, f)

\* A fact that the write in entry e does not outdate.
After(e, f) == Root[f.key] \in e.wrote => e.at <= f.asOf

\* Facts are recorded after the writes they take into account.
InOrder(w) ==
  /\ \A i, j \in 1..Len(w.ev) :
       j <= i /\ Seen(w, i, Len(w.st)) /\ Seen(w, j, Len(w.st)) =>
         \A f \in Standing(w.ev[i]) : After(w.ev[j], f)
  /\ \A d \in 2..Len(w.st) : \A j \in 1..Len(w.ev) : Seen(w, j, d - 1) =>
       \A f \in w.st[d].yes \cup w.st[d].no : After(w.ev[j], f)

\* Every value was given by a write in sight.
Written(w) ==
  \A d \in 1..Len(w.st), k \in Key : w.since[d][k] > 0 =>
    \E j \in 1..Len(w.ev) :
      Seen(w, j, d) /\ Root[k] \in w.ev[j].wrote /\ w.ev[j].at = w.since[d][k]

Consistent(w) ==
  /\ Unwinds(w) /\ Linked(w) /\ Dates(w) /\ Branches(w) /\ Sound(w)
  /\ Attentive => InOrder(w)
  /\ Fragment => Written(w)

Shows(w) ==
  /\ w.ev = events /\ w.pa = path /\ w.cu = current /\ w.st = stack /\ w.ck = clock
  /\ w.env[Len(w.st)] = env /\ w.since[Len(w.st)] = touched

FactsInv == \E w \in Walk : Shows(w) /\ Consistent(w)

\* An execution that has returned did so with a snapshot true of its value.
Returned ==
  result.returned /\ ~result.tainted =>
    \E s \in snapshots : Satisfies(result.value, s)

-----------------------------------------------------------------------------
(* Levels.                                                                 *)

LEMMA OneMore ==
  \A m \in Nat : /\ 1..m \subseteq 1..m + 1 /\ m + 1 \in 1..m + 1 /\ m + 1 \notin 1..m
                /\ \A i \in 1..m + 1 : i \in 1..m \/ i = m + 1
  OBVIOUS

LEMMA WalkType ==
  ASSUME NEW w \in Walk
  PROVE  /\ w.st \in Seq(Frame) /\ Len(w.st) \in Nat
         /\ \A d \in 1..Len(w.st) : w.st[d] \in Frame
         /\ w.ev \in Seq(Entry) /\ Len(w.ev) \in Nat
         /\ \A i \in 1..Len(w.ev) : w.ev[i] \in Entry
         /\ w.pa \in Seq(SUBSET Nat) /\ Len(w.pa) \in Nat
         /\ w.cu \in Nat /\ w.ck \in Nat
         /\ w.env \in [Nat -> [Key -> Value]] /\ w.since \in [Nat -> [Key -> Nat]]
         /\ w.here \in [Nat -> BOOLEAN]
<1>1. /\ w.st \in Seq(Frame) /\ w.ev \in Seq(Entry) /\ w.pa \in Seq(SUBSET Nat)
      /\ w.cu \in Nat /\ w.ck \in Nat
      /\ w.env \in [Nat -> [Key -> Value]] /\ w.since \in [Nat -> [Key -> Nat]]
      /\ w.here \in [Nat -> BOOLEAN]
  BY DEF Walk
<1> QED
  BY <1>1, LenProperties, ElementOfSeq

\* Frame f is frame g after a statement of its block that declares D where
\* the variables are `env`, `since`, and that goes on if `ok`.
Advanced(g, f, D, env0, since0, ok) ==
  /\ f.kind = g.kind /\ f.prev = g.prev /\ f.yes = g.yes /\ f.no = g.no
  /\ f.before = g.before /\ f.taken = g.taken
  /\ f.live = (g.live /\ ok)
  /\ f.escapes => g.escapes \/ ~ok
  /\ f.declared = g.declared \cup D
  /\ \A k \in Key :
       IF k \in KeysOf(D \ g.declared)
       THEN f.outerEnv[k] = env0[k] /\ f.outerTouched[k] = since0[k]
       ELSE f.outerEnv[k] = g.outerEnv[k] /\ f.outerTouched[k] = g.outerTouched[k]

(***************************************************************************)
(* The open block executes a statement that declares D and changes M, and  *)
(* goes on if `ok`: s, env2 and touched2 are the frames and the variables  *)
(* afterwards. Only an execution that is there changes variables.          *)
(***************************************************************************)
Runs(w, n, D, M, ok, s, env2, touched2) ==
  /\ n = Len(w.st) /\ Len(s) = n
  /\ \A d \in 1..n - 1 : s[d] = w.st[d]
  /\ Advanced(w.st[n], s[n], D, w.env[n], w.since[n], ok)
  /\ \A k \in Key :
       IF w.here[n] /\ k \in KeysOf(M) THEN touched2[k] = w.ck + 1
       ELSE env2[k] = w.env[n][k] /\ touched2[k] = w.since[n][k]

\* From w to x, such a statement was executed.
Steps(w, x, n, M, ok) ==
  /\ x.here[n] <=> w.here[n] /\ ok
  /\ \A d \in 1..n : x.here[d] => w.here[d]
  /\ \A d \in 1..n, k \in Key :
       \/ x.env[d][k] = w.env[d][k] /\ x.since[d][k] = w.since[d][k]
       \/ x.since[d][k] = x.ck /\ k \in KeysOf(M)
  /\ \A d \in 1..n - 1, k \in Key :
       Root[k] \in x.st[n].declared => x.since[d][k] = w.since[d][k]

Stepped(w, n, M, ok, s, env2, touched2, ev) ==
  \E x \in Walk :
    /\ x.ev = ev /\ x.pa = w.pa /\ x.cu = w.cu /\ x.st = s /\ x.ck = w.ck + 1
    /\ x.env[n] = env2 /\ x.since[n] = touched2
    /\ Unwinds(x) /\ Steps(w, x, n, M, ok)

LEMMA StatementLevels ==
  ASSUME NEW w \in Walk, NEW n \in Nat, n >= 1, Unwinds(w),
         NEW D \in SUBSET Var, NEW M \in SUBSET Var, NEW ok \in BOOLEAN,
         NEW ev \in Seq(Entry), NEW s \in Seq(Frame),
         NEW env2 \in [Key -> Value], NEW touched2 \in [Key -> Nat],
         Runs(w, n, D, M, ok, s, env2, touched2)
  PROVE  Stepped(w, n, M, ok, s, env2, touched2, ev)
<1> USE DEF Runs
<1> DEFINE Hit(d, k) == /\ w.here[n] /\ k \in KeysOf(M)
                        /\ \A b \in d + 1..n : Root[k] \notin s[b].declared
           E == [d \in Nat |-> [k \in Key |-> IF Hit(d, k) THEN env2[k] ELSE w.env[d][k]]]
           T == [d \in Nat |-> [k \in Key |-> IF Hit(d, k) THEN touched2[k] ELSE w.since[d][k]]]
           A == [d \in Nat |-> w.here[d] /\ (ok \/ \E b \in d + 1..n : ~w.st[b].taken)]
           x == [ev |-> ev, pa |-> w.pa, cu |-> w.cu, st |-> s, ck |-> w.ck + 1,
                 env |-> E, since |-> T, here |-> A]
<1>1. E \in [Nat -> [Key -> Value]] /\ T \in [Nat -> [Key -> Nat]]
  <2>1. /\ w.env \in [Nat -> [Key -> Value]] /\ w.since \in [Nat -> [Key -> Nat]]
    BY WalkType
  <2>2. \A d \in Nat, k \in Key : w.env[d][k] \in Value /\ w.since[d][k] \in Nat
    BY <2>1
  <2>3. \A k \in Key : env2[k] \in Value /\ touched2[k] \in Nat
    OBVIOUS
  <2> HIDE DEF Hit
  <2> QED
    BY <2>2, <2>3
<1>2. A \in [Nat -> BOOLEAN]
  BY WalkType
<1>3. /\ \A d \in Nat, k \in Key : E[d][k] = IF Hit(d, k) THEN env2[k] ELSE w.env[d][k]
      /\ \A d \in Nat, k \in Key : T[d][k] = IF Hit(d, k) THEN touched2[k] ELSE w.since[d][k]
      /\ \A d \in Nat : A[d] <=> w.here[d] /\ (ok \/ \E b \in d + 1..n : ~w.st[b].taken)
  OBVIOUS
<1>4. /\ \A k : Hit(n, k) <=> w.here[n] /\ k \in KeysOf(M)
      /\ \A k \in Key, d \in 2..n : Hit(d - 1, k) <=> Hit(d, k) /\ Root[k] \notin s[d].declared
  OBVIOUS
<1> HIDE DEF E, T, A, Hit
<1>5. x \in Walk
  <2>1. w.ck + 1 \in Nat /\ w.pa \in Seq(SUBSET Nat) /\ w.cu \in Nat
    BY WalkType
  <2> QED
    BY <1>1, <1>2, <2>1 DEF Walk
<1>6. A[n] <=> w.here[n] /\ ok
  BY <1>3, WalkType
<1>7. \A d \in 2..n : A[d - 1] = IF s[d].taken THEN A[d] ELSE s[d - 1].live
  <2> TAKE d \in 2..n
  <2>1. d - 1 \in Nat /\ d \in Nat /\ d - 1 \in 1..n - 1 /\ d - 1 \in 1..n /\ d \in 1..n
        /\ d # n => d \in 1..n - 1
    OBVIOUS
  <2>2. w.here[d - 1] = IF w.st[d].taken THEN w.here[d] ELSE w.st[d - 1].live
    BY DEF Unwinds
  <2>3. s[d].taken = w.st[d].taken /\ s[d - 1] = w.st[d - 1]
    <3>1. s[n].taken = w.st[n].taken
      BY DEF Advanced
    <3> QED
      BY <2>1, <3>1
  <2>4. A[d - 1] <=> w.here[d - 1] /\ (ok \/ ~w.st[d].taken \/ \E b \in d + 1..n : ~w.st[b].taken)
    BY <1>3, <2>1
  <2>5. A[d] <=> w.here[d] /\ (ok \/ \E b \in d + 1..n : ~w.st[b].taken)
    BY <1>3, <2>1
  <2>6. w.st[d].taken \in BOOLEAN /\ w.st[d - 1].live \in BOOLEAN
    <3>1. w.st[d] \in Frame /\ w.st[d - 1] \in Frame
      BY <2>1, WalkType
    <3> QED
      BY <3>1 DEF Frame
  <2>7. A[d] \in BOOLEAN /\ A[d - 1] \in BOOLEAN
    BY <1>2, <2>1
  <2> QED
    BY <2>2, <2>3, <2>4, <2>5, <2>6, <2>7
<1>8. \A d \in 2..n, k \in Key :
        IF Root[k] \in s[d].declared
        THEN E[d - 1][k] = s[d].outerEnv[k] /\ T[d - 1][k] = s[d].outerTouched[k]
        ELSE E[d - 1][k] = E[d][k] /\ T[d - 1][k] = T[d][k]
  <2> TAKE d \in 2..n, k \in Key
  <2>1. d - 1 \in Nat /\ d \in Nat
    OBVIOUS
  <2>2. IF Root[k] \in w.st[d].declared
        THEN /\ w.env[d - 1][k] = w.st[d].outerEnv[k]
             /\ w.since[d - 1][k] = w.st[d].outerTouched[k]
        ELSE /\ w.env[d - 1][k] = w.env[d][k]
             /\ w.since[d - 1][k] = w.since[d][k]
    BY DEF Unwinds
  <2>3. CASE Root[k] \notin s[d].declared
    <3>1. Hit(d - 1, k) <=> Hit(d, k)
      BY <2>3, <1>4
    <3>2. Root[k] \notin w.st[d].declared
      BY <2>3 DEF Advanced
    <3> QED
      BY <1>3, <2>1, <2>2, <2>3, <3>1, <3>2
  <2>4. CASE Root[k] \in s[d].declared
    <3>1. E[d - 1][k] = w.env[d - 1][k] /\ T[d - 1][k] = w.since[d - 1][k]
      <4>1. ~Hit(d - 1, k)
        BY <1>4, <2>4
      <4> QED
        BY <1>3, <2>1, <4>1
    <3>2. CASE d # n
      BY <2>2, <2>4, <3>1, <3>2
    <3>3. CASE d = n
      <4>1. CASE Root[k] \in w.st[n].declared
        BY <2>2, <2>4, <3>1, <3>3, <4>1 DEF Advanced, KeysOf
      <4>2. CASE Root[k] \notin w.st[n].declared
        BY <2>2, <2>4, <3>1, <3>3, <4>2 DEF Advanced, KeysOf
      <4> QED
        BY <4>1, <4>2
    <3> QED
      BY <3>2, <3>3
  <2> QED
    BY <2>3, <2>4
<1>9. s[n].live = (w.here[n] /\ ok) /\ \A d \in 1..n : A[d] => s[d].live
  <2>1. \A d \in 1..n : A[d] => w.here[d]
    BY <1>3
  <2>2. w.here[n] = w.st[n].live /\ s[n].live = (w.st[n].live /\ ok)
    BY DEF Unwinds, Advanced
  <2>3. \A d \in 1..n : w.here[d] => w.st[d].live
    BY DEF Unwinds
  <2>4. \A d \in 1..n : d # n => d \in 1..n - 1
    OBVIOUS
  <2> QED
    BY <1>6, <2>1, <2>2, <2>3, <2>4
<1>10. Unwinds(x)
  <2>1. A[n] = s[n].live
    <3>1. n \in Nat /\ n \in 1..n
      OBVIOUS
    <3>2. A[n] \in BOOLEAN /\ s[n].live \in BOOLEAN
      <4>1. s[n] \in Frame
        BY <3>1, ElementOfSeq
      <4> QED
        BY <1>2, <4>1 DEF Frame
    <3> QED
      BY <1>6, <1>9, <3>2
  <2>2. \A d \in 1..n : A[d] => s[d].live
    BY <1>9
  <2>3. x.st = s /\ x.env = E /\ x.since = T /\ x.here = A
    OBVIOUS
  <2> HIDE DEF x
  <2> QED
    BY <1>7, <1>8, <2>1, <2>2, <2>3 DEF Unwinds
<1>11. E[n] = env2 /\ T[n] = touched2
  <2>1. E[n] \in [Key -> Value] /\ T[n] \in [Key -> Nat]
    BY <1>1
  <2>2. \A k \in Key : E[n][k] = env2[k] /\ T[n][k] = touched2[k]
    BY <1>3, <1>4
  <2> QED
    BY <2>1, <2>2
<1>12. Steps(w, x, n, M, ok)
  <2>1. \A d \in 1..n : A[d] => w.here[d]
    BY <1>3
  <2>2. \A d \in Nat, k \in Key : Hit(d, k) => touched2[k] = w.ck + 1 /\ k \in KeysOf(M)
    BY DEF Hit
  <2>3. \A d \in 1..n, k \in Key :
          \/ E[d][k] = w.env[d][k] /\ T[d][k] = w.since[d][k]
          \/ T[d][k] = w.ck + 1 /\ k \in KeysOf(M)
    BY <1>3, <2>2
  <2>4. \A d \in 1..n - 1, k \in Key :
          Root[k] \in s[n].declared => T[d][k] = w.since[d][k]
    <3> SUFFICES ASSUME NEW d \in 1..n - 1, NEW k \in Key, Root[k] \in s[n].declared
                 PROVE  ~Hit(d, k)
      BY <1>3
    <3>1. n \in d + 1..n
      OBVIOUS
    <3> QED
      BY <3>1 DEF Hit
  <2> QED
    BY <1>6, <2>1, <2>3, <2>4 DEF Steps
<1>13. x.ev = ev /\ x.pa = w.pa /\ x.cu = w.cu /\ x.st = s /\ x.ck = w.ck + 1
  OBVIOUS
<1>14. x.env = E /\ x.since = T
  OBVIOUS
<1> HIDE DEF x
<1> QED
  BY <1>5, <1>10, <1>11, <1>12, <1>13, <1>14 DEF Stepped

-----------------------------------------------------------------------------
(* A statement of the open block.                                          *)

\* x's stream is w's, or w's and entry e.
Grows(w, x, e) ==
  /\ Len(x.ev) \in {Len(w.ev), Len(w.ev) + 1}
  /\ \A i \in 1..Len(w.ev) : x.ev[i] = w.ev[i]
  /\ \A i \in 1..Len(x.ev) : i \notin 1..Len(w.ev) => i = Len(x.ev) /\ x.ev[i] = e

\* x is w after a statement that recorded e.
Statement(w, x, n, e) ==
  /\ Len(w.st) = n /\ Len(x.st) = n
  /\ \A d \in 1..n - 1 : x.st[d] = w.st[d]
  /\ x.pa = w.pa /\ x.cu = w.cu /\ x.ck = w.ck + 1
  /\ e.scope = w.cu /\ Grows(w, x, e)

\* What did not change of the open frame.
SameBranch(f, g) ==
  /\ f.kind = g.kind /\ f.prev = g.prev /\ f.yes = g.yes /\ f.no = g.no
  /\ f.before = g.before /\ f.taken = g.taken

LEMMA StatementSight ==
  ASSUME NEW w \in Walk, NEW x \in Walk, NEW n \in Nat, n >= 1, NEW e \in Entry,
         Linked(w), Statement(w, x, n, e), SameBranch(x.st[n], w.st[n])
  PROVE  /\ \A d \in 1..n : ScopeAt(x, d) = ScopeAt(w, d)
         /\ \A d \in 1..n, i \in 1..Len(w.ev) : Seen(x, i, d) <=> Seen(w, i, d)
         /\ \A d \in 1..n, i \in 1..Len(x.ev) :
              i \notin 1..Len(w.ev) =>
                x.ev[i] = e /\ i = Len(x.ev) /\ (Seen(x, i, d) <=> d = n)
<1>1. \A d \in 1..n : ScopeAt(x, d) = ScopeAt(w, d)
  <2> TAKE d \in 1..n
  <2>1. CASE d = n
    BY <2>1 DEF ScopeAt, Statement
  <2>2. CASE d # n
    <3>1. d + 1 \in 1..n
      BY <2>2
    <3>2. d + 1 # n => d + 1 \in 1..n - 1
      BY <2>2
    <3>3. x.st[d + 1].prev = w.st[d + 1].prev
      BY <3>2 DEF Statement, SameBranch
    <3> QED
      BY <2>2, <3>3 DEF ScopeAt, Statement
  <2> QED
    BY <2>1, <2>2
<1>2. \A d \in 1..n, i \in 1..Len(w.ev) : Seen(x, i, d) <=> Seen(w, i, d)
  BY <1>1 DEF Seen, Statement, Grows
<1>3. \A d \in 1..n : w.cu \in w.pa[ScopeAt(w, d)] <=> d = n
  <2> TAKE d \in 1..n
  <2>1. n \in 1..n /\ ScopeAt(w, n) = w.cu
    BY DEF ScopeAt, Statement
  <2>2. w.cu \in 1..Len(w.pa) /\ w.cu \in w.pa[w.cu]
    BY <2>1 DEF Linked, Statement
  <2>3. d # n => d < n
    OBVIOUS
  <2>4. d < n => w.cu \notin w.pa[ScopeAt(w, d)]
    BY <2>1 DEF Linked, Statement
  <2> QED
    BY <2>1, <2>2, <2>3, <2>4
<1>4. \A d \in 1..n, i \in 1..Len(x.ev) :
        i \notin 1..Len(w.ev) =>
          x.ev[i] = e /\ i = Len(x.ev) /\ (Seen(x, i, d) <=> d = n)
  BY <1>1, <1>3 DEF Seen, Statement, Grows
<1> QED
  BY <1>1, <1>2, <1>4

LEMMA StatementLinked ==
  ASSUME NEW w \in Walk, NEW x \in Walk, NEW n \in Nat, n >= 1, NEW e \in Entry,
         Linked(w), Statement(w, x, n, e), SameBranch(x.st[n], w.st[n])
  PROVE  Linked(x)
<1>1. /\ \A d \in 1..n : ScopeAt(x, d) = ScopeAt(w, d)
      /\ \A i \in 1..Len(x.ev) : i \notin 1..Len(w.ev) => x.ev[i] = e
  BY StatementSight DEF Statement, Grows
<1>2. Len(x.st) = n /\ Len(w.st) = n /\ x.pa = w.pa /\ e.scope = w.cu
  BY DEF Statement
<1>3. w.cu \in 1..Len(w.pa)
  <2>1. n \in 1..n /\ ScopeAt(w, n) = w.cu
    BY <1>2 DEF ScopeAt
  <2> QED
    BY <1>2, <2>1 DEF Linked
<1>4. \A i \in 1..Len(x.ev) : x.ev[i].scope \in 1..Len(x.pa)
  BY <1>1, <1>2, <1>3 DEF Linked, Statement, Grows
<1> QED
  BY <1>1, <1>2, <1>4 DEF Linked

LEMMA StatementDates ==
  ASSUME NEW w \in Walk, NEW x \in Walk, NEW n \in Nat, n >= 1, NEW e \in Entry,
         Dates(w), Statement(w, x, n, e), SameBranch(x.st[n], w.st[n]),
         e.at <= x.ck, \A f \in Planted(e) : f.asOf <= x.ck
  PROVE  Dates(x)
<1>1. w.ck \in Nat /\ x.ck = w.ck + 1
  BY WalkType DEF Statement
<1>2. \A m \in Nat : m <= w.ck => m <= x.ck
  BY <1>1
<1>3. ASSUME NEW i \in 1..Len(x.ev)
      PROVE  x.ev[i].at <= x.ck /\ \A f \in Planted(x.ev[i]) : f.asOf <= x.ck
  <2>1. CASE i \in 1..Len(w.ev)
    <3>1. w.ev[i] \in Entry /\ x.ev[i] = w.ev[i]
      BY <2>1, WalkType DEF Statement, Grows
    <3>2. w.ev[i].at \in Nat /\ \A f \in Planted(w.ev[i]) : f.asOf \in Nat
      BY <3>1 DEF Entry, Planted, DatedFact
    <3> QED
      BY <1>2, <2>1, <3>1, <3>2 DEF Dates
  <2>2. CASE i \notin 1..Len(w.ev)
    BY <2>2 DEF Statement, Grows
  <2> QED
    BY <2>1, <2>2
<1>4. ASSUME NEW d \in 1..n
      PROVE  \A f \in x.st[d].yes \cup x.st[d].no : f.asOf <= x.ck
  <2>1. d # n => d \in 1..n - 1
    OBVIOUS
  <2>2. x.st[d].yes = w.st[d].yes /\ x.st[d].no = w.st[d].no
    BY <2>1 DEF Statement, SameBranch
  <2>3. w.st[d] \in Frame
    BY WalkType DEF Statement
  <2>4. \A f \in w.st[d].yes \cup w.st[d].no : f.asOf \in Nat /\ f.asOf <= w.ck
    BY <2>3 DEF Frame, DatedFact, Dates, Statement
  <2> QED
    BY <1>2, <2>2, <2>4
<1> QED
  BY <1>3, <1>4 DEF Dates, Statement

LEMMA StatementBranches ==
  ASSUME NEW w \in Walk, NEW x \in Walk, NEW n \in Nat, n >= 1, NEW e \in Entry,
         Branches(w), Statement(w, x, n, e), SameBranch(x.st[n], w.st[n]),
         x.st[n].escapes => ~x.st[n].live,
         \A d \in 1..n : x.here[d] => w.here[d]
  PROVE  Branches(x)
<1>1. \A d \in 1..n : d # n => d \in 1..n - 1
  OBVIOUS
<1>2. \A d \in 1..n : SameBranch(x.st[d], w.st[d])
  BY <1>1 DEF SameBranch, Statement
<1>3. \A d \in 1..n : x.st[d].escapes => ~x.st[d].live
  BY <1>1 DEF Branches, Statement
<1>4. \A d \in 2..n : d - 1 \in 1..n /\ d \in 1..n
  OBVIOUS
<1>5. ASSUME NEW d \in 2..n, x.st[d].kind \in {"else", "elseif"}, x.st[d].before,
             x.here[d - 1]
      PROVE  x.st[d].taken
  <2>1. w.here[d - 1]
    BY <1>4, <1>5
  <2> QED
    BY <1>2, <1>4, <1>5, <2>1 DEF Branches, SameBranch, Statement
<1> QED
  BY <1>3, <1>5 DEF Branches, Statement

LEMMA StatementSound ==
  ASSUME NEW w \in Walk, NEW x \in Walk, NEW n \in Nat, n >= 1, NEW e \in Entry,
         Linked(w), Dates(w), Sound(w), Statement(w, x, n, e),
         SameBranch(x.st[n], w.st[n]),
         \A d \in 1..n : x.here[d] => w.here[d],
         \A d \in 1..n, k \in Key :
           \/ x.env[d][k] = w.env[d][k] /\ x.since[d][k] = w.since[d][k]
           \/ x.since[d][k] = x.ck,
         x.here[n] => \A f \in Planted(e) : Holds(x, n, f)
  PROVE  Sound(x)
<1>1. ASSUME NEW d \in 1..n, NEW f \in DatedFact, f.asOf <= w.ck, Holds(w, d, f)
      PROVE  Holds(x, d, f)
  <2>1. f.key \in Key /\ f.asOf \in Nat /\ w.ck \in Nat /\ x.ck = w.ck + 1
    BY WalkType DEF DatedFact, Statement
  <2>2. CASE x.env[d][f.key] = w.env[d][f.key] /\ x.since[d][f.key] = w.since[d][f.key]
    BY <1>1, <2>2 DEF Holds
  <2>3. CASE x.since[d][f.key] = x.ck
    BY <1>1, <2>1, <2>3 DEF Holds
  <2> QED
    BY <2>1, <2>2, <2>3
<1>2. ASSUME NEW d \in 1..n, x.here[d], NEW i \in 1..Len(x.ev), Seen(x, i, d),
             NEW f \in Planted(x.ev[i])
      PROVE  Holds(x, d, f)
  <2>1. CASE i \in 1..Len(w.ev)
    <3>1. Seen(w, i, d) /\ x.ev[i] = w.ev[i] /\ w.here[d]
      BY <1>2, <2>1, StatementSight DEF Statement, Grows
    <3>2. f \in DatedFact /\ f.asOf <= w.ck
      BY <1>2, <2>1, <3>1, WalkType DEF Dates, Planted, Entry
    <3>3. Holds(w, d, f)
      BY <1>2, <2>1, <3>1 DEF Sound, Statement
    <3> QED
      BY <1>1, <3>2, <3>3
  <2>2. CASE i \notin 1..Len(w.ev)
    <3>1. x.ev[i] = e /\ d = n
      BY <1>2, <2>2, StatementSight
    <3> QED
      BY <1>2, <3>1
  <2> QED
    BY <2>1, <2>2
<1>3. ASSUME NEW d \in 2..n, x.here[d - 1], NEW f \in Held(x.st[d])
      PROVE  Holds(x, d - 1, f)
  <2>1. d \in 1..n /\ d - 1 \in 1..n /\ (d # n => d \in 1..n - 1)
    OBVIOUS
  <2>2. Held(x.st[d]) = Held(w.st[d])
    BY <2>1 DEF Held, SameBranch, Statement
  <2>3. w.here[d - 1]
    BY <1>3, <2>1
  <2>4. Holds(w, d - 1, f)
    BY <1>3, <2>2, <2>3 DEF Sound, Statement
  <2>5. w.st[d] \in Frame
    BY <2>1, WalkType DEF Statement
  <2>6. f \in w.st[d].yes \cup w.st[d].no
    BY <1>3, <2>2 DEF Held
  <2>7. f \in DatedFact /\ f.asOf <= w.ck
    BY <2>1, <2>5, <2>6 DEF Dates, Frame, Statement
  <2> QED
    BY <1>1, <2>1, <2>4, <2>7
<1> QED
  BY <1>2, <1>3 DEF Sound, Statement

LEMMA StatementInOrder ==
  ASSUME NEW w \in Walk, NEW x \in Walk, NEW n \in Nat, n >= 1, NEW e \in Entry,
         Linked(w), Dates(w), InOrder(w), Statement(w, x, n, e),
         SameBranch(x.st[n], w.st[n]),
         \A f \in Standing(e) : w.ck <= f.asOf /\ After(e, f)
  PROVE  InOrder(x)
<1>0. n \in 1..n /\ Len(w.st) = n /\ Len(x.st) = n
      /\ Len(w.ev) \in Nat /\ Len(x.ev) \in Nat
  BY WalkType DEF Statement
<1>1. ASSUME NEW i \in 1..Len(x.ev), NEW j \in 1..Len(x.ev), j <= i,
             Seen(x, i, n), Seen(x, j, n), NEW f \in Standing(x.ev[i])
      PROVE  After(x.ev[j], f)
  <2>1. CASE i \in 1..Len(w.ev)
    <3>1. j \in 1..Len(w.ev)
      BY <1>0, <1>1, <2>1
    <3>2. /\ Seen(w, i, n) /\ x.ev[i] = w.ev[i]
          /\ Seen(w, j, n) /\ x.ev[j] = w.ev[j]
      <4>1. \A l \in 1..Len(w.ev) : Seen(x, l, n) <=> Seen(w, l, n)
        BY <1>0, StatementSight
      <4>2. \A l \in 1..Len(w.ev) : x.ev[l] = w.ev[l]
        BY DEF Statement, Grows
      <4> QED
        BY <1>1, <2>1, <3>1, <4>1, <4>2
    <3> QED
      BY <1>0, <1>1, <2>1, <3>1, <3>2 DEF InOrder
  <2>2. CASE i \notin 1..Len(w.ev) /\ j \in 1..Len(w.ev)
    <3>1. x.ev[i] = e /\ x.ev[j] = w.ev[j]
      BY <2>2 DEF Statement, Grows
    <3>2. w.ev[j].at <= w.ck /\ w.ck <= f.asOf
      BY <1>1, <2>2, <3>1 DEF Dates
    <3>3. w.ev[j].at \in Nat /\ w.ck \in Nat
      BY <2>2, WalkType DEF Entry
    <3>4. f \in DatedFact
      BY <1>1, <3>1 DEF Standing, Entry
    <3>5. f.asOf \in Nat
      BY <3>4 DEF DatedFact
    <3>6. w.ev[j].at <= f.asOf
      BY <3>2, <3>3, <3>5
    <3> QED
      BY <3>1, <3>6 DEF After
  <2>3. CASE i \notin 1..Len(w.ev) /\ j \notin 1..Len(w.ev)
    BY <1>1, <2>3 DEF Statement, Grows
  <2> QED
    BY <2>1, <2>2, <2>3
<1>2. ASSUME NEW d \in 2..n, NEW j \in 1..Len(x.ev), Seen(x, j, d - 1),
             NEW f \in x.st[d].yes \cup x.st[d].no
      PROVE  After(x.ev[j], f)
  <2>1. d \in 1..n /\ d - 1 \in 1..n /\ d - 1 # n /\ (d # n => d \in 1..n - 1)
    OBVIOUS
  <2>2. x.st[d].yes = w.st[d].yes /\ x.st[d].no = w.st[d].no
    BY <2>1 DEF SameBranch, Statement
  <2>3. j \in 1..Len(w.ev)
    BY <1>2, <2>1, StatementSight
  <2>4. Seen(w, j, d - 1) /\ x.ev[j] = w.ev[j]
    <3>1. x.ev[j] = w.ev[j]
      BY <2>3 DEF Statement, Grows
    <3>2. Seen(w, j, d - 1)
      BY <1>2, <2>1, <2>3, StatementSight
    <3> QED
      BY <3>1, <3>2
  <2> QED
    BY <1>0, <1>2, <2>2, <2>3, <2>4 DEF InOrder
<1> QED
  BY <1>0, <1>1, <1>2 DEF InOrder

LEMMA StatementWritten ==
  ASSUME NEW w \in Walk, NEW x \in Walk, NEW n \in Nat, n >= 1, NEW e \in Entry,
         Linked(w), Written(w), Statement(w, x, n, e), SameBranch(x.st[n], w.st[n]),
         \A d \in 1..n - 1, k \in Key : x.since[d][k] = w.since[d][k],
         \A k \in Key : x.since[n][k] # w.since[n][k] =>
           /\ x.since[n][k] = e.at /\ Root[k] \in e.wrote
           /\ Len(x.ev) = Len(w.ev) + 1
  PROVE  Written(x)
<1>1. ASSUME NEW d \in 1..n, NEW k \in Key, x.since[d][k] = w.since[d][k],
             x.since[d][k] > 0
      PROVE  \E j \in 1..Len(x.ev) :
               /\ Seen(x, j, d) /\ Root[k] \in x.ev[j].wrote
               /\ x.ev[j].at = x.since[d][k]
  <2>1. PICK j \in 1..Len(w.ev) :
          Seen(w, j, d) /\ Root[k] \in w.ev[j].wrote /\ w.ev[j].at = w.since[d][k]
    BY <1>1 DEF Written, Statement
  <2>2. Len(w.ev) \in Nat /\ Len(x.ev) \in {Len(w.ev), Len(w.ev) + 1}
    BY WalkType DEF Statement, Grows
  <2>3. j \in 1..Len(x.ev) /\ x.ev[j] = w.ev[j]
    BY <2>2 DEF Statement, Grows
  <2>4. Seen(x, j, d)
    BY <2>1, StatementSight
  <2> QED
    BY <1>1, <2>1, <2>3, <2>4
<1>2. ASSUME NEW k \in Key, x.since[n][k] # w.since[n][k]
      PROVE  \E j \in 1..Len(x.ev) :
               /\ Seen(x, j, n) /\ Root[k] \in x.ev[j].wrote
               /\ x.ev[j].at = x.since[n][k]
  <2>1. x.since[n][k] = e.at /\ Root[k] \in e.wrote
    BY <1>2
  <2>2. Len(w.ev) \in Nat /\ Len(x.ev) = Len(w.ev) + 1
    BY <1>2, WalkType
  <2>3. Len(x.ev) \in 1..Len(x.ev) /\ Len(x.ev) \notin 1..Len(w.ev) /\ n \in 1..n
    BY <2>2
  <2>4. x.ev[Len(x.ev)] = e /\ Seen(x, Len(x.ev), n)
    BY <2>3, StatementSight
  <2> QED
    BY <2>1, <2>2, <2>3, <2>4
<1>3. \A d \in 1..n : d # n => d \in 1..n - 1
  OBVIOUS
<1>4. ASSUME NEW d \in 1..n, NEW k \in Key, x.since[d][k] > 0
      PROVE  \E j \in 1..Len(x.ev) :
               /\ Seen(x, j, d) /\ Root[k] \in x.ev[j].wrote
               /\ x.ev[j].at = x.since[d][k]
  <2>1. CASE x.since[d][k] = w.since[d][k]
    BY <1>1, <1>4, <2>1
  <2>2. CASE x.since[d][k] # w.since[d][k]
    <3>1. d = n
      BY <1>3, <2>2
    <3> QED
      BY <1>2, <2>2, <3>1
  <2> QED
    BY <2>1, <2>2
<1> QED
  BY <1>4 DEF Written, Statement

LEMMA AppendEntry ==
  \A u \in Seq(Entry), e \in Entry :
    /\ Append(u, e) \in Seq(Entry) /\ Len(Append(u, e)) = Len(u) + 1
    /\ \A i \in 1..Len(u) : Append(u, e)[i] = u[i]
    /\ Append(u, e)[Len(u) + 1] = e
  OBVIOUS

LEMMA GrowsType ==
  ASSUME NEW w \in Walk, NEW e \in Entry, NEW x, x.ev \in {w.ev, Append(w.ev, e)}
  PROVE  x.ev \in Seq(Entry) /\ Grows(w, x, e)
<1>1. w.ev \in Seq(Entry) /\ Len(w.ev) \in Nat
  BY WalkType
<1>2. /\ Append(w.ev, e) \in Seq(Entry) /\ Len(Append(w.ev, e)) = Len(w.ev) + 1
      /\ \A i \in 1..Len(w.ev) : Append(w.ev, e)[i] = w.ev[i]
      /\ Append(w.ev, e)[Len(w.ev) + 1] = e
  BY <1>1, AppendEntry
<1>3. \A i \in 1..Len(w.ev) + 1 : i \notin 1..Len(w.ev) => i = Len(w.ev) + 1
  BY <1>1
<1>4. CASE x.ev = w.ev
  BY <1>1, <1>4 DEF Grows
<1>5. CASE x.ev = Append(w.ev, e)
  BY <1>2, <1>3, <1>5 DEF Grows
<1> QED
  BY <1>4, <1>5

\* What the statement records: entry e, of the open scope, dated no later than
\* the statement, and only facts that are true of the values they speak of.
Reports(w, n, M, ok, s, env2, touched2, e, ev) ==
  /\ ev \in {w.ev, Append(w.ev, e)}
  /\ e.scope = w.cu /\ e.at <= w.ck + 1
  /\ \A f \in Planted(e) : f.asOf <= w.ck + 1
  /\ w.here[n] /\ ok =>
       \A f \in Planted(e) : f.asOf >= touched2[f.key] => f.claim \cap env2[f.key] # {}
  /\ Attentive => \A f \in Standing(e) : w.ck <= f.asOf /\ After(e, f)
  /\ Fragment /\ M # {} =>
       /\ M \subseteq s[n].declared \/ n = 1
       /\ ev = Append(w.ev, e) /\ e.wrote = M /\ e.at = w.ck + 1

Kept(w, n, ok, s, env2, touched2, ev) ==
  \E x \in Walk :
    /\ x.ev = ev /\ x.pa = w.pa /\ x.cu = w.cu /\ x.st = s /\ x.ck = w.ck + 1
    /\ x.env[n] = env2 /\ x.since[n] = touched2
    /\ x.here[n] <=> w.here[n] /\ ok
    /\ Consistent(x)

LEMMA StatementKeeps ==
  ASSUME NEW w \in Walk, Consistent(w), NEW n \in Nat, n >= 1,
         NEW D \in SUBSET Var, NEW M \in SUBSET Var, NEW ok \in BOOLEAN,
         NEW s \in Seq(Frame), NEW env2 \in [Key -> Value], NEW touched2 \in [Key -> Nat],
         Runs(w, n, D, M, ok, s, env2, touched2),
         NEW e \in Entry, NEW ev, Reports(w, n, M, ok, s, env2, touched2, e, ev)
  PROVE  Kept(w, n, ok, s, env2, touched2, ev)
<1>1. /\ w.ev \in Seq(Entry) /\ Len(w.ev) \in Nat /\ w.ck \in Nat
      /\ w.here[n] \in BOOLEAN
  BY WalkType
<1>2. /\ Unwinds(w) /\ Linked(w) /\ Dates(w) /\ Branches(w) /\ Sound(w)
      /\ Attentive => InOrder(w)
      /\ Fragment => Written(w)
  BY DEF Consistent
<1>3. ev \in {w.ev, Append(w.ev, e)}
  BY DEF Reports
<1>4. ev \in Seq(Entry)
  <2>1. Append(w.ev, e) \in Seq(Entry)
    BY <1>1, AppendEntry
  <2> QED
    BY <1>1, <1>3, <2>1
<1>5. PICK x \in Walk :
        /\ x.ev = ev /\ x.pa = w.pa /\ x.cu = w.cu /\ x.st = s /\ x.ck = w.ck + 1
        /\ x.env[n] = env2 /\ x.since[n] = touched2
        /\ Unwinds(x) /\ Steps(w, x, n, M, ok)
  <2>1. Stepped(w, n, M, ok, s, env2, touched2, ev)
    BY <1>2, <1>4, StatementLevels
  <2> QED
    BY <2>1 DEF Stepped
<1>6. Grows(w, x, e)
  <2>1. x.ev \in {w.ev, Append(w.ev, e)}
    BY <1>3, <1>5
  <2> QED
    BY <2>1, GrowsType
<1>7. Statement(w, x, n, e) /\ SameBranch(x.st[n], w.st[n])
  BY <1>5, <1>6 DEF Statement, SameBranch, Runs, Advanced, Reports
<1>8. /\ n \in 1..n /\ \A d \in 1..n : x.here[d] => w.here[d]
      /\ x.here[n] <=> w.here[n] /\ ok
  BY <1>5 DEF Steps
<1>9. Linked(x)
  BY <1>2, <1>7, StatementLinked
<1>10. Dates(x)
  <2>1. e.at <= x.ck /\ \A f \in Planted(e) : f.asOf <= x.ck
    BY <1>5 DEF Reports
  <2> QED
    BY <1>2, <1>7, <2>1, StatementDates
<1>11. Branches(x)
  <2>1. /\ x.st[n].escapes => w.st[n].escapes \/ ~ok
        /\ x.st[n].live = (w.st[n].live /\ ok)
        /\ Len(w.st) = n
    BY <1>5 DEF Runs, Advanced
  <2>2. w.st[n].escapes => ~w.st[n].live
    BY <1>2, <1>8, <2>1 DEF Branches
  <2> QED
    BY <1>2, <1>7, <1>8, <2>1, <2>2, StatementBranches
<1>12. Sound(x)
  <2>1. x.here[n] => \A f \in Planted(e) : Holds(x, n, f)
    BY <1>5, <1>8 DEF Holds, Reports
  <2>2. \A d \in 1..n, k \in Key :
          \/ x.env[d][k] = w.env[d][k] /\ x.since[d][k] = w.since[d][k]
          \/ x.since[d][k] = x.ck
    BY <1>5 DEF Steps
  <2> QED
    BY <1>2, <1>7, <1>8, <2>1, <2>2, StatementSound
<1>13. Attentive => InOrder(x)
  BY <1>2, <1>7, StatementInOrder DEF Reports
<1>14. ASSUME Fragment PROVE Written(x)
  <2>1. ASSUME NEW d \in 1..n, NEW k \in Key, x.since[d][k] # w.since[d][k]
        PROVE  /\ d = n /\ x.since[n][k] = e.at /\ Root[k] \in e.wrote
               /\ Len(x.ev) = Len(w.ev) + 1
    <3>1. Root[k] \in M /\ x.since[d][k] = w.ck + 1
      BY <1>5, <2>1 DEF Steps, KeysOf
    <3>2. /\ ev = Append(w.ev, e) /\ e.wrote = M /\ e.at = w.ck + 1
          /\ Root[k] \in s[n].declared \/ n = 1
      BY <1>14, <3>1 DEF Reports
    <3>3. Len(x.ev) = Len(w.ev) + 1
      BY <1>1, <1>5, <3>2, AppendEntry
    <3>4. d # n => d \in 1..n - 1 /\ n # 1
      OBVIOUS
    <3>5. d = n
      BY <1>5, <2>1, <3>2, <3>4 DEF Steps
    <3> QED
      BY <3>1, <3>2, <3>3, <3>5
  <2>2. \A d \in 1..n - 1, k \in Key : x.since[d][k] = w.since[d][k]
    <3>1. \A d \in 1..n - 1 : d \in 1..n /\ d # n
      OBVIOUS
    <3> QED
      BY <2>1, <3>1
  <2> QED
    BY <1>2, <1>7, <1>8, <1>14, <2>1, <2>2, StatementWritten
<1>15. Consistent(x)
  BY <1>5, <1>9, <1>10, <1>11, <1>12, <1>13, <1>14 DEF Consistent
<1> QED
  BY <1>5, <1>8, <1>15 DEF Kept

-----------------------------------------------------------------------------
(* Opening a branch.                                                       *)

\* The walk enters frame f, in a new scope where it records e.
Entered(w, x, n, f, e) ==
  /\ Len(w.st) = n /\ Len(x.st) = n + 1
  /\ \A d \in 1..n : x.st[d] = w.st[d]
  /\ x.st[n + 1] = f /\ f.prev = w.cu
  /\ x.cu = Len(w.pa) + 1 /\ Len(x.pa) = Len(w.pa) + 1
  /\ \A s \in 1..Len(w.pa) : x.pa[s] = w.pa[s]
  /\ x.pa[x.cu] = w.pa[w.cu] \cup {x.cu}
  /\ Len(x.ev) = Len(w.ev) + 1
  /\ \A i \in 1..Len(w.ev) : x.ev[i] = w.ev[i]
  /\ x.ev[Len(x.ev)] = e /\ e.scope = x.cu
  /\ x.ck \in {w.ck, w.ck + 1}

\* The new level starts as the one around it is.
Doubled(w, x, n) ==
  /\ \A d \in 1..n :
       x.env[d] = w.env[d] /\ x.since[d] = w.since[d] /\ x.here[d] = w.here[d]
  /\ x.env[n + 1] = w.env[n] /\ x.since[n + 1] = w.since[n]

\* What a branch is when it is entered.
Begins(w, n, f) ==
  /\ f.declared = {} /\ ~f.escapes
  /\ f.live = f.taken /\ (f.taken => w.here[n])
  /\ f.kind \in {"else", "elseif"} /\ f.before /\ w.here[n] => f.taken

LEMMA EnteredSight ==
  ASSUME NEW w \in Walk, NEW x \in Walk, NEW n \in Nat, n >= 1, NEW f \in Frame,
         NEW e \in Entry, Linked(w), Entered(w, x, n, f, e)
  PROVE  /\ \A d \in 1..n : ScopeAt(x, d) = ScopeAt(w, d) /\ ScopeAt(w, d) \in 1..Len(w.pa)
         /\ ScopeAt(x, n + 1) = x.cu /\ ScopeAt(w, n) = w.cu /\ w.cu \in 1..Len(w.pa)
         /\ \A d \in 1..n, i \in 1..Len(w.ev) : Seen(x, i, d) <=> Seen(w, i, d)
         /\ \A i \in 1..Len(w.ev) : Seen(x, i, n + 1) <=> Seen(w, i, n)
         /\ \A d \in 1..n : ~Seen(x, Len(x.ev), d)
         /\ Seen(x, Len(x.ev), n + 1)
<1>1. /\ Len(w.st) = n /\ Len(x.st) = n + 1 /\ n \in 1..n
      /\ Len(w.pa) \in Nat /\ Len(w.ev) \in Nat
  BY WalkType DEF Entered
<1>2. \A d \in 1..n : ScopeAt(x, d) = ScopeAt(w, d)
  <2> TAKE d \in 1..n
  <2>1. d # n + 1 /\ d + 1 \in 1..n + 1 /\ (d # n => d + 1 \in 1..n)
    OBVIOUS
  <2>2. CASE d = n
    BY <1>1, <2>1, <2>2 DEF ScopeAt, Entered
  <2>3. CASE d # n
    <3>1. x.st[d + 1] = w.st[d + 1]
      BY <2>1, <2>3 DEF Entered
    <3> QED
      BY <1>1, <2>1, <2>3, <3>1 DEF ScopeAt
  <2> QED
    BY <2>2, <2>3
<1>3. \A d \in 1..n : ScopeAt(w, d) \in 1..Len(w.pa)
  BY <1>1 DEF Linked
<1>4. ScopeAt(x, n + 1) = x.cu /\ ScopeAt(w, n) = w.cu /\ w.cu \in 1..Len(w.pa)
  BY <1>1, <1>3 DEF ScopeAt
<1>5. x.cu \notin 1..Len(w.pa)
  BY <1>1 DEF Entered
<1>6. \A s \in 1..Len(w.pa) : x.pa[s] = w.pa[s] /\ x.cu \notin w.pa[s]
  BY <1>5 DEF Entered, Linked
<1>7. \A i \in 1..Len(w.ev) : x.ev[i] = w.ev[i] /\ w.ev[i].scope # x.cu
  BY <1>5 DEF Entered, Linked
<1>8. x.pa[x.cu] = w.pa[w.cu] \cup {x.cu} /\ x.ev[Len(x.ev)].scope = x.cu
  BY DEF Entered
<1>9. \A d \in 1..n : x.pa[ScopeAt(x, d)] = w.pa[ScopeAt(w, d)]
                      /\ x.cu \notin w.pa[ScopeAt(w, d)]
  BY <1>2, <1>3, <1>6
<1>10. \A d \in 1..n, i \in 1..Len(w.ev) : Seen(x, i, d) <=> Seen(w, i, d)
  BY <1>7, <1>9 DEF Seen
<1>11. \A i \in 1..Len(w.ev) : Seen(x, i, n + 1) <=> Seen(w, i, n)
  BY <1>4, <1>7, <1>8 DEF Seen
<1>12. /\ \A d \in 1..n : ~Seen(x, Len(x.ev), d)
       /\ Seen(x, Len(x.ev), n + 1)
  BY <1>4, <1>8, <1>9 DEF Seen
<1> QED
  BY <1>2, <1>3, <1>4, <1>10, <1>11, <1>12

LEMMA EnteredLinked ==
  ASSUME NEW w \in Walk, NEW x \in Walk, NEW n \in Nat, n >= 1, NEW f \in Frame,
         NEW e \in Entry, Linked(w), Entered(w, x, n, f, e)
  PROVE  Linked(x)
<1>1. /\ \A d \in 1..n : ScopeAt(x, d) = ScopeAt(w, d) /\ ScopeAt(w, d) \in 1..Len(w.pa)
      /\ ScopeAt(x, n + 1) = x.cu /\ ScopeAt(w, n) = w.cu /\ w.cu \in 1..Len(w.pa)
  BY EnteredSight
<1>2. /\ Len(w.st) = n /\ Len(x.st) = n + 1
      /\ x.cu = Len(w.pa) + 1 /\ Len(x.pa) = Len(w.pa) + 1
      /\ \A s \in 1..Len(w.pa) : x.pa[s] = w.pa[s]
      /\ x.pa[x.cu] = w.pa[w.cu] \cup {x.cu}
      /\ Len(x.ev) = Len(w.ev) + 1
      /\ \A i \in 1..Len(w.ev) : x.ev[i] = w.ev[i]
      /\ x.ev[Len(x.ev)].scope = x.cu
  BY DEF Entered
<1>3. Len(w.pa) \in Nat /\ Len(w.ev) \in Nat
  BY WalkType
<1>4. /\ 1..Len(w.pa) \subseteq 1..Len(x.pa) /\ x.cu \in 1..Len(x.pa)
      /\ x.cu \notin 1..Len(w.pa)
      /\ \A s \in 1..Len(x.pa) : s \in 1..Len(w.pa) \/ s = x.cu
      /\ \A i \in 1..Len(x.ev) : i \in 1..Len(w.ev) \/ i = Len(x.ev)
      /\ \A d \in 1..n + 1 : d \in 1..n \/ d = n + 1
      /\ n \in 1..n
  BY <1>2, <1>3, OneMore
<1>5. \A s \in 1..Len(w.pa) : s \in w.pa[s] /\ w.pa[s] \subseteq 1..Len(w.pa)
  BY DEF Linked
<1>6. \A s \in 1..Len(x.pa) : s \in x.pa[s] /\ x.pa[s] \subseteq 1..Len(x.pa)
  BY <1>1, <1>2, <1>4, <1>5
<1>7. \A i \in 1..Len(x.ev) : x.ev[i].scope \in 1..Len(x.pa)
  BY <1>2, <1>4 DEF Linked
<1>8. \A d \in 1..n + 1 : ScopeAt(x, d) \in 1..Len(x.pa)
  BY <1>1, <1>4
<1>9. ASSUME NEW c \in 1..n + 1, NEW d \in 1..n + 1, c < d
      PROVE  /\ x.pa[ScopeAt(x, c)] \subseteq x.pa[ScopeAt(x, d)]
             /\ ScopeAt(x, d) \notin x.pa[ScopeAt(x, c)]
  <2>1. c \in 1..n
    BY <1>9
  <2>2. x.pa[ScopeAt(x, c)] = w.pa[ScopeAt(w, c)]
    BY <1>1, <1>2, <2>1
  <2>3. CASE d \in 1..n
    <3>1. x.pa[ScopeAt(x, d)] = w.pa[ScopeAt(w, d)]
      BY <1>1, <1>2, <2>3
    <3> QED
      BY <1>1, <1>2, <1>9, <2>1, <2>2, <2>3, <3>1 DEF Linked
  <2>4. CASE d = n + 1
    <3>1. c = n \/ c < n
      BY <2>1
    <3>2. w.pa[ScopeAt(w, c)] \subseteq w.pa[w.cu]
      BY <1>1, <1>2, <1>4, <2>1, <3>1 DEF Linked
    <3>3. x.cu \notin w.pa[ScopeAt(w, c)]
      BY <1>1, <1>4, <1>5, <2>1
    <3> QED
      BY <1>1, <1>2, <2>2, <2>4, <3>2, <3>3
  <2> QED
    BY <1>4, <2>3, <2>4
<1> QED
  BY <1>2, <1>6, <1>7, <1>8, <1>9 DEF Linked

LEMMA EnteredDates ==
  ASSUME NEW w \in Walk, NEW x \in Walk, NEW n \in Nat, n >= 1, NEW f \in Frame,
         NEW e \in Entry, Dates(w), Entered(w, x, n, f, e),
         e.at <= x.ck, \A g \in Planted(e) \cup f.yes \cup f.no : g.asOf <= x.ck
  PROVE  Dates(x)
<1>1. /\ w.ck \in Nat /\ x.ck \in {w.ck, w.ck + 1} /\ Len(w.ev) \in Nat
      /\ Len(w.st) = n /\ Len(x.st) = n + 1 /\ Len(x.ev) = Len(w.ev) + 1
  BY WalkType DEF Entered
<1>2. \A m \in Nat : m <= w.ck => m <= x.ck
  BY <1>1
<1>3. ASSUME NEW i \in 1..Len(x.ev)
      PROVE  x.ev[i].at <= x.ck /\ \A g \in Planted(x.ev[i]) : g.asOf <= x.ck
  <2>1. CASE i \in 1..Len(w.ev)
    <3>1. w.ev[i] \in Entry /\ x.ev[i] = w.ev[i]
      BY <2>1, WalkType DEF Entered
    <3>2. w.ev[i].at \in Nat /\ \A g \in Planted(w.ev[i]) : g.asOf \in Nat
      BY <3>1 DEF Entry, Planted, DatedFact
    <3> QED
      BY <1>2, <2>1, <3>1, <3>2 DEF Dates
  <2>2. CASE i = Len(x.ev)
    BY <2>2 DEF Entered
  <2> QED
    BY <1>1, <2>1, <2>2
<1>4. ASSUME NEW d \in 1..n + 1
      PROVE  \A g \in x.st[d].yes \cup x.st[d].no : g.asOf <= x.ck
  <2>1. CASE d \in 1..n
    <3>1. x.st[d] = w.st[d] /\ w.st[d] \in Frame
      BY <1>1, <2>1, WalkType DEF Entered
    <3>2. \A g \in w.st[d].yes \cup w.st[d].no : g.asOf \in Nat /\ g.asOf <= w.ck
      BY <1>1, <2>1, <3>1 DEF Frame, DatedFact, Dates
    <3> QED
      BY <1>2, <3>1, <3>2
  <2>2. CASE d = n + 1
    BY <2>2 DEF Entered
  <2> QED
    BY <2>1, <2>2
<1> QED
  BY <1>1, <1>3, <1>4 DEF Dates

LEMMA EnteredSound ==
  ASSUME NEW w \in Walk, NEW x \in Walk, NEW n \in Nat, n >= 1, NEW f \in Frame,
         NEW e \in Entry, Linked(w), Sound(w), Entered(w, x, n, f, e),
         Doubled(w, x, n), x.here[n + 1] = f.taken, f.taken => w.here[n],
         f.taken => \A g \in Planted(e) : Holds(w, n, g),
         w.here[n] => \A g \in Held(f) : Holds(w, n, g)
  PROVE  Sound(x)
<1>1. /\ Len(w.st) = n /\ Len(x.st) = n + 1 /\ Len(x.ev) = Len(w.ev) + 1
      /\ Len(w.ev) \in Nat /\ x.ev[Len(x.ev)] = e /\ n \in 1..n
      /\ \A i \in 1..Len(w.ev) : x.ev[i] = w.ev[i]
      /\ \A i \in 1..Len(x.ev) : i \in 1..Len(w.ev) \/ i = Len(x.ev)
  BY WalkType DEF Entered
<1>2. /\ \A d \in 1..n : \A g : Holds(x, d, g) <=> Holds(w, d, g)
      /\ \A g : Holds(x, n + 1, g) <=> Holds(w, n, g)
  BY DEF Holds, Doubled
<1>3. /\ \A d \in 1..n, i \in 1..Len(w.ev) : Seen(x, i, d) <=> Seen(w, i, d)
      /\ \A i \in 1..Len(w.ev) : Seen(x, i, n + 1) <=> Seen(w, i, n)
      /\ \A d \in 1..n : ~Seen(x, Len(x.ev), d)
  BY EnteredSight
<1>4. ASSUME NEW d \in 1..n + 1, x.here[d], NEW i \in 1..Len(x.ev), Seen(x, i, d),
             NEW g \in Planted(x.ev[i])
      PROVE  Holds(x, d, g)
  <2>1. CASE d \in 1..n
    <3>1. i \in 1..Len(w.ev) /\ Seen(w, i, d) /\ w.here[d] /\ g \in Planted(w.ev[i])
      BY <1>1, <1>3, <1>4, <2>1 DEF Doubled
    <3> QED
      BY <1>1, <1>2, <2>1, <3>1 DEF Sound
  <2>2. CASE d = n + 1 /\ i \in 1..Len(w.ev)
    <3>1. Seen(w, i, n) /\ w.here[n] /\ g \in Planted(w.ev[i])
      BY <1>1, <1>3, <1>4, <2>2
    <3> QED
      BY <1>1, <1>2, <2>2, <3>1 DEF Sound
  <2>3. CASE d = n + 1 /\ i = Len(x.ev)
    BY <1>1, <1>2, <1>4, <2>3
  <2> QED
    BY <1>1, <2>1, <2>2, <2>3
<1>5. ASSUME NEW d \in 2..n + 1, x.here[d - 1], NEW g \in Held(x.st[d])
      PROVE  Holds(x, d - 1, g)
  <2>1. d - 1 \in 1..n /\ (d = n + 1 \/ (d \in 2..n /\ d \in 1..n))
    OBVIOUS
  <2>2. w.here[d - 1]
    BY <1>5, <2>1 DEF Doubled
  <2>3. CASE d \in 2..n
    <3>1. x.st[d] = w.st[d]
      BY <2>3 DEF Entered
    <3>2. Holds(w, d - 1, g)
      BY <1>1, <1>5, <2>2, <2>3, <3>1 DEF Sound
    <3> QED
      BY <1>2, <2>1, <3>2
  <2>4. CASE d = n + 1
    <3>1. x.st[d] = f /\ d - 1 = n
      BY <2>4 DEF Entered
    <3> QED
      BY <1>1, <1>2, <1>5, <2>2, <3>1
  <2> QED
    BY <2>1, <2>3, <2>4
<1> QED
  BY <1>1, <1>4, <1>5 DEF Sound

LEMMA EnteredInOrder ==
  ASSUME NEW w \in Walk, NEW x \in Walk, NEW n \in Nat, n >= 1, NEW f \in Frame,
         NEW e \in Entry, Linked(w), InOrder(w), Entered(w, x, n, f, e), e.wrote = {},
         \A g \in Planted(e) \cup f.yes \cup f.no :
           \A j \in 1..Len(w.ev) : Seen(w, j, n) => After(w.ev[j], g)
  PROVE  InOrder(x)
<1>1. /\ Len(w.st) = n /\ Len(x.st) = n + 1 /\ Len(x.ev) = Len(w.ev) + 1
      /\ Len(w.ev) \in Nat /\ x.ev[Len(x.ev)] = e /\ n \in 1..n
      /\ \A i \in 1..Len(w.ev) : x.ev[i] = w.ev[i]
      /\ \A i \in 1..Len(x.ev) : i \in 1..Len(w.ev) \/ i = Len(x.ev)
  BY WalkType DEF Entered
<1>2. /\ \A d \in 1..n, i \in 1..Len(w.ev) : Seen(x, i, d) <=> Seen(w, i, d)
      /\ \A i \in 1..Len(w.ev) : Seen(x, i, n + 1) <=> Seen(w, i, n)
      /\ \A d \in 1..n : ~Seen(x, Len(x.ev), d)
  BY EnteredSight
<1>3. ASSUME NEW i \in 1..Len(x.ev), NEW j \in 1..Len(x.ev), j <= i,
             Seen(x, i, n + 1), Seen(x, j, n + 1), NEW g \in Standing(x.ev[i])
      PROVE  After(x.ev[j], g)
  <2>1. CASE i \in 1..Len(w.ev)
    <3>1. j \in 1..Len(w.ev)
      BY <1>1, <1>3, <2>1
    <3> QED
      BY <1>1, <1>2, <1>3, <2>1, <3>1 DEF InOrder
  <2>2. CASE i = Len(x.ev) /\ j \in 1..Len(w.ev)
    <3>1. g \in Planted(e)
      BY <1>1, <1>3, <2>2 DEF Standing, Planted
    <3> QED
      BY <1>1, <1>2, <1>3, <2>2, <3>1
  <2>3. CASE j = Len(x.ev)
    BY <1>1, <2>3 DEF After
  <2> QED
    BY <1>1, <2>1, <2>2, <2>3
<1>4. ASSUME NEW d \in 2..n + 1, NEW j \in 1..Len(x.ev), Seen(x, j, d - 1),
             NEW g \in x.st[d].yes \cup x.st[d].no
      PROVE  After(x.ev[j], g)
  <2>1. d - 1 \in 1..n /\ (d = n + 1 \/ (d \in 2..n /\ d \in 1..n))
    OBVIOUS
  <2>2. j \in 1..Len(w.ev)
    BY <1>1, <1>2, <1>4, <2>1
  <2>3. Seen(w, j, d - 1) /\ x.ev[j] = w.ev[j]
    BY <1>1, <1>2, <1>4, <2>1, <2>2
  <2>4. CASE d \in 2..n
    <3>1. x.st[d] = w.st[d]
      BY <2>4 DEF Entered
    <3> QED
      BY <1>1, <1>4, <2>2, <2>3, <2>4, <3>1 DEF InOrder
  <2>5. CASE d = n + 1
    <3>1. x.st[d] = f /\ d - 1 = n
      BY <2>5 DEF Entered
    <3> QED
      BY <1>4, <2>2, <2>3, <3>1
  <2> QED
    BY <2>1, <2>4, <2>5
<1> QED
  BY <1>1, <1>3, <1>4 DEF InOrder

LEMMA EnteredWritten ==
  ASSUME NEW w \in Walk, NEW x \in Walk, NEW n \in Nat, n >= 1, NEW f \in Frame,
         NEW e \in Entry, Linked(w), Written(w), Entered(w, x, n, f, e),
         Doubled(w, x, n)
  PROVE  Written(x)
<1>1. /\ Len(w.st) = n /\ Len(x.st) = n + 1 /\ Len(x.ev) = Len(w.ev) + 1
      /\ Len(w.ev) \in Nat /\ n \in 1..n
      /\ \A i \in 1..Len(w.ev) : x.ev[i] = w.ev[i] /\ i \in 1..Len(x.ev)
  BY WalkType DEF Entered
<1>2. /\ \A d \in 1..n, i \in 1..Len(w.ev) : Seen(x, i, d) <=> Seen(w, i, d)
      /\ \A i \in 1..Len(w.ev) : Seen(x, i, n + 1) <=> Seen(w, i, n)
  BY EnteredSight
<1>3. ASSUME NEW d \in 1..n + 1, NEW k \in Key, x.since[d][k] > 0
      PROVE  \E j \in 1..Len(x.ev) :
               /\ Seen(x, j, d) /\ Root[k] \in x.ev[j].wrote
               /\ x.ev[j].at = x.since[d][k]
  <2>1. CASE d \in 1..n
    <3>1. x.since[d] = w.since[d]
      BY <2>1 DEF Doubled
    <3>2. PICK j \in 1..Len(w.ev) :
            Seen(w, j, d) /\ Root[k] \in w.ev[j].wrote /\ w.ev[j].at = w.since[d][k]
      BY <1>1, <1>3, <2>1, <3>1 DEF Written
    <3> QED
      BY <1>1, <1>2, <2>1, <3>1, <3>2
  <2>2. CASE d = n + 1
    <3>1. x.since[d] = w.since[n]
      BY <2>2 DEF Doubled
    <3>2. PICK j \in 1..Len(w.ev) :
            Seen(w, j, n) /\ Root[k] \in w.ev[j].wrote /\ w.ev[j].at = w.since[n][k]
      BY <1>1, <1>3, <3>1 DEF Written
    <3> QED
      BY <1>1, <1>2, <2>2, <3>1, <3>2
  <2> QED
    BY <2>1, <2>2
<1> QED
  BY <1>1, <1>3 DEF Written

\* The facts planted on entry and those of the condition are true where they
\* are to be believed, and take every write in sight into account.
Assumes(w, n, f, e, ck) ==
  /\ e.at <= ck /\ \A g \in Planted(e) \cup f.yes \cup f.no : g.asOf <= ck
  /\ f.taken => \A g \in Planted(e) : Holds(w, n, g)
  /\ w.here[n] => \A g \in Held(f) : Holds(w, n, g)
  /\ Attentive =>
       \A g \in Planted(e) \cup f.yes \cup f.no :
         \A j \in 1..Len(w.ev) : Seen(w, j, n) => After(w.ev[j], g)

Pushed(w, n, f, e, ck) ==
  \E x \in Walk :
    /\ x.ev = Append(w.ev, e) /\ x.pa = Append(w.pa, w.pa[w.cu] \cup {Len(w.pa) + 1})
    /\ x.cu = Len(w.pa) + 1 /\ x.st = Append(w.st, f) /\ x.ck = ck
    /\ x.env[n + 1] = w.env[n] /\ x.since[n + 1] = w.since[n]
    /\ x.here[n + 1] = f.taken
    /\ Consistent(x)

LEMMA PushKeeps ==
  ASSUME NEW w \in Walk, Consistent(w), NEW n \in Nat, n >= 1, n = Len(w.st),
         NEW f \in Frame, f.prev = w.cu, Begins(w, n, f),
         NEW e \in Entry, e.scope = Len(w.pa) + 1, e.wrote = {},
         NEW ck, ck \in {w.ck, w.ck + 1}, Assumes(w, n, f, e, ck)
  PROVE  Pushed(w, n, f, e, ck)
<1> DEFINE new == Len(w.pa) + 1
           pa == Append(w.pa, w.pa[w.cu] \cup {new})
           E == [d \in Nat |-> IF d = n + 1 THEN w.env[n] ELSE w.env[d]]
           T == [d \in Nat |-> IF d = n + 1 THEN w.since[n] ELSE w.since[d]]
           A == [d \in Nat |-> IF d = n + 1 THEN f.taken ELSE w.here[d]]
           x == [ev |-> Append(w.ev, e), pa |-> pa, cu |-> new,
                 st |-> Append(w.st, f), ck |-> ck, env |-> E, since |-> T, here |-> A]
<1>1. /\ w.ev \in Seq(Entry) /\ Len(w.ev) \in Nat /\ ck \in Nat
      /\ w.st \in Seq(Frame) /\ w.pa \in Seq(SUBSET Nat) /\ Len(w.pa) \in Nat
      /\ w.env \in [Nat -> [Key -> Value]] /\ w.since \in [Nat -> [Key -> Nat]]
      /\ w.here \in [Nat -> BOOLEAN]
  <2>1. w.ck \in Nat
    BY WalkType
  <2>2. ck \in Nat
    BY <2>1
  <2> QED
    BY <2>2, WalkType
<1>2. /\ Unwinds(w) /\ Linked(w) /\ Dates(w) /\ Branches(w) /\ Sound(w)
      /\ Attentive => InOrder(w)
      /\ Fragment => Written(w)
  BY DEF Consistent
<1>3. w.pa[w.cu] \in SUBSET Nat /\ new \in Nat
  <2>1. ScopeAt(w, n) = w.cu /\ n \in 1..n
    BY DEF ScopeAt
  <2>2. w.cu \in 1..Len(w.pa)
    BY <1>2, <2>1 DEF Linked
  <2> QED
    BY <1>1, <2>2, ElementOfSeq
<1>4. /\ pa \in Seq(SUBSET Nat) /\ Len(pa) = new
      /\ \A s \in 1..Len(w.pa) : pa[s] = w.pa[s]
      /\ pa[new] = w.pa[w.cu] \cup {new}
  BY <1>1, <1>3
<1>5. /\ Append(w.st, f) \in Seq(Frame) /\ Len(Append(w.st, f)) = n + 1
      /\ \A d \in 1..n : Append(w.st, f)[d] = w.st[d]
      /\ Append(w.st, f)[n + 1] = f
  BY <1>1
<1>6. /\ Append(w.ev, e) \in Seq(Entry) /\ Len(Append(w.ev, e)) = Len(w.ev) + 1
      /\ \A i \in 1..Len(w.ev) : Append(w.ev, e)[i] = w.ev[i]
      /\ Append(w.ev, e)[Len(w.ev) + 1] = e
  BY <1>1, AppendEntry
<1>7. f.taken \in BOOLEAN /\ f.live \in BOOLEAN
  BY DEF Frame
<1>8. E \in [Nat -> [Key -> Value]] /\ T \in [Nat -> [Key -> Nat]] /\ A \in [Nat -> BOOLEAN]
  BY <1>1, <1>7
<1>9. /\ \A d \in 1..n : E[d] = w.env[d] /\ T[d] = w.since[d] /\ A[d] = w.here[d]
      /\ E[n + 1] = w.env[n] /\ T[n + 1] = w.since[n] /\ A[n + 1] = f.taken
  OBVIOUS
<1> HIDE DEF new, pa, E, T, A
<1>10. x \in Walk
  BY <1>1, <1>3, <1>4, <1>5, <1>6, <1>8 DEF Walk
<1>11. /\ x.ev = Append(w.ev, e) /\ x.pa = pa /\ x.cu = new /\ x.st = Append(w.st, f)
       /\ x.ck = ck /\ x.env = E /\ x.since = T /\ x.here = A
  OBVIOUS
<1> HIDE DEF x
<1>12. Entered(w, x, n, f, e)
  <2>1. x.pa[x.cu] = w.pa[w.cu] \cup {x.cu} /\ x.cu = Len(w.pa) + 1 /\ Len(x.pa) = x.cu
    BY <1>4, <1>11 DEF new
  <2>2. \A s \in 1..Len(w.pa) : x.pa[s] = w.pa[s]
    BY <1>4, <1>11
  <2>3. /\ Len(x.ev) = Len(w.ev) + 1 /\ x.ev[Len(x.ev)] = e
        /\ \A i \in 1..Len(w.ev) : x.ev[i] = w.ev[i]
    BY <1>6, <1>11
  <2>4. Len(x.st) = n + 1 /\ x.st[n + 1] = f /\ \A d \in 1..n : x.st[d] = w.st[d]
    BY <1>5, <1>11
  <2>5. x.ck \in {w.ck, w.ck + 1}
    BY <1>11
  <2> QED
    BY <2>1, <2>2, <2>3, <2>4, <2>5 DEF Entered
<1>13. Doubled(w, x, n)
  BY <1>9, <1>11 DEF Doubled
<1>14. x.here[n + 1] = f.taken
  BY <1>9, <1>11
<1>15. Unwinds(x)
  <2>1. Len(w.st) = n /\ Len(x.st) = n + 1 /\ x.st[n + 1] = f
        /\ \A d \in 1..n : x.st[d] = w.st[d]
    BY <1>5, <1>11
  <2>2. /\ \A d \in 1..n + 1 : d = n + 1 \/ d \in 1..n
        /\ \A d \in 2..n + 1 : d = n + 1 \/ (d \in 2..n /\ d \in 1..n)
        /\ \A d \in 2..n + 1 : d - 1 \in 1..n
        /\ (n + 1) - 1 = n /\ n \in 1..n
    OBVIOUS
  <2>3. x.here[n + 1] = x.st[n + 1].live
    BY <1>14, <2>1 DEF Begins
  <2>4. \A d \in 1..n + 1 : x.here[d] => x.st[d].live
    BY <1>2, <1>13, <2>1, <2>2, <2>3 DEF Unwinds, Doubled
  <2>5. ASSUME NEW d \in 2..n + 1
        PROVE  x.here[d - 1] = IF x.st[d].taken THEN x.here[d] ELSE x.st[d - 1].live
    <3>1. x.here[d - 1] = w.here[d - 1] /\ x.st[d - 1] = w.st[d - 1]
      BY <1>13, <2>1, <2>2 DEF Doubled
    <3>2. CASE d \in 2..n
      <4>1. x.here[d] = w.here[d] /\ x.st[d] = w.st[d]
        BY <1>13, <2>1, <2>2, <3>2 DEF Doubled
      <4> QED
        BY <1>2, <2>1, <3>1, <3>2, <4>1 DEF Unwinds
    <3>3. CASE d = n + 1
      <4>1. w.here[n] = w.st[n].live /\ (f.taken => w.here[n])
        BY <1>2, <2>1 DEF Unwinds, Begins
      <4>2. w.here[n] \in BOOLEAN
        BY <1>1
      <4> QED
        BY <1>14, <2>1, <2>2, <3>1, <3>3, <4>1, <4>2
    <3> QED
      BY <2>2, <3>2, <3>3
  <2>6. ASSUME NEW d \in 2..n + 1, NEW k \in Key
        PROVE  IF Root[k] \in x.st[d].declared
               THEN /\ x.env[d - 1][k] = x.st[d].outerEnv[k]
                    /\ x.since[d - 1][k] = x.st[d].outerTouched[k]
               ELSE /\ x.env[d - 1][k] = x.env[d][k]
                    /\ x.since[d - 1][k] = x.since[d][k]
    <3>1. x.env[d - 1] = w.env[d - 1] /\ x.since[d - 1] = w.since[d - 1]
      BY <1>13, <2>2 DEF Doubled
    <3>2. CASE d \in 2..n
      <4>1. x.env[d] = w.env[d] /\ x.since[d] = w.since[d] /\ x.st[d] = w.st[d]
        BY <1>13, <2>1, <2>2, <3>2 DEF Doubled
      <4> QED
        BY <1>2, <2>1, <3>1, <3>2, <4>1 DEF Unwinds
    <3>3. CASE d = n + 1
      <4>1. x.st[d].declared = {} /\ x.env[d] = w.env[n] /\ x.since[d] = w.since[n]
            /\ d - 1 = n
        BY <1>13, <2>1, <2>2, <3>3 DEF Begins, Doubled
      <4> QED
        BY <3>1, <4>1
    <3> QED
      BY <2>2, <3>2, <3>3
  <2> QED
    BY <2>1, <2>3, <2>4, <2>5, <2>6 DEF Unwinds
<1>16. Linked(x)
  BY <1>2, <1>10, <1>12, EnteredLinked
<1>17. Dates(x)
  BY <1>2, <1>11, <1>10, <1>12, EnteredDates DEF Assumes
<1>18. Branches(x)
  <2>1. Len(w.st) = n /\ Len(x.st) = n + 1 /\ x.st[n + 1] = f
        /\ \A d \in 1..n : x.st[d] = w.st[d] /\ x.here[d] = w.here[d]
    BY <1>12, <1>13 DEF Entered, Doubled
  <2>2. /\ \A d \in 1..n + 1 : d = n + 1 \/ d \in 1..n
        /\ \A d \in 2..n + 1 : d = n + 1 \/ (d \in 2..n /\ d \in 1..n)
        /\ \A d \in 2..n + 1 : d - 1 \in 1..n
        /\ (n + 1) - 1 = n
    OBVIOUS
  <2>3. \A d \in 1..n + 1 : x.st[d].escapes => ~x.st[d].live
    BY <1>2, <2>1, <2>2 DEF Branches, Begins
  <2>4. ASSUME NEW d \in 2..n + 1, x.st[d].kind \in {"else", "elseif"},
               x.st[d].before, x.here[d - 1]
        PROVE  x.st[d].taken
    <3>1. w.here[d - 1]
      BY <2>1, <2>2, <2>4
    <3>2. CASE d \in 2..n
      <4>1. x.st[d] = w.st[d]
        BY <2>1, <2>2, <3>2
      <4> QED
        BY <1>2, <2>1, <2>4, <3>1, <3>2, <4>1 DEF Branches
    <3>3. CASE d = n + 1
      BY <2>1, <2>2, <2>4, <3>1, <3>3 DEF Begins
    <3> QED
      BY <2>2, <3>2, <3>3
  <2> QED
    BY <2>1, <2>3, <2>4 DEF Branches
<1>19. Sound(x)
  BY <1>2, <1>10, <1>12, <1>13, <1>14, EnteredSound DEF Assumes, Begins
<1>20. Attentive => InOrder(x)
  BY <1>2, <1>10, <1>12, EnteredInOrder DEF Assumes
<1>21. Fragment => Written(x)
  BY <1>2, <1>10, <1>12, <1>13, EnteredWritten
<1>22. Consistent(x)
  BY <1>15, <1>16, <1>17, <1>18, <1>19, <1>20, <1>21 DEF Consistent
<1>23. x.env[n + 1] = w.env[n] /\ x.since[n + 1] = w.since[n]
  BY <1>13 DEF Doubled
<1> QED
  BY <1>10, <1>11, <1>14, <1>22, <1>23 DEF Pushed, pa, new

-----------------------------------------------------------------------------
(* Closing a branch.                                                       *)

\* Frame f is frame g once the branch inside it has ended.
Rejoins(g, f, here) ==
  /\ SameBranch(f, g) /\ f.escapes = g.escapes /\ f.declared = g.declared
  /\ f.outerEnv = g.outerEnv /\ f.outerTouched = g.outerTouched
  /\ f.live = here

\* The walk leaves frame n and records e, or nothing, in the scope around it.
Left(w, x, n, e) ==
  /\ Len(w.st) = n /\ Len(x.st) = n - 1
  /\ \A d \in 1..n - 2 : x.st[d] = w.st[d]
  /\ Rejoins(w.st[n - 1], x.st[n - 1], w.here[n - 1])
  /\ x.cu = w.st[n].prev /\ x.pa = w.pa /\ x.ck = w.ck
  /\ x.env = w.env /\ x.since = w.since /\ x.here = w.here
  /\ e.scope = x.cu /\ Grows(w, x, e)

\* What survives is part of the condition's facts, and was held.
Recovers(w, n, e) ==
  /\ e.wrote = {} /\ e.at = 0
  /\ Planted(e) \subseteq w.st[n].yes \cup w.st[n].no
  /\ w.here[n - 1] => Planted(e) \subseteq Held(w.st[n])

LEMMA LeftSight ==
  ASSUME NEW w \in Walk, NEW x \in Walk, NEW n \in Nat, n >= 2, NEW e \in Entry,
         Linked(w), Left(w, x, n, e)
  PROVE  /\ \A d \in 1..n - 1 : ScopeAt(x, d) = ScopeAt(w, d)
         /\ x.cu = ScopeAt(w, n - 1)
         /\ \A d \in 1..n - 1, i \in 1..Len(w.ev) : Seen(x, i, d) <=> Seen(w, i, d)
         /\ \A i \in 1..Len(w.ev) : Seen(w, i, n - 1) => Seen(w, i, n)
         /\ \A d \in 1..n - 1, i \in 1..Len(x.ev) :
              i \notin 1..Len(w.ev) =>
                x.ev[i] = e /\ i = Len(x.ev) /\ (Seen(x, i, d) <=> d = n - 1)
<1>1. /\ Len(w.st) = n /\ Len(x.st) = n - 1 /\ x.pa = w.pa
      /\ x.cu = w.st[n].prev /\ e.scope = x.cu
  BY DEF Left
<1>2. /\ n - 1 \in 1..n - 1 /\ n - 1 \in 1..n /\ n \in 1..n /\ n - 1 < n
      /\ \A d \in 1..n - 1 : d \in 1..n /\ d # n /\ (d # n - 1 => d < n - 1)
      /\ (n - 1) + 1 = n
  OBVIOUS
<1>3. x.cu = ScopeAt(w, n - 1)
  BY <1>1, <1>2 DEF ScopeAt
<1>4. \A d \in 1..n - 1 : ScopeAt(x, d) = ScopeAt(w, d)
  <2> TAKE d \in 1..n - 1
  <2>1. CASE d = n - 1
    BY <1>1, <1>3, <2>1 DEF ScopeAt
  <2>2. CASE d # n - 1
    <3>1. d + 1 \in 1..n - 1 /\ (d + 1 # n - 1 => d + 1 \in 1..n - 2)
      BY <2>2
    <3>2. x.st[d + 1].prev = w.st[d + 1].prev
      BY <3>1 DEF Left, Rejoins, SameBranch
    <3> QED
      BY <1>1, <1>2, <2>2, <3>2 DEF ScopeAt
  <2> QED
    BY <2>1, <2>2
<1>5. \A i \in 1..Len(w.ev) : x.ev[i] = w.ev[i]
  BY DEF Left, Grows
<1>6. \A d \in 1..n - 1, i \in 1..Len(w.ev) : Seen(x, i, d) <=> Seen(w, i, d)
  BY <1>1, <1>4, <1>5 DEF Seen
<1>7. w.pa[ScopeAt(w, n - 1)] \subseteq w.pa[ScopeAt(w, n)]
  BY <1>1, <1>2 DEF Linked
<1>8. \A i \in 1..Len(w.ev) : Seen(w, i, n - 1) => Seen(w, i, n)
  BY <1>7 DEF Seen
<1>9. \A d \in 1..n - 1 : x.cu \in w.pa[ScopeAt(w, d)] <=> d = n - 1
  <2> TAKE d \in 1..n - 1
  <2>1. x.cu \in 1..Len(w.pa) /\ x.cu \in w.pa[x.cu]
    BY <1>1, <1>2, <1>3 DEF Linked
  <2>2. d < n - 1 => x.cu \notin w.pa[ScopeAt(w, d)]
    BY <1>1, <1>2, <1>3 DEF Linked
  <2> QED
    BY <1>2, <1>3, <2>1, <2>2
<1>10. \A d \in 1..n - 1, i \in 1..Len(x.ev) :
         i \notin 1..Len(w.ev) =>
           x.ev[i] = e /\ i = Len(x.ev) /\ (Seen(x, i, d) <=> d = n - 1)
  BY <1>1, <1>4, <1>9 DEF Seen, Left, Grows
<1> QED
  BY <1>3, <1>4, <1>6, <1>8, <1>10

LEMMA LeftUnwinds ==
  ASSUME NEW w \in Walk, NEW x \in Walk, NEW n \in Nat, n >= 2, NEW e \in Entry,
         Unwinds(w), Left(w, x, n, e)
  PROVE  Unwinds(x)
<1>1. /\ Len(w.st) = n /\ Len(x.st) = n - 1
      /\ x.env = w.env /\ x.since = w.since /\ x.here = w.here
      /\ x.st[n - 1].live = w.here[n - 1]
  BY DEF Left, Rejoins
<1>2. /\ \A d \in 1..n - 1 : d = n - 1 \/ d \in 1..n - 2
      /\ \A d \in 1..n - 1 : d \in 1..n
      /\ \A d \in 2..n - 1 : d \in 2..n /\ d \in 1..n - 1 /\ d - 1 \in 1..n - 2
  OBVIOUS
<1>3. \A d \in 1..n - 1 : x.here[d] => x.st[d].live
  BY <1>1, <1>2 DEF Unwinds, Left
<1>4. ASSUME NEW d \in 2..n - 1
      PROVE  /\ x.here[d - 1] = IF x.st[d].taken THEN x.here[d] ELSE x.st[d - 1].live
             /\ \A k \in Key :
                  IF Root[k] \in x.st[d].declared
                  THEN /\ x.env[d - 1][k] = x.st[d].outerEnv[k]
                       /\ x.since[d - 1][k] = x.st[d].outerTouched[k]
                  ELSE /\ x.env[d - 1][k] = x.env[d][k]
                       /\ x.since[d - 1][k] = x.since[d][k]
  <2>1. x.st[d - 1] = w.st[d - 1]
    BY <1>2 DEF Left
  <2>2. /\ x.st[d].taken = w.st[d].taken /\ x.st[d].declared = w.st[d].declared
        /\ x.st[d].outerEnv = w.st[d].outerEnv
        /\ x.st[d].outerTouched = w.st[d].outerTouched
    BY <1>2 DEF Left, Rejoins, SameBranch
  <2> QED
    BY <1>1, <1>2, <2>1, <2>2 DEF Unwinds
<1> QED
  BY <1>1, <1>3, <1>4 DEF Unwinds

LEMMA LeftLinked ==
  ASSUME NEW w \in Walk, NEW x \in Walk, NEW n \in Nat, n >= 2, NEW e \in Entry,
         Linked(w), Left(w, x, n, e)
  PROVE  Linked(x)
<1>1. /\ \A d \in 1..n - 1 : ScopeAt(x, d) = ScopeAt(w, d)
      /\ x.cu = ScopeAt(w, n - 1)
      /\ \A i \in 1..Len(x.ev) : i \notin 1..Len(w.ev) => x.ev[i] = e
  BY LeftSight DEF Left, Grows
<1>2. Len(w.st) = n /\ Len(x.st) = n - 1 /\ x.pa = w.pa /\ e.scope = x.cu
  BY DEF Left
<1>3. n - 1 \in 1..n /\ \A d \in 1..n - 1 : d \in 1..n
  OBVIOUS
<1>4. e.scope \in 1..Len(w.pa)
  BY <1>1, <1>2, <1>3 DEF Linked
<1>5. \A i \in 1..Len(x.ev) : x.ev[i].scope \in 1..Len(x.pa)
  BY <1>1, <1>2, <1>4 DEF Linked, Left, Grows
<1>6. \A d \in 1..n - 1 : ScopeAt(x, d) \in 1..Len(x.pa)
  BY <1>1, <1>2, <1>3 DEF Linked
<1>7. \A c, d \in 1..n - 1 :
        c < d => /\ x.pa[ScopeAt(x, c)] \subseteq x.pa[ScopeAt(x, d)]
                 /\ ScopeAt(x, d) \notin x.pa[ScopeAt(x, c)]
  BY <1>1, <1>2, <1>3 DEF Linked
<1> QED
  BY <1>2, <1>5, <1>6, <1>7 DEF Linked

LEMMA LeftDates ==
  ASSUME NEW w \in Walk, NEW x \in Walk, NEW n \in Nat, n >= 2, NEW e \in Entry,
         Dates(w), Left(w, x, n, e), Recovers(w, n, e)
  PROVE  Dates(x)
<1>1. /\ Len(w.st) = n /\ Len(x.st) = n - 1 /\ x.ck = w.ck /\ w.ck \in Nat /\ n \in 1..n
  BY WalkType DEF Left
<1>2. e.at <= w.ck /\ \A f \in Planted(e) : f.asOf <= w.ck
  <2>1. \A m \in Nat : 0 <= m
    OBVIOUS
  <2>2. \A f \in w.st[n].yes \cup w.st[n].no : f.asOf <= w.ck
    BY <1>1 DEF Dates
  <2> QED
    BY <1>1, <2>1, <2>2 DEF Recovers
<1>3. \A i \in 1..Len(x.ev) :
        x.ev[i].at <= x.ck /\ \A f \in Planted(x.ev[i]) : f.asOf <= x.ck
  BY <1>1, <1>2 DEF Dates, Left, Grows
<1>4. ASSUME NEW d \in 1..n - 1
      PROVE  \A f \in x.st[d].yes \cup x.st[d].no : f.asOf <= x.ck
  <2>1. d \in 1..n /\ (d = n - 1 \/ d \in 1..n - 2)
    OBVIOUS
  <2>2. x.st[d].yes = w.st[d].yes /\ x.st[d].no = w.st[d].no
    BY <2>1 DEF Left, Rejoins, SameBranch
  <2> QED
    BY <1>1, <2>1, <2>2 DEF Dates
<1> QED
  BY <1>1, <1>3, <1>4 DEF Dates

LEMMA LeftBranches ==
  ASSUME NEW w \in Walk, NEW x \in Walk, NEW n \in Nat, n >= 2, NEW e \in Entry,
         Unwinds(w), Branches(w), Left(w, x, n, e)
  PROVE  Branches(x)
<1>1. Len(w.st) = n /\ Len(x.st) = n - 1 /\ x.here = w.here
  BY DEF Left
<1>2. /\ \A d \in 1..n - 1 : d \in 1..n /\ (d = n - 1 \/ d \in 1..n - 2)
      /\ \A d \in 2..n - 1 : d \in 2..n /\ d \in 1..n - 1
  OBVIOUS
<1>3. \A d \in 1..n - 1 : SameBranch(x.st[d], w.st[d]) /\ x.st[d].escapes = w.st[d].escapes
  BY <1>2 DEF Left, Rejoins, SameBranch
<1>4. ASSUME NEW d \in 1..n - 1, x.st[d].escapes
      PROVE  ~x.st[d].live
  <2>1. ~w.st[d].live
    BY <1>1, <1>2, <1>3, <1>4 DEF Branches
  <2>2. CASE d = n - 1
    <3>1. ~w.here[d]
      BY <1>1, <1>2, <2>1 DEF Unwinds
    <3> QED
      BY <2>2, <3>1 DEF Left, Rejoins
  <2>3. CASE d \in 1..n - 2
    BY <2>1, <2>3 DEF Left
  <2> QED
    BY <1>2, <2>2, <2>3
<1>5. \A d \in 2..n - 1 :
        x.st[d].kind \in {"else", "elseif"} /\ x.st[d].before /\ x.here[d - 1]
          => x.st[d].taken
  BY <1>1, <1>2, <1>3 DEF Branches, SameBranch
<1> QED
  BY <1>1, <1>4, <1>5 DEF Branches

LEMMA LeftSound ==
  ASSUME NEW w \in Walk, NEW x \in Walk, NEW n \in Nat, n >= 2, NEW e \in Entry,
         Linked(w), Sound(w), Left(w, x, n, e), Recovers(w, n, e)
  PROVE  Sound(x)
<1>1. /\ Len(w.st) = n /\ Len(x.st) = n - 1
      /\ x.here = w.here /\ x.env = w.env /\ x.since = w.since
  BY DEF Left
<1>2. /\ \A d \in 1..n - 1 : d \in 1..n /\ (d = n - 1 \/ d \in 1..n - 2)
      /\ \A d \in 2..n - 1 : d \in 2..n /\ d \in 1..n - 1
      /\ n \in 2..n
  OBVIOUS
<1>3. \A d, f : Holds(x, d, f) <=> Holds(w, d, f)
  BY <1>1 DEF Holds
<1>4. ASSUME NEW d \in 1..n - 1, x.here[d], NEW i \in 1..Len(x.ev), Seen(x, i, d),
             NEW f \in Planted(x.ev[i])
      PROVE  Holds(x, d, f)
  <2>1. CASE i \in 1..Len(w.ev)
    <3>1. Seen(w, i, d) /\ x.ev[i] = w.ev[i]
      BY <1>4, <2>1, LeftSight DEF Left, Grows
    <3> QED
      BY <1>1, <1>2, <1>3, <1>4, <2>1, <3>1 DEF Sound
  <2>2. CASE i \notin 1..Len(w.ev)
    <3>1. x.ev[i] = e /\ d = n - 1
      BY <1>4, <2>2, LeftSight
    <3>2. w.here[n - 1] /\ f \in Held(w.st[n])
      BY <1>1, <1>4, <3>1 DEF Recovers
    <3> QED
      BY <1>1, <1>2, <1>3, <3>1, <3>2 DEF Sound
  <2> QED
    BY <2>1, <2>2
<1>5. ASSUME NEW d \in 2..n - 1, x.here[d - 1], NEW f \in Held(x.st[d])
      PROVE  Holds(x, d - 1, f)
  <2>1. Held(x.st[d]) = Held(w.st[d])
    BY <1>2 DEF Held, Left, Rejoins, SameBranch
  <2> QED
    BY <1>1, <1>2, <1>3, <1>5, <2>1 DEF Sound
<1> QED
  BY <1>1, <1>4, <1>5 DEF Sound

LEMMA LeftInOrder ==
  ASSUME NEW w \in Walk, NEW x \in Walk, NEW n \in Nat, n >= 2, NEW e \in Entry,
         Linked(w), InOrder(w), Left(w, x, n, e), Recovers(w, n, e)
  PROVE  InOrder(x)
<1>1. /\ Len(w.st) = n /\ Len(x.st) = n - 1 /\ e.wrote = {}
      /\ Len(w.ev) \in Nat /\ Len(x.ev) \in Nat
      /\ \A i \in 1..Len(w.ev) : x.ev[i] = w.ev[i]
  BY WalkType DEF Left, Grows, Recovers
<1>2. /\ \A d \in 1..n - 1 : d \in 1..n /\ (d = n - 1 \/ d \in 1..n - 2)
      /\ \A d \in 2..n - 1 : d \in 2..n /\ d \in 1..n - 1 /\ d - 1 \in 1..n - 1 /\ d - 1 # n - 1
      /\ n \in 2..n /\ n - 1 \in 1..n - 1
  OBVIOUS
<1>3. /\ \A d \in 1..n - 1, i \in 1..Len(w.ev) : Seen(x, i, d) <=> Seen(w, i, d)
      /\ \A i \in 1..Len(w.ev) : Seen(w, i, n - 1) => Seen(w, i, n)
      /\ \A d \in 1..n - 1, i \in 1..Len(x.ev) :
           i \notin 1..Len(w.ev) => x.ev[i] = e /\ (Seen(x, i, d) <=> d = n - 1)
  BY LeftSight
<1>4. ASSUME NEW i \in 1..Len(x.ev), NEW j \in 1..Len(x.ev), j <= i,
             Seen(x, i, n - 1), Seen(x, j, n - 1), NEW f \in Standing(x.ev[i])
      PROVE  After(x.ev[j], f)
  <2>1. CASE i \in 1..Len(w.ev)
    <3>1. j \in 1..Len(w.ev)
      BY <1>1, <1>4, <2>1
    <3>2. Seen(w, i, n) /\ Seen(w, j, n)
      BY <1>2, <1>3, <1>4, <2>1, <3>1
    <3> QED
      BY <1>1, <1>4, <2>1, <3>1, <3>2 DEF InOrder
  <2>2. CASE i \notin 1..Len(w.ev) /\ j \in 1..Len(w.ev)
    <3>1. f \in Planted(e)
      BY <1>2, <1>3, <1>4, <2>2 DEF Standing, Planted
    <3>2. f \in w.st[n].yes \cup w.st[n].no
      BY <3>1 DEF Recovers
    <3>3. Seen(w, j, n - 1)
      BY <1>2, <1>3, <1>4, <2>2
    <3> QED
      BY <1>1, <1>2, <2>2, <3>2, <3>3 DEF InOrder
  <2>3. CASE j \notin 1..Len(w.ev)
    <3>1. x.ev[j] = e
      BY <1>2, <1>3, <2>3
    <3> QED
      BY <1>1, <3>1 DEF After
  <2> QED
    BY <2>1, <2>2, <2>3
<1>5. ASSUME NEW d \in 2..n - 1, NEW j \in 1..Len(x.ev), Seen(x, j, d - 1),
             NEW f \in x.st[d].yes \cup x.st[d].no
      PROVE  After(x.ev[j], f)
  <2>1. x.st[d].yes = w.st[d].yes /\ x.st[d].no = w.st[d].no
    BY <1>2 DEF Left, Rejoins, SameBranch
  <2>2. j \in 1..Len(w.ev)
    BY <1>2, <1>3, <1>5
  <2>3. Seen(w, j, d - 1) /\ x.ev[j] = w.ev[j]
    BY <1>1, <1>2, <1>3, <1>5, <2>2
  <2> QED
    BY <1>1, <1>2, <1>5, <2>1, <2>2, <2>3 DEF InOrder
<1> QED
  BY <1>1, <1>4, <1>5 DEF InOrder

LEMMA LeftWritten ==
  ASSUME NEW w \in Walk, NEW x \in Walk, NEW n \in Nat, n >= 2, NEW e \in Entry,
         Linked(w), Written(w), Left(w, x, n, e)
  PROVE  Written(x)
<1>1. /\ Len(w.st) = n /\ Len(x.st) = n - 1 /\ x.since = w.since
      /\ Len(w.ev) \in Nat /\ Len(x.ev) \in {Len(w.ev), Len(w.ev) + 1}
      /\ \A i \in 1..Len(w.ev) : x.ev[i] = w.ev[i]
  BY WalkType DEF Left, Grows
<1>2. \A i \in 1..Len(w.ev) : i \in 1..Len(x.ev)
  BY <1>1
<1>3. \A d \in 1..n - 1, i \in 1..Len(w.ev) : Seen(x, i, d) <=> Seen(w, i, d)
  BY LeftSight
<1>4. \A d \in 1..n - 1 : d \in 1..n
  OBVIOUS
<1>5. ASSUME NEW d \in 1..n - 1, NEW k \in Key, x.since[d][k] > 0
      PROVE  \E j \in 1..Len(x.ev) :
               /\ Seen(x, j, d) /\ Root[k] \in x.ev[j].wrote
               /\ x.ev[j].at = x.since[d][k]
  <2>1. PICK j \in 1..Len(w.ev) :
          Seen(w, j, d) /\ Root[k] \in w.ev[j].wrote /\ w.ev[j].at = w.since[d][k]
    BY <1>1, <1>4, <1>5 DEF Written
  <2> QED
    BY <1>1, <1>2, <1>3, <2>1
<1> QED
  BY <1>1, <1>5 DEF Written

Unwound(w, n, s, ev) ==
  \E x \in Walk :
    /\ x.ev = ev /\ x.pa = w.pa /\ x.cu = w.st[n].prev /\ x.st = s /\ x.ck = w.ck
    /\ x.env = w.env /\ x.since = w.since /\ x.here = w.here
    /\ Consistent(x)

LEMMA PopKeeps ==
  ASSUME NEW w \in Walk, Consistent(w), NEW n \in Nat, n >= 2, n = Len(w.st),
         NEW s \in Seq(Frame), Len(s) = n - 1, \A d \in 1..n - 2 : s[d] = w.st[d],
         Rejoins(w.st[n - 1], s[n - 1], w.here[n - 1]),
         NEW e \in Entry, e.scope = w.st[n].prev, Recovers(w, n, e),
         NEW ev, ev \in {w.ev, Append(w.ev, e)}
  PROVE  Unwound(w, n, s, ev)
<1> DEFINE x == [ev |-> ev, pa |-> w.pa, cu |-> w.st[n].prev, st |-> s, ck |-> w.ck,
                 env |-> w.env, since |-> w.since, here |-> w.here]
<1>1. /\ w.ev \in Seq(Entry) /\ Len(w.ev) \in Nat /\ w.ck \in Nat
      /\ w.pa \in Seq(SUBSET Nat)
      /\ w.env \in [Nat -> [Key -> Value]] /\ w.since \in [Nat -> [Key -> Nat]]
      /\ w.here \in [Nat -> BOOLEAN]
  BY WalkType
<1>2. /\ Unwinds(w) /\ Linked(w) /\ Dates(w) /\ Branches(w) /\ Sound(w)
      /\ Attentive => InOrder(w)
      /\ Fragment => Written(w)
  BY DEF Consistent
<1>3. w.st[n].prev \in Nat
  <2>1. n \in 1..n
    OBVIOUS
  <2>2. w.st[n] \in Frame
    BY <2>1, WalkType
  <2> QED
    BY <2>2 DEF Frame
<1>4. ev \in Seq(Entry)
  <2>1. Append(w.ev, e) \in Seq(Entry)
    BY <1>1, AppendEntry
  <2> QED
    BY <1>1, <2>1
<1>5. x \in Walk
  BY <1>1, <1>3, <1>4 DEF Walk
<1>6. /\ x.ev = ev /\ x.pa = w.pa /\ x.cu = w.st[n].prev /\ x.st = s /\ x.ck = w.ck
      /\ x.env = w.env /\ x.since = w.since /\ x.here = w.here
  OBVIOUS
<1> HIDE DEF x
<1>7. Grows(w, x, e)
  BY <1>6, GrowsType
<1>8. Left(w, x, n, e)
  BY <1>6, <1>7 DEF Left
<1>9. Consistent(x)
  BY <1>2, <1>5, <1>8, LeftUnwinds, LeftLinked, LeftDates, LeftBranches, LeftSound,
     LeftInOrder, LeftWritten
  DEF Consistent
<1> QED
  BY <1>5, <1>6, <1>9 DEF Unwound

-----------------------------------------------------------------------------
(* A scope on the side.                                                    *)

\* A call's result is checked in a scope of its own, which no level sees.
Aside(w, e) ==
  \E x \in Walk :
    /\ x.ev = Append(w.ev, e) /\ x.pa = Append(w.pa, w.pa[w.cu] \cup {Len(w.pa) + 1})
    /\ x.cu = w.cu /\ x.st = w.st /\ x.ck = w.ck + 1
    /\ x.env = w.env /\ x.since = w.since /\ x.here = w.here
    /\ Consistent(x)

LEMMA AsideKeeps ==
  ASSUME NEW w \in Walk, Consistent(w), Len(w.st) >= 1,
         NEW e \in Entry, e.scope = Len(w.pa) + 1,
         e.at <= w.ck, \A f \in Planted(e) : f.asOf <= w.ck
  PROVE  Aside(w, e)
<1> DEFINE n   == Len(w.st)
           new == Len(w.pa) + 1
           pa  == Append(w.pa, w.pa[w.cu] \cup {new})
           x   == [ev |-> Append(w.ev, e), pa |-> pa, cu |-> w.cu, st |-> w.st,
                   ck |-> w.ck + 1,
                   env |-> w.env, since |-> w.since, here |-> w.here]
<1>1. /\ w.ev \in Seq(Entry) /\ Len(w.ev) \in Nat /\ w.ck \in Nat /\ w.ck + 1 \in Nat
      /\ w.st \in Seq(Frame) /\ n \in Nat /\ n \in 1..n
      /\ w.pa \in Seq(SUBSET Nat) /\ Len(w.pa) \in Nat /\ w.cu \in Nat
      /\ w.env \in [Nat -> [Key -> Value]] /\ w.since \in [Nat -> [Key -> Nat]]
      /\ w.here \in [Nat -> BOOLEAN]
  <2>1. w.ck \in Nat /\ Len(w.st) \in Nat
    BY WalkType
  <2>2. w.ck + 1 \in Nat /\ n \in 1..n
    BY <2>1
  <2> QED
    BY <2>2, WalkType
<1>2. /\ Unwinds(w) /\ Linked(w) /\ Dates(w) /\ Branches(w) /\ Sound(w)
      /\ Attentive => InOrder(w)
      /\ Fragment => Written(w)
  BY DEF Consistent
<1>3. w.cu \in 1..Len(w.pa) /\ \A d \in 1..n : ScopeAt(w, d) \in 1..Len(w.pa)
  BY <1>1, <1>2 DEF Linked, ScopeAt
<1>4. w.pa[w.cu] \in SUBSET Nat /\ new \in Nat
  BY <1>1, <1>3, ElementOfSeq
<1>5. /\ pa \in Seq(SUBSET Nat) /\ Len(pa) = new
      /\ \A s \in 1..Len(w.pa) : pa[s] = w.pa[s]
      /\ pa[new] = w.pa[w.cu] \cup {new}
  BY <1>1, <1>4
<1>6. /\ Append(w.ev, e) \in Seq(Entry) /\ Len(Append(w.ev, e)) = Len(w.ev) + 1
      /\ \A i \in 1..Len(w.ev) : Append(w.ev, e)[i] = w.ev[i]
      /\ Append(w.ev, e)[Len(w.ev) + 1] = e
  BY <1>1, AppendEntry
<1>7. /\ 1..Len(w.pa) \subseteq 1..new /\ new \in 1..new /\ new \notin 1..Len(w.pa)
      /\ \A s \in 1..new : s \in 1..Len(w.pa) \/ s = new
      /\ \A i \in 1..Len(w.ev) + 1 : i \in 1..Len(w.ev) \/ i = Len(w.ev) + 1
      /\ 1..Len(w.ev) \subseteq 1..Len(w.ev) + 1
  BY <1>1, OneMore
<1> HIDE DEF new, pa
<1>8. x \in Walk
  BY <1>1, <1>5, <1>6 DEF Walk
<1>9. /\ x.ev = Append(w.ev, e) /\ x.pa = pa /\ x.cu = w.cu /\ x.st = w.st
      /\ x.ck = w.ck + 1 /\ x.env = w.env /\ x.since = w.since /\ x.here = w.here
  OBVIOUS
<1> HIDE DEF x
<1>10. \A d \in 1..n : ScopeAt(x, d) = ScopeAt(w, d)
                       /\ x.pa[ScopeAt(x, d)] = w.pa[ScopeAt(w, d)]
  <2>1. \A d : ScopeAt(x, d) = ScopeAt(w, d)
    BY <1>9 DEF ScopeAt
  <2> QED
    BY <1>3, <1>5, <1>9, <2>1
<1>11. \A s \in 1..Len(w.pa) : s \in w.pa[s] /\ w.pa[s] \subseteq 1..Len(w.pa)
  BY <1>2 DEF Linked
<1>12. /\ \A d \in 1..n, i \in 1..Len(w.ev) : Seen(x, i, d) <=> Seen(w, i, d)
       /\ \A d \in 1..n : ~Seen(x, Len(w.ev) + 1, d)
  <2>1. \A d \in 1..n : new \notin x.pa[ScopeAt(x, d)]
    BY <1>3, <1>7, <1>10, <1>11
  <2>2. x.ev[Len(w.ev) + 1].scope = new
    BY <1>6, <1>9 DEF new
  <2> QED
    BY <1>6, <1>9, <1>10, <2>1, <2>2 DEF Seen
<1>13. \A d \in 1..n, i \in 1..Len(x.ev) : Seen(x, i, d) =>
         i \in 1..Len(w.ev) /\ x.ev[i] = w.ev[i] /\ Seen(w, i, d)
  BY <1>6, <1>7, <1>9, <1>12
<1>14. Unwinds(x)
  <2>1. /\ x.st = w.st /\ x.here = w.here /\ x.env = w.env /\ x.since = w.since
        /\ Unwinds(w)
    BY <1>2, <1>9
  <2> QED
    BY <2>1 DEF Unwinds
<1>15. Linked(x)
  <2>1. \A s \in 1..Len(x.pa) : s \in x.pa[s] /\ x.pa[s] \subseteq 1..Len(x.pa)
    BY <1>3, <1>5, <1>7, <1>9, <1>11
  <2>2. \A i \in 1..Len(x.ev) : x.ev[i].scope \in 1..Len(x.pa)
    BY <1>2, <1>5, <1>6, <1>7, <1>9 DEF Linked, new
  <2>3. \A d \in 1..n : ScopeAt(x, d) \in 1..Len(x.pa)
    BY <1>3, <1>5, <1>7, <1>9, <1>10
  <2>4. \A c, d \in 1..n :
          c < d => /\ x.pa[ScopeAt(x, c)] \subseteq x.pa[ScopeAt(x, d)]
                   /\ ScopeAt(x, d) \notin x.pa[ScopeAt(x, c)]
    BY <1>2, <1>10 DEF Linked
  <2> QED
    BY <1>9, <2>1, <2>2, <2>3, <2>4 DEF Linked
<1>16. Dates(x)
  <2>1. \A m \in Nat : m <= w.ck => m <= x.ck
    BY <1>1, <1>9
  <2>2. ASSUME NEW c \in Entry, c.at <= w.ck, \A f \in Planted(c) : f.asOf <= w.ck
        PROVE  c.at <= x.ck /\ \A f \in Planted(c) : f.asOf <= x.ck
    <3>1. c.at \in Nat /\ \A f \in Planted(c) : f.asOf \in Nat
      BY DEF Entry, Planted, DatedFact
    <3> QED
      BY <2>1, <2>2, <3>1
  <2>3. \A i \in 1..Len(x.ev) :
          x.ev[i].at <= x.ck /\ \A f \in Planted(x.ev[i]) : f.asOf <= x.ck
    <3>1. \A i \in 1..Len(w.ev) : w.ev[i] \in Entry
      BY WalkType
    <3> QED
      BY <1>2, <1>6, <1>7, <1>9, <2>2, <3>1 DEF Dates
  <2>4. ASSUME NEW d \in 1..n
        PROVE  \A f \in w.st[d].yes \cup w.st[d].no : f.asOf <= x.ck
    <3>1. w.st[d] \in Frame
      BY WalkType
    <3>2. \A f \in w.st[d].yes \cup w.st[d].no : f.asOf \in Nat
      BY <3>1 DEF Frame, DatedFact
    <3> QED
      BY <1>2, <2>1, <3>2 DEF Dates
  <2> QED
    BY <1>9, <2>3, <2>4 DEF Dates
<1>17. Branches(x)
  BY <1>2, <1>9 DEF Branches
<1>18. Sound(x)
  <2>1. \A d, f : Holds(x, d, f) <=> Holds(w, d, f)
    BY <1>9 DEF Holds
  <2> QED
    BY <1>2, <1>9, <1>13, <2>1 DEF Sound
<1>19. ASSUME Attentive PROVE InOrder(x)
  <2>1. \A d \in 2..n : d - 1 \in 1..n
    <3>1. \A m \in Nat : \A d \in 2..m : d - 1 \in 1..m
      OBVIOUS
    <3> QED
      BY <1>1, <3>1
  <2>2. InOrder(w)
    BY <1>2, <1>19
  <2>3. ASSUME NEW i \in 1..Len(x.ev), NEW j \in 1..Len(x.ev), j <= i,
               Seen(x, i, n), Seen(x, j, n), NEW f \in Standing(x.ev[i])
        PROVE  After(x.ev[j], f)
    BY <1>1, <1>13, <2>2, <2>3 DEF InOrder
  <2>4. ASSUME NEW d \in 2..n, NEW j \in 1..Len(x.ev), Seen(x, j, d - 1),
               NEW f \in w.st[d].yes \cup w.st[d].no
        PROVE  After(x.ev[j], f)
    BY <1>13, <2>1, <2>2, <2>4 DEF InOrder
  <2>5. Len(x.st) = n /\ x.st = w.st
    BY <1>9
  <2> QED
    BY <2>3, <2>4, <2>5 DEF InOrder
<1>20. ASSUME Fragment PROVE Written(x)
  <2>1. Written(w)
    BY <1>2, <1>20
  <2> QED
    BY <1>6, <1>7, <1>9, <1>12, <2>1 DEF Written
<1>21. Consistent(x)
  BY <1>14, <1>15, <1>16, <1>17, <1>18, <1>19, <1>20 DEF Consistent
<1> QED
  BY <1>8, <1>9, <1>21 DEF Aside, pa, new

-----------------------------------------------------------------------------
(* One statement of the open block, as the actions do it.                  *)

LEMMA TopLevel ==
  ASSUME TypedWalk, NEW w \in Walk, Shows(w), Consistent(w), NEW n, n = Len(stack)
  PROVE  /\ n \in Nat /\ n >= 1 /\ n = Len(w.st) /\ n \in 1..n
         /\ w.st[n] = Top /\ Top \in Frame /\ w.st = stack
         /\ w.env[n] = env /\ w.since[n] = touched
         /\ w.ev = events /\ w.pa = path /\ w.cu = current /\ w.ck = clock
         /\ Top.live \in BOOLEAN /\ (w.here[n] <=> Top.live)
<1>1. n \in Nat /\ n >= 1 /\ Top \in Frame
  BY NestedTop
<1>2. /\ w.st = stack /\ n = Len(w.st) /\ w.env[n] = env /\ w.since[n] = touched
      /\ w.ev = events /\ w.pa = path /\ w.cu = current /\ w.ck = clock
  BY DEF Shows
<1>3. w.st[n] = Top /\ n \in 1..n
  BY <1>1, <1>2 DEF Top
<1>4. w.here[n] = w.st[n].live
  BY <1>2 DEF Consistent, Unwinds
<1>5. Top.live \in BOOLEAN
  BY <1>1 DEF Frame
<1> QED
  BY <1>1, <1>2, <1>3, <1>4, <1>5

LEMMA SetTopShape ==
  ASSUME TypedWalk, NEW f \in Frame, SetTop(f), NEW n, n = Len(stack)
  PROVE  Len(stack') = n /\ stack'[n] = f /\ \A d \in 1..n - 1 : stack'[d] = stack[d]
<1>1. stack \in Seq(Frame) /\ n \in Nat /\ n >= 1
  BY NestedTop DEF TypedWalk, WellNested
<1>2. n \in 1..n /\ \A d \in 1..n - 1 : d \in 1..n /\ d # n
  BY <1>1
<1>3. /\ Len([stack EXCEPT ![Len(stack)] = f]) = n
      /\ \A d \in 1..n : [stack EXCEPT ![Len(stack)] = f][d] = IF d = n THEN f ELSE stack[d]
  BY <1>1, ExceptSeq
<1> QED
  BY <1>2, <1>3 DEF SetTop

LEMMA DeclaringAdvances ==
  ASSUME TypedWalk, NEW g \in Frame, NEW D \in SUBSET Var, NEW ok \in BOOLEAN
  PROVE  LET f == [Declaring(g, D) EXCEPT !.live = @ /\ ok]
         IN  f \in Frame /\ Advanced(g, f, D, env, touched, ok)
             /\ f.havoc = g.havoc
<1> DEFINE shadowed == KeysOf(D \ g.declared)
           e == [k \in Key |-> IF k \in shadowed THEN env[k] ELSE g.outerEnv[k]]
           t == [k \in Key |-> IF k \in shadowed THEN touched[k] ELSE g.outerTouched[k]]
           d == Declaring(g, D)
           f == [d EXCEPT !.live = d.live /\ ok]
<1>1. d \in Frame
  BY DeclaringType DEF TypedWalk, TypeOK
<1>2. d = [g EXCEPT !.declared = g.declared \cup D, !.outerEnv = e, !.outerTouched = t]
  BY DEF Declaring
<1> HIDE DEF e, t
<1>3. /\ d.kind = g.kind /\ d.prev = g.prev /\ d.yes = g.yes /\ d.no = g.no
      /\ d.before = g.before /\ d.taken = g.taken /\ d.live = g.live
      /\ d.escapes = g.escapes /\ d.havoc = g.havoc
      /\ d.declared = g.declared \cup D /\ d.outerEnv = e /\ d.outerTouched = t
  BY <1>2 DEF Frame
<1> HIDE DEF d
<1>4. /\ f \in Frame
      /\ f.kind = d.kind /\ f.prev = d.prev /\ f.yes = d.yes /\ f.no = d.no
      /\ f.before = d.before /\ f.taken = d.taken /\ f.live = (d.live /\ ok)
      /\ f.escapes = d.escapes /\ f.havoc = d.havoc
      /\ f.declared = d.declared /\ f.outerEnv = d.outerEnv
      /\ f.outerTouched = d.outerTouched
  BY <1>1 DEF Frame
<1> HIDE DEF f
<1>5. \A k \in Key :
        IF k \in KeysOf(D \ g.declared)
        THEN f.outerEnv[k] = env[k] /\ f.outerTouched[k] = touched[k]
        ELSE f.outerEnv[k] = g.outerEnv[k] /\ f.outerTouched[k] = g.outerTouched[k]
  BY <1>3, <1>4 DEF e, t
<1>6. Advanced(g, f, D, env, touched, ok)
  BY <1>3, <1>4, <1>5 DEF Advanced
<1> QED
  BY <1>3, <1>4, <1>6 DEF f, d

LEMMA MutateRuns ==
  ASSUME NEW M, NEW new, NEW here \in BOOLEAN, Mutate(M, new, here)
  PROVE  \A k \in Key :
           IF here /\ k \in KeysOf(M)
           THEN touched'[k] = clock + 1 /\ env'[k] = new[k]
           ELSE env'[k] = env[k] /\ touched'[k] = touched[k]
  BY DEF Mutate

LEMMA ExecuteRuns ==
  ASSUME TypedWalk, NEW w \in Walk, Shows(w), Consistent(w),
         NEW D \in SUBSET Var, NEW M \in SUBSET Var, NEW new, NEW ok \in BOOLEAN,
         Execute(D, M, new, ok), NEW n, n = Len(stack)
  PROVE  /\ Runs(w, n, D, M, ok, stack', env', touched')
         /\ stack'[n].declared = Top.declared \cup D
<1>1. /\ n \in Nat /\ n >= 1 /\ n = Len(w.st) /\ n \in 1..n
      /\ w.st[n] = Top /\ Top \in Frame /\ w.st = stack
      /\ w.env[n] = env /\ w.since[n] = touched /\ w.ck = clock
      /\ Top.live \in BOOLEAN /\ (w.here[n] <=> Top.live)
  BY TopLevel
<1> DEFINE f == [Declaring(Top, D) EXCEPT !.live = @ /\ ok]
<1>2. f \in Frame /\ Advanced(Top, f, D, env, touched, ok)
  BY <1>1, DeclaringAdvances
<1>3. SetTop(f) /\ Mutate(M, new, Top.live)
  BY DEF Execute
<1> HIDE DEF f
<1>4. Len(stack') = n /\ stack'[n] = f /\ \A d \in 1..n - 1 : stack'[d] = stack[d]
  BY <1>2, <1>3, SetTopShape
<1>5. \A k \in Key :
        IF w.here[n] /\ k \in KeysOf(M) THEN touched'[k] = w.ck + 1
        ELSE env'[k] = w.env[n][k] /\ touched'[k] = w.since[n][k]
  BY <1>1, <1>3, MutateRuns
<1> QED
  BY <1>1, <1>2, <1>4, <1>5 DEF Runs, Advanced

LEMMA EscapeRuns ==
  ASSUME TypedWalk, NEW w \in Walk, Shows(w), Consistent(w), Escape,
         UNCHANGED <<env, touched>>, NEW n, n = Len(stack)
  PROVE  Runs(w, n, {}, {}, FALSE, stack', env', touched')
<1> DEFINE f == [Top EXCEPT !.escapes = TRUE, !.live = FALSE]
<1>1. /\ n \in Nat /\ n = Len(w.st) /\ w.st[n] = Top /\ Top \in Frame /\ w.st = stack
      /\ w.env[n] = env /\ w.since[n] = touched
  BY TopLevel
<1>2. KeysOf({}) = {} /\ KeysOf({} \ Top.declared) = {}
  BY DEF KeysOf
<1>3. f \in Frame /\ Advanced(Top, f, {}, env, touched, FALSE)
  BY <1>1, <1>2 DEF Frame, Advanced
<1>4. SetTop(f)
  BY DEF Escape
<1> HIDE DEF f
<1>5. Len(stack') = n /\ stack'[n] = f /\ \A d \in 1..n - 1 : stack'[d] = stack[d]
  BY <1>3, <1>4, SetTopShape
<1> QED
  BY <1>1, <1>2, <1>3, <1>5 DEF Runs

LEMMA IdleRuns ==
  ASSUME TypedWalk, NEW w \in Walk, Shows(w), Consistent(w),
         UNCHANGED <<stack, env, touched>>, NEW n, n = Len(stack)
  PROVE  Runs(w, n, {}, {}, TRUE, stack', env', touched')
<1>1. /\ n \in Nat /\ n = Len(w.st) /\ w.st[n] = Top /\ Top \in Frame /\ w.st = stack
      /\ w.env[n] = env /\ w.since[n] = touched /\ Top.live \in BOOLEAN
  BY TopLevel
<1>2. KeysOf({}) = {} /\ KeysOf({} \ Top.declared) = {}
  BY DEF KeysOf
<1>3. Advanced(Top, Top, {}, env, touched, TRUE)
  BY <1>1, <1>2 DEF Advanced
<1> QED
  BY <1>1, <1>2, <1>3 DEF Runs

\* A statement that leaves the scope alone keeps the invariant.
LEMMA StatementFacts ==
  ASSUME TypedWalk, TypedWalk', NEW w \in Walk, Shows(w), Consistent(w),
         NEW D \in SUBSET Var, NEW M \in SUBSET Var, NEW ok \in BOOLEAN,
         NEW n, n = Len(stack), Runs(w, n, D, M, ok, stack', env', touched'),
         NEW e \in Entry, Reports(w, n, M, ok, stack', env', touched', e, events'),
         path' = path, current' = current, clock' = clock + 1
  PROVE  FactsInv'
<1>1. /\ n \in Nat /\ n >= 1 /\ w.pa = path /\ w.cu = current /\ w.ck = clock
  BY TopLevel
<1>2. stack' \in Seq(Frame) /\ env' \in [Key -> Value] /\ touched' \in [Key -> Nat]
  BY DEF TypedWalk, TypeOK
<1>3. Kept(w, n, ok, stack', env', touched', events')
  BY <1>1, <1>2, StatementKeeps
<1>4. PICK x \in Walk :
        /\ x.ev = events' /\ x.pa = w.pa /\ x.cu = w.cu /\ x.st = stack' /\ x.ck = w.ck + 1
        /\ x.env[n] = env' /\ x.since[n] = touched'
        /\ Consistent(x)
  BY <1>3 DEF Kept
<1>5. Len(stack') = n
  BY DEF Runs
<1> QED
  BY <1>1, <1>4, <1>5 DEF FactsInv, Shows

\* A statement that records nothing and leaves its variables alone.
LEMMA SilentReports ==
  ASSUME TypedWalk, NEW w \in Walk, Shows(w), Consistent(w), NEW n, NEW M,
         M # {} => ~Fragment, NEW ok \in BOOLEAN, events' = events
  PROVE  /\ Source({}, current) \in Entry
         /\ Reports(w, n, M, ok, stack', env', touched', Source({}, current), events')
<1>1. w.ev = events /\ w.cu = current /\ w.ck = clock /\ clock + 1 \in Nat
  BY ClockTyped DEF Shows
<1>2. Source({}, current) \in Entry
  BY SourceType, ScopesTyped
<1>3. /\ Source({}, current).scope = current /\ Source({}, current).at = 0
      /\ Planted(Source({}, current)) = {} /\ Standing(Source({}, current)) = {}
  BY DEF Source, Recorded, Planted, Standing
<1>4. 0 <= clock + 1
  BY <1>1
<1> QED
  BY <1>1, <1>2, <1>3, <1>4 DEF Reports

\* The facts H are true, once the statement is over, of the values they are for.
Believable(H, ok) ==
  \A f \in H :
    /\ f.asOf <= clock + 1
    /\ Top.live /\ ok /\ f.asOf >= touched'[f.key] => f.claim \cap env'[f.key] # {}

Timely(F, V, G) ==
  /\ \A f \in F : clock <= f.asOf
  /\ \A f \in G : clock <= f.asOf /\ (Root[f.key] \in V => clock + 1 <= f.asOf)

RecordsWrites(M, D, V) ==
  M # {} => V = M /\ (M \subseteq Top.declared \cup D \/ Len(stack) = 1)

\* Such a statement: it declares D, changes M and records F, V and G.
Recording(D, M, new, ok, F, V, G) ==
  /\ Execute(D, M, new, ok) /\ Record(F, V, G)
  /\ path' = path /\ current' = current /\ clock' = clock + 1
  /\ Believable(F \cup G, ok)
  /\ Attentive => Timely(F, V, G)
  /\ Fragment => RecordsWrites(M, D, V)

LEMMA RecordFacts ==
  ASSUME TypedWalk, TypedWalk', FactsInv,
         NEW D \in SUBSET Var, NEW M \in SUBSET Var, NEW new, NEW ok \in BOOLEAN,
         NEW F \in SUBSET DatedFact, NEW V \in SUBSET Key, NEW G \in SUBSET DatedFact,
         Recording(D, M, new, ok, F, V, G)
  PROVE  FactsInv'
<1>w. PICK w \in Walk : Shows(w) /\ Consistent(w)
  BY DEF FactsInv
<1> DEFINE n == Len(stack)
           e == Recorded(F, V, clock + 1, G, current)
<1>1. /\ n \in Nat /\ w.ev = events /\ w.cu = current /\ w.ck = clock
      /\ (w.here[n] <=> Top.live)
  BY <1>w, TopLevel
<1>2. e \in Entry /\ clock + 1 \in Nat
  BY RecordedType, ClockTyped, ScopesTyped
<1>3. /\ e.scope = current /\ e.at = clock + 1 /\ e.wrote = V
      /\ Planted(e) = F \cup G
      /\ Standing(e) = G \cup {f \in F : Root[f.key] \notin V}
  BY DEF Recorded, Planted, Standing
<1>4. events' = Append(events, e) /\ n = Len(stack)
  BY DEF Recording, Record
<1> HIDE DEF n, e
<1>5. /\ Runs(w, n, D, M, ok, stack', env', touched')
      /\ stack'[n].declared = Top.declared \cup D
  <2>1. Execute(D, M, new, ok)
    BY DEF Recording
  <2> QED
    BY <1>w, <1>4, <2>1, ExecuteRuns
<1>6. ASSUME Attentive, NEW f \in Standing(e) PROVE w.ck <= f.asOf /\ After(e, f)
  BY <1>1, <1>3, <1>6 DEF Recording, Timely, After
<1>7. ASSUME Fragment, M # {}
      PROVE  /\ M \subseteq stack'[n].declared \/ n = 1
             /\ events' = Append(w.ev, e) /\ e.wrote = M /\ e.at = w.ck + 1
  BY <1>1, <1>3, <1>4, <1>5, <1>7 DEF Recording, RecordsWrites, n
<1>8. e.at <= w.ck + 1
  BY <1>1, <1>2, <1>3
<1>9. /\ \A f \in Planted(e) : f.asOf <= w.ck + 1
      /\ w.here[n] /\ ok =>
           \A f \in Planted(e) : f.asOf >= touched'[f.key] => f.claim \cap env'[f.key] # {}
  BY <1>1, <1>3 DEF Recording, Believable
<1>10. Reports(w, n, M, ok, stack', env', touched', e, events')
  BY <1>1, <1>3, <1>4, <1>6, <1>7, <1>8, <1>9 DEF Reports
<1> QED
  <2>1. path' = path /\ current' = current /\ clock' = clock + 1
    BY DEF Recording
  <2> QED
    BY <1>w, <1>2, <1>4, <1>5, <1>10, <2>1, StatementFacts

-----------------------------------------------------------------------------
(* The statements without a body.                                          *)

\* What a statement makes of the variables.
LEMMA ExecuteValues ==
  ASSUME TypedWalk, NEW D, NEW M, NEW new, NEW ok, Execute(D, M, new, ok)
  PROVE  \A k \in Key :
           IF Top.live /\ k \in KeysOf(M)
           THEN touched'[k] = clock + 1 /\ env'[k] = new[k]
           ELSE env'[k] = env[k] /\ touched'[k] = touched[k]
<1>1. Top.live \in BOOLEAN
  BY NestedTop DEF Frame
<1> QED
  BY <1>1, MutateRuns DEF Execute

\* An assignment that the fragment allows is recorded in the variable's scope.
LEMMA BoundWrites ==
  ASSUME Fragment, NEW mode, NEW l, MayBind(mode, l)
  PROVE  RecordsWrites({Root[l]}, Declares(mode, {Root[l]}), {Root[l]})
  BY DEF Fragment, MayBind, RecordsWrites, Declares

\* Facts recorded for the value just given.
LEMMA OnBelievable ==
  ASSUME TypedWalk, NEW C \in SUBSET Claim, NEW k \in Key, NEW M, k \in KeysOf(M),
         NEW D, NEW new, Satisfies(new[k], C), NEW ok, Execute(D, M, new, ok)
  PROVE  Believable(On(C, k, clock + 1), ok)
<1>1. clock + 1 \in Nat
  BY ClockTyped
<1>2. \A f \in On(C, k, clock + 1) : f.claim \in C /\ f.key = k /\ f.asOf = clock + 1
  BY DEF On
<1>3. Top.live => env'[k] = new[k]
  BY ExecuteValues
<1> QED
  BY <1>1, <1>2, <1>3 DEF Believable, Satisfies

\* A checked fact, for the value that was checked.
LEMMA CheckedBelievable ==
  ASSUME TypedWalk, NEW c \in Claim, NEW k \in Key, NEW D, NEW M, NEW new,
         Execute(D, M, new, True(c, k))
  PROVE  Believable(On({c}, k, clock), True(c, k))
<1>1. clock \in Nat
  BY ClockTyped
<1>2. \A f \in On({c}, k, clock) : f.claim = c /\ f.key = k /\ f.asOf = clock
  BY DEF On
<1>3. Top.live => \/ touched'[k] = clock + 1
                  \/ env'[k] = env[k]
  BY ExecuteValues
<1>4. clock <= clock + 1 /\ ~(clock >= clock + 1)
  BY <1>1
<1> QED
  BY <1>1, <1>2, <1>3, <1>4 DEF Believable, True

LEMMA BelievableUnion ==
  ASSUME NEW F, NEW G, NEW ok, Believable(F, ok), Believable(G, ok)
  PROVE  Believable(F \cup G, ok)
  BY DEF Believable

LEMMA AssignValueFacts ==
  ASSUME TypedWalk, TypedWalk', FactsInv, NEW mode, NEW l \in Subject, AssignValue(mode, l)
  PROVE  FactsInv'
<1>1. Root[l] \in Var /\ Root[l] \in Key
  BY SubjectRoot, VarType
<1>2. PICK new : Execute(Declares(mode, {Root[l]}), {Root[l]}, new, TRUE)
  BY DEF AssignValue
<1>3. Declares(mode, {Root[l]}) \in SUBSET Var /\ {Root[l]} \in SUBSET Var
  BY <1>1 DEF Declares
<1>4. Fragment => RecordsWrites({Root[l]}, Declares(mode, {Root[l]}), {Root[l]})
  BY BoundWrites DEF AssignValue
<1>5. Recording(Declares(mode, {Root[l]}), {Root[l]}, new, TRUE, {}, {Root[l]}, {})
  BY <1>2, <1>4 DEF AssignValue, NextStmt, Recording, Believable, Timely
<1>6. {} \in SUBSET DatedFact /\ {Root[l]} \in SUBSET Key
  BY <1>1
<1> QED
  BY <1>3, <1>5, <1>6, RecordFacts

LEMMA OverwriteFacts ==
  ASSUME TypedWalk, TypedWalk', FactsInv, NEW kind, NEW v \in Var, Overwrite(kind, v)
  PROVE  FactsInv'
<1>1. v \in Key /\ Root[v] = v
  BY VarType DEF Var
<1>2. PICK new : Execute({}, {v}, new, TRUE)
  BY DEF Overwrite
<1>3. Fragment => RecordsWrites({v}, {}, {v})
  BY <1>1 DEF Overwrite, Fragment, MayBind, RecordsWrites
<1>4. Recording({}, {v}, new, TRUE, {}, {v}, {})
  BY <1>2, <1>3 DEF Overwrite, NextStmt, Recording, Believable, Timely
<1>5. {} \in SUBSET DatedFact /\ {v} \in SUBSET Key /\ {v} \in SUBSET Var
      /\ {} \in SUBSET Var
  BY <1>1
<1> QED
  BY <1>4, <1>5, RecordFacts

LEMMA AssignCallFacts ==
  ASSUME TypedWalk, TypedWalk', FactsInv, NEW mode, NEW l \in Subject,
         NEW C \in SUBSET Claim, AssignCall(mode, l, C)
  PROVE  FactsInv'
<1>1. Root[l] \in Var /\ Root[l] \in Key /\ l \in Key
  BY SubjectRoot, VarType
<1>2. PICK new : /\ Satisfies(new[l], C)
                 /\ Execute(Declares(mode, {Root[l]}), {Root[l]}, new, TRUE)
  BY DEF AssignCall
<1>3. Declares(mode, {Root[l]}) \in SUBSET Var /\ {Root[l]} \in SUBSET Var
  BY <1>1 DEF Declares
<1>4. Fragment => RecordsWrites({Root[l]}, Declares(mode, {Root[l]}), {Root[l]})
  BY BoundWrites DEF AssignCall
<1>5. l \in KeysOf({Root[l]})
  BY <1>1 DEF KeysOf
<1> DEFINE G == On(C, l, clock + 1)
<1>6. G \in SUBSET DatedFact
  BY <1>1, ClockTyped, OnType
<1>7. Believable({} \cup G, TRUE)
  <2>1. Believable(G, TRUE)
    BY <1>1, <1>2, <1>5, OnBelievable
  <2>2. {} \cup G = G
    OBVIOUS
  <2> QED
    BY <2>1, <2>2
<1>8. Timely({}, {Root[l]}, G)
  BY ClockTyped DEF Timely, On
<1> HIDE DEF G
<1>9. Recording(Declares(mode, {Root[l]}), {Root[l]}, new, TRUE, {}, {Root[l]}, G)
  BY <1>2, <1>4, <1>7, <1>8 DEF AssignCall, NextStmt, Recording, G
<1> QED
  BY <1>1, <1>3, <1>6, <1>9, RecordFacts

\* The second variable's facts are dated before its value.
LEMMA AssignTwoFacts ==
  ASSUME TypedWalk, TypedWalk', FactsInv, NEW mode, NEW v \in Var, NEW w \in Var,
         NEW C \in SUBSET Claim, AssignTwo(mode, v, w, C)
  PROVE  FactsInv'
<1>1. v \in Key /\ w \in Key /\ Root[v] = v /\ Root[w] = w /\ clock + 1 \in Nat
  BY VarType, ClockTyped DEF Var
<1>2. PICK new : /\ Satisfies(new[v], C)
                 /\ Execute(Declares(mode, {v, w}), {v, w}, new, TRUE)
  BY DEF AssignTwo
<1>3. Declares(mode, {v, w}) \in SUBSET Var /\ {v, w} \in SUBSET Var
      /\ {v, w} \in SUBSET Key
  BY <1>1 DEF Declares
<1>4. ~Attentive /\ ~Fragment
  BY DEF AssignTwo, NextStmt, Attentive, Fragment
<1>5. v \in KeysOf({v, w}) /\ w \in KeysOf({v, w})
  BY <1>1 DEF KeysOf
<1> DEFINE G == On(C, v, clock + 1) \cup On(C, w, 0)
<1>6. G \in SUBSET DatedFact
  BY <1>1, OnType
<1>7. Believable({} \cup G, TRUE)
  <2>1. Believable(On(C, v, clock + 1), TRUE)
    BY <1>1, <1>2, <1>5, OnBelievable
  <2>2. Believable(On(C, w, 0), TRUE)
    <3>1. \A f \in On(C, w, 0) : f.key = w /\ f.asOf = 0
      BY DEF On
    <3>2. Top.live => touched'[w] = clock + 1
      BY <1>1, <1>2, <1>5, ExecuteValues
    <3>3. ~(0 >= clock + 1) /\ 0 <= clock + 1
      BY ClockTyped
    <3> QED
      BY <3>1, <3>2, <3>3 DEF Believable
  <2>3. {} \cup G = G
    OBVIOUS
  <2> QED
    BY <2>1, <2>2, <2>3, BelievableUnion
<1> HIDE DEF G
<1>8. Recording(Declares(mode, {v, w}), {v, w}, new, TRUE, {}, {v, w}, G)
  BY <1>2, <1>4, <1>7 DEF AssignTwo, NextStmt, Recording, G
<1> QED
  BY <1>3, <1>6, <1>8, RecordFacts

LEMMA MustFacts ==
  ASSUME TypedWalk, TypedWalk', FactsInv, NEW k \in Subject, NEW c \in Claim, Must(k, c)
  PROVE  FactsInv'
<1>1. k \in Key /\ clock \in Nat
  BY VarType, ClockTyped
<1>2. Execute({}, {}, env, True(c, k)) /\ True(c, k) \in BOOLEAN
  BY DEF Must, True
<1> DEFINE G == On({c}, k, clock)
<1>3. G \in SUBSET DatedFact
  BY <1>1, OnType
<1>4. Believable({} \cup G, True(c, k))
  <2>1. Believable(G, True(c, k))
    BY <1>1, <1>2, CheckedBelievable
  <2>2. {} \cup G = G
    OBVIOUS
  <2> QED
    BY <2>1, <2>2
<1>5. Timely({}, {}, G)
  BY <1>1 DEF Timely, On
<1> HIDE DEF G
<1>6. Recording({}, {}, env, True(c, k), {}, {}, G)
  BY <1>2, <1>4, <1>5 DEF Must, NextStmt, Recording, RecordsWrites, G
<1> QED
  BY <1>2, <1>3, <1>6, RecordFacts

LEMMA AssignMustFacts ==
  ASSUME TypedWalk, TypedWalk', FactsInv, NEW mode, NEW l \in Subject,
         NEW k \in Subject, NEW c \in Claim, AssignMust(mode, l, k, c)
  PROVE  FactsInv'
<1>1. Root[l] \in Var /\ Root[l] \in Key /\ l \in Key /\ k \in Key /\ clock \in Nat
  BY SubjectRoot, VarType, ClockTyped
<1>2. PICK new : /\ new[l] = env[k]
                 /\ Execute(Declares(mode, {Root[l]}), {Root[l]}, new, True(c, k))
  BY DEF AssignMust
<1>3. Declares(mode, {Root[l]}) \in SUBSET Var /\ {Root[l]} \in SUBSET Var
      /\ True(c, k) \in BOOLEAN
  BY <1>1 DEF Declares, True
<1>4. Fragment => RecordsWrites({Root[l]}, Declares(mode, {Root[l]}), {Root[l]})
  BY BoundWrites DEF AssignMust
<1>5. l \in KeysOf({Root[l]})
  BY <1>1 DEF KeysOf
<1> DEFINE F == On({c}, k, clock)
           G == On({c}, l, clock + 1)
<1>6. F \in SUBSET DatedFact /\ G \in SUBSET DatedFact
  BY <1>1, ClockTyped, OnType
<1>7. Believable(F \cup G, True(c, k))
  <2>1. Believable(F, True(c, k))
    BY <1>1, <1>2, CheckedBelievable
  <2>2. Believable(G, True(c, k))
    <3>1. \A f \in G : f.claim = c /\ f.key = l /\ f.asOf = clock + 1
      BY DEF On
    <3>2. Top.live => env'[l] = env[k]
      BY <1>1, <1>2, <1>5, ExecuteValues
    <3> QED
      BY <1>1, <3>1, <3>2 DEF Believable, True
  <2> QED
    BY <2>1, <2>2, BelievableUnion
<1>8. Timely(F, {Root[l]}, G)
  BY <1>1 DEF Timely, On
<1> HIDE DEF F, G
<1>9. Recording(Declares(mode, {Root[l]}), {Root[l]}, new, True(c, k), F, {Root[l]}, G)
  BY <1>2, <1>4, <1>7, <1>8 DEF AssignMust, NextStmt, Recording, F, G
<1> QED
  BY <1>1, <1>3, <1>6, <1>9, RecordFacts

LEMMA DeclFacts ==
  ASSUME TypedWalk, TypedWalk', FactsInv, NEW v \in Var, NEW C \in SUBSET Claim, Decl(v, C)
  PROVE  FactsInv'
<1>1. v \in Key /\ {v} \in SUBSET Var /\ Root[v] = v
  BY VarType DEF Var
<1>2. PICK new : Satisfies(new[v], C) /\ Execute({v}, {v}, new, TRUE)
  BY DEF Decl
<1>3. ~Fragment
  BY DEF Decl, NextStmt, Fragment
<1>4. v \in KeysOf({v})
  BY <1>1 DEF KeysOf
<1> DEFINE G == On(C, v, clock + 1)
<1>5. G \in SUBSET DatedFact
  BY <1>1, ClockTyped, OnType
<1>6. Believable({} \cup G, TRUE)
  <2>1. Believable(G, TRUE)
    BY <1>1, <1>2, <1>4, OnBelievable
  <2>2. {} \cup G = G
    OBVIOUS
  <2> QED
    BY <2>1, <2>2
<1>7. Timely({}, {}, G)
  BY ClockTyped DEF Timely, On
<1> HIDE DEF G
<1>8. Recording({v}, {v}, new, TRUE, {}, {}, G)
  BY <1>2, <1>3, <1>6, <1>7 DEF Decl, NextStmt, Recording, G
<1> QED
  BY <1>1, <1>5, <1>8, RecordFacts

LEMMA SilentFacts ==
  ASSUME TypedWalk, TypedWalk', FactsInv, NEW v \in Var, Silent(v)
  PROVE  FactsInv'
<1>1. PICK w \in Walk : Shows(w) /\ Consistent(w)
  BY DEF FactsInv
<1>2. PICK new : Execute({}, {v}, new, TRUE)
  BY DEF Silent
<1>3. /\ events' = events /\ path' = path /\ current' = current
      /\ clock' = clock + 1 /\ ~Fragment
  BY DEF Silent, NextStmt, stream, Fragment
<1> DEFINE n == Len(stack)
<1>4. n = Len(stack)
  OBVIOUS
<1> HIDE DEF n
<1>5. Runs(w, n, {}, {v}, TRUE, stack', env', touched')
  BY <1>1, <1>2, <1>4, ExecuteRuns
<1>6. /\ Source({}, current) \in Entry
      /\ Reports(w, n, {v}, TRUE, stack', env', touched', Source({}, current), events')
  BY <1>1, <1>3, SilentReports
<1> QED
  BY <1>1, <1>3, <1>4, <1>5, <1>6, StatementFacts

\* Calls check, and do nothing else.
LEMMA CallFacts ==
  ASSUME TypedWalk, TypedWalk', FactsInv, NEW k, NEW c, Call(k, c)
  PROVE  FactsInv'
<1>1. PICK w \in Walk : Shows(w) /\ Consistent(w)
  BY DEF FactsInv
<1>2. /\ UNCHANGED <<stack, env, touched>> /\ events' = events
      /\ path' = path /\ current' = current /\ clock' = clock + 1
  BY DEF Call, NextStmt, stream
<1> DEFINE n == Len(stack)
<1>3. n = Len(stack)
  OBVIOUS
<1> HIDE DEF n
<1>4. Runs(w, n, {}, {}, TRUE, stack', env', touched')
  BY <1>1, <1>2, <1>3, IdleRuns
<1>5. /\ Source({}, current) \in Entry
      /\ Reports(w, n, {}, TRUE, stack', env', touched', Source({}, current), events')
  BY <1>1, <1>2, SilentReports
<1> QED
  BY <1>1, <1>2, <1>3, <1>4, <1>5, StatementFacts

\* return and panic: the execution goes no further.
LEMMA EscapeFacts ==
  ASSUME TypedWalk, TypedWalk', FactsInv, Escape, UNCHANGED <<stream, env, touched>>,
         clock' = clock + 1
  PROVE  FactsInv'
<1>1. PICK w \in Walk : Shows(w) /\ Consistent(w)
  BY DEF FactsInv
<1>2. /\ UNCHANGED <<env, touched>> /\ events' = events
      /\ path' = path /\ current' = current
  BY DEF stream
<1> DEFINE n == Len(stack)
<1>3. n = Len(stack)
  OBVIOUS
<1> HIDE DEF n
<1>4. Runs(w, n, {}, {}, FALSE, stack', env', touched')
  BY <1>1, <1>2, <1>3, EscapeRuns
<1>5. /\ Source({}, current) \in Entry
      /\ Reports(w, n, {}, FALSE, stack', env', touched', Source({}, current), events')
  BY <1>1, <1>2, SilentReports
<1> QED
  BY <1>1, <1>2, <1>3, <1>4, <1>5, StatementFacts

LEMMA CallNestedFacts ==
  ASSUME TypedWalk, TypedWalk', FactsInv, NEW C \in SUBSET Claim, NEW c, CallNested(C, c)
  PROVE  FactsInv'
<1> DEFINE e == Source(On(C, Arg, clock), NextScope)
<1>1. PICK w \in Walk : Shows(w) /\ Consistent(w)
  BY DEF FactsInv
<1>2. /\ w.ev = events /\ w.pa = path /\ w.cu = current /\ w.st = stack
      /\ w.ck = clock /\ clock \in Nat /\ Len(w.st) >= 1
  BY <1>1, TopLevel, ClockTyped
<1>3. On(C, Arg, clock) \in SUBSET DatedFact /\ NextScope \in Nat
  BY ClockTyped, OnType, ArgAssumption, OpenedType, ScopesTyped
<1>4. e \in Entry
  BY <1>3, SourceType
<1>5. /\ e.scope = NextScope /\ e.at = 0 /\ Planted(e) = On(C, Arg, clock)
      /\ 0 <= clock /\ clock <= clock
  BY <1>2 DEF Source, Recorded, Planted
<1>6. \A f \in Planted(e) : f.asOf <= w.ck
  BY <1>2, <1>5 DEF On
<1>7. /\ path' = Append(path, path[current] \cup {Len(path) + 1})
      /\ events' = Append(events, e) /\ clock' = clock + 1
      /\ UNCHANGED <<current, stack, env, touched>>
  BY DEF CallNested, NextStmt, Opened, NextScope
<1> HIDE DEF e
<1>8. Aside(w, e)
  BY <1>1, <1>2, <1>4, <1>5, <1>6, AsideKeeps DEF NextScope
<1>9. PICK x \in Walk :
        /\ x.ev = Append(w.ev, e)
        /\ x.pa = Append(w.pa, w.pa[w.cu] \cup {Len(w.pa) + 1})
        /\ x.cu = w.cu /\ x.st = w.st /\ x.ck = w.ck + 1
        /\ x.env = w.env /\ x.since = w.since /\ Consistent(x)
  BY <1>8 DEF Aside
<1>10. Shows(x)'
  BY <1>1, <1>2, <1>7, <1>9 DEF Shows
<1> QED
  BY <1>9, <1>10 DEF FactsInv

-----------------------------------------------------------------------------
(* The statements with a body.                                             *)

LEMMA SourceFields ==
  \A F, s : LET e == Source(F, s)
            IN  e.scope = s /\ e.at = 0 /\ e.wrote = {} /\ Planted(e) = F
  BY DEF Source, Recorded, Planted

\* Frame f as it is pushed.
Enters(f, kind, prev, yes, no, taken) ==
  /\ f \in Frame /\ f.kind = kind /\ f.prev = prev /\ f.yes = yes /\ f.no = no
  /\ f.declared = {} /\ f.escapes = FALSE /\ f.before = FALSE
  /\ f.taken = taken /\ f.live = taken

LEMMA NewBranch ==
  ASSUME TypedWalk, NEW kind \in Kinds, NEW prev \in Nat,
         NEW yes \in SUBSET DatedFact, NEW no \in SUBSET DatedFact,
         NEW taken \in BOOLEAN
  PROVE  Enters(Branch(NewFrame(kind, prev, yes, no), taken), kind, prev, yes, no, taken)
<1> DEFINE b == NewFrame(kind, prev, yes, no)
           f == Branch(b, taken)
<1>1. b \in Frame
  BY NewFrameType, ScopesTyped
<1>2. /\ b.kind = kind /\ b.prev = prev /\ b.yes = yes /\ b.no = no
      /\ b.declared = {} /\ b.escapes = FALSE /\ b.before = FALSE
  BY DEF NewFrame
<1> HIDE DEF b
<1>3. f = [b EXCEPT !.taken = taken, !.live = taken]
  BY DEF Branch
<1>4. /\ f \in Frame /\ f.kind = b.kind /\ f.prev = b.prev /\ f.yes = b.yes /\ f.no = b.no
      /\ f.declared = b.declared /\ f.escapes = b.escapes /\ f.before = b.before
      /\ f.taken = taken /\ f.live = taken
  BY <1>1, <1>3 DEF Frame
<1> QED
  BY <1>2, <1>4 DEF b, Enters

\* Opening a branch of the open block, with the facts F in its scope.
LEMMA PushFacts ==
  ASSUME TypedWalk, NEW w \in Walk, Shows(w), Consistent(w), NEW n, n = Len(stack),
         NEW f \in Frame, f.prev = current, Begins(w, n, f),
         NEW F \in SUBSET DatedFact, Open(current, F), stack' = Append(stack, f),
         clock' \in {clock, clock + 1}, Assumes(w, n, f, Source(F, NextScope), clock'),
         UNCHANGED <<env, touched>>
  PROVE  FactsInv'
<1> DEFINE e == Source(F, NextScope)
<1>1. /\ n \in Nat /\ n >= 1 /\ n = Len(w.st) /\ w.st = stack
      /\ w.ev = events /\ w.pa = path /\ w.cu = current /\ w.ck = clock
      /\ w.env[n] = env /\ w.since[n] = touched
  BY TopLevel
<1>2. NextScope = Len(path) + 1 /\ NextScope \in Nat
  BY ScopesTyped DEF NextScope
<1>3. e \in Entry /\ e.scope = Len(w.pa) + 1 /\ e.wrote = {}
  BY <1>1, <1>2, SourceType, SourceFields
<1>4. /\ path' = Append(w.pa, w.pa[w.cu] \cup {Len(w.pa) + 1})
      /\ current' = Len(w.pa) + 1 /\ events' = Append(w.ev, e)
  BY <1>1, <1>2 DEF Open, Opened
<1>5. /\ f.prev = w.cu /\ clock' \in {w.ck, w.ck + 1}
      /\ Assumes(w, n, f, e, clock')
  BY <1>1
<1> HIDE DEF e
<1>6. Pushed(w, n, f, e, clock')
  <2> DEFINE ck == clock'
  <2>1. ck \in {w.ck, w.ck + 1} /\ Assumes(w, n, f, e, ck)
    BY <1>5
  <2> HIDE DEF ck
  <2>2. Pushed(w, n, f, e, ck)
    BY <1>1, <1>3, <1>5, <2>1, PushKeeps
  <2> QED
    BY <2>2 DEF ck
<1>7. PICK x \in Walk :
        /\ x.ev = Append(w.ev, e) /\ x.pa = Append(w.pa, w.pa[w.cu] \cup {Len(w.pa) + 1})
        /\ x.cu = Len(w.pa) + 1 /\ x.st = Append(w.st, f) /\ x.ck = clock'
        /\ x.env[n + 1] = w.env[n] /\ x.since[n + 1] = w.since[n]
        /\ Consistent(x)
  BY <1>6 DEF Pushed
<1>8. Len(Append(stack, f)) = n + 1
  BY <1>1, ScopesTyped DEF WellNested
<1>9. Shows(x)'
  BY <1>1, <1>4, <1>7, <1>8 DEF Shows
<1> QED
  BY <1>7, <1>9 DEF FactsInv

\* A branch entered with no facts assumes nothing.
LEMMA NothingAssumed ==
  ASSUME NEW w \in Walk, NEW n, NEW f \in Frame, NEW s, NEW ck \in Nat,
         f.yes = {}, f.no = {}
  PROVE  Assumes(w, n, f, Source({}, s), ck)
<1>1. Held(f) = {}
  BY DEF Held
<1>2. 0 <= ck
  OBVIOUS
<1> QED
  BY <1>1, <1>2, SourceFields DEF Assumes

\* A condition evaluated at t, after all that the walk has seen.
LEMMA ConditionAssumed ==
  ASSUME NEW w \in Walk, Dates(w), NEW n, NEW f \in Frame, f.kind = "then",
         NEW t \in Nat, NEW ck \in Nat, w.ck <= t, t <= ck,
         NEW yes, NEW no, f.yes = Dated(yes, t), f.no = Dated(no, t),
         f.taken => w.here[n],
         w.here[n] => \A g \in (IF f.taken THEN yes ELSE no) :
                        g.claim \cap w.env[n][g.key] # {},
         NEW s
  PROVE  Assumes(w, n, f, Source(Dated(yes, t), s), ck)
<1>1. \A F : \A g \in Dated(F, t) :
        g.asOf = t /\ \E h \in F : g.claim = h.claim /\ g.key = h.key
  BY DEF Dated
<1>2. \A g \in f.yes \cup f.no : g.asOf = t
  BY <1>1
<1>3. f.taken => \A g \in f.yes : Holds(w, n, g)
  BY <1>1 DEF Holds
<1>4. w.here[n] /\ ~f.taken => \A g \in f.no : Holds(w, n, g)
  BY <1>1 DEF Holds
<1>5. Held(f) = IF f.taken THEN f.yes ELSE f.no
  BY DEF Held
<1>6. ASSUME NEW g \in f.yes \cup f.no, NEW j \in 1..Len(w.ev)
      PROVE  After(w.ev[j], g)
  <2>1. w.ev[j] \in Entry /\ w.ck \in Nat
    BY WalkType
  <2>2. w.ev[j].at \in Nat
    BY <2>1 DEF Entry
  <2>3. w.ev[j].at <= w.ck
    BY DEF Dates
  <2>4. w.ev[j].at <= g.asOf
    BY <1>2, <2>1, <2>2, <2>3
  <2> QED
    BY <2>4 DEF After
<1>7. 0 <= ck
  OBVIOUS
<1> QED
  BY <1>2, <1>3, <1>4, <1>5, <1>6, <1>7, SourceFields DEF Assumes

LEMMA IfFacts ==
  ASSUME TypedWalk, FactsInv, NEW g \in Guards, If(g)
  PROVE  FactsInv'
<1> DEFINE yes == Dated(g.yes, clock)
           no  == Dated(g.no, clock)
           n   == Len(stack)
<1>1. PICK w \in Walk : Shows(w) /\ Consistent(w)
  BY DEF FactsInv
<1>2. PICK taken \in BOOLEAN :
        /\ MayTake(taken, g.yes, g.no)
        /\ stack' = Append(stack, Branch(NewFrame("then", current, yes, no), taken))
  BY DEF If
<1> DEFINE f == Branch(NewFrame("then", current, yes, no), taken)
<1>3. /\ w.env[n] = env /\ w.ck = clock /\ n = Len(stack)
      /\ Top.live \in BOOLEAN /\ (w.here[n] <=> Top.live)
      /\ clock \in Nat /\ clock + 1 \in Nat
  BY <1>1, TopLevel, ClockTyped
<1>4. yes \in SUBSET DatedFact /\ no \in SUBSET DatedFact
  BY <1>3, GuardType, DatedType
<1>5. /\ Open(current, yes) /\ clock' = clock + 1 /\ UNCHANGED <<env, touched>>
      /\ stack' = Append(stack, f)
  BY <1>2 DEF If, NextStmt
<1> HIDE DEF n
<1>6. /\ f \in Frame /\ f.kind = "then" /\ f.prev = current /\ f.yes = yes /\ f.no = no
      /\ f.declared = {} /\ f.escapes = FALSE
      /\ f.taken = taken /\ f.live = taken
  <2>1. current \in Nat /\ "then" \in Kinds
    BY ScopesTyped DEF Kinds
  <2> HIDE DEF yes, no
  <2>2. Enters(f, "then", current, yes, no, taken)
    BY <1>4, <2>1, NewBranch
  <2> HIDE DEF f
  <2> QED
    BY <2>2 DEF Enters
<1> HIDE DEF f
<1>7. /\ taken => w.here[n]
      /\ w.here[n] => \A h \in (IF taken THEN g.yes ELSE g.no) :
                        h.claim \cap w.env[n][h.key] # {}
  BY <1>2, <1>3 DEF MayTake, AllTrue, True
<1>8. Begins(w, n, f)
  BY <1>6, <1>7 DEF Begins
<1>9. Assumes(w, n, f, Source(yes, NextScope), clock')
  <2>1. Dates(w)
    BY <1>1 DEF Consistent
  <2>2. clock <= clock /\ clock <= clock + 1
    BY <1>3
  <2>3. Assumes(w, n, f, Source(Dated(g.yes, clock), NextScope), clock + 1)
    BY <1>3, <1>6, <1>7, <2>1, <2>2, ConditionAssumed
  <2> QED
    BY <1>5, <2>3
<1> HIDE DEF yes, no
<1> QED
  BY <1>1, <1>3, <1>4, <1>5, <1>6, <1>8, <1>9, PushFacts

LEMMA BlockFacts ==
  ASSUME TypedWalk, FactsInv, Block
  PROVE  FactsInv'
<1> DEFINE n == Len(stack)
           f == Branch(NewFrame("block", current, {}, {}), Top.live)
<1>1. PICK w \in Walk : Shows(w) /\ Consistent(w)
  BY DEF FactsInv
<1>2. Top.live \in BOOLEAN /\ (w.here[n] <=> Top.live) /\ clock + 1 \in Nat /\ n = Len(stack)
  BY <1>1, TopLevel, ClockTyped
<1>3. /\ f \in Frame /\ f.kind = "block" /\ f.prev = current /\ f.yes = {} /\ f.no = {}
      /\ f.declared = {} /\ f.escapes = FALSE
      /\ f.taken = Top.live /\ f.live = Top.live
  <2>1. current \in Nat /\ "block" \in Kinds /\ {} \in SUBSET DatedFact
    BY ScopesTyped DEF Kinds
  <2>2. Enters(f, "block", current, {}, {}, Top.live)
    BY <1>2, <2>1, NewBranch
  <2> HIDE DEF f
  <2> QED
    BY <2>2 DEF Enters
<1>4. /\ Open(current, {}) /\ clock' = clock + 1 /\ UNCHANGED <<env, touched>>
      /\ stack' = Append(stack, f)
  BY DEF Block, NextStmt
<1> HIDE DEF n, f
<1>5. Begins(w, n, f)
  BY <1>2, <1>3 DEF Begins
<1>6. Assumes(w, n, f, Source({}, NextScope), clock')
  BY <1>2, <1>3, <1>4, NothingAssumed
<1>7. {} \in SUBSET DatedFact
  OBVIOUS
<1> QED
  BY <1>1, <1>2, <1>3, <1>4, <1>5, <1>6, <1>7, PushFacts

LEMMA SwitchFacts ==
  ASSUME TypedWalk, FactsInv, Switch
  PROVE  FactsInv'
<1>1. PICK w \in Walk : Shows(w) /\ Consistent(w)
  BY DEF FactsInv
<1>2. PICK taken \in BOOLEAN :
        /\ MayTake(taken, {}, {})
        /\ stack' = Append(stack, Branch(NewFrame("case", current, {}, {}), taken))
  BY DEF Switch
<1> DEFINE n == Len(stack)
           f == Branch(NewFrame("case", current, {}, {}), taken)
<1>3. Top.live \in BOOLEAN /\ (w.here[n] <=> Top.live) /\ clock + 1 \in Nat /\ n = Len(stack)
  BY <1>1, TopLevel, ClockTyped
<1>4. /\ f \in Frame /\ f.kind = "case" /\ f.prev = current /\ f.yes = {} /\ f.no = {}
      /\ f.declared = {} /\ f.escapes = FALSE
      /\ f.taken = taken /\ f.live = taken
  <2>1. current \in Nat /\ "case" \in Kinds /\ {} \in SUBSET DatedFact
    BY ScopesTyped DEF Kinds
  <2>2. Enters(f, "case", current, {}, {}, taken)
    BY <2>1, NewBranch
  <2> HIDE DEF f
  <2> QED
    BY <2>2 DEF Enters
<1>5. /\ Open(current, {}) /\ clock' = clock + 1 /\ UNCHANGED <<env, touched>>
      /\ stack' = Append(stack, f)
  BY <1>2 DEF Switch, NextStmt
<1> HIDE DEF n, f
<1>6. Begins(w, n, f)
  BY <1>2, <1>3, <1>4 DEF Begins, MayTake
<1>7. Assumes(w, n, f, Source({}, NextScope), clock')
  BY <1>3, <1>4, <1>5, NothingAssumed
<1>8. {} \in SUBSET DatedFact
  OBVIOUS
<1> QED
  BY <1>1, <1>3, <1>4, <1>5, <1>6, <1>7, <1>8, PushFacts

\* A loop's frame, and then what its header and the other iterations did.
LEMMA BranchDeclaring ==
  ASSUME TypedWalk, NEW g \in Frame, NEW D \in SUBSET Var, NEW taken \in BOOLEAN
  PROVE  /\ Branch(Declaring(g, D), taken) \in Frame
         /\ Advanced(Branch(g, taken), Branch(Declaring(g, D), taken), D, env, touched, TRUE)
<1> DEFINE d == [Declaring(g, D) EXCEPT !.live = @ /\ TRUE]
           c == Declaring(g, D)
           b == Branch(g, taken)
           f == Branch(c, taken)
<1>1. c \in Frame
  BY DeclaringType DEF TypedWalk, TypeOK
<1>2. Advanced(g, d, D, env, touched, TRUE)
  BY DeclaringAdvances
<1>3. d = [c EXCEPT !.live = c.live /\ TRUE]
  OBVIOUS
<1> HIDE DEF c, d
<1>4. /\ d.kind = c.kind /\ d.prev = c.prev /\ d.yes = c.yes /\ d.no = c.no
      /\ d.before = c.before /\ d.taken = c.taken /\ d.escapes = c.escapes
      /\ d.declared = c.declared /\ d.outerEnv = c.outerEnv
      /\ d.outerTouched = c.outerTouched
  BY <1>1, <1>3 DEF Frame
<1>5. /\ b.kind = g.kind /\ b.prev = g.prev /\ b.yes = g.yes /\ b.no = g.no
      /\ b.before = g.before /\ b.escapes = g.escapes
      /\ b.taken = taken /\ b.live = taken
      /\ b.declared = g.declared /\ b.outerEnv = g.outerEnv
      /\ b.outerTouched = g.outerTouched
  BY DEF Branch, Frame
<1>6. /\ f \in Frame
      /\ f.kind = c.kind /\ f.prev = c.prev /\ f.yes = c.yes /\ f.no = c.no
      /\ f.before = c.before /\ f.escapes = c.escapes
      /\ f.taken = taken /\ f.live = taken
      /\ f.declared = c.declared /\ f.outerEnv = c.outerEnv
      /\ f.outerTouched = c.outerTouched
  BY <1>1 DEF Branch, Frame
<1> HIDE DEF b, f
<1>7. Advanced(b, f, D, env, touched, TRUE)
  <2>1. /\ d.kind = g.kind /\ d.prev = g.prev /\ d.yes = g.yes /\ d.no = g.no
        /\ d.before = g.before /\ d.declared = g.declared \cup D
        /\ d.escapes => g.escapes
    BY <1>2 DEF Advanced
  <2>2. f.live = (b.live /\ TRUE)
    BY <1>5, <1>6
  <2>3. \A k \in Key :
          IF k \in KeysOf(D \ g.declared)
          THEN d.outerEnv[k] = env[k] /\ d.outerTouched[k] = touched[k]
          ELSE d.outerEnv[k] = g.outerEnv[k] /\ d.outerTouched[k] = g.outerTouched[k]
    BY <1>2 DEF Advanced
  <2>4. \A k \in Key :
          IF k \in KeysOf(D \ b.declared)
          THEN f.outerEnv[k] = env[k] /\ f.outerTouched[k] = touched[k]
          ELSE f.outerEnv[k] = b.outerEnv[k] /\ f.outerTouched[k] = b.outerTouched[k]
    <3>1. /\ f.outerEnv = d.outerEnv /\ f.outerTouched = d.outerTouched
          /\ b.outerEnv = g.outerEnv /\ b.outerTouched = g.outerTouched
          /\ b.declared = g.declared
      BY <1>4, <1>5, <1>6
    <3> QED
      BY <2>3, <3>1
  <2>5. f.escapes => b.escapes \/ ~TRUE
    BY <1>4, <1>5, <1>6, <2>1
  <2>6. /\ f.kind = b.kind /\ f.prev = b.prev /\ f.yes = b.yes /\ f.no = b.no
        /\ f.before = b.before /\ f.taken = b.taken
        /\ f.declared = b.declared \cup D
    BY <1>4, <1>5, <1>6, <2>1
  <2> QED
    BY <2>2, <2>4, <2>5, <2>6 DEF Advanced
<1> QED
  BY <1>6, <1>7 DEF b, f, c

LEMMA LoopFacts ==
  ASSUME TypedWalk, TypedWalk', FactsInv, NEW W \in SUBSET Var, NEW D \in SUBSET Var,
         Loop(W, D)
  PROVE  FactsInv'
<1> DEFINE n    == Len(stack)
           bare == NewFrame("loop", current, {}, {})
           hav  == [bare EXCEPT !.havoc = W]
           e    == Source({}, NextScope)
           M    == W \cup D
<1>1. PICK w \in Walk : Shows(w) /\ Consistent(w)
  BY DEF FactsInv
<1>2. PICK taken \in BOOLEAN, new \in Values(M) :
        /\ MayTake(taken, {}, {})
        /\ Mutate(M, new, taken)
        /\ stack' = Append(stack, Branch(Declaring(hav, D), taken))
  BY DEF Loop
<1> DEFINE f0 == Branch(hav, taken)
           f  == Branch(Declaring(hav, D), taken)
<1>3. /\ n \in Nat /\ n >= 1 /\ n = Len(w.st) /\ w.st = stack
      /\ w.ev = events /\ w.pa = path /\ w.cu = current /\ w.ck = clock
      /\ w.env[n] = env /\ w.since[n] = touched /\ n = Len(stack)
      /\ Top.live \in BOOLEAN /\ (w.here[n] <=> Top.live)
      /\ clock \in Nat /\ clock + 1 \in Nat
  BY <1>1, TopLevel, ClockTyped
<1>4. /\ path' = Append(path, path[current] \cup {Len(path) + 1}) /\ current' = Len(path) + 1
      /\ events' = Append(events, e)
      /\ clock' = clock + 1 /\ stack' = Append(stack, f)
      /\ ~(Fragment /\ M # {})
  BY <1>2 DEF Loop, NextStmt, Open, Opened, NextScope, Fragment
<1>5. bare \in Frame
  BY NewFrameType, ScopesTyped DEF Kinds
<1>6. /\ bare.kind = "loop" /\ bare.prev = current /\ bare.yes = {} /\ bare.no = {}
      /\ bare.declared = {} /\ bare.escapes = FALSE
  BY DEF NewFrame
<1> HIDE DEF bare
<1>7. /\ hav \in Frame
      /\ hav.kind = "loop" /\ hav.prev = current /\ hav.yes = {} /\ hav.no = {}
      /\ hav.declared = {} /\ hav.escapes = FALSE
  BY <1>5, <1>6 DEF Frame
<1> HIDE DEF hav
<1>8. /\ f0 \in Frame /\ f0.kind = "loop" /\ f0.prev = current /\ f0.yes = {} /\ f0.no = {}
      /\ f0.declared = {} /\ f0.escapes = FALSE
      /\ f0.taken = taken /\ f0.live = taken
  BY <1>7 DEF Branch, Frame
<1>9. f \in Frame /\ Advanced(f0, f, D, env, touched, TRUE)
  BY <1>7, BranchDeclaring
<1>10. e \in Entry /\ e.scope = Len(path) + 1 /\ e.at = 0 /\ e.wrote = {} /\ Planted(e) = {}
       /\ Standing(e) = {}
  BY SourceType, SourceFields, ScopesTyped DEF NextScope, Standing, Planted
<1>11. Begins(w, n, f0)
  BY <1>2, <1>3, <1>8 DEF Begins, MayTake
<1>12. Assumes(w, n, f0, e, clock)
  BY <1>3, <1>8, NothingAssumed
<1> HIDE DEF n, f0, f, e, M
<1>13. Pushed(w, n, f0, e, clock)
  BY <1>1, <1>3, <1>8, <1>10, <1>11, <1>12, PushKeeps
<1>14. PICK x \in Walk :
         /\ x.ev = Append(w.ev, e) /\ x.pa = Append(w.pa, w.pa[w.cu] \cup {Len(w.pa) + 1})
         /\ x.cu = Len(w.pa) + 1 /\ x.st = Append(w.st, f0) /\ x.ck = clock
         /\ x.env[n + 1] = w.env[n] /\ x.since[n + 1] = w.since[n]
         /\ x.here[n + 1] = f0.taken
         /\ Consistent(x)
  BY <1>13 DEF Pushed
<1>15. /\ Append(stack, f0) \in Seq(Frame) /\ Len(Append(stack, f0)) = n + 1
       /\ Append(stack, f0)[n + 1] = f0
       /\ \A d \in 1..n : Append(stack, f0)[d] = stack[d]
       /\ Append(stack, f) \in Seq(Frame) /\ Len(Append(stack, f)) = n + 1
       /\ Append(stack, f)[n + 1] = f
       /\ \A d \in 1..n : Append(stack, f)[d] = stack[d]
  <2>1. stack \in Seq(Frame) /\ Len(stack) = n /\ f0 \in Frame /\ f \in Frame
    BY <1>3, <1>8, <1>9 DEF TypedWalk, TypeOK
  <2> QED
    BY <2>1
<1>16. M \in SUBSET Var
  BY DEF M
<1>17. Runs(x, n + 1, D, M, TRUE, stack', env', touched')
  <2>1. \A d \in 1..(n + 1) - 1 : d \in 1..n
    BY <1>3
  <2>2. \A k \in Key :
          IF taken /\ k \in KeysOf(M) THEN touched'[k] = clock + 1
          ELSE env'[k] = env[k] /\ touched'[k] = touched[k]
    BY <1>2, MutateRuns
  <2>3. /\ Len(x.st) = n + 1 /\ Len(stack') = n + 1
        /\ \A d \in 1..n : stack'[d] = x.st[d]
        /\ x.st[n + 1] = f0 /\ stack'[n + 1] = f
    BY <1>3, <1>4, <1>14, <1>15
  <2>4. /\ x.env[n + 1] = env /\ x.since[n + 1] = touched /\ x.ck = clock
        /\ x.here[n + 1] = taken
    BY <1>3, <1>8, <1>14
  <2> QED
    BY <1>9, <2>1, <2>2, <2>3, <2>4 DEF Runs
<1>18. Reports(x, n + 1, M, TRUE, stack', env', touched', e, x.ev)
  <2>1. 0 <= clock + 1
    BY <1>3
  <2> QED
    BY <1>3, <1>4, <1>10, <1>14, <2>1 DEF Reports
<1>19. Kept(x, n + 1, TRUE, stack', env', touched', x.ev)
  <2>1. n + 1 \in Nat /\ n + 1 >= 1
    BY <1>3
  <2>2. stack' \in Seq(Frame) /\ env' \in [Key -> Value] /\ touched' \in [Key -> Nat]
    BY DEF TypedWalk, TypeOK
  <2> DEFINE m == n + 1
  <2>3. /\ m \in Nat /\ m >= 1 /\ Runs(x, m, D, M, TRUE, stack', env', touched')
        /\ Reports(x, m, M, TRUE, stack', env', touched', e, x.ev)
    BY <1>17, <1>18, <2>1
  <2> HIDE DEF m
  <2>4. Kept(x, m, TRUE, stack', env', touched', x.ev)
    BY <1>10, <1>14, <1>16, <2>2, <2>3, StatementKeeps
  <2> QED
    BY <2>4 DEF m
<1>20. PICK y \in Walk :
         /\ y.ev = x.ev /\ y.pa = x.pa /\ y.cu = x.cu /\ y.st = stack' /\ y.ck = x.ck + 1
         /\ y.env[n + 1] = env' /\ y.since[n + 1] = touched'
         /\ Consistent(y)
  BY <1>19 DEF Kept
<1>21. Shows(y)'
  BY <1>3, <1>4, <1>14, <1>15, <1>20 DEF Shows
<1> QED
  BY <1>20, <1>21 DEF FactsInv

LEMMA DeclaringOnly ==
  ASSUME TypedWalk, NEW g \in Frame, NEW D \in SUBSET Var
  PROVE  /\ Declaring(g, D) \in Frame
         /\ Advanced(g, Declaring(g, D), D, env, touched, TRUE)
         /\ Declaring(g, D).declared = g.declared \cup D
<1> DEFINE d == [Declaring(g, D) EXCEPT !.live = @ /\ TRUE]
           c == Declaring(g, D)
<1>1. c \in Frame
  BY DeclaringType DEF TypedWalk, TypeOK
<1>2. Advanced(g, d, D, env, touched, TRUE)
  BY DeclaringAdvances
<1>3. d = [c EXCEPT !.live = c.live /\ TRUE] /\ c.live \in BOOLEAN
  BY <1>1 DEF Frame
<1> HIDE DEF c, d
<1>4. d = c
  BY <1>1, <1>3 DEF Frame
<1>5. Advanced(g, c, D, env, touched, TRUE) /\ c.declared = g.declared \cup D
  BY <1>2, <1>4 DEF Advanced
<1> QED
  BY <1>1, <1>5 DEF c

\* What prove.That's success says of the values after the assignment.
LEMMA ProvedHold ==
  ASSUME TypedWalk, NEW V \in SUBSET Subject, NEW k \in Subject, NEW c \in Claim,
         NEW new, \A v \in V : new[v] = env[k], Mutate(Roots(V), new, Top.live),
         Top.live, True(c, k), NEW g \in ProveTargets(V, k, c)
  PROVE  g.asOf >= touched'[g.key] => g.claim \cap env'[g.key] # {}
<1>1. \A v \in V : v \in Key /\ v \in KeysOf(Roots(V))
  BY VarType, RootsType
<1>2. k \in Key /\ clock \in Nat
  BY VarType, ClockTyped
<1>3. \A j \in Key :
        IF j \in KeysOf(Roots(V)) THEN touched'[j] = clock + 1 /\ env'[j] = new[j]
        ELSE env'[j] = env[j] /\ touched'[j] = touched[j]
  BY RootsType, MutateRuns
<1>4. CASE g.key \in V /\ g.claim = c
  BY <1>1, <1>3, <1>4 DEF True
<1>5. CASE g.key = k /\ g.claim = c /\ g.asOf = clock
  <2>1. ~(clock >= clock + 1)
    BY <1>2
  <2> QED
    BY <1>2, <1>3, <1>5, <2>1 DEF True
<1> QED
  BY <1>4, <1>5 DEF ProveTargets

\* They take into account the writes before the check, and its own.
LEMMA ProvedInOrder ==
  ASSUME TypedWalk, NEW V \in SUBSET Subject, NEW k \in Subject, NEW c \in Claim,
         k \in V \/ Root[k] \notin Roots(V), NEW g \in ProveTargets(V, k, c),
         NEW e \in Entry, e.at <= clock \/ (e.at = clock + 1 /\ e.wrote = Roots(V))
  PROVE  After(e, g) /\ g.asOf <= clock + 1
<1>1. clock \in Nat /\ e.at \in Nat
  BY ClockTyped DEF Entry
<1>2. CASE g.asOf = clock + 1
  BY <1>1, <1>2 DEF After
<1>3. CASE g.key = k /\ k \notin V /\ g.asOf = clock
  BY <1>1, <1>3 DEF After
<1> QED
  BY <1>2, <1>3 DEF ProveTargets

LEMMA ProveThatIfFacts ==
  ASSUME TypedWalk, TypedWalk', FactsInv, NEW V \in {{}} \cup {{l} : l \in Subject},
         NEW k \in Subject, NEW c \in Claim,
         NEW mode, NEW op, op \in {"==", "!="}, ProveThatIf(mode, V, k, c, op)
  PROVE  FactsInv'
<1> DEFINE n       == Len(stack)
           W       == Roots(V)
           D       == Declares(mode, W)
           proved  == ProveTargets(V, k, c)
           yes     == IF op = "==" THEN proved ELSE {}
           no      == IF op = "!=" THEN proved ELSE {}
           taken   == Top.live /\ (True(c, k) <=> op = "==")
           opening == Declaring(Top, D)
           base    == [stack EXCEPT ![Len(stack)] = opening]
           f       == Branch(NewFrame("then", current, yes, no), taken)
           wrote   == Recorded({}, W, clock + 1, {}, current)
           planted == Source(yes, NextScope)
<1>1. PICK w \in Walk : Shows(w) /\ Consistent(w)
  BY DEF FactsInv
<1>2. PICK new : /\ \A v \in V : new[v] = env[k]
                 /\ Mutate(Roots(V), new, Top.live)
  BY DEF ProveThatIf
<1>3. /\ n \in Nat /\ n >= 1 /\ n = Len(w.st) /\ w.st = stack /\ w.st[n] = Top /\ n \in 1..n
      /\ w.ev = events /\ w.pa = path /\ w.cu = current /\ w.ck = clock
      /\ w.env[n] = env /\ w.since[n] = touched /\ n = Len(stack)
      /\ Top \in Frame /\ Top.live \in BOOLEAN /\ (w.here[n] <=> Top.live)
      /\ clock \in Nat /\ clock + 1 \in Nat
  BY <1>1, TopLevel, ClockTyped
<1>4. /\ V \in SUBSET Subject /\ W \in SUBSET Var /\ W \in SUBSET Key
      /\ D \in SUBSET Var
      /\ \A v \in W : Root[v] = v
  BY VarType, RootsType DEF Declares, Var
<1>5. /\ path' = Append(path, path[current] \cup {Len(path) + 1}) /\ current' = Len(path) + 1
      /\ events' = Append(Append(events, wrote), planted)
      /\ clock' = clock + 1 /\ stack' = Append(base, f)
      /\ \A v \in V : MayBind(mode, v)
      /\ "selfthat" \in Constructs \/ k \in V \/ Root[k] \notin Roots(V)
  BY DEF ProveThatIf, NextStmt, Opened, NextScope
<1>6. /\ proved \in SUBSET DatedFact /\ yes \in SUBSET DatedFact /\ no \in SUBSET DatedFact
      /\ yes \subseteq proved /\ no \subseteq proved
  BY <1>4, ProveTargetsType
<1>7. /\ taken \in BOOLEAN /\ (taken => Top.live)
      /\ taken /\ yes # {} => True(c, k)
      /\ Top.live /\ ~taken /\ no # {} => True(c, k)
  BY <1>3 DEF True
<1>8. wrote \in Entry /\ planted \in Entry
  BY <1>3, <1>4, <1>6, RecordedType, SourceType, OpenedType, ScopesTyped
<1>9. /\ wrote.scope = current /\ wrote.at = clock + 1 /\ wrote.wrote = W
      /\ Planted(wrote) = {} /\ Standing(wrote) = {}
  BY DEF Recorded, Planted, Standing
<1>10. /\ planted.scope = Len(path) + 1 /\ planted.wrote = {} /\ planted.at = 0
       /\ Planted(planted) = yes
  BY SourceFields DEF NextScope
<1>11. /\ opening \in Frame /\ Advanced(Top, opening, D, env, touched, TRUE)
       /\ opening.declared = Top.declared \cup D
  BY <1>3, <1>4, DeclaringOnly
<1> HIDE DEF opening
<1>12. /\ base \in Seq(Frame) /\ Len(base) = n /\ base[n] = opening
       /\ \A d \in 1..n - 1 : base[d] = stack[d]
  <2>1. stack \in Seq(Frame)
    BY DEF TypedWalk, TypeOK
  <2>2. \A d \in 1..n - 1 : d \in 1..n /\ d # n
    BY <1>3
  <2>3. /\ base \in Seq(Frame) /\ Len(base) = n
        /\ \A d \in 1..n : base[d] = IF d = n THEN opening ELSE stack[d]
    BY <1>3, <1>11, <2>1, ExceptSeq
  <2> QED
    BY <1>3, <2>2, <2>3
<1>13. /\ f \in Frame /\ f.kind = "then" /\ f.prev = current /\ f.yes = yes /\ f.no = no
       /\ f.declared = {} /\ f.escapes = FALSE
       /\ f.taken = taken /\ f.live = taken
  <2>1. current \in Nat /\ "then" \in Kinds
    BY ScopesTyped DEF Kinds
  <2> HIDE DEF yes, no, taken
  <2>2. Enters(f, "then", current, yes, no, taken)
    BY <1>6, <1>7, <2>1, NewBranch
  <2> HIDE DEF f
  <2> QED
    BY <2>2 DEF Enters
<1> HIDE DEF n, W, D, proved, yes, no, taken, base, f, wrote, planted
<1>14. Runs(w, n, D, W, TRUE, base, env', touched')
  <2>1. \A j \in Key :
          IF w.here[n] /\ j \in KeysOf(W) THEN touched'[j] = w.ck + 1
          ELSE env'[j] = w.env[n][j] /\ touched'[j] = w.since[n][j]
    BY <1>2, <1>3, <1>4, MutateRuns DEF W
  <2>2. Advanced(w.st[n], base[n], D, w.env[n], w.since[n], TRUE)
    BY <1>3, <1>11, <1>12
  <2> QED
    BY <1>3, <1>12, <2>1, <2>2 DEF Runs
<1>15. Reports(w, n, W, TRUE, base, env', touched', wrote, Append(events, wrote))
  <2>1. ASSUME Fragment, W # {} PROVE W \subseteq base[n].declared \/ n = 1
    <3>1. base[n].declared = Top.declared \cup D
      BY <1>11, <1>12
    <3>2. CASE mode = ":="
      BY <3>1, <3>2 DEF D, Declares
    <3>3. CASE mode # ":="
      BY <1>3, <1>4, <1>5, <2>1, <3>1, <3>3 DEF Fragment, MayBind, W, Roots
    <3> QED
      BY <3>2, <3>3
  <2> QED
    BY <1>3, <1>9, <2>1 DEF Reports
<1>16. PICK x \in Walk :
         /\ x.ev = Append(events, wrote) /\ x.pa = path /\ x.cu = current
         /\ x.st = base /\ x.ck = clock + 1
         /\ x.env[n] = env' /\ x.since[n] = touched'
         /\ x.here[n] <=> w.here[n]
         /\ Consistent(x)
  <2>1. env' \in [Key -> Value] /\ touched' \in [Key -> Nat]
    BY DEF TypedWalk, TypeOK
  <2>2. Kept(w, n, TRUE, base, env', touched', Append(events, wrote))
    BY <1>1, <1>3, <1>4, <1>8, <1>12, <1>14, <1>15, <2>1, StatementKeeps
  <2> QED
    BY <1>3, <2>2 DEF Kept
<1>17. Begins(x, n, f)
  <2>1. taken => x.here[n]
    BY <1>3, <1>7, <1>16
  <2> QED
    BY <1>13, <2>1 DEF Begins
<1>18. Assumes(x, n, f, planted, clock + 1)
  <2>1. ASSUME NEW g \in proved, Top.live, True(c, k) PROVE Holds(x, n, g)
    BY <1>2, <1>4, <1>16, <2>1, ProvedHold DEF Holds, proved
  <2>2. ASSUME NEW g \in proved PROVE g.asOf <= clock + 1
    BY <1>4, <2>2, <1>3 DEF proved, ProveTargets
  <2>3. ASSUME Attentive, NEW g \in proved, NEW j \in 1..Len(x.ev)
        PROVE  After(x.ev[j], g)
    <3>1. x.ev[j] \in Entry
      BY WalkType
    <3>2. x.ev[j].at <= clock \/ (x.ev[j].at = clock + 1 /\ x.ev[j].wrote = W)
      <4>1. /\ events \in Seq(Entry) /\ Len(x.ev) = Len(events) + 1
            /\ Len(events) \in Nat /\ x.ev[Len(events) + 1] = wrote
            /\ \A i \in 1..Len(events) : x.ev[i] = events[i]
        BY <1>8, <1>16, AppendEntry, ScopesTyped, LenProperties
      <4>2. \A i \in 1..Len(events) : events[i].at <= clock
        BY <1>1, <1>3 DEF Consistent, Dates
      <4>3. j \in 1..Len(events) \/ j = Len(events) + 1
        BY <4>1
      <4> QED
        BY <1>9, <4>1, <4>2, <4>3
    <3>3. k \in V \/ Root[k] \notin Roots(V)
      BY <1>5, <2>3 DEF Attentive
    <3> QED
      BY <1>4, <2>3, <3>1, <3>2, <3>3, ProvedInOrder DEF proved, W
  <2>4. f.taken => \A g \in Planted(planted) : Holds(x, n, g)
    BY <1>6, <1>7, <1>10, <1>13, <2>1
  <2>5. x.here[n] => \A g \in Held(f) : Holds(x, n, g)
    <3>1. Held(f) = IF taken THEN yes ELSE no
      BY <1>13 DEF Held
    <3> QED
      BY <1>3, <1>6, <1>7, <1>16, <2>1, <3>1
  <2>6. planted.at <= clock + 1
    BY <1>3, <1>10
  <2> QED
    BY <1>6, <1>10, <1>13, <2>2, <2>3, <2>4, <2>5, <2>6 DEF Assumes
<1>19. Pushed(x, n, f, planted, clock + 1)
  <2>1. planted.scope = Len(x.pa) + 1 /\ f.prev = x.cu /\ n = Len(x.st)
        /\ clock + 1 \in {x.ck, x.ck + 1}
    BY <1>10, <1>12, <1>13, <1>16
  <2> DEFINE ck == clock + 1
  <2>2. ck \in {x.ck, x.ck + 1} /\ Assumes(x, n, f, planted, ck)
    BY <1>18, <2>1
  <2> HIDE DEF ck
  <2>3. Pushed(x, n, f, planted, ck)
    <3>1. /\ x \in Walk /\ Consistent(x) /\ n \in Nat /\ n >= 1 /\ f \in Frame
          /\ Begins(x, n, f) /\ planted \in Entry /\ planted.wrote = {}
      BY <1>3, <1>8, <1>10, <1>13, <1>16, <1>17
    <3> QED
      BY <2>1, <2>2, <3>1, PushKeeps
  <2> QED
    BY <2>3 DEF ck
<1>20. PICK y \in Walk :
         /\ y.ev = Append(x.ev, planted)
         /\ y.pa = Append(x.pa, x.pa[x.cu] \cup {Len(x.pa) + 1})
         /\ y.cu = Len(x.pa) + 1 /\ y.st = Append(x.st, f) /\ y.ck = clock + 1
         /\ y.env[n + 1] = x.env[n] /\ y.since[n + 1] = x.since[n]
         /\ Consistent(y)
  BY <1>19 DEF Pushed
<1>21. Len(stack') = n + 1
  BY <1>5, <1>12, <1>13
<1>22. Shows(y)'
  BY <1>5, <1>16, <1>20, <1>21 DEF Shows
<1> QED
  BY <1>20, <1>22 DEF FactsInv

-----------------------------------------------------------------------------
(* The end of a branch, and what follows it.                               *)

LEMMA PoppedShape ==
  ASSUME TypedWalk, NEW w \in Walk, Shows(w), Consistent(w), Top.kind # "func",
         NEW n, n = Len(stack)
  PROVE  /\ n \in Nat /\ n >= 2 /\ n - 1 \in Nat /\ n - 1 >= 1 /\ (n - 1) + 1 = n
         /\ n \in 2..n /\ n - 1 \in 1..n - 1
         /\ Popped \in Seq(Frame) /\ Len(Popped) = n - 1
         /\ \A d \in 1..n - 2 : Popped[d] = w.st[d]
         /\ Rejoins(w.st[n - 1], Popped[n - 1], w.here[n - 1])
         /\ Outer.live \in BOOLEAN /\ (w.here[n - 1] <=> Outer.live)
         /\ (w.here[n - 1] <=> IF Top.taken THEN Top.live ELSE stack[n - 1].live)
<1>1. /\ n \in Nat /\ n = Len(w.st) /\ w.st = stack /\ w.st[n] = Top /\ Top \in Frame
      /\ Top.live \in BOOLEAN /\ (w.here[n] <=> Top.live)
  BY TopLevel
<1>2. Len(stack) > 1 /\ WellNested(stack, Len(path)) /\ Len(path) \in Nat
  BY NestedTop, ScopesTyped
<1>3. /\ n >= 2 /\ n - 1 \in Nat /\ n - 1 >= 1 /\ (n - 1) + 1 = n
      /\ n \in 2..n /\ n - 1 \in 1..n - 1 /\ n - 1 \in 1..n
      /\ \A d \in 1..n - 2 : d \in 1..n - 1 /\ d # n - 1
  BY <1>1, <1>2
<1>4. /\ WellNested(Rest, Len(path)) /\ Len(Rest) = n - 1
      /\ \A j \in 1..n - 1 : Rest[j] = stack[j]
  BY <1>1, <1>2, NestedFront DEF Rest
<1>5. Outer \in Frame /\ WellNested(Popped, Len(path))
  BY NestedPopped
<1>6. /\ Len(Popped) = n - 1
      /\ \A d \in 1..n - 1 : Popped[d] = IF d = n - 1 THEN Outer ELSE Rest[d]
  <2>1. Rest \in Seq(Frame)
    BY <1>4 DEF WellNested
  <2> QED
    BY <1>3, <1>4, <1>5, <2>1, ExceptSeq DEF Popped
<1>7. stack[n - 1] \in Frame
  BY <1>1, <1>3, WalkType
<1>8. Outer = [stack[n - 1] EXCEPT !.live = IF Top.taken THEN Top.live ELSE stack[n - 1].live]
  BY <1>1 DEF Outer
<1>9. w.here[n - 1] = IF Top.taken THEN w.here[n] ELSE stack[n - 1].live
  BY <1>1, <1>3 DEF Consistent, Unwinds
<1>10. Outer.live = IF Top.taken THEN Top.live ELSE stack[n - 1].live
  BY <1>7, <1>8 DEF Frame
<1>11. Outer.live \in BOOLEAN /\ w.here[n - 1] \in BOOLEAN
  BY <1>3, <1>5, WalkType DEF Frame
<1>12. w.here[n] = Top.live
  BY <1>1, WalkType
<1>13. Outer.live = w.here[n - 1]
  BY <1>9, <1>10, <1>12
<1>14. Rejoins(stack[n - 1], Outer, w.here[n - 1])
  BY <1>7, <1>8, <1>13 DEF Rejoins, SameBranch, Frame
<1>15. Popped[n - 1] = Outer /\ \A d \in 1..n - 2 : Popped[d] = w.st[d]
  BY <1>1, <1>3, <1>4, <1>6
<1>16. Popped \in Seq(Frame)
  BY <1>5 DEF WellNested
<1> QED
  BY <1>1, <1>3, <1>6, <1>10, <1>11, <1>13, <1>14, <1>15, <1>16

\* The variables go back to what the enclosing level has them be.
LEMMA EndScopeLevel ==
  ASSUME TypedWalk, NEW w \in Walk, Shows(w), Consistent(w), Top.kind # "func",
         NEW n, n = Len(stack), EndScope
  PROVE  env' = w.env[n - 1] /\ touched' = w.since[n - 1]
<1>1. /\ n = Len(w.st) /\ w.st[n] = Top /\ w.env[n] = env /\ w.since[n] = touched
  BY TopLevel
<1>2. n - 1 \in Nat /\ n \in 2..n
  BY PoppedShape
<1>3. \A k \in Key :
        IF Root[k] \in Top.declared
        THEN w.env[n - 1][k] = Top.outerEnv[k] /\ w.since[n - 1][k] = Top.outerTouched[k]
        ELSE w.env[n - 1][k] = env[k] /\ w.since[n - 1][k] = touched[k]
  BY <1>1, <1>2 DEF Consistent, Unwinds
<1>4. w.env[n - 1] \in [Key -> Value] /\ w.since[n - 1] \in [Key -> Nat]
  BY <1>2, WalkType
<1>5. env' \in [Key -> Value] /\ touched' \in [Key -> Nat]
  BY EndScopeType, NestedTop DEF TypedWalk
<1>6. \A k \in Key : env'[k] = w.env[n - 1][k] /\ touched'[k] = w.since[n - 1][k]
  BY <1>3 DEF EndScope, KeysOf
<1> QED
  BY <1>4, <1>5, <1>6

LEMMA CloseFacts ==
  ASSUME TypedWalk, NEW w \in Walk, Shows(w), Consistent(w), Top.kind # "func",
         NEW n, n = Len(stack), NEW F \in SUBSET DatedFact, Close(F),
         Recovers(w, n, Source(F, Top.prev))
  PROVE  FactsInv'
<1> DEFINE e == Source(F, Top.prev)
<1>1. /\ n = Len(w.st) /\ w.st[n] = Top
      /\ w.ev = events /\ w.pa = path /\ w.ck = clock
  BY TopLevel
<1>2. /\ n \in Nat /\ n >= 2
      /\ Popped \in Seq(Frame) /\ Len(Popped) = n - 1
      /\ \A d \in 1..n - 2 : Popped[d] = w.st[d]
      /\ Rejoins(w.st[n - 1], Popped[n - 1], w.here[n - 1])
  BY PoppedShape
<1>3. e \in Entry /\ e.scope = w.st[n].prev
  BY <1>1, SourceType, SourceFields, NestedTop
<1>4. /\ events' = Append(w.ev, e) /\ stack' = Popped /\ current' = Top.prev
      /\ path' = path /\ clock' = clock /\ EndScope
  BY <1>1 DEF Close
<1>5. env' = w.env[n - 1] /\ touched' = w.since[n - 1]
  BY <1>4, EndScopeLevel
<1>6. Recovers(w, n, e)
  OBVIOUS
<1> HIDE DEF e
<1>7. Unwound(w, n, Popped, Append(w.ev, e))
  <2> DEFINE ev == Append(w.ev, e)
  <2>1. ev \in {w.ev, Append(w.ev, e)}
    OBVIOUS
  <2> HIDE DEF ev
  <2>2. Unwound(w, n, Popped, ev)
    BY <1>1, <1>2, <1>3, <1>6, <2>1, PopKeeps
  <2> QED
    BY <2>2 DEF ev
<1>8. PICK x \in Walk :
        /\ x.ev = Append(w.ev, e) /\ x.pa = w.pa /\ x.cu = w.st[n].prev /\ x.st = Popped
        /\ x.ck = w.ck /\ x.env = w.env /\ x.since = w.since
        /\ Consistent(x)
  BY <1>7 DEF Unwound
<1>9. Shows(x)'
  BY <1>1, <1>2, <1>4, <1>5, <1>8 DEF Shows
<1> QED
  BY <1>8, <1>9 DEF FactsInv

\* An execution that has passed an escaping branch did not take it.
LEMMA EscapedPassed ==
  ASSUME TypedWalk, NEW w \in Walk, Shows(w), Consistent(w), Top.kind # "func",
         NEW n, n = Len(stack), Top.escapes, w.here[n - 1]
  PROVE  ~Top.taken
<1>1. n = Len(w.st) /\ w.st[n] = Top /\ n \in 1..n
  BY TopLevel
<1>2. ~Top.live
  BY <1>1 DEF Consistent, Branches
<1>3. w.here[n - 1] <=> IF Top.taken THEN Top.live ELSE stack[n - 1].live
  BY PoppedShape
<1> QED
  BY <1>2, <1>3

LEMMA EndThenFacts ==
  ASSUME TypedWalk, FactsInv, EndThen
  PROVE  FactsInv'
<1> DEFINE n == Len(stack)
           F == IF Top.escapes THEN Top.no ELSE {}
<1>1. PICK w \in Walk : Shows(w) /\ Consistent(w)
  BY DEF FactsInv
<1>2. Top.kind = "then" /\ Close(F) /\ n = Len(stack) /\ w.st[n] = Top
  BY <1>1, TopLevel DEF EndThen
<1>3. F \in SUBSET DatedFact /\ F \subseteq Top.no /\ (F # {} => Top.escapes)
  BY BranchFacts
<1> HIDE DEF n, F
<1>4. ASSUME w.here[n - 1], F # {} PROVE ~Top.taken
  BY <1>1, <1>2, <1>3, <1>4, EscapedPassed
<1>5. Recovers(w, n, Source(F, Top.prev))
  BY <1>2, <1>3, <1>4, SourceFields DEF Recovers, Held
<1>6. Top.kind # "func"
  BY <1>2
<1> QED
  BY <1>1, <1>2, <1>3, <1>5, <1>6, CloseFacts

\* After an if-else, the execution took the branch that falls through.
LEMMA EndElseFacts ==
  ASSUME TypedWalk, FactsInv, EndElse
  PROVE  FactsInv'
<1> DEFINE n == Len(stack)
<1>1. PICK w \in Walk : Shows(w) /\ Consistent(w)
  BY DEF FactsInv
<1>2. /\ Top.kind \in {"else", "elseif"} /\ Close(Surviving) /\ n = Len(stack)
      /\ n = Len(w.st) /\ w.st[n] = Top
  BY <1>1, TopLevel DEF EndElse
<1>3. Top.kind # "func" /\ Top.kind # "then"
  BY <1>2
<1> HIDE DEF n
<1>4. Surviving \in SUBSET DatedFact
  BY BranchFacts DEF Surviving
<1>5. Surviving \subseteq Top.yes \cup Top.no
  BY DEF Surviving
<1>6. ASSUME w.here[n - 1] PROVE Surviving \subseteq Held(Top)
  <2>1. Held(Top) = IF Top.taken THEN Top.no ELSE Top.yes
    BY <1>2, <1>3 DEF Held
  <2>2. CASE Top.before /\ ~(Top.kind = "else" /\ Top.escapes)
    <3>1. n \in 2..n
      BY <1>1, <1>2, <1>3, PoppedShape
    <3>2. Top.taken
      BY <1>1, <1>2, <1>6, <2>2, <3>1 DEF Consistent, Branches
    <3> QED
      BY <2>1, <2>2, <3>2 DEF Surviving
  <2>3. CASE ~Top.before /\ (Top.kind = "else" /\ Top.escapes)
    <3>1. ~Top.taken
      BY <1>1, <1>2, <1>3, <1>6, <2>3, EscapedPassed
    <3> QED
      BY <2>1, <2>3, <3>1 DEF Surviving
  <2>4. CASE /\ ~(Top.before /\ ~(Top.kind = "else" /\ Top.escapes))
             /\ ~(~Top.before /\ (Top.kind = "else" /\ Top.escapes))
    BY <2>4 DEF Surviving
  <2> QED
    BY <2>2, <2>3, <2>4
<1>7. Recovers(w, n, Source(Surviving, Top.prev))
  BY <1>2, <1>5, <1>6, SourceFields DEF Recovers
<1> QED
  BY <1>1, <1>2, <1>3, <1>4, <1>7, CloseFacts

LEMMA EndBodyFacts ==
  ASSUME TypedWalk, FactsInv, EndBody
  PROVE  FactsInv'
<1> DEFINE n == Len(stack)
<1>1. PICK w \in Walk : Shows(w) /\ Consistent(w)
  BY DEF FactsInv
<1>2. Top.kind # "func" /\ Close({}) /\ n = Len(stack) /\ {} \in SUBSET DatedFact
  BY DEF EndBody
<1>3. Recovers(w, n, Source({}, Top.prev))
  BY SourceFields DEF Recovers
<1> HIDE DEF n
<1> QED
  BY <1>1, <1>2, <1>3, CloseFacts

\* The branch is closed with nothing recorded.
LEMMA PoppedWalk ==
  ASSUME TypedWalk, NEW w \in Walk, Shows(w), Consistent(w), Top.kind # "func",
         NEW n, n = Len(stack)
  PROVE  Unwound(w, n, Popped, w.ev)
<1> DEFINE e == Source({}, Top.prev)
<1>1. n = Len(w.st) /\ w.st[n] = Top
  BY TopLevel
<1>2. /\ n \in Nat /\ n >= 2
      /\ Popped \in Seq(Frame) /\ Len(Popped) = n - 1
      /\ \A d \in 1..n - 2 : Popped[d] = w.st[d]
      /\ Rejoins(w.st[n - 1], Popped[n - 1], w.here[n - 1])
  BY PoppedShape
<1>3. e \in Entry /\ e.scope = w.st[n].prev
  BY <1>1, SourceType, SourceFields, NestedTop
<1>4. Recovers(w, n, e)
  BY SourceFields DEF Recovers
<1> HIDE DEF e
<1> DEFINE ev == w.ev
<1>5. ev \in {w.ev, Append(w.ev, e)}
  OBVIOUS
<1> HIDE DEF ev
<1>6. Unwound(w, n, Popped, ev)
  BY <1>1, <1>2, <1>3, <1>4, <1>5, PopKeeps
<1> QED
  BY <1>6 DEF ev

LEMMA SiblingFields ==
  ASSUME TypedWalk, Top.kind # "func", NEW kind \in Kinds
  PROVE  LET f == Sibling(kind)
         IN  /\ f \in Frame /\ f.kind = kind /\ f.prev = Top.prev
             /\ f.yes = Top.yes /\ f.no = Top.no /\ f.before = Top.escapes
             /\ f.declared = {} /\ f.escapes = FALSE
             /\ f.taken = PassedBy /\ f.live = PassedBy
<1> DEFINE bare == NewFrame(kind, Top.prev, Top.yes, Top.no)
           g    == [bare EXCEPT !.before = Top.escapes]
           f    == Branch(g, PassedBy)
<1>1. bare \in Frame
  BY NewFrameType, NestedTop, BranchFacts, ScopesTyped
<1>2. /\ bare.kind = kind /\ bare.prev = Top.prev /\ bare.yes = Top.yes
      /\ bare.no = Top.no /\ bare.declared = {} /\ bare.escapes = FALSE
  BY DEF NewFrame
<1> HIDE DEF bare
<1>3. Top.escapes \in BOOLEAN /\ PassedBy \in BOOLEAN
  BY NestedTop, NestedPopped DEF Frame
<1>4. /\ g \in Frame /\ g.kind = bare.kind /\ g.prev = bare.prev /\ g.yes = bare.yes
      /\ g.no = bare.no /\ g.declared = bare.declared /\ g.escapes = bare.escapes
      /\ g.before = Top.escapes
  BY <1>1, <1>3 DEF Frame
<1>5. Sibling(kind) = f
  BY DEF Sibling, bare
<1> HIDE DEF g
<1>6. /\ f \in Frame /\ f.kind = g.kind /\ f.prev = g.prev /\ f.yes = g.yes
      /\ f.no = g.no /\ f.declared = g.declared /\ f.escapes = g.escapes
      /\ f.before = g.before /\ f.taken = PassedBy /\ f.live = PassedBy
  BY <1>3, <1>4 DEF Branch, Frame
<1> HIDE DEF f
<1> QED
  BY <1>2, <1>4, <1>5, <1>6

\* The walk once the then branch is closed and its else is open.
Beside(w, n, kind) ==
  \E y \in Walk :
    /\ y.ev = Append(events, Source(Top.no, NextScope)) /\ y.pa = Opened(Top.prev)
    /\ y.cu = NextScope /\ y.st = Append(Popped, Sibling(kind)) /\ y.ck = clock
    /\ y.env[n] = w.env[n - 1] /\ y.since[n] = w.since[n - 1]
    /\ y.here[n] = PassedBy
    /\ Consistent(y)

LEMMA SiblingWalk ==
  ASSUME TypedWalk, NEW w \in Walk, Shows(w), Consistent(w), Top.kind = "then",
         NEW n, n = Len(stack), NEW kind \in {"else", "elseif"}
  PROVE  Beside(w, n, kind)
<1> DEFINE e == Source(Top.no, NextScope)
           f == Sibling(kind)
           m == n - 1
<1>1. /\ n = Len(w.st) /\ w.st[n] = Top /\ n \in 1..n
      /\ w.ev = events /\ w.pa = path /\ w.ck = clock
  BY TopLevel
<1>2. Top.kind # "func" /\ kind \in Kinds /\ kind # "then"
  BY DEF Kinds
<1>3. /\ n \in Nat /\ m \in Nat /\ m >= 1 /\ m + 1 = n
      /\ n \in 2..n /\ m \in 1..m /\ Len(Popped) = m
      /\ Outer.live \in BOOLEAN /\ (w.here[m] <=> Outer.live)
      /\ (w.here[m] <=> IF Top.taken THEN Top.live ELSE stack[m].live)
  BY <1>2, PoppedShape
<1>4. Unwound(w, n, Popped, w.ev)
  BY <1>2, PoppedWalk
<1>5. PICK x \in Walk :
        /\ x.ev = w.ev /\ x.pa = w.pa /\ x.cu = Top.prev /\ x.st = Popped /\ x.ck = w.ck
        /\ x.env = w.env /\ x.since = w.since /\ x.here = w.here
        /\ Consistent(x)
  BY <1>1, <1>4 DEF Unwound
<1>6. /\ f \in Frame /\ f.kind = kind /\ f.prev = Top.prev
      /\ f.yes = Top.yes /\ f.no = Top.no /\ f.before = Top.escapes
      /\ f.declared = {} /\ f.escapes = FALSE
      /\ f.taken = PassedBy /\ f.live = PassedBy
  BY <1>2, SiblingFields
<1>7. NextScope = Len(path) + 1 /\ NextScope \in Nat
  BY ScopesTyped DEF NextScope
<1>8. e \in Entry /\ e.scope = NextScope /\ e.wrote = {} /\ e.at = 0 /\ Planted(e) = Top.no
  BY <1>7, SourceType, SourceFields, BranchFacts
<1>9. PassedBy \in BOOLEAN /\ (PassedBy <=> ~Top.taken /\ w.here[m])
  BY <1>2, <1>3, NestedPopped DEF PassedBy
<1>10. Top.escapes /\ w.here[m] => ~Top.taken
  BY <1>2, EscapedPassed
<1> HIDE DEF e, f, m
<1>11. Begins(x, m, f)
  BY <1>5, <1>6, <1>9, <1>10 DEF Begins
<1>12. Assumes(x, m, f, e, clock)
  <2>1. \A g \in Top.yes \cup Top.no : g.asOf <= clock
    BY <1>1 DEF Consistent, Dates
  <2>2. Held(Top) = IF Top.taken THEN Top.yes ELSE Top.no
    BY DEF Held
  <2>3. Held(f) = IF PassedBy THEN Top.no ELSE Top.yes
    BY <1>2, <1>6 DEF Held
  <2>4. w.here[m] => \A g \in Held(Top) : Holds(w, m, g)
    BY <1>1, <1>3 DEF Consistent, Sound, m
  <2>5. \A g : Holds(x, m, g) <=> Holds(w, m, g)
    BY <1>5 DEF Holds
  <2>6. f.taken => \A g \in Planted(e) : Holds(x, m, g)
    BY <1>6, <1>8, <1>9, <2>2, <2>4, <2>5
  <2>7. x.here[m] => \A g \in Held(f) : Holds(x, m, g)
    BY <1>5, <1>9, <2>2, <2>3, <2>4, <2>5
  <2>8. ASSUME Attentive, NEW g \in Top.yes \cup Top.no, NEW j \in 1..Len(x.ev), Seen(x, j, m)
        PROVE  After(x.ev[j], g)
    <3>1. ScopeAt(x, m) = ScopeAt(w, n - 1)
      <4>1. ScopeAt(x, m) = Top.prev
        BY <1>3, <1>5 DEF ScopeAt
      <4>2. n - 1 # n /\ (n - 1) + 1 = n
        BY <1>3
      <4>3. ScopeAt(w, n - 1) = Top.prev
        BY <1>1, <4>2 DEF ScopeAt
      <4> QED
        BY <4>1, <4>3
    <3>2. Seen(w, j, n - 1) /\ j \in 1..Len(w.ev)
      BY <1>5, <2>8, <3>1 DEF Seen
    <3>3. InOrder(w)
      BY <2>8 DEF Consistent
    <3> QED
      BY <1>1, <1>3, <1>5, <2>8, <3>2, <3>3 DEF InOrder
  <2>9. 0 <= clock
    BY ClockTyped
  <2> QED
    BY <1>6, <1>8, <2>1, <2>6, <2>7, <2>8, <2>9 DEF Assumes
<1>13. Pushed(x, m, f, e, clock)
  BY <1>1, <1>3, <1>5, <1>6, <1>7, <1>8, <1>11, <1>12, PushKeeps
<1>14. PICK y \in Walk :
         /\ y.ev = Append(x.ev, e) /\ y.pa = Append(x.pa, x.pa[x.cu] \cup {Len(x.pa) + 1})
         /\ y.cu = Len(x.pa) + 1 /\ y.st = Append(x.st, f) /\ y.ck = clock
         /\ y.env[m + 1] = x.env[m] /\ y.since[m + 1] = x.since[m]
         /\ y.here[m + 1] = f.taken
         /\ Consistent(y)
  BY <1>13 DEF Pushed
<1>15. /\ y.ev = Append(events, e) /\ y.pa = Opened(Top.prev) /\ y.cu = NextScope
       /\ y.st = Append(Popped, f) /\ y.ck = clock
       /\ y.env[n] = w.env[n - 1] /\ y.since[n] = w.since[n - 1] /\ y.here[n] = PassedBy
  <2>1. m = n - 1
    BY DEF m
  <2> QED
    BY <1>1, <1>3, <1>5, <1>6, <1>7, <1>14, <2>1 DEF Opened
<1> QED
  BY <1>14, <1>15 DEF Beside, e, f

LEMMA ElseFacts ==
  ASSUME TypedWalk, FactsInv, Else
  PROVE  FactsInv'
<1> DEFINE n == Len(stack)
<1>1. PICK w \in Walk : Shows(w) /\ Consistent(w)
  BY DEF FactsInv
<1>2. /\ Top.kind = "then" /\ Top.kind # "func" /\ EndScope
      /\ stack' = Append(Popped, Sibling("else"))
      /\ path' = Opened(Top.prev) /\ current' = NextScope
      /\ events' = Append(events, Source(Top.no, NextScope)) /\ clock' = clock
  BY DEF Else, Open
<1>3. n = Len(stack)
  OBVIOUS
<1> HIDE DEF n
<1>4. PICK y \in Walk :
        /\ y.ev = Append(events, Source(Top.no, NextScope)) /\ y.pa = Opened(Top.prev)
        /\ y.cu = NextScope /\ y.st = Append(Popped, Sibling("else")) /\ y.ck = clock
        /\ y.env[n] = w.env[n - 1] /\ y.since[n] = w.since[n - 1]
        /\ Consistent(y)
  <2>1. Beside(w, n, "else")
    BY <1>1, <1>2, <1>3, SiblingWalk
  <2> QED
    BY <2>1 DEF Beside
<1>5. env' = w.env[n - 1] /\ touched' = w.since[n - 1]
  BY <1>1, <1>2, <1>3, EndScopeLevel
<1>6. Len(stack') = n
  <2>1. Popped \in Seq(Frame) /\ Len(Popped) = n - 1 /\ (n - 1) + 1 = n
    BY <1>1, <1>2, <1>3, PoppedShape
  <2> QED
    BY <1>2, <2>1
<1>7. Shows(y)'
  BY <1>2, <1>4, <1>5, <1>6 DEF Shows
<1> QED
  BY <1>4, <1>7 DEF FactsInv

LEMMA ElseIfFacts ==
  ASSUME TypedWalk, FactsInv, NEW g \in Guards, ElseIf(g)
  PROVE  FactsInv'
<1> DEFINE n   == Len(stack)
           yes == Dated(g.yes, clock)
           no  == Dated(g.no, clock)
           two == Source(yes, NextScope + 1)
<1>1. PICK w \in Walk : Shows(w) /\ Consistent(w)
  BY DEF FactsInv
<1>2. PICK taken \in BOOLEAN :
        /\ IF PassedBy
           THEN \A f \in (IF taken THEN g.yes ELSE g.no) : f.claim \cap env'[f.key] # {}
           ELSE ~taken
        /\ stack' = Append(Append(Popped, Sibling("elseif")),
                           Branch(NewFrame("then", NextScope, yes, no), taken))
  BY DEF ElseIf
<1> DEFINE f == Branch(NewFrame("then", NextScope, yes, no), taken)
<1>3. /\ Top.kind = "then" /\ Top.kind # "func" /\ EndScope /\ clock' = clock + 1
      /\ path' = Append(Opened(Top.prev), path[Top.prev] \cup {NextScope, NextScope + 1})
      /\ current' = NextScope + 1
      /\ events' = Append(Append(events, Source(Top.no, NextScope)), two)
      /\ n = Len(stack)
  BY DEF ElseIf
<1>4. /\ n \in Nat /\ n >= 1 /\ Popped \in Seq(Frame) /\ Len(Popped) = n - 1
      /\ (n - 1) + 1 = n
  <2>1. /\ n \in Nat /\ n >= 2 /\ Popped \in Seq(Frame) /\ Len(Popped) = n - 1
        /\ (n - 1) + 1 = n
    BY <1>1, <1>3, PoppedShape
  <2> HIDE DEF n
  <2> QED
    BY <2>1
<1>5. /\ clock \in Nat /\ clock + 1 \in Nat /\ NextScope \in Nat
      /\ NextScope = Len(path) + 1 /\ NextScope + 1 \in Nat
  BY ClockTyped, ScopesTyped DEF NextScope
<1>6. yes \in SUBSET DatedFact /\ no \in SUBSET DatedFact
  BY <1>5, GuardType, DatedType
<1>7. two \in Entry /\ two.scope = NextScope + 1 /\ two.wrote = {}
  BY <1>5, <1>6, SourceType, SourceFields
<1>8. /\ f \in Frame /\ f.kind = "then" /\ f.prev = NextScope /\ f.yes = yes /\ f.no = no
      /\ f.declared = {} /\ f.escapes = FALSE
      /\ f.taken = taken /\ f.live = taken
  <2>1. "then" \in Kinds
    BY DEF Kinds
  <2> HIDE DEF yes, no
  <2>2. Enters(f, "then", NextScope, yes, no, taken)
    BY <1>5, <1>6, <2>1, NewBranch
  <2> HIDE DEF f
  <2> QED
    BY <2>2 DEF Enters
<1>9. stack' = Append(Append(Popped, Sibling("elseif")), f)
  BY <1>2
<1> HIDE DEF n, f
<1>10. PICK y \in Walk :
         /\ y.ev = Append(events, Source(Top.no, NextScope)) /\ y.pa = Opened(Top.prev)
         /\ y.cu = NextScope /\ y.st = Append(Popped, Sibling("elseif")) /\ y.ck = clock
         /\ y.env[n] = w.env[n - 1] /\ y.since[n] = w.since[n - 1]
         /\ y.here[n] = PassedBy
         /\ Consistent(y)
  <2>1. Beside(w, n, "elseif")
    BY <1>1, <1>3, SiblingWalk
  <2> QED
    BY <2>1 DEF Beside
<1>11. env' = w.env[n - 1] /\ touched' = w.since[n - 1]
  BY <1>1, <1>3, EndScopeLevel
<1>12. Len(y.st) = n
  <2>1. Sibling("elseif") \in Frame
    BY <1>3, SiblingFields DEF Kinds
  <2> QED
    BY <1>4, <1>10, <2>1
<1>13. /\ Len(y.pa) = NextScope /\ y.pa[y.cu] = path[Top.prev] \cup {NextScope}
  <2>1. path \in Seq(SUBSET Nat) /\ path[Top.prev] \cup {NextScope} \in SUBSET Nat
    BY <1>5, ScopesTyped, NestedTop, ElementOfSeq
  <2>2. /\ Len(Opened(Top.prev)) = Len(path) + 1
        /\ Opened(Top.prev)[Len(path) + 1] = path[Top.prev] \cup {NextScope}
    BY <2>1 DEF Opened
  <2> QED
    BY <1>5, <1>10, <2>2
<1>14. /\ taken => y.here[n]
       /\ y.here[n] => \A h \in (IF taken THEN g.yes ELSE g.no) :
                         h.claim \cap y.env[n][h.key] # {}
  BY <1>2, <1>10, <1>11
<1>15. Begins(y, n, f)
  BY <1>8, <1>14 DEF Begins
<1>16. Assumes(y, n, f, two, clock + 1)
  <2>1. Dates(y) /\ y.ck <= clock /\ clock <= clock + 1
    BY <1>5, <1>10 DEF Consistent
  <2>2. Assumes(y, n, f, Source(Dated(g.yes, clock), NextScope + 1), clock + 1)
    BY <1>5, <1>8, <1>14, <2>1, ConditionAssumed
  <2> QED
    BY <2>2
<1> HIDE DEF yes, no, two
<1>17. Pushed(y, n, f, two, clock + 1)
  <2> DEFINE ck == clock + 1
  <2>1. ck \in {y.ck, y.ck + 1} /\ Assumes(y, n, f, two, ck)
    BY <1>10, <1>16
  <2>2. f.prev = y.cu /\ two.scope = Len(y.pa) + 1
    BY <1>7, <1>8, <1>10, <1>13
  <2> HIDE DEF ck
  <2>3. Pushed(y, n, f, two, ck)
    <3>1. /\ n \in Nat /\ n >= 1 /\ n = Len(y.st) /\ y \in Walk /\ Consistent(y)
          /\ f \in Frame /\ Begins(y, n, f) /\ two \in Entry /\ two.wrote = {}
      BY <1>4, <1>7, <1>8, <1>10, <1>12, <1>15
    <3> QED
      BY <2>1, <2>2, <3>1, PushKeeps
  <2> QED
    BY <2>3 DEF ck
<1>18. PICK z \in Walk :
         /\ z.ev = Append(y.ev, two) /\ z.pa = Append(y.pa, y.pa[y.cu] \cup {Len(y.pa) + 1})
         /\ z.cu = Len(y.pa) + 1 /\ z.st = Append(y.st, f) /\ z.ck = clock + 1
         /\ z.env[n + 1] = y.env[n] /\ z.since[n + 1] = y.since[n]
         /\ Consistent(z)
  BY <1>17 DEF Pushed
<1>19. z.pa = path'
  <2>1. y.pa[y.cu] \cup {NextScope + 1} = path[Top.prev] \cup {NextScope, NextScope + 1}
    BY <1>13
  <2> QED
    BY <1>3, <1>10, <1>13, <1>18, <2>1
<1>20. Len(stack') = n + 1
  <2>1. y.st \in Seq(Frame)
    BY WalkType
  <2> QED
    BY <1>8, <1>9, <1>10, <1>12, <2>1
<1>21. Shows(z)'
  BY <1>3, <1>9, <1>10, <1>11, <1>13, <1>18, <1>19, <1>20 DEF Shows
<1> QED
  BY <1>18, <1>21 DEF FactsInv

LEMMA NextCaseFacts ==
  ASSUME TypedWalk, FactsInv, NextCase
  PROVE  FactsInv'
<1> DEFINE n    == Len(stack)
           m    == n - 1
           e    == Source({}, NextScope)
           bare == NewFrame("case", Top.prev, {}, {})
           next == [bare EXCEPT !.before = Top.before \/ Top.taken]
<1>1. PICK w \in Walk : Shows(w) /\ Consistent(w)
  BY DEF FactsInv
<1>2. PICK taken \in BOOLEAN :
        /\ taken => (PassedBy /\ ~Top.before) \/ (Top.taken /\ Top.live)
        /\ stack' = Append(Popped, Branch(next, taken))
  BY DEF NextCase
<1> DEFINE f == Branch(next, taken)
<1>3. /\ Top.kind # "func" /\ EndScope /\ clock' = clock + 1 /\ n = Len(stack)
      /\ path' = Opened(Top.prev) /\ current' = NextScope /\ events' = Append(events, e)
  BY DEF NextCase, Open
<1>4. /\ n = Len(w.st) /\ w.st[n] = Top
      /\ w.ev = events /\ w.pa = path /\ w.ck = clock
  BY <1>1, TopLevel
<1>5. /\ n \in Nat /\ m \in Nat /\ m >= 1 /\ m + 1 = n
      /\ Popped \in Seq(Frame) /\ Len(Popped) = m
      /\ Outer.live \in BOOLEAN /\ (w.here[m] <=> Outer.live)
      /\ (w.here[m] <=> IF Top.taken THEN Top.live ELSE stack[m].live)
  BY <1>1, <1>3, PoppedShape
<1>6. PICK x \in Walk :
        /\ x.ev = w.ev /\ x.pa = w.pa /\ x.cu = Top.prev /\ x.st = Popped /\ x.ck = w.ck
        /\ x.env = w.env /\ x.since = w.since /\ x.here = w.here
        /\ Consistent(x)
  <2>1. Unwound(w, n, Popped, w.ev)
    BY <1>1, <1>3, PoppedWalk
  <2> QED
    BY <1>4, <2>1 DEF Unwound
<1>7. bare \in Frame
  BY NewFrameType, NestedTop, ScopesTyped DEF Kinds
<1>8. /\ bare.kind = "case" /\ bare.prev = Top.prev /\ bare.yes = {} /\ bare.no = {}
      /\ bare.declared = {} /\ bare.escapes = FALSE
  BY DEF NewFrame
<1> HIDE DEF bare
<1>9. /\ next \in Frame
      /\ next.kind = "case" /\ next.prev = Top.prev /\ next.yes = {} /\ next.no = {}
      /\ next.declared = {} /\ next.escapes = FALSE
  <2>1. (Top.before \/ Top.taken) \in BOOLEAN
    OBVIOUS
  <2> QED
    BY <1>7, <1>8, <2>1 DEF Frame
<1> HIDE DEF next
<1>10. /\ f \in Frame /\ f.kind = "case" /\ f.prev = Top.prev /\ f.yes = {} /\ f.no = {}
       /\ f.declared = {} /\ f.escapes = FALSE
       /\ f.taken = taken /\ f.live = taken
  BY <1>9 DEF Branch, Frame
<1>11. NextScope = Len(path) + 1 /\ NextScope \in Nat /\ clock + 1 \in Nat
  BY ScopesTyped, ClockTyped DEF NextScope
<1>12. e \in Entry /\ e.scope = NextScope /\ e.wrote = {}
  BY <1>11, SourceType, SourceFields
<1>13. taken => x.here[m]
  BY <1>2, <1>5, <1>6 DEF PassedBy
<1>14. Begins(x, m, f)
  BY <1>10, <1>13 DEF Begins
<1>15. Assumes(x, m, f, e, clock + 1)
  BY <1>10, <1>11, NothingAssumed
<1>16. stack' = Append(Popped, f)
  BY <1>2
<1>17. m = n - 1
  OBVIOUS
<1> HIDE DEF n, m, e, f
<1>18. Pushed(x, m, f, e, clock + 1)
  <2> DEFINE ck == clock + 1
  <2>1. ck \in {x.ck, x.ck + 1} /\ Assumes(x, m, f, e, ck)
    BY <1>4, <1>6, <1>15
  <2>2. f.prev = x.cu /\ e.scope = Len(x.pa) + 1 /\ m = Len(x.st)
    BY <1>4, <1>5, <1>6, <1>10, <1>11, <1>12
  <2> HIDE DEF ck
  <2>3. Pushed(x, m, f, e, ck)
    BY <1>5, <1>6, <1>10, <1>12, <1>14, <2>1, <2>2, PushKeeps
  <2> QED
    BY <2>3 DEF ck
<1>19. PICK y \in Walk :
         /\ y.ev = Append(x.ev, e) /\ y.pa = Append(x.pa, x.pa[x.cu] \cup {Len(x.pa) + 1})
         /\ y.cu = Len(x.pa) + 1 /\ y.st = Append(x.st, f) /\ y.ck = clock + 1
         /\ y.env[m + 1] = x.env[m] /\ y.since[m + 1] = x.since[m]
         /\ Consistent(y)
  BY <1>18 DEF Pushed
<1>20. env' = w.env[n - 1] /\ touched' = w.since[n - 1]
  BY <1>1, <1>3, EndScopeLevel
<1>21. Len(stack') = n
  BY <1>5, <1>10, <1>16
<1>22. y.env[n] = env' /\ y.since[n] = touched'
  BY <1>5, <1>6, <1>17, <1>19, <1>20
<1>23. /\ y.ev = events' /\ y.pa = path' /\ y.cu = current' /\ y.st = stack' /\ y.ck = clock'
  BY <1>3, <1>4, <1>6, <1>11, <1>16, <1>19 DEF Opened
<1>24. Shows(y)'
  BY <1>21, <1>22, <1>23 DEF Shows
<1> QED
  BY <1>19, <1>24 DEF FactsInv

-----------------------------------------------------------------------------
(* The invariant.                                                          *)

LEMMA InitFacts == Init => FactsInv
<1> SUFFICES ASSUME Init PROVE FactsInv
  OBVIOUS
<1>1. TypedWalk
  BY InitTyped
<1>2. PICK seeds \in SUBSET [claim : Claim, key : Params] :
        /\ StreamInit(Dated(seeds, 0))
        /\ stack = <<[NewFrame("func", 1, {}, {}) EXCEPT !.declared = Params]>>
        /\ clock = 0 /\ AllTrue(seeds) /\ touched = [k \in Key |-> 0]
  BY DEF Init
<1> DEFINE bare == NewFrame("func", 1, {}, {})
           w == [ev |-> events, pa |-> path, cu |-> current, st |-> stack, ck |-> clock,
                 env |-> [d \in Nat |-> env], since |-> [d \in Nat |-> touched],
                 here |-> [d \in Nat |-> TRUE]]
<1>3. /\ events \in Seq(Entry) /\ path \in Seq(SUBSET Nat) /\ current \in Nat
      /\ stack \in Seq(Frame) /\ clock \in Nat /\ Len(stack) = 1
      /\ env \in [Key -> Value] /\ touched \in [Key -> Nat]
  BY <1>1, <1>2, ScopesTyped DEF TypedWalk, TypeOK
<1>4. w \in Walk
  BY <1>3 DEF Walk
<1>5. /\ w.ev = events /\ w.pa = path /\ w.cu = current /\ w.st = stack /\ w.ck = 0
      /\ w.env[1] = env /\ w.since[1] = touched /\ w.here[1] = TRUE
  BY <1>2
<1> HIDE DEF w
<1>6. bare \in Frame /\ bare.live = TRUE /\ bare.escapes = FALSE
      /\ bare.yes = {} /\ bare.no = {}
  <2>1. bare \in Frame
    BY <1>1, NewFrameType, ScopesTyped DEF Kinds
  <2>2. bare.live = TRUE /\ bare.escapes = FALSE /\ bare.yes = {} /\ bare.no = {}
    BY DEF NewFrame
  <2> QED
    BY <2>1, <2>2
<1> HIDE DEF bare
<1>7. /\ stack[1].live = TRUE /\ stack[1].escapes = FALSE
      /\ stack[1].yes = {} /\ stack[1].no = {}
  BY <1>2, <1>6 DEF bare, Frame
<1>8. /\ Len(events) = 1 /\ events[1].scope = 1 /\ events[1].at = 0
      /\ events[1].wrote = {} /\ Planted(events[1]) = Dated(seeds, 0)
      /\ Len(path) = 1 /\ path[1] = {1} /\ current = 1
  BY <1>2, SourceFields DEF StreamInit
<1>9. \A g \in Dated(seeds, 0) : g.asOf = 0 /\ g.claim \cap env[g.key] # {}
  BY <1>2 DEF Dated, AllTrue, True
<1>10. 1..1 = {1} /\ 2..1 = {} /\ 0 <= 0 /\ ~(0 > 0)
  OBVIOUS
<1>11. Unwinds(w)
  BY <1>3, <1>5, <1>7, <1>10 DEF Unwinds
<1>a. /\ \A d \in 1..Len(w.st) : d = 1 /\ ScopeAt(w, d) = 1
      /\ \A i \in 1..Len(w.ev) : i = 1
      /\ \A d \in 2..Len(w.st) : FALSE
      /\ \A s \in 1..Len(w.pa) : s = 1
  <2>1. Len(w.st) = 1 /\ Len(w.ev) = 1 /\ Len(w.pa) = 1 /\ w.cu = 1
    <3>1. w.st = stack /\ w.ev = events /\ w.pa = path /\ w.cu = current
      BY <1>5
    <3>2. Len(stack) = 1 /\ Len(events) = 1 /\ Len(path) = 1 /\ current = 1
      BY <1>3, <1>8
    <3> QED
      BY <3>1, <3>2
  <2>2. \A d \in 1..1 : d = 1
    OBVIOUS
  <2>3. \A d \in 2..1 : FALSE
    OBVIOUS
  <2>4. ScopeAt(w, 1) = 1
    BY <2>1 DEF ScopeAt
  <2> QED
    BY ONLY <2>1, <2>2, <2>3, <2>4
<1>12. Linked(w)
  <2>1. \A s \in 1..Len(w.pa) : s \in w.pa[s] /\ w.pa[s] \subseteq 1..Len(w.pa)
    BY <1>a, <1>5, <1>8, <1>10
  <2>2. \A i \in 1..Len(w.ev) : w.ev[i].scope \in 1..Len(w.pa)
    BY <1>a, <1>5, <1>8, <1>10
  <2>3. \A d \in 1..Len(w.st) : ScopeAt(w, d) \in 1..Len(w.pa)
    BY <1>a, <1>5, <1>8, <1>10
  <2>4. \A c, d \in 1..Len(w.st) : ~(c < d)
    BY <1>a
  <2> QED
    BY <2>1, <2>2, <2>3, <2>4 DEF Linked
<1>13. Dates(w)
  <2>1. \A i \in 1..Len(w.ev) :
          w.ev[i].at <= w.ck /\ \A g \in Planted(w.ev[i]) : g.asOf <= w.ck
    BY <1>a, <1>5, <1>8, <1>9, <1>10
  <2>2. \A d \in 1..Len(w.st) : \A g \in w.st[d].yes \cup w.st[d].no : g.asOf <= w.ck
    BY <1>a, <1>5, <1>7
  <2> QED
    BY <2>1, <2>2 DEF Dates
<1>14. Branches(w)
  BY <1>3, <1>5, <1>7, <1>10 DEF Branches
<1>15. Sound(w)
  <2>1. \A g \in Dated(seeds, 0) : Holds(w, 1, g)
    BY <1>5, <1>9 DEF Holds
  <2>2. \A d \in 1..Len(w.st), i \in 1..Len(w.ev) :
          \A g \in Planted(w.ev[i]) : Holds(w, d, g)
    BY <1>a, <1>5, <1>8, <2>1
  <2> QED
    BY <1>a, <2>2 DEF Sound
<1>16. InOrder(w)
  BY <1>3, <1>5, <1>8, <1>10 DEF InOrder, After
<1>17. Written(w)
  BY <1>2, <1>3, <1>5, <1>10 DEF Written
<1>18. Shows(w)
  BY <1>2, <1>3, <1>5 DEF Shows
<1> QED
  BY <1>4, <1>11, <1>12, <1>13, <1>14, <1>15, <1>16, <1>17, <1>18
  DEF FactsInv, Consistent

LEMMA LeaveFacts ==
  ASSUME TypedWalk, TypedWalk', FactsInv, \/ ReturnOther \/ Panic \/ \E v \in Var : Return(v)
  PROVE  FactsInv'
<1>1. Escape /\ UNCHANGED <<stream, env, touched>> /\ clock' = clock + 1
  BY DEF ReturnOther, Panic, Return, Leave, NextStmt
<1> QED
  BY <1>1, EscapeFacts

LEMMA NextFacts == TypedWalk /\ FactsInv /\ [Next]_vars => FactsInv'
<1> SUFFICES ASSUME TypedWalk, FactsInv, [Next]_vars PROVE FactsInv'
  OBVIOUS
<1>1. TypedWalk'
  BY NextTyped
<1>2. CASE Simple
  BY <1>1, <1>2, CallFacts, MustFacts, CallNestedFacts, AssignValueFacts,
     AssignCallFacts, AssignMustFacts, AssignTwoFacts, OverwriteFacts, SilentFacts,
     DeclFacts, LeaveFacts
  DEF Simple, SomeClaims, IncDec, AddrEscape
<1>3. CASE Compound
  <2>1. CASE \E V \in {{}} \cup {{l} : l \in Subject}, k \in Subject, c \in Claim,
               mode \in Modes, op \in {"==", "!="} : ProveThatIf(mode, V, k, c, op)
    BY <1>1, <2>1, ProveThatIfFacts
  <2>2. CASE \E g \in Guards : If(g) \/ ElseIf(g)
    BY <2>2, IfFacts, ElseIfFacts
  <2>3. CASE \E W, D \in SUBSET Var : Loop(W, D)
    BY <1>1, <2>3, LoopFacts
  <2>4. CASE Else \/ EndThen \/ EndElse \/ Block \/ Switch \/ NextCase \/ EndBody
    BY <2>4, ElseFacts, EndThenFacts, EndElseFacts, BlockFacts, SwitchFacts,
       NextCaseFacts, EndBodyFacts
  <2> QED
    BY <1>3, <2>1, <2>2, <2>3, <2>4 DEF Compound
<1>4. CASE UNCHANGED vars
  BY <1>4 DEF vars, stream, FactsInv, Shows
<1> QED
  BY <1>2, <1>3, <1>4 DEF Next

\* Whatever the function, the walk and every execution of it agree at every
\* level: what is in sight there is true of the values it was recorded for
\* (analyzer.go:307-335 the scopes, :641-738 the branches).
THEOREM FactsAgree == Spec => [](TypedWalk /\ FactsInv)
<1>1. Init => TypedWalk /\ FactsInv
  BY InitTyped, InitFacts
<1>2. TypedWalk /\ FactsInv /\ [Next]_vars => (TypedWalk /\ FactsInv)'
  BY NextTyped, NextFacts
<1> QED
  BY <1>1, <1>2, PTL DEF Spec

-----------------------------------------------------------------------------
(* The properties.                                                         *)

\* The open block is the innermost level.
LEMMA OpenLevel ==
  ASSUME TypedWalk, NEW w \in Walk, Shows(w), Consistent(w), Top.live
  PROVE  /\ \A i \in DOMAIN events : i \in 1..Len(w.ev) /\ w.ev[i] = events[i]
         /\ \A i \in DOMAIN events : Seen(w, i, Len(w.st)) <=> Visible(i, current)
         /\ \A i \in DOMAIN events : Visible(i, current) =>
              \A f \in Planted(events[i]) : Holds(w, Len(w.st), f)
<1> DEFINE n == Len(stack)
<1>1. /\ n = Len(w.st) /\ n \in 1..n /\ w.here[n]
      /\ w.ev = events /\ w.pa = path /\ w.cu = current
  BY TopLevel
<1>2. DOMAIN events = 1..Len(w.ev)
  BY <1>1, ScopesTyped, LenProperties
<1>3. \A i : Seen(w, i, Len(w.st)) <=> Visible(i, current)
  BY <1>1 DEF Seen, ScopeAt, Visible, IsAncestorOrSelf
<1> QED
  BY <1>1, <1>2, <1>3 DEF Consistent, Sound

LEMMA FreshHold == TypedWalk /\ FactsInv => FreshFactsHold
<1> SUFFICES ASSUME TypedWalk, FactsInv, Top.live,
                    NEW i \in DOMAIN events, Visible(i, current),
                    NEW f \in events[i].pre \cup events[i].post, Fresh(f)
             PROVE  True(f.claim, f.key)
  BY DEF FreshFactsHold
<1>1. PICK w \in Walk : Shows(w) /\ Consistent(w)
  BY DEF FactsInv
<1>2. Holds(w, Len(w.st), f)
  BY <1>1, OpenLevel DEF Planted
<1>3. w.env[Len(w.st)] = env /\ w.since[Len(w.st)] = touched
  BY <1>1 DEF Shows
<1> QED
  BY <1>2, <1>3 DEF Holds, Fresh, True

\* Facts are planted only where they are true: every fact in sight that was
\* recorded for the present value of its key is true of it, whatever guards,
\* joins, loops, closures of scopes and shadowing lie in between
\* (analyzer.go:538-608, analyzer_events.go:75-214).
THEOREM FreshFactsAlwaysHold == Spec => []FreshFactsHold
  BY FactsAgree, FreshHold, PTL

LEMMA FoundHold ==
  ASSUME Attentive, TypedWalk, FactsInv
  PROVE  FoundFactsHold
<1> SUFFICES ASSUME Top.live, NEW c \in Claim, NEW k \in Key,
                    HasFact(c, k, current), ~Hidden(k)
             PROVE  True(c, k)
  BY DEF FoundFactsHold
<1>1. PICK w \in Walk : Shows(w) /\ Consistent(w)
  BY DEF FactsInv
<1>2. w.env[Len(w.st)] = env /\ w.since[Len(w.st)] = touched
  BY <1>1 DEF Shows
<1>3. PICK i \in DOMAIN events : Sources(i, c, k, current) /\ Unbarred(i, k, current)
  BY DEF HasFact
<1>4. PICK f \in Standing(events[i]) : f.claim = c /\ f.key = k
  BY <1>3 DEF Sources
<1>5. /\ \A j \in DOMAIN events : j \in 1..Len(w.ev) /\ w.ev[j] = events[j]
      /\ \A j \in DOMAIN events : Seen(w, j, Len(w.st)) <=> Visible(j, current)
      /\ \A j \in DOMAIN events : Visible(j, current) =>
           \A g \in Planted(events[j]) : Holds(w, Len(w.st), g)
  BY <1>1, OpenLevel
<1>6. f \in Planted(events[i]) /\ events[i] \in Entry /\ Visible(i, current)
  BY <1>3, <1>4, <1>5, WalkType DEF Standing, Planted, Sources
<1>7. f.asOf \in Nat /\ touched[k] \in Nat
  BY <1>6 DEF Planted, Entry, DatedFact, TypedWalk, TypeOK
<1>8. CASE f.asOf >= touched[k]
  BY <1>2, <1>4, <1>5, <1>6, <1>8 DEF Holds, True
<1>9. CASE ~(f.asOf >= touched[k])
  <2>1. touched[k] > 0
    BY <1>7, <1>9
  <2>2. PICK j \in DOMAIN events : Bars(j, Root[k], current) /\ events[j].at = touched[k]
    BY <2>1 DEF Hidden
  <2>3. j <= i
    <3>1. ~(j > i)
      BY <1>3, <2>2 DEF Unbarred
    <3>2. i \in Nat /\ j \in Nat
      BY <1>5
    <3> QED
      BY <3>1, <3>2
  <2>4. After(events[j], f)
    <3>1. InOrder(w)
      BY <1>1 DEF Consistent
    <3>2. Visible(j, current)
      BY <2>2 DEF Bars
    <3> QED
      BY <1>4, <1>5, <1>6, <2>2, <2>3, <3>1, <3>2 DEF InOrder
  <2>5. touched[k] <= f.asOf
    BY <1>4, <2>2, <2>4 DEF After, Bars
  <2> QED
    BY <1>7, <1>9, <2>5
<1> QED
  BY <1>8, <1>9

\* An obligation that the backward lookup discharges holds at run time unless
\* the walk was blind to the variable's last change: the write that gave the
\* value comes before the fact that survives it (analyzer_resolver.go:39-63).
THEOREM FoundFactsAlwaysHold ==
  ASSUME Attentive
  PROVE  Spec => []FoundFactsHold
<1>1. TypedWalk /\ FactsInv => FoundFactsHold
  BY FoundHold
<1> QED
  BY <1>1, FactsAgree, PTL

LEMMA NothingHidden ==
  ASSUME Fragment, TypedWalk, FactsInv, NEW k \in Key, Top.live
  PROVE  ~Hidden(k)
<1>1. PICK w \in Walk : Shows(w) /\ Consistent(w)
  BY DEF FactsInv
<1>2. /\ Len(w.st) \in 1..Len(w.st) /\ w.since[Len(w.st)] = touched
      /\ w.ev = events /\ w.pa = path /\ w.cu = current
  BY <1>1, TopLevel
<1>3. DOMAIN events = 1..Len(w.ev)
  BY <1>2, ScopesTyped, LenProperties
<1>4. ASSUME touched[k] > 0
      PROVE  \E j \in DOMAIN events :
               Bars(j, Root[k], current) /\ events[j].at = touched[k]
  <2>1. PICK j \in 1..Len(w.ev) :
          /\ Seen(w, j, Len(w.st)) /\ Root[k] \in w.ev[j].wrote
          /\ w.ev[j].at = w.since[Len(w.st)][k]
    BY <1>1, <1>2, <1>4 DEF Consistent, Written
  <2>2. Visible(j, current)
    BY <1>2, <2>1 DEF Seen, ScopeAt, Visible, IsAncestorOrSelf
  <2> QED
    BY <1>2, <1>3, <2>1, <2>2 DEF Bars
<1> QED
  BY <1>4 DEF Hidden

\* README, "Mutation and soundness", where it is true: in functions whose every
\* change of a variable is recorded where the variable is in scope, any fact
\* that the lookup finds is true of the value.
THEOREM EveryFactAlwaysHolds ==
  ASSUME Fragment
  PROVE  Spec => []EveryFactHolds
<1>1. TypedWalk /\ FactsInv => EveryFactHolds
  <2>1. Attentive
    BY DEF Fragment
  <2> QED
    BY <2>1, FoundHold, NothingHidden DEF FoundFactsHold, EveryFactHolds
<1> QED
  BY <1>1, FactsAgree, PTL

-----------------------------------------------------------------------------
(* Derived postconditions.                                                 *)

\* At a return, the snapshot is true of the value returned.
LEMMA LeaveReturned ==
  ASSUME TypedWalk, Returned, NEW snapshot, NEW value, NEW tainted,
         Leave(snapshot, value, tainted),
         Top.live /\ ~tainted => Satisfies(value, snapshot)
  PROVE  Returned'
<1>1. snapshots' = snapshots \cup {snapshot}
  BY DEF Leave
<1>2. CASE Top.live
  <2>1. result' = [returned |-> TRUE, value |-> value, tainted |-> tainted]
    BY <1>2 DEF Leave
  <2>2. ~result'.tainted => Satisfies(result'.value, snapshot)
    BY <1>2, <2>1
  <2> QED
    BY <1>1, <2>2 DEF Returned
<1>3. CASE ~Top.live
  <2>1. result' = result
    BY <1>3 DEF Leave
  <2> QED
    BY <1>1, <2>1 DEF Returned
<1> QED
  BY <1>2, <1>3

LEMMA NextReturned ==
  ASSUME Attentive, TypedWalk, FactsInv, Returned, [Next]_vars
  PROVE  Returned'
<1>1. ASSUME NEW v \in Var, Return(v) PROVE Returned'
  <2>1. v \in Key /\ Leave(Snapshot(v, current), env[v], Hidden(v))
    BY <1>1, VarType DEF Return
  <2>2. Top.live /\ ~Hidden(v) => Satisfies(env[v], Snapshot(v, current))
    BY <2>1, FoundHold DEF FoundFactsHold, Satisfies, Snapshot, True
  <2> QED
    BY <2>1, <2>2, LeaveReturned
<1>2. ASSUME ReturnOther PROVE Returned'
  <2>1. PICK value \in Value : Leave({}, value, FALSE)
    BY <1>2 DEF ReturnOther
  <2>2. Satisfies(value, {})
    BY DEF Satisfies
  <2> QED
    BY <2>1, <2>2, LeaveReturned
<1>3. ASSUME UNCHANGED <<snapshots, result>> PROVE Returned'
  BY <1>3 DEF Returned
<1>4. CASE Simple
  <2>1. ASSUME NEW k, NEW c, NEW C, Call(k, c) \/ Must(k, c) \/ CallNested(C, c)
        PROVE  UNCHANGED <<snapshots, result>>
    BY <2>1 DEF Call, Must, CallNested
  <2>2. ASSUME NEW mode, NEW l, NEW C, NEW k, NEW c,
               AssignValue(mode, l) \/ AssignCall(mode, l, C) \/ AssignMust(mode, l, k, c)
        PROVE  UNCHANGED <<snapshots, result>>
    BY <2>2 DEF AssignValue, AssignCall, AssignMust
  <2>3. ASSUME NEW mode, NEW v, NEW w, NEW C, AssignTwo(mode, v, w, C) \/ Decl(v, C)
        PROVE  UNCHANGED <<snapshots, result>>
    BY <2>3 DEF AssignTwo, Decl
  <2>4. ASSUME NEW v, IncDec(v) \/ AddrEscape(v) \/ Silent(v) \/ Panic
        PROVE  UNCHANGED <<snapshots, result>>
    BY <2>4 DEF IncDec, AddrEscape, Overwrite, Silent, Panic
  <2>5. \/ UNCHANGED <<snapshots, result>> \/ ReturnOther \/ \E v \in Var : Return(v)
    BY <1>4, <2>1, <2>2, <2>3, <2>4 DEF Simple
  <2> QED
    BY <1>1, <1>2, <1>3, <2>5
<1>5. CASE Compound
  <2>1. ASSUME NEW g, If(g) \/ ElseIf(g) PROVE UNCHANGED <<snapshots, result>>
    BY <2>1 DEF If, ElseIf
  <2>2. ASSUME NEW mode, NEW V, NEW k, NEW c, NEW op, ProveThatIf(mode, V, k, c, op)
        PROVE  UNCHANGED <<snapshots, result>>
    BY <2>2 DEF ProveThatIf
  <2>3. ASSUME NEW W, NEW D, Loop(W, D) PROVE UNCHANGED <<snapshots, result>>
    BY <2>3 DEF Loop
  <2>4. ASSUME NEW F, Close(F) PROVE UNCHANGED <<snapshots, result>>
    BY <2>4 DEF Close
  <2>5. ASSUME EndThen \/ EndElse \/ EndBody PROVE UNCHANGED <<snapshots, result>>
    BY <2>4, <2>5 DEF EndThen, EndElse, EndBody
  <2>6. ASSUME Else \/ Block \/ Switch \/ NextCase PROVE UNCHANGED <<snapshots, result>>
    BY <2>6 DEF Else, Block, Switch, NextCase
  <2>7. UNCHANGED <<snapshots, result>>
    BY <1>5, <2>1, <2>2, <2>3, <2>5, <2>6 DEF Compound
  <2> QED
    BY <1>3, <2>7
<1>6. CASE UNCHANGED vars
  BY <1>3, <1>6 DEF vars
<1> QED
  BY <1>4, <1>5, <1>6 DEF Next

\* The postconditions derived for a function, the claims on which all its
\* returns agree (analyzer.go:1334-1383), are true of the value an execution
\* returns, unless the walk was blind to that value's last change.
THEOREM DerivedReturnsAlwaysHold ==
  ASSUME Attentive
  PROVE  Spec => []DerivedReturnsHold
<1>1. Init => Returned
  BY DEF Init, Returned
<1>2. TypedWalk /\ FactsInv /\ Returned /\ [Next]_vars => Returned'
  BY NextReturned
<1>3. Returned => DerivedReturnsHold
  BY DEF Returned, DerivedReturnsHold, DerivedReturns, Satisfies
<1> QED
  BY <1>1, <1>2, <1>3, FactsAgree, PTL DEF Spec
=============================================================================
