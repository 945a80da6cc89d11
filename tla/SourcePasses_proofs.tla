------------------------- MODULE SourcePasses_proofs -------------------------
(***************************************************************************)
(* Proofs about SourcePasses: what the passes say of a file is true of it. *)
(***************************************************************************)
EXTENDS SourcePasses, FiniteSetTheorems, WellFoundedInduction, TLAPS

------------------------------------------------------------------------------
(* Recursion and induction on the depth of a node.                         *)

\* A set of numbers that is not empty has a least one.
LEMMA LeastNat ==
  ASSUME NEW S, S \subseteq Nat, S # {}
  PROVE  \E n \in S : \A m \in S : n <= m
<1>1. PICK n \in S : \A k \in S : <<k, n>> \notin OpToRel(<, Nat)
  BY WFMin, NatLessThanWellFounded, Zenon
<1>2. \A k \in S : ~(k < n)
  BY <1>1, Zenon DEF OpToRel
<1>3. \A m \in S : m \in Nat /\ n \in Nat
  OBVIOUS
<1> QED
  BY <1>3, <1>2

\* sub lists what each node is made of; it is less deep.
Layered(S, sub, h) ==
  /\ sub \in [S -> SUBSET S] /\ h \in [S -> Nat]
  /\ \A x \in S : \A y \in sub[x] : h[y] < h[x]

\* Among some nodes there is one made of none of them.
LEMMA Shallowest ==
  ASSUME NEW S, NEW sub, NEW h, Layered(S, sub, h), NEW B, B \subseteq S, B # {}
  PROVE  \E x \in B : \A y \in sub[x] : y \notin B
<1> DEFINE H == {h[x] : x \in B}
<1>1. H \subseteq Nat /\ H # {}
  BY DEF Layered
<1>2. PICK n \in H : \A m \in H : n <= m
  <2> HIDE DEF H
  <2> QED
    BY <1>1, LeastNat
<1>3. PICK x \in B : n = h[x]
  OBVIOUS
<1>4. ASSUME NEW y \in sub[x], y \in B PROVE FALSE
  <2>1. h[y] \in H /\ n \in Nat /\ h[y] \in Nat
    BY <1>4, <1>1
  <2>2. h[y] < n /\ n <= h[y]
    BY <2>1, <1>2, <1>3, <1>4 DEF Layered
  <2> QED
    BY <2>1, <2>2
<1> QED
  BY <1>4

\* G computes the value at a node from the values at what it is made of.
Computes(S, V, sub, G) ==
  /\ V # {} /\ G \in [S \X [S -> V] -> V]
  /\ \A x \in S, f, g \in [S -> V] : (\A y \in sub[x] : f[y] = g[y]) => G[<<x, f>>] = G[<<x, g>>]

\* f is right on the nodes of a depth below n.
RightBelow(S, h, G, f, n) == \A x \in S : h[x] < n => f[x] = G[<<x, f>>]

LEMMA Approximation ==
  ASSUME NEW S, NEW V, NEW sub, NEW h, NEW G, Layered(S, sub, h), Computes(S, V, sub, G)
  PROVE  \A n \in Nat : \E f \in [S -> V] : RightBelow(S, h, G, f, n)
<1> DEFINE P(n) == \E f \in [S -> V] : RightBelow(S, h, G, f, n)
           Bad  == {n \in Nat : ~P(n)}
<1>1. P(0)
  <2>1. PICK v \in V : TRUE
    BY DEF Computes
  <2>2. [x \in S |-> v] \in [S -> V]
    OBVIOUS
  <2>3. RightBelow(S, h, G, [x \in S |-> v], 0)
    BY DEF RightBelow, Layered
  <2> QED
    BY <2>2, <2>3
<1>2. ASSUME NEW n \in Nat, P(n) PROVE P(n + 1)
  <2>1. PICK f \in [S -> V] : RightBelow(S, h, G, f, n)
    BY <1>2
  <2> DEFINE g == [x \in S |-> G[<<x, f>>]]
  <2>2. g \in [S -> V]
    BY DEF Computes
  <2>3. ASSUME NEW x \in S, h[x] < n + 1 PROVE g[x] = G[<<x, g>>]
    <3>1. ASSUME NEW y \in sub[x] PROVE f[y] = g[y]
      <4>1. y \in S /\ h[y] \in Nat /\ h[x] \in Nat /\ h[y] < h[x]
        BY DEF Layered
      <4>2. h[y] < n
        BY <4>1, <2>3
      <4> QED
        BY <4>1, <4>2, <2>1 DEF RightBelow
    <3>2. G[<<x, f>>] = G[<<x, g>>]
      <4> HIDE DEF g
      <4> QED
        BY <3>1, <2>2 DEF Computes
    <3> QED
      BY <3>2
  <2>4. RightBelow(S, h, G, g, n + 1)
    BY <2>3 DEF RightBelow
  <2> HIDE DEF g
  <2> QED
    BY <2>2, <2>4
<1>3. Bad = {}
  <2> SUFFICES ASSUME Bad # {} PROVE FALSE
    OBVIOUS
  <2>1. PICK m \in Bad : \A k \in Bad : m <= k
    <3>1. Bad \subseteq Nat
      OBVIOUS
    <3> HIDE DEF Bad
    <3> QED
      BY <3>1, LeastNat
  <2>2. m \in Nat /\ ~P(m) /\ m # 0
    <3> HIDE DEF P
    <3> QED
      BY <1>1
  <2>3. m - 1 \in Nat /\ (m - 1) + 1 = m /\ ~(m <= m - 1)
    BY <2>2
  <2>4. P(m - 1)
    <3> HIDE DEF P
    <3> QED
      BY <2>1, <2>3
  <2> HIDE DEF P
  <2> QED
    BY <1>2, <2>2, <2>3, <2>4
<1> QED
  BY <1>3

LEMMA ApproximationsAgree ==
  ASSUME NEW S, NEW V, NEW sub, NEW h, NEW G, Layered(S, sub, h), Computes(S, V, sub, G),
         NEW n \in Nat, NEW f \in [S -> V], NEW g \in [S -> V],
         RightBelow(S, h, G, f, n), RightBelow(S, h, G, g, n)
  PROVE  \A x \in S : h[x] < n => f[x] = g[x]
<1> DEFINE B == {x \in S : h[x] < n /\ f[x] # g[x]}
<1> SUFFICES ASSUME B # {} PROVE FALSE
  OBVIOUS
<1>1. PICK x \in B : \A y \in sub[x] : y \notin B
  <2>1. B \subseteq S
    OBVIOUS
  <2> HIDE DEF B
  <2> QED
    BY <2>1, Shallowest
<1>2. x \in S /\ h[x] < n /\ f[x] # g[x]
  OBVIOUS
<1>3. ASSUME NEW y \in sub[x] PROVE f[y] = g[y]
  <2>1. y \in S /\ h[y] \in Nat /\ h[x] \in Nat /\ h[y] < h[x]
    BY <1>2 DEF Layered
  <2>2. h[y] < n
    BY <2>1, <1>2
  <2> QED
    BY <1>1, <2>1, <2>2
<1>4. G[<<x, f>>] = G[<<x, g>>]
  BY <1>2, <1>3 DEF Computes
<1> QED
  BY <1>2, <1>4 DEF RightBelow

\* There is a function with the recursive definition.
LEMMA Recursion ==
  ASSUME NEW S, NEW V, NEW sub, NEW h, NEW G, Layered(S, sub, h), Computes(S, V, sub, G)
  PROVE  \E f : f \in [S -> V] /\ f = [x \in S |-> G[<<x, f>>]]
<1> DEFINE A(n) == CHOOSE f \in [S -> V] : RightBelow(S, h, G, f, n)
           R == [x \in S |-> A(h[x] + 1)[x]]
<1>1. \A n \in Nat : A(n) \in [S -> V] /\ RightBelow(S, h, G, A(n), n)
  BY Approximation
<1> HIDE DEF A
<1>2. \A x \in S : h[x] \in Nat /\ h[x] + 1 \in Nat
  BY DEF Layered
<1>3. R \in [S -> V]
  BY <1>1, <1>2
<1>4. ASSUME NEW x \in S PROVE R[x] = G[<<x, R>>]
  <2> DEFINE f == A(h[x] + 1)
  <2>1. f \in [S -> V] /\ RightBelow(S, h, G, f, h[x] + 1)
    BY <1>1, <1>2
  <2>2. ASSUME NEW y \in sub[x] PROVE f[y] = R[y]
    <3>1. y \in S /\ h[y] \in Nat /\ h[x] \in Nat /\ h[y] < h[x]
      BY DEF Layered
    <3> DEFINE g == A(h[y] + 1)
    <3>2. g \in [S -> V] /\ RightBelow(S, h, G, g, h[y] + 1) /\ h[y] + 1 \in Nat
      BY <1>1, <3>1
    <3> HIDE DEF f
    <3>3. RightBelow(S, h, G, f, h[y] + 1)
      <4>1. \A z \in S : h[z] \in Nat
        BY <1>2
      <4>2. \A z \in S : h[z] < h[y] + 1 => h[z] < h[x] + 1
        BY <4>1, <3>1
      <4> QED
        BY <2>1, <4>2 DEF RightBelow
    <3>4. R[y] = g[y]
      BY <3>1
    <3> HIDE DEF g, R
    <3>5. h[y] < h[y] + 1
      BY <3>1
    <3> QED
      BY <2>1, <3>1, <3>2, <3>3, <3>4, <3>5, ApproximationsAgree
  <2>3. f[x] = G[<<x, f>>]
    <3>1. h[x] < h[x] + 1
      BY <1>2
    <3> HIDE DEF f
    <3> QED
      BY <2>1, <3>1 DEF RightBelow
  <2>4. G[<<x, f>>] = G[<<x, R>>]
    <3> HIDE DEF f, R
    <3> QED
      BY <2>1, <2>2, <1>3 DEF Computes
  <2>5. R[x] = f[x]
    OBVIOUS
  <2> QED
    BY <2>3, <2>4, <2>5
<1>5. R = [x \in S |-> R[x]]
  BY <1>3
<1> HIDE DEF R
<1>6. R = [x \in S |-> G[<<x, R>>]]
  BY <1>4, <1>5
<1> QED
  BY <1>3, <1>6
\* Whatever computes its value from the values of the parts has its type.
LEMMA Typed ==
  ASSUME NEW S, NEW V, NEW sub, NEW h, Layered(S, sub, h), NEW C, C = [x \in S |-> C[x]],
         \A x \in S : (\A y \in sub[x] : C[y] \in V) => C[x] \in V
  PROVE  C \in [S -> V]
<1> DEFINE B == {x \in S : C[x] \notin V}
<1>1. B = {}
  <2> SUFFICES ASSUME B # {} PROVE FALSE
    OBVIOUS
  <2>1. B \subseteq S
    OBVIOUS
  <2>2. PICK x \in B : \A y \in sub[x] : y \notin B
    <3> HIDE DEF B
    <3> QED
      BY <2>1, Shallowest
  <2>3. \A y \in sub[x] : y \in S
    BY DEF Layered
  <2> QED
    BY <2>2, <2>3
<1> QED
  BY <1>1

------------------------------------------------------------------------------
(* Sequences: what joining several of them gives.                          *)

\* The function that FlattenSeq folds with.
Flat(seqs) ==
  LET flatten[i \in 1..Len(seqs)] == IF i = 1 THEN seqs[i] ELSE flatten[i - 1] \o seqs[i]
  IN  flatten

\* f folds the first n sequences.
Folds(f, seqs, n) == f = [i \in 1..n |-> IF i = 1 THEN seqs[i] ELSE f[i - 1] \o seqs[i]]

\* There is a folding function of any length.
LEMMA FoldExists ==
  ASSUME NEW seqs, NEW n \in Nat
  PROVE  \E f : Folds(f, seqs, n)
<1> DEFINE Bad == {m \in Nat : ~\E f : Folds(f, seqs, m)}
<1>1. ASSUME Bad # {} PROVE FALSE
  <2>1. PICK m \in Bad : \A k \in Bad : m <= k
    <3>1. Bad \subseteq Nat
      OBVIOUS
    <3> HIDE DEF Bad
    <3> QED
      BY <1>1, <3>1, LeastNat
  <2>2. m \in Nat /\ ~\E f : Folds(f, seqs, m)
    BY <2>1
  <2>3. CASE m = 0
    <3>1. Folds([i \in 1..0 |-> 0], seqs, 0)
      BY DEF Folds
    <3> QED
      BY <2>2, <2>3, <3>1
  <2>4. CASE m # 0
    <3>1. m - 1 \in Nat /\ ~(m <= m - 1)
      BY <2>2, <2>4
    <3>2. PICK f : Folds(f, seqs, m - 1)
      BY <2>1, <3>1
    <3> DEFINE g == [i \in 1..m |-> IF i = 1 THEN seqs[i] ELSE f[i - 1] \o seqs[i]]
    <3>3. ASSUME NEW i \in 1..(m - 1) PROVE g[i] = f[i]
      <4>1. i \in 1..m
        BY <2>2
      <4>2. f[i] = IF i = 1 THEN seqs[i] ELSE f[i - 1] \o seqs[i]
        BY <3>2, Zenon DEF Folds
      <4> QED
        BY <4>1, <4>2
    <3>4. \A i \in 1..m : g[i] = IF i = 1 THEN seqs[i] ELSE g[i - 1] \o seqs[i]
      <4> SUFFICES ASSUME NEW i \in 1..m, i # 1
                   PROVE  g[i - 1] = f[i - 1]
        OBVIOUS
      <4>1. i - 1 \in 1..(m - 1)
        BY <2>2
      <4> HIDE DEF g
      <4> QED
        BY <3>3, <4>1
    <3>5. g = [i \in 1..m |-> g[i]]
      OBVIOUS
    <3>6. Folds(g, seqs, m)
      <4> HIDE DEF g
      <4> QED
        BY <3>4, <3>5 DEF Folds
    <3> QED
      BY <2>2, <3>6
  <2> QED
    BY <2>3, <2>4
<1> QED
  BY <1>1

LEMMA FlatFolds ==
  ASSUME NEW seqs, Len(seqs) \in Nat
  PROVE  Folds(Flat(seqs), seqs, Len(seqs))
<1>1. PICK f : Folds(f, seqs, Len(seqs))
  BY FoldExists
<1> QED
  BY <1>1, Zenon DEF Folds, Flat

LEMMA FlattenIsFlat ==
  ASSUME NEW seqs, Len(seqs) # 0
  PROVE  FlattenSeq(seqs) = Flat(seqs)[Len(seqs)]
BY Zenon DEF FlattenSeq, Flat

\* The first k of the sequences, joined.
Joined(seqs, k) == IF k = 0 THEN <<>> ELSE Flat(seqs)[k]

Extends(seqs, k) == Joined(seqs, k) = Joined(seqs, k - 1) \o seqs[k]

LEMMA JoinedNext ==
  ASSUME NEW X, NEW seqs \in Seq(Seq(X)), NEW k \in 1..Len(seqs), Joined(seqs, k - 1) \in Seq(X)
  PROVE  Joined(seqs, k) \in Seq(X) /\ Extends(seqs, k)
<1>1. Len(seqs) \in Nat /\ seqs[k] \in Seq(X)
  OBVIOUS
<1>2. Folds(Flat(seqs), seqs, Len(seqs))
  BY <1>1, FlatFolds
<1> DEFINE f == Flat(seqs)
<1>3. f = [i \in 1..Len(seqs) |-> IF i = 1 THEN seqs[i] ELSE f[i - 1] \o seqs[i]]
  BY <1>2, Zenon DEF Folds
<1> HIDE DEF f
<1>4. f[k] = IF k = 1 THEN seqs[k] ELSE f[k - 1] \o seqs[k]
  BY <1>3, Zenon
<1>5. Joined(seqs, k) = f[k]
  <2>1. k # 0
    OBVIOUS
  <2> QED
    BY <2>1, Zenon DEF Joined, f
<1>6. CASE k = 1
  <2>1. Joined(seqs, k - 1) = <<>>
    BY <1>6 DEF Joined
  <2>2. <<>> \o seqs[k] = seqs[k]
    BY <1>1
  <2> QED
    BY <1>1, <1>4, <1>5, <1>6, <2>1, <2>2 DEF Extends
<1>7. CASE k # 1
  <2>1. Joined(seqs, k - 1) = f[k - 1]
    BY <1>7 DEF Joined, f
  <2>2. Joined(seqs, k) = Joined(seqs, k - 1) \o seqs[k]
    BY <1>4, <1>5, <1>7, <2>1, Zenon
  <2>3. \A s, t \in Seq(X) : s \o t \in Seq(X)
    OBVIOUS
  <2> QED
    BY <1>1, <2>2, <2>3 DEF Extends
<1> QED
  BY <1>6, <1>7

LEMMA JoinedType ==
  ASSUME NEW X, NEW seqs \in Seq(Seq(X))
  PROVE  \A k \in 0..Len(seqs) : Joined(seqs, k) \in Seq(X)
<1> DEFINE Bad == {m \in Nat : m <= Len(seqs) /\ Joined(seqs, m) \notin Seq(X)}
<1>1. Len(seqs) \in Nat
  OBVIOUS
<1>2. ASSUME Bad # {} PROVE FALSE
  <2>1. PICK m \in Bad : \A j \in Bad : m <= j
    <3>1. Bad \subseteq Nat
      OBVIOUS
    <3> HIDE DEF Bad
    <3> QED
      BY <1>2, <3>1, LeastNat
  <2>2. m \in Nat /\ m <= Len(seqs) /\ Joined(seqs, m) \notin Seq(X)
    BY <2>1
  <2>3. m # 0
    <3>1. <<>> \in Seq(X)
      OBVIOUS
    <3> QED
      BY <2>2, <3>1 DEF Joined
  <2>4. m \in 1..Len(seqs) /\ m - 1 \in Nat /\ m - 1 <= Len(seqs) /\ ~(m <= m - 1)
    BY <1>1, <2>2, <2>3
  <2>5. Joined(seqs, m - 1) \in Seq(X)
    BY <2>1, <2>4
  <2> QED
    BY <2>2, <2>4, <2>5, JoinedNext
<1> QED
  BY <1>1, <1>2

LEMMA FlattenJoined ==
  ASSUME NEW X, NEW seqs \in Seq(Seq(X))
  PROVE  FlattenSeq(seqs) = Joined(seqs, Len(seqs)) /\ FlattenSeq(seqs) \in Seq(X)
<1>1. Len(seqs) \in Nat
  OBVIOUS
<1>2. FlattenSeq(seqs) = Joined(seqs, Len(seqs))
  <2>1. CASE Len(seqs) = 0
    <3>1. seqs = <<>>
      BY <2>1
    <3> QED
      BY <2>1, <3>1 DEF FlattenSeq, Joined
  <2>2. CASE Len(seqs) # 0
    BY <2>2, FlattenIsFlat DEF Joined
  <2> QED
    BY <2>1, <2>2
<1> QED
  BY <1>1, <1>2, JoinedType

\* The place of a word that stands at one place only.
LEMMA OnlyPlace ==
  ASSUME NEW X, NEW s \in Seq(X), NEW w
  PROVE  LET n == SelectInSeq(s, LAMBDA x : x = w)
         IN  /\ n \in 1..Len(s) => s[n] = w
             /\ \A i \in 1..Len(s) :
                  (s[i] = w /\ \A j \in 1..Len(s) : s[j] = w => j = i) => n = i
<1> DEFINE I == {i \in 1..Len(s) : s[i] = w}
           n == SelectInSeq(s, LAMBDA x : x = w)
<1>1. n = IF I # {} THEN Min(I) ELSE 0
  BY Zenon DEF SelectInSeq
<1>2. I \subseteq Nat
  OBVIOUS
<1>3. I # {} => Min(I) \in I
  <2> HIDE DEF I
  <2> QED
    BY <1>2, LeastNat DEF Min
<1>4. n \in 1..Len(s) => s[n] = w
  BY <1>1, <1>3
<1>5. ASSUME NEW i \in 1..Len(s), s[i] = w, \A j \in 1..Len(s) : s[j] = w => j = i
      PROVE  n = i
  BY <1>1, <1>3, <1>5
<1> QED
  BY <1>4, <1>5
------------------------------------------------------------------------------
(* Conditions: the recursive functions on expressions.                     *)

Parts == [e \in ExprNode |-> Operands(e)]
Depths == [e \in ExprNode |-> Depth(e)]

LEMMA ExprLayered == Layered(ExprNode, Parts, Depths)
BY ExprAssumption DEF ExprAssumption, WellFounded, Layered, Parts, Depths

\* What an operator has to do with its operands.
LEMMA ExprParts ==
  ASSUME NEW e \in ExprNode
  PROVE  /\ Operands(e) \subseteq ExprNode /\ Parts[e] = Operands(e)
         /\ e.op \in {"!", "()", "&&", "||"} => e.args[1] \in Operands(e)
         /\ e.op \in {"&&", "||"} => e.args[2] \in Operands(e)
         /\ e.op \in {"!=", "=="} => e.fact[2] \in Subjects
<1>1. e.args \in Seq(Operands(e)) /\ Operands(e) \subseteq ExprNode
  BY ExprAssumption DEF ExprAssumption, WellFounded
<1>2. /\ e.op \in {"!", "()"} => Len(e.args) = 1
      /\ e.op \in {"&&", "||"} => Len(e.args) = 2
      /\ e.op \in {"!=", "=="} => e.fact[2] \in Subjects
  BY ExprAssumption DEF ExprAssumption
<1> QED
  BY <1>1, <1>2 DEF Parts

LEMMA BinaryOperands ==
  ASSUME NEW e \in ExprNode, e.op \in {"&&", "||"}
  PROVE  Operands(e) = {e.args[1], e.args[2]}
<1>1. e.args \in Seq(Operands(e)) /\ Len(e.args) = 2
  BY ExprAssumption DEF ExprAssumption
<1>2. Operands(e) = {e.args[i] : i \in DOMAIN e.args}
  BY DEF Operands, ToSet
<1>3. DOMAIN e.args = {1, 2}
  BY <1>1
<1>4. \A s : {s[i] : i \in {1, 2}} = {s[1], s[2]}
  OBVIOUS
<1> QED
  BY <1>2, <1>3, <1>4

GuardBody(e, f, negated) ==
  CASE e.op = "!"  -> f[e.args[1]][~negated]
    [] e.op = "()" -> f[e.args[1]][negated]
    [] e.op = "&&" /\ ~negated -> f[e.args[1]][FALSE] \cup f[e.args[2]][FALSE]
    [] e.op \in {"!=", "=="} -> {NilComparison(e.op, e.fact[2], negated)}
    [] e.op = "pred" /\ ~negated -> {e.fact}
    [] OTHER -> {}

LEMMA GuardBodyType ==
  ASSUME NEW e \in ExprNode, NEW f, \A d \in Operands(e) : f[d] \in [BOOLEAN -> SUBSET Facts],
         NEW negated \in BOOLEAN
  PROVE  GuardBody(e, f, negated) \in SUBSET Facts
<1>1. ASSUME NEW d \in Operands(e) PROVE \A b \in BOOLEAN : f[d][b] \in SUBSET Facts
  OBVIOUS
<1>2. ASSUME e.op \in {"!=", "=="} PROVE NilComparison(e.op, e.fact[2], negated) \in Facts
  BY <1>2, ExprParts DEF NilComparison, Facts
<1>3. ASSUME e.op = "pred" PROVE e.fact \in Facts
  BY <1>3 DEF Facts
<1>4. (~negated) \in BOOLEAN
  OBVIOUS
<1>5. \A d \in Operands(e) :
        f[d][~negated] \in SUBSET Facts /\ f[d][negated] \in SUBSET Facts /\ f[d][FALSE] \in SUBSET Facts
  BY <1>1, <1>4
<1> QED
  BY <1>2, <1>3, <1>5, ExprParts DEF GuardBody

LEMMA CollectGuardFactsDef ==
  /\ CollectGuardFacts \in [ExprNode -> [BOOLEAN -> SUBSET Facts]]
  /\ \A e \in ExprNode, negated \in BOOLEAN : CollectGuardFacts[e][negated] = GuardBody(e, CollectGuardFacts, negated)
<1> DEFINE V == [BOOLEAN -> SUBSET Facts]
           G == [p \in ExprNode \X [ExprNode -> V] |-> [negated \in BOOLEAN |-> GuardBody(p[1], p[2], negated)]]
<1>1. V # {}
  <2>1. [b \in BOOLEAN |-> {}] \in V
    OBVIOUS
  <2> QED
    BY <2>1
<1>2. G \in [ExprNode \X [ExprNode -> V] -> V]
  <2>1. ASSUME NEW e \in ExprNode, NEW f \in [ExprNode -> V], NEW negated \in BOOLEAN
        PROVE  GuardBody(e, f, negated) \in SUBSET Facts
    BY ExprParts, GuardBodyType
  <2> QED
    BY <2>1
<1>3. ASSUME NEW e \in ExprNode, NEW f \in [ExprNode -> V], NEW g \in [ExprNode -> V],
             \A y \in Parts[e] : f[y] = g[y]
      PROVE  G[<<e, f>>] = G[<<e, g>>]
  <2>1. \A negated \in BOOLEAN : GuardBody(e, f, negated) = GuardBody(e, g, negated)
    BY <1>3, ExprParts DEF GuardBody
  <2> QED
    BY <2>1
<1>4. Computes(ExprNode, V, Parts, G)
  <2> HIDE DEF G, V
  <2> QED
    BY <1>1, <1>2, <1>3 DEF Computes
<1>5. PICK f : f \in [ExprNode -> V] /\ f = [e \in ExprNode |-> G[<<e, f>>]]
  <2> HIDE DEF G, V
  <2> QED
    BY <1>4, ExprLayered, Recursion
<1>6. f = [e \in ExprNode |-> [negated \in BOOLEAN |-> GuardBody(e, f, negated)]]
  <2>1. \A e \in ExprNode : G[<<e, f>>] = [negated \in BOOLEAN |-> GuardBody(e, f, negated)]
    BY <1>5
  <2> HIDE DEF G
  <2> QED
    BY <1>5, <2>1
<1>7. CollectGuardFacts = [e \in ExprNode |-> [negated \in BOOLEAN |-> GuardBody(e, CollectGuardFacts, negated)]]
  BY <1>6 DEF CollectGuardFacts, GuardBody
<1> DEFINE C == CollectGuardFacts
<1>8. C = [e \in ExprNode |-> [negated \in BOOLEAN |-> GuardBody(e, C, negated)]]
  BY <1>7
<1> HIDE DEF C
<1>9. ASSUME NEW e \in ExprNode, \A y \in Parts[e] : C[y] \in V PROVE C[e] \in V
  <2>1. \A negated \in BOOLEAN : GuardBody(e, C, negated) \in SUBSET Facts
    BY <1>9, ExprParts, GuardBodyType
  <2>2. C[e] = [negated \in BOOLEAN |-> GuardBody(e, C, negated)]
    BY <1>8
  <2> QED
    BY <2>1, <2>2
<1>10. C = [e \in ExprNode |-> C[e]]
  BY <1>8
<1>11. C \in [ExprNode -> V]
  <2> HIDE DEF V
  <2> QED
    BY <1>9, <1>10, Typed, ExprLayered
<1>12. \A e \in ExprNode, negated \in BOOLEAN : C[e][negated] = GuardBody(e, C, negated)
  BY <1>8
<1> QED
  BY <1>11, <1>12 DEF C

WalkBody(e, f) == PlantFromInlineFactCall(e) \cup UNION {f[d] : d \in Operands(e)}

LEMMA WalkBodyType ==
  ASSUME NEW e \in ExprNode, NEW f, \A d \in Operands(e) : f[d] \in SUBSET Facts
  PROVE  WalkBody(e, f) \in SUBSET Facts
<1>1. PlantFromInlineFactCall(e) \subseteq Facts
  BY DEF PlantFromInlineFactCall, Facts, Vouching
<1> QED
  BY <1>1 DEF WalkBody

LEMMA WalkCallsDef ==
  /\ WalkCalls \in [ExprNode -> SUBSET Facts]
  /\ \A e \in ExprNode : WalkCalls[e] = WalkBody(e, WalkCalls)
<1> DEFINE V == SUBSET Facts
           G == [p \in ExprNode \X [ExprNode -> V] |-> WalkBody(p[1], p[2])]
<1>1. V # {}
  <2>1. {} \in V
    OBVIOUS
  <2> QED
    BY <2>1
<1>2. G \in [ExprNode \X [ExprNode -> V] -> V]
  <2>1. ASSUME NEW e \in ExprNode, NEW f \in [ExprNode -> V]
        PROVE  WalkBody(e, f) \in SUBSET Facts
    BY ExprParts, WalkBodyType
  <2> QED
    BY <2>1
<1>3. ASSUME NEW e \in ExprNode, NEW f \in [ExprNode -> V], NEW g \in [ExprNode -> V],
             \A y \in Parts[e] : f[y] = g[y]
      PROVE  G[<<e, f>>] = G[<<e, g>>]
  <2>1. WalkBody(e, f) = WalkBody(e, g)
    BY <1>3, ExprParts DEF WalkBody
  <2> QED
    BY <2>1
<1>4. Computes(ExprNode, V, Parts, G)
  <2> HIDE DEF G, V
  <2> QED
    BY <1>1, <1>2, <1>3 DEF Computes
<1>5. PICK f : f \in [ExprNode -> V] /\ f = [e \in ExprNode |-> G[<<e, f>>]]
  <2> HIDE DEF G, V
  <2> QED
    BY <1>4, ExprLayered, Recursion
<1>6. f = [e \in ExprNode |-> WalkBody(e, f)]
  <2>1. \A e \in ExprNode : G[<<e, f>>] = WalkBody(e, f)
    BY <1>5
  <2> HIDE DEF G
  <2> QED
    BY <1>5, <2>1
<1>7. WalkCalls = [e \in ExprNode |-> WalkBody(e, WalkCalls)]
  BY <1>6 DEF WalkCalls, WalkBody
<1> DEFINE C == WalkCalls
<1>8. C = [e \in ExprNode |-> WalkBody(e, C)]
  BY <1>7
<1> HIDE DEF C
<1>9. ASSUME NEW e \in ExprNode, \A y \in Parts[e] : C[y] \in V PROVE C[e] \in V
  <2>1. WalkBody(e, C) \in SUBSET Facts
    BY <1>9, ExprParts, WalkBodyType
  <2>2. C[e] = WalkBody(e, C)
    BY <1>8
  <2> QED
    BY <2>1, <2>2
<1>10. C = [e \in ExprNode |-> C[e]]
  BY <1>8
<1>11. C \in [ExprNode -> V]
  <2> HIDE DEF V
  <2> QED
    BY <1>9, <1>10, Typed, ExprLayered
<1>12. \A e \in ExprNode : C[e] = WalkBody(e, C)
  BY <1>8
<1> QED
  BY <1>11, <1>12 DEF C

TrueBody(e, f, H) ==
  CASE e.op = "!"    -> ~f[e.args[1]][H]
    [] e.op = "()"   -> f[e.args[1]][H]
    [] e.op = "&&"   -> f[e.args[1]][H] /\ f[e.args[2]][H]
    [] e.op = "||"   -> f[e.args[1]][H] \/ f[e.args[2]][H]
    [] e.op = "!="   -> NonNilOf(e.fact[2]) \in H
    [] e.op = "=="   -> NilOf(e.fact[2]) \in H
    [] e.op = "pred" -> e.fact \in H
    [] OTHER         -> <<"opaque", e>> \in H

LEMMA TrueBodyType ==
  ASSUME NEW e \in ExprNode, NEW f, \A d \in Operands(e) : f[d] \in [Worlds -> BOOLEAN],
         NEW H \in Worlds
  PROVE  TrueBody(e, f, H) \in BOOLEAN
<1>1. \A d \in Operands(e) : f[d][H] \in BOOLEAN
  OBVIOUS
<1>2. CASE e.op = "!"
  <2>1. TrueBody(e, f, H) = (~f[e.args[1]][H])
    BY <1>2, Zenon DEF TrueBody
  <2> QED
    BY <2>1, <1>1, <1>2, ExprParts
<1>3. CASE e.op = "()"
  <2>1. TrueBody(e, f, H) = (f[e.args[1]][H])
    BY <1>3, Zenon DEF TrueBody
  <2> QED
    BY <2>1, <1>1, <1>3, ExprParts
<1>4. CASE e.op = "&&"
  <2>1. TrueBody(e, f, H) = (f[e.args[1]][H] /\ f[e.args[2]][H])
    BY <1>4, Zenon DEF TrueBody
  <2> QED
    BY <2>1, <1>1, <1>4, ExprParts
<1>5. CASE e.op = "||"
  <2>1. TrueBody(e, f, H) = (f[e.args[1]][H] \/ f[e.args[2]][H])
    BY <1>5, Zenon DEF TrueBody
  <2> QED
    BY <2>1, <1>1, <1>5, ExprParts
<1>6. CASE e.op = "!="
  <2>1. TrueBody(e, f, H) = (NonNilOf(e.fact[2]) \in H)
    BY <1>6, Zenon DEF TrueBody
  <2> QED
    BY <2>1, <1>1, <1>6, ExprParts
<1>7. CASE e.op = "=="
  <2>1. TrueBody(e, f, H) = (NilOf(e.fact[2]) \in H)
    BY <1>7, Zenon DEF TrueBody
  <2> QED
    BY <2>1, <1>1, <1>7, ExprParts
<1>8. CASE e.op = "pred"
  <2>1. TrueBody(e, f, H) = (e.fact \in H)
    BY <1>8, Zenon DEF TrueBody
  <2> QED
    BY <2>1, <1>1, <1>8, ExprParts
<1>9. CASE e.op \notin {"!", "()", "&&", "||", "!=", "==", "pred"}
  <2>1. TrueBody(e, f, H) = (<<"opaque", e>> \in H)
    BY <1>9, Zenon DEF TrueBody
  <2> QED
    BY <2>1
<1> QED
  BY <1>2, <1>3, <1>4, <1>5, <1>6, <1>7, <1>8, <1>9

LEMMA IsTrueDef ==
  /\ IsTrue \in [ExprNode -> [Worlds -> BOOLEAN]]
  /\ \A e \in ExprNode, H \in Worlds : IsTrue[e][H] = TrueBody(e, IsTrue, H)
<1> DEFINE V == [Worlds -> BOOLEAN]
           G == [p \in ExprNode \X [ExprNode -> V] |-> [H \in Worlds |-> TrueBody(p[1], p[2], H)]]
<1>1. V # {}
  <2>1. [H \in Worlds |-> TRUE] \in V
    OBVIOUS
  <2> QED
    BY <2>1
<1>2. G \in [ExprNode \X [ExprNode -> V] -> V]
  <2>1. ASSUME NEW e \in ExprNode, NEW f \in [ExprNode -> V], NEW H \in Worlds
        PROVE  TrueBody(e, f, H) \in BOOLEAN
    BY ExprParts, TrueBodyType
  <2> QED
    BY <2>1
<1>3. ASSUME NEW e \in ExprNode, NEW f \in [ExprNode -> V], NEW g \in [ExprNode -> V],
             \A y \in Parts[e] : f[y] = g[y]
      PROVE  G[<<e, f>>] = G[<<e, g>>]
  <2>1. \A H \in Worlds : TrueBody(e, f, H) = TrueBody(e, g, H)
    BY <1>3, ExprParts DEF TrueBody
  <2> QED
    BY <2>1
<1>4. Computes(ExprNode, V, Parts, G)
  <2> HIDE DEF G, V
  <2> QED
    BY <1>1, <1>2, <1>3 DEF Computes
<1>5. PICK f : f \in [ExprNode -> V] /\ f = [e \in ExprNode |-> G[<<e, f>>]]
  <2> HIDE DEF G, V
  <2> QED
    BY <1>4, ExprLayered, Recursion
<1>6. f = [e \in ExprNode |-> [H \in Worlds |-> TrueBody(e, f, H)]]
  <2>1. \A e \in ExprNode : G[<<e, f>>] = [H \in Worlds |-> TrueBody(e, f, H)]
    BY <1>5
  <2> HIDE DEF G
  <2> QED
    BY <1>5, <2>1
<1>7. IsTrue = [e \in ExprNode |-> [H \in Worlds |-> TrueBody(e, IsTrue, H)]]
  BY <1>6 DEF IsTrue, TrueBody
<1> DEFINE C == IsTrue
<1>8. C = [e \in ExprNode |-> [H \in Worlds |-> TrueBody(e, C, H)]]
  BY <1>7
<1> HIDE DEF C
<1>9. ASSUME NEW e \in ExprNode, \A y \in Parts[e] : C[y] \in V PROVE C[e] \in V
  <2>1. \A H \in Worlds : TrueBody(e, C, H) \in BOOLEAN
    BY <1>9, ExprParts, TrueBodyType
  <2>2. C[e] = [H \in Worlds |-> TrueBody(e, C, H)]
    BY <1>8
  <2> QED
    BY <2>1, <2>2
<1>10. C = [e \in ExprNode |-> C[e]]
  BY <1>8
<1>11. C \in [ExprNode -> V]
  <2> HIDE DEF V
  <2> QED
    BY <1>9, <1>10, Typed, ExprLayered
<1>12. \A e \in ExprNode, H \in Worlds : C[e][H] = TrueBody(e, C, H)
  BY <1>8
<1> QED
  BY <1>11, <1>12 DEF C

CompletesBody(e, f, H) ==
  CASE e.op \in {"prove.Must", "trust.That"} -> e.fact \in H /\ \A d \in Operands(e) : f[d][H]
    [] e.op = "func" -> TRUE
    [] e.op = "&&" -> f[e.args[1]][H] /\ (IsTrue[e.args[1]][H] => f[e.args[2]][H])
    [] e.op = "||" -> f[e.args[1]][H] /\ (~IsTrue[e.args[1]][H] => f[e.args[2]][H])
    [] OTHER       -> \A d \in Operands(e) : f[d][H]

LEMMA CompletesBodyType ==
  ASSUME NEW e \in ExprNode, NEW f, \A d \in Operands(e) : f[d] \in [Worlds -> BOOLEAN],
         NEW H \in Worlds
  PROVE  CompletesBody(e, f, H) \in BOOLEAN
<1>1. \A d \in Operands(e) : f[d][H] \in BOOLEAN
  OBVIOUS
<1>2. CASE e.op \in {"prove.Must", "trust.That"}
  <2>1. CompletesBody(e, f, H) = (e.fact \in H /\ \A d \in Operands(e) : f[d][H])
    BY <1>2, Zenon DEF CompletesBody
  <2> QED
    BY <2>1
<1>3. CASE e.op = "func"
  BY <1>3, Zenon DEF CompletesBody
<1>4. CASE e.op = "&&"
  <2>1. CompletesBody(e, f, H) = (f[e.args[1]][H] /\ (IsTrue[e.args[1]][H] => f[e.args[2]][H]))
    BY <1>4, Zenon DEF CompletesBody
  <2> QED
    BY <2>1
<1>5. CASE e.op = "||"
  <2>1. CompletesBody(e, f, H) = (f[e.args[1]][H] /\ (~IsTrue[e.args[1]][H] => f[e.args[2]][H]))
    BY <1>5, Zenon DEF CompletesBody
  <2> QED
    BY <2>1
<1>6. CASE e.op \notin {"prove.Must", "trust.That", "func", "&&", "||"}
  <2>1. CompletesBody(e, f, H) = (\A d \in Operands(e) : f[d][H])
    BY <1>6, Zenon DEF CompletesBody
  <2> QED
    BY <2>1
<1> QED
  BY <1>2, <1>3, <1>4, <1>5, <1>6

LEMMA CompletesDef ==
  /\ Completes \in [ExprNode -> [Worlds -> BOOLEAN]]
  /\ \A e \in ExprNode, H \in Worlds : Completes[e][H] = CompletesBody(e, Completes, H)
<1> DEFINE V == [Worlds -> BOOLEAN]
           G == [p \in ExprNode \X [ExprNode -> V] |-> [H \in Worlds |-> CompletesBody(p[1], p[2], H)]]
<1>1. V # {}
  <2>1. [H \in Worlds |-> TRUE] \in V
    OBVIOUS
  <2> QED
    BY <2>1
<1>2. G \in [ExprNode \X [ExprNode -> V] -> V]
  <2>1. ASSUME NEW e \in ExprNode, NEW f \in [ExprNode -> V], NEW H \in Worlds
        PROVE  CompletesBody(e, f, H) \in BOOLEAN
    BY ExprParts, CompletesBodyType
  <2> QED
    BY <2>1
<1>3. ASSUME NEW e \in ExprNode, NEW f \in [ExprNode -> V], NEW g \in [ExprNode -> V],
             \A y \in Parts[e] : f[y] = g[y]
      PROVE  G[<<e, f>>] = G[<<e, g>>]
  <2>1. \A H \in Worlds : CompletesBody(e, f, H) = CompletesBody(e, g, H)
    BY <1>3, ExprParts DEF CompletesBody
  <2> QED
    BY <2>1
<1>4. Computes(ExprNode, V, Parts, G)
  <2> HIDE DEF G, V
  <2> QED
    BY <1>1, <1>2, <1>3 DEF Computes
<1>5. PICK f : f \in [ExprNode -> V] /\ f = [e \in ExprNode |-> G[<<e, f>>]]
  <2> HIDE DEF G, V
  <2> QED
    BY <1>4, ExprLayered, Recursion
<1>6. f = [e \in ExprNode |-> [H \in Worlds |-> CompletesBody(e, f, H)]]
  <2>1. \A e \in ExprNode : G[<<e, f>>] = [H \in Worlds |-> CompletesBody(e, f, H)]
    BY <1>5
  <2> HIDE DEF G
  <2> QED
    BY <1>5, <2>1
<1>7. Completes = [e \in ExprNode |-> [H \in Worlds |-> CompletesBody(e, Completes, H)]]
  BY <1>6 DEF Completes, CompletesBody
<1> DEFINE C == Completes
<1>8. C = [e \in ExprNode |-> [H \in Worlds |-> CompletesBody(e, C, H)]]
  BY <1>7
<1> HIDE DEF C
<1>9. ASSUME NEW e \in ExprNode, \A y \in Parts[e] : C[y] \in V PROVE C[e] \in V
  <2>1. \A H \in Worlds : CompletesBody(e, C, H) \in BOOLEAN
    BY <1>9, ExprParts, CompletesBodyType
  <2>2. C[e] = [H \in Worlds |-> CompletesBody(e, C, H)]
    BY <1>8
  <2> QED
    BY <2>1, <2>2
<1>10. C = [e \in ExprNode |-> C[e]]
  BY <1>8
<1>11. C \in [ExprNode -> V]
  <2> HIDE DEF V
  <2> QED
    BY <1>9, <1>10, Typed, ExprLayered
<1>12. \A e \in ExprNode, H \in Worlds : C[e][H] = CompletesBody(e, C, H)
  BY <1>8
<1> QED
  BY <1>11, <1>12 DEF C

LEMMA TrueCases ==
  ASSUME NEW e \in ExprNode, NEW H \in Worlds
  PROVE  /\ e.op = "!"    => (IsTrue[e][H] <=> ~IsTrue[e.args[1]][H])
         /\ e.op = "()"   => (IsTrue[e][H] <=> IsTrue[e.args[1]][H])
         /\ e.op = "&&"   => (IsTrue[e][H] <=> IsTrue[e.args[1]][H] /\ IsTrue[e.args[2]][H])
         /\ e.op = "!="   => (IsTrue[e][H] <=> NonNilOf(e.fact[2]) \in H)
         /\ e.op = "=="   => (IsTrue[e][H] <=> NilOf(e.fact[2]) \in H)
         /\ e.op = "pred" => (IsTrue[e][H] <=> e.fact \in H)
<1>1. IsTrue[e][H] <=> TrueBody(e, IsTrue, H)
  BY IsTrueDef
<1> QED
  BY <1>1, Zenon DEF TrueBody

LEMMA GuardCases ==
  ASSUME NEW e \in ExprNode
  PROVE  LET then == CollectGuardFacts[e][FALSE]
             else == CollectGuardFacts[e][TRUE]
         IN  /\ e.op = "!"  => then = CollectGuardFacts[e.args[1]][TRUE] /\ else = CollectGuardFacts[e.args[1]][FALSE]
             /\ e.op = "()" => then = CollectGuardFacts[e.args[1]][FALSE] /\ else = CollectGuardFacts[e.args[1]][TRUE]
             /\ e.op = "&&" => /\ then = CollectGuardFacts[e.args[1]][FALSE] \cup CollectGuardFacts[e.args[2]][FALSE]
                               /\ else = {}
             /\ e.op = "!=" => then = {NonNilOf(e.fact[2])} /\ else = {NilOf(e.fact[2])}
             /\ e.op = "==" => then = {NilOf(e.fact[2])} /\ else = {NonNilOf(e.fact[2])}
             /\ e.op = "pred" => then = {e.fact} /\ else = {}
             /\ e.op \notin {"!", "()", "&&", "!=", "==", "pred"} => then = {} /\ else = {}
<1>1. /\ CollectGuardFacts[e][FALSE] = GuardBody(e, CollectGuardFacts, FALSE)
      /\ CollectGuardFacts[e][TRUE] = GuardBody(e, CollectGuardFacts, TRUE)
  BY CollectGuardFactsDef
<1> HIDE DEF CollectGuardFacts
<1> QED
  BY <1>1 DEF GuardBody, NilComparison

\* The facts of the branch that is taken hold.
TakenBranchTrue(e) ==
  \A H \in Worlds : /\ IsTrue[e][H] => CollectGuardFacts[e][FALSE] \subseteq H
                    /\ ~IsTrue[e][H] => CollectGuardFacts[e][TRUE] \subseteq H

LEMMA TakenBranch ==
  ASSUME NEW e \in ExprNode, \A d \in Operands(e) : TakenBranchTrue(d)
  PROVE  TakenBranchTrue(e)
<1> SUFFICES ASSUME NEW H \in Worlds
             PROVE  /\ IsTrue[e][H] => CollectGuardFacts[e][FALSE] \subseteq H
                    /\ ~IsTrue[e][H] => CollectGuardFacts[e][TRUE] \subseteq H
  BY DEF TakenBranchTrue
<1>1. \A d \in Operands(e) : /\ IsTrue[d][H] => CollectGuardFacts[d][FALSE] \subseteq H
                             /\ ~IsTrue[d][H] => CollectGuardFacts[d][TRUE] \subseteq H
  BY DEF TakenBranchTrue
<1> DEFINE then == CollectGuardFacts[e][FALSE]
           else == CollectGuardFacts[e][TRUE]
<1>2. CASE e.op = "!"
  <2>1. IsTrue[e][H] <=> ~IsTrue[e.args[1]][H]
    BY <1>2, TrueCases, Zenon
  <2>2. then = CollectGuardFacts[e.args[1]][TRUE] /\ else = CollectGuardFacts[e.args[1]][FALSE]
    BY <1>2, GuardCases
  <2>3. e.args[1] \in Operands(e)
    BY <1>2, ExprParts
  <2> HIDE DEF then, else
  <2>4. IsTrue[e][H] => then \subseteq H
    BY <2>1, <2>2, <2>3, <1>1, Zenon
  <2>5. ~IsTrue[e][H] => else \subseteq H
    BY <2>1, <2>2, <2>3, <1>1, Zenon
  <2> QED
    BY <2>4, <2>5 DEF then, else
<1>3. CASE e.op = "()"
  <2>1. IsTrue[e][H] <=> IsTrue[e.args[1]][H]
    BY <1>3, TrueCases, Zenon
  <2>2. then = CollectGuardFacts[e.args[1]][FALSE] /\ else = CollectGuardFacts[e.args[1]][TRUE]
    BY <1>3, GuardCases
  <2>3. e.args[1] \in Operands(e)
    BY <1>3, ExprParts
  <2> HIDE DEF then, else
  <2>4. IsTrue[e][H] => then \subseteq H
    BY <2>1, <2>2, <2>3, <1>1, Zenon
  <2>5. ~IsTrue[e][H] => else \subseteq H
    BY <2>1, <2>2, <2>3, <1>1, Zenon
  <2> QED
    BY <2>4, <2>5 DEF then, else
<1>4. CASE e.op = "&&"
  <2>1. IsTrue[e][H] <=> (IsTrue[e.args[1]][H] /\ IsTrue[e.args[2]][H])
    BY <1>4, TrueCases, Zenon
  <2>2. then = CollectGuardFacts[e.args[1]][FALSE] \cup CollectGuardFacts[e.args[2]][FALSE] /\ else = {}
    BY <1>4, GuardCases
  <2>3. e.args[1] \in Operands(e) /\ e.args[2] \in Operands(e)
    BY <1>4, ExprParts
  <2> HIDE DEF then, else
  <2>4. IsTrue[e][H] => then \subseteq H
    BY <2>1, <2>2, <2>3, <1>1, Zenon
  <2>5. ~IsTrue[e][H] => else \subseteq H
    BY <2>1, <2>2, <2>3, <1>1, Zenon
  <2> QED
    BY <2>4, <2>5 DEF then, else
<1>5. CASE e.op = "!="
  <2>1. IsTrue[e][H] <=> NonNilOf(e.fact[2]) \in H
    BY <1>5, TrueCases, Zenon
  <2>2. then = {NonNilOf(e.fact[2])} /\ else = {NilOf(e.fact[2])}
    BY <1>5, GuardCases
  <2>3. NilOf(e.fact[2]) \in H <=> NonNilOf(e.fact[2]) \notin H
    BY <1>5, ExprParts DEF Worlds, World
  <2> HIDE DEF then, else
  <2>4. IsTrue[e][H] => then \subseteq H
    BY <2>1, <2>2, <2>3, <1>1, Zenon
  <2>5. ~IsTrue[e][H] => else \subseteq H
    BY <2>1, <2>2, <2>3, <1>1, Zenon
  <2> QED
    BY <2>4, <2>5 DEF then, else
<1>6. CASE e.op = "=="
  <2>1. IsTrue[e][H] <=> NilOf(e.fact[2]) \in H
    BY <1>6, TrueCases, Zenon
  <2>2. then = {NilOf(e.fact[2])} /\ else = {NonNilOf(e.fact[2])}
    BY <1>6, GuardCases
  <2>3. NilOf(e.fact[2]) \in H <=> NonNilOf(e.fact[2]) \notin H
    BY <1>6, ExprParts DEF Worlds, World
  <2> HIDE DEF then, else
  <2>4. IsTrue[e][H] => then \subseteq H
    BY <2>1, <2>2, <2>3, <1>1, Zenon
  <2>5. ~IsTrue[e][H] => else \subseteq H
    BY <2>1, <2>2, <2>3, <1>1, Zenon
  <2> QED
    BY <2>4, <2>5 DEF then, else
<1>7. CASE e.op = "pred"
  <2>1. IsTrue[e][H] <=> e.fact \in H
    BY <1>7, TrueCases, Zenon
  <2>2. then = {e.fact} /\ else = {}
    BY <1>7, GuardCases
  <2>3. e.fact \in H <=> IsTrue[e][H]
    BY <2>1
  <2> HIDE DEF then, else
  <2>4. IsTrue[e][H] => then \subseteq H
    BY <2>1, <2>2, <2>3, <1>1, Zenon
  <2>5. ~IsTrue[e][H] => else \subseteq H
    BY <2>1, <2>2, <2>3, <1>1, Zenon
  <2> QED
    BY <2>4, <2>5 DEF then, else
<1>8. CASE e.op \notin {"!", "()", "&&", "!=", "==", "pred"}
  <2>1. then = {} /\ else = {}
    BY <1>8, GuardCases
  <2> QED
    BY <2>1
<1> QED
  BY <1>2, <1>3, <1>4, <1>5, <1>6, <1>7, <1>8

LEMMA EveryTakenBranch == \A e \in ExprNode : TakenBranchTrue(e)
<1> DEFINE B == {e \in ExprNode : ~TakenBranchTrue(e)}
<1> SUFFICES ASSUME B # {} PROVE FALSE
  OBVIOUS
<1>1. PICK e \in B : \A d \in Parts[e] : d \notin B
  <2>1. B \subseteq ExprNode
    OBVIOUS
  <2> HIDE DEF B
  <2> QED
    BY <2>1, ExprLayered, Shallowest
<1>2. \A d \in Operands(e) : TakenBranchTrue(d)
  BY <1>1, ExprParts
<1> QED
  BY <1>2, TakenBranch

\* No call of prove.Must stands where it may be skipped: behind && or ||, or in
\* a function literal.
LEMMA CompletesCases ==
  ASSUME NEW e \in ExprNode, NEW H \in Worlds, Completes[e][H]
  PROVE  /\ e.op \in {"prove.Must", "trust.That"} => e.fact \in H
         /\ e.op \in {"&&", "||"} => Completes[e.args[1]][H]
         /\ e.op \notin {"&&", "||", "func"} => \A d \in Operands(e) : Completes[d][H]
<1>1. Completes[e][H] <=> CompletesBody(e, Completes, H)
  BY CompletesDef
<1> QED
  BY <1>1, Zenon DEF CompletesBody

\* What the calls in an expression plant holds once it has been evaluated.
PlantedOnceDone(e) == \A H \in Worlds : Completes[e][H] => WalkCalls[e] \subseteq H

LEMMA PlantedStep ==
  ASSUME NothingSkipped, NEW e \in ExprNode, \A d \in Operands(e) : PlantedOnceDone(d)
  PROVE  PlantedOnceDone(e)
<1> SUFFICES ASSUME NEW H \in Worlds, Completes[e][H]
             PROVE  WalkCalls[e] \subseteq H
  BY DEF PlantedOnceDone
<1>1. WalkCalls[e] = PlantFromInlineFactCall(e) \cup UNION {WalkCalls[d] : d \in Operands(e)}
  BY WalkCallsDef DEF WalkBody
<1>2. PlantFromInlineFactCall(e) \subseteq H
  BY CompletesCases DEF PlantFromInlineFactCall
<1>3. ASSUME NEW d \in Operands(e) PROVE WalkCalls[d] \subseteq H
  <2>1. CASE e.op \notin {"&&", "||", "func"}
    BY <2>1, CompletesCases DEF PlantedOnceDone
  <2>2. CASE e.op \in {"&&", "||"}
    <3>1. d = e.args[1] \/ d = e.args[2]
      BY <2>2, BinaryOperands
    <3>2. WalkCalls[e.args[2]] = {}
      BY <2>2 DEF NothingSkipped
    <3>3. Completes[e.args[1]][H]
      BY <2>2, CompletesCases
    <3> QED
      BY <3>1, <3>2, <3>3 DEF PlantedOnceDone
  <2>3. CASE e.op = "func"
    BY <2>3 DEF NothingSkipped
  <2> QED
    BY <2>1, <2>2, <2>3
<1> QED
  BY <1>1, <1>2, <1>3

LEMMA EveryPlanted == ASSUME NothingSkipped PROVE \A e \in ExprNode : PlantedOnceDone(e)
<1> DEFINE B == {e \in ExprNode : ~PlantedOnceDone(e)}
<1> SUFFICES ASSUME B # {} PROVE FALSE
  OBVIOUS
<1>1. PICK e \in B : \A d \in Parts[e] : d \notin B
  <2>1. B \subseteq ExprNode
    OBVIOUS
  <2> HIDE DEF B
  <2> QED
    BY <2>1, ExprLayered, Shallowest
<1>2. \A d \in Operands(e) : PlantedOnceDone(d)
  BY <1>1, ExprParts
<1> QED
  BY <1>2, PlantedStep
------------------------------------------------------------------------------
(* Scanner: what resolving a predicate argument finds, and what the        *)
(* predicate answers.                                                      *)

PredParts  == [t \in PredNode |-> Operands(t)]
PredDepths == [t \in PredNode |-> Depth(t)]

LEMMA PredLayered == Layered(PredNode, PredParts, PredDepths)
BY PredAssumption DEF PredAssumption, WellFounded, Layered, PredParts, PredDepths

LEMMA PredOperands ==
  ASSUME NEW t \in PredNode
  PROVE  /\ Operands(t) \subseteq PredNode /\ PredParts[t] = Operands(t)
         /\ t.op = "Not" => t.args[1] \in Operands(t)
         /\ IsNamed(t) => t.name \in Predicates
         /\ t.args = <<>> <=> Operands(t) = {}
<1>1. t.args \in Seq(Operands(t)) /\ Operands(t) \subseteq PredNode
  BY PredAssumption DEF PredAssumption, WellFounded
<1>2. t.op = "Not" => Len(t.args) = 1
  BY PredAssumption DEF PredAssumption
<1>3. IsNamed(t) => t.name \in Predicates
  BY PredAssumption DEF PredAssumption, IsNamed
<1>4. t.args = <<>> <=> Operands(t) = {}
  <2>1. \A n \in DOMAIN t.args : t.args[n] \in Operands(t)
    BY <1>1
  <2>2. Operands(t) # {} => DOMAIN t.args # {}
    BY DEF Operands, ToSet
  <2>3. t.args # <<>> => 1 \in DOMAIN t.args
    BY <1>1
  <2> QED
    BY <2>1, <2>2, <2>3
<1> QED
  BY <1>1, <1>2, <1>3, <1>4 DEF PredParts

Outcome == [ok : BOOLEAN, said : BOOLEAN, leaves : SUBSET Predicates, ors : SUBSET (SUBSET Predicates)]

LEMMA ResolvedType ==
  ASSUME NEW L, L \subseteq Predicates, NEW O, O \subseteq SUBSET Predicates
  PROVE  Resolved(L, O) \in Outcome
BY DEF Resolved, Outcome

LEMMA RefusedType == ASSUME NEW b \in BOOLEAN PROVE Refused(b) \in Outcome
BY DEF Refused, Outcome

LEMMA TogetherType == ASSUME NEW R, R \subseteq Outcome PROVE Together(R) \in Outcome
<1>1. \A r \in R : r.leaves \subseteq Predicates /\ r.ors \subseteq SUBSET Predicates
  BY DEF Outcome
<1>2. Leaves(R) \subseteq Predicates /\ Ors(R) \subseteq SUBSET Predicates
  BY <1>1 DEF Leaves, Ors
<1>3. Said(R) \in BOOLEAN
  BY Zenon DEF Said
<1> QED
  BY <1>2, <1>3, ResolvedType, RefusedType, Zenon DEF Together

LEMMA LeafType == ASSUME NEW u \in PredNode PROVE ResolveLeafOnly(u) \in Outcome
<1>1. CASE IsNamed(u)
  BY <1>1, PredOperands, ResolvedType DEF ResolveLeafOnly
<1>2. CASE ~IsNamed(u)
  <2>1. (u.op # "unknown selector") \in BOOLEAN
    BY Zenon
  <2> QED
    BY <1>2, <2>1, RefusedType, Zenon DEF ResolveLeafOnly
<1> QED
  BY <1>1, <1>2

ResolveBody(t, f) ==
  CASE IsNamed(t)   -> Resolved({t.name}, {})
    [] t.op = "And" -> Together({f[u] : u \in Operands(t)})
    [] t.op = "Or" /\ t.args # <<>> ->
         IF Alternatives(t).ok THEN Resolved({}, {Alternatives(t).leaves}) ELSE Alternatives(t)
    [] OTHER        -> Refused(TRUE)

LEMMA ResolveCasesOf ==
  ASSUME NEW t, NEW f
  PROVE  /\ IsNamed(t) => ResolveBody(t, f) = Resolved({t.name}, {})
         /\ t.op = "And" => ResolveBody(t, f) = Together({f[u] : u \in Operands(t)})
         /\ (t.op = "Or" /\ t.args # <<>> /\ Alternatives(t).ok) =>
              ResolveBody(t, f) = Resolved({}, {Alternatives(t).leaves})
         /\ (t.op = "Or" /\ t.args # <<>> /\ ~Alternatives(t).ok) => ResolveBody(t, f) = Alternatives(t)
         /\ (~IsNamed(t) /\ t.op # "And" /\ ~(t.op = "Or" /\ t.args # <<>>)) => ResolveBody(t, f) = Refused(TRUE)
BY Zenon DEF ResolveBody, Alternatives, IsNamed

LEMMA ResolveBodyType ==
  ASSUME NEW t \in PredNode, NEW f, \A u \in Operands(t) : f[u] \in Outcome
  PROVE  ResolveBody(t, f) \in Outcome
<1>1. CASE IsNamed(t)
  <2>1. Resolved({t.name}, {}) \in Outcome
    <3>1. {t.name} \subseteq Predicates /\ {} \subseteq SUBSET Predicates
      BY <1>1, PredOperands
    <3> QED
      BY <3>1, ResolvedType
  <2> QED
    BY <1>1, <2>1, ResolveCasesOf
<1>2. CASE t.op = "And"
  <2>1. {f[u] : u \in Operands(t)} \subseteq Outcome
    OBVIOUS
  <2> QED
    BY <1>2, <2>1, ResolveCasesOf, TogetherType
<1>3. CASE t.op = "Or" /\ t.args # <<>>
  <2>1. Alternatives(t) \in Outcome
    <3>1. {ResolveLeafOnly(u) : u \in Operands(t)} \subseteq Outcome
      BY LeafType, PredOperands
    <3> QED
      BY <3>1, TogetherType DEF Alternatives
  <2>2. Alternatives(t).leaves \subseteq Predicates
    BY <2>1 DEF Outcome
  <2>3. Resolved({}, {Alternatives(t).leaves}) \in Outcome
    BY <2>2, ResolvedType
  <2> QED
    BY <1>3, <2>1, <2>3, ResolveCasesOf
<1>4. CASE ~IsNamed(t) /\ t.op # "And" /\ ~(t.op = "Or" /\ t.args # <<>>)
  BY <1>4, ResolveCasesOf, RefusedType
<1> QED
  BY <1>1, <1>2, <1>3, <1>4

LEMMA ResolveAndFlatDef ==
  /\ ResolveAndFlat \in [PredNode -> Outcome]
  /\ \A t \in PredNode : ResolveAndFlat[t] = ResolveBody(t, ResolveAndFlat)
<1> DEFINE V == Outcome
           G == [p \in PredNode \X [PredNode -> V] |-> ResolveBody(p[1], p[2])]
<1>1. V # {}
  <2>1. Resolved({}, {}) \in V
    BY ResolvedType
  <2> QED
    BY <2>1
<1>2. G \in [PredNode \X [PredNode -> V] -> V]
  <2>1. ASSUME NEW t \in PredNode, NEW f \in [PredNode -> V]
        PROVE  ResolveBody(t, f) \in Outcome
    BY PredOperands, ResolveBodyType
  <2> QED
    BY <2>1
<1>3. ASSUME NEW t \in PredNode, NEW f \in [PredNode -> V], NEW g \in [PredNode -> V],
             \A y \in PredParts[t] : f[y] = g[y]
      PROVE  G[<<t, f>>] = G[<<t, g>>]
  <2>1. ResolveBody(t, f) = ResolveBody(t, g)
    BY <1>3, PredOperands DEF ResolveBody
  <2> QED
    BY <2>1
<1>4. Computes(PredNode, V, PredParts, G)
  <2> HIDE DEF G, V
  <2> QED
    BY <1>1, <1>2, <1>3 DEF Computes
<1>5. PICK f : f \in [PredNode -> V] /\ f = [t \in PredNode |-> G[<<t, f>>]]
  <2> HIDE DEF G, V
  <2> QED
    BY <1>4, PredLayered, Recursion
<1>6. f = [t \in PredNode |-> ResolveBody(t, f)]
  <2>1. \A t \in PredNode : G[<<t, f>>] = ResolveBody(t, f)
    BY <1>5
  <2> HIDE DEF G
  <2> QED
    BY <1>5, <2>1
<1>7. ResolveAndFlat = [t \in PredNode |-> ResolveBody(t, ResolveAndFlat)]
  BY <1>6 DEF ResolveAndFlat, ResolveBody
<1> DEFINE C == ResolveAndFlat
<1>8. C = [t \in PredNode |-> ResolveBody(t, C)]
  BY <1>7
<1> HIDE DEF C
<1>9. ASSUME NEW t \in PredNode, \A y \in PredParts[t] : C[y] \in V PROVE C[t] \in V
  <2>1. ResolveBody(t, C) \in Outcome
    BY <1>9, PredOperands, ResolveBodyType
  <2>2. C[t] = ResolveBody(t, C)
    BY <1>8
  <2> QED
    BY <2>1, <2>2
<1>10. C = [t \in PredNode |-> C[t]]
  BY <1>8
<1>11. C \in [PredNode -> V]
  <2> HIDE DEF V
  <2> QED
    BY <1>9, <1>10, Typed, PredLayered
<1>12. \A t \in PredNode : C[t] = ResolveBody(t, C)
  BY <1>8
<1> QED
  BY <1>11, <1>12 DEF C

AnswerBody(t, f, H) ==
  CASE t.op = "And" -> \A u \in Operands(t) : f[u][H]
    [] t.op = "Or"  -> \E u \in Operands(t) : f[u][H]
    [] t.op = "Not" -> ~f[t.args[1]][H]
    [] OTHER        -> t.name \in H

LEMMA AnswerBodyType ==
  ASSUME NEW t \in PredNode, NEW f, \A u \in Operands(t) : f[u] \in [Values -> BOOLEAN],
         NEW H \in Values
  PROVE  AnswerBody(t, f, H) \in BOOLEAN
<1>1. CASE t.op = "And"
  <2>1. AnswerBody(t, f, H) = (\A u \in Operands(t) : f[u][H])
    BY <1>1, Zenon DEF AnswerBody
  <2> QED
    BY <2>1
<1>2. CASE t.op = "Or"
  <2>1. AnswerBody(t, f, H) = (\E u \in Operands(t) : f[u][H])
    BY <1>2, Zenon DEF AnswerBody
  <2> QED
    BY <2>1
<1>3. CASE t.op = "Not"
  <2>1. AnswerBody(t, f, H) = (~f[t.args[1]][H])
    BY <1>3, Zenon DEF AnswerBody
  <2> QED
    BY <2>1
<1>4. CASE t.op \notin {"And", "Or", "Not"}
  <2>1. AnswerBody(t, f, H) = (t.name \in H)
    BY <1>4, Zenon DEF AnswerBody
  <2> QED
    BY <2>1
<1> QED
  BY <1>1, <1>2, <1>3, <1>4

LEMMA AnswerDef ==
  /\ Answer \in [PredNode -> [Values -> BOOLEAN]]
  /\ \A t \in PredNode, H \in Values : Answer[t][H] = AnswerBody(t, Answer, H)
<1> DEFINE V == [Values -> BOOLEAN]
           G == [p \in PredNode \X [PredNode -> V] |-> [H \in Values |-> AnswerBody(p[1], p[2], H)]]
<1>1. V # {}
  <2>1. [H \in Values |-> TRUE] \in V
    OBVIOUS
  <2> QED
    BY <2>1
<1>2. G \in [PredNode \X [PredNode -> V] -> V]
  <2>1. ASSUME NEW t \in PredNode, NEW f \in [PredNode -> V], NEW H \in Values
        PROVE  AnswerBody(t, f, H) \in BOOLEAN
    BY PredOperands, AnswerBodyType
  <2> QED
    BY <2>1
<1>3. ASSUME NEW t \in PredNode, NEW f \in [PredNode -> V], NEW g \in [PredNode -> V],
             \A y \in PredParts[t] : f[y] = g[y]
      PROVE  G[<<t, f>>] = G[<<t, g>>]
  <2>1. \A H \in Values : AnswerBody(t, f, H) = AnswerBody(t, g, H)
    BY <1>3, PredOperands DEF AnswerBody
  <2> QED
    BY <2>1
<1>4. Computes(PredNode, V, PredParts, G)
  <2> HIDE DEF G, V
  <2> QED
    BY <1>1, <1>2, <1>3 DEF Computes
<1>5. PICK f : f \in [PredNode -> V] /\ f = [t \in PredNode |-> G[<<t, f>>]]
  <2> HIDE DEF G, V
  <2> QED
    BY <1>4, PredLayered, Recursion
<1>6. f = [t \in PredNode |-> [H \in Values |-> AnswerBody(t, f, H)]]
  <2>1. \A t \in PredNode : G[<<t, f>>] = [H \in Values |-> AnswerBody(t, f, H)]
    BY <1>5
  <2> HIDE DEF G
  <2> QED
    BY <1>5, <2>1
<1>7. Answer = [t \in PredNode |-> [H \in Values |-> AnswerBody(t, Answer, H)]]
  BY <1>6 DEF Answer, AnswerBody
<1> DEFINE C == Answer
<1>8. C = [t \in PredNode |-> [H \in Values |-> AnswerBody(t, C, H)]]
  BY <1>7
<1> HIDE DEF C
<1>9. ASSUME NEW t \in PredNode, \A y \in PredParts[t] : C[y] \in V PROVE C[t] \in V
  <2>1. \A H \in Values : AnswerBody(t, C, H) \in BOOLEAN
    BY <1>9, PredOperands, AnswerBodyType
  <2>2. C[t] = [H \in Values |-> AnswerBody(t, C, H)]
    BY <1>8
  <2> QED
    BY <2>1, <2>2
<1>10. C = [t \in PredNode |-> C[t]]
  BY <1>8
<1>11. C \in [PredNode -> V]
  <2> HIDE DEF V
  <2> QED
    BY <1>9, <1>10, Typed, PredLayered
<1>12. \A t \in PredNode, H \in Values : C[t][H] = AnswerBody(t, C, H)
  BY <1>8
<1> QED
  BY <1>11, <1>12 DEF C

LEMMA AnswerCases ==
  ASSUME NEW t \in PredNode, NEW H \in Values
  PROVE  /\ t.op = "And" => (Answer[t][H] <=> \A u \in Operands(t) : Answer[u][H])
         /\ t.op = "Or"  => (Answer[t][H] <=> \E u \in Operands(t) : Answer[u][H])
         /\ IsNamed(t)   => (Answer[t][H] <=> t.name \in H)
<1>1. Answer[t][H] <=> AnswerBody(t, Answer, H)
  BY AnswerDef
<1> QED
  BY <1>1, Zenon DEF AnswerBody, IsNamed

\* What is demanded by several outcomes at once is demanded by each of them.
LEMMA DemandsAll ==
  ASSUME NEW R, NEW o, o.leaves = Leaves(R), o.ors = Ors(R), NEW H
  PROVE  Demands(o, H) <=> \A r \in R : Demands(r, H)
BY Zenon DEF Demands, Leaves, Ors

LEMMA Flags ==
  /\ \A L, O : Resolved(L, O).ok = TRUE
  /\ \A b : Refused(b).ok = FALSE
  /\ Refused(TRUE).said = TRUE
BY DEF Resolved, Refused

LEMMA TogetherOk ==
  ASSUME NEW R, Together(R).ok
  PROVE  AllOk(R) /\ Together(R).leaves = Leaves(R) /\ Together(R).ors = Ors(R)
<1>1. AllOk(R)
  <2> SUFFICES ASSUME ~AllOk(R) PROVE FALSE
    OBVIOUS
  <2>1. Together(R) = Refused(Said(R))
    BY DEF Together
  <2>2. \A b : Refused(b).ok = FALSE
    BY DEF Refused
  <2> QED
    BY <2>1, <2>2
<1>2. Together(R) = Resolved(Leaves(R), Ors(R))
  BY <1>1 DEF Together
<1> QED
  BY <1>1, <1>2 DEF Resolved

LEMMA TogetherSaid ==
  ASSUME NEW R, \A r \in R : r.ok \/ r.said
  PROVE  Together(R).ok \/ Together(R).said
<1>1. CASE AllOk(R)
  BY <1>1 DEF Together, Resolved
<1>2. CASE ~AllOk(R)
  <2>1. Said(R)
    BY <1>2 DEF AllOk, Said
  <2>2. Together(R) = Refused(TRUE)
    BY <1>2, <2>1, Zenon DEF Together
  <2> QED
    BY <2>2 DEF Refused
<1> QED
  BY <1>1, <1>2

LEMMA LeafOk ==
  ASSUME NEW u, ResolveLeafOnly(u).ok
  PROVE  IsNamed(u) /\ ResolveLeafOnly(u).leaves = {u.name}
<1>1. IsNamed(u)
  <2>1. \A b : Refused(b).ok = FALSE
    BY DEF Refused
  <2> QED
    BY <2>1 DEF ResolveLeafOnly
<1> QED
  BY <1>1 DEF ResolveLeafOnly, Resolved

LEMMA LeafSaid ==
  ASSUME NEW u, u.op # "unknown selector"
  PROVE  ResolveLeafOnly(u).ok \/ ResolveLeafOnly(u).said
<1>1. CASE IsNamed(u)
  BY <1>1 DEF ResolveLeafOnly, Resolved
<1>2. CASE ~IsNamed(u)
  <2>1. ResolveLeafOnly(u) = Refused(TRUE)
    BY <1>2, Zenon DEF ResolveLeafOnly
  <2> QED
    BY <2>1, Flags
<1> QED
  BY <1>1, <1>2

\* What is found says on every value what the predicate answers.
Faithful(t) ==
  ResolveAndFlat[t].ok => \A H \in Values : Answer[t][H] <=> Demands(ResolveAndFlat[t], H)

LEMMA FaithfulStep ==
  ASSUME NEW t \in PredNode, \A u \in Operands(t) : Faithful(u)
  PROVE  Faithful(t)
<1> SUFFICES ASSUME ResolveAndFlat[t].ok, NEW H \in Values
             PROVE  Answer[t][H] <=> Demands(ResolveAndFlat[t], H)
  BY DEF Faithful
<1> DEFINE r == ResolveAndFlat[t]
<1>1. r = ResolveBody(t, ResolveAndFlat)
  BY ResolveAndFlatDef
<1>2. CASE IsNamed(t)
  <2>1. r = Resolved({t.name}, {})
    BY <1>1, <1>2, ResolveCasesOf
  <2>2. Demands(r, H) <=> t.name \in H
    BY <2>1 DEF Demands, Resolved
  <2> HIDE DEF r
  <2>3. Answer[t][H] <=> t.name \in H
    BY <1>2, AnswerCases
  <2> QED
    BY <2>2, <2>3 DEF r
<1>3. CASE t.op = "And"
  <2> DEFINE R == {ResolveAndFlat[u] : u \in Operands(t)}
  <2>1. r = Together(R)
    BY <1>1, <1>3, ResolveCasesOf
  <2>2. AllOk(R) /\ r.leaves = Leaves(R) /\ r.ors = Ors(R)
    <3> HIDE DEF R
    <3> QED
      BY <2>1, TogetherOk
  <2>3. Demands(r, H) <=> \A o \in R : Demands(o, H)
    <3> HIDE DEF R, r
    <3> QED
      BY <2>2, DemandsAll
  <2>4. \A u \in Operands(t) : Answer[u][H] <=> Demands(ResolveAndFlat[u], H)
    BY <2>2 DEF AllOk, Faithful
  <2>5. Answer[t][H] <=> \A u \in Operands(t) : Answer[u][H]
    BY <1>3, AnswerCases
  <2> HIDE DEF r
  <2> QED
    BY <2>3, <2>4, <2>5, Zenon DEF r
<1>4. CASE t.op = "Or" /\ t.args # <<>>
  <2> DEFINE R == {ResolveLeafOnly(u) : u \in Operands(t)}
  <2>1. Alternatives(t) = Together(R)
    BY DEF Alternatives
  <2>2. Alternatives(t).ok
    BY <1>1, <1>4, ResolveCasesOf
  <2>3. AllOk(R) /\ Alternatives(t).leaves = Leaves(R)
    <3> HIDE DEF R
    <3> QED
      BY <2>1, <2>2, TogetherOk
  <2>4. \A u \in Operands(t) : IsNamed(u) /\ ResolveLeafOnly(u).leaves = {u.name}
    BY <2>3, LeafOk DEF AllOk
  <2>5. Leaves(R) \cap H # {} <=> \E u \in Operands(t) : u.name \in H
    BY <2>4 DEF Leaves
  <2>6. \A u \in Operands(t) : Answer[u][H] <=> u.name \in H
    BY <2>4, PredOperands, AnswerCases
  <2>7. Answer[t][H] <=> \E u \in Operands(t) : Answer[u][H]
    BY <1>4, AnswerCases
  <2>8. r = Resolved({}, {Leaves(R)})
    BY <1>1, <1>4, <2>2, <2>3, ResolveCasesOf
  <2>9. Demands(r, H) <=> Leaves(R) \cap H # {}
    <3> HIDE DEF R
    <3> QED
      BY <2>8 DEF Demands, Resolved
  <2> HIDE DEF r, R
  <2> QED
    BY <2>5, <2>6, <2>7, <2>9, Zenon DEF r
<1>5. CASE ~IsNamed(t) /\ t.op # "And" /\ ~(t.op = "Or" /\ t.args # <<>>)
  <2>1. r = Refused(TRUE)
    BY <1>1, <1>5, ResolveCasesOf
  <2> QED
    BY <2>1 DEF Refused
<1> QED
  BY <1>2, <1>3, <1>4, <1>5

LEMMA EveryFaithful == \A t \in PredNode : Faithful(t)
<1> DEFINE B == {t \in PredNode : ~Faithful(t)}
<1> SUFFICES ASSUME B # {} PROVE FALSE
  OBVIOUS
<1>1. PICK t \in B : \A u \in PredParts[t] : u \notin B
  <2>1. B \subseteq PredNode
    OBVIOUS
  <2> HIDE DEF B
  <2> QED
    BY <2>1, PredLayered, Shallowest
<1>2. \A u \in Operands(t) : Faithful(u)
  BY <1>1, PredOperands
<1> QED
  BY <1>2, FaithfulStep

\* What is refused comes with a diagnostic.
Spoken(t) == ResolveAndFlat[t].ok \/ ResolveAndFlat[t].said

LEMMA SpokenStep ==
  ASSUME OrsKnown, NEW t \in PredNode, \A u \in Operands(t) : Spoken(u)
  PROVE  Spoken(t)
<1>1. ResolveAndFlat[t] = ResolveBody(t, ResolveAndFlat)
  BY ResolveAndFlatDef
<1>2. CASE IsNamed(t)
  <2>1. ResolveAndFlat[t] = Resolved({t.name}, {})
    BY <1>1, <1>2, ResolveCasesOf
  <2> QED
    BY <2>1, Flags DEF Spoken
<1>3. CASE t.op = "And"
  <2> DEFINE R == {ResolveAndFlat[u] : u \in Operands(t)}
  <2>1. \A o \in R : o.ok \/ o.said
    BY DEF Spoken
  <2>2. Together(R).ok \/ Together(R).said
    <3> HIDE DEF R
    <3> QED
      BY <2>1, TogetherSaid
  <2>3. ResolveAndFlat[t] = Together(R)
    BY <1>1, <1>3, ResolveCasesOf
  <2> QED
    BY <2>2, <2>3 DEF Spoken
<1>4. CASE t.op = "Or" /\ t.args # <<>>
  <2> DEFINE R == {ResolveLeafOnly(u) : u \in Operands(t)}
  <2>1. \A o \in R : o.ok \/ o.said
    BY <1>4, LeafSaid DEF OrsKnown
  <2>2. Together(R).ok \/ Together(R).said
    <3> HIDE DEF R
    <3> QED
      BY <2>1, TogetherSaid
  <2>3. Alternatives(t).ok \/ Alternatives(t).said
    BY <2>2 DEF Alternatives
  <2>4. CASE Alternatives(t).ok
    <3>1. ResolveAndFlat[t] = Resolved({}, {Alternatives(t).leaves})
      BY <1>1, <1>4, <2>4, ResolveCasesOf
    <3> QED
      BY <3>1, Flags DEF Spoken
  <2>5. CASE ~Alternatives(t).ok
    BY <1>1, <1>4, <2>3, <2>5, ResolveCasesOf DEF Spoken
  <2> QED
    BY <2>4, <2>5
<1>5. CASE ~IsNamed(t) /\ t.op # "And" /\ ~(t.op = "Or" /\ t.args # <<>>)
  <2>1. ResolveAndFlat[t] = Refused(TRUE)
    BY <1>1, <1>5, ResolveCasesOf
  <2> QED
    BY <2>1, Flags DEF Spoken
<1> QED
  BY <1>2, <1>3, <1>4, <1>5

LEMMA EverySpoken == ASSUME OrsKnown PROVE \A t \in PredNode : Spoken(t)
<1> DEFINE B == {t \in PredNode : ~Spoken(t)}
<1> SUFFICES ASSUME B # {} PROVE FALSE
  OBVIOUS
<1>1. PICK t \in B : \A u \in PredParts[t] : u \notin B
  <2>1. B \subseteq PredNode
    OBVIOUS
  <2> HIDE DEF B
  <2> QED
    BY <2>1, PredLayered, Shallowest
<1>2. \A u \in Operands(t) : Spoken(u)
  BY <1>1, PredOperands
<1> QED
  BY <1>2, SpokenStep
------------------------------------------------------------------------------
(* Rules.                                                                  *)

Found(args) == {ResolveAndFlat[t] : t \in ToSet(args)}

LEMMA SlotCases ==
  ASSUME NEW args
  PROVE  /\ (AllOk(Found(args)) /\ Ors(Found(args)) # {}) => Slot(args) = Refused(TRUE)
         /\ (AllOk(Found(args)) /\ Ors(Found(args)) = {}) => Slot(args) = Resolved(Leaves(Found(args)), {})
         /\ ~AllOk(Found(args)) => Slot(args) = Refused(Said(Found(args)) \/ Ors(Found(args)) # {})
BY Zenon DEF Slot, Found

LEMMA SlotOk ==
  ASSUME NEW args, ToSet(args) \subseteq PredNode, Slot(args).ok, NEW H \in Values
  PROVE  AllHold(args, H) <=> Slot(args).leaves \subseteq H
<1> DEFINE R == Found(args)
<1>1. AllOk(R) /\ Ors(R) = {} /\ Slot(args) = Resolved(Leaves(R), {})
  <2> HIDE DEF R
  <2>1. \A b : Refused(b).ok = FALSE
    BY Flags
  <2> QED
    BY <2>1, SlotCases DEF R
<1>2. Slot(args).leaves = Leaves(R)
  <2> HIDE DEF R
  <2> QED
    BY <1>1 DEF Resolved
<1>3. Slot(args).leaves \subseteq H <=> \A o \in R : Demands(o, H)
  <2> HIDE DEF R
  <2>1. \A o \in R : o.ors = {}
    BY <1>1 DEF Ors
  <2>2. \A o \in R : Demands(o, H) <=> o.leaves \subseteq H
    BY <2>1 DEF Demands
  <2> QED
    BY <1>2, <2>2 DEF Leaves
<1>4. \A t \in ToSet(args) : Answer[t][H] <=> Demands(ResolveAndFlat[t], H)
  BY <1>1, EveryFaithful DEF AllOk, Found, Faithful
<1>5. AllHold(args, H) <=> \A t \in ToSet(args) : Answer[t][H]
  BY Zenon DEF AllHold
<1>6. AllHold(args, H) <=> \A o \in R : Demands(o, H)
  BY <1>4, <1>5, Zenon DEF Found
<1> QED
  BY <1>3, <1>6

LEMMA SlotSaid ==
  ASSUME OrsKnown, NEW args, ToSet(args) \subseteq PredNode
  PROVE  Slot(args).ok \/ Slot(args).said
<1>1. CASE AllOk(Found(args))
  BY <1>1, SlotCases, Flags
<1>2. CASE ~AllOk(Found(args))
  <2>1. Said(Found(args))
    BY <1>2, EverySpoken DEF Said, AllOk, Found, Spoken
  <2>2. Slot(args) = Refused(TRUE)
    BY <1>2, <2>1, SlotCases, Zenon
  <2> QED
    BY <2>2, Flags
<1> QED
  BY <1>1, <1>2

\* What the arguments of a rule are.
LEMMA RuleInput ==
  ASSUME NEW r \in Rules
  PROVE  /\ ToSet(r.from) \subseteq PredNode /\ ToSet(r.given) \subseteq PredNode
         /\ ToSet(r.to) \subseteq PredNode
         /\ r.form # "Given" => r.given = <<>>
BY InputAssumption DEF InputAssumption

GivenSlot(r) == IF r.form = "Given" THEN Slot(r.given) ELSE Resolved({}, {})

NotAChain(r) ==
  \/ r.pkg # "infer" \/ r.form \notin {"From", "Given"} \/ r.from = <<>>
  \/ r.form = "Given" /\ r.given = <<>>

LEMMA RuleCases ==
  ASSUME NEW r
  PROVE  LET e == ExtractInferRule(r)
         IN  /\ r.to = <<>> => e = NoRule(FALSE)
             /\ (r.to # <<>> /\ ~Slot(r.to).ok) => e = NoRule(Slot(r.to).said)
             /\ (r.to # <<>> /\ Slot(r.to).ok) =>
                  /\ NotAChain(r) => e = NoRule(FALSE)
                  /\ (~NotAChain(r) /\ ~GivenSlot(r).ok) => e = NoRule(GivenSlot(r).said)
                  /\ (~NotAChain(r) /\ GivenSlot(r).ok /\ ~Slot(r.from).ok) => e = NoRule(Slot(r.from).said)
                  /\ (~NotAChain(r) /\ GivenSlot(r).ok /\ Slot(r.from).ok) =>
                       e = [ok |-> TRUE, said |-> FALSE, from |-> Slot(r.from).leaves,
                            given |-> GivenSlot(r).leaves, to |-> Slot(r.to).leaves]
BY Zenon DEF ExtractInferRule, GivenSlot, NotAChain

LEMMA RuleOk ==
  ASSUME NEW r, ExtractInferRule(r).ok
  PROVE  /\ r.to # <<>> /\ Slot(r.to).ok /\ ~NotAChain(r) /\ GivenSlot(r).ok /\ Slot(r.from).ok
         /\ ExtractInferRule(r) = [ok |-> TRUE, said |-> FALSE, from |-> Slot(r.from).leaves,
                                   given |-> GivenSlot(r).leaves, to |-> Slot(r.to).leaves]
<1> DEFINE Taken == r.to # <<>> /\ Slot(r.to).ok /\ ~NotAChain(r) /\ GivenSlot(r).ok /\ Slot(r.from).ok
<1>1. \A b : NoRule(b).ok = FALSE
  BY DEF NoRule
<1>2. Taken \/ \E b : ExtractInferRule(r) = NoRule(b)
  BY RuleCases, Zenon
<1>3. Taken
  <2> HIDE DEF Taken
  <2> QED
    BY <1>1, <1>2
<1> QED
  BY <1>3, RuleCases

\* The rule's slots on a value.
LEMMA RuleSlots ==
  ASSUME NEW r \in Rules, ExtractInferRule(r).ok, NEW H \in Values
  PROVE  LET e == ExtractInferRule(r)
         IN  /\ r.from # <<>>
             /\ AllHold(r.from, H) <=> e.from \subseteq H
             /\ (r.given # <<>> => AllHold(r.given, H)) <=> e.given \subseteq H
             /\ AllHold(r.to, H) <=> e.to \subseteq H
<1> DEFINE e == ExtractInferRule(r)
<1>1. /\ Slot(r.to).ok /\ ~NotAChain(r) /\ GivenSlot(r).ok /\ Slot(r.from).ok
      /\ e = [ok |-> TRUE, said |-> FALSE, from |-> Slot(r.from).leaves,
              given |-> GivenSlot(r).leaves, to |-> Slot(r.to).leaves]
  BY RuleOk
<1>2. e.from = Slot(r.from).leaves /\ e.given = GivenSlot(r).leaves /\ e.to = Slot(r.to).leaves
  <2> HIDE DEF e
  <2> QED
    BY <1>1
<1> HIDE DEF e
<1>3. AllHold(r.from, H) <=> e.from \subseteq H
  BY <1>1, <1>2, RuleInput, SlotOk
<1>4. AllHold(r.to, H) <=> e.to \subseteq H
  BY <1>1, <1>2, RuleInput, SlotOk
<1>5. CASE r.form = "Given"
  <2>1. GivenSlot(r) = Slot(r.given) /\ r.given # <<>>
    BY <1>1, <1>5 DEF GivenSlot, NotAChain
  <2>2. AllHold(r.given, H) <=> e.given \subseteq H
    BY <1>1, <1>2, <2>1, RuleInput, SlotOk
  <2> QED
    BY <1>1, <1>3, <1>4, <2>1, <2>2 DEF e, NotAChain
<1>6. CASE r.form # "Given"
  <2>1. GivenSlot(r) = Resolved({}, {}) /\ r.given = <<>>
    BY <1>6, RuleInput DEF GivenSlot
  <2>2. e.given = {}
    BY <1>2, <2>1 DEF Resolved
  <2> QED
    BY <1>1, <1>3, <1>4, <2>1, <2>2 DEF e, NotAChain
<1> QED
  BY <1>5, <1>6

LEMMA RuleVerified ==
  ASSUME NEW r \in Rules, ExtractInferRule(r).ok, NEW H \in Values
  PROVE  LET e == ExtractInferRule(r)
         IN  /\ Verify(r, {H}) <=> (e.from \cup e.given \subseteq H => e.to \subseteq H)
             /\ VerifyApplies(r, {H}) <=> e.from \cup e.given \cup e.to \subseteq H
<1> DEFINE e  == ExtractInferRule(r)
           given == r.given # <<>> => AllHold(r.given, H)
<1>1. /\ r.from # <<>> /\ (AllHold(r.from, H) <=> e.from \subseteq H)
      /\ (given <=> e.given \subseteq H) /\ (AllHold(r.to, H) <=> e.to \subseteq H)
  BY RuleSlots
<1>2. Check(r, H) <=> (r.from # <<>> /\ AllHold(r.from, H) /\ given => AllHold(r.to, H))
  BY Zenon DEF Check
<1>3. Applies(r, H) <=> (r.from # <<>> /\ AllHold(r.from, H) /\ given)
  BY Zenon DEF Applies
<1>4. Verify(r, {H}) <=> Check(r, H)
  BY Zenon DEF Verify
<1>5. VerifyApplies(r, {H}) <=> Check(r, H) /\ Applies(r, H)
  BY <1>4, Zenon DEF VerifyApplies
<1> HIDE DEF e, given
<1>6. (e.from \cup e.given \subseteq H <=> e.from \subseteq H /\ e.given \subseteq H)
      /\ (e.from \cup e.given \cup e.to \subseteq H <=> e.from \subseteq H /\ e.given \subseteq H /\ e.to \subseteq H)
  OBVIOUS
<1> QED
  BY <1>1, <1>2, <1>3, <1>4, <1>5, <1>6, Zenon DEF e

LEMMA RuleKept ==
  ASSUME OrsKnown, NEW r \in Rules, r.to # <<>>, ~NotAChain(r)
  PROVE  ExtractInferRule(r).ok \/ ExtractInferRule(r).said
<1> DEFINE e == ExtractInferRule(r)
<1>1. \A b : NoRule(b).said = b
  BY DEF NoRule
<1>2. /\ Slot(r.to).ok \/ Slot(r.to).said
      /\ Slot(r.from).ok \/ Slot(r.from).said
  BY RuleInput, SlotSaid
<1>3. GivenSlot(r).ok \/ GivenSlot(r).said
  <2>1. CASE r.form = "Given"
    BY <2>1, RuleInput, SlotSaid DEF GivenSlot
  <2>2. CASE r.form # "Given"
    BY <2>2, Flags DEF GivenSlot
  <2> QED
    BY <2>1, <2>2
<1>4. CASE ~Slot(r.to).ok
  <2>1. e = NoRule(Slot(r.to).said)
    BY <1>4, RuleCases
  <2> QED
    BY <1>1, <1>2, <1>4, <2>1
<1>5. CASE Slot(r.to).ok /\ ~GivenSlot(r).ok
  <2>1. e = NoRule(GivenSlot(r).said)
    BY <1>5, RuleCases
  <2> QED
    BY <1>1, <1>3, <1>5, <2>1
<1>6. CASE Slot(r.to).ok /\ GivenSlot(r).ok /\ ~Slot(r.from).ok
  <2>1. e = NoRule(Slot(r.from).said)
    BY <1>6, RuleCases
  <2> QED
    BY <1>1, <1>2, <1>6, <2>1
<1>7. CASE Slot(r.to).ok /\ GivenSlot(r).ok /\ Slot(r.from).ok
  <2>1. e = [ok |-> TRUE, said |-> FALSE, from |-> Slot(r.from).leaves,
             given |-> GivenSlot(r).leaves, to |-> Slot(r.to).leaves]
    BY <1>7, RuleCases
  <2> HIDE DEF e
  <2>2. e.ok = TRUE
    BY <2>1
  <2> QED
    BY <2>2 DEF e
<1> QED
  BY <1>4, <1>5, <1>6, <1>7

LEMMA EveryRule ==
  ASSUME OrsKnown, NEW r \in Rules
  PROVE  RulesAsVerified(r, ExtractInferRule(r))
<1> DEFINE e == ExtractInferRule(r)
<1>1. e.ok => r.pkg = "infer" /\ r.form \in {"From", "Given"}
  BY RuleOk DEF NotAChain
<1>2. e.ok => \A H \in Values :
                /\ Verify(r, {H}) <=> (e.from \cup e.given \subseteq H => e.to \subseteq H)
                /\ VerifyApplies(r, {H}) <=> e.from \cup e.given \cup e.to \subseteq H
  BY RuleVerified
<1>3. (/\ r.pkg = "infer" /\ r.from # <<>> /\ r.to # <<>>
       /\ \/ r.form = "From"
          \/ r.form = "Given" /\ r.given # <<>>) => e.ok \/ e.said
  <2>1. (/\ r.pkg = "infer" /\ r.from # <<>> /\ r.to # <<>>
         /\ \/ r.form = "From"
            \/ r.form = "Given" /\ r.given # <<>>) => ~NotAChain(r)
    BY DEF NotAChain
  <2> QED
    BY <2>1, RuleKept
<1> HIDE DEF e
<1> QED
  BY <1>1, <1>2, <1>3, Zenon DEF RulesAsVerified, e
------------------------------------------------------------------------------
(* Functions.                                                              *)

LEMMA FunctionInput ==
  ASSUME NEW f \in Functions
  PROVE  WellNamed(f) /\ \A c \in ToSet(f.calls) : Operands(c) \subseteq PredNode
<1>1. WellNamed(f)
  BY InputAssumption DEF InputAssumption
<1>2. UNION {UNION {Operands(c) : c \in ToSet(g.calls)} : g \in Functions} \subseteq PredNode
  BY InputAssumption DEF InputAssumption
<1> QED
  BY <1>1, <1>2

LEMMA Single == ASSUME NEW S, NEW x \in S PROVE <<x>> \in Seq(S)
OBVIOUS

LEMMA Wider == ASSUME NEW S, NEW T, NEW q \in Seq(S) PROVE q \in Seq(S \cup T)
OBVIOUS

\* The names of slots.
Name == STRING \cup {"_"}

LEMMA SlotsType == ASSUME NEW f \in Functions PROVE Slots(f) \in Seq(Name)
<1> DEFINE names == [i \in DOMAIN f.params |-> IF f.params[i] = <<>> THEN <<"_">> ELSE f.params[i]]
<1>1. f.params \in Seq(Seq(STRING))
  BY FunctionInput DEF WellNamed
<1>2. DOMAIN f.params = 1..Len(f.params) /\ Len(f.params) \in Nat
  BY <1>1
<1>3. \A i \in DOMAIN f.params : names[i] \in Seq(Name)
  <2>1. \A i \in DOMAIN f.params : f.params[i] \in Seq(Name)
    <3>1. \A i \in DOMAIN f.params : f.params[i] \in Seq(STRING)
      BY <1>1
    <3>2. ASSUME NEW q \in Seq(STRING) PROVE q \in Seq(Name)
      BY Wider DEF Name
    <3> QED
      BY <3>1, <3>2
  <2>2. <<"_">> \in Seq(Name)
    <3>1. "_" \in Name
      BY DEF Name
    <3> QED
      BY <3>1, Single
  <2> QED
    BY <2>1, <2>2
<1>4. names \in Seq(Seq(Name))
  <2>1. names = [i \in 1..Len(f.params) |-> names[i]]
    BY <1>2
  <2> HIDE DEF names
  <2> QED
    BY <1>2, <1>3, <2>1
<1>5. FlattenSeq(names) \in Seq(Name)
  <2> HIDE DEF names
  <2> QED
    BY <1>4, FlattenJoined
<1> QED
  BY <1>5 DEF Slots

\* A name stands for the parameter in its slot.
LEMMA IndexOfSlot ==
  ASSUME NEW f \in Functions, NEW c \in ToSet(f.calls), NEW i \in DOMAIN Slots(f)
  PROVE  ParamIndex(f, c.subject) = i <=> c.subject = Slots(f)[i]
<1> DEFINE s == Slots(f)
           v == c.subject
<1>1. s \in Seq(Name) /\ DOMAIN s = 1..Len(s)
  BY SlotsType
<1>2. v # "_" /\ \A j, k \in DOMAIN s : s[j] = s[k] => j = k \/ s[j] = "_"
  BY FunctionInput DEF WellNamed
<1>3. ParamIndex(f, v) = SelectInSeq(s, LAMBDA w : w = v)
  BY <1>2, Zenon DEF ParamIndex
<1> HIDE DEF s, v
<1> DEFINE n == SelectInSeq(s, LAMBDA w : w = v)
<1>4. /\ n \in 1..Len(s) => s[n] = v
      /\ \A k \in 1..Len(s) : (s[k] = v /\ \A j \in 1..Len(s) : s[j] = v => j = k) => n = k
  BY <1>1, OnlyPlace
<1> HIDE DEF n
<1>5. i \in 1..Len(s)
  BY <1>1 DEF s
<1>6. n = i <=> v = s[i]
  BY <1>1, <1>2, <1>4, <1>5
<1> QED
  BY <1>3, <1>6 DEF n, s, v

\* The calls of a function that the scanner takes without a word.
Silent(f) == ~ScanFunc(f).said

LEMMA SilentCalls ==
  ASSUME OrsKnown, NEW f \in Functions, Silent(f)
  PROVE  /\ \A c \in Thats(f) : Trackable(c)
         /\ \A c \in ToSet(f.calls) : \A t \in ToSet(c.args) : t \in PredNode /\ ResolveAndFlat[t].ok
<1> DEFINE Said1 == \E c \in Thats(f) : ~Trackable(c)
           Said2 == \E c \in ToSet(f.calls) : (c \in Thats(f) => Trackable(c)) /\ Said(Arguments(c))
<1>1. ScanFunc(f).said = (Said1 \/ Said2)
  BY DEF ScanFunc
<1>2. ~Said1 /\ ~Said2
  <2> HIDE DEF Said1, Said2
  <2> QED
    BY <1>1 DEF Silent
<1>3. \A c \in Thats(f) : Trackable(c)
  BY <1>2
<1>4. \A c \in ToSet(f.calls) : ~Said(Arguments(c))
  BY <1>2, <1>3
<1>5. \A c \in ToSet(f.calls) : \A t \in ToSet(c.args) : t \in PredNode /\ ~ResolveAndFlat[t].said
  BY <1>4, FunctionInput DEF Said, Arguments, Operands
<1> QED
  BY <1>3, <1>5, EverySpoken DEF Spoken

\* What is recorded of some of the calls is what they check.
LEMMA Recorded ==
  ASSUME OrsKnown, NEW f \in Functions, Silent(f), NEW C, C \subseteq ToSet(f.calls), NEW H \in Values
  PROVE  Demands(Record(C), H) <=> \A c \in C : AllHold(c.args, H)
<1> DEFINE R == UNION {Arguments(c) : c \in C}
<1>1. Record(C).leaves = Leaves(R) /\ Record(C).ors = Ors(R)
  BY DEF Record
<1>2. Demands(Record(C), H) <=> \A r \in R : Demands(r, H)
  <2> HIDE DEF R
  <2> QED
    BY <1>1, DemandsAll
<1>3. (\A r \in R : Demands(r, H)) <=> \A c \in C : \A t \in ToSet(c.args) : Demands(ResolveAndFlat[t], H)
  <2>1. \A c : Arguments(c) = {ResolveAndFlat[t] : t \in ToSet(c.args)}
    BY Zenon DEF Arguments, Operands
  <2>2. ASSUME \A r \in R : Demands(r, H), NEW c \in C, NEW t \in ToSet(c.args)
        PROVE  Demands(ResolveAndFlat[t], H)
    <3>1. ResolveAndFlat[t] \in Arguments(c)
      BY <2>1, <2>2, Zenon
    <3> QED
      BY <3>1, <2>2, Zenon
  <2>3. ASSUME \A c \in C : \A t \in ToSet(c.args) : Demands(ResolveAndFlat[t], H), NEW r \in R
        PROVE  Demands(r, H)
    <3>1. PICK c \in C : r \in Arguments(c)
      BY <2>3, Zenon
    <3>2. PICK t \in ToSet(c.args) : r = ResolveAndFlat[t]
      BY <2>1, <3>1, Zenon
    <3> QED
      BY <2>3, <3>1, <3>2, Zenon
  <2> QED
    BY <2>2, <2>3
<1>4. \A c \in C : \A t \in ToSet(c.args) : Answer[t][H] <=> Demands(ResolveAndFlat[t], H)
  BY SilentCalls, EveryFaithful DEF Faithful
<1>5. \A c \in C : AllHold(c.args, H) <=> \A t \in ToSet(c.args) : Answer[t][H]
  BY Zenon DEF AllHold
<1> HIDE DEF R
<1> QED
  BY <1>2, <1>3, <1>4, <1>5, Zenon

LEMMA NothingDemanded ==
  ASSUME NEW H
  PROVE  Demands(Nothing, H) /\ Demands(Record({}), H)
<1>1. Record({}).leaves = {} /\ Record({}).ors = {}
  BY DEF Record, Leaves, Ors
<1> QED
  BY <1>1 DEF Demands, Nothing

LEMMA EveryFunction ==
  ASSUME OrsKnown, NEW f \in Functions, PlainContracts(f)
  PROVE  ContractsAsDeclared(f, ScanFunc(f))
<1> DEFINE s == ScanFunc(f)
           own(C) == {c \in C : ~c.lit}
<1>1. own(Thats(f)) = Thats(f) /\ own(Returns(f)) = Returns(f)
  BY DEF PlainContracts, Thats, Returns
<1>2. ASSUME Silent(f), NEW H \in Values, NEW i \in DOMAIN Slots(f)
      PROVE  Demands(s.params[i], H)
               <=> \A c \in Thats(f) : c.subject = Slots(f)[i] => AllHold(c.args, H)
  <2>1. s.params[i] = IF Kept(f) THEN Record(On(f, i)) ELSE Nothing
    <3>1. s.params = [j \in DOMAIN Slots(f) |-> IF Kept(f) THEN Record(On(f, j)) ELSE Nothing]
      BY Zenon DEF ScanFunc
    <3> HIDE DEF s
    <3> QED
      BY <3>1
  <2>2. ~Kept(f) => On(f, i) = {}
    BY DEF Kept
  <2>3. Demands(s.params[i], H) <=> Demands(Record(On(f, i)), H)
    <3> HIDE DEF s
    <3> QED
      BY <2>1, <2>2, NothingDemanded
  <2>4. On(f, i) \subseteq ToSet(f.calls) /\ Thats(f) \subseteq ToSet(f.calls)
    BY DEF On, Thats
  <2>5. Demands(Record(On(f, i)), H) <=> \A c \in On(f, i) : AllHold(c.args, H)
    BY <1>2, <2>4, Recorded
  <2>6. On(f, i) = {c \in Thats(f) : c.subject = Slots(f)[i]}
    BY <1>2, <2>4, SilentCalls, IndexOfSlot DEF On
  <2> QED
    BY <2>3, <2>5, <2>6, Zenon
<1>3. ASSUME Silent(f), NEW H \in Values
      PROVE  Demands(s.returns, H) <=> \A c \in Returns(f) : AllHold(c.args, H)
  <2>1. s.returns = IF Kept(f) THEN Record(Returns(f)) ELSE Nothing
    BY Zenon DEF ScanFunc
  <2>2. ~Kept(f) => Record(Returns(f)).leaves = {} /\ Record(Returns(f)).ors = {}
    BY DEF Kept, PlainContracts
  <2>3. ~Kept(f) => Demands(Record(Returns(f)), H)
    BY <2>2 DEF Demands
  <2>4. Demands(s.returns, H) <=> Demands(Record(Returns(f)), H)
    <3> HIDE DEF s
    <3> QED
      BY <2>1, <2>3, NothingDemanded
  <2>5. Returns(f) \subseteq ToSet(f.calls)
    BY DEF Returns
  <2> QED
    BY <1>3, <2>4, <2>5, Recorded
<1> HIDE DEF s
<1>4. ASSUME ~s.said, NEW H \in Values
      PROVE  /\ \A i \in DOMAIN Slots(f) :
                  Demands(s.params[i], H)
                    <=> \A c \in own(Thats(f)) : c.subject = Slots(f)[i] => AllHold(c.args, H)
             /\ Demands(s.returns, H) <=> \A c \in own(Returns(f)) : AllHold(c.args, H)
  <2>1. Silent(f)
    BY <1>4 DEF Silent, s
  <2> HIDE DEF own
  <2> QED
    BY <2>1, <1>1, <1>2, <1>3, <1>4, Zenon
<1> QED
  BY <1>4, Zenon DEF ContractsAsDeclared, s
------------------------------------------------------------------------------
(* CallSites: the calls that are found, and what they call.                *)

CallParts  == [c \in CallNode |-> Operands(c)]
CallDepths == [c \in CallNode |-> Depth(c)]
StmtParts  == [s \in StmtNode |-> Enclosed(s)]
StmtDepths == [s \in StmtNode |-> Depth(s)]

LEMMA CallLayered == Layered(CallNode, CallParts, CallDepths)
BY CallAssumption DEF CallAssumption, WellFounded, Layered, CallParts, CallDepths

LEMMA StmtLayered == Layered(StmtNode, StmtParts, StmtDepths)
BY CallAssumption DEF CallAssumption, WellFounded, Layered, StmtParts, StmtDepths

LEMMA CallOperands ==
  ASSUME NEW c \in CallNode
  PROVE  Operands(c) \subseteq CallNode /\ CallParts[c] = Operands(c)
BY CallAssumption DEF CallAssumption, WellFounded, CallParts

LEMMA StmtOperands ==
  ASSUME NEW s \in StmtNode
  PROVE  Enclosed(s) \subseteq StmtNode /\ StmtParts[s] = Enclosed(s) /\ s.calls \subseteq CallNode
<1>1. s.calls \subseteq CallNode
  BY CallAssumption DEF CallAssumption
<1> QED
  BY <1>1, CallAssumption DEF CallAssumption, WellFounded, StmtParts

UnderBody(c, f) == {c} \cup UNION {f[d] : d \in Operands(c)}

LEMMA UnderBodyType ==
  ASSUME NEW c \in CallNode, NEW f, \A d \in Operands(c) : f[d] \in SUBSET CallNode
  PROVE  UnderBody(c, f) \in SUBSET CallNode
BY DEF UnderBody

LEMMA CallsUnderDef ==
  /\ CallsUnder \in [CallNode -> SUBSET CallNode]
  /\ \A c \in CallNode : CallsUnder[c] = UnderBody(c, CallsUnder)
<1> DEFINE V == SUBSET CallNode
           G == [p \in CallNode \X [CallNode -> V] |-> UnderBody(p[1], p[2])]
<1>1. V # {}
  <2>1. {} \in V
    OBVIOUS
  <2> QED
    BY <2>1
<1>2. G \in [CallNode \X [CallNode -> V] -> V]
  <2>1. ASSUME NEW c \in CallNode, NEW f \in [CallNode -> V]
        PROVE  UnderBody(c, f) \in SUBSET CallNode
    BY CallOperands, UnderBodyType
  <2> QED
    BY <2>1
<1>3. ASSUME NEW c \in CallNode, NEW f \in [CallNode -> V], NEW g \in [CallNode -> V],
             \A y \in CallParts[c] : f[y] = g[y]
      PROVE  G[<<c, f>>] = G[<<c, g>>]
  <2>1. UnderBody(c, f) = UnderBody(c, g)
    BY <1>3, CallOperands DEF UnderBody
  <2> QED
    BY <2>1
<1>4. Computes(CallNode, V, CallParts, G)
  <2> HIDE DEF G, V
  <2> QED
    BY <1>1, <1>2, <1>3 DEF Computes
<1>5. PICK f : f \in [CallNode -> V] /\ f = [c \in CallNode |-> G[<<c, f>>]]
  <2> HIDE DEF G, V
  <2> QED
    BY <1>4, CallLayered, Recursion
<1>6. f = [c \in CallNode |-> UnderBody(c, f)]
  <2>1. \A c \in CallNode : G[<<c, f>>] = UnderBody(c, f)
    BY <1>5
  <2> HIDE DEF G
  <2> QED
    BY <1>5, <2>1
<1>7. CallsUnder = [c \in CallNode |-> UnderBody(c, CallsUnder)]
  BY <1>6 DEF CallsUnder, UnderBody
<1> DEFINE C == CallsUnder
<1>8. C = [c \in CallNode |-> UnderBody(c, C)]
  BY <1>7
<1> HIDE DEF C
<1>9. ASSUME NEW c \in CallNode, \A y \in CallParts[c] : C[y] \in V PROVE C[c] \in V
  <2>1. UnderBody(c, C) \in SUBSET CallNode
    BY <1>9, CallOperands, UnderBodyType
  <2>2. C[c] = UnderBody(c, C)
    BY <1>8
  <2> QED
    BY <2>1, <2>2
<1>10. C = [c \in CallNode |-> C[c]]
  BY <1>8
<1>11. C \in [CallNode -> V]
  <2> HIDE DEF V
  <2> QED
    BY <1>9, <1>10, Typed, CallLayered
<1>12. \A c \in CallNode : C[c] = UnderBody(c, C)
  BY <1>8
<1> QED
  BY <1>11, <1>12 DEF C

LEMMA SitesType ==
  ASSUME NEW s \in StmtNode PROVE WalkCallSites(s.calls) \in SUBSET CallNode
BY StmtOperands, CallsUnderDef DEF WalkCallSites

StmtBody(s, f) ==
  CASE s.kind \in Simple   -> WalkCallSites(s.calls)
    [] s.kind \in Compound -> UNION {f[t] : t \in Enclosed(s)}
    [] OTHER -> {}

LEMMA StmtBodyType ==
  ASSUME NEW s \in StmtNode, NEW f, \A t \in Enclosed(s) : f[t] \in SUBSET CallNode
  PROVE  StmtBody(s, f) \in SUBSET CallNode
<1>1. WalkCallSites(s.calls) \in SUBSET CallNode
  BY SitesType
<1>2. UNION {f[t] : t \in Enclosed(s)} \in SUBSET CallNode
  OBVIOUS
<1>3. StmtBody(s, f) \in {WalkCallSites(s.calls), UNION {f[t] : t \in Enclosed(s)}, {}}
  BY Zenon DEF StmtBody
<1> QED
  BY <1>1, <1>2, <1>3

LEMMA AnalyzeStmtDef ==
  /\ AnalyzeStmt \in [StmtNode -> SUBSET CallNode]
  /\ \A s \in StmtNode : AnalyzeStmt[s] = StmtBody(s, AnalyzeStmt)
<1> DEFINE V == SUBSET CallNode
           G == [p \in StmtNode \X [StmtNode -> V] |-> StmtBody(p[1], p[2])]
<1>1. V # {}
  <2>1. {} \in V
    OBVIOUS
  <2> QED
    BY <2>1
<1>2. G \in [StmtNode \X [StmtNode -> V] -> V]
  <2>1. ASSUME NEW s \in StmtNode, NEW f \in [StmtNode -> V]
        PROVE  StmtBody(s, f) \in SUBSET CallNode
    BY StmtOperands, StmtBodyType
  <2> QED
    BY <2>1
<1>3. ASSUME NEW s \in StmtNode, NEW f \in [StmtNode -> V], NEW g \in [StmtNode -> V],
             \A y \in StmtParts[s] : f[y] = g[y]
      PROVE  G[<<s, f>>] = G[<<s, g>>]
  <2>1. StmtBody(s, f) = StmtBody(s, g)
    BY <1>3, StmtOperands DEF StmtBody
  <2> QED
    BY <2>1
<1>4. Computes(StmtNode, V, StmtParts, G)
  <2> HIDE DEF G, V
  <2> QED
    BY <1>1, <1>2, <1>3 DEF Computes
<1>5. PICK f : f \in [StmtNode -> V] /\ f = [s \in StmtNode |-> G[<<s, f>>]]
  <2> HIDE DEF G, V
  <2> QED
    BY <1>4, StmtLayered, Recursion
<1>6. f = [s \in StmtNode |-> StmtBody(s, f)]
  <2>1. \A s \in StmtNode : G[<<s, f>>] = StmtBody(s, f)
    BY <1>5
  <2> HIDE DEF G
  <2> QED
    BY <1>5, <2>1
<1>7. AnalyzeStmt = [s \in StmtNode |-> StmtBody(s, AnalyzeStmt)]
  BY <1>6 DEF AnalyzeStmt, StmtBody
<1> DEFINE C == AnalyzeStmt
<1>8. C = [s \in StmtNode |-> StmtBody(s, C)]
  BY <1>7
<1> HIDE DEF C
<1>9. ASSUME NEW s \in StmtNode, \A y \in StmtParts[s] : C[y] \in V PROVE C[s] \in V
  <2>1. StmtBody(s, C) \in SUBSET CallNode
    BY <1>9, StmtOperands, StmtBodyType
  <2>2. C[s] = StmtBody(s, C)
    BY <1>8
  <2> QED
    BY <2>1, <2>2
<1>10. C = [s \in StmtNode |-> C[s]]
  BY <1>8
<1>11. C \in [StmtNode -> V]
  <2> HIDE DEF V
  <2> QED
    BY <1>9, <1>10, Typed, StmtLayered
<1>12. \A s \in StmtNode : C[s] = StmtBody(s, C)
  BY <1>8
<1> QED
  BY <1>11, <1>12 DEF C

InBody(s, f) == WalkCallSites(s.calls) \cup UNION {f[t] : t \in Enclosed(s)}

LEMMA InBodyType ==
  ASSUME NEW s \in StmtNode, NEW f, \A t \in Enclosed(s) : f[t] \in SUBSET CallNode
  PROVE  InBody(s, f) \in SUBSET CallNode
BY SitesType DEF InBody

LEMMA CallsInDef ==
  /\ CallsIn \in [StmtNode -> SUBSET CallNode]
  /\ \A s \in StmtNode : CallsIn[s] = InBody(s, CallsIn)
<1> DEFINE V == SUBSET CallNode
           G == [p \in StmtNode \X [StmtNode -> V] |-> InBody(p[1], p[2])]
<1>1. V # {}
  <2>1. {} \in V
    OBVIOUS
  <2> QED
    BY <2>1
<1>2. G \in [StmtNode \X [StmtNode -> V] -> V]
  <2>1. ASSUME NEW s \in StmtNode, NEW f \in [StmtNode -> V]
        PROVE  InBody(s, f) \in SUBSET CallNode
    BY StmtOperands, InBodyType
  <2> QED
    BY <2>1
<1>3. ASSUME NEW s \in StmtNode, NEW f \in [StmtNode -> V], NEW g \in [StmtNode -> V],
             \A y \in StmtParts[s] : f[y] = g[y]
      PROVE  G[<<s, f>>] = G[<<s, g>>]
  <2>1. InBody(s, f) = InBody(s, g)
    BY <1>3, StmtOperands DEF InBody
  <2> QED
    BY <2>1
<1>4. Computes(StmtNode, V, StmtParts, G)
  <2> HIDE DEF G, V
  <2> QED
    BY <1>1, <1>2, <1>3 DEF Computes
<1>5. PICK f : f \in [StmtNode -> V] /\ f = [s \in StmtNode |-> G[<<s, f>>]]
  <2> HIDE DEF G, V
  <2> QED
    BY <1>4, StmtLayered, Recursion
<1>6. f = [s \in StmtNode |-> InBody(s, f)]
  <2>1. \A s \in StmtNode : G[<<s, f>>] = InBody(s, f)
    BY <1>5
  <2> HIDE DEF G
  <2> QED
    BY <1>5, <2>1
<1>7. CallsIn = [s \in StmtNode |-> InBody(s, CallsIn)]
  BY <1>6 DEF CallsIn, InBody
<1> DEFINE C == CallsIn
<1>8. C = [s \in StmtNode |-> InBody(s, C)]
  BY <1>7
<1> HIDE DEF C
<1>9. ASSUME NEW s \in StmtNode, \A y \in StmtParts[s] : C[y] \in V PROVE C[s] \in V
  <2>1. InBody(s, C) \in SUBSET CallNode
    BY <1>9, StmtOperands, InBodyType
  <2>2. C[s] = InBody(s, C)
    BY <1>8
  <2> QED
    BY <2>1, <2>2
<1>10. C = [s \in StmtNode |-> C[s]]
  BY <1>8
<1>11. C \in [StmtNode -> V]
  <2> HIDE DEF V
  <2> QED
    BY <1>9, <1>10, Typed, StmtLayered
<1>12. \A s \in StmtNode : C[s] = InBody(s, C)
  BY <1>8
<1> QED
  BY <1>11, <1>12 DEF C

\* The analyzer finds the calls that are there.
LEMMA EveryCallFound ==
  ASSUME StatementsKnown
  PROVE  \A s \in StmtNode : AnalyzeStmt[s] = CallsIn[s] /\ CallsIn[s] \subseteq CallNode
<1> DEFINE Bad == {s \in StmtNode : AnalyzeStmt[s] # CallsIn[s]}
<1>1. Bad = {}
  <2> SUFFICES ASSUME Bad # {} PROVE FALSE
    OBVIOUS
  <2>1. PICK s \in Bad : \A t \in StmtParts[s] : t \notin Bad
    <3>1. Bad \subseteq StmtNode
      OBVIOUS
    <3> HIDE DEF Bad
    <3> QED
      BY <3>1, StmtLayered, Shallowest
  <2>2. \A t \in Enclosed(s) : AnalyzeStmt[t] = CallsIn[t]
    BY <2>1, StmtOperands
  <2>3. AnalyzeStmt[s] = StmtBody(s, AnalyzeStmt) /\ CallsIn[s] = InBody(s, CallsIn)
    BY AnalyzeStmtDef, CallsInDef
  <2>4. UNION {AnalyzeStmt[t] : t \in Enclosed(s)} = UNION {CallsIn[t] : t \in Enclosed(s)}
    BY <2>2
  <2>5. CASE s.kind \in Simple
    <3>1. StmtBody(s, AnalyzeStmt) = WalkCallSites(s.calls)
      <4>1. s.kind \notin Compound
        BY <2>5 DEF Simple, Compound
      <4> QED
        BY <2>5, <4>1, Zenon DEF StmtBody
    <3>2. Enclosed(s) = {}
      BY <2>5, CallAssumption DEF CallAssumption
    <3> QED
      BY <2>3, <3>1, <3>2 DEF InBody
  <2>6. CASE s.kind \in Compound
    <3>1. StmtBody(s, AnalyzeStmt) = UNION {AnalyzeStmt[t] : t \in Enclosed(s)}
      <4>1. s.kind \notin Simple
        BY <2>6 DEF Simple, Compound
      <4> QED
        BY <2>6, <4>1, Zenon DEF StmtBody
    <3>2. WalkCallSites(s.calls) = {}
      BY <2>6 DEF StatementsKnown, WalkCallSites
    <3> QED
      BY <2>3, <2>4, <3>1, <3>2 DEF InBody
  <2> QED
    BY <2>5, <2>6 DEF StatementsKnown
<1> QED
  BY <1>1, CallsInDef

\* The function of a name is the one Go means.
LEMMA RightContracts ==
  ASSUME NEW f, ImportsNamed(f), NEW c \in CallNode
  PROVE  ContractsOf(c.fn, f.imports) = Contracted \cap Denoted(c.fn, f.imports)
<1> DEFINE I == ToSet(f.imports)
           q == c.fn[1]
<1>1. CASE Len(c.fn) = 1
  <2>1. {j \in I : j.name = "."} = {}
    BY DEF ImportsNamed
  <2>2. Denoted(c.fn, f.imports) = {<<Own, c.fn[1]>>} \cup {<<i.path, c.fn[1]>> : i \in {j \in I : j.name = "."}}
    BY <1>1, Zenon DEF Denoted
  <2>3. ContractsOf(c.fn, f.imports) = Contracted \cap {<<Own, c.fn[1]>>}
    BY <1>1, Zenon DEF ContractsOf
  <2> HIDE DEF I
  <2> QED
    BY <2>1, <2>2, <2>3
<1>2. CASE Len(c.fn) # 1
  <2>1. q # "_"
    BY <1>2, CallAssumption DEF CallAssumption
  <2>2. \A i \in I : (i.name \notin {"_", "."} /\ AliasOf(i) = q)
                       <=> q = (IF i.name = "" THEN PackageName[i.path] ELSE i.name)
    BY <2>1 DEF ImportsNamed, AliasOf
  <2>3. {i \in I : i.name \notin {"_", "."} /\ AliasOf(i) = q}
          = {j \in I : q = (IF j.name = "" THEN PackageName[j.path] ELSE j.name)}
    <3> HIDE DEF I, q
    <3> QED
      BY <2>2
  <2> DEFINE J == {j \in I : q = (IF j.name = "" THEN PackageName[j.path] ELSE j.name)}
  <2>4. CollectImports(f.imports, q) = {imp.path : imp \in J}
    BY <2>3, Zenon DEF CollectImports
  <2>5. Denoted(c.fn, f.imports) = {<<i.path, c.fn[2]>> : i \in J}
    BY <1>2, Zenon DEF Denoted
  <2>6. ContractsOf(c.fn, f.imports) = Contracted \cap {<<path, c.fn[2]>> : path \in CollectImports(f.imports, q)}
    BY <1>2, Zenon DEF ContractsOf
  <2> HIDE DEF J, q
  <2>7. {<<path, c.fn[2]>> : path \in {imp.path : imp \in J}} = {<<i.path, c.fn[2]>> : i \in J}
    OBVIOUS
  <2> QED
    BY <2>4, <2>5, <2>6, <2>7
<1> QED
  BY <1>1, <1>2

LEMMA EveryBody ==
  ASSUME StatementsKnown, NEW f \in Bodies, ImportsNamed(f)
  PROVE  ChecksEveryCall(f, AnalyzeFile(f))
<1>1. ToSet(f.body) \subseteq StmtNode
  <2>1. UNION {ToSet(b.body) : b \in Bodies} \subseteq StmtNode
    BY InputAssumption DEF InputAssumption
  <2> QED
    BY <2>1
<1> DEFINE K == UNION {CallsIn[s] : s \in ToSet(f.body)}
<1>2. UNION {AnalyzeStmt[s] : s \in ToSet(f.body)} = K /\ K \subseteq CallNode
  BY <1>1, EveryCallFound
<1>3. AnalyzeFile(f) = UNION {RecordCallDischarge(c, f.imports) : c \in K}
  BY <1>2, Zenon DEF AnalyzeFile
<1> HIDE DEF K
<1>4. \A c \in K : RecordCallDischarge(c, f.imports) = {<<c.at, g>> : g \in Contracted \cap Denoted(c.fn, f.imports)}
  BY <1>2, RightContracts, Zenon DEF RecordCallDischarge
<1>5. AnalyzeFile(f) = UNION {{<<c.at, g>> : g \in Contracted \cap Denoted(c.fn, f.imports)} : c \in K}
  BY <1>3, <1>4
<1> QED
  BY <1>5 DEF ChecksEveryCall, K
------------------------------------------------------------------------------
(* Literals: the verdict and the value.                                    *)

LEMMA Arithmetic ==
  ASSUME NEW n \in Int, NEW F \in Nat \ {0}
  PROVE  /\ (n * F) \div F = n /\ n \div F \in Int
         /\ n % F = 0 => n = F * (n \div F)
         /\ n > 0 <=> n * F > 0
         /\ n < 0 <=> n * F < 0
<1>1. (n * F) \div F = n
  OBVIOUS
<1>2. n \div F \in Int
  OBVIOUS
<1>3. n = F * (n \div F) + (n % F) /\ n % F \in Nat
  OBVIOUS
<1>4. (n > 0 <=> n * F > 0) /\ (n < 0 <=> n * F < 0)
  OBVIOUS
<1>5. n % F = 0 => n = F * (n \div F)
  BY <1>2, <1>3
<1> QED
  BY <1>1, <1>2, <1>4, <1>5

LEMMA SignedType == ASSUME NEW a \in LitArgs PROVE Signed(a) \in Int /\ a.mag \in Nat
<1>1. a.mag \in Nat /\ a.neg \in Nat
  BY InputAssumption DEF InputAssumption
<1> QED
  BY <1>1 DEF Signed

OfSign == {"Positive", "Negative", "NonNegative", "NonPositive"}
OfZero == {"Zero", "NonZero"}
Parity == {"Even", "Odd"}
OfSize == {"Empty", "NonEmpty"}
OfNil  == {"Nil", "NonNil"}

\* What each comparison is.
LEMMA Comparisons ==
  ASSUME NEW v
  PROVE  /\ Compare("Positive", v) = (v > 0) /\ Compare("Negative", v) = (v < 0)
         /\ Compare("NonNegative", v) = (v >= 0) /\ Compare("NonPositive", v) = (v <= 0)
         /\ Compare("Zero", v) = (v = 0) /\ Compare("NonZero", v) = (v # 0)
         /\ Compare("Even", v) = (v % 2 = 0) /\ Compare("Odd", v) = (v % 2 # 0)
         /\ Compare("Empty", v) = (v = 0) /\ Compare("NonEmpty", v) = (v > 0)
<1>1. Compare("Positive", v) = (v > 0)
  BY Zenon DEF Compare
<1>2. Compare("Negative", v) = (v < 0)
  BY Zenon DEF Compare
<1>3. Compare("NonNegative", v) = (v >= 0)
  BY Zenon DEF Compare
<1>4. Compare("NonPositive", v) = (v <= 0)
  BY Zenon DEF Compare
<1>5. Compare("Zero", v) = (v = 0)
  BY Zenon DEF Compare
<1>6. Compare("NonZero", v) = (v # 0)
  BY Zenon DEF Compare
<1>7. Compare("Even", v) = (v % 2 = 0)
  BY Zenon DEF Compare
<1>8. Compare("Odd", v) = (v % 2 # 0)
  BY Zenon DEF Compare
<1>9. Compare("Empty", v) = (v = 0)
  BY Zenon DEF Compare
<1>10. Compare("NonEmpty", v) = (v > 0)
  BY Zenon DEF Compare
<1> QED
  BY <1>1, <1>2, <1>3, <1>4, <1>5, <1>6, <1>7, <1>8, <1>9, <1>10

LEMMA ComparisonsType ==
  ASSUME NEW p \in OfSign \cup OfZero \cup Parity \cup OfSize, NEW v \in Int
  PROVE  Compare(p, v) \in BOOLEAN
<1>1. CASE p = "Positive"
  <2>1. Compare(p, v) = (v > 0)
    BY <1>1, Comparisons, Zenon
  <2>2. (v > 0) \in BOOLEAN
    OBVIOUS
  <2> QED
    BY <2>1, <2>2, Zenon
<1>2. CASE p = "Negative"
  <2>1. Compare(p, v) = (v < 0)
    BY <1>2, Comparisons, Zenon
  <2>2. (v < 0) \in BOOLEAN
    OBVIOUS
  <2> QED
    BY <2>1, <2>2, Zenon
<1>3. CASE p = "NonNegative"
  <2>1. Compare(p, v) = (v >= 0)
    BY <1>3, Comparisons, Zenon
  <2>2. (v >= 0) \in BOOLEAN
    OBVIOUS
  <2> QED
    BY <2>1, <2>2, Zenon
<1>4. CASE p = "NonPositive"
  <2>1. Compare(p, v) = (v <= 0)
    BY <1>4, Comparisons, Zenon
  <2>2. (v <= 0) \in BOOLEAN
    OBVIOUS
  <2> QED
    BY <2>1, <2>2, Zenon
<1>5. CASE p = "Zero"
  <2>1. Compare(p, v) = (v = 0)
    BY <1>5, Comparisons, Zenon
  <2>2. (v = 0) \in BOOLEAN
    OBVIOUS
  <2> QED
    BY <2>1, <2>2, Zenon
<1>6. CASE p = "NonZero"
  <2>1. Compare(p, v) = (v # 0)
    BY <1>6, Comparisons, Zenon
  <2>2. (v # 0) \in BOOLEAN
    OBVIOUS
  <2> QED
    BY <2>1, <2>2, Zenon
<1>7. CASE p = "Even"
  <2>1. Compare(p, v) = (v % 2 = 0)
    BY <1>7, Comparisons, Zenon
  <2>2. (v % 2 = 0) \in BOOLEAN
    OBVIOUS
  <2> QED
    BY <2>1, <2>2, Zenon
<1>8. CASE p = "Odd"
  <2>1. Compare(p, v) = (v % 2 # 0)
    BY <1>8, Comparisons, Zenon
  <2>2. (v % 2 # 0) \in BOOLEAN
    OBVIOUS
  <2> QED
    BY <2>1, <2>2, Zenon
<1>9. CASE p = "Empty"
  <2>1. Compare(p, v) = (v = 0)
    BY <1>9, Comparisons, Zenon
  <2>2. (v = 0) \in BOOLEAN
    OBVIOUS
  <2> QED
    BY <2>1, <2>2, Zenon
<1>10. CASE p = "NonEmpty"
  <2>1. Compare(p, v) = (v > 0)
    BY <1>10, Comparisons, Zenon
  <2>2. (v > 0) \in BOOLEAN
    OBVIOUS
  <2> QED
    BY <2>1, <2>2, Zenon
<1> QED
  BY <1>1, <1>2, <1>3, <1>4, <1>5, <1>6, <1>7, <1>8, <1>9, <1>10 DEF OfSign, OfZero, Parity, OfSize

\* The comparisons with 0 see a sign only.
LEMMA SameSign ==
  ASSUME NEW v \in Int, NEW w \in Int, v > 0 <=> w > 0, v < 0 <=> w < 0,
         NEW p \in OfSign \cup OfZero
  PROVE  Compare(p, v) <=> Compare(p, w)
BY Comparisons DEF OfSign, OfZero

LEMMA VerdictIs ==
  ASSUME NEW b, b \in BOOLEAN
  PROVE  (Verdict(b) = "holds" <=> b) /\ (Verdict(b) = "fails" <=> ~b)
BY DEF Verdict

\* The verdict on an argument is true of the value that arrives.
Truly(p, a, T) ==
  /\ EvalLibraryPredicate(p, a) = "holds" => HoldsOnValue(p, a, T)
  /\ EvalLibraryPredicate(p, a) = "fails" => ~HoldsOnValue(p, a, T)

Numeric == {"int", "uint", "float"}

\* The value of a number has the sign, and a whole one the parity, of what is
\* written.
LEMMA NumberArrives ==
  ASSUME NEW a \in LitArgs, NEW T, PlainType(T), T.kind \in Numeric, Assignable(a, T),
         NEW p \in OfSign \cup OfZero
  PROVE  HoldsOnValue(p, a, T) <=> Compare(p, Signed(a))
<1> DEFINE n == Signed(a)
           v == Exact(a)
           F == Fraction
<1>1. n \in Int /\ F \in Nat \ {0}
  BY SignedType, FractionAssumption
<1>2. IsNumber(a)
  BY DEF Assignable, Numeric
<1>3. /\ a.shape = "INT" => v = n * F
      /\ a.shape # "INT" => v = n
  BY DEF Exact
<1> HIDE DEF n, v, F
<1>4. v \in Int /\ (v > 0 <=> n > 0) /\ (v < 0 <=> n < 0)
  BY <1>1, <1>3, Arithmetic
<1>5. p \notin {"Nil", "NonNil"} /\ T.kind \notin {"string", "bool", "pointer", "chan", "any"}
  BY DEF OfSign, OfZero, Numeric
<1>6. CASE T.kind = "float"
  <2>1. HoldsOnValue(p, a, T) = Compare(p, Rounded(v, T.step))
    BY <1>5, <1>6, Zenon DEF HoldsOnValue, v
  <2>2. T.step = 1
    BY <1>6 DEF PlainType
  <2>3. Rounded(v, 1) = v
    BY <1>4 DEF Rounded
  <2> QED
    BY <2>1, <2>2, <2>3, <1>1, <1>4, SameSign DEF n
<1>7. CASE T.kind # "float"
  <2>2. T.kind \in {"int", "uint"}
    BY <1>7 DEF Numeric
  <2>1. HoldsOnValue(p, a, T) = Compare(p, v \div F)
    BY <1>5, <1>7, <2>2, Zenon DEF HoldsOnValue, v, F
  <2>3. v % F = 0
    BY <2>2, Zenon DEF Assignable, v, F
  <2>4. v \div F \in Int /\ v = F * (v \div F)
    BY <1>1, <1>4, <2>3, Arithmetic
  <2> DEFINE w == v \div F
  <2>5. w \in Int /\ v = w * F
    BY <1>1, <2>4
  <2> HIDE DEF w
  <2>6. (w > 0 <=> n > 0) /\ (w < 0 <=> n < 0)
    BY <1>1, <1>4, <2>5, Arithmetic
  <2> QED
    BY <2>1, <2>5, <2>6, <1>1, SameSign DEF n, w
<1> QED
  BY <1>6, <1>7

LEMMA SignTruly ==
  ASSUME NEW a \in LitArgs, NEW T, PlainType(T), Assignable(a, T), NEW p \in OfSign,
         Applicable(p, T)
  PROVE  Truly(p, a, T)
<1>1. T.kind \in Numeric
  BY DEF Applicable, OfSign, Numeric
<1>2. p \notin {"NonNil", "Nil", "NonEmpty", "Empty"}
  BY DEF OfSign
<1>3. EvalLibraryPredicate(p, a) = EvalNumeric(p, a)
  BY <1>2 DEF EvalLibraryPredicate, OfSign
<1>4. EvalNumeric(p, a) \in {"skip", Verdict(Compare(p, Signed(a)))}
  BY DEF EvalNumeric
<1>5. Compare(p, Signed(a)) \in BOOLEAN
  BY SignedType, ComparisonsType
<1> QED
  BY <1>1, <1>3, <1>4, <1>5, NumberArrives, VerdictIs DEF Truly

LEMMA SizeTruly ==
  ASSUME NEW a \in LitArgs, NEW T, Assignable(a, T), NEW p \in OfSize, Applicable(p, T)
  PROVE  Truly(p, a, T)
<1>1. T.kind = "string"
  BY DEF Applicable, OfSize
<1>2. EvalLibraryPredicate(p, a) = EvalStringLen(p, a)
  BY DEF EvalLibraryPredicate, OfSize
<1>3. EvalStringLen(p, a) \in {"skip", Verdict(Compare(p, a.mag))}
  BY DEF EvalStringLen
<1>4. Compare(p, a.mag) \in BOOLEAN
  BY SignedType, ComparisonsType
<1>5. HoldsOnValue(p, a, T) = Compare(p, a.mag)
  <2>1. p \notin {"Nil", "NonNil"}
    BY DEF OfSize
  <2> QED
    BY <1>1, <2>1, Zenon DEF HoldsOnValue
<1> QED
  BY <1>2, <1>3, <1>4, <1>5, VerdictIs DEF Truly

LEMMA NilTruly ==
  ASSUME NEW a \in LitArgs, NEW T, Assignable(a, T), NEW p \in OfNil, Applicable(p, T)
  PROVE  Truly(p, a, T)
<1>1. T.kind = "pointer"
  BY DEF Applicable, OfNil
<1>2. a.shape \in {"nil", "&X{}", "new"}
  BY <1>1 DEF Assignable
<1>3. EvalLibraryPredicate(p, a) = EvalPointerIsNil(p, a)
  BY DEF EvalLibraryPredicate, OfNil
<1>4. EvalPointerIsNil(p, a) = IF a.shape = "nil" THEN Verdict(p = "Nil") ELSE Verdict(p = "NonNil")
  BY <1>2 DEF EvalPointerIsNil, NeverNil
<1>5. HoldsOnValue(p, a, T) = ((a.shape = "nil") = (p = "Nil"))
  BY Zenon DEF HoldsOnValue, OfNil
<1> QED
  BY <1>3, <1>4, <1>5 DEF Truly, OfNil, Verdict

LEMMA ParityTruly ==
  ASSUME NEW a \in LitArgs, NEW T, Assignable(a, T), NEW p \in Parity, Applicable(p, T)
  PROVE  Truly(p, a, T)
<1>1. T.kind \in {"int", "uint"}
  BY DEF Applicable, Parity
<1>2. EvalLibraryPredicate(p, a) = EvalInteger(p, a)
  BY DEF EvalLibraryPredicate, Parity
<1>3. CASE ~AsIntLit(a)
  BY <1>2, <1>3 DEF EvalInteger, Truly
<1>4. CASE AsIntLit(a)
  <2>1. Exact(a) = Signed(a) * Fraction
    BY <1>4 DEF Exact, AsIntLit
  <2>2. Exact(a) \div Fraction = Signed(a)
    BY <2>1, SignedType, FractionAssumption, Arithmetic
  <2>3. HoldsOnValue(p, a, T) = Compare(p, Exact(a) \div Fraction)
    <3>1. p \notin {"Nil", "NonNil"} /\ T.kind \notin {"string", "bool", "pointer", "chan", "any", "float"}
      BY <1>1 DEF Parity
    <3> QED
      BY <1>1, <3>1, Zenon DEF HoldsOnValue
  <2>4. EvalInteger(p, a) = Verdict(Compare(p, Signed(a)))
    BY <1>4 DEF EvalInteger
  <2>5. Compare(p, Signed(a)) \in BOOLEAN
    BY SignedType, ComparisonsType
  <2> QED
    BY <1>2, <2>2, <2>3, <2>4, <2>5, VerdictIs DEF Truly
<1> QED
  BY <1>3, <1>4

LEMMA ZeroTruly ==
  ASSUME NEW a \in LitArgs, NEW T, T.kind \in Kinds, PlainType(T), Assignable(a, T),
         NEW p \in OfZero
  PROVE  Truly(p, a, T)
<1>1. EvalLibraryPredicate(p, a) = EvalZeroValue(p, a)
  BY DEF EvalLibraryPredicate, OfZero
<1>2. p \notin {"Nil", "NonNil"}
  BY DEF OfZero
<1>3. Compare(p, Signed(a)) \in BOOLEAN /\ Compare(p, a.mag) \in BOOLEAN
  BY SignedType, ComparisonsType
<1>4. CASE T.kind \in Numeric
  <2>1. a.shape \in {"INT", "FLOAT"}
    BY <1>4 DEF Assignable, Numeric, IsNumber
  <2>2. EvalZeroValue(p, a) \in {"skip", Verdict(Compare(p, Signed(a)))}
    BY <2>1 DEF EvalZeroValue, AsString, NeverNil
  <2> QED
    BY <1>1, <1>3, <1>4, <2>2, NumberArrives, VerdictIs DEF Truly
<1>5. CASE T.kind = "string"
  <2>1. a.shape = "STRING"
    BY <1>5 DEF Assignable
  <2>2. EvalZeroValue(p, a) = Verdict(Compare(p, a.mag))
    BY <2>1 DEF EvalZeroValue, AsString, AsIntLit, AsFloatLit, NeverNil
  <2>3. HoldsOnValue(p, a, T) = Compare(p, a.mag)
    BY <1>2, <1>5, Zenon DEF HoldsOnValue
  <2> QED
    BY <1>1, <1>3, <2>2, <2>3, VerdictIs DEF Truly
<1>6. CASE T.kind = "bool"
  <2>1. a.shape \in {"true", "false"}
    BY <1>6 DEF Assignable
  <2>2. EvalZeroValue(p, a) = IF a.shape = "false" THEN Verdict(p = "Zero") ELSE Verdict(p = "NonZero")
    BY <2>1 DEF EvalZeroValue, AsString, AsIntLit, AsFloatLit, NeverNil
  <2>3. HoldsOnValue(p, a, T) = ((a.shape = "false") = (p = "Zero"))
    BY <1>2, <1>6, Zenon DEF HoldsOnValue
  <2> QED
    BY <1>1, <2>1, <2>2, <2>3 DEF Truly, Verdict, OfZero
<1>7. CASE T.kind \in {"pointer", "chan"}
  <2>1. a.shape \in {"nil", "&X{}", "new", "make"}
    BY <1>7 DEF Assignable
  <2>2. EvalZeroValue(p, a) = IF a.shape = "nil" THEN Verdict(p = "Zero") ELSE Verdict(p = "NonZero")
    BY <2>1 DEF EvalZeroValue, AsString, AsIntLit, AsFloatLit, NeverNil
  <2>3. HoldsOnValue(p, a, T) = ((a.shape = "nil") = (p = "Zero"))
    <3>1. T.kind \notin {"string", "bool", "float"}
      BY <1>7
    <3> QED
      BY <1>2, <1>7, <3>1, Zenon DEF HoldsOnValue
  <2> QED
    BY <1>1, <2>1, <2>2, <2>3 DEF Truly, Verdict, OfZero
<1>8. T.kind \in Numeric \cup {"string", "bool", "pointer", "chan"}
  BY DEF PlainType, Kinds, Numeric
<1> QED
  BY <1>4, <1>5, <1>6, <1>7, <1>8

LEMMA EveryVerdict ==
  ASSUME NEW a \in LitArgs, NEW T, T.kind \in Kinds, PlainType(T), Assignable(a, T), NEW p,
         Applicable(p, T)
  PROVE  Truly(p, a, T)
<1>1. CASE p \notin OfSign \cup OfSize \cup OfNil \cup Parity \cup OfZero
  BY <1>1 DEF Truly, EvalLibraryPredicate, OfSign, OfSize, OfNil, Parity, OfZero
<1> QED
  BY <1>1, SignTruly, SizeTruly, NilTruly, ParityTruly, ZeroTruly

\* The first alternative that is accepted.
Accepted(s, a) == SelectInSeq(s, LAMBDA p : EvalLibraryPredicate(p, a) = "holds")

LEMMA FirstPlace ==
  ASSUME NEW X, NEW s \in Seq(X), NEW a
  PROVE  /\ Accepted(s, a) # 0 =>
              Accepted(s, a) \in 1..Len(s) /\ EvalLibraryPredicate(s[Accepted(s, a)], a) = "holds"
         /\ (\E i \in 1..Len(s) : EvalLibraryPredicate(s[i], a) = "holds") => Accepted(s, a) # 0
<1> DEFINE Test(p) == EvalLibraryPredicate(p, a) = "holds"
           I == {i \in 1..Len(s) : Test(s[i])}
           n == Accepted(s, a)
<1>1. n = IF I # {} THEN Min(I) ELSE 0
  BY Zenon DEF SelectInSeq, Accepted
<1>2. I \subseteq Nat
  OBVIOUS
<1>3. I # {} => Min(I) \in I
  <2> HIDE DEF I
  <2> QED
    BY <1>2, LeastNat DEF Min
<1> HIDE DEF n
<1>4. n # 0 => n \in I
  BY <1>1, <1>3
<1>5. I # {} => n # 0
  BY <1>1, <1>3
<1> QED
  BY <1>4, <1>5 DEF n

LEMMA EveryLiteral ==
  ASSUME NEW a \in LitArgs, NEW T, T.kind \in Kinds, PlainType(T), NEW d \in Demanded
  PROVE  LiteralFactsTrue(a, T, d.required, d.ors, EvalLiterals(a, d.required, d.ors))
<1> DEFINE P == d.required \cup UNION {ToSet(o) : o \in d.ors}
           Holds(p) == EvalLibraryPredicate(p, a) = "holds"
           First(alts) == Accepted(alts, a)
           planted == EvalLiterals(a, d.required, d.ors)
<1>1. planted = {p \in d.required : Holds(p)}
                  \cup {alts[First(alts)] : alts \in {o \in d.ors : First(o) # 0}}
  BY Zenon DEF EvalLiterals, Accepted
<1>2. \A o \in d.ors : o \in Seq(ToSet(o))
  BY InputAssumption DEF InputAssumption
<1>3. ASSUME NEW o \in d.ors
      PROVE  /\ First(o) # 0 => o[First(o)] \in ToSet(o) /\ Holds(o[First(o)])
             /\ (\E p \in ToSet(o) : Holds(p)) => First(o) # 0
  <2>1. \A n \in 1..Len(o) : o[n] \in ToSet(o)
    BY <1>2
  <2>2. ToSet(o) = {o[n] : n \in 1..Len(o)}
    BY <1>2 DEF ToSet
  <2>3. /\ First(o) # 0 => First(o) \in 1..Len(o) /\ Holds(o[First(o)])
        /\ (\E n \in 1..Len(o) : Holds(o[n])) => First(o) # 0
    BY <1>2, FirstPlace
  <2> HIDE DEF Holds, First
  <2> QED
    BY <2>1, <2>2, <2>3
<1> HIDE DEF planted, First
<1>4. ASSUME NEW p \in planted PROVE p \in P /\ Holds(p)
  BY <1>1, <1>3, <1>4
<1>5. ASSUME NEW o \in d.ors, \E p \in ToSet(o) : Holds(p) PROVE ToSet(o) \cap planted # {}
  BY <1>1, <1>3, <1>5
<1>6. ASSUME Assignable(a, T), \A p \in P : Applicable(p, T)
      PROVE  /\ \A p \in planted : HoldsOnValue(p, a, T)
             /\ \A p \in P : EvalLibraryPredicate(p, a) = "fails" => ~HoldsOnValue(p, a, T)
  <2>1. \A p \in P : Truly(p, a, T)
    <3> HIDE DEF P
    <3> QED
      BY <1>6, EveryVerdict
  <2> HIDE DEF P
  <2> QED
    BY <1>4, <2>1, Zenon DEF Truly
<1> QED
  BY <1>5, <1>6, Zenon DEF LiteralFactsTrue, planted
------------------------------------------------------------------------------
(* Folds: taking the elements of a finite set one by one.                  *)

\* ch picks an element from every subset.
Picks(S, ch) == IsFiniteSet(S) /\ \A s \in SUBSET S : s # {} => ch[s] \in s

Peeled(S, ch) == [s \in SUBSET S |-> IF s = {} THEN {} ELSE {s \ {ch[s]}}]
Sizes(S)      == [s \in SUBSET S |-> Cardinality(s)]

LEMMA PeelLayered ==
  ASSUME NEW S, NEW ch, Picks(S, ch)
  PROVE  Layered(SUBSET S, Peeled(S, ch), Sizes(S))
<1>1. \A s \in SUBSET S : IsFiniteSet(s) /\ Cardinality(s) \in Nat
  BY FS_Subset, FS_CardinalityType DEF Picks
<1>2. ASSUME NEW s \in SUBSET S, s # {}
      PROVE  s \ {ch[s]} \in SUBSET S /\ Cardinality(s \ {ch[s]}) < Cardinality(s)
  <2>1. ch[s] \in s /\ IsFiniteSet(s)
    BY <1>1, <1>2 DEF Picks
  <2>2. Cardinality(s \ {ch[s]}) = Cardinality(s) - 1
    BY <2>1, FS_RemoveElement
  <2> QED
    BY <1>1, <2>2
<1>3. Peeled(S, ch) \in [SUBSET S -> SUBSET SUBSET S]
  BY <1>2 DEF Peeled
<1>4. Sizes(S) \in [SUBSET S -> Nat]
  BY <1>1 DEF Sizes
<1>5. ASSUME NEW s \in SUBSET S, NEW r \in Peeled(S, ch)[s] PROVE Sizes(S)[r] < Sizes(S)[s]
  <2>1. s # {} /\ r = s \ {ch[s]}
    BY DEF Peeled
  <2> QED
    BY <1>2, <2>1 DEF Sizes
<1> QED
  BY <1>3, <1>4, <1>5 DEF Layered

\* What holds of the empty set, and of a set if it holds of what is left when
\* one element is taken, holds of all.
LEMMA PeelInduction ==
  ASSUME NEW S, NEW ch, Picks(S, ch), NEW Good, {} \in Good,
         \A s \in SUBSET S : s # {} /\ s \ {ch[s]} \in Good => s \in Good
  PROVE  SUBSET S \subseteq Good
<1> DEFINE B == {s \in SUBSET S : s \notin Good}
<1> SUFFICES ASSUME B # {} PROVE FALSE
  OBVIOUS
<1>1. PICK s \in B : \A r \in Peeled(S, ch)[s] : r \notin B
  <2> DEFINE Q == SUBSET S
  <2>1. B \subseteq Q /\ Layered(Q, Peeled(S, ch), Sizes(S))
    BY PeelLayered
  <2> HIDE DEF B, Q
  <2> QED
    BY <2>1, Shallowest
<1>2. s \in SUBSET S /\ s \notin Good /\ s # {}
  OBVIOUS
<1>3. s \ {ch[s]} \in SUBSET S /\ s \ {ch[s]} \in Peeled(S, ch)[s]
  BY <1>2 DEF Peeled
<1> QED
  BY <1>1, <1>2, <1>3

\* The fold, H taking the value for what is left and the element taken.
Peels(f, S, ch, base, H) ==
  f = [s \in SUBSET S |-> IF s = {} THEN base ELSE H[<<f[s \ {ch[s]}], ch[s]>>]]

LEMMA PeelExists ==
  ASSUME NEW S, NEW ch, Picks(S, ch), NEW V, NEW base \in V, NEW H \in [V \X S -> V]
  PROVE  \E f : f \in [SUBSET S -> V] /\ Peels(f, S, ch, base, H)
<1> DEFINE Q == SUBSET S
           G == [p \in Q \X [Q -> V] |->
                   IF p[1] = {} THEN base ELSE H[<<p[2][p[1] \ {ch[p[1]]}], ch[p[1]]>>]]
<1>1. \A s \in Q : s # {} => ch[s] \in S /\ ch[s] \in s /\ s \ {ch[s]} \in Q
  BY DEF Picks
<1>2. G \in [Q \X [Q -> V] -> V]
  <2>1. ASSUME NEW s \in Q, NEW f \in [Q -> V], s # {}
        PROVE  H[<<f[s \ {ch[s]}], ch[s]>>] \in V
    <3> HIDE DEF Q
    <3> QED
      BY <1>1, <2>1
  <2> HIDE DEF Q
  <2> QED
    BY <2>1
<1>3. ASSUME NEW s \in Q, NEW f \in [Q -> V], NEW g \in [Q -> V],
             \A r \in Peeled(S, ch)[s] : f[r] = g[r]
      PROVE  G[<<s, f>>] = G[<<s, g>>]
  <2>1. CASE s = {}
    BY <2>1
  <2>2. CASE s # {}
    <3>1. s \ {ch[s]} \in Peeled(S, ch)[s]
      BY <2>2 DEF Peeled
    <3>2. f[s \ {ch[s]}] = g[s \ {ch[s]}]
      BY <1>3, <3>1
    <3> QED
      BY <2>2, <3>2
  <2> QED
    BY <2>1, <2>2
<1>4. Computes(Q, V, Peeled(S, ch), G)
  <2> HIDE DEF G, Q
  <2> QED
    BY <1>2, <1>3 DEF Computes
<1>5. PICK f : f \in [Q -> V] /\ f = [s \in Q |-> G[<<s, f>>]]
  <2>1. Layered(Q, Peeled(S, ch), Sizes(S))
    BY PeelLayered
  <2> HIDE DEF G, Q
  <2> QED
    BY <1>4, <2>1, Recursion
<1>6. \A s \in Q : G[<<s, f>>] = IF s = {} THEN base ELSE H[<<f[s \ {ch[s]}], ch[s]>>]
  <2> HIDE DEF Q
  <2> QED
    BY <1>5
<1>7. f = [s \in Q |-> IF s = {} THEN base ELSE H[<<f[s \ {ch[s]}], ch[s]>>]]
  <2> HIDE DEF G
  <2> QED
    BY <1>5, <1>6
<1> QED
  BY <1>5, <1>7, Zenon DEF Peels

\* A set of numbers up to some bound has a greatest one.
LEMMA GreatestNat ==
  ASSUME NEW n \in Nat, NEW s, s \subseteq 1..n, s # {}
  PROVE  Max(s) \in s
<1> DEFINE R == {n - k : k \in s}
<1>1. R \subseteq Nat /\ R # {}
  <2>1. \A k \in s : k \in 1..n
    OBVIOUS
  <2>2. \A k \in 1..n : n - k \in Nat
    OBVIOUS
  <2> QED
    BY <2>1, <2>2
<1>2. PICK r \in R : \A q \in R : r <= q
  <2> HIDE DEF R
  <2> QED
    BY <1>1, LeastNat
<1>3. PICK k \in s : r = n - k
  OBVIOUS
<1>4. ASSUME NEW m \in s PROVE k >= m
  <2>1. n - m \in R
    OBVIOUS
  <2>2. n - k <= n - m
    BY <1>2, <1>3, <2>1
  <2>3. k \in Nat /\ m \in Nat
    OBVIOUS
  <2> QED
    BY <2>2, <2>3
<1>5. \E x \in s : \A y \in s : x >= y
  BY <1>4
<1> QED
  BY <1>5, Zenon DEF Max

------------------------------------------------------------------------------
(* Rewriter: erasing.                                                      *)

\* Some edits: how many does not matter, they start somewhere.
SomeEdits(E) == IsFiniteSet(E) /\ \A e \in E : e.start \in Nat

LastOf(E) == [s \in SUBSET E |-> Outermost(s)]

LEMMA OutermostPicks == ASSUME NEW E, SomeEdits(E) PROVE Picks(E, LastOf(E))
<1>1. ASSUME NEW s \in SUBSET E, s # {} PROVE Outermost(s) \in s
  <2> DEFINE N == {e.start : e \in s}
  <2>1. N \subseteq Nat /\ N # {}
    BY <1>1 DEF SomeEdits
  <2>2. PICK n \in N : \A m \in N : n <= m
    <3> HIDE DEF N
    <3> QED
      BY <2>1, LeastNat
  <2>3. PICK e \in s : n = e.start
    OBVIOUS
  <2>4. \E x \in s : \A d \in s : x.start <= d.start
    BY <2>2, <2>3
  <2> QED
    BY <2>4, Zenon DEF Outermost
<1> QED
  BY <1>1 DEF Picks, SomeEdits, LastOf

\* The function that ApplyRewrites folds with.
Blanking(t, E) ==
  LET iter[s \in SUBSET E] ==
        IF s = {} THEN t ELSE LET x == Outermost(s) IN ApplyEdit(x, iter[s \ {x}])
  IN  iter

LEMMA ApplyIsBlanking == ASSUME NEW t, NEW E PROVE ApplyRewrites(t, E) = Blanking(t, E)[E]
BY Zenon DEF ApplyRewrites, MapThenFoldSet, Blanking

\* Where an edit blanks.
Erases(e, n) == n \in e.start..(e.argStart - 1) \/ n \in e.argEnd..(e.end - 1)

LEMMA EditBlanks ==
  ASSUME NEW e, NEW D, NEW X, Blank \in X, NEW u \in [D -> X]
  PROVE  /\ ApplyEdit(e, u) \in [D -> X]
         /\ \A n \in D : \/ ApplyEdit(e, u)[n] = u[n]
                         \/ ApplyEdit(e, u)[n] = Blank /\ u[n] # NL /\ Erases(e, n)
         /\ \A n \in D : Erases(e, n) => ApplyEdit(e, u)[n] \in {Blank, NL}
<1> DEFINE v == BlankRange(u, e.start, e.argStart)
           w == BlankRange(v, e.argEnd, e.end)
<1>1. v = [n \in D |-> IF n \in e.start..(e.argStart - 1) /\ u[n] # NL THEN Blank ELSE u[n]]
  BY DEF BlankRange
<1>2. v \in [D -> X]
  BY <1>1
<1>3. \A n \in D : v[n] = IF n \in e.start..(e.argStart - 1) /\ u[n] # NL THEN Blank ELSE u[n]
  BY <1>1
<1> HIDE DEF v
<1>4. w = [n \in D |-> IF n \in e.argEnd..(e.end - 1) /\ v[n] # NL THEN Blank ELSE v[n]]
  BY <1>2 DEF BlankRange
<1>5. w \in [D -> X]
  BY <1>2, <1>4
<1>6. \A n \in D : w[n] = IF n \in e.argEnd..(e.end - 1) /\ v[n] # NL THEN Blank ELSE v[n]
  BY <1>4
<1>7. ApplyEdit(e, u) = w
  BY DEF ApplyEdit, w, v
<1> HIDE DEF w
<1>8. ASSUME NEW n \in D
      PROVE  w[n] = u[n] \/ (w[n] = Blank /\ u[n] # NL /\ Erases(e, n))
  <2>1. Blank # NL
    BY DEF Blank, NL
  <2> QED
    BY <1>3, <1>6, <2>1 DEF Erases
<1>9. ASSUME NEW n \in D, Erases(e, n) PROVE w[n] \in {Blank, NL}
  BY <1>3, <1>6, <1>9 DEF Erases
<1> QED
  BY <1>5, <1>7, <1>8, <1>9

Blanks(f, t, E) ==
  f = [s \in SUBSET E |-> IF s = {} THEN t ELSE ApplyEdit(Outermost(s), f[s \ {Outermost(s)}])]

IsText(t) == t = [n \in DOMAIN t |-> t[n]]

LEMMA BlankingDef ==
  ASSUME NEW t, IsText(t), NEW E, SomeEdits(E)
  PROVE  Blanks(Blanking(t, E), t, E)
<1> DEFINE D == DOMAIN t
           X == {t[n] : n \in D} \cup {Blank}
           V == [D -> X]
           H == [p \in V \X E |-> ApplyEdit(p[2], p[1])]
           ch == LastOf(E)
<1>1. H \in [V \X E -> V]
  <2>1. \A e \in E, u \in V : ApplyEdit(e, u) \in V
    <3>1. Blank \in X
      OBVIOUS
    <3> HIDE DEF D, X
    <3> QED
      BY <3>1, EditBlanks
  <2> HIDE DEF V
  <2> QED
    BY <2>1
<1>2. Picks(E, ch)
  BY OutermostPicks
<1>3. PICK f : f \in [SUBSET E -> V] /\ Peels(f, E, ch, t, H)
  <2>1. t \in V
    <3>1. \A n \in D : t[n] \in X
      OBVIOUS
    <3>2. t = [n \in D |-> t[n]]
      BY DEF IsText
    <3> HIDE DEF D, X
    <3> QED
      BY <3>1, <3>2
  <2> HIDE DEF V, H, ch
  <2> QED
    BY <1>1, <1>2, <2>1, PeelExists
<1>4. f = [s \in SUBSET E |-> IF s = {} THEN t ELSE H[<<f[s \ {ch[s]}], ch[s]>>]]
  BY <1>3, Zenon DEF Peels
<1>5. \A s \in SUBSET E : s # {} => /\ ch[s] = Outermost(s) /\ ch[s] \in E
                                    /\ f[s \ {ch[s]}] \in V
  <2>1. \A s \in SUBSET E : ch[s] = Outermost(s) /\ s \ {ch[s]} \in SUBSET E
    BY DEF LastOf
  <2> HIDE DEF V, ch
  <2> QED
    BY <1>2, <1>3, <2>1 DEF Picks
<1>6. \A s \in SUBSET E : s # {} => H[<<f[s \ {ch[s]}], ch[s]>>] = ApplyEdit(Outermost(s), f[s \ {Outermost(s)}])
  <2> HIDE DEF V, ch
  <2> QED
    BY <1>5
<1>7. f = [s \in SUBSET E |-> IF s = {} THEN t ELSE ApplyEdit(Outermost(s), f[s \ {Outermost(s)}])]
  <2> HIDE DEF V, ch, H
  <2> QED
    BY <1>4, <1>6
<1> QED
  BY <1>7, Zenon DEF Blanking, Blanks

\* A word of the text stays, or gives way to a blank where some edit says.
LEMMA Blanked ==
  ASSUME NEW D, NEW X, Blank \in X, NEW t \in [D -> X], NEW E, SomeEdits(E)
  PROVE  /\ ApplyRewrites(t, E) \in [D -> X]
         /\ \A n \in D : \/ ApplyRewrites(t, E)[n] = t[n]
                         \/ /\ ApplyRewrites(t, E)[n] = Blank /\ t[n] # NL
                            /\ \E e \in E : Erases(e, n)
         /\ \A n \in D : \A e \in E : Erases(e, n) => ApplyRewrites(t, E)[n] \in {Blank, NL}
<1>0. Blanks(Blanking(t, E), t, E)
  <2>1. IsText(t)
    BY DEF IsText
  <2> QED
    BY <2>1, BlankingDef
<1> DEFINE C == Blanking(t, E)
           Only(s, n) == \/ C[s][n] = t[n]
                         \/ C[s][n] = Blank /\ t[n] # NL /\ \E e \in E : Erases(e, n)
           White(s, n) == \A e \in s : Erases(e, n) => C[s][n] \in {Blank, NL}
           Good == {s \in SUBSET E : C[s] \in [D -> X] /\ \A n \in D : Only(s, n) /\ White(s, n)}
<1>1. C = [s \in SUBSET E |-> IF s = {} THEN t ELSE ApplyEdit(Outermost(s), C[s \ {Outermost(s)}])]
  BY <1>0, Zenon DEF Blanks
<1> HIDE DEF C
<1>2. {} \in Good
  <2>1. {} \in SUBSET E
    OBVIOUS
  <2>2. C[{}] = t
    BY <1>1, <2>1
  <2> QED
    BY <2>1, <2>2
<1>3. ASSUME NEW s \in SUBSET E, s # {}, s \ {LastOf(E)[s]} \in Good PROVE s \in Good
  <2> DEFINE e == Outermost(s)
             u == C[s \ {e}]
  <2>1. LastOf(E)[s] = e /\ e \in E
    BY <1>3, OutermostPicks DEF LastOf, Picks
  <2>2. u \in [D -> X] /\ \A n \in D : Only(s \ {e}, n) /\ White(s \ {e}, n)
    BY <1>3, <2>1
  <2>3. C[s] = ApplyEdit(e, u)
    BY <1>1, <1>3
  <2> HIDE DEF e, u
  <2>6. /\ ApplyEdit(e, u) \in [D -> X]
        /\ \A n \in D : \/ ApplyEdit(e, u)[n] = u[n]
                        \/ ApplyEdit(e, u)[n] = Blank /\ u[n] # NL /\ Erases(e, n)
        /\ \A n \in D : Erases(e, n) => ApplyEdit(e, u)[n] \in {Blank, NL}
    <3>1. u \in [D -> X]
      BY <2>2
    <3> QED
      BY <3>1, EditBlanks
  <2>4. C[s] \in [D -> X] /\ \A n \in D : C[s][n] = u[n] \/ (C[s][n] = Blank /\ u[n] # NL /\ Erases(e, n))
    BY <2>3, <2>6
  <2>5. ASSUME NEW n \in D PROVE Only(s, n)
    <3>1. \/ u[n] = t[n]
          \/ u[n] = Blank /\ t[n] # NL /\ \E d \in E : Erases(d, n)
      BY <2>2 DEF u
    <3> QED
      BY <2>1, <2>4, <3>1
  <2>7. ASSUME NEW n \in D, NEW d \in s, Erases(d, n) PROVE C[s][n] \in {Blank, NL}
    <3>1. CASE d = e
      BY <2>3, <2>6, <2>7, <3>1
    <3>2. CASE d # e
      <4>1. u[n] \in {Blank, NL}
        BY <2>2, <2>7, <3>2 DEF u
      <4> QED
        BY <2>4, <4>1
    <3> QED
      BY <3>1, <3>2
  <2> QED
    BY <2>4, <2>5, <2>7
<1>4. SUBSET E \subseteq Good
  <2> HIDE DEF Good
  <2> QED
    BY <1>2, <1>3, OutermostPicks, PeelInduction
<1>5. E \in Good
  <2> HIDE DEF Good
  <2> QED
    BY <1>4
<1>6. ApplyRewrites(t, E) = C[E]
  BY ApplyIsBlanking DEF C
<1> QED
  BY <1>5, <1>6

------------------------------------------------------------------------------
(* Rewriter: the lines that are added.                                     *)

LEMMA ImageFinite ==
  ASSUME NEW S, IsFiniteSet(S), NEW F
  PROVE  IsFiniteSet({F[x] : x \in S})
<1> DEFINE T == {F[x] : x \in S}
           g == [x \in S |-> F[x]]
<1>1. g \in Surjection(S, T)
  BY DEF Surjection
<1> HIDE DEF T, g
<1>2. IsFiniteSet(T)
  BY <1>1, FS_Surjection
<1> QED
  BY <1>2 DEF T

\* SetToSeq lists a finite set.
LEMMA SetListed ==
  ASSUME NEW S, IsFiniteSet(S)
  PROVE  /\ SetToSeq(S) \in Seq(S)
         /\ \A w \in S : \E j \in 1..Len(SetToSeq(S)) : SetToSeq(S)[j] = w
<1> DEFINE n == Cardinality(S)
           g == SetToSeq(S)
<1>1. n \in Nat /\ ExistsBijection(1..n, S)
  BY FS_CardinalityType
<1>2. \E h \in [1..n -> S] : IsInjective(h)
  BY <1>1 DEF ExistsBijection, Bijection, Injection
<1>3. g \in [1..n -> S] /\ IsInjective(g)
  BY <1>2, Zenon DEF SetToSeq
<1> HIDE DEF g
<1>4. IsFiniteSet(1..n) /\ Cardinality(1..n) = n
  BY <1>1, FS_Interval
<1>5. g \in Surjection(1..n, S)
  <2>1. g \in Injection(1..n, S)
    BY <1>3 DEF Injection
  <2> QED
    BY <1>4, <2>1, FS_Injection DEF n
<1>6. g \in Seq(S) /\ Len(g) = n
  BY <1>1, <1>3
<1>7. \A w \in S : \E j \in 1..n : g[j] = w
  BY <1>5 DEF Surjection
<1> QED
  BY <1>6, <1>7 DEF g

LEMMA Concatenated ==
  ASSUME NEW X, NEW u \in Seq(X), NEW v \in Seq(X)
  PROVE  /\ u \o v \in Seq(X) /\ Len(u \o v) = Len(u) + Len(v)
         /\ \A n \in 1..Len(u) : (u \o v)[n] = u[n]
         /\ \A n \in 1..Len(v) : (u \o v)[Len(u) + n] = v[n]
<1>1. u \o v \in Seq(X) /\ Len(u \o v) = Len(u) + Len(v)
  OBVIOUS
<1>2. \A n \in 1..Len(u) : (u \o v)[n] = u[n]
  OBVIOUS
<1>3. ASSUME NEW n \in 1..Len(v) PROVE (u \o v)[Len(u) + n] = v[n]
  <2>1. Len(u) \in Nat /\ Len(v) \in Nat /\ n \in Nat
    OBVIOUS
  <2>2. Len(u) + n \in 1..(Len(u) + Len(v)) /\ ~(Len(u) + n <= Len(u)) /\ (Len(u) + n) - Len(u) = n
    BY <2>1
  <2>3. (u \o v)[Len(u) + n] = v[(Len(u) + n) - Len(u)]
    BY <2>1, <2>2
  <2> QED
    BY <2>2, <2>3
<1> QED
  BY <1>1, <1>2, <1>3

LEMMA SentinelAdded ==
  ASSUME NEW X, NL \in X, Declare \in X, NEW t \in Seq(X), NEW w \in X
  PROVE  /\ AppendSentinel(t, w) \in Seq(X) /\ Len(t) <= Len(AppendSentinel(t, w))
         /\ \A n \in 1..Len(t) : AppendSentinel(t, w)[n] = t[n]
         /\ \E m \in 1..Len(AppendSentinel(t, w)) : AppendSentinel(t, w)[m] = w
<1> DEFINE nl == IF Last(t) # NL THEN <<NL>> ELSE <<>>
           u == t \o nl
           v == <<Declare, w, NL>>
<1>1. AppendSentinel(t, w) = u \o v
  BY Zenon DEF AppendSentinel
<1>2. nl \in Seq(X)
  <2>1. <<NL>> \in Seq(X) /\ <<>> \in Seq(X)
    BY Single
  <2> QED
    BY <2>1
<1>3. v \in Seq(X) /\ Len(v) = 3 /\ v[2] = w
  OBVIOUS
<1> HIDE DEF nl
<1>4. u \in Seq(X) /\ Len(u) = Len(t) + Len(nl) /\ \A n \in 1..Len(t) : u[n] = t[n]
  BY <1>2
<1> HIDE DEF u, v
<1>5. Len(t) \in Nat /\ Len(nl) \in Nat /\ Len(u) \in Nat
  BY <1>2, <1>4
<1>6. u \o v \in Seq(X) /\ Len(u \o v) = Len(u) + 3 /\ (u \o v)[Len(u) + 2] = v[2]
  <2>1. /\ u \o v \in Seq(X) /\ Len(u \o v) = Len(u) + Len(v)
        /\ \A n \in 1..Len(v) : (u \o v)[Len(u) + n] = v[n]
    <3>1. u \in Seq(X) /\ v \in Seq(X)
      BY <1>3, <1>4
    <3> QED
      BY <3>1, Concatenated
  <2>2. 2 \in 1..Len(v)
    BY <1>3
  <2> QED
    BY <1>3, <2>1, <2>2
<1>7. \A n \in 1..Len(u) : (u \o v)[n] = u[n]
  BY <1>3, <1>4
<1>8. \A n \in 1..Len(t) : n \in 1..Len(u)
  BY <1>4, <1>5
<1>9. Len(u) + 2 \in 1..Len(u \o v) /\ Len(t) <= Len(u \o v)
  BY <1>4, <1>5, <1>6
<1> QED
  BY <1>1, <1>3, <1>4, <1>6, <1>7, <1>8, <1>9

\* The function that appending the sentinels folds with.
Appending(t, q) ==
  LET iter[s \in SUBSET DOMAIN q] ==
        IF s = {} THEN t ELSE LET x == Max(s) IN AppendSentinel(iter[s \ {x}], q[x])
  IN  iter

LEMMA FoldIsAppending ==
  ASSUME NEW t, NEW q
  PROVE  FoldLeft(AppendSentinel, t, q) = Appending(t, q)[DOMAIN q]
BY Zenon DEF FoldLeft, MapThenFoldSet, Appending

Appends(f, t, q) ==
  f = [s \in SUBSET DOMAIN q |->
         IF s = {} THEN t ELSE AppendSentinel(f[s \ {Max(s)}], q[Max(s)])]

Greatest(n) == [s \in SUBSET (1..n) |-> Max(s)]

LEMMA GreatestPicks == ASSUME NEW n \in Nat PROVE Picks(1..n, Greatest(n))
<1>1. IsFiniteSet(1..n)
  BY FS_Interval
<1>2. \A s \in SUBSET (1..n) : s # {} => Max(s) \in s
  BY GreatestNat
<1> QED
  BY <1>1, <1>2 DEF Picks, Greatest

\* What a text and sentinels are made of.
WordsOf(X, t, q) == NL \in X /\ Declare \in X /\ t \in Seq(X) /\ q \in Seq(X)

LEMMA AppendingDef ==
  ASSUME NEW X, NEW t, NEW q, WordsOf(X, t, q)
  PROVE  Appends(Appending(t, q), t, q)
<1> DEFINE V == Seq(X)
           n == Len(q)
           D == 1..n
           H == [p \in V \X D |-> AppendSentinel(p[1], q[p[2]])]
           ch == Greatest(n)
<1>1. n \in Nat /\ DOMAIN q = D /\ t \in V /\ \A j \in D : q[j] \in X
  BY DEF WordsOf
<1>2. H \in [V \X D -> V]
  <2>1. \A u \in V, w \in X : AppendSentinel(u, w) \in V
    BY SentinelAdded DEF WordsOf
  <2> HIDE DEF V, D
  <2> QED
    BY <1>1, <2>1
<1>3. Picks(D, ch)
  <2> HIDE DEF n
  <2> QED
    BY <1>1, GreatestPicks
<1>4. PICK f : f \in [SUBSET D -> V] /\ Peels(f, D, ch, t, H)
  <2> HIDE DEF V, H, ch, D
  <2> QED
    BY <1>1, <1>2, <1>3, PeelExists
<1>5. f = [s \in SUBSET D |-> IF s = {} THEN t ELSE H[<<f[s \ {ch[s]}], ch[s]>>]]
  BY <1>4, Zenon DEF Peels
<1>6. ASSUME NEW s \in SUBSET D, s # {}
      PROVE  H[<<f[s \ {ch[s]}], ch[s]>>] = AppendSentinel(f[s \ {Max(s)}], q[Max(s)])
  <2>1. ch[s] = Max(s) /\ s \ {ch[s]} \in SUBSET D
    BY DEF Greatest
  <2>2. ch[s] \in D
    <3> HIDE DEF ch, D
    <3> QED
      BY <1>3, <1>6 DEF Picks
  <2>3. f[s \ {ch[s]}] \in V
    <3> HIDE DEF V, ch, D
    <3> QED
      BY <1>4, <2>1
  <2> HIDE DEF V, ch, D
  <2> QED
    BY <2>1, <2>2, <2>3
<1>7. f = [s \in SUBSET D |-> IF s = {} THEN t ELSE AppendSentinel(f[s \ {Max(s)}], q[Max(s)])]
  <2> HIDE DEF V, ch, H, D
  <2> QED
    BY <1>5, <1>6
<1>8. f = [s \in SUBSET DOMAIN q |-> IF s = {} THEN t ELSE AppendSentinel(f[s \ {Max(s)}], q[Max(s)])]
  <2> HIDE DEF D
  <2> QED
    BY <1>1, <1>7
<1> QED
  BY <1>8, Zenon DEF Appending, Appends

\* The text stays as it is, and every sentinel stands behind it.
LEMMA Appended ==
  ASSUME NEW X, NEW t, NEW q, WordsOf(X, t, q)
  PROVE  LET r == FoldLeft(AppendSentinel, t, q)
         IN  /\ r \in Seq(X) /\ Len(t) <= Len(r)
             /\ \A n \in 1..Len(t) : r[n] = t[n]
             /\ \A j \in 1..Len(q) : \E m \in 1..Len(r) : r[m] = q[j]
<1>0. Appends(Appending(t, q), t, q)
  BY AppendingDef
<1> DEFINE C == Appending(t, q)
           k == Len(q)
           D == 1..k
           Kept1(r) == r \in Seq(X) /\ Len(t) <= Len(r) /\ \A n \in 1..Len(t) : r[n] = t[n]
           Stands(r, j) == \E m \in 1..Len(r) : r[m] = q[j]
           Good == {s \in SUBSET D : Kept1(C[s]) /\ \A j \in s : Stands(C[s], j)}
<1>1. k \in Nat /\ DOMAIN q = D /\ t \in Seq(X) /\ \A j \in D : q[j] \in X
  BY DEF WordsOf
<1>2. C = [s \in SUBSET D |-> IF s = {} THEN t ELSE AppendSentinel(C[s \ {Max(s)}], q[Max(s)])]
  BY <1>0, <1>1, Zenon DEF Appends
<1> HIDE DEF C
<1>3. {} \in Good
  <2>1. {} \in SUBSET D
    OBVIOUS
  <2>2. C[{}] = t
    BY <1>2, <2>1
  <2>3. Kept1(t)
    BY <1>1
  <2> QED
    BY <2>1, <2>2, <2>3
<1>4. Picks(D, Greatest(k))
  <2> HIDE DEF k
  <2> QED
    BY <1>1, GreatestPicks
<1> HIDE DEF D
<1>5. ASSUME NEW s \in SUBSET D, s # {}, s \ {Greatest(k)[s]} \in Good PROVE s \in Good
  <2> DEFINE x == Max(s)
             u == C[s \ {x}]
  <2>1. Greatest(k)[s] = x /\ x \in s /\ x \in D
    BY <1>4, <1>5 DEF Greatest, Picks, D
  <2>2. Kept1(u) /\ \A j \in s \ {x} : Stands(u, j)
    BY <1>5, <2>1
  <2>3. C[s] = AppendSentinel(u, q[x])
    BY <1>2, <1>5
  <2> HIDE DEF u, x
  <2> DEFINE r == AppendSentinel(u, q[x])
  <2>4. /\ r \in Seq(X) /\ Len(u) <= Len(r)
        /\ \A n \in 1..Len(u) : r[n] = u[n]
        /\ \E m \in 1..Len(r) : r[m] = q[x]
    <3> DEFINE w == q[x]
    <3>1. u \in Seq(X) /\ w \in X /\ NL \in X /\ Declare \in X
      BY <1>1, <2>1, <2>2 DEF WordsOf
    <3> HIDE DEF w
    <3>2. /\ AppendSentinel(u, w) \in Seq(X) /\ Len(u) <= Len(AppendSentinel(u, w))
          /\ \A n \in 1..Len(u) : AppendSentinel(u, w)[n] = u[n]
          /\ \E m \in 1..Len(AppendSentinel(u, w)) : AppendSentinel(u, w)[m] = w
      BY <3>1, SentinelAdded
    <3> QED
      BY <3>2 DEF w
  <2> HIDE DEF r
  <2>5. Len(t) \in Nat /\ Len(u) \in Nat /\ Len(r) \in Nat
    BY <1>1, <2>2, <2>4
  <2>6. \A n \in 1..Len(t) : n \in 1..Len(u)
    BY <2>2, <2>5
  <2>7. Kept1(r)
    BY <2>2, <2>4, <2>5, <2>6
  <2>8. ASSUME NEW j \in s PROVE Stands(r, j)
    <3>1. CASE j = x
      BY <2>4, <3>1
    <3>2. CASE j # x
      <4>1. PICK m \in 1..Len(u) : u[m] = q[j]
        BY <2>2, <3>2
      <4>2. m \in 1..Len(r)
        BY <2>4, <2>5
      <4> QED
        BY <2>4, <4>1, <4>2
    <3> QED
      BY <3>1, <3>2
  <2>9. C[s] = r
    BY <2>3 DEF r
  <2> QED
    BY <2>7, <2>8, <2>9
<1>6. SUBSET D \subseteq Good
  <2> HIDE DEF Good
  <2> QED
    BY <1>3, <1>4, <1>5, PeelInduction
<1>7. D \in Good
  <2> HIDE DEF Good
  <2> QED
    BY <1>6
<1>8. FoldLeft(AppendSentinel, t, q) = C[D]
  BY <1>1, FoldIsAppending, Zenon DEF C
<1> QED
  BY <1>7, <1>8 DEF D

------------------------------------------------------------------------------
(* Rewriter: texts and edits.                                              *)

Text == Seq(Words)

TypedCall(c) == /\ {<<c.fn>>, c.lead, c.rest, c.post} \subseteq Text
                /\ \A w \in ToSet(c.lead) : PackageOf[w] = ""
TypedStmt(s) == /\ {s.head, <<s.atom>>, s.tail} \subseteq Text /\ s.calls \in Seq(ToSet(s.calls))
                /\ \A c \in ToSet(s.calls) : TypedCall(c)

LEMMA FilesTyped ==
  ASSUME NEW f \in Files
  PROVE  /\ f.stmts \in Seq(ToSet(f.stmts)) /\ f.eof \in Text /\ f.eof \in Seq({NL})
         /\ \A i \in 1..Len(f.stmts) : TypedStmt(f.stmts[i])
         /\ DOMAIN f.stmts = 1..Len(f.stmts) /\ Len(f.stmts) \in Nat
         /\ \A w \in ToSet(FileText(f)) : PackageOf[w] \in f.imports \cup {""}
<1>1. WellFormed(f)
  BY InputAssumption DEF InputAssumption
<1>2. f.stmts \in Seq(ToSet(f.stmts))
  BY <1>1 DEF WellFormed
<1>3. f.eof \in Text /\ f.eof \in Seq({NL})
  <2>1. f.eof \in Seq({NL}) /\ NL \in Words
    BY <1>1, TextAssumption DEF WellFormed, TextAssumption
  <2> QED
    BY <2>1 DEF Text
<1>4. \A s \in ToSet(f.stmts) : TypedStmt(s)
  BY <1>1, Zenon DEF WellFormed, TypedStmt, TypedCall, Text
<1>5. \A i \in 1..Len(f.stmts) : f.stmts[i] \in ToSet(f.stmts)
  BY <1>2
<1>6. DOMAIN f.stmts = 1..Len(f.stmts) /\ Len(f.stmts) \in Nat
  BY <1>2
<1>7. \A w \in ToSet(FileText(f)) : PackageOf[w] \in f.imports \cup {""}
  BY <1>1, Zenon DEF WellFormed
<1> QED
  BY <1>2, <1>3, <1>4, <1>5, <1>6, <1>7

LEMMA Joins == \A u, v \in Text : u \o v \in Text /\ Len(u \o v) = Len(u) + Len(v)
BY Concatenated DEF Text

LEMMA OneWord == \A w \in Words : <<w>> \in Text
BY Single DEF Text

LEMMA CallTexts ==
  ASSUME NEW c, TypedCall(c)
  PROVE  Open(c) \in Text /\ Close(c) \in Text /\ \A t \in Text : Around(t, c) \in Text
<1>1. <<c.fn>> \in Text /\ c.lead \in Text /\ c.rest \in Text /\ c.post \in Text
  BY DEF TypedCall
<1>2. <<")">> \in Text
  BY TextAssumption, OneWord DEF TextAssumption
<1>3. Open(c) \in Text /\ Close(c) \in Text
  BY <1>1, <1>2, Joins DEF Open, Close
<1> QED
  BY <1>1, <1>3, Joins DEF Around

LEMMA StmtCalls ==
  ASSUME NEW s, TypedStmt(s)
  PROVE  /\ Len(s.calls) \in Nat /\ DOMAIN s.calls = 1..Len(s.calls)
         /\ \A k \in 1..Len(s.calls) : TypedCall(s.calls[k])
         /\ s.head \in Text /\ <<s.atom>> \in Text /\ s.tail \in Text
<1>1. s.calls \in Seq(ToSet(s.calls)) /\ \A c \in ToSet(s.calls) : TypedCall(c)
  BY Zenon DEF TypedStmt
<1>2. \A k \in 1..Len(s.calls) : s.calls[k] \in ToSet(s.calls)
  BY <1>1
<1>3. s.head \in Text /\ <<s.atom>> \in Text /\ s.tail \in Text
  BY DEF TypedStmt
<1>4. Len(s.calls) \in Nat /\ DOMAIN s.calls = 1..Len(s.calls)
  BY <1>1
<1> QED
  BY <1>1, <1>2, <1>3, <1>4

\* The function in ExprText.
Wrapped(s) ==
  LET text[j \in 0..Len(s.calls)] == IF j = 0 THEN <<s.atom>> ELSE Around(text[j - 1], s.calls[j])
  IN  text

Wraps(g, s) ==
  g = [j \in 0..Len(s.calls) |-> IF j = 0 THEN <<s.atom>> ELSE Around(g[j - 1], s.calls[j])]

LEMMA ExprIsWrapped == ASSUME NEW s, NEW k PROVE ExprText(s, k) = Wrapped(s)[k]
BY Zenon DEF ExprText, Wrapped

LEMMA WrappedDef == ASSUME NEW s, TypedStmt(s) PROVE Wraps(Wrapped(s), s)
<1> DEFINE K == Len(s.calls)
           S == 0..K
           sub == [j \in S |-> IF j = 0 THEN {} ELSE {j - 1}]
           h == [j \in S |-> j]
           G == [p \in S \X [S -> Text] |->
                   IF p[1] = 0 THEN <<s.atom>> ELSE Around(p[2][p[1] - 1], s.calls[p[1]])]
<1>1. K \in Nat
  BY StmtCalls
<1>2. Layered(S, sub, h)
  <2>1. sub \in [S -> SUBSET S] /\ h \in [S -> Nat]
    <3> HIDE DEF K
    <3> QED
      BY <1>1
  <2>2. \A j \in S : \A i \in sub[j] : h[i] < h[j]
    <3> HIDE DEF K
    <3> QED
      BY <1>1
  <2> HIDE DEF S, sub, h
  <2> QED
    BY <2>1, <2>2 DEF Layered
<1>3. G \in [S \X [S -> Text] -> Text]
  <2>1. ASSUME NEW j \in S, NEW f \in [S -> Text], j # 0
        PROVE  Around(f[j - 1], s.calls[j]) \in Text
    <3>1. j \in 1..K /\ j - 1 \in S
      <4> HIDE DEF K
      <4> QED
        BY <1>1, <2>1
    <3>2. f[j - 1] \in Text /\ TypedCall(s.calls[j])
      <4> HIDE DEF S
      <4> QED
        BY <3>1, StmtCalls
    <3> QED
      BY <3>2, CallTexts
  <2>2. <<s.atom>> \in Text
    BY StmtCalls
  <2> HIDE DEF S
  <2> QED
    BY <2>1, <2>2
<1>4. ASSUME NEW j \in S, NEW f \in [S -> Text], NEW g \in [S -> Text], \A i \in sub[j] : f[i] = g[i]
      PROVE  G[<<j, f>>] = G[<<j, g>>]
  <2>1. j # 0 => f[j - 1] = g[j - 1]
    BY <1>4
  <2> HIDE DEF S, sub
  <2> QED
    BY <2>1
<1>5. Text # {}
  BY StmtCalls
<1>6. Computes(S, Text, sub, G)
  <2> HIDE DEF S, sub, G
  <2> QED
    BY <1>3, <1>4, <1>5 DEF Computes
<1>7. PICK g : g \in [S -> Text] /\ g = [j \in S |-> G[<<j, g>>]]
  <2> HIDE DEF S, sub, h, G
  <2> QED
    BY <1>2, <1>6, Recursion
<1>8. \A j \in S : G[<<j, g>>] = IF j = 0 THEN <<s.atom>> ELSE Around(g[j - 1], s.calls[j])
  <2> HIDE DEF S
  <2> QED
    BY <1>7
<1>9. g = [j \in S |-> IF j = 0 THEN <<s.atom>> ELSE Around(g[j - 1], s.calls[j])]
  <2> HIDE DEF S, G
  <2> QED
    BY <1>7, <1>8
<1> QED
  BY <1>9, Zenon DEF Wraps, Wrapped

\* The text of an expression, call by call.
LEMMA ExprTexts ==
  ASSUME NEW s, TypedStmt(s)
  PROVE  /\ \A k \in 0..Len(s.calls) : ExprText(s, k) \in Text
         /\ \A k \in 1..Len(s.calls) :
              ExprText(s, k) = Open(s.calls[k]) \o ExprText(s, k - 1) \o Close(s.calls[k])
                                 \o s.calls[k].post
<1> DEFINE K == Len(s.calls)
           X(k) == ExprText(s, k)
           C == Wrapped(s)
<1>1. K \in Nat
  BY StmtCalls
<1>2. C = [j \in 0..K |-> IF j = 0 THEN <<s.atom>> ELSE Around(C[j - 1], s.calls[j])]
  BY WrappedDef, Zenon DEF Wraps
<1> HIDE DEF C
<1>3. \A k : X(k) = C[k]
  BY ExprIsWrapped DEF C
<1>31. C[0] = <<s.atom>> /\ \A k \in 1..K : C[k] = Around(C[k - 1], s.calls[k])
  <2> HIDE DEF K
  <2>1. 0 \in 0..K /\ \A k \in 1..K : k \in 0..K /\ k # 0
    BY <1>1
  <2>2. \A j \in 0..K : C[j] = IF j = 0 THEN <<s.atom>> ELSE Around(C[j - 1], s.calls[j])
    BY <1>2, Zenon
  <2>3. C[0] = <<s.atom>>
    BY <2>1, <2>2
  <2>4. ASSUME NEW k \in 1..K PROVE C[k] = Around(C[k - 1], s.calls[k])
    <3>1. C[k] = IF k = 0 THEN <<s.atom>> ELSE Around(C[k - 1], s.calls[k])
      BY <2>1, <2>2, Zenon
    <3>2. k # 0
      BY <2>1, Zenon
    <3> QED
      BY <3>1, <3>2, Zenon
  <2> QED
    BY <2>3, <2>4
<1> HIDE DEF X
<1>4. X(0) = <<s.atom>>
  BY <1>31, <1>3, Zenon
<1>5. ASSUME NEW k \in 1..K PROVE X(k) = Around(X(k - 1), s.calls[k])
  BY <1>31, <1>3, Zenon
<1> DEFINE B == {k \in Nat : k <= K /\ X(k) \notin Text}
<1>6. B = {}
  <2> SUFFICES ASSUME B # {} PROVE FALSE
    OBVIOUS
  <2>1. PICK k \in B : \A j \in B : k <= j
    <3>1. B \subseteq Nat
      OBVIOUS
    <3> HIDE DEF B
    <3> QED
      BY <3>1, LeastNat
  <2>2. k \in Nat /\ k <= K /\ X(k) \notin Text
    OBVIOUS
  <2>3. k # 0
    BY <1>4, <2>2, StmtCalls
  <2>4. k \in 1..K /\ k - 1 \in Nat /\ k - 1 <= K /\ ~(k <= k - 1)
    <3> HIDE DEF K
    <3> QED
      BY <1>1, <2>2, <2>3
  <2>5. X(k - 1) \in Text
    BY <2>1, <2>4
  <2>6. TypedCall(s.calls[k])
    BY <2>4, StmtCalls
  <2> QED
    BY <1>5, <2>2, <2>4, <2>5, <2>6, CallTexts
<1>7. \A k \in 0..K : X(k) \in Text
  <2> HIDE DEF K
  <2> QED
    BY <1>1, <1>6
<1> QED
  BY <1>5, <1>7 DEF X, Around

LEMMA StmtTexts == ASSUME NEW s, TypedStmt(s) PROVE StmtText(s) \in Text
<1>1. ExprText(s, Len(s.calls)) \in Text
  <2>1. Len(s.calls) \in 0..Len(s.calls)
    BY StmtCalls
  <2> QED
    BY <2>1, ExprTexts
<1>2. <<NL>> \in Text
  BY TextAssumption, OneWord DEF TextAssumption
<1> QED
  BY <1>1, <1>2, StmtCalls, Joins DEF StmtText

LEMMA Listing ==
  ASSUME NEW n \in Nat, NEW X, NEW q, q = [j \in 1..n |-> q[j]], \A j \in 1..n : q[j] \in X
  PROVE  q \in Seq(X) /\ Len(q) = n
OBVIOUS

LEMMA BeforeTexts ==
  ASSUME NEW f \in Files, NEW i \in 1..(Len(f.stmts) + 1)
  PROVE  Before(f, i) \in Text
<1> DEFINE q == [j \in 1..(i - 1) |-> StmtText(f.stmts[j])]
<1>1. Len(f.stmts) \in Nat
  BY FilesTyped
<1>2. i - 1 \in Nat /\ \A j \in 1..(i - 1) : j \in 1..Len(f.stmts)
  BY <1>1
<1>3. \A j \in 1..(i - 1) : StmtText(f.stmts[j]) \in Text
  BY <1>2, FilesTyped, StmtTexts
<1>4. q \in Seq(Text)
  <2> DEFINE m == i - 1
  <2>1. q = [j \in 1..m |-> q[j]] /\ \A j \in 1..m : q[j] \in Text
    BY <1>3
  <2>2. m \in Nat
    BY <1>2
  <2> HIDE DEF q, m
  <2> QED
    BY <2>1, <2>2, Listing
<1> HIDE DEF q
<1>5. FlattenSeq(q) \in Text
  BY <1>4, FlattenJoined DEF Text
<1> QED
  BY <1>5 DEF Before, q

LEMMA FileTexts == ASSUME NEW f \in Files PROVE FileText(f) \in Text
<1>1. Len(f.stmts) \in Nat /\ f.eof \in Text
  BY FilesTyped
<1>2. Len(f.stmts) + 1 \in 1..(Len(f.stmts) + 1)
  BY <1>1
<1>3. Before(f, Len(f.stmts) + 1) \in Text
  BY <1>2, BeforeTexts
<1>4. <<Brace>> \in Text
  BY TextAssumption, OneWord DEF TextAssumption
<1> QED
  BY <1>1, <1>3, <1>4, Joins DEF FileText

LEMMA OpenedTexts ==
  ASSUME NEW s, TypedStmt(s), NEW k \in 0..Len(s.calls) PROVE Opened(s, k) \in Text
<1> DEFINE K == Len(s.calls)
           q == [j \in 1..(K - k) |-> Open(s.calls[K + 1 - j])]
<1>1. K \in Nat
  BY StmtCalls
<1>2. K - k \in Nat /\ \A j \in 1..(K - k) : K + 1 - j \in 1..K
  <2>1. k \in 0..K
    OBVIOUS
  <2> HIDE DEF K
  <2> QED
    BY <1>1, <2>1
<1>3. \A j \in 1..(K - k) : Open(s.calls[K + 1 - j]) \in Text
  BY <1>2, StmtCalls, CallTexts
<1>4. q \in Seq(Text)
  <2> DEFINE m == K - k
  <2>1. q = [j \in 1..m |-> q[j]] /\ \A j \in 1..m : q[j] \in Text
    BY <1>3
  <2>2. m \in Nat
    BY <1>2
  <2> HIDE DEF q, m
  <2> QED
    BY <2>1, <2>2, Listing
<1> HIDE DEF q
<1>5. FlattenSeq(q) \in Text
  BY <1>4, FlattenJoined DEF Text
<1> QED
  BY <1>5 DEF Opened, q

Places == [start : Nat, argStart : Nat, argEnd : Nat, end : Nat]

LEMMA CallEdits ==
  ASSUME NEW f \in Files, NEW i \in 1..Len(f.stmts), NEW k \in 1..Len(f.stmts[i].calls)
  PROVE  /\ CallEdit(f, i, k) \in Places
         /\ CallEdit(f, i, k).start = CallStart(f, i, k)
         /\ CallEdit(f, i, k).argStart = CallStart(f, i, k) + Len(Open(f.stmts[i].calls[k]))
         /\ CallEdit(f, i, k).argEnd =
              CallEdit(f, i, k).argStart + Len(ExprText(f.stmts[i], k - 1))
         /\ CallEdit(f, i, k).end =
              CallEdit(f, i, k).argEnd + Len(Close(f.stmts[i].calls[k]))
         /\ CallEdit(f, i, k).start <= CallEdit(f, i, k).argEnd
         /\ CallEdit(f, i, k).argEnd <= CallEdit(f, i, k).end
<1> DEFINE s == f.stmts[i]
           start == CallStart(f, i, k)
           arg == start + Len(Open(s.calls[k]))
           argEnd == arg + Len(ExprText(s, k - 1))
           end == argEnd + Len(Close(s.calls[k]))
<1>0. TypedStmt(s)
  BY FilesTyped
<1>1. \A t \in Text : Len(t) \in Nat
  BY DEF Text
<1>2. i \in 1..(Len(f.stmts) + 1)
  <2>1. Len(f.stmts) \in Nat
    BY FilesTyped
  <2> QED
    BY <2>1
<1>3. start \in Nat
  <2>1. Len(Before(f, i)) \in Nat
    BY <1>1, <1>2, BeforeTexts
  <2>2. Len(s.head) \in Nat /\ Len(Opened(s, k)) \in Nat
    <3>1. k \in 0..Len(s.calls)
      BY <1>0, StmtCalls
    <3> QED
      BY <1>0, <1>1, <3>1, StmtCalls, OpenedTexts
  <2> DEFINE a == Len(Before(f, i))
             b == Len(s.head)
             c == Len(Opened(s, k))
  <2>3. start = a + b + c + 1
    BY Zenon DEF CallStart
  <2>4. a \in Nat /\ b \in Nat /\ c \in Nat
    BY <2>1, <2>2
  <2> HIDE DEF start, a, b, c
  <2> QED
    BY <2>3, <2>4
<1>4. Len(Open(s.calls[k])) \in Nat /\ Len(Close(s.calls[k])) \in Nat
  BY <1>0, <1>1, StmtCalls, CallTexts
<1>5. Len(ExprText(s, k - 1)) \in Nat
  <2>1. k - 1 \in 0..Len(s.calls)
    BY <1>0, StmtCalls
  <2> QED
    BY <1>0, <1>1, <2>1, ExprTexts
<1>6. CallEdit(f, i, k) = [start |-> start, argStart |-> arg, argEnd |-> argEnd, end |-> end]
  BY Zenon DEF CallEdit
<1> HIDE DEF s, start
<1>7. arg \in Nat /\ argEnd \in Nat /\ end \in Nat /\ start <= argEnd /\ argEnd <= end
  BY <1>3, <1>4, <1>5
<1> HIDE DEF arg, argEnd, end
<1>8. /\ CallEdit(f, i, k) \in Places
      /\ CallEdit(f, i, k).start = start
      /\ CallEdit(f, i, k).argStart = arg
      /\ CallEdit(f, i, k).argEnd = argEnd
      /\ CallEdit(f, i, k).end = end
      /\ CallEdit(f, i, k).start <= CallEdit(f, i, k).argEnd
      /\ CallEdit(f, i, k).argEnd <= CallEdit(f, i, k).end
  BY <1>3, <1>6, <1>7 DEF Places
<1> QED
  BY <1>8 DEF s, start, arg, argEnd, end

LEMMA WholeEdits ==
  ASSUME NEW f \in Files, NEW i \in 1..Len(f.stmts), Len(f.stmts[i].calls) # 0
  PROVE  /\ WholeEdit(f, i) \in Places
         /\ WholeEdit(f, i).argStart = WholeEdit(f, i).end
         /\ WholeEdit(f, i).argEnd = WholeEdit(f, i).end
         /\ WholeEdit(f, i).start <= WholeEdit(f, i).argEnd
<1> DEFINE K == Len(f.stmts[i].calls)
           e == CallEdit(f, i, K)
<1>1. K \in 1..K
  <2>1. TypedStmt(f.stmts[i])
    BY FilesTyped
  <2>2. K \in Nat /\ K # 0
    BY <2>1, StmtCalls
  <2> HIDE DEF K
  <2> QED
    BY <2>2
<1>2. e \in Places /\ e.start <= e.argEnd /\ e.argEnd <= e.end
  BY <1>1, CallEdits
<1>3. WholeEdit(f, i) = [e EXCEPT !.argStart = e.end, !.argEnd = e.end]
  BY Zenon DEF WholeEdit
<1>4. e.start <= e.end
  <2> DEFINE a == e.start
             b == e.argEnd
             z == e.end
  <2>1. a \in Nat /\ b \in Nat /\ z \in Nat /\ a <= b /\ b <= z
    BY <1>2 DEF Places
  <2> HIDE DEF a, b, z
  <2>2. a <= z
    BY <2>1
  <2> QED
    BY <2>2 DEF a, z
<1> HIDE DEF e
<1> QED
  BY <1>2, <1>3, <1>4 DEF Places

\* What edits there are.
LEMMA EditKinds ==
  ASSUME NEW f \in Files, NEW i \in 1..Len(f.stmts), NEW e \in EditsOf(f, i)
  PROVE  /\ e \in Places
         /\ e.start <= e.argEnd
         /\ \/ e.argStart = e.end
            \/ \E k \in 1..Len(f.stmts[i].calls) :
                 e = CallEdit(f, i, k) /\ IsErased(f.stmts[i].calls[k])
<1> DEFINE s == f.stmts[i]
<1>1. TypedStmt(s)
  BY FilesTyped
<1>2. CASE IsWhole(s)
  <2>1. e = WholeEdit(f, i)
    BY <1>2 DEF EditsOf
  <2>2. Len(s.calls) # 0
    <3>1. s.calls # <<>>
      BY <1>2, Zenon DEF IsWhole
    <3>2. s.calls \in Seq(ToSet(s.calls))
      BY <1>1, Zenon DEF TypedStmt
    <3> HIDE DEF s
    <3> QED
      BY <3>1, <3>2
  <2> QED
    BY <2>1, <2>2, WholeEdits
<1>3. CASE ~IsWhole(s)
  <2>1. EditsOf(f, i) = {CallEdit(f, i, k) : k \in {j \in DOMAIN s.calls : IsErased(s.calls[j])}}
    BY <1>3, Zenon DEF EditsOf
  <2>2. PICK k \in DOMAIN s.calls : IsErased(s.calls[k]) /\ e = CallEdit(f, i, k)
    BY <2>1, Zenon
  <2>3. k \in 1..Len(s.calls)
    BY <1>1, StmtCalls
  <2> QED
    BY <2>2, <2>3, CallEdits
<1> QED
  BY <1>2, <1>3

LEMMA EditsFinite ==
  ASSUME NEW f \in Files
  PROVE  IsFiniteSet(CollectRewrites(f)) /\ CollectRewrites(f) \subseteq Places
<1> DEFINE N == 1..Len(f.stmts)
           F == [i \in N |-> EditsOf(f, i)]
<1>1. Len(f.stmts) \in Nat /\ DOMAIN f.stmts = N
  BY FilesTyped
<1>2. ASSUME NEW i \in N PROVE IsFiniteSet(EditsOf(f, i))
  <2> DEFINE s == f.stmts[i]
             J == {j \in DOMAIN s.calls : IsErased(s.calls[j])}
             H == [k \in J |-> CallEdit(f, i, k)]
  <2>1. CASE IsWhole(s)
    <3>1. EditsOf(f, i) = {WholeEdit(f, i)}
      BY <2>1, Zenon DEF EditsOf
    <3> QED
      BY <3>1, FS_Singleton
  <2>2. CASE ~IsWhole(s)
    <3>1. EditsOf(f, i) = {CallEdit(f, i, k) : k \in J}
      BY <2>2, Zenon DEF EditsOf
    <3>2. IsFiniteSet(J)
      <4>1. TypedStmt(s)
        BY FilesTyped
      <4>2. Len(s.calls) \in Nat /\ J \subseteq 1..Len(s.calls)
        BY <4>1, StmtCalls
      <4>3. IsFiniteSet(1..Len(s.calls))
        <5> DEFINE n == Len(s.calls)
        <5>1. n \in Int /\ 1 \in Int
          BY <4>2
        <5> HIDE DEF n
        <5>2. IsFiniteSet(1..n)
          BY <5>1, FS_Interval
        <5> QED
          BY <5>2 DEF n
      <4> HIDE DEF J, s
      <4> QED
        BY <4>2, <4>3, FS_Subset
    <3>3. {H[k] : k \in J} = {CallEdit(f, i, k) : k \in J}
      <4> HIDE DEF J
      <4> QED
        OBVIOUS
    <3> HIDE DEF J, H
    <3>4. IsFiniteSet({H[k] : k \in J})
      BY <3>2, ImageFinite
    <3> QED
      BY <3>1, <3>3, <3>4
  <2> QED
    BY <2>1, <2>2
<1>3. {F[i] : i \in N} = {EditsOf(f, i) : i \in N}
  <2> HIDE DEF N
  <2> QED
    OBVIOUS
<1>4. IsFiniteSet(N)
  BY <1>1, FS_Interval
<1>5. IsFiniteSet({EditsOf(f, i) : i \in N})
  <2> HIDE DEF N, F
  <2> QED
    BY <1>3, <1>4, ImageFinite
<1>6. \A T \in {EditsOf(f, i) : i \in N} : IsFiniteSet(T)
  BY <1>2
<1>7. CollectRewrites(f) = UNION {EditsOf(f, i) : i \in N}
  <2> HIDE DEF N
  <2> QED
    BY <1>1, Zenon DEF CollectRewrites
<1>8. IsFiniteSet(UNION {EditsOf(f, i) : i \in N})
  <2> HIDE DEF N
  <2> QED
    BY <1>5, <1>6, FS_UNION
<1>9. CollectRewrites(f) \subseteq Places
  BY <1>7, EditKinds
<1> QED
  BY <1>7, <1>8, <1>9

------------------------------------------------------------------------------
(* Rewriter: the rewritten text.                                           *)

\* What is used for the packages whose names went.
Seen(f) == {FirstSeen(FileText(f), CollectRewrites(f), pkg) :
              pkg \in UsedAliases(FileText(f), CollectRewrites(f))}

LEMMA SeenFinite == ASSUME NEW f \in Files PROVE IsFiniteSet(Seen(f))
<1> DEFINE T == FileText(f)
           E == CollectRewrites(f)
           F == [e \in E |-> Named(T, e)]
           U == UsedAliases(T, E)
           G == [pkg \in U |-> FirstSeen(T, E, pkg)]
<1>1. IsFiniteSet(E) /\ \A e \in E : e \in Places
  BY EditsFinite
<1>2. ASSUME NEW e \in E PROVE IsFiniteSet(Named(T, e))
  <2> DEFINE D == Dead(e)
             H == [n \in D |-> PackageOf[T[n]]]
  <2>1. e.start \in Int /\ e.argEnd \in Int /\ e.end - 1 \in Int
    <3>1. e \in Places
      BY <1>1
    <3> QED
      BY <3>1 DEF Places
  <2>2. IsFiniteSet(D)
    <3> DEFINE m == e.end - 1
               a == e.start
               b == e.argEnd
    <3>1. D = a..m \/ D = b..m
      BY Zenon DEF Dead
    <3>2. m \in Int /\ a \in Int /\ b \in Int
      BY <2>1
    <3> HIDE DEF m, a, b, D
    <3>3. IsFiniteSet(a..m) /\ IsFiniteSet(b..m)
      BY <3>2, FS_Interval
    <3> QED
      BY <3>1, <3>3
  <2> HIDE DEF D
  <2>3. IsFiniteSet({H[n] : n \in D})
    <3> HIDE DEF H
    <3> QED
      BY <2>2, ImageFinite
  <2>4. {H[n] : n \in D} = {PackageOf[T[n]] : n \in D}
    OBVIOUS
  <2>5. Named(T, e) \subseteq {PackageOf[T[n]] : n \in D}
    BY Zenon DEF Named, D
  <2> HIDE DEF T, H
  <2> QED
    BY <2>3, <2>4, <2>5, FS_Subset
<1>3. {F[e] : e \in E} = {Named(T, e) : e \in E}
  <2> HIDE DEF E, T
  <2> QED
    OBVIOUS
<1>4. IsFiniteSet({Named(T, e) : e \in E})
  <2> HIDE DEF E, T, F
  <2>1. IsFiniteSet({F[e] : e \in E})
    BY <1>1, ImageFinite
  <2> QED
    BY <1>3, <2>1
<1>5. IsFiniteSet(U)
  <2>1. U = UNION {Named(T, e) : e \in E}
    BY Zenon DEF UsedAliases
  <2>2. \A N \in {Named(T, e) : e \in E} : IsFiniteSet(N)
    BY <1>2
  <2> HIDE DEF E, T, U
  <2>3. IsFiniteSet(UNION {Named(T, e) : e \in E})
    BY <1>4, <2>2, FS_UNION
  <2> QED
    BY <2>1, <2>3
<1>6. {G[pkg] : pkg \in U} = Seen(f)
  <2>1. Seen(f) = {FirstSeen(T, E, pkg) : pkg \in U}
    BY Zenon DEF Seen
  <2> HIDE DEF T, E, U
  <2> QED
    BY <2>1
<1>7. IsFiniteSet({G[pkg] : pkg \in U})
  <2> HIDE DEF U, G
  <2> QED
    BY <1>5, ImageFinite
<1> QED
  BY <1>6, <1>7

\* The sentinels of a file: one for the library's packages each, if imported,
\* and what is used for the others.
LEMMA SentinelsListed ==
  ASSUME NEW f \in Files
  PROVE  LET q == Sentinels(f.imports, FileText(f), CollectRewrites(f))
         IN  /\ q \in Seq({ProvenUse, TrustUse} \cup Seen(f))
             /\ "proven" \in f.imports => \E j \in 1..Len(q) : q[j] = ProvenUse
             /\ "trust" \in f.imports => \E j \in 1..Len(q) : q[j] = TrustUse
             /\ \A w \in Seen(f) : \E j \in 1..Len(q) : q[j] = w
<1> DEFINE Y == {ProvenUse, TrustUse} \cup Seen(f)
           a == IF "proven" \in f.imports THEN <<ProvenUse>> ELSE <<>>
           b == IF "trust" \in f.imports THEN <<TrustUse>> ELSE <<>>
           c == SetToSeq(Seen(f))
           u == a \o b
           q == u \o c
           In(x, w) == \E j \in 1..Len(x) : x[j] = w
<1>1. Sentinels(f.imports, FileText(f), CollectRewrites(f)) = q
  BY Zenon DEF Sentinels, Seen
<1>2. ProvenUse \in Y /\ TrustUse \in Y
  OBVIOUS
<1>3. a \in Seq(Y) /\ b \in Seq(Y)
  <2>1. <<ProvenUse>> \in Seq(Y) /\ <<TrustUse>> \in Seq(Y) /\ <<>> \in Seq(Y)
    <3> HIDE DEF Y
    <3> QED
      BY <1>2, Single
  <2> HIDE DEF Y
  <2> QED
    BY <2>1
<1>4. c \in Seq(Y) /\ \A w \in Seen(f) : In(c, w)
  <2> DEFINE S == Seen(f)
  <2>1. IsFiniteSet(S)
    BY SeenFinite
  <2>2. S \subseteq Y
    OBVIOUS
  <2> HIDE DEF S, Y
  <2>3. SetToSeq(S) \in Seq(S) /\ \A w \in S : \E j \in 1..Len(SetToSeq(S)) : SetToSeq(S)[j] = w
    BY <2>1, SetListed
  <2>4. Seq(S) \subseteq Seq(Y)
    BY <2>2
  <2> QED
    BY <2>3, <2>4 DEF S
<1>5. "proven" \in f.imports => In(a, ProvenUse)
  <2>1. ASSUME NEW w PROVE In(<<w>>, w)
    OBVIOUS
  <2> HIDE DEF In
  <2> QED
    BY <2>1
<1>6. "trust" \in f.imports => In(b, TrustUse)
  <2>1. ASSUME NEW w PROVE In(<<w>>, w)
    OBVIOUS
  <2> HIDE DEF In
  <2> QED
    BY <2>1
<1> HIDE DEF a, b, c, Y
<1>7. ASSUME NEW x \in Seq(Y), NEW y \in Seq(Y)
      PROVE  x \o y \in Seq(Y) /\ \A w : In(x, w) \/ In(y, w) => In(x \o y, w)
  <2>1. /\ x \o y \in Seq(Y) /\ Len(x \o y) = Len(x) + Len(y)
        /\ \A n \in 1..Len(x) : (x \o y)[n] = x[n]
        /\ \A n \in 1..Len(y) : (x \o y)[Len(x) + n] = y[n]
    BY Concatenated
  <2>2. Len(x) \in Nat /\ Len(y) \in Nat
    OBVIOUS
  <2> DEFINE z == x \o y
             l == Len(x)
             k == Len(y)
  <2> HIDE DEF z, l, k
  <2>3. \A n \in 1..l : n \in 1..(l + k)
    BY <2>2 DEF l, k
  <2>4. \A n \in 1..k : l + n \in 1..(l + k)
    BY <2>2 DEF l, k
  <2>5. Len(z) = l + k /\ (\A n \in 1..l : z[n] = x[n]) /\ (\A n \in 1..k : z[l + n] = y[n])
    BY <2>1 DEF z, l, k
  <2>6. ASSUME NEW w, In(x, w) PROVE In(z, w)
    BY <2>3, <2>5, <2>6 DEF l
  <2>7. ASSUME NEW w, In(y, w) PROVE In(z, w)
    BY <2>4, <2>5, <2>7 DEF k
  <2> HIDE DEF In
  <2> QED
    BY <2>1, <2>6, <2>7 DEF z
<1> HIDE DEF In
<1>8. u \in Seq(Y) /\ \A w : In(a, w) \/ In(b, w) => In(u, w)
  BY <1>3, <1>7
<1> HIDE DEF u
<1>9. q \in Seq(Y) /\ \A w : In(u, w) \/ In(c, w) => In(q, w)
  BY <1>4, <1>7, <1>8
<1> HIDE DEF q
<1>10. /\ "proven" \in f.imports => In(q, ProvenUse)
       /\ "trust" \in f.imports => In(q, TrustUse)
       /\ \A w \in Seen(f) : In(q, w)
  BY <1>4, <1>5, <1>6, <1>8, <1>9
<1> QED
  BY <1>1, <1>9, <1>10 DEF In, Y

\* The rewritten text: of the file, blanks apart, and behind it the sentinels.
LEMMA Rewritten ==
  ASSUME NEW f \in Files, CollectRewrites(f) # {}
  PROVE  LET T == FileText(f)
             q == Sentinels(f.imports, T, CollectRewrites(f))
         IN  /\ \A n \in 1..Len(T) :
                  /\ RewriteSource(f)[n + 2] \in ToSet(RewriteSource(f))
                  /\ \/ RewriteSource(f)[n + 2] = T[n]
                     \/ /\ RewriteSource(f)[n + 2] = Blank /\ T[n] # NL
                        /\ \E e \in CollectRewrites(f) : Erases(e, n)
             /\ \A j \in 1..Len(q) : q[j] \in ToSet(RewriteSource(f))
             /\ NL \in ToSet(RewriteSource(f))
<1> DEFINE T == FileText(f)
           E == CollectRewrites(f)
           q == Sentinels(f.imports, T, E)
           A == ApplyRewrites(T, E)
           D == 1..Len(T)
           Z == Words \cup {Blank}
           X == Z \cup Seen(f) \cup {Declare, Comment, NL}
           r == FoldLeft(AppendSentinel, A, q)
           R == RewriteSource(f)
           h == <<Comment, NL>>
<1>1. T \in Text /\ Len(T) \in Nat
  <2>1. T \in Text
    BY FileTexts
  <2> HIDE DEF T
  <2> QED
    BY <2>1 DEF Text
<1>2. T \in [D -> Z]
  <2> HIDE DEF T
  <2> QED
    BY <1>1 DEF Text
<1>3. SomeEdits(E)
  <2>1. \A e \in Places : e.start \in Nat
    BY DEF Places
  <2> HIDE DEF E
  <2> QED
    BY <2>1, EditsFinite DEF SomeEdits, E
<1>4. /\ A \in [D -> Z]
      /\ \A n \in D : \/ A[n] = T[n]
                      \/ A[n] = Blank /\ T[n] # NL /\ \E e \in E : Erases(e, n)
  <2>1. Blank \in Z
    OBVIOUS
  <2> HIDE DEF T, E, D, Z
  <2> QED
    BY <1>2, <1>3, <2>1, Blanked
<1>5. A \in Seq(X) /\ Len(A) = Len(T)
  <2> DEFINE k == Len(T)
  <2>1. k \in Nat
    BY <1>1
  <2>2. A = [n \in 1..k |-> A[n]] /\ \A n \in 1..k : A[n] \in X
    <3>1. Z \subseteq X
      OBVIOUS
    <3> HIDE DEF A, Z, X, T
    <3> QED
      BY <1>4, <3>1
  <2> HIDE DEF k, A, X
  <2>3. A \in Seq(X) /\ Len(A) = k
    BY <2>1, <2>2, Listing
  <2> QED
    BY <2>3 DEF k
<1>6. q \in Seq(X)
  <2> DEFINE Y == {ProvenUse, TrustUse} \cup Seen(f)
  <2>1. q \in Seq(Y)
    BY SentinelsListed
  <2>2. Y \subseteq X
    BY TextAssumption DEF TextAssumption
  <2> HIDE DEF q, X, Y
  <2> QED
    BY <2>1, <2>2
<1>7. WordsOf(X, A, q)
  <2>1. NL \in X /\ Declare \in X
    OBVIOUS
  <2> HIDE DEF A, q, X
  <2> QED
    BY <1>5, <1>6, <2>1 DEF WordsOf
<1>8. h \in Seq(X) /\ Len(h) = 2 /\ h[2] = NL
  <2>1. Comment \in X /\ NL \in X
    OBVIOUS
  <2> HIDE DEF X
  <2> QED
    BY <2>1
<1>9. R = h \o r
  BY Zenon DEF RewriteSource
<1> HIDE DEF T, E, A, q, X, Z, h, R
<1>10. /\ r \in Seq(X) /\ Len(A) <= Len(r)
       /\ \A n \in 1..Len(A) : r[n] = A[n]
       /\ \A j \in 1..Len(q) : \E m \in 1..Len(r) : r[m] = q[j]
  BY <1>7, Appended
<1> HIDE DEF r
<1>11. R \in Seq(X) /\ \A n \in 1..Len(r) : R[2 + n] = r[n] /\ R[2 + n] \in ToSet(R)
  <2>1. /\ h \o r \in Seq(X) /\ Len(h \o r) = Len(h) + Len(r)
        /\ \A n \in 1..Len(r) : (h \o r)[Len(h) + n] = r[n]
    <3>1. h \in Seq(X) /\ r \in Seq(X)
      BY <1>8, <1>10
    <3> QED
      BY <3>1, Concatenated
  <2>2. R \in Seq(X) /\ Len(R) = 2 + Len(r) /\ \A n \in 1..Len(r) : R[2 + n] = r[n]
    BY <1>8, <1>9, <2>1
  <2>3. ASSUME NEW n \in 1..Len(r) PROVE 2 + n \in DOMAIN R
    <3>1. Len(r) \in Nat
      BY <1>10
    <3> QED
      BY <2>2, <3>1
  <2>4. \A n \in DOMAIN R : R[n] \in ToSet(R)
    BY DEF ToSet
  <2> QED
    BY <2>2, <2>3, <2>4
<1>12. ASSUME NEW n \in 1..Len(T)
       PROVE  /\ R[n + 2] \in ToSet(R)
              /\ \/ R[n + 2] = T[n]
                 \/ R[n + 2] = Blank /\ T[n] # NL /\ \E e \in E : Erases(e, n)
  <2>1. n \in 1..Len(A) /\ n \in D
    BY <1>5
  <2>2. n \in 1..Len(r) /\ 2 + n = n + 2
    <3>1. Len(r) \in Nat /\ Len(A) \in Nat
      BY <1>5, <1>10
    <3> QED
      BY <1>10, <2>1, <3>1
  <2>3. R[n + 2] = A[n] /\ R[n + 2] \in ToSet(R)
    <3> HIDE DEF D
    <3> QED
      BY <1>10, <1>11, <2>1, <2>2
  <2> HIDE DEF D
  <2> QED
    BY <1>4, <2>1, <2>3
<1>13. ASSUME NEW j \in 1..Len(q) PROVE q[j] \in ToSet(R)
  <2>1. PICK m \in 1..Len(r) : r[m] = q[j]
    BY <1>10
  <2> QED
    BY <1>11, <2>1
<1>14. NL \in ToSet(R)
  <2>1. \A n \in 1..Len(h) : (h \o r)[n] = h[n]
    <3>1. h \in Seq(X) /\ r \in Seq(X)
      BY <1>8, <1>10
    <3> QED
      BY <3>1, Concatenated
  <2>2. 2 \in 1..Len(h)
    BY <1>8
  <2>3. R[2] = NL
    BY <1>8, <1>9, <2>1, <2>2
  <2>4. 2 \in DOMAIN R
    <3>1. h \in Seq(X) /\ r \in Seq(X)
      BY <1>8, <1>10
    <3>2. Len(h \o r) = Len(h) + Len(r)
      BY <3>1, Concatenated
    <3>3. Len(r) \in Nat
      BY <1>10
    <3>4. R \in Seq(X) /\ Len(R) = 2 + Len(r)
      BY <1>8, <1>9, <1>11, <3>2
    <3> QED
      BY <3>3, <3>4
  <2> QED
    BY <2>3, <2>4 DEF ToSet
<1> QED
  BY <1>12, <1>13, <1>14 DEF T, E, q, R

------------------------------------------------------------------------------
(* Rewriter: where things stand in the text of a file.                     *)

\* q is p with one more sequence.
Appends1(q, p, n, X) ==
  /\ q \in Seq(Seq(X)) /\ Len(q) = n + 1 /\ p \in Seq(Seq(X)) /\ Len(p) = n
  /\ \A j \in 1..n : p[j] = q[j]

LEMMA FlattenLonger ==
  ASSUME NEW X, NEW n \in Nat, NEW q, NEW p, Appends1(q, p, n, X)
  PROVE  FlattenSeq(q) = FlattenSeq(p) \o q[n + 1]
<1>1. q \in Seq(Seq(X)) /\ p \in Seq(Seq(X))
  BY Zenon DEF Appends1
<1>2. Len(q) = n + 1 /\ Len(p) = n /\ \A j \in 1..n : p[j] = q[j]
  BY Zenon DEF Appends1
<1>3. FlattenSeq(q) = Joined(q, n + 1) /\ FlattenSeq(p) = Joined(p, n)
  <2>1. FlattenSeq(q) = Joined(q, Len(q))
    BY <1>1, FlattenJoined
  <2>2. FlattenSeq(p) = Joined(p, Len(p))
    BY <1>1, FlattenJoined
  <2> QED
    BY <1>2, <2>1, <2>2, Zenon
<1>4. \A k \in 0..(n + 1) : Joined(q, k) \in Seq(X)
  <2>1. \A k \in 0..Len(q) : Joined(q, k) \in Seq(X)
    BY <1>1, JoinedType
  <2> QED
    BY <1>2, <2>1, Zenon
<1>5. \A k \in 0..n : Joined(p, k) \in Seq(X)
  <2>1. \A k \in 0..Len(p) : Joined(p, k) \in Seq(X)
    BY <1>1, JoinedType
  <2> QED
    BY <1>2, <2>1, Zenon
<1>6. ASSUME NEW k \in 1..(n + 1) PROVE Joined(q, k) = Joined(q, k - 1) \o q[k]
  <2>1. k - 1 \in 0..(n + 1)
    OBVIOUS
  <2>2. Joined(q, k - 1) \in Seq(X)
    BY <1>4, <2>1
  <2>3. k \in 1..Len(q)
    BY <1>2, Zenon
  <2>4. q \in Seq(Seq(X))
    BY <1>1
  <2>5. Joined(q, k) \in Seq(X) /\ Extends(q, k)
    BY <2>2, <2>3, <2>4, JoinedNext
  <2> QED
    BY <2>5, Zenon DEF Extends
<1>7. ASSUME NEW k \in 1..n PROVE Joined(p, k) = Joined(p, k - 1) \o q[k]
  <2>1. k - 1 \in 0..n
    OBVIOUS
  <2>2. Joined(p, k - 1) \in Seq(X)
    BY <1>5, <2>1
  <2>3. k \in 1..Len(p)
    BY <1>2, Zenon
  <2>5. p \in Seq(Seq(X))
    BY <1>1
  <2>6. Joined(p, k) \in Seq(X) /\ Extends(p, k)
    BY <2>2, <2>3, <2>5, JoinedNext
  <2>4. Joined(p, k) = Joined(p, k - 1) \o p[k]
    BY <2>6, Zenon DEF Extends
  <2> QED
    BY <1>2, <2>4, Zenon
<1> DEFINE Bad == {k \in Nat : k <= n /\ Joined(q, k) # Joined(p, k)}
<1>8. Bad = {}
  <2> SUFFICES ASSUME Bad # {} PROVE FALSE
    OBVIOUS
  <2>1. PICK k \in Bad : \A m \in Bad : k <= m
    <3>1. Bad \subseteq Nat
      OBVIOUS
    <3> HIDE DEF Bad
    <3> QED
      BY <3>1, LeastNat
  <2>2. k \in Nat /\ k <= n /\ Joined(q, k) # Joined(p, k)
    BY Zenon
  <2>3. k # 0
    BY <2>2, Zenon DEF Joined
  <2>4. k \in 1..n /\ k \in 1..(n + 1) /\ k - 1 \in Nat /\ k - 1 <= n /\ ~(k <= k - 1)
    BY <2>2, <2>3
  <2>5. Joined(q, k - 1) = Joined(p, k - 1)
    BY <2>1, <2>4, Zenon
  <2> QED
    BY <1>6, <1>7, <2>2, <2>4, <2>5, Zenon
<1>9. Joined(q, n) = Joined(p, n)
  <2>1. n \in Nat /\ n <= n
    OBVIOUS
  <2> QED
    BY <1>8, <2>1, Zenon
<1>10. n + 1 \in 1..(n + 1) /\ (n + 1) - 1 = n
  OBVIOUS
<1>11. Joined(q, n + 1) = Joined(q, (n + 1) - 1) \o q[n + 1]
  BY <1>6, <1>10, Zenon
<1> QED
  BY <1>3, <1>9, <1>10, <1>11, Zenon

LEMMA FlattenAppended ==
  ASSUME NEW X, NEW n \in Nat, NEW q, NEW p,
         q = [j \in 1..(n + 1) |-> q[j]], p = [j \in 1..n |-> q[j]],
         \A j \in 1..(n + 1) : q[j] \in Seq(X)
  PROVE  FlattenSeq(q) = FlattenSeq(p) \o q[n + 1]
<1> DEFINE m == n + 1
           Y == Seq(X)
<1>1. m \in Nat /\ \A j \in 1..n : j \in 1..m
  OBVIOUS
<1>2. q = [j \in 1..m |-> q[j]] /\ \A j \in 1..m : q[j] \in Y
  BY Zenon
<1>3. \A j \in 1..n : p[j] = q[j]
  BY Zenon
<1>4. p = [j \in 1..n |-> p[j]]
  OBVIOUS
<1> HIDE DEF m, Y
<1>5. q \in Seq(Y) /\ Len(q) = m
  BY <1>1, <1>2, Listing, Zenon
<1>6. \A j \in 1..n : p[j] \in Y
  BY <1>1, <1>2, <1>3, Zenon
<1>61. n \in Nat
  OBVIOUS
<1>7. p \in Seq(Y) /\ Len(p) = n
  <2> DEFINE r == p
  <2>1. r = [j \in 1..n |-> r[j]] /\ \A j \in 1..n : r[j] \in Y
    BY <1>4, <1>6, Zenon
  <2> HIDE DEF r
  <2>2. r \in Seq(Y) /\ Len(r) = n
    BY <1>61, <2>1, Listing
  <2> QED
    BY <2>2 DEF r
<1>8. Appends1(q, p, n, X)
  BY <1>3, <1>5, <1>7, Zenon DEF m, Y, Appends1
<1> QED
  BY <1>8, FlattenLonger, Zenon

\* u stands in v behind the first `at' words.
Stands(u, at, v) == at + Len(u) <= Len(v) /\ \A j \in 1..Len(u) : v[at + j] = u[j]

LEMMA TextLen == \A t \in Text : Len(t) \in Nat
BY DEF Text

LEMMA StandsBefore ==
  ASSUME NEW u \in Text, NEW y \in Text PROVE Stands(u, 0, u \o y)
<1> DEFINE w == u \o y
<1>1. Len(w) = Len(u) + Len(y) /\ \A j \in 1..Len(u) : w[j] = u[j]
  BY Concatenated DEF Text
<1>2. Len(u) \in Nat /\ Len(y) \in Nat
  BY TextLen
<1>3. \A j \in 1..Len(u) : 0 + j = j
  BY <1>2
<1> HIDE DEF w
<1>4. 0 + Len(u) <= Len(w) /\ \A j \in 1..Len(u) : w[0 + j] = u[j]
  BY <1>1, <1>2, <1>3
<1> QED
  BY <1>4 DEF Stands, w

LEMMA StandsAfter ==
  ASSUME NEW x \in Text, NEW u \in Text PROVE Stands(u, Len(x), x \o u)
<1> DEFINE w == x \o u
<1>1. Len(w) = Len(x) + Len(u) /\ \A j \in 1..Len(u) : w[Len(x) + j] = u[j]
  BY Concatenated DEF Text
<1>2. Len(x) \in Nat /\ Len(u) \in Nat
  BY TextLen
<1> HIDE DEF w
<1>3. Len(x) + Len(u) <= Len(w)
  BY <1>1, <1>2
<1> QED
  BY <1>1, <1>3 DEF Stands, w

LEMMA StandsWithin ==
  ASSUME NEW u \in Text, NEW v \in Text, NEW w \in Text, NEW a \in Nat, NEW b \in Nat,
         Stands(u, a, v), Stands(v, b, w)
  PROVE  Stands(u, b + a, w)
<1> DEFINE lu == Len(u)
           lv == Len(v)
           lw == Len(w)
<1>1. lu \in Nat /\ lv \in Nat /\ lw \in Nat
  BY TextLen
<1>2. a + lu <= lv /\ \A j \in 1..lu : v[a + j] = u[j]
  BY DEF Stands
<1>3. b + lv <= lw /\ \A j \in 1..lv : w[b + j] = v[j]
  BY DEF Stands
<1> HIDE DEF lu, lv, lw
<1>4. (b + a) + lu <= lw
  BY <1>1, <1>2, <1>3
<1>5. ASSUME NEW j \in 1..lu PROVE w[(b + a) + j] = u[j]
  <2>1. a + j \in 1..lv /\ b + (a + j) = (b + a) + j
    BY <1>1, <1>2
  <2> QED
    BY <1>2, <1>3, <2>1
<1> QED
  BY <1>4, <1>5 DEF Stands, lu, lv, lw

LEMMA BeforeNext ==
  ASSUME NEW f \in Files, NEW i \in 1..Len(f.stmts)
  PROVE  Before(f, i + 1) = Before(f, i) \o StmtText(f.stmts[i])
<1> DEFINE n == i - 1
           q == [j \in 1..(n + 1) |-> StmtText(f.stmts[j])]
           p == [j \in 1..n |-> StmtText(f.stmts[j])]
<1>1. Len(f.stmts) \in Nat
  BY FilesTyped
<1>2. n \in Nat /\ n + 1 = i /\ (i + 1) - 1 = n + 1 /\ \A j \in 1..n : j \in 1..(n + 1)
  BY <1>1
<1>3. \A j \in 1..i : StmtText(f.stmts[j]) \in Text
  <2>1. \A j \in 1..i : j \in 1..Len(f.stmts)
    BY <1>1
  <2> QED
    BY <2>1, FilesTyped, StmtTexts
<1>4. Before(f, i + 1) = FlattenSeq(q) /\ Before(f, i) = FlattenSeq(p)
  <2>1. Before(f, i) = FlattenSeq(p)
    BY Zenon DEF Before
  <2>2. Before(f, i + 1) = FlattenSeq([j \in 1..((i + 1) - 1) |-> StmtText(f.stmts[j])])
    BY Zenon DEF Before
  <2> HIDE DEF n
  <2> QED
    BY <1>2, <2>1, <2>2, Zenon
<1>5. /\ q = [j \in 1..(n + 1) |-> q[j]] /\ \A j \in 1..(n + 1) : q[j] \in Seq(Words)
      /\ q[n + 1] = StmtText(f.stmts[i])
  <2>1. n + 1 \in 1..(n + 1)
    BY <1>2
  <2> HIDE DEF n
  <2> QED
    BY <1>2, <1>3, <2>1 DEF Text
<1>6. p = [j \in 1..n |-> q[j]]
  <2> HIDE DEF n
  <2> QED
    BY <1>2
<1> HIDE DEF n, p, q
<1>7. FlattenSeq(q) = FlattenSeq(p) \o q[n + 1]
  BY <1>2, <1>5, <1>6, FlattenAppended
<1> QED
  BY <1>4, <1>5, <1>7

LEMMA StmtStands ==
  ASSUME NEW f \in Files, NEW i \in 1..Len(f.stmts)
  PROVE  Stands(StmtText(f.stmts[i]), Len(Before(f, i)), FileText(f))
<1> DEFINE N == Len(f.stmts)
           u == StmtText(f.stmts[i])
           a == Len(Before(f, i))
           Bad == {m \in Nat : i + 1 + m <= N + 1 /\ ~Stands(u, a, Before(f, i + 1 + m))}
<1>1. N \in Nat /\ i \in 1..N
  BY FilesTyped
<1>2. \A j \in 1..(N + 1) : Before(f, j) \in Text
  BY BeforeTexts
<1>3. u \in Text
  BY FilesTyped, StmtTexts
<1>4. a \in Nat
  <2>1. i \in 1..(N + 1)
    <3> HIDE DEF N
    <3> QED
      BY <1>1
  <2> QED
    BY <1>2, <2>1, TextLen
<1> HIDE DEF N, u, a
<1>5. Bad = {}
  <2> SUFFICES ASSUME Bad # {} PROVE FALSE
    OBVIOUS
  <2>1. PICK m \in Bad : \A k \in Bad : m <= k
    <3>1. Bad \subseteq Nat
      OBVIOUS
    <3> HIDE DEF Bad
    <3> QED
      BY <3>1, LeastNat
  <2>2. m \in Nat /\ i + 1 + m <= N + 1 /\ ~Stands(u, a, Before(f, i + 1 + m))
    OBVIOUS
  <2>3. CASE m = 0
    <3>1. i + 1 + m = i + 1 /\ i \in 1..(N + 1)
      BY <1>1, <2>3
    <3>2. Before(f, i + 1) = Before(f, i) \o u
      BY <1>1, BeforeNext DEF u, N
    <3>3. Stands(u, Len(Before(f, i)), Before(f, i) \o u)
      BY <1>2, <1>3, <3>1, StandsAfter
    <3> QED
      BY <2>2, <3>1, <3>2, <3>3 DEF a
  <2>4. CASE m # 0
    <3> DEFINE j == i + 1 + (m - 1)
    <3>1. m - 1 \in Nat /\ j \in 1..N /\ j <= N + 1 /\ i + 1 + m = j + 1 /\ ~(m <= m - 1)
          /\ j \in 1..(N + 1) /\ j + 1 \in 1..(N + 1)
      BY <1>1, <2>2, <2>4
    <3>2. Stands(u, a, Before(f, j))
      BY <2>1, <3>1
    <3> HIDE DEF j
    <3>3. Before(f, j + 1) = Before(f, j) \o StmtText(f.stmts[j])
      BY <3>1, BeforeNext DEF N
    <3>4. StmtText(f.stmts[j]) \in Text
      BY <3>1, FilesTyped, StmtTexts DEF N
    <3>5. Stands(Before(f, j), 0, Before(f, j + 1))
      BY <1>2, <3>1, <3>3, <3>4, StandsBefore
    <3>6. Stands(u, 0 + a, Before(f, j + 1))
      <4>1. 0 \in Nat
        OBVIOUS
      <4>2. Before(f, j) \in Text /\ Before(f, j + 1) \in Text
        BY <1>2, <3>1
      <4> QED
        BY <1>3, <1>4, <3>2, <3>5, <4>1, <4>2, StandsWithin
    <3>7. 0 + a = a
      BY <1>4
    <3> QED
      BY <2>2, <3>1, <3>6, <3>7
  <2> QED
    BY <2>3, <2>4
<1>6. Stands(u, a, Before(f, N + 1)) /\ N + 1 \in 1..(N + 1)
  <2>1. N - i \in Nat /\ i + 1 + (N - i) = N + 1 /\ N + 1 <= N + 1 /\ N + 1 \in 1..(N + 1)
    BY <1>1
  <2> QED
    BY <1>5, <2>1
<1> DEFINE B == Before(f, N + 1)
           v == B \o <<Brace>>
<1>7. B \in Text /\ <<Brace>> \in Text /\ f.eof \in Text
  <2>1. <<Brace>> \in Text
    BY TextAssumption, OneWord DEF TextAssumption
  <2>2. f.eof \in Text
    BY FilesTyped
  <2> QED
    BY <1>2, <1>6, <2>1, <2>2
<1>8. v \in Text /\ v \o f.eof \in Text
  BY <1>7, Joins
<1>9. Stands(B, 0, v) /\ Stands(v, 0, v \o f.eof)
  <2>1. Stands(B, 0, v)
    BY <1>7, StandsBefore
  <2>2. Stands(v, 0, v \o f.eof)
    <3> HIDE DEF v
    <3> QED
      BY <1>7, <1>8, StandsBefore
  <2> QED
    BY <2>1, <2>2
<1>10. FileText(f) = v \o f.eof
  BY Zenon DEF FileText, N
<1> HIDE DEF B, v
<1>11. Stands(u, a, B)
  BY <1>6 DEF B
<1> DEFINE w == v \o f.eof
<1> HIDE DEF w
<1>12. w \in Text /\ Stands(v, 0, w)
  BY <1>8, <1>9 DEF w
<1>13. 0 \in Nat /\ 0 + a \in Nat
  BY <1>4
<1>14. Stands(u, 0 + a, v)
  BY <1>3, <1>4, <1>7, <1>8, <1>9, <1>11, <1>13, StandsWithin
<1>15. Stands(u, 0 + (0 + a), w)
  BY <1>3, <1>8, <1>12, <1>13, <1>14, StandsWithin
<1>16. 0 + (0 + a) = a
  BY <1>4
<1> QED
  BY <1>10, <1>15, <1>16 DEF u, a, w

LEMMA OpenedNext ==
  ASSUME NEW s, TypedStmt(s), NEW k \in 0..Len(s.calls)
  PROVE  /\ k = Len(s.calls) => Opened(s, k) = <<>>
         /\ k # Len(s.calls) => /\ k + 1 \in 1..Len(s.calls)
                                /\ Opened(s, k) = Opened(s, k + 1) \o Open(s.calls[k + 1])
<1> DEFINE K == Len(s.calls)
           Q(m) == [j \in 1..m |-> Open(s.calls[K + 1 - j])]
<1>1. K \in Nat /\ k \in 0..K
  BY StmtCalls
<1>2. \A l \in 0..K : Opened(s, l) = FlattenSeq(Q(K - l))
  BY Zenon DEF Opened
<1>3. \A j \in 1..K : Open(s.calls[K + 1 - j]) \in Text
  <2>1. \A j \in 1..K : K + 1 - j \in 1..K
    <3> HIDE DEF K
    <3> QED
      BY <1>1
  <2> QED
    BY <2>1, StmtCalls, CallTexts
<1>4. CASE k = K
  <2>1. Opened(s, k) = FlattenSeq(Q(0))
    <3>1. K - k = 0
      <4> HIDE DEF K
      <4> QED
        BY <1>1, <1>4
    <3>2. k \in 0..K
      BY <1>1
    <3> HIDE DEF Q, K
    <3> QED
      BY <1>2, <3>1, <3>2
  <2>2. Q(0) = <<>>
    <3> HIDE DEF K
    <3> QED
      OBVIOUS
  <2>3. FlattenSeq(<<>>) = <<>>
    <3>1. <<>> \in Seq(Seq(Words)) /\ Len(<<>>) = 0
      OBVIOUS
    <3>2. FlattenSeq(<<>>) = Joined(<<>>, Len(<<>>))
      BY <3>1, FlattenJoined
    <3> QED
      BY <3>1, <3>2 DEF Joined
  <2> HIDE DEF Q, K
  <2>4. Opened(s, k) = <<>>
    BY <2>1, <2>2, <2>3
  <2> QED
    BY <1>4, <2>4 DEF K
<1>5. CASE k # K
  <2> DEFINE n == K - (k + 1)
             q == Q(n + 1)
             p == Q(n)
  <2>1. /\ n \in Nat /\ K - k = n + 1 /\ k + 1 \in 1..K /\ k + 1 \in 0..K /\ n + 1 \in 1..(n + 1)
        /\ K + 1 - (n + 1) = k + 1
        /\ \A j \in 1..(n + 1) : j \in 1..K
        /\ \A j \in 1..n : j \in 1..(n + 1)
    <3> HIDE DEF K
    <3> QED
      BY <1>1, <1>5
  <2>2. Opened(s, k) = FlattenSeq(q) /\ Opened(s, k + 1) = FlattenSeq(p)
    <3>1. Opened(s, k + 1) = FlattenSeq(Q(K - (k + 1)))
      <4> HIDE DEF Q, K
      <4> QED
        BY <1>2, <2>1
    <3>2. Opened(s, k) = FlattenSeq(Q(n + 1))
      <4> HIDE DEF Q, K, n
      <4> QED
        BY <1>1, <1>2, <2>1
    <3> QED
      BY <3>1, <3>2
  <2> HIDE DEF K, n
  <2>3. /\ q = [j \in 1..(n + 1) |-> q[j]] /\ \A j \in 1..(n + 1) : q[j] \in Seq(Words)
        /\ q[n + 1] = Open(s.calls[k + 1])
    BY <1>3, <2>1 DEF Text
  <2>4. p = [j \in 1..n |-> q[j]]
    BY <2>1
  <2> HIDE DEF q, p
  <2>5. FlattenSeq(q) = FlattenSeq(p) \o q[n + 1]
    BY <2>1, <2>3, <2>4, FlattenAppended
  <2>6. k + 1 \in 1..K /\ Opened(s, k) = Opened(s, k + 1) \o Open(s.calls[k + 1])
    BY <2>1, <2>2, <2>3, <2>5
  <2> QED
    BY <1>5, <2>6 DEF K
<1> QED
  BY <1>4, <1>5

LEMMA ExprStands ==
  ASSUME NEW s, TypedStmt(s), NEW k \in 1..Len(s.calls)
  PROVE  Stands(ExprText(s, k), Len(Opened(s, k)), ExprText(s, Len(s.calls)))
<1> DEFINE K == Len(s.calls)
           X(l) == ExprText(s, l)
           O(l) == Opened(s, l)
           Bad == {m \in Nat : m < K /\ ~Stands(X(K - m), Len(O(K - m)), X(K))}
<1>1. K \in Nat /\ k \in 1..K
  BY StmtCalls
<1>2. \A l \in 1..K : X(l) \in Text /\ O(l) \in Text
  <2>1. \A l \in 1..K : l \in 0..K
    <3> HIDE DEF K
    <3> QED
      BY <1>1
  <2> QED
    BY <2>1, ExprTexts, OpenedTexts
<1>3. \A l \in 1..K : /\ l = K => O(l) = <<>>
                      /\ l # K => l + 1 \in 1..K /\ O(l) = O(l + 1) \o Open(s.calls[l + 1])
  <2>1. \A l \in 1..K : l \in 0..K
    BY <1>1
  <2> QED
    BY <2>1, OpenedNext
<1>4. ASSUME NEW l \in 1..K, l + 1 \in 1..K
      PROVE  Open(s.calls[l + 1]) \in Text /\ Stands(X(l), Len(Open(s.calls[l + 1])), X(l + 1))
  <2> DEFINE c == s.calls[l + 1]
             a == Open(c)
             b == Close(c)
             d == c.post
             u == X(l)
             v == a \o u
             w == v \o b
  <2>1. TypedCall(c)
    BY <1>4, StmtCalls
  <2>2. a \in Text /\ b \in Text /\ d \in Text
    BY <2>1, CallTexts DEF TypedCall
  <2>3. X(l + 1) = w \o d
    <3>1. ExprText(s, l + 1) = Open(c) \o ExprText(s, (l + 1) - 1) \o Close(c) \o c.post
      BY <1>4, ExprTexts
    <3>2. (l + 1) - 1 = l
      <4> HIDE DEF K
      <4> QED
        BY <1>1
    <3> QED
      BY <3>1, <3>2
  <2>4. u \in Text
    BY <1>2
  <2> HIDE DEF X, a, b, d, u
  <2>5. v \in Text /\ w \in Text /\ w \o d \in Text
    BY <2>2, <2>4, Joins
  <2>6. Stands(u, Len(a), v) /\ Len(a) \in Nat
    BY <2>2, <2>4, StandsAfter, TextLen
  <2> HIDE DEF v
  <2>7. Stands(v, 0, w)
    BY <2>2, <2>5, StandsBefore
  <2> HIDE DEF w
  <2>8. Stands(w, 0, w \o d)
    BY <2>2, <2>5, StandsBefore
  <2> DEFINE z == w \o d
             at == Len(a)
  <2>9. z \in Text /\ Stands(w, 0, z) /\ Stands(u, at, v) /\ at \in Nat /\ 0 \in Nat
    BY <2>5, <2>6, <2>8
  <2> HIDE DEF z, at
  <2>10. Stands(u, 0 + at, w) /\ 0 + at = at
    BY <2>4, <2>5, <2>7, <2>9, StandsWithin
  <2>11. Stands(u, at, w)
    BY <2>10
  <2>12. Stands(u, 0 + at, z)
    BY <2>4, <2>5, <2>9, <2>11, StandsWithin
  <2>13. Stands(u, at, z)
    BY <2>10, <2>12
  <2> QED
    BY <2>2, <2>3, <2>13 DEF z, at, u, a
<1> HIDE DEF X, O, K
<1>5. Bad = {}
  <2> SUFFICES ASSUME Bad # {} PROVE FALSE
    OBVIOUS
  <2>1. PICK m \in Bad : \A j \in Bad : m <= j
    <3>1. Bad \subseteq Nat
      OBVIOUS
    <3> HIDE DEF Bad
    <3> QED
      BY <3>1, LeastNat
  <2>2. m \in Nat /\ m < K /\ ~Stands(X(K - m), Len(O(K - m)), X(K))
    OBVIOUS
  <2>3. CASE m = 0
    <3>1. K - m = K /\ K \in 1..K
      BY <1>1, <2>2, <2>3
    <3>2. Len(O(K)) = 0
      BY <1>3, <3>1
    <3>3. Len(X(K)) \in Nat
      BY <1>2, <3>1, TextLen
    <3>4. Stands(X(K), 0, X(K))
      <4> DEFINE t == X(K)
      <4> HIDE DEF t
      <4>1. Len(t) \in Nat
        BY <3>3 DEF t
      <4>2. 0 + Len(t) <= Len(t) /\ \A j \in 1..Len(t) : 0 + j = j
        BY <4>1
      <4>3. \A j \in 1..Len(t) : t[0 + j] = t[j]
        BY <4>2
      <4>4. Stands(t, 0, t)
        BY <4>2, <4>3 DEF Stands
      <4> QED
        BY <4>4 DEF t
    <3> QED
      BY <2>2, <3>1, <3>2, <3>4
  <2>4. CASE m # 0
    <3> DEFINE l == K - m
    <3>1. m - 1 \in Nat /\ m - 1 < K /\ ~(m <= m - 1) /\ l \in 1..K /\ l # K /\ K - (m - 1) = l + 1 /\ K \in 1..K
      BY <1>1, <2>2, <2>4
    <3>2. Stands(X(l + 1), Len(O(l + 1)), X(K))
      BY <2>1, <3>1
    <3> HIDE DEF l
    <3> DEFINE a == Open(s.calls[l + 1])
               o == O(l + 1)
    <3>3. l + 1 \in 1..K /\ O(l) = o \o a
      BY <1>3, <3>1
    <3>4. a \in Text /\ Stands(X(l), Len(a), X(l + 1))
      BY <1>4, <3>1, <3>3
    <3>5. o \in Text /\ X(l) \in Text /\ X(l + 1) \in Text /\ X(K) \in Text
      BY <1>2, <3>1, <3>3
    <3> HIDE DEF a, o
    <3>6. Len(a) \in Nat /\ Len(o) \in Nat /\ Len(o \o a) = Len(o) + Len(a)
      BY <3>4, <3>5, TextLen, Joins
    <3>7. Stands(X(l + 1), Len(o), X(K))
      BY <3>2 DEF o
    <3>8. Stands(X(l), Len(o) + Len(a), X(K))
      BY <3>4, <3>5, <3>6, <3>7, StandsWithin
    <3>9. ~Stands(X(l), Len(O(l)), X(K))
      BY <2>2 DEF l
    <3> QED
      BY <3>3, <3>6, <3>8, <3>9
  <2> QED
    BY <2>3, <2>4
<1>6. K - k \in Nat /\ K - k < K /\ K - (K - k) = k
  BY <1>1
<1>7. Stands(X(k), Len(O(k)), X(K))
  BY <1>5, <1>6
<1> QED
  BY <1>7 DEF X, O, K

\* A call stands where its edit starts.
LEMMA CallStands ==
  ASSUME NEW f \in Files, NEW i \in 1..Len(f.stmts), NEW k \in 1..Len(f.stmts[i].calls)
  PROVE  \A j \in 1..Len(Open(f.stmts[i].calls[k])) :
           FileText(f)[CallStart(f, i, k) - 1 + j] = Open(f.stmts[i].calls[k])[j]
<1> DEFINE s == f.stmts[i]
           c == s.calls[k]
           K == Len(s.calls)
           T == FileText(f)
           S == StmtText(s)
           X == ExprText(s, K)
           Y == ExprText(s, k)
           O == Opened(s, k)
           B == Before(f, i)
           a == Open(c)
           h == s.head
           p == a \o ExprText(s, k - 1)
           r == p \o Close(c)
           g == h \o X
           t == g \o s.tail
<1>0. TypedStmt(s)
  BY FilesTyped
<1>1. K \in Nat /\ k \in 1..K /\ k \in 0..K /\ k - 1 \in 0..K /\ K \in 0..K /\ K \in 1..K
  <2>1. K \in Nat /\ k \in 1..K
    BY <1>0, StmtCalls
  <2> HIDE DEF K
  <2> QED
    BY <2>1
<1>2. S \in Text /\ X \in Text /\ Y \in Text /\ ExprText(s, k - 1) \in Text
  BY <1>0, <1>1, StmtTexts, ExprTexts
<1>3. TypedCall(c) /\ h \in Text /\ s.tail \in Text
  BY <1>0, <1>1, StmtCalls
<1>4. a \in Text /\ Close(c) \in Text /\ c.post \in Text
  BY <1>3, CallTexts DEF TypedCall
<1>5. T \in Text /\ B \in Text /\ O \in Text
  <2>1. T \in Text
    BY FileTexts
  <2>2. Len(f.stmts) \in Nat
    BY FilesTyped
  <2>3. i \in 1..(Len(f.stmts) + 1)
    BY <2>2
  <2>4. B \in Text
    BY <2>3, BeforeTexts
  <2> QED
    BY <1>0, <2>1, <2>4, OpenedTexts
<1>6. Y = r \o c.post
  <2>1. ExprText(s, k) = Open(c) \o ExprText(s, k - 1) \o Close(c) \o c.post
    BY <1>0, ExprTexts
  <2> QED
    BY <2>1
<1>7. S = t \o <<NL>>
  BY Zenon DEF StmtText
<1>8. Stands(Y, Len(O), X)
  BY <1>0, ExprStands
<1>9. Stands(S, Len(B), T)
  BY StmtStands
<1>10. CallStart(f, i, k) = Len(B) + Len(h) + Len(O) + 1
  BY Zenon DEF CallStart
<1>11. <<NL>> \in Text
  BY TextAssumption, OneWord DEF TextAssumption
<1> DEFINE e == ExprText(s, k - 1)
           b == Close(c)
           d == c.post
           y == s.tail
           n == <<NL>>
<1>12. e \in Text /\ b \in Text /\ d \in Text /\ y \in Text /\ n \in Text
  BY <1>2, <1>3, <1>4, <1>11
<1>13. p = a \o e /\ r = p \o b /\ Y = r \o d /\ S = t \o n /\ t = g \o y /\ g = h \o X
  BY <1>6, <1>7
<1> HIDE DEF p, r, t, g, e, b, d, y, n, a, h, Y, S, X, O, B, T, K, c, s
<1>14. p \in Text /\ r \in Text /\ g \in Text /\ t \in Text
  BY <1>2, <1>3, <1>4, <1>12, <1>13, Joins
<1> DEFINE la == Len(a)
           lo == Len(O)
           lh == Len(h)
           lb == Len(B)
<1>15. la \in Nat /\ lo \in Nat /\ lh \in Nat /\ lb \in Nat /\ 0 \in Nat
  BY <1>3, <1>4, <1>5, TextLen
<1>16. Stands(a, 0, p) /\ Stands(p, 0, r) /\ Stands(r, 0, Y)
  BY <1>4, <1>12, <1>13, <1>14, StandsBefore
<1>17. Stands(X, lh, g) /\ Stands(g, 0, t) /\ Stands(t, 0, S)
  BY <1>2, <1>3, <1>12, <1>13, <1>14, StandsBefore, StandsAfter
<1>18. Stands(Y, lo, X) /\ Stands(S, lb, T)
  BY <1>8, <1>9
<1> HIDE DEF la, lo, lh, lb
<1>19. Stands(a, 0 + 0, r)
  BY <1>4, <1>14, <1>15, <1>16, StandsWithin
<1>20. Stands(a, 0, r)
  BY <1>19
<1>21. Stands(a, 0 + 0, Y)
  BY <1>2, <1>4, <1>14, <1>15, <1>16, <1>20, StandsWithin
<1>22. Stands(a, 0, Y)
  BY <1>21
<1>23. Stands(a, lo + 0, X) /\ lo + 0 = lo
  BY <1>2, <1>4, <1>15, <1>18, <1>22, StandsWithin
<1>24. Stands(a, lo, X)
  BY <1>23
<1>25. Stands(a, lh + lo, g) /\ lh + lo \in Nat
  BY <1>2, <1>4, <1>14, <1>15, <1>17, <1>24, StandsWithin
<1> DEFINE at == lh + lo
<1>26. at \in Nat /\ Stands(a, at, g)
  BY <1>25
<1> HIDE DEF at
<1>27. Stands(a, 0 + at, t) /\ 0 + at = at
  BY <1>4, <1>14, <1>15, <1>17, <1>26, StandsWithin
<1>28. Stands(a, at, t)
  BY <1>27
<1>29. Stands(a, 0 + at, S)
  BY <1>2, <1>4, <1>14, <1>15, <1>17, <1>26, <1>28, StandsWithin
<1>30. Stands(a, at, S)
  BY <1>27, <1>29
<1>31. Stands(a, lb + at, T)
  BY <1>2, <1>4, <1>5, <1>15, <1>18, <1>26, <1>30, StandsWithin
<1>32. CallStart(f, i, k) - 1 = lb + at
  BY <1>10, <1>15 DEF lb, lh, lo, at
<1>33. \A j \in 1..Len(a) : T[CallStart(f, i, k) - 1 + j] = a[j]
  BY <1>31, <1>32 DEF Stands
<1> QED
  BY <1>33 DEF T, a, c, s

------------------------------------------------------------------------------
(* Rewriter: imports.                                                      *)

Ours == {"", "proven", "trust"}

\* What is used for a package is a name of it that went.
LEMMA FirstSeenKnown ==
  ASSUME NEW f \in Files, NEW pkg \in UsedAliases(FileText(f), CollectRewrites(f))
  PROVE  /\ pkg \notin Ours
         /\ \E d \in CollectRewrites(f) : \E m \in Dead(d) :
              /\ PackageOf[FileText(f)[m]] = pkg
              /\ FirstSeen(FileText(f), CollectRewrites(f), pkg) = FileText(f)[m]
<1> DEFINE T == FileText(f)
           E == CollectRewrites(f)
           S == {x \in E : pkg \in Named(T, x)}
           d == CHOOSE x \in S : \A y \in S : x.start <= y.start
           N == {m \in Dead(d) : PackageOf[T[m]] = pkg}
           m0 == CHOOSE m \in N : \A j \in N : m <= j
<1>1. \A x \in E : Named(T, x) = {PackageOf[T[m]] : m \in Dead(x)} \ Ours
  BY Zenon DEF Named, Ours
<1>2. PICK e \in E : pkg \in Named(T, e)
  BY Zenon DEF UsedAliases
<1>3. FirstSeen(T, E, pkg) = T[m0]
  BY Zenon DEF FirstSeen
<1>5. d \in S
  <2>1. SomeEdits(E)
    <3>1. \A x \in Places : x.start \in Nat
      BY DEF Places
    <3>2. IsFiniteSet(E) /\ E \subseteq Places
      BY EditsFinite
    <3> HIDE DEF E
    <3> QED
      BY <3>1, <3>2 DEF SomeEdits
  <2>2. S \in SUBSET E /\ S # {}
    BY <1>2
  <2>3. d = Outermost(S)
    BY Zenon DEF Outermost
  <2> HIDE DEF S, E, d
  <2>4. Picks(E, LastOf(E))
    BY <2>1, OutermostPicks
  <2> QED
    BY <2>2, <2>3, <2>4 DEF Picks, LastOf
<1>6. N # {}
  <2>1. pkg \in Named(T, d) /\ d \in E
    BY <1>5
  <2> HIDE DEF d
  <2>2. pkg \in {PackageOf[T[m]] : m \in Dead(d)}
    BY <1>1, <2>1
  <2> QED
    BY <2>2
<1>7. N \subseteq Nat
  <2>1. d \in Places
    <3>1. d \in E
      BY <1>5
    <3> HIDE DEF d
    <3> QED
      BY <3>1, EditsFinite
  <2> HIDE DEF d
  <2>2. d.start \in Nat /\ d.argEnd \in Nat /\ d.end \in Nat
    BY <2>1 DEF Places
  <2>3. Dead(d) = d.start..(d.end - 1) \/ Dead(d) = d.argEnd..(d.end - 1)
    BY Zenon DEF Dead
  <2> DEFINE a == d.start
             b == d.argEnd
             z == d.end - 1
  <2>4. a \in Nat /\ b \in Nat /\ z \in Int
    BY <2>2
  <2> HIDE DEF a, b, z
  <2>5. a..z \subseteq Nat /\ b..z \subseteq Nat
    BY <2>4
  <2>6. Dead(d) \subseteq Nat
    BY <2>3, <2>5 DEF a, b, z
  <2> QED
    BY <2>6
<1>8. m0 \in N
  <2> HIDE DEF N
  <2>1. \E m \in N : \A j \in N : m <= j
    BY <1>6, <1>7, LeastNat
  <2> QED
    BY <2>1, Zenon
<1>9. PackageOf[T[m0]] = pkg
  <2> HIDE DEF d, m0
  <2> QED
    BY <1>8
<1>10. d \in E /\ m0 \in Dead(d)
  <2> HIDE DEF d, m0
  <2> QED
    BY <1>5, <1>8
<1>11. pkg \notin Ours
  <2> HIDE DEF T, E
  <2> QED
    BY <1>1, <1>2
<1> HIDE DEF d, m0
<1> QED
  BY <1>3, <1>9, <1>10, <1>11, Zenon

\* A package named in a removed argument has a sentinel that uses it.
LEMMA DeadCounted ==
  ASSUME NEW f \in Files, NEW e \in CollectRewrites(f), NEW n \in Dead(e),
         PackageOf[FileText(f)[n]] \notin Ours
  PROVE  \E w \in Seen(f) : PackageOf[w] = PackageOf[FileText(f)[n]]
<1> DEFINE T == FileText(f)
           E == CollectRewrites(f)
           pkg == PackageOf[T[n]]
<1>1. Named(T, e) = {PackageOf[T[m]] : m \in Dead(e)} \ Ours
  BY Zenon DEF Named, Ours
<1>2. pkg \in Named(T, e)
  BY <1>1
<1>3. pkg \in UsedAliases(T, E)
  BY <1>2, Zenon DEF UsedAliases
<1>4. FirstSeen(T, E, pkg) \in Seen(f)
  BY <1>3, Zenon DEF Seen
<1>5. PackageOf[FirstSeen(T, E, pkg)] = pkg
  BY <1>3, FirstSeenKnown
<1> QED
  BY <1>4, <1>5

\* What an edit blanks in front of a kept argument names no other package.
LEMMA OpenOurs ==
  ASSUME NEW f \in Files, NEW i \in 1..Len(f.stmts), NEW k \in 1..Len(f.stmts[i].calls),
         IsErased(f.stmts[i].calls[k]),
         NEW n \in CallEdit(f, i, k).start..(CallEdit(f, i, k).argStart - 1)
  PROVE  PackageOf[FileText(f)[n]] \in Ours
<1> DEFINE c == f.stmts[i].calls[k]
           a == Open(c)
           st == CallStart(f, i, k)
           T == FileText(f)
           j == n - st + 1
<1>1. TypedCall(c)
  <2>1. TypedStmt(f.stmts[i])
    BY FilesTyped
  <2> QED
    BY <2>1, StmtCalls
<1>2. c.lead \in Text /\ <<c.fn>> \in Text /\ a \in Text
  BY <1>1, CallTexts DEF TypedCall
<1>3. st \in Nat /\ n \in st..(st + Len(a) - 1) /\ Len(a) \in Nat
  <2>1. /\ CallEdit(f, i, k) \in Places
        /\ CallEdit(f, i, k).start = st
        /\ CallEdit(f, i, k).argStart = st + Len(a)
    BY CallEdits
  <2>2. CallEdit(f, i, k).start \in Nat
    <3> DEFINE e == CallEdit(f, i, k)
    <3>1. e \in Places
      BY <2>1
    <3> HIDE DEF e
    <3>2. e.start \in Nat
      BY <3>1 DEF Places
    <3> QED
      BY <3>2 DEF e
  <2>3. Len(a) \in Nat
    BY <1>2, TextLen
  <2>4. n \in st..((st + Len(a)) - 1)
    BY <2>1, Zenon
  <2> HIDE DEF st, a
  <2> QED
    BY <2>1, <2>2, <2>3, <2>4
<1>4. j \in 1..Len(a) /\ n = st - 1 + j
  <2> HIDE DEF st, a
  <2> QED
    BY <1>3
<1>5. T[n] = a[j]
  <2>1. T[st - 1 + j] = a[j]
    <3>1. \A x \in 1..Len(a) : T[st - 1 + x] = a[x]
      BY CallStands
    <3> HIDE DEF st, a, j, T
    <3> QED
      BY <1>4, <3>1
  <2> HIDE DEF st, a, j, T
  <2> QED
    BY <1>4, <2>1
<1>6. /\ Len(a) = 1 + Len(c.lead) /\ a[1] = c.fn
      /\ \A x \in 1..Len(c.lead) : a[1 + x] = c.lead[x]
  <2> DEFINE u == <<c.fn>>
             v == c.lead
  <2>1. u \in Seq(Words) /\ v \in Seq(Words)
    BY <1>2 DEF Text
  <2>2. Len(u) = 1 /\ u[1] = c.fn /\ 1 \in 1..Len(u)
    OBVIOUS
  <2>3. a = u \o v
    BY Zenon DEF Open
  <2> HIDE DEF u, v, a
  <2>4. /\ Len(u \o v) = Len(u) + Len(v)
        /\ \A x \in 1..Len(u) : (u \o v)[x] = u[x]
        /\ \A x \in 1..Len(v) : (u \o v)[Len(u) + x] = v[x]
    BY <2>1, Concatenated
  <2> QED
    BY <2>2, <2>3, <2>4 DEF v
<1>7. CASE j = 1
  <2>1. c.fn \in Statements \cup Expressions
    BY Zenon DEF IsErased
  <2>2. \A fn \in Statements \cup Expressions : PackageOf[fn] \in {"proven", "trust"}
    BY TextAssumption, Zenon DEF TextAssumption
  <2>3. PackageOf[c.fn] \in Ours
    BY <2>1, <2>2 DEF Ours
  <2>4. T[n] = c.fn
    <3> HIDE DEF a, j, T, c
    <3> QED
      BY <1>5, <1>6, <1>7
  <2> QED
    BY <2>3, <2>4
<1>8. CASE j # 1
  <2> DEFINE x == j - 1
             v == c.lead
  <2>1. Len(v) \in Nat
    BY <1>2, TextLen
  <2>2. x \in 1..Len(v) /\ 1 + x = j
    <3> HIDE DEF a, j, v
    <3>1. Len(a) = 1 + Len(v)
      BY <1>6 DEF v
    <3> QED
      BY <1>4, <1>8, <2>1, <3>1
  <2>3. T[n] = v[x]
    <3>1. a[1 + x] = v[x]
      BY <1>6, <2>2
    <3> HIDE DEF a, j, v, x, T
    <3> QED
      BY <1>5, <2>2, <3>1
  <2>4. v[x] \in ToSet(v)
    <3>1. v \in Seq(Words)
      BY <1>2 DEF Text
    <3> HIDE DEF v, x
    <3> QED
      BY <2>2, <3>1 DEF ToSet
  <2>5. PackageOf[v[x]] = ""
    BY <1>1, <2>4, Zenon DEF TypedCall
  <2> QED
    BY <2>3, <2>5 DEF Ours
<1> QED
  BY <1>7, <1>8

LEMMA ImportsUsed ==
  ASSUME NEW f \in Files
  PROVE  \A w \in ToSet(FileText(f)) :
           \E u \in ToSet(RewriteSource(f)) : PackageOf[u] = PackageOf[w]
<1> DEFINE T == FileText(f)
           E == CollectRewrites(f)
           R == RewriteSource(f)
           q == Sentinels(f.imports, T, E)
<1>1. CASE E = {}
  <2>1. R = T
    BY <1>1, Zenon DEF RewriteSource
  <2> QED
    BY <2>1
<1>2. CASE E # {}
  <2>1. /\ \A n \in 1..Len(T) :
             /\ R[n + 2] \in ToSet(R)
             /\ \/ R[n + 2] = T[n]
                \/ R[n + 2] = Blank /\ T[n] # NL /\ \E e \in E : Erases(e, n)
        /\ \A j \in 1..Len(q) : q[j] \in ToSet(R)
        /\ NL \in ToSet(R)
    BY <1>2, Rewritten
  <2>2. /\ "proven" \in f.imports => \E j \in 1..Len(q) : q[j] = ProvenUse
        /\ "trust" \in f.imports => \E j \in 1..Len(q) : q[j] = TrustUse
        /\ \A w \in Seen(f) : \E j \in 1..Len(q) : q[j] = w
    BY SentinelsListed
  <2>3. /\ PackageOf[NL] = "" /\ PackageOf[ProvenUse] = "proven" /\ PackageOf[TrustUse] = "trust"
    BY TextAssumption, Zenon DEF TextAssumption
  <2>4. \A w \in ToSet(T) : PackageOf[w] \in f.imports \cup {""}
    BY FilesTyped
  <2>5. \A w \in ToSet(T) : \E n \in 1..Len(T) : w = T[n]
    <3>1. T \in Seq(Words)
      BY FileTexts DEF Text
    <3> HIDE DEF T
    <3> QED
      BY <3>1 DEF ToSet
  <2>6. \A e \in E : /\ e.start <= e.argEnd
                     /\ \/ e.argStart = e.end
                        \/ \E i \in 1..Len(f.stmts) : \E k \in 1..Len(f.stmts[i].calls) :
                             e = CallEdit(f, i, k) /\ IsErased(f.stmts[i].calls[k])
    <3> SUFFICES ASSUME NEW e \in E
                 PROVE  /\ e.start <= e.argEnd
                        /\ \/ e.argStart = e.end
                           \/ \E i \in 1..Len(f.stmts) : \E k \in 1..Len(f.stmts[i].calls) :
                                e = CallEdit(f, i, k) /\ IsErased(f.stmts[i].calls[k])
      OBVIOUS
    <3>1. PICK i \in DOMAIN f.stmts : e \in EditsOf(f, i)
      BY Zenon DEF CollectRewrites
    <3>2. i \in 1..Len(f.stmts)
      BY FilesTyped
    <3> QED
      BY <3>1, <3>2, EditKinds, Zenon
  <2>7. ASSUME NEW e \in E, NEW n, Erases(e, n), PackageOf[T[n]] \notin Ours PROVE n \in Dead(e)
    <3>1. n \in e.start..(e.argStart - 1) \/ n \in e.argEnd..(e.end - 1)
      BY <2>7, Zenon DEF Erases
    <3>2. CASE e.argStart = e.end
      <4>1. Dead(e) = e.start..(e.end - 1)
        BY <3>2, Zenon DEF Dead
      <4>2. CASE n \in e.start..(e.argStart - 1)
        BY <3>2, <4>1, <4>2
      <4>3. CASE n \in e.argEnd..(e.end - 1)
        <5>1. e \in Places
          BY EditsFinite
        <5>2. e.start <= e.argEnd /\ e.start \in Nat /\ e.argEnd \in Nat /\ e.end \in Nat
          BY <2>6, <5>1 DEF Places
        <5>3. n \in e.start..(e.end - 1)
          <6> DEFINE a == e.start
                     b == e.argEnd
                     z == e.end
          <6>1. a <= b /\ a \in Nat /\ b \in Nat /\ z \in Nat /\ n \in b..(z - 1)
            BY <4>3, <5>2
          <6> HIDE DEF a, b, z
          <6>2. n \in a..(z - 1)
            BY <6>1
          <6> QED
            BY <6>2 DEF a, z
        <5> QED
          BY <4>1, <5>3
      <4> QED
        BY <3>1, <4>2, <4>3
    <3>3. CASE e.argStart # e.end
      <4>1. Dead(e) = e.argEnd..(e.end - 1)
        BY <3>3, Zenon DEF Dead
      <4>2. n \notin e.start..(e.argStart - 1)
        <5>1. PICK i \in 1..Len(f.stmts) : \E k \in 1..Len(f.stmts[i].calls) :
                     e = CallEdit(f, i, k) /\ IsErased(f.stmts[i].calls[k])
          BY <2>6, <3>3, Zenon
        <5>2. PICK k \in 1..Len(f.stmts[i].calls) :
                     e = CallEdit(f, i, k) /\ IsErased(f.stmts[i].calls[k])
          BY <5>1, Zenon
        <5> QED
          BY <2>7, <5>2, OpenOurs, Zenon
      <4> QED
        BY <3>1, <4>1, <4>2
    <3> QED
      BY <3>2, <3>3
  <2>8. ASSUME NEW n \in 1..Len(T) PROVE \E u \in ToSet(R) : PackageOf[u] = PackageOf[T[n]]
    <3>1. CASE R[n + 2] = T[n]
      BY <2>1, <3>1, Zenon
    <3>2. CASE PackageOf[T[n]] = ""
      BY <2>1, <2>3, <3>2, Zenon
    <3>3. T[n] \in ToSet(T)
      <4>1. T \in Seq(Words)
        BY FileTexts DEF Text
      <4> HIDE DEF T
      <4> QED
        BY <4>1 DEF ToSet
    <3>4. CASE PackageOf[T[n]] = "proven"
      <4>1. "proven" \in f.imports
        BY <2>4, <3>3, <3>4
      <4> QED
        BY <2>1, <2>2, <2>3, <3>4, <4>1, Zenon
    <3>5. CASE PackageOf[T[n]] = "trust"
      <4>1. "trust" \in f.imports
        BY <2>4, <3>3, <3>5
      <4> QED
        BY <2>1, <2>2, <2>3, <3>5, <4>1, Zenon
    <3>6. CASE PackageOf[T[n]] \notin Ours /\ R[n + 2] # T[n]
      <4>1. PICK e \in E : Erases(e, n)
        BY <2>1, <3>6, Zenon
      <4>2. n \in Dead(e)
        BY <2>7, <3>6, <4>1
      <4>3. PICK w \in Seen(f) : PackageOf[w] = PackageOf[T[n]]
        BY <3>6, <4>2, DeadCounted
      <4> QED
        BY <2>1, <2>2, <4>3, Zenon
    <3> QED
      BY <3>1, <3>2, <3>4, <3>5, <3>6 DEF Ours
  <2> HIDE DEF T, R
  <2>9. \A w \in ToSet(T) : \E u \in ToSet(R) : PackageOf[u] = PackageOf[w]
    <3> SUFFICES ASSUME NEW w \in ToSet(T)
                 PROVE  \E u \in ToSet(R) : PackageOf[u] = PackageOf[w]
      OBVIOUS
    <3>1. PICK n \in 1..Len(T) : w = T[n]
      BY <2>5, Zenon
    <3> QED
      BY <2>8, <3>1
  <2> QED
    BY <2>9 DEF T, R
<1> QED
  BY <1>1, <1>2

LEMMA EveryImport == ASSUME NEW f \in Files PROVE KeepsImports(f, RewriteSource(f))
<1> DEFINE T == FileText(f)
           R == RewriteSource(f)
<1>1. \A w \in ToSet(T) : \E u \in ToSet(R) : PackageOf[u] = PackageOf[w]
  BY ImportsUsed
<1>2. {PackageOf[w] : w \in ToSet(T)} \subseteq {PackageOf[w] : w \in ToSet(R)}
  <2> HIDE DEF T, R
  <2> QED
    BY <1>1, Zenon
<1> QED
  BY <1>2, Zenon DEF KeepsImports, T, R

LEMMA EveryPlace == ASSUME NEW f \in Files PROVE KeepsPlaces(f, RewriteSource(f))
<1> DEFINE T == FileText(f)
           R == RewriteSource(f)
           E == CollectRewrites(f)
<1>1. CASE E = {}
  BY <1>1, Zenon DEF KeepsPlaces, E
<1>2. CASE E # {}
  <2>1. \A n \in 1..Len(T) : R[n + 2] = T[n] \/ (R[n + 2] = Blank /\ T[n] # NL)
    BY <1>2, Rewritten
  <2>2. DOMAIN T = 1..Len(T)
    <3>1. T \in Text
      BY FileTexts
    <3> HIDE DEF T
    <3> QED
      BY <3>1 DEF Text
  <2>3. \A n \in DOMAIN T : R[n + 2] \in {T[n], Blank} /\ (T[n] = NL => R[n + 2] = NL)
    <3> HIDE DEF T, R
    <3> QED
      BY <2>1, <2>2, Zenon
  <2> QED
    BY <2>3, Zenon DEF KeepsPlaces, T, R
<1> QED
  BY <1>1, <1>2

------------------------------------------------------------------------------
(* Folds over a sequence, from the left.                                   *)

FoldsLeft(C, n, base, H) ==
  C = [s \in SUBSET (1..n) |-> IF s = {} THEN base ELSE H[<<C[s \ {Max(s)}], Max(s)>>]]

LEMMA LeftFoldExists ==
  ASSUME NEW V, NEW base \in V, NEW n \in Nat, NEW H \in [V \X (1..n) -> V]
  PROVE  \E C : C \in [SUBSET (1..n) -> V] /\ FoldsLeft(C, n, base, H)
<1> DEFINE D == 1..n
           ch == Greatest(n)
<1>1. Picks(D, ch)
  BY GreatestPicks
<1>2. PICK C : C \in [SUBSET D -> V] /\ Peels(C, D, ch, base, H)
  <2> HIDE DEF D, ch
  <2>1. H \in [V \X D -> V]
    BY DEF D
  <2> QED
    BY <1>1, <2>1, PeelExists
<1>3. C = [s \in SUBSET D |-> IF s = {} THEN base ELSE H[<<C[s \ {ch[s]}], ch[s]>>]]
  BY <1>2, Zenon DEF Peels
<1>4. \A s \in SUBSET D : ch[s] = Max(s)
  BY DEF Greatest
<1>5. C = [s \in SUBSET D |-> IF s = {} THEN base ELSE H[<<C[s \ {Max(s)}], Max(s)>>]]
  <2> HIDE DEF D, ch
  <2> QED
    BY <1>3, <1>4
<1> QED
  BY <1>2, <1>5 DEF FoldsLeft

LEMMA GreatestOfAll == ASSUME NEW n \in Nat, n # 0 PROVE Max(1..n) = n /\ (1..n) \ {n} = 1..(n - 1)
<1>1. 1..n \subseteq 1..n /\ 1..n # {}
  OBVIOUS
<1>2. Max(1..n) \in 1..n
  BY <1>1, GreatestNat
<1>3. \E x \in 1..n : \A y \in 1..n : x >= y
  OBVIOUS
<1>4. \A y \in 1..n : Max(1..n) >= y
  BY <1>3, Zenon DEF Max
<1>5. n \in 1..n
  OBVIOUS
<1> DEFINE m == Max(1..n)
<1>6. m \in 1..n /\ m >= n
  BY <1>2, <1>4, <1>5
<1> HIDE DEF m
<1>7. m = n
  BY <1>6
<1>8. (1..n) \ {n} = 1..(n - 1)
  OBVIOUS
<1> QED
  BY <1>7, <1>8 DEF m

\* The fold, element by element.
Steps(C, n, base, H) ==
  /\ C[1..0] = base
  /\ \A k \in 1..n : C[1..k] = H[<<C[1..(k - 1)], k>>]

LEMMA LeftFoldSteps ==
  ASSUME NEW n \in Nat, NEW C, NEW base, NEW H, FoldsLeft(C, n, base, H)
  PROVE  Steps(C, n, base, H)
<1>1. \A s \in SUBSET (1..n) : C[s] = IF s = {} THEN base ELSE H[<<C[s \ {Max(s)}], Max(s)>>]
  BY Zenon DEF FoldsLeft
<1>2. 1..0 \in SUBSET (1..n) /\ 1..0 = {}
  OBVIOUS
<1>3. C[1..0] = base
  BY <1>1, <1>2, Zenon
<1>4. ASSUME NEW k \in 1..n PROVE C[1..k] = H[<<C[1..(k - 1)], k>>]
  <2>1. 1..k \in SUBSET (1..n) /\ 1..k # {} /\ k \in Nat /\ k # 0
    OBVIOUS
  <2>2. Max(1..k) = k /\ (1..k) \ {k} = 1..(k - 1)
    BY <2>1, GreatestOfAll
  <2>3. C[1..k] = H[<<C[(1..k) \ {Max(1..k)}], Max(1..k)>>]
    BY <1>1, <2>1, Zenon
  <2> QED
    BY <2>2, <2>3, Zenon
<1> QED
  BY <1>3, <1>4 DEF Steps

------------------------------------------------------------------------------
(* Rewriter: reading a text.                                               *)

\* What a reader sees.
Lexemes == Words \cup {NL, Blank, Comment, Declare, ";"}
Tokens   == Seq(Lexemes)

LEMMA LexTyped == ASSUME NEW u \in Tokens, NEW w \in Lexemes PROVE Lex(u, w) \in Tokens
<1>1. \A x \in Lexemes : Append(u, x) \in Tokens
  <2> DEFINE X == Lexemes
  <2> HIDE DEF X
  <2>1. u \in Seq(X)
    BY DEF Tokens, X
  <2>2. \A x \in X : Append(u, x) \in Seq(X)
    BY <2>1
  <2> QED
    BY <2>2 DEF Tokens, X
<1>2. ";" \in Lexemes
  BY DEF Lexemes
<1>3. Lex(u, w) = u \/ Lex(u, w) = Append(u, ";") \/ Lex(u, w) = Append(u, w)
  BY DEF Lex
<1> QED
  BY <1>1, <1>2, <1>3

\* The function that Lexed folds with.
Reading(u, t) ==
  LET iter[s \in SUBSET DOMAIN t] == IF s = {} THEN u ELSE LET x == Max(s) IN Lex(iter[s \ {x}], t[x])
  IN  iter

LEMMA FoldIsReading == ASSUME NEW u, NEW t PROVE FoldLeft(Lex, u, t) = Reading(u, t)[DOMAIN t]
BY Zenon DEF FoldLeft, MapThenFoldSet, Reading

\* What has been read after the first n words, and after all.
ReadTo(u, t, n) == Reading(u, t)[1..n]
After(u, t)      == ReadTo(u, t, Len(t))

ReadsOn(u, t) ==
  /\ ReadTo(u, t, 0) = u
  /\ \A n \in 1..Len(t) : ReadTo(u, t, n) = Lex(ReadTo(u, t, n - 1), t[n])
  /\ \A n \in 0..Len(t) : ReadTo(u, t, n) \in Tokens

LEMMA ReadStep == ASSUME NEW u \in Tokens, NEW t \in Tokens PROVE ReadsOn(u, t)
<1> DEFINE V == Tokens
           n == Len(t)
           D == 1..n
           H == [p \in V \X D |-> Lex(p[1], t[p[2]])]
<1>1. n \in Nat /\ DOMAIN t = D /\ \A j \in D : t[j] \in Lexemes
  BY DEF Tokens
<1>2. H \in [V \X D -> V]
  <2> HIDE DEF V, D
  <2> QED
    BY <1>1, LexTyped DEF V
<1>3. PICK f : f \in [SUBSET D -> V] /\ FoldsLeft(f, n, u, H)
  <2> HIDE DEF V, H, n
  <2>1. u \in V /\ H \in [V \X (1..n) -> V]
    BY <1>2 DEF V
  <2> QED
    BY <1>1, <2>1, LeftFoldExists
<1>4. f = [s \in SUBSET D |-> IF s = {} THEN u ELSE H[<<f[s \ {Max(s)}], Max(s)>>]]
  BY <1>3, Zenon DEF FoldsLeft
<1>5. ASSUME NEW s \in SUBSET D, s # {}
      PROVE  H[<<f[s \ {Max(s)}], Max(s)>>] = Lex(f[s \ {Max(s)}], t[Max(s)])
  <2>1. Max(s) \in D
    <3> HIDE DEF n
    <3> QED
      BY <1>1, <1>5, GreatestNat
  <2>2. f[s \ {Max(s)}] \in V
    <3> HIDE DEF V, D
    <3> QED
      BY <1>3
  <2> HIDE DEF V, D
  <2> QED
    BY <2>1, <2>2
<1>6. f = [s \in SUBSET DOMAIN t |-> IF s = {} THEN u ELSE Lex(f[s \ {Max(s)}], t[Max(s)])]
  <2> HIDE DEF V, H, D
  <2> QED
    BY <1>1, <1>4, <1>5
<1> DEFINE C == Reading(u, t)
<1>7. C = [s \in SUBSET DOMAIN t |-> IF s = {} THEN u ELSE Lex(C[s \ {Max(s)}], t[Max(s)])]
  BY <1>6, Zenon DEF Reading
<1> HIDE DEF C
<1>8. ASSUME NEW s \in SUBSET D, s # {} PROVE C[s] = Lex(C[s \ {Max(s)}], t[Max(s)])
  <2> HIDE DEF D
  <2> QED
    BY <1>1, <1>7, <1>8
<1>9. C[1..0] = u
  <2>1. 1..0 = {} /\ {} \in SUBSET DOMAIN t
    OBVIOUS
  <2> QED
    BY <1>7, <2>1
<1>10. ASSUME NEW k \in 1..n PROVE C[1..k] = Lex(C[1..(k - 1)], t[k])
  <2> HIDE DEF n
  <2>1. 1..k \in SUBSET D /\ 1..k # {} /\ k \in Nat /\ k # 0
    BY <1>1
  <2>2. Max(1..k) = k /\ (1..k) \ {k} = 1..(k - 1)
    BY <2>1, GreatestOfAll
  <2>3. C[1..k] = Lex(C[(1..k) \ {Max(1..k)}], t[Max(1..k)])
    BY <1>8, <2>1, Zenon
  <2> QED
    BY <2>2, <2>3, Zenon
<1> DEFINE L(k) == C[1..k]
           Bad == {k \in Nat : k <= n /\ L(k) \notin Tokens}
<1>11. Bad = {}
  <2> SUFFICES ASSUME Bad # {} PROVE FALSE
    OBVIOUS
  <2>1. PICK k \in Bad : \A j \in Bad : k <= j
    <3>1. Bad \subseteq Nat
      OBVIOUS
    <3> HIDE DEF Bad
    <3> QED
      BY <3>1, LeastNat
  <2>2. k \in Nat /\ k <= n /\ L(k) \notin Tokens
    OBVIOUS
  <2>3. k # 0
    BY <1>9, <2>2, Zenon
  <2> HIDE DEF n
  <2>4. k \in 1..n /\ k - 1 \in Nat /\ k - 1 <= n /\ ~(k <= k - 1)
    BY <1>1, <2>2, <2>3
  <2>5. L(k) = Lex(L(k - 1), t[k]) /\ t[k] \in Lexemes
    BY <1>1, <1>10, <2>4, Zenon
  <2> HIDE DEF L
  <2>6. L(k - 1) \in Tokens
    BY <2>1, <2>4
  <2> QED
    BY <2>2, <2>5, <2>6, LexTyped
<1>12. \A k : ReadTo(u, t, k) = L(k)
  BY Zenon DEF ReadTo, C
<1>13. ReadTo(u, t, 0) = u
  BY <1>9, <1>12, Zenon
<1>14. ASSUME NEW k \in 1..Len(t) PROVE ReadTo(u, t, k) = Lex(ReadTo(u, t, k - 1), t[k])
  BY <1>10, <1>12, Zenon
<1>15. ASSUME NEW k \in 0..Len(t) PROVE ReadTo(u, t, k) \in Tokens
  <2>1. k \in Nat /\ k <= n
    BY <1>1
  <2> QED
    BY <1>11, <1>12, <2>1, Zenon
<1> QED
  BY <1>13, <1>14, <1>15, Zenon DEF ReadsOn

LEMMA ReadAll == ASSUME NEW u \in Tokens, NEW t \in Tokens PROVE FoldLeft(Lex, u, t) = After(u, t) /\ After(u, t) \in Tokens
<1>1. DOMAIN t = 1..Len(t) /\ Len(t) \in Nat
  BY DEF Tokens
<1>2. FoldLeft(Lex, u, t) = After(u, t)
  BY <1>1, FoldIsReading, Zenon DEF After, ReadTo
<1>3. Len(t) \in 0..Len(t)
  BY <1>1
<1> QED
  BY <1>2, <1>3, ReadStep, Zenon DEF After, ReadsOn

\* A reader who reaches a text that stands in another reads it as if alone.
LEMMA ReadStands ==
  ASSUME NEW u \in Tokens, NEW t \in Tokens, NEW w \in Tokens, NEW a \in Nat, Stands(w, a, t)
  PROVE  /\ ReadTo(u, t, a) \in Tokens
         /\ ReadTo(u, t, a + Len(w)) = After(ReadTo(u, t, a), w)
<1> DEFINE v == ReadTo(u, t, a)
           n == Len(w)
           P(k) == ReadTo(u, t, a + k)
           Q(k) == ReadTo(v, w, k)
           Bad == {k \in Nat : k <= n /\ P(k) # Q(k)}
<1>1. n \in Nat /\ Len(t) \in Nat
  BY DEF Tokens
<1>2. a + n <= Len(t) /\ \A j \in 1..n : t[a + j] = w[j]
  BY Zenon DEF Stands
<1> HIDE DEF n
<1>3. a \in 0..Len(t) /\ \A k \in 1..n : a + k \in 1..Len(t) /\ (a + k) - 1 = a + (k - 1)
  BY <1>1, <1>2
<1>4. v \in Tokens
  BY <1>3, ReadStep, Zenon DEF ReadsOn
<1>5. \A k \in 1..n : P(k) = Lex(P(k - 1), w[k])
  <2>1. ReadsOn(u, t)
    BY ReadStep
  <2>2. \A m \in 1..Len(t) : ReadTo(u, t, m) = Lex(ReadTo(u, t, m - 1), t[m])
    BY <2>1, Zenon DEF ReadsOn
  <2> SUFFICES ASSUME NEW k \in 1..n PROVE P(k) = Lex(P(k - 1), w[k])
    OBVIOUS
  <2>3. P(k) = Lex(ReadTo(u, t, (a + k) - 1), t[a + k])
    BY <1>3, <2>2, Zenon
  <2> QED
    BY <1>2, <1>3, <2>3, Zenon
<1> HIDE DEF v
<1>6. Q(0) = v /\ \A k \in 1..n : Q(k) = Lex(Q(k - 1), w[k])
  <2>1. ReadsOn(v, w)
    BY <1>4, ReadStep
  <2> QED
    BY <2>1, Zenon DEF ReadsOn, n
<1>7. P(0) = v
  <2>1. a + 0 = a
    OBVIOUS
  <2> QED
    BY <2>1, Zenon DEF v
<1> HIDE DEF P, Q
<1>8. Bad = {}
  <2> SUFFICES ASSUME Bad # {} PROVE FALSE
    OBVIOUS
  <2>1. PICK k \in Bad : \A j \in Bad : k <= j
    <3>1. Bad \subseteq Nat
      OBVIOUS
    <3> HIDE DEF Bad
    <3> QED
      BY <3>1, LeastNat
  <2>2. k \in Nat /\ k <= n /\ P(k) # Q(k)
    OBVIOUS
  <2>3. k # 0
    BY <1>6, <1>7, <2>2, Zenon
  <2>4. k \in 1..n /\ k - 1 \in Nat /\ k - 1 <= n /\ ~(k <= k - 1)
    BY <1>1, <2>2, <2>3
  <2>5. P(k - 1) = Q(k - 1)
    BY <2>1, <2>4
  <2> QED
    BY <1>5, <1>6, <2>2, <2>4, <2>5, Zenon
<1>9. n \in Nat /\ n <= n
  BY <1>1
<1>10. P(n) = Q(n)
  BY <1>8, <1>9, Zenon
<1> QED
  BY <1>4, <1>10, Zenon DEF P, Q, After, n, v

LEMMA Neighbours ==
  ASSUME NEW X, NEW u \in Seq(X), NEW v \in Seq(X)
  PROVE  Stands(u, 0, u \o v) /\ Stands(v, Len(u), u \o v)
<1> DEFINE w == u \o v
<1>1. /\ Len(w) = Len(u) + Len(v)
      /\ \A n \in 1..Len(u) : w[n] = u[n]
      /\ \A n \in 1..Len(v) : w[Len(u) + n] = v[n]
  BY Concatenated
<1>2. Len(u) \in Nat /\ Len(v) \in Nat
  OBVIOUS
<1> HIDE DEF w
<1>3. 0 + Len(u) <= Len(w) /\ Len(u) + Len(v) <= Len(w) /\ \A n \in 1..Len(u) : 0 + n = n
  BY <1>1, <1>2
<1> QED
  BY <1>1, <1>3 DEF Stands, w

LEMMA NothingJoined ==
  ASSUME NEW X, NEW u \in Seq(X) PROVE u \o <<>> = u /\ <<>> \o u = u
OBVIOUS

LEMMA SomethingJoined ==
  ASSUME NEW X, NEW u \in Seq(X), NEW v \in Seq(X), v # <<>>
  PROVE  u \o v # <<>> /\ Last(u \o v) = Last(v)
<1>1. Len(v) \in 1..Len(v) /\ Len(u) \in Nat /\ Len(v) \in Nat
  OBVIOUS
<1>2. Len(u \o v) = Len(u) + Len(v) /\ (u \o v)[Len(u) + Len(v)] = v[Len(v)]
  BY <1>1, Concatenated
<1>3. u \o v # <<>>
  BY <1>1, <1>2
<1> QED
  BY <1>2, <1>3, Zenon DEF Last

LEMMA LastAppended ==
  ASSUME NEW X, NEW u \in Seq(X), NEW x \in X
  PROVE  Append(u, x) # <<>> /\ Last(Append(u, x)) = x
<1>1. Len(u) \in Nat /\ Len(Append(u, x)) = Len(u) + 1 /\ Append(u, x)[Len(u) + 1] = x
  OBVIOUS
<1>2. Last(Append(u, x)) = x
  BY <1>1, Zenon DEF Last
<1>3. Append(u, x) # <<>>
  BY <1>1
<1> QED
  BY <1>2, <1>3

LEMMA AppendJoined ==
  ASSUME NEW X, NEW u \in Seq(X), NEW v \in Seq(X), NEW x \in X
  PROVE  Append(u \o v, x) = u \o Append(v, x)
OBVIOUS

LEMMA TokensJoin == \A u, v \in Tokens : u \o v \in Tokens /\ Len(u) \in Nat
BY Concatenated DEF Tokens

LEMMA AfterJoined ==
  ASSUME NEW u \in Tokens, NEW s \in Tokens, NEW t \in Tokens
  PROVE  After(u, s \o t) = After(After(u, s), t)
<1> DEFINE w == s \o t
           a == Len(s)
           b == Len(t)
<1>1. w \in Tokens /\ a \in Nat /\ Stands(s, 0, w) /\ Stands(t, a, w)
  BY TokensJoin, Neighbours DEF Tokens
<1>2. Len(w) = a + b
  BY Concatenated DEF Tokens
<1> HIDE DEF w
<1>3. ReadTo(u, w, 0 + a) = After(ReadTo(u, w, 0), s)
  <2>1. 0 \in Nat
    OBVIOUS
  <2> QED
    BY <1>1, <2>1, ReadStands
<1>4. ReadTo(u, w, 0) = u
  BY <1>1, ReadStep, Zenon DEF ReadsOn
<1>5. 0 + a = a
  BY <1>1
<1>6. ReadTo(u, w, a) = After(u, s)
  BY <1>3, <1>4, <1>5, Zenon
<1> HIDE DEF a
<1>7. ReadTo(u, w, a + b) = After(ReadTo(u, w, a), t)
  BY <1>1, ReadStands
<1>8. After(u, w) = After(After(u, s), t)
  BY <1>2, <1>6, <1>7, Zenon DEF After
<1> QED
  BY <1>8 DEF w

LEMMA AfterNone == ASSUME NEW u \in Tokens PROVE After(u, <<>>) = u /\ <<>> \in Tokens
<1>1. <<>> \in Tokens /\ Len(<<>>) = 0
  BY DEF Tokens
<1>2. ReadTo(u, <<>>, 0) = u
  BY <1>1, ReadStep, Zenon DEF ReadsOn
<1> QED
  BY <1>1, <1>2, Zenon DEF After

LEMMA AfterOne ==
  ASSUME NEW u \in Tokens, NEW w \in Lexemes PROVE After(u, <<w>>) = Lex(u, w) /\ <<w>> \in Tokens
<1> DEFINE t == <<w>>
<1>1. t \in Tokens /\ Len(t) = 1 /\ t[1] = w
  BY Single DEF Tokens
<1> HIDE DEF t
<1>2. ReadsOn(u, t)
  BY <1>1, ReadStep
<1>3. 1 \in 1..Len(t) /\ 1 - 1 = 0
  BY <1>1
<1>4. ReadTo(u, t, 1) = Lex(ReadTo(u, t, 1 - 1), t[1])
  BY <1>2, <1>3, Zenon DEF ReadsOn
<1>5. ReadTo(u, t, 0) = u
  BY <1>2, Zenon DEF ReadsOn
<1>6. After(u, t) = Lex(u, w)
  BY <1>1, <1>3, <1>4, <1>5, Zenon DEF After
<1> QED
  BY <1>1, <1>6 DEF t

LEMMA LexWhite ==
  ASSUME NEW u
  PROVE  /\ Lex(u, Blank) = u /\ Lex(u, Comment) = u
         /\ Lex(u, NL) = IF Ends(u) THEN Append(u, ";") ELSE u
<1>1. NL \notin {Blank, Comment}
  BY DEF NL, Blank, Comment
<1> QED
  BY <1>1 DEF Lex

\* Behind a line break, another one says nothing.
LEMMA LineEnded == ASSUME NEW u \in Tokens PROVE ~Ends(Lex(u, NL))
<1>1. CASE Ends(u)
  <2>1. Lex(u, NL) = Append(u, ";")
    BY <1>1, LexWhite
  <2>2. Last(Append(u, ";")) = ";"
    <3>1. ";" \in Lexemes
      BY DEF Lexemes
    <3> QED
      BY <3>1, LastAppended DEF Tokens
  <2>3. ";" \notin Ending
    BY TextAssumption DEF TextAssumption
  <2> QED
    BY <2>1, <2>2, <2>3 DEF Ends
<1>2. CASE ~Ends(u)
  BY <1>2, LexWhite
<1> QED
  BY <1>1, <1>2

\* Blanks and line breaks.
Gaps == Seq({Blank, NL})

LEMMA GapTokens == Gaps \subseteq Tokens
<1>1. {Blank, NL} \subseteq Lexemes
  BY DEF Lexemes
<1> QED
  BY <1>1 DEF Gaps, Tokens

LEMMA GapReads ==
  ASSUME NEW u \in Tokens, NEW t \in Gaps
  PROVE  /\ After(u, t) \in {u, Lex(u, NL)}
         /\ NL \notin ToSet(t) => After(u, t) = u
<1> DEFINE n == Len(t)
           P(k) == ReadTo(u, t, k)
           Right(v) == v \in {u, Lex(u, NL)} /\ (NL \notin ToSet(t) => v = u)
           Bad == {k \in Nat : k <= n /\ ~Right(P(k))}
<1>1. n \in Nat /\ t \in Tokens /\ \A k \in 1..n : t[k] \in {Blank, NL} /\ t[k] \in ToSet(t)
  BY GapTokens DEF Gaps, ToSet
<1>2. P(0) = u /\ \A k \in 1..n : P(k) = Lex(P(k - 1), t[k])
  BY <1>1, ReadStep, Zenon DEF ReadsOn
<1>3. Lex(Lex(u, NL), NL) = Lex(u, NL)
  BY LineEnded, LexWhite
<1>4. \A v : Lex(v, Blank) = v
  BY LexWhite
<1> HIDE DEF P, n
<1>5. Bad = {}
  <2> SUFFICES ASSUME Bad # {} PROVE FALSE
    OBVIOUS
  <2>1. PICK k \in Bad : \A j \in Bad : k <= j
    <3>1. Bad \subseteq Nat
      OBVIOUS
    <3> HIDE DEF Bad
    <3> QED
      BY <3>1, LeastNat
  <2>2. k \in Nat /\ k <= n /\ ~Right(P(k))
    OBVIOUS
  <2>3. k # 0
    BY <1>2, <2>2
  <2>4. k \in 1..n /\ k - 1 \in Nat /\ k - 1 <= n /\ ~(k <= k - 1)
    BY <1>1, <2>2, <2>3
  <2>5. Right(P(k - 1))
    BY <2>1, <2>4
  <2>6. P(k) = Lex(P(k - 1), t[k]) /\ t[k] \in {Blank, NL} /\ t[k] \in ToSet(t)
    BY <1>1, <1>2, <2>4
  <2>7. CASE t[k] = Blank
    <3>1. P(k) = P(k - 1)
      BY <1>4, <2>6, <2>7
    <3> QED
      BY <2>2, <2>5, <3>1
  <2>8. CASE t[k] = NL
    BY <1>3, <2>2, <2>5, <2>6, <2>8
  <2> QED
    BY <2>6, <2>7, <2>8
<1>6. n \in Nat /\ n <= n
  BY <1>1
<1>7. Right(P(n))
  BY <1>5, <1>6
<1> QED
  BY <1>7, Zenon DEF After, P, n

\* A line break behind a gap ends the line as one before it does.
LEMMA GapEnds ==
  ASSUME NEW u \in Tokens, NEW t \in Gaps
  PROVE  Lex(After(u, t), NL) = Lex(u, NL) /\ (~Ends(u) => After(u, t) = u)
<1>1. After(u, t) \in {u, Lex(u, NL)}
  BY GapReads
<1>2. Lex(Lex(u, NL), NL) = Lex(u, NL) /\ (~Ends(u) => Lex(u, NL) = u)
  BY LineEnded, LexWhite
<1> QED
  BY <1>1, <1>2

LEMMA LexFurther ==
  ASSUME NEW u \in Tokens, ~Ends(u), NEW v \in Tokens, NEW w \in Lexemes
  PROVE  Lex(u \o v, w) = u \o Lex(v, w)
<1> DEFINE X == Lexemes
<1>1. u \in Seq(X) /\ v \in Seq(X) /\ w \in X /\ ";" \in X
  BY DEF Tokens, Lexemes
<1>2. Ends(u \o v) = Ends(v)
  <2>1. CASE v = <<>>
    <3>1. u \o v = u
      BY <2>1, NothingJoined DEF Tokens
    <3> QED
      BY <2>1, <3>1 DEF Ends
  <2>2. CASE v # <<>>
    <3>1. u \o v # <<>> /\ Last(u \o v) = Last(v)
      BY <2>2, SomethingJoined DEF Tokens
    <3> QED
      BY <2>2, <3>1, Zenon DEF Ends
  <2> QED
    BY <2>1, <2>2
<1>3. \A x \in X : Append(u \o v, x) = u \o Append(v, x)
  BY AppendJoined, SMTT(20) DEF Tokens
<1>4. CASE w \in {Blank, Comment}
  BY <1>4, LexWhite
<1>5. CASE w = NL
  BY <1>1, <1>2, <1>3, <1>5, LexWhite
<1>6. CASE w \notin {Blank, Comment, NL}
  <2>1. \A x : Lex(x, w) = Append(x, w)
    BY <1>6 DEF Lex
  <2> QED
    BY <1>1, <1>3, <2>1
<1> QED
  BY <1>4, <1>5, <1>6

\* What stood before the line does not change how the line is read.
LEMMA AfterQuiet ==
  ASSUME NEW u \in Tokens, ~Ends(u), NEW t \in Tokens
  PROVE  After(u, t) = u \o After(<<>>, t)
<1> DEFINE n == Len(t)
           P(k) == ReadTo(u, t, k)
           Q(k) == ReadTo(<<>>, t, k)
           Bad == {k \in Nat : k <= n /\ P(k) # u \o Q(k)}
<1>0. <<>> \in Tokens /\ u \o <<>> = u
  BY DEF Tokens
<1>1. n \in Nat /\ \A k \in 1..n : t[k] \in Lexemes
  BY DEF Tokens
<1>2. P(0) = u /\ \A k \in 1..n : P(k) = Lex(P(k - 1), t[k])
  BY ReadStep, Zenon DEF ReadsOn
<1>3. /\ Q(0) = <<>> /\ \A k \in 1..n : Q(k) = Lex(Q(k - 1), t[k])
      /\ \A k \in 0..n : Q(k) \in Tokens
  BY <1>0, ReadStep, Zenon DEF ReadsOn
<1> HIDE DEF P, Q, n
<1>5. Bad = {}
  <2> SUFFICES ASSUME Bad # {} PROVE FALSE
    OBVIOUS
  <2>1. PICK k \in Bad : \A j \in Bad : k <= j
    <3>1. Bad \subseteq Nat
      OBVIOUS
    <3> HIDE DEF Bad
    <3> QED
      BY <3>1, LeastNat
  <2>2. k \in Nat /\ k <= n /\ P(k) # u \o Q(k)
    OBVIOUS
  <2>3. k # 0
    BY <1>0, <1>2, <1>3, <2>2
  <2>4. k \in 1..n /\ k - 1 \in Nat /\ k - 1 <= n /\ ~(k <= k - 1) /\ k - 1 \in 0..n
    BY <1>1, <2>2, <2>3
  <2>5. P(k - 1) = u \o Q(k - 1)
    BY <2>1, <2>4
  <2>6. Lex(u \o Q(k - 1), t[k]) = u \o Lex(Q(k - 1), t[k])
    BY <1>1, <1>3, <2>4, LexFurther
  <2> QED
    BY <1>2, <1>3, <2>2, <2>4, <2>5, <2>6, Zenon
<1>6. n \in Nat /\ n <= n
  BY <1>1
<1>7. P(n) = u \o Q(n)
  BY <1>5, <1>6, Zenon
<1> QED
  BY <1>7, Zenon DEF After, P, Q, n

------------------------------------------------------------------------------
(* Rewriter: where the parts of a statement stand.                         *)

LEMMA SplitStands ==
  ASSUME NEW u \in Text, NEW w \in Text, NEW t \in Text, NEW a \in Nat, Stands(u \o w, a, t)
  PROVE  Stands(u, a, t) /\ Stands(w, a + Len(u), t) /\ a + Len(u) \in Nat
<1> DEFINE v == u \o w
<1>1. v \in Text /\ Len(u) \in Nat /\ Len(w) \in Nat
  BY Joins, TextLen
<1>2. Stands(u, 0, v) /\ Stands(w, Len(u), v)
  BY StandsBefore, StandsAfter
<1>3. Stands(v, a, t)
  OBVIOUS
<1> HIDE DEF v
<1>4. Stands(u, a + 0, t) /\ a + 0 = a
  <2>1. 0 \in Nat
    OBVIOUS
  <2> QED
    BY <1>1, <1>2, <1>3, <2>1, StandsWithin
<1>5. Stands(w, a + Len(u), t)
  BY <1>1, <1>2, <1>3, StandsWithin
<1>6. a + Len(u) \in Nat
  BY <1>1
<1> QED
  BY <1>4, <1>5, <1>6

\* Before statement i; before and behind the expression with its innermost k calls.
LineOf(f, i)     == Len(Before(f, i))
StartOf(f, i, k) == LineOf(f, i) + Len(f.stmts[i].head) + Len(Opened(f.stmts[i], k))
EndOf(f, i, k)   == StartOf(f, i, k) + Len(ExprText(f.stmts[i], k))

\* Statement i, its parts and the numbers of its calls.
StmtKnown(f, i) ==
  LET s == f.stmts[i]
  IN  /\ TypedStmt(s) /\ s.head \in Text /\ s.tail \in Text /\ <<NL>> \in Text /\ FileText(f) \in Text
      /\ Len(s.calls) \in Nat
      /\ \A k \in 0..Len(s.calls) :
           /\ ExprText(s, k) \in Text /\ Opened(s, k) \in Text
           /\ StartOf(f, i, k) \in Nat /\ EndOf(f, i, k) \in Nat /\ StartOf(f, i, k) <= EndOf(f, i, k)
      /\ LineOf(f, i) \in Nat

LEMMA StmtKnows == ASSUME NEW f \in Files, NEW i \in 1..Len(f.stmts) PROVE StmtKnown(f, i)
<1> DEFINE s == f.stmts[i]
<1>1. TypedStmt(s) /\ FileText(f) \in Text /\ <<NL>> \in Text
  BY FilesTyped, FileTexts, TextAssumption, OneWord DEF TextAssumption
<1>2. s.head \in Text /\ s.tail \in Text /\ Len(s.calls) \in Nat
  BY <1>1, StmtCalls
<1>3. LineOf(f, i) \in Nat
  <2>1. Len(f.stmts) \in Nat
    BY FilesTyped
  <2>2. i \in 1..(Len(f.stmts) + 1)
    BY <2>1
  <2> QED
    BY <2>2, BeforeTexts, TextLen DEF LineOf
<1>4. ASSUME NEW k \in 0..Len(s.calls)
      PROVE  /\ ExprText(s, k) \in Text /\ Opened(s, k) \in Text
             /\ StartOf(f, i, k) \in Nat /\ EndOf(f, i, k) \in Nat /\ StartOf(f, i, k) <= EndOf(f, i, k)
  <2> DEFINE a == LineOf(f, i)
             b == Len(s.head)
             c == Len(Opened(s, k))
             d == Len(ExprText(s, k))
  <2>1. ExprText(s, k) \in Text /\ Opened(s, k) \in Text
    BY <1>1, ExprTexts, OpenedTexts
  <2>2. a \in Nat /\ b \in Nat /\ c \in Nat /\ d \in Nat
    BY <1>2, <1>3, <2>1, TextLen
  <2>3. StartOf(f, i, k) = a + b + c /\ EndOf(f, i, k) = a + b + c + d
    BY Zenon DEF StartOf, EndOf
  <2> HIDE DEF a, b, c, d
  <2>4. StartOf(f, i, k) \in Nat /\ EndOf(f, i, k) \in Nat /\ StartOf(f, i, k) <= EndOf(f, i, k)
    BY <2>2, <2>3
  <2> QED
    BY <2>1, <2>4
<1> HIDE DEF s
<1>5. s = f.stmts[i]
  BY DEF s
<1> QED
  BY <1>1, <1>2, <1>3, <1>4, <1>5, Zenon DEF StmtKnown

\* Head, expression, tail and the end of the line.
PartsStand(f, i) ==
  LET s == f.stmts[i]
      K == Len(s.calls)
      t == FileText(f)
  IN  /\ Stands(s.head, LineOf(f, i), t) /\ StartOf(f, i, K) = LineOf(f, i) + Len(s.head)
      /\ Stands(ExprText(s, K), StartOf(f, i, K), t)
      /\ Stands(s.tail, EndOf(f, i, K), t)
      /\ EndOf(f, i, K) + Len(s.tail) \in Nat
      /\ Stands(<<NL>>, EndOf(f, i, K) + Len(s.tail), t)
      /\ LineOf(f, i + 1) = EndOf(f, i, K) + Len(s.tail) + 1

LEMMA PartsKnown == ASSUME NEW f \in Files, NEW i \in 1..Len(f.stmts) PROVE PartsStand(f, i)
<1> DEFINE s == f.stmts[i]
           K == Len(s.calls)
           T == FileText(f)
           h == s.head
           X == ExprText(s, K)
           y == s.tail
           n == <<NL>>
           g == h \o X
           t == g \o y
           S == StmtText(s)
           a == LineOf(f, i)
           o == Opened(s, K)
<1>1. StmtKnown(f, i)
  BY StmtKnows
<1>2. /\ h \in Text /\ y \in Text /\ n \in Text /\ T \in Text /\ a \in Nat /\ K \in Nat /\ TypedStmt(s)
      /\ \A k \in 0..K : ExprText(s, k) \in Text
  BY <1>1, Zenon DEF StmtKnown
<1>3. K \in 0..K
  BY <1>2
<1>4. X \in Text
  BY <1>2, <1>3, Zenon
<1>5. o = <<>>
  BY <1>2, <1>3, OpenedNext
<1>6. S = t \o n /\ Stands(S, a, T)
  <2>1. S = t \o n
    BY Zenon DEF StmtText
  <2> QED
    BY <2>1, StmtStands, Zenon DEF LineOf
<1>7. StartOf(f, i, K) = a + Len(h) + Len(o) /\ EndOf(f, i, K) = StartOf(f, i, K) + Len(X)
  BY Zenon DEF StartOf, EndOf
<1>8. LineOf(f, i + 1) = a + Len(S) /\ S \in Text
  <2> DEFINE B == Before(f, i)
  <2>1. Before(f, i + 1) = B \o S
    BY BeforeNext
  <2>2. B \in Text
    <3>1. Len(f.stmts) \in Nat
      BY FilesTyped
    <3>2. i \in 1..(Len(f.stmts) + 1)
      BY <3>1
    <3> QED
      BY <3>2, BeforeTexts
  <2>3. S \in Text
    BY <1>2, StmtTexts
  <2> HIDE DEF S, B
  <2>4. Len(B \o S) = Len(B) + Len(S)
    BY <2>2, <2>3, Joins
  <2> QED
    BY <2>1, <2>3, <2>4 DEF LineOf, B
<1>9. Len(o) = 0 /\ Len(n) = 1
  BY <1>5
<1>10. g \in Text /\ t \in Text
  BY <1>2, <1>4, Joins
<1>11. Len(g) = Len(h) + Len(X) /\ Len(t) = Len(g) + Len(y) /\ Len(S) = Len(t) + Len(n)
  <2>1. Len(g) = Len(h) + Len(X)
    BY <1>2, <1>4, Joins
  <2> HIDE DEF g
  <2>2. Len(t) = Len(g) + Len(y)
    BY <1>2, <1>10, Joins
  <2> HIDE DEF t
  <2>3. Len(S) = Len(t) + Len(n)
    BY <1>2, <1>6, <1>10, Joins
  <2> QED
    BY <2>1, <2>2, <2>3
<1> HIDE DEF S, T, h, X, y, n, a, o, K, s
<1> DEFINE lh == Len(h)
           lx == Len(X)
           ly == Len(y)
<1>12. lh \in Nat /\ lx \in Nat /\ ly \in Nat
  BY <1>2, <1>4, TextLen
<1>13. Stands(t, a, T) /\ Stands(n, a + Len(t), T)
  <2> HIDE DEF t
  <2>1. Stands(t \o n, a, T)
    BY <1>6
  <2> QED
    BY <1>2, <1>10, <2>1, SplitStands
<1>14. Stands(g, a, T) /\ Stands(y, a + Len(g), T)
  <2> HIDE DEF g
  <2>1. Stands(g \o y, a, T)
    BY <1>13
  <2> QED
    BY <1>2, <1>10, <2>1, SplitStands
<1>15. Stands(h, a, T) /\ Stands(X, a + lh, T)
  BY <1>2, <1>4, <1>14, SplitStands
<1> HIDE DEF g, t
<1>16. Len(g) = lh + lx /\ Len(t) = lh + lx + ly /\ Len(S) = lh + lx + ly + 1
  BY <1>9, <1>11, <1>12
<1> HIDE DEF lh, lx, ly
<1>17. /\ StartOf(f, i, K) = a + lh
       /\ EndOf(f, i, K) = a + Len(g) /\ EndOf(f, i, K) + ly = a + Len(t) /\ a + Len(t) \in Nat
       /\ LineOf(f, i + 1) = EndOf(f, i, K) + ly + 1
  <2>1. StartOf(f, i, K) = a + lh + 0 /\ EndOf(f, i, K) = StartOf(f, i, K) + lx
    BY <1>7, <1>9 DEF lh, lx
  <2>2. LineOf(f, i + 1) = a + (lh + lx + ly + 1)
    BY <1>8, <1>16
  <2> QED
    BY <1>2, <1>12, <1>16, <2>1, <2>2
<1>18. /\ Stands(h, a, T) /\ StartOf(f, i, K) = a + Len(h) /\ Stands(X, StartOf(f, i, K), T)
       /\ Stands(y, EndOf(f, i, K), T) /\ EndOf(f, i, K) + Len(y) \in Nat
       /\ Stands(n, EndOf(f, i, K) + Len(y), T)
       /\ LineOf(f, i + 1) = EndOf(f, i, K) + Len(y) + 1
  BY <1>13, <1>14, <1>15, <1>17 DEF lh, ly
<1> QED
  BY <1>18, Zenon DEF PartsStand, S, T, h, X, y, n, a, o, K, s

\* Level k of an expression: its call's words, its argument and what follows.
LevelStands(f, i, k) ==
  LET c == f.stmts[i].calls[k]
      t == FileText(f)
  IN  /\ TypedCall(c) /\ Open(c) \in Text /\ Close(c) \in Text /\ c.post \in Text
      /\ Stands(Open(c), StartOf(f, i, k), t) /\ StartOf(f, i, k - 1) = StartOf(f, i, k) + Len(Open(c))
      /\ Stands(ExprText(f.stmts[i], k - 1), StartOf(f, i, k - 1), t)
      /\ Stands(Close(c), EndOf(f, i, k - 1), t)
      /\ Stands(c.post, EndOf(f, i, k - 1) + Len(Close(c)), t)
      /\ EndOf(f, i, k) = EndOf(f, i, k - 1) + Len(Close(c)) + Len(c.post)

LEMMA LevelKnown ==
  ASSUME NEW f \in Files, NEW i \in 1..Len(f.stmts), NEW k \in 1..Len(f.stmts[i].calls)
  PROVE  LevelStands(f, i, k)
<1> DEFINE s == f.stmts[i]
           K == Len(s.calls)
           c == s.calls[k]
           T == FileText(f)
           X == ExprText(s, K)
           Y == ExprText(s, k)
           e == ExprText(s, k - 1)
           a == Open(c)
           b == Close(c)
           d == c.post
           p == a \o e
           r == p \o b
           O == Opened(s, k)
           Q == Opened(s, k - 1)
<1>1. StmtKnown(f, i) /\ PartsStand(f, i)
  BY StmtKnows, PartsKnown
<1>2. /\ TypedStmt(s) /\ T \in Text /\ K \in Nat
      /\ \A l \in 0..K : /\ ExprText(s, l) \in Text /\ Opened(s, l) \in Text
                         /\ StartOf(f, i, l) \in Nat /\ EndOf(f, i, l) \in Nat
  BY <1>1, Zenon DEF StmtKnown
<1>3. k \in 0..K /\ k - 1 \in 0..K /\ K \in 0..K /\ k - 1 # K /\ (k - 1) + 1 = k /\ k \in 1..K
  <2>1. k \in 1..K
    OBVIOUS
  <2> HIDE DEF K
  <2> QED
    BY <1>2, <2>1
<1>4. TypedCall(c) /\ a \in Text /\ b \in Text /\ d \in Text
  <2>1. TypedCall(c)
    BY <1>2, StmtCalls
  <2> QED
    BY <2>1, CallTexts DEF TypedCall
<1>5. X \in Text /\ Y \in Text /\ e \in Text /\ O \in Text /\ Q \in Text
  <2> HIDE DEF K, s
  <2> QED
    BY <1>2, <1>3
<1>6. Y = r \o d
  BY <1>2, ExprTexts
<1>7. Q = O \o a
  <2>1. /\ (k - 1) # Len(s.calls) => Opened(s, k - 1) = Opened(s, (k - 1) + 1) \o Open(s.calls[(k - 1) + 1])
    BY <1>2, <1>3, OpenedNext
  <2> QED
    BY <1>3, <2>1, Zenon
<1>8. Stands(Y, Len(O), X)
  BY <1>2, ExprStands
<1>9. Stands(X, StartOf(f, i, K), T) /\ StartOf(f, i, K) = LineOf(f, i) + Len(s.head)
  BY <1>1, Zenon DEF PartsStand
<1>10. StartOf(f, i, K) \in Nat
  BY <1>2, <1>3, Zenon
<1>11. /\ StartOf(f, i, k) = LineOf(f, i) + Len(s.head) + Len(O)
       /\ StartOf(f, i, k - 1) = LineOf(f, i) + Len(s.head) + Len(Q)
       /\ EndOf(f, i, k) = StartOf(f, i, k) + Len(Y)
       /\ EndOf(f, i, k - 1) = StartOf(f, i, k - 1) + Len(e)
  BY Zenon DEF StartOf, EndOf
<1>12. LineOf(f, i) \in Nat /\ Len(s.head) \in Nat
  <2>1. LineOf(f, i) \in Nat /\ s.head \in Text
    BY <1>1, Zenon DEF StmtKnown
  <2> QED
    BY <2>1, TextLen
<1> HIDE DEF X, Y, e, a, b, d, O, Q, T, c
<1> DEFINE hd == Len(s.head)
           z == LineOf(f, i)
           lo == Len(O)
           la == Len(a)
           le == Len(e)
           lb == Len(b)
           ld == Len(d)
           st == StartOf(f, i, K)
<1>13. z \in Nat /\ hd \in Nat /\ lo \in Nat /\ la \in Nat /\ le \in Nat /\ lb \in Nat /\ ld \in Nat
  BY <1>4, <1>5, <1>12, TextLen
<1>14. Len(Q) = lo + la
  BY <1>4, <1>5, <1>7, Joins
<1>15. p \in Text /\ r \in Text
  BY <1>4, <1>5, Joins
<1>16. Len(Y) = la + le + lb + ld
  <2>1. Len(p) = la + le
    BY <1>4, <1>5, Joins
  <2> HIDE DEF p
  <2>2. Len(r) = Len(p) + lb
    BY <1>4, <1>15, Joins
  <2> HIDE DEF r
  <2>3. Len(Y) = Len(r) + ld
    BY <1>4, <1>6, <1>15, Joins
  <2> QED
    BY <2>1, <2>2, <2>3
<1>17. Stands(Y, st + lo, T) /\ st + lo \in Nat
  <2>1. st \in Nat /\ Stands(X, st, T)
    BY <1>9, <1>10
  <2> HIDE DEF st
  <2>2. Stands(Y, lo, X) /\ lo \in Nat
    BY <1>8, <1>13
  <2> HIDE DEF lo
  <2>3. Stands(Y, st + lo, T)
    BY <1>2, <1>5, <2>1, <2>2, StandsWithin
  <2> QED
    BY <2>1, <2>2, <2>3
<1> DEFINE at == st + lo
<1>18. at \in Nat /\ Stands(r \o d, at, T)
  BY <1>6, <1>17
<1>19. at = z + hd + lo
  <2> HIDE DEF z, hd, lo
  <2> QED
    BY <1>9 DEF z, hd
<1>20. T \in Text
  BY <1>2
<1> HIDE DEF at
<1>21. Stands(r, at, T) /\ Stands(d, at + Len(r), T)
  <2> HIDE DEF r
  <2> QED
    BY <1>4, <1>15, <1>18, <1>20, SplitStands
<1>22. Stands(p, at, T) /\ Stands(b, at + Len(p), T)
  <2> HIDE DEF p
  <2> QED
    BY <1>4, <1>15, <1>18, <1>20, <1>21, SplitStands
<1>23. Stands(a, at, T) /\ Stands(e, at + la, T)
  BY <1>4, <1>5, <1>18, <1>20, <1>22, SplitStands
<1>24. Len(p) = la + le /\ Len(r) = la + le + lb
  <2>1. Len(p) = la + le
    BY <1>4, <1>5, Joins
  <2> HIDE DEF p
  <2>2. Len(r) = Len(p) + lb
    BY <1>4, <1>15, Joins
  <2> QED
    BY <2>1, <2>2
<1> DEFINE S0 == StartOf(f, i, k - 1)
           S1 == StartOf(f, i, k)
           E0 == EndOf(f, i, k - 1)
           E1 == EndOf(f, i, k)
<1>25. S1 = z + hd + lo /\ S0 = z + hd + (lo + la) /\ E1 = S1 + (la + le + lb + ld) /\ E0 = S0 + le
  BY <1>11, <1>14, <1>16
<1> HIDE DEF S0, S1, E0, E1, z, hd, lo, la, le, lb, ld
<1>26. /\ S1 = at /\ S0 = S1 + la /\ E0 = at + Len(p) /\ E0 + lb = at + Len(r) /\ E1 = E0 + lb + ld
  <2> HIDE DEF p, r
  <2> QED
    BY <1>13, <1>18, <1>19, <1>24, <1>25
<1>27. /\ Stands(a, S1, T) /\ S0 = S1 + Len(a) /\ Stands(e, S0, T) /\ Stands(b, E0, T)
       /\ Stands(d, E0 + Len(b), T) /\ E1 = E0 + Len(b) + Len(d)
  <2>1. Stands(e, S0, T)
    BY <1>23, <1>26
  <2> HIDE DEF p, r
  <2> QED
    BY <1>21, <1>22, <1>23, <1>26, <2>1 DEF la, lb, ld
<1> QED
  BY <1>4, <1>27, Zenon DEF LevelStands, S0, S1, E0, E1, a, b, d, e, T, c

LEMMA AtomStands ==
  ASSUME NEW f \in Files, NEW i \in 1..Len(f.stmts)
  PROVE  Stands(<<f.stmts[i].atom>>, StartOf(f, i, 0), FileText(f)) /\ ExprText(f.stmts[i], 0) = <<f.stmts[i].atom>>
<1> DEFINE s == f.stmts[i]
           K == Len(s.calls)
<1>1. TypedStmt(s) /\ K \in Nat
  BY StmtKnows, Zenon DEF StmtKnown
<1>2. ExprText(s, 0) = <<s.atom>>
  <2>1. Wraps(Wrapped(s), s) /\ ExprText(s, 0) = Wrapped(s)[0]
    BY <1>1, WrappedDef, ExprIsWrapped
  <2> DEFINE g == Wrapped(s)
  <2>2. g = [j \in 0..K |-> IF j = 0 THEN <<s.atom>> ELSE Around(g[j - 1], s.calls[j])]
    BY <2>1, Zenon DEF Wraps
  <2> HIDE DEF g
  <2>3. 0 \in 0..K
    BY <1>1
  <2>4. g[0] = <<s.atom>>
    BY <2>2, <2>3
  <2> QED
    BY <2>1, <2>4 DEF g
<1>3. Stands(ExprText(s, 0), StartOf(f, i, 0), FileText(f))
  <2>1. CASE K = 0
    BY <2>1, PartsKnown, Zenon DEF PartsStand
  <2>2. CASE K # 0
    <3>1. 1 \in 1..K /\ 1 - 1 = 0
      BY <1>1, <2>2
    <3>2. LevelStands(f, i, 1)
      BY <3>1, LevelKnown
    <3> QED
      BY <3>1, <3>2, Zenon DEF LevelStands
  <2> QED
    BY <2>1, <2>2
<1> QED
  BY <1>2, <1>3

\* A call lies within the calls around it.
LEMMA Nested ==
  ASSUME NEW f \in Files, NEW i \in 1..Len(f.stmts),
         NEW k \in 0..Len(f.stmts[i].calls), NEW j \in 0..k
  PROVE  StartOf(f, i, k) <= StartOf(f, i, j) /\ EndOf(f, i, j) <= EndOf(f, i, k)
<1> DEFINE K == Len(f.stmts[i].calls)
           S(l) == StartOf(f, i, l)
           E(l) == EndOf(f, i, l)
           Bad == {l \in Nat : j <= l /\ l <= K /\ ~(S(l) <= S(j) /\ E(j) <= E(l))}
<1>1. K \in Nat /\ \A l \in 0..K : S(l) \in Nat /\ E(l) \in Nat
  BY StmtKnows, Zenon DEF StmtKnown
<1>2. ASSUME NEW l \in 1..K PROVE S(l) <= S(l - 1) /\ E(l - 1) <= E(l)
  <2> DEFINE c == f.stmts[i].calls[l]
             a == Len(Open(c))
             b == Len(Close(c))
             d == Len(c.post)
  <2>1. /\ Open(c) \in Text /\ Close(c) \in Text /\ c.post \in Text
        /\ S(l - 1) = S(l) + a /\ E(l) = E(l - 1) + b + d
    BY LevelKnown, Zenon DEF LevelStands
  <2>2. a \in Nat /\ b \in Nat /\ d \in Nat
    BY <2>1, TextLen
  <2>3. l \in 0..K /\ l - 1 \in 0..K
    <3> HIDE DEF K
    <3> QED
      BY <1>1
  <2>4. S(l) \in Nat /\ S(l - 1) \in Nat /\ E(l) \in Nat /\ E(l - 1) \in Nat
    BY <1>1, <2>3
  <2> HIDE DEF S, E, a, b, d
  <2> QED
    BY <2>1, <2>2, <2>4, SMTT(20)
<1>3. k \in 0..K /\ j \in 0..k
  OBVIOUS
<1> HIDE DEF K, S, E
<1>4. Bad = {}
  <2> SUFFICES ASSUME Bad # {} PROVE FALSE
    OBVIOUS
  <2>1. PICK l \in Bad : \A m \in Bad : l <= m
    <3>1. Bad \subseteq Nat
      OBVIOUS
    <3> HIDE DEF Bad
    <3> QED
      BY <3>1, LeastNat
  <2>2. l \in Nat /\ j <= l /\ l <= K /\ ~(S(l) <= S(j) /\ E(j) <= E(l))
    OBVIOUS
  <2>3. l # j
    <3>1. j \in 0..K
      BY <1>1, <1>3
    <3>2. S(j) \in Nat /\ E(j) \in Nat
      BY <1>1, <3>1
    <3>3. S(j) <= S(j) /\ E(j) <= E(j)
      BY <3>2
    <3> QED
      BY <2>2, <3>3
  <2>4. l \in 1..K /\ l - 1 \in Nat /\ j <= l - 1 /\ l - 1 <= K /\ ~(l <= l - 1) /\ l \in 0..K /\ l - 1 \in 0..K /\ j \in 0..K
    BY <1>1, <1>3, <2>2, <2>3
  <2>5. S(l - 1) <= S(j) /\ E(j) <= E(l - 1)
    BY <2>1, <2>4
  <2>6. S(l) <= S(l - 1) /\ E(l - 1) <= E(l)
    BY <1>2, <2>4
  <2>7. S(l) \in Nat /\ S(l - 1) \in Nat /\ E(l) \in Nat /\ E(l - 1) \in Nat /\ S(j) \in Nat /\ E(j) \in Nat
    BY <1>1, <2>4
  <2> QED
    BY <2>2, <2>5, <2>6, <2>7
<1>5. k \in Nat /\ j <= k /\ k <= K
  BY <1>1, <1>3
<1> QED
  BY <1>4, <1>5 DEF S, E

------------------------------------------------------------------------------
(* Rewriter: what an edit touches.                                         *)

Inside(f, i, k, n) == StartOf(f, i, k) < n /\ n <= EndOf(f, i, k)

LEMMA InsideMore ==
  ASSUME NEW f \in Files, NEW i \in 1..Len(f.stmts),
         NEW k \in 0..Len(f.stmts[i].calls), NEW j \in 0..k, NEW n \in Nat, Inside(f, i, j, n)
  PROVE  Inside(f, i, k, n)
<1> DEFINE K == Len(f.stmts[i].calls)
           S(l) == StartOf(f, i, l)
           E(l) == EndOf(f, i, l)
<1>1. K \in Nat /\ \A l \in 0..K : S(l) \in Nat /\ E(l) \in Nat
  BY StmtKnows, Zenon DEF StmtKnown
<1>2. k \in 0..K /\ j \in 0..k
  OBVIOUS
<1>3. S(k) <= S(j) /\ E(j) <= E(k)
  BY Nested
<1>4. S(j) < n /\ n <= E(j)
  BY DEF Inside
<1> HIDE DEF K, S, E
<1>5. j \in 0..K
  BY <1>1, <1>2
<1>6. S(k) \in Nat /\ E(k) \in Nat /\ S(j) \in Nat /\ E(j) \in Nat
  BY <1>1, <1>2, <1>5
<1>7. S(k) < n /\ n <= E(k)
  BY <1>3, <1>4, <1>6
<1> QED
  BY <1>7 DEF Inside, S, E

\* A call's edit in the places of its level.
EditPlaces(f, i, k) ==
  LET e == CallEdit(f, i, k)
  IN  /\ e.start = StartOf(f, i, k) + 1 /\ e.argStart = StartOf(f, i, k - 1) + 1
      /\ e.argEnd = EndOf(f, i, k - 1) + 1
      /\ e.end = EndOf(f, i, k - 1) + Len(Close(f.stmts[i].calls[k])) + 1

LEMMA EditKnown ==
  ASSUME NEW f \in Files, NEW i \in 1..Len(f.stmts), NEW k \in 1..Len(f.stmts[i].calls)
  PROVE  EditPlaces(f, i, k)
<1> DEFINE s == f.stmts[i]
           c == s.calls[k]
           e == CallEdit(f, i, k)
           x == ExprText(s, k - 1)
           K == Len(s.calls)
           S1 == StartOf(f, i, k)
           S0 == StartOf(f, i, k - 1)
           E0 == EndOf(f, i, k - 1)
           p == e.start
           q == e.argStart
           r == e.argEnd
           z == e.end
           a == Len(Open(c))
           b == Len(Close(c))
           d == Len(x)
<1>1. /\ p = CallStart(f, i, k) /\ q = CallStart(f, i, k) + a /\ r = q + d /\ z = r + b
  BY CallEdits
<1>2. CallStart(f, i, k) = S1 + 1
  BY Zenon DEF CallStart, StartOf, LineOf
<1>3. E0 = S0 + d
  BY Zenon DEF EndOf
<1>4. S0 = S1 + a /\ Open(c) \in Text /\ Close(c) \in Text
  BY LevelKnown, Zenon DEF LevelStands
<1>5. K \in Nat /\ \A l \in 0..K : ExprText(s, l) \in Text /\ StartOf(f, i, l) \in Nat
  BY StmtKnows, Zenon DEF StmtKnown
<1>6. k \in 0..K /\ k - 1 \in 0..K
  <2>1. k \in 1..K
    OBVIOUS
  <2> HIDE DEF K
  <2> QED
    BY <1>5, <2>1
<1>7. S1 \in Nat /\ S0 \in Nat /\ x \in Text
  BY <1>5, <1>6, Zenon
<1>8. a \in Nat /\ b \in Nat /\ d \in Nat
  BY <1>4, <1>7, TextLen
<1>9. p = S1 + 1 /\ q = (S1 + 1) + a /\ r = q + d /\ z = r + b /\ S0 = S1 + a /\ E0 = S0 + d
  BY <1>1, <1>2, <1>3, <1>4, Zenon
<1> HIDE DEF p, q, r, z, a, b, d, S1, S0, E0
<1>10. p = S1 + 1 /\ q = S0 + 1 /\ r = E0 + 1 /\ z = E0 + b + 1
  <2>1. q = S0 + 1
    BY <1>7, <1>8, <1>9
  <2>2. r = q + d /\ E0 = S0 + d /\ S0 \in Nat /\ d \in Nat
    BY <1>7, <1>8, <1>9
  <2>3. r = E0 + 1
    BY <2>1, <2>2
  <2>4. E0 \in Nat
    BY <2>2
  <2>5. z = r + b
    BY <1>9, Zenon
  <2>6. z = E0 + b + 1
    BY <1>8, <2>3, <2>4, <2>5
  <2> QED
    BY <1>9, <2>1, <2>3, <2>6
<1> QED
  BY <1>10, Zenon DEF EditPlaces, p, q, r, z, b, S1, S0, E0

\* It touches what is of its level, and no argument.
LEMMA EditLevel ==
  ASSUME NEW f \in Files, NEW i \in 1..Len(f.stmts), NEW k \in 1..Len(f.stmts[i].calls),
         NEW n \in Nat, Erases(CallEdit(f, i, k), n)
  PROVE  Inside(f, i, k, n) /\ ~Inside(f, i, k - 1, n)
<1> DEFINE s == f.stmts[i]
           c == s.calls[k]
           e == CallEdit(f, i, k)
           K == Len(s.calls)
           S1 == StartOf(f, i, k)
           S0 == StartOf(f, i, k - 1)
           E1 == EndOf(f, i, k)
           E0 == EndOf(f, i, k - 1)
           a == Len(Open(c))
           b == Len(Close(c))
           d == Len(c.post)
<1>1. e.start = S1 + 1 /\ e.argStart = S0 + 1 /\ e.argEnd = E0 + 1 /\ e.end = E0 + b + 1
  BY EditKnown, Zenon DEF EditPlaces
<1>2. n \in e.start..(e.argStart - 1) \/ n \in e.argEnd..(e.end - 1)
  BY DEF Erases
<1>3. /\ Open(c) \in Text /\ Close(c) \in Text /\ c.post \in Text /\ S0 = S1 + a /\ E1 = E0 + b + d
  BY LevelKnown, Zenon DEF LevelStands
<1>4. a \in Nat /\ b \in Nat /\ d \in Nat
  BY <1>3, TextLen
<1>5. K \in Nat /\ \A l \in 0..K : StartOf(f, i, l) \in Nat /\ EndOf(f, i, l) \in Nat /\ StartOf(f, i, l) <= EndOf(f, i, l)
  BY StmtKnows, Zenon DEF StmtKnown
<1>6. k \in 0..K /\ k - 1 \in 0..K
  <2>1. k \in 1..K
    OBVIOUS
  <2> HIDE DEF K
  <2> QED
    BY <1>5, <2>1
<1>7. S1 \in Nat /\ S0 \in Nat /\ E1 \in Nat /\ E0 \in Nat /\ S1 <= E1 /\ S0 <= E0
  BY <1>5, <1>6, Zenon
<1>8. n \in (S1 + 1)..((S0 + 1) - 1) \/ n \in (E0 + 1)..((E0 + b + 1) - 1)
  BY <1>1, <1>2, Zenon
<1> HIDE DEF a, b, d, S1, S0, E1, E0
<1>9. (S1 < n /\ n <= E1) /\ ~(S0 < n /\ n <= E0)
  BY <1>3, <1>4, <1>7, <1>8
<1> QED
  BY <1>9 DEF Inside, S1, S0, E1, E0

LEMMA WholeTouches ==
  ASSUME NEW f \in Files, NEW i \in 1..Len(f.stmts), IsWhole(f.stmts[i]), NEW n \in Nat
  PROVE  Erases(WholeEdit(f, i), n) <=> Inside(f, i, Len(f.stmts[i].calls), n)
<1> DEFINE s == f.stmts[i]
           K == Len(s.calls)
           c == s.calls[K]
           w == WholeEdit(f, i)
           e == CallEdit(f, i, K)
           b == Len(Close(c))
           S1 == StartOf(f, i, K)
           E1 == EndOf(f, i, K)
           E0 == EndOf(f, i, K - 1)
<1>1. s.calls # <<>> /\ Last(s.calls).post = <<>>
  BY Zenon DEF IsWhole
<1>2. TypedStmt(s) /\ K \in Nat /\ \A l \in 0..K : StartOf(f, i, l) \in Nat /\ EndOf(f, i, l) \in Nat
  BY StmtKnows, Zenon DEF StmtKnown
<1>3. K # 0
  <2>1. s.calls \in Seq(ToSet(s.calls))
    BY <1>2, Zenon DEF TypedStmt
  <2> HIDE DEF s
  <2> QED
    BY <1>1, <2>1
<1>4. K \in 1..K /\ K - 1 \in 0..K /\ K \in 0..K
  <2> HIDE DEF K
  <2> QED
    BY <1>2, <1>3
<1>5. c.post = <<>>
  BY <1>1, Zenon DEF Last
<1>6. e.start = S1 + 1 /\ e.end = E0 + b + 1
  BY <1>4, EditKnown, Zenon DEF EditPlaces
<1>7. E1 = E0 + b + Len(c.post) /\ Close(c) \in Text
  BY <1>4, LevelKnown, Zenon DEF LevelStands
<1>8. Len(c.post) = 0 /\ b \in Nat
  BY <1>5, <1>7, TextLen
<1>9. w = [e EXCEPT !.argStart = e.end, !.argEnd = e.end]
  BY Zenon DEF WholeEdit
<1>10. e \in Places
  BY <1>4, CallEdits
<1>11. w.start = e.start /\ w.argStart = e.end /\ w.argEnd = e.end /\ w.end = e.end
  <2> HIDE DEF e
  <2> QED
    BY <1>9, <1>10 DEF Places
<1>12. S1 \in Nat /\ E1 \in Nat /\ E0 \in Nat
  BY <1>2, <1>4, Zenon
<1>13. Erases(w, n) <=> n \in (S1 + 1)..((E0 + b + 1) - 1) \/ n \in (E0 + b + 1)..((E0 + b + 1) - 1)
  BY <1>6, <1>11, Zenon DEF Erases
<1> HIDE DEF b, S1, E1, E0, w
<1>14. Erases(w, n) <=> S1 < n /\ n <= E1
  BY <1>7, <1>8, <1>12, <1>13
<1> QED
  BY <1>14 DEF Inside, w, S1, E1

\* The edits of a statement touch its expression, and those of no other.
LEMMA EditInside ==
  ASSUME NEW f \in Files, NEW i \in 1..Len(f.stmts), NEW e \in EditsOf(f, i), NEW n \in Nat, Erases(e, n)
  PROVE  Inside(f, i, Len(f.stmts[i].calls), n)
<1> DEFINE s == f.stmts[i]
           K == Len(s.calls)
<1>1. CASE IsWhole(s)
  <2>1. e = WholeEdit(f, i)
    BY <1>1 DEF EditsOf
  <2> QED
    BY <1>1, <2>1, WholeTouches
<1>2. CASE ~IsWhole(s)
  <2>1. EditsOf(f, i) = {CallEdit(f, i, k) : k \in {j \in DOMAIN s.calls : IsErased(s.calls[j])}}
    BY <1>2, Zenon DEF EditsOf
  <2>2. PICK k \in DOMAIN s.calls : IsErased(s.calls[k]) /\ e = CallEdit(f, i, k)
    BY <2>1, Zenon
  <2>3. K \in Nat /\ DOMAIN s.calls = 1..K
    <3>1. TypedStmt(s)
      BY FilesTyped
    <3> QED
      BY <3>1, StmtCalls
  <2>4. k \in 1..K /\ k \in 0..K /\ K \in 0..K
    <3> HIDE DEF K
    <3> QED
      BY <2>3
  <2>5. Inside(f, i, k, n)
    BY <2>2, <2>4, EditLevel
  <2> QED
    BY <2>3, <2>4, <2>5, InsideMore
<1> QED
  BY <1>1, <1>2

\* Lines follow one another.
LEMMA LinesGrow ==
  ASSUME NEW f \in Files, NEW i \in 1..Len(f.stmts), NEW j \in (i + 1)..(Len(f.stmts) + 1)
  PROVE  /\ LineOf(f, i) \in Nat /\ LineOf(f, i + 1) \in Nat /\ LineOf(f, j) \in Nat
         /\ LineOf(f, i + 1) <= LineOf(f, j)
<1> DEFINE N == Len(f.stmts)
           L(l) == LineOf(f, l)
           Bad == {l \in Nat : i + 1 <= l /\ l <= N + 1 /\ ~(L(i + 1) <= L(l))}
<1>1. N \in Nat /\ i \in 1..N /\ j \in (i + 1)..(N + 1)
  BY FilesTyped
<1>2. \A l \in 1..(N + 1) : L(l) \in Nat
  <2>1. \A l \in 1..(N + 1) : Before(f, l) \in Text
    BY BeforeTexts
  <2> QED
    BY <2>1, TextLen DEF LineOf
<1>3. ASSUME NEW l \in 1..N PROVE L(l) <= L(l + 1)
  <2> DEFINE B == Before(f, l)
             S == StmtText(f.stmts[l])
  <2>1. Before(f, l + 1) = B \o S
    BY BeforeNext
  <2>2. l \in 1..(N + 1)
    <3> HIDE DEF N
    <3> QED
      BY <1>1
  <2>3. B \in Text /\ S \in Text
    BY <2>2, BeforeTexts, FilesTyped, StmtTexts
  <2>4. L(l) = Len(B) /\ L(l + 1) = Len(B \o S)
    BY <2>1, Zenon DEF LineOf
  <2> HIDE DEF B, S
  <2>5. Len(B \o S) = Len(B) + Len(S) /\ Len(B) \in Nat /\ Len(S) \in Nat
    BY <2>3, Joins, TextLen
  <2> QED
    BY <2>4, <2>5
<1> HIDE DEF N, L
<1>4. Bad = {}
  <2> SUFFICES ASSUME Bad # {} PROVE FALSE
    OBVIOUS
  <2>1. PICK l \in Bad : \A m \in Bad : l <= m
    <3>1. Bad \subseteq Nat
      OBVIOUS
    <3> HIDE DEF Bad
    <3> QED
      BY <3>1, LeastNat
  <2>2. l \in Nat /\ i + 1 <= l /\ l <= N + 1 /\ ~(L(i + 1) <= L(l))
    OBVIOUS
  <2>3. i + 1 \in 1..(N + 1) /\ l \in 1..(N + 1)
    BY <1>1, <2>2
  <2>4. L(i + 1) \in Nat /\ L(l) \in Nat
    BY <1>2, <2>3
  <2>5. l # i + 1
    BY <2>2, <2>4
  <2>6. l - 1 \in Nat /\ i + 1 <= l - 1 /\ l - 1 <= N + 1 /\ ~(l <= l - 1) /\ l - 1 \in 1..N /\ (l - 1) + 1 = l /\ l - 1 \in 1..(N + 1)
    BY <1>1, <2>2, <2>5
  <2>7. L(i + 1) <= L(l - 1)
    BY <2>1, <2>6
  <2>8. L(l - 1) <= L((l - 1) + 1)
    BY <1>3, <2>6
  <2>9. L(l - 1) \in Nat
    BY <1>2, <2>6
  <2>10. L(l - 1) <= L(l)
    BY <2>6, <2>8
  <2> QED
    BY <2>2, <2>4, <2>7, <2>9, <2>10
<1>5. j \in Nat /\ i + 1 <= j /\ j <= N + 1 /\ i \in 1..(N + 1) /\ i + 1 \in 1..(N + 1) /\ j \in 1..(N + 1)
  BY <1>1
<1>6. L(i + 1) <= L(j) /\ L(i) \in Nat /\ L(i + 1) \in Nat /\ L(j) \in Nat
  BY <1>2, <1>4, <1>5
<1> QED
  BY <1>6 DEF L

LEMMA InsideLine ==
  ASSUME NEW f \in Files, NEW i \in 1..Len(f.stmts), NEW n \in Nat, Inside(f, i, Len(f.stmts[i].calls), n)
  PROVE  LineOf(f, i) < n /\ n < LineOf(f, i + 1)
<1> DEFINE s == f.stmts[i]
           K == Len(s.calls)
           S == StartOf(f, i, K)
           E == EndOf(f, i, K)
           h == Len(s.head)
           y == Len(s.tail)
           a == LineOf(f, i)
           b == LineOf(f, i + 1)
<1>1. /\ s.head \in Text /\ s.tail \in Text /\ a \in Nat /\ K \in Nat
      /\ \A l \in 0..K : StartOf(f, i, l) \in Nat /\ EndOf(f, i, l) \in Nat
  BY StmtKnows, Zenon DEF StmtKnown
<1>2. K \in 0..K
  BY <1>1
<1>3. S \in Nat /\ E \in Nat
  BY <1>1, <1>2, Zenon
<1>4. S = a + h /\ b = E + y + 1
  BY PartsKnown, Zenon DEF PartsStand
<1>5. h \in Nat /\ y \in Nat
  BY <1>1, TextLen
<1>6. S < n /\ n <= E
  BY DEF Inside
<1> HIDE DEF S, E, h, y, a, b
<1>7. a \in Nat
  BY <1>1
<1>8. a < n /\ n < b
  BY <1>3, <1>4, <1>5, <1>6, <1>7
<1> QED
  BY <1>8 DEF a, b

LEMMA OwnEdits ==
  ASSUME NEW f \in Files, NEW e \in CollectRewrites(f), NEW n \in Nat, Erases(e, n)
  PROVE  /\ \A i \in 1..Len(f.stmts) : LineOf(f, i) < n /\ n <= LineOf(f, i + 1) => e \in EditsOf(f, i)
         /\ n < LineOf(f, Len(f.stmts) + 1)
<1> DEFINE N == Len(f.stmts)
           L(l) == LineOf(f, l)
<1>1. N \in Nat /\ DOMAIN f.stmts = 1..N
  BY FilesTyped
<1>2. PICK j \in 1..N : e \in EditsOf(f, j)
  BY <1>1, Zenon DEF CollectRewrites
<1>3. L(j) < n /\ n < L(j + 1)
  BY <1>2, EditInside, InsideLine
<1>4. \A i \in 1..N : \A m \in (i + 1)..(N + 1) :
        L(i) \in Nat /\ L(i + 1) \in Nat /\ L(m) \in Nat /\ L(i + 1) <= L(m)
  BY LinesGrow
<1> HIDE DEF N, L
<1>5. ASSUME NEW i \in 1..N, L(i) < n, n <= L(i + 1) PROVE e \in EditsOf(f, i)
  <2>1. CASE i = j
    BY <1>2, <2>1
  <2>2. CASE i < j
    <3>1. j \in (i + 1)..(N + 1)
      BY <1>1, <2>2
    <3>2. L(i + 1) \in Nat /\ L(j) \in Nat /\ L(i + 1) <= L(j)
      BY <1>4, <3>1
    <3> QED
      BY <1>3, <1>5, <3>2
  <2>3. CASE j < i
    <3>1. i \in (j + 1)..(N + 1)
      BY <1>1, <2>3
    <3>2. L(j + 1) \in Nat /\ L(i) \in Nat /\ L(j + 1) <= L(i)
      BY <1>4, <3>1
    <3> QED
      BY <1>3, <1>5, <3>2
  <2> QED
    BY <1>1, <2>1, <2>2, <2>3
<1>6. n < L(N + 1)
  <2>1. N + 1 \in (j + 1)..(N + 1)
    BY <1>1
  <2>2. L(j + 1) \in Nat /\ L(N + 1) \in Nat /\ L(j + 1) <= L(N + 1)
    BY <1>4, <2>1
  <2> QED
    BY <1>3, <2>2
<1> QED
  BY <1>5, <1>6 DEF N, L

------------------------------------------------------------------------------
(* Rewriter: reading the overwritten text.                                 *)

Overwritten(f) == ApplyRewrites(FileText(f), CollectRewrites(f))
ReadAt(f, n)   == ReadTo(<<>>, Overwritten(f), n)
Touched(f, n)  == \E e \in CollectRewrites(f) : Erases(e, n)

LEMMA TextTokens == Text \subseteq Tokens
<1>1. Words \subseteq Lexemes
  BY DEF Lexemes
<1> QED
  BY <1>1 DEF Text, Tokens

LEMMA OverwrittenKnown ==
  ASSUME NEW f \in Files
  PROVE  /\ Overwritten(f) \in Tokens /\ Len(Overwritten(f)) = Len(FileText(f))
         /\ \A n \in 1..Len(FileText(f)) :
              /\ ~Touched(f, n) => Overwritten(f)[n] = FileText(f)[n]
              /\ Touched(f, n) => Overwritten(f)[n] \in {Blank, NL}
              /\ Overwritten(f)[n] = NL => FileText(f)[n] = NL
<1> DEFINE T == FileText(f)
           E == CollectRewrites(f)
           A == Overwritten(f)
           X == Words \cup {Blank}
           D == 1..Len(T)
<1>1. T \in Text /\ IsFiniteSet(E) /\ E \subseteq Places
  BY FileTexts, EditsFinite
<1>2. SomeEdits(E)
  BY <1>1 DEF SomeEdits, Places
<1>3. T \in [D -> X] /\ Len(T) \in Nat
  <2>1. T \in Seq(Words)
    BY <1>1 DEF Text
  <2> HIDE DEF T
  <2> QED
    BY <2>1
<1>4. A = ApplyRewrites(T, E)
  BY Zenon DEF Overwritten
<1> HIDE DEF A, T, E, D
<1>5. /\ A \in [D -> X]
      /\ \A n \in D : \/ A[n] = T[n]
                      \/ A[n] = Blank /\ T[n] # NL /\ \E e \in E : Erases(e, n)
      /\ \A n \in D : \A e \in E : Erases(e, n) => A[n] \in {Blank, NL}
  <2> DEFINE B == ApplyRewrites(T, E)
  <2>1. Blank \in X
    OBVIOUS
  <2> HIDE DEF X
  <2>2. /\ B \in [D -> X]
        /\ \A n \in D : \/ B[n] = T[n]
                        \/ B[n] = Blank /\ T[n] # NL /\ \E e \in E : Erases(e, n)
        /\ \A n \in D : \A e \in E : Erases(e, n) => B[n] \in {Blank, NL}
    BY <1>2, <1>3, <2>1, Blanked
  <2> QED
    BY <1>4, <2>2, Zenon
<1>6. A \in Seq(Lexemes) /\ Len(A) = Len(T)
  <2>1. X \subseteq Lexemes
    BY DEF Lexemes
  <2> DEFINE n == Len(T)
  <2>2. n \in Nat /\ D = 1..n
    BY <1>3 DEF D
  <2> HIDE DEF X, n
  <2>3. A \in Seq(X) /\ Len(A) = n
    BY <1>5, <2>2
  <2> QED
    BY <2>1, <2>3 DEF n
<1>7. Blank # NL
  BY DEF Blank, NL
<1>8. ASSUME NEW n \in D
      PROVE  /\ ~Touched(f, n) => A[n] = T[n]
             /\ Touched(f, n) => A[n] \in {Blank, NL}
             /\ A[n] = NL => T[n] = NL
  <2>1. Touched(f, n) <=> \E e \in E : Erases(e, n)
    BY Zenon DEF Touched, E
  <2> QED
    BY <1>5, <1>7, <2>1
<1> QED
  BY <1>6, <1>8 DEF Tokens, A, T, D

LEMMA ReadAtKnown ==
  ASSUME NEW f \in Files
  PROVE  ReadAt(f, 0) = <<>> /\ \A n \in 0..Len(FileText(f)) : ReadAt(f, n) \in Tokens
<1>1. <<>> \in Tokens
  BY DEF Tokens
<1>2. ReadsOn(<<>>, Overwritten(f))
  BY <1>1, OverwrittenKnown, ReadStep
<1> QED
  BY <1>2, OverwrittenKnown, Zenon DEF ReadsOn, ReadAt

\* What no edit touches is read as it was.
LEMMA KeptPart ==
  ASSUME NEW f \in Files, NEW u \in Text, NEW a \in Nat, Stands(u, a, FileText(f)),
         \A n \in Nat : a < n /\ n <= a + Len(u) => ~Touched(f, n)
  PROVE  ReadAt(f, a) \in Tokens /\ ReadAt(f, a + Len(u)) = After(ReadAt(f, a), u)
<1> DEFINE T == FileText(f)
           A == Overwritten(f)
           l == Len(u)
           m == Len(T)
<1>1. a + l <= m /\ \A j \in 1..l : T[a + j] = u[j]
  BY Zenon DEF Stands
<1>2. A \in Tokens /\ Len(A) = m /\ \A n \in 1..m : ~Touched(f, n) => A[n] = T[n]
  BY OverwrittenKnown
<1>3. l \in Nat /\ m \in Nat
  BY FileTexts, TextLen
<1>4. \A n \in Nat : a < n /\ n <= a + l => ~Touched(f, n)
  OBVIOUS
<1> HIDE DEF l, m, A, T
<1>5. \A j \in 1..l : a + j \in Nat /\ a < a + j /\ a + j <= a + l /\ a + j \in 1..m
  BY <1>1, <1>3
<1>6. \A j \in 1..l : A[a + j] = u[j]
  BY <1>1, <1>2, <1>4, <1>5, Zenon
<1>7. Stands(u, a, A)
  BY <1>1, <1>2, <1>6, Zenon DEF Stands, l
<1>8. u \in Tokens /\ <<>> \in Tokens
  BY TextTokens DEF Tokens
<1>9. ReadTo(<<>>, A, a) \in Tokens /\ ReadTo(<<>>, A, a + Len(u)) = After(ReadTo(<<>>, A, a), u)
  BY <1>2, <1>7, <1>8, ReadStands
<1> QED
  BY <1>9, Zenon DEF ReadAt, A

\* What an edit overwrites is read as a gap.
LEMMA GonePart ==
  ASSUME NEW f \in Files, NEW u \in Text, NEW a \in Nat, Stands(u, a, FileText(f)),
         \A n \in Nat : a < n /\ n <= a + Len(u) => Touched(f, n)
  PROVE  LET v == ReadAt(f, a)
         IN  /\ v \in Tokens /\ ReadAt(f, a + Len(u)) \in {v, Lex(v, NL)}
             /\ NL \notin ToSet(u) => ReadAt(f, a + Len(u)) = v
<1> DEFINE T == FileText(f)
           A == Overwritten(f)
           l == Len(u)
           m == Len(T)
           g == [j \in 1..l |-> A[a + j]]
           v == ReadAt(f, a)
<1>1. a + l <= m /\ \A j \in 1..l : T[a + j] = u[j]
  BY Zenon DEF Stands
<1>2. /\ A \in Tokens /\ Len(A) = m
      /\ \A n \in 1..m : (Touched(f, n) => A[n] \in {Blank, NL}) /\ (A[n] = NL => T[n] = NL)
  BY OverwrittenKnown
<1>3. l \in Nat /\ m \in Nat
  BY FileTexts, TextLen
<1>4. \A n \in Nat : a < n /\ n <= a + l => Touched(f, n)
  OBVIOUS
<1>5. \A j \in 1..l : u[j] \in ToSet(u)
  BY DEF Text, ToSet
<1> HIDE DEF l, m, A, T
<1>6. \A j \in 1..l : a + j \in Nat /\ a < a + j /\ a + j <= a + l /\ a + j \in 1..m
  BY <1>1, <1>3
<1>7. \A j \in 1..l : A[a + j] \in {Blank, NL} /\ (A[a + j] = NL => u[j] = NL)
  BY <1>1, <1>2, <1>4, <1>6, Zenon
<1>8. g \in Gaps /\ Len(g) = l /\ \A j \in 1..l : g[j] = A[a + j]
  <2> DEFINE Y == {Blank, NL}
  <2>1. \A j \in 1..l : A[a + j] \in Y
    BY <1>7
  <2> HIDE DEF Y
  <2>2. g \in Seq(Y) /\ Len(g) = l /\ \A j \in 1..l : g[j] = A[a + j]
    BY <1>3, <2>1
  <2> QED
    BY <2>2 DEF Gaps, Y
<1>9. NL \notin ToSet(u) => NL \notin ToSet(g)
  <2>1. \A x \in ToSet(g) : \E j \in 1..l : x = A[a + j]
    BY <1>3 DEF ToSet
  <2> QED
    BY <1>5, <1>7, <2>1
<1> HIDE DEF g
<1>10. Stands(g, a, A)
  BY <1>1, <1>2, <1>8, Zenon DEF Stands
<1>11. g \in Tokens /\ <<>> \in Tokens
  BY <1>8, GapTokens DEF Tokens
<1>12. ReadTo(<<>>, A, a) \in Tokens /\ ReadTo(<<>>, A, a + Len(g)) = After(ReadTo(<<>>, A, a), g)
  BY <1>2, <1>10, <1>11, ReadStands
<1>13. v \in Tokens /\ ReadAt(f, a + l) = After(v, g)
  BY <1>8, <1>12, Zenon DEF ReadAt, A
<1> HIDE DEF v
<1>14. After(v, g) \in {v, Lex(v, NL)} /\ (NL \notin ToSet(g) => After(v, g) = v)
  BY <1>8, <1>13, GapReads
<1> QED
  BY <1>9, <1>13, <1>14 DEF v, l

------------------------------------------------------------------------------
(* Rewriter: reading the parts of a statement.                             *)

LEMMA TouchedLevel ==
  ASSUME NEW f \in Files, NEW i \in 1..Len(f.stmts), ~IsWhole(f.stmts[i]), NEW n \in Nat,
         LineOf(f, i) < n, n <= LineOf(f, i + 1), Touched(f, n)
  PROVE  \E k \in 1..Len(f.stmts[i].calls) :
           /\ IsErased(f.stmts[i].calls[k]) /\ Erases(CallEdit(f, i, k), n)
           /\ Inside(f, i, k, n) /\ ~Inside(f, i, k - 1, n)
<1> DEFINE s == f.stmts[i]
           K == Len(s.calls)
<1>1. PICK e \in CollectRewrites(f) : Erases(e, n)
  BY Zenon DEF Touched
<1>2. e \in EditsOf(f, i)
  BY <1>1, OwnEdits
<1>3. EditsOf(f, i) = {CallEdit(f, i, k) : k \in {j \in DOMAIN s.calls : IsErased(s.calls[j])}}
  BY Zenon DEF EditsOf
<1>4. PICK k \in DOMAIN s.calls : IsErased(s.calls[k]) /\ e = CallEdit(f, i, k)
  BY <1>2, <1>3, Zenon
<1>5. k \in 1..K
  <2>1. TypedStmt(s)
    BY FilesTyped
  <2> QED
    BY <2>1, StmtCalls
<1>6. Inside(f, i, k, n) /\ ~Inside(f, i, k - 1, n)
  BY <1>1, <1>4, <1>5, EditLevel
<1> QED
  BY <1>1, <1>4, <1>5, <1>6

\* Between a call and its argument only that call's edit touches.
LEMMA OneLevel ==
  ASSUME NEW f \in Files, NEW i \in 1..Len(f.stmts), ~IsWhole(f.stmts[i]),
         NEW k \in 1..Len(f.stmts[i].calls), NEW n \in Nat,
         Inside(f, i, k, n), ~Inside(f, i, k - 1, n), Touched(f, n)
  PROVE  IsErased(f.stmts[i].calls[k]) /\ Erases(CallEdit(f, i, k), n)
<1> DEFINE K == Len(f.stmts[i].calls)
<1>1. K \in Nat /\ k \in 1..K
  BY StmtKnows, Zenon DEF StmtKnown
<1>2. Inside(f, i, K, n)
  <2>1. k \in 0..K /\ K \in 0..K /\ k \in 0..K
    <3> HIDE DEF K
    <3> QED
      BY <1>1
  <2> QED
    BY <2>1, InsideMore
<1>3. LineOf(f, i) < n /\ n <= LineOf(f, i + 1)
  <2>1. LineOf(f, i) < n /\ n < LineOf(f, i + 1)
    BY <1>2, InsideLine
  <2>2. LineOf(f, i + 1) \in Nat
    <3>1. Len(f.stmts) \in Nat
      BY FilesTyped
    <3>2. i + 1 \in (i + 1)..(Len(f.stmts) + 1)
      BY <3>1
    <3> QED
      BY <3>2, LinesGrow
  <2> QED
    BY <2>1, <2>2
<1>4. PICK j \in 1..K : /\ IsErased(f.stmts[i].calls[j]) /\ Erases(CallEdit(f, i, j), n)
                        /\ Inside(f, i, j, n) /\ ~Inside(f, i, j - 1, n)
  BY <1>3, TouchedLevel
<1>5. ~(j < k)
  <2> SUFFICES ASSUME j < k PROVE FALSE
    OBVIOUS
  <2>1. k - 1 \in 0..K /\ j \in 0..(k - 1)
    <3> HIDE DEF K
    <3> QED
      BY <1>1
  <2> QED
    BY <1>4, <2>1, InsideMore
<1>6. ~(k < j)
  <2> SUFFICES ASSUME k < j PROVE FALSE
    OBVIOUS
  <2>1. j - 1 \in 0..K /\ k \in 0..(j - 1)
    <3> HIDE DEF K
    <3> QED
      BY <1>1
  <2> QED
    BY <1>4, <2>1, InsideMore
<1>7. j = k
  <2> HIDE DEF K
  <2> QED
    BY <1>1, <1>5, <1>6
<1> QED
  BY <1>4, <1>7

LEMMA HeadRead ==
  ASSUME NEW f \in Files, NEW i \in 1..Len(f.stmts), ~IsWhole(f.stmts[i])
  PROVE  /\ ReadAt(f, LineOf(f, i)) \in Tokens
         /\ ReadAt(f, StartOf(f, i, Len(f.stmts[i].calls))) =
              After(ReadAt(f, LineOf(f, i)), f.stmts[i].head)
<1> DEFINE s == f.stmts[i]
           K == Len(s.calls)
           u == s.head
           a == LineOf(f, i)
           b == LineOf(f, i + 1)
           S == StartOf(f, i, K)
           E == EndOf(f, i, K)
<1>1. /\ u \in Text /\ s.tail \in Text /\ a \in Nat /\ K \in Nat
      /\ \A l \in 0..K : StartOf(f, i, l) \in Nat /\ EndOf(f, i, l) \in Nat /\ StartOf(f, i, l) <= EndOf(f, i, l)
  BY StmtKnows, Zenon DEF StmtKnown
<1>2. Stands(u, a, FileText(f)) /\ S = a + Len(u) /\ b = E + Len(s.tail) + 1
  BY PartsKnown, Zenon DEF PartsStand
<1>3. K \in 0..K
  BY <1>1
<1>4. S \in Nat /\ E \in Nat /\ S <= E /\ Len(u) \in Nat /\ Len(s.tail) \in Nat
  BY <1>1, <1>3, TextLen, Zenon
<1>5. ASSUME NEW n \in Nat, a < n, n <= a + Len(u) PROVE ~Touched(f, n)
  <2> SUFFICES ASSUME Touched(f, n) PROVE FALSE
    OBVIOUS
  <2>1. n <= b /\ ~(S < n)
    <3> DEFINE y == Len(s.tail)
               l == Len(u)
    <3>1. b = E + y + 1 /\ S = a + l /\ l \in Nat /\ y \in Nat /\ n <= a + l /\ a \in Nat
      BY <1>1, <1>2, <1>4, <1>5
    <3> HIDE DEF a, b, S, E, y, l
    <3> QED
      BY <1>4, <3>1
  <2>2. PICK k \in 1..K : Inside(f, i, k, n)
    BY <1>5, <2>1, TouchedLevel
  <2>3. k \in 0..K
    <3> HIDE DEF K
    <3> QED
      BY <1>1
  <2>4. Inside(f, i, K, n)
    BY <1>3, <2>2, <2>3, InsideMore
  <2> QED
    BY <2>1, <2>4, Zenon DEF Inside
<1>6. ReadAt(f, a) \in Tokens /\ ReadAt(f, a + Len(u)) = After(ReadAt(f, a), u)
  <2> HIDE DEF a, u
  <2> QED
    BY <1>1, <1>2, <1>5, KeptPart
<1> QED
  BY <1>2, <1>6

LEMMA TailRead ==
  ASSUME NEW f \in Files, NEW i \in 1..Len(f.stmts), ~IsWhole(f.stmts[i])
  PROVE  LET v == ReadAt(f, EndOf(f, i, Len(f.stmts[i].calls)))
         IN  v \in Tokens /\ ReadAt(f, LineOf(f, i + 1)) = Lex(After(v, f.stmts[i].tail), NL)
<1> DEFINE s == f.stmts[i]
           K == Len(s.calls)
           u == s.tail
           T == FileText(f)
           n1 == <<NL>>
           a == LineOf(f, i)
           b == LineOf(f, i + 1)
           S == StartOf(f, i, K)
           E == EndOf(f, i, K)
           m == E + Len(u)
<1>1. /\ u \in Text /\ s.head \in Text /\ n1 \in Text /\ a \in Nat /\ K \in Nat
      /\ \A l \in 0..K : StartOf(f, i, l) \in Nat /\ EndOf(f, i, l) \in Nat /\ StartOf(f, i, l) <= EndOf(f, i, l)
  BY StmtKnows, Zenon DEF StmtKnown
<1>2. Stands(u, E, T) /\ m \in Nat /\ Stands(n1, m, T) /\ S = a + Len(s.head) /\ b = m + 1
  BY PartsKnown, Zenon DEF PartsStand
<1>3. K \in 0..K
  BY <1>1
<1>4. S \in Nat /\ E \in Nat /\ S <= E /\ Len(u) \in Nat /\ Len(s.head) \in Nat
  BY <1>1, <1>3, TextLen, Zenon
<1>5. ASSUME NEW n \in Nat, E < n, n <= b PROVE ~Touched(f, n)
  <2> SUFFICES ASSUME Touched(f, n) PROVE FALSE
    OBVIOUS
  <2>1. a < n /\ ~(n <= E)
    <3> DEFINE y == Len(s.head)
    <3>1. S = a + y /\ y \in Nat /\ a \in Nat /\ S \in Nat /\ E \in Nat /\ S <= E /\ E < n
      BY <1>1, <1>2, <1>4, <1>5
    <3> HIDE DEF a, S, E, y
    <3> QED
      BY <3>1
  <2>2. PICK k \in 1..K : Inside(f, i, k, n)
    BY <1>5, <2>1, TouchedLevel
  <2>3. k \in 0..K
    <3> HIDE DEF K
    <3> QED
      BY <1>1
  <2>4. Inside(f, i, K, n)
    BY <1>3, <2>2, <2>3, InsideMore
  <2> QED
    BY <2>1, <2>4, Zenon DEF Inside
<1>6. Len(n1) = 1
  OBVIOUS
<1> HIDE DEF n1, T
<1>7. ReadAt(f, E) \in Tokens /\ ReadAt(f, E + Len(u)) = After(ReadAt(f, E), u)
  <2>1. \A n \in Nat : E < n /\ n <= E + Len(u) => ~Touched(f, n)
    <3> DEFINE l == Len(u)
    <3>1. b = E + l + 1 /\ E \in Nat /\ l \in Nat
      BY <1>2, <1>4
    <3> HIDE DEF b, E, l
    <3>2. \A n \in Nat : n <= E + l => n <= b
      BY <3>1
    <3> QED
      BY <1>5, <3>2 DEF l
  <2> HIDE DEF E, u
  <2> QED
    BY <1>1, <1>2, <1>4, <2>1, KeptPart DEF T
<1>8. ReadAt(f, m) \in Tokens /\ ReadAt(f, m + Len(n1)) = After(ReadAt(f, m), n1)
  <2>1. \A n \in Nat : m < n /\ n <= m + Len(n1) => ~Touched(f, n)
    <3> DEFINE l == Len(u)
    <3>1. b = m + 1 /\ m = E + l /\ E \in Nat /\ l \in Nat /\ Len(n1) = 1
      BY <1>2, <1>4, <1>6
    <3> HIDE DEF b, E, l, m
    <3>2. \A n \in Nat : m < n /\ n <= m + Len(n1) => E < n /\ n <= b
      BY <3>1
    <3> QED
      BY <1>5, <3>2
  <2> HIDE DEF m
  <2> QED
    BY <1>1, <1>2, <2>1, KeptPart DEF T
<1>9. After(ReadAt(f, m), <<NL>>) = Lex(ReadAt(f, m), NL)
  <2>1. NL \in Lexemes
    BY DEF Lexemes
  <2> QED
    BY <1>8, <2>1, AfterOne
<1>10. m + Len(n1) = b
  BY <1>2, <1>6, Zenon
<1>11. ReadAt(f, b) = Lex(After(ReadAt(f, E), u), NL)
  BY <1>7, <1>8, <1>9, <1>10, Zenon DEF n1
<1> QED
  BY <1>7, <1>11

LEMMA AtomRead ==
  ASSUME NEW f \in Files, NEW i \in 1..Len(f.stmts), ~IsWhole(f.stmts[i])
  PROVE  LET v == ReadAt(f, StartOf(f, i, 0))
         IN  v \in Tokens /\ ReadAt(f, EndOf(f, i, 0)) = After(v, <<f.stmts[i].atom>>)
<1> DEFINE s == f.stmts[i]
           K == Len(s.calls)
           u == <<s.atom>>
           T == FileText(f)
           S == StartOf(f, i, 0)
           E == EndOf(f, i, 0)
<1>1. /\ K \in Nat /\ TypedStmt(s)
      /\ \A l \in 0..K : StartOf(f, i, l) \in Nat /\ EndOf(f, i, l) \in Nat
  BY StmtKnows, Zenon DEF StmtKnown
<1>2. 0 \in 0..K /\ K \in 0..K
  BY <1>1
<1>3. Stands(u, S, T) /\ ExprText(s, 0) = u
  BY AtomStands
<1>4. E = S + Len(u) /\ S \in Nat /\ u \in Text
  <2>1. E = S + Len(ExprText(s, 0))
    BY Zenon DEF EndOf
  <2>2. u \in Text
    BY <1>1, StmtCalls
  <2> QED
    BY <1>1, <1>2, <1>3, <2>1, <2>2, Zenon
<1>5. ASSUME NEW n \in Nat, S < n, n <= S + Len(u) PROVE ~Touched(f, n)
  <2> SUFFICES ASSUME Touched(f, n) PROVE FALSE
    OBVIOUS
  <2>1. Inside(f, i, 0, n)
    BY <1>4, <1>5, Zenon DEF Inside
  <2>2. Inside(f, i, K, n)
    BY <1>2, <2>1, InsideMore
  <2>3. LineOf(f, i) < n /\ n < LineOf(f, i + 1)
    BY <2>2, InsideLine
  <2>4. n <= LineOf(f, i + 1)
    <3>1. Len(f.stmts) \in Nat
      BY FilesTyped
    <3>2. i + 1 \in (i + 1)..(Len(f.stmts) + 1)
      BY <3>1
    <3>3. LineOf(f, i + 1) \in Nat
      BY <3>2, LinesGrow
    <3> QED
      BY <2>3, <3>3
  <2>5. PICK k \in 1..K : ~Inside(f, i, k - 1, n)
    BY <2>3, <2>4, TouchedLevel
  <2>6. k - 1 \in 0..K /\ 0 \in 0..(k - 1)
    <3> HIDE DEF K
    <3> QED
      BY <1>1
  <2> QED
    BY <2>1, <2>5, <2>6, InsideMore
<1>6. ReadAt(f, S) \in Tokens /\ ReadAt(f, S + Len(u)) = After(ReadAt(f, S), u)
  <2> HIDE DEF S, u
  <2> QED
    BY <1>3, <1>4, <1>5, KeptPart
<1> QED
  BY <1>4, <1>6

\* Reading what is read as it was, or as a gap when it is erased.
ReadsAs(v, w, t, gone) ==
  /\ v \in Tokens
  /\ ~gone => w = After(v, t)
  /\ gone  => w \in {v, Lex(v, NL)} /\ (NL \notin ToSet(t) => w = v)

LevelReads(f, i, k) ==
  LET c == f.stmts[i].calls[k]
      m == EndOf(f, i, k - 1) + Len(Close(c))
  IN  /\ ReadsAs(ReadAt(f, StartOf(f, i, k)), ReadAt(f, StartOf(f, i, k - 1)), Open(c), IsErased(c))
      /\ ReadsAs(ReadAt(f, EndOf(f, i, k - 1)), ReadAt(f, m), Close(c), IsErased(c))
      /\ ReadsAs(ReadAt(f, m), ReadAt(f, EndOf(f, i, k)), c.post, FALSE)

LEMMA PartRead ==
  ASSUME NEW f \in Files, NEW u \in Text, NEW a \in Nat, Stands(u, a, FileText(f)), NEW gone \in BOOLEAN,
         \A n \in Nat : a < n /\ n <= a + Len(u) => (Touched(f, n) <=> gone)
  PROVE  ReadsAs(ReadAt(f, a), ReadAt(f, a + Len(u)), u, gone)
<1>1. CASE ~gone
  <2>1. \A n \in Nat : a < n /\ n <= a + Len(u) => ~Touched(f, n)
    BY <1>1
  <2>2. ReadAt(f, a) \in Tokens /\ ReadAt(f, a + Len(u)) = After(ReadAt(f, a), u)
    BY <2>1, KeptPart
  <2> QED
    BY <1>1, <2>2, Zenon DEF ReadsAs
<1>2. CASE gone
  <2>1. \A n \in Nat : a < n /\ n <= a + Len(u) => Touched(f, n)
    BY <1>2
  <2> DEFINE v == ReadAt(f, a)
             w == ReadAt(f, a + Len(u))
  <2>2. v \in Tokens /\ w \in {v, Lex(v, NL)} /\ (NL \notin ToSet(u) => w = v)
    BY <2>1, GonePart
  <2> QED
    BY <1>2, <2>2, Zenon DEF ReadsAs
<1> QED
  BY <1>1, <1>2

LEMMA LevelRead ==
  ASSUME NEW f \in Files, NEW i \in 1..Len(f.stmts), ~IsWhole(f.stmts[i]),
         NEW k \in 1..Len(f.stmts[i].calls)
  PROVE  LevelReads(f, i, k)
<1> DEFINE s == f.stmts[i]
           c == s.calls[k]
           K == Len(s.calls)
           T == FileText(f)
           e == CallEdit(f, i, k)
           o == Open(c)
           z == Close(c)
           d == c.post
           S1 == StartOf(f, i, k)
           S0 == StartOf(f, i, k - 1)
           E1 == EndOf(f, i, k)
           E0 == EndOf(f, i, k - 1)
           m == E0 + Len(z)
           la == Len(o)
           lb == Len(z)
           ld == Len(d)
           p == e.start
           q == e.argStart
           r == e.argEnd
           t == e.end
<1>1. /\ o \in Text /\ z \in Text /\ d \in Text
      /\ Stands(o, S1, T) /\ S0 = S1 + la /\ Stands(z, E0, T) /\ Stands(d, m, T) /\ E1 = E0 + lb + ld
  BY LevelKnown, Zenon DEF LevelStands
<1>2. p = S1 + 1 /\ q = S0 + 1 /\ r = E0 + 1 /\ t = E0 + lb + 1
  BY EditKnown, Zenon DEF EditPlaces
<1>3. K \in Nat /\ \A l \in 0..K : StartOf(f, i, l) \in Nat /\ EndOf(f, i, l) \in Nat /\ StartOf(f, i, l) <= EndOf(f, i, l)
  BY StmtKnows, Zenon DEF StmtKnown
<1>4. k \in 0..K /\ k - 1 \in 0..K /\ k \in 1..K
  <2>1. k \in 1..K
    OBVIOUS
  <2> HIDE DEF K
  <2> QED
    BY <1>3, <2>1
<1>5. S1 \in Nat /\ S0 \in Nat /\ E1 \in Nat /\ E0 \in Nat /\ S0 <= E0
  BY <1>3, <1>4, Zenon
<1>6. la \in Nat /\ lb \in Nat /\ ld \in Nat
  BY <1>1, TextLen
<1>7. IsErased(c) => e \in CollectRewrites(f)
  <2>1. DOMAIN f.stmts = 1..Len(f.stmts) /\ TypedStmt(s)
    BY FilesTyped
  <2>2. k \in DOMAIN s.calls
    BY <1>4, <2>1, StmtCalls
  <2>3. EditsOf(f, i) = {CallEdit(f, i, l) : l \in {j \in DOMAIN s.calls : IsErased(s.calls[j])}}
    BY Zenon DEF EditsOf
  <2>4. IsErased(c) => e \in EditsOf(f, i)
    BY <2>2, <2>3
  <2> QED
    BY <2>1, <2>4, Zenon DEF CollectRewrites
<1>8. ASSUME NEW n \in Nat, S1 < n, n <= E1, ~(S0 < n /\ n <= E0)
      PROVE  Touched(f, n) <=> IsErased(c) /\ Erases(e, n)
  <2>1. Inside(f, i, k, n) /\ ~Inside(f, i, k - 1, n)
    BY <1>8, Zenon DEF Inside
  <2>2. Touched(f, n) => IsErased(c) /\ Erases(e, n)
    BY <2>1, OneLevel
  <2>3. IsErased(c) /\ Erases(e, n) => Touched(f, n)
    BY <1>7, Zenon DEF Touched
  <2> QED
    BY <2>2, <2>3
<1>9. \A n : Erases(e, n) <=> n \in p..(q - 1) \/ n \in r..(t - 1)
  BY Zenon DEF Erases
<1>10. IsErased(c) \in BOOLEAN
  BY DEF IsErased
<1> HIDE DEF o, z, d, T, S1, S0, E1, E0, la, lb, ld, p, q, r, t, e
<1>11. m = E0 + lb /\ m \in Nat
  BY <1>5, <1>6 DEF lb
<1> HIDE DEF m
<1>12. ASSUME NEW n \in Nat, S1 < n, n <= S1 + la PROVE Touched(f, n) <=> IsErased(c)
  <2>1. n <= E1 /\ ~(S0 < n /\ n <= E0) /\ n \in p..(q - 1)
    BY <1>1, <1>2, <1>5, <1>6, <1>12
  <2> QED
    BY <1>8, <1>9, <1>12, <2>1, Zenon
<1>13. ASSUME NEW n \in Nat, E0 < n, n <= E0 + lb PROVE Touched(f, n) <=> IsErased(c)
  <2>1. S1 < n /\ n <= E1 /\ ~(S0 < n /\ n <= E0) /\ n \in r..(t - 1)
    BY <1>1, <1>2, <1>5, <1>6, <1>13
  <2> QED
    BY <1>8, <1>9, <2>1, Zenon
<1>14. ASSUME NEW n \in Nat, m < n, n <= m + ld PROVE Touched(f, n) <=> FALSE
  <2>1. S1 < n /\ n <= E1 /\ ~(S0 < n /\ n <= E0) /\ ~(n \in p..(q - 1)) /\ ~(n \in r..(t - 1))
    BY <1>1, <1>2, <1>5, <1>6, <1>11, <1>14
  <2> QED
    BY <1>8, <1>9, <2>1, Zenon
<1>15. ReadsAs(ReadAt(f, S1), ReadAt(f, S1 + Len(o)), o, IsErased(c))
  <2>1. o \in Text /\ S1 \in Nat /\ Stands(o, S1, FileText(f))
    BY <1>1, <1>5 DEF T
  <2>2. \A n \in Nat : S1 < n /\ n <= S1 + Len(o) => (Touched(f, n) <=> IsErased(c))
    BY <1>12 DEF la
  <2> HIDE DEF c
  <2> QED
    BY <1>10, <2>1, <2>2, PartRead
<1>16. ReadsAs(ReadAt(f, E0), ReadAt(f, E0 + Len(z)), z, IsErased(c))
  <2>1. z \in Text /\ E0 \in Nat /\ Stands(z, E0, FileText(f))
    BY <1>1, <1>5 DEF T
  <2>2. \A n \in Nat : E0 < n /\ n <= E0 + Len(z) => (Touched(f, n) <=> IsErased(c))
    BY <1>13 DEF lb
  <2> HIDE DEF c
  <2> QED
    BY <1>10, <2>1, <2>2, PartRead
<1>17. ReadsAs(ReadAt(f, m), ReadAt(f, m + Len(d)), d, FALSE)
  <2>1. d \in Text /\ m \in Nat /\ Stands(d, m, FileText(f))
    BY <1>1, <1>11 DEF T
  <2>2. \A n \in Nat : m < n /\ n <= m + Len(d) => (Touched(f, n) <=> FALSE)
    BY <1>14 DEF ld
  <2>3. FALSE \in BOOLEAN
    OBVIOUS
  <2> QED
    BY <2>1, <2>2, <2>3, PartRead
<1>18. S0 = S1 + Len(o) /\ m = E0 + Len(z) /\ E1 = m + Len(d)
  <2>1. E1 = m + ld
    BY <1>1, <1>5, <1>6, <1>11
  <2> QED
    BY <1>1, <1>11, <2>1 DEF la, lb, ld
<1>19. /\ ReadsAs(ReadAt(f, S1), ReadAt(f, S0), o, IsErased(c))
       /\ ReadsAs(ReadAt(f, E0), ReadAt(f, m), z, IsErased(c))
       /\ ReadsAs(ReadAt(f, m), ReadAt(f, E1), d, FALSE)
  BY <1>15, <1>16, <1>17, <1>18, Zenon
<1> QED
  BY <1>19, Zenon DEF LevelReads, S1, S0, E1, E0, m, o, z, d, c, s

------------------------------------------------------------------------------
(* Rewriter: the statement without its contracts.                          *)

LEMMA StripTyped == ASSUME NEW c, TypedCall(c), NEW t \in Text PROVE Strip(t, c) \in Text
<1>1. c.post \in Text /\ Around(t, c) \in Text
  BY CallTexts DEF TypedCall
<1>2. t \o c.post \in Text
  BY <1>1, Joins
<1> QED
  BY <1>1, <1>2 DEF Strip

\* The function that Bare folds with.
Stripping(t, q) ==
  LET iter[s \in SUBSET DOMAIN q] == IF s = {} THEN t ELSE LET x == Max(s) IN Strip(iter[s \ {x}], q[x])
  IN  iter

LEMMA FoldIsStripping == ASSUME NEW t, NEW q PROVE FoldLeft(Strip, t, q) = Stripping(t, q)[DOMAIN q]
BY Zenon DEF FoldLeft, MapThenFoldSet, Stripping

\* The expression with its innermost k calls, without the contracts among them.
BareExpr(s, k) == Stripping(<<s.atom>>, s.calls)[1..k]

BareSteps(s) ==
  /\ BareExpr(s, 0) = <<s.atom>>
  /\ \A k \in 1..Len(s.calls) : BareExpr(s, k) = Strip(BareExpr(s, k - 1), s.calls[k])
  /\ \A k \in 0..Len(s.calls) : BareExpr(s, k) \in Text
  /\ FoldLeft(Strip, <<s.atom>>, s.calls) = BareExpr(s, Len(s.calls))

LEMMA BareKnown == ASSUME NEW s, TypedStmt(s) PROVE BareSteps(s)
<1> DEFINE V == Text
           u == <<s.atom>>
           t == s.calls
           n == Len(t)
           D == 1..n
           H == [p \in V \X D |-> Strip(p[1], t[p[2]])]
<1>1. n \in Nat /\ DOMAIN t = D /\ u \in V /\ \A j \in D : TypedCall(t[j])
  BY StmtCalls
<1> HIDE DEF t, u
<1>2. H \in [V \X D -> V]
  <2> HIDE DEF V, D
  <2> QED
    BY <1>1, StripTyped DEF V
<1>3. PICK f : f \in [SUBSET D -> V] /\ FoldsLeft(f, n, u, H)
  <2> HIDE DEF V, H, n
  <2>1. u \in V /\ H \in [V \X (1..n) -> V]
    BY <1>1, <1>2 DEF V
  <2> QED
    BY <1>1, <2>1, LeftFoldExists
<1>4. f = [r \in SUBSET D |-> IF r = {} THEN u ELSE H[<<f[r \ {Max(r)}], Max(r)>>]]
  BY <1>3, Zenon DEF FoldsLeft
<1>5. ASSUME NEW r \in SUBSET D, r # {}
      PROVE  H[<<f[r \ {Max(r)}], Max(r)>>] = Strip(f[r \ {Max(r)}], t[Max(r)])
  <2>1. Max(r) \in D
    <3> HIDE DEF n
    <3> QED
      BY <1>1, <1>5, GreatestNat
  <2>2. f[r \ {Max(r)}] \in V
    <3> HIDE DEF V, D
    <3> QED
      BY <1>3
  <2> HIDE DEF V, D
  <2> QED
    BY <2>1, <2>2
<1>6. f = [r \in SUBSET DOMAIN t |-> IF r = {} THEN u ELSE Strip(f[r \ {Max(r)}], t[Max(r)])]
  <2> HIDE DEF V, H, D
  <2> QED
    BY <1>1, <1>4, <1>5
<1> DEFINE C == Stripping(u, t)
<1>7. C = [r \in SUBSET DOMAIN t |-> IF r = {} THEN u ELSE Strip(C[r \ {Max(r)}], t[Max(r)])]
  BY <1>6, Zenon DEF Stripping
<1> HIDE DEF C
<1>8. ASSUME NEW r \in SUBSET D, r # {} PROVE C[r] = Strip(C[r \ {Max(r)}], t[Max(r)])
  <2> HIDE DEF D
  <2> QED
    BY <1>1, <1>7, <1>8
<1>9. C[1..0] = u
  <2>1. 1..0 = {} /\ {} \in SUBSET DOMAIN t
    OBVIOUS
  <2> QED
    BY <1>7, <2>1
<1>10. ASSUME NEW k \in 1..n PROVE C[1..k] = Strip(C[1..(k - 1)], t[k])
  <2> HIDE DEF n
  <2>1. 1..k \in SUBSET D /\ 1..k # {} /\ k \in Nat /\ k # 0
    BY <1>1
  <2>2. Max(1..k) = k /\ (1..k) \ {k} = 1..(k - 1)
    BY <2>1, GreatestOfAll
  <2>3. C[1..k] = Strip(C[(1..k) \ {Max(1..k)}], t[Max(1..k)])
    BY <1>8, <2>1, Zenon
  <2> QED
    BY <2>2, <2>3, Zenon
<1> DEFINE L(k) == C[1..k]
           Bad == {k \in Nat : k <= n /\ L(k) \notin Text}
<1>11. Bad = {}
  <2> SUFFICES ASSUME Bad # {} PROVE FALSE
    OBVIOUS
  <2>1. PICK k \in Bad : \A j \in Bad : k <= j
    <3>1. Bad \subseteq Nat
      OBVIOUS
    <3> HIDE DEF Bad
    <3> QED
      BY <3>1, LeastNat
  <2>2. k \in Nat /\ k <= n /\ L(k) \notin Text
    OBVIOUS
  <2>3. k # 0
    BY <1>1, <1>9, <2>2, Zenon
  <2> HIDE DEF n
  <2>4. k \in 1..n /\ k - 1 \in Nat /\ k - 1 <= n /\ ~(k <= k - 1)
    BY <1>1, <2>2, <2>3
  <2>5. L(k) = Strip(L(k - 1), t[k]) /\ TypedCall(t[k])
    BY <1>1, <1>10, <2>4, Zenon
  <2> HIDE DEF L
  <2>6. L(k - 1) \in Text
    BY <2>1, <2>4
  <2> QED
    BY <2>2, <2>5, <2>6, StripTyped
<1>12. \A k : BareExpr(s, k) = L(k)
  BY Zenon DEF BareExpr, C, u, t
<1>13. BareExpr(s, 0) = u
  BY <1>9, <1>12, Zenon
<1>14. ASSUME NEW k \in 1..n PROVE BareExpr(s, k) = Strip(BareExpr(s, k - 1), t[k])
  BY <1>10, <1>12, Zenon
<1>15. ASSUME NEW k \in 0..n PROVE BareExpr(s, k) \in Text
  <2>1. k \in Nat /\ k <= n
    BY <1>1
  <2> QED
    BY <1>11, <1>12, <2>1, Zenon
<1>16. FoldLeft(Strip, u, t) = BareExpr(s, n)
  <2>1. FoldLeft(Strip, u, t) = C[DOMAIN t]
    BY FoldIsStripping DEF C
  <2> QED
    BY <1>1, <1>12, <2>1, Zenon
<1> QED
  BY <1>13, <1>14, <1>15, <1>16, Zenon DEF BareSteps, n, t, u

\* What a call that is not erased adds in front.
KeptOf(c) == IF IsErased(c) THEN <<>> ELSE Open(c)

LEMMA KeptNext ==
  ASSUME NEW s, TypedStmt(s), NEW k \in 0..Len(s.calls)
  PROVE  /\ KeptBefore(s, k) \in Text
         /\ k = Len(s.calls) => KeptBefore(s, k) = s.head
         /\ k # Len(s.calls) => KeptBefore(s, k) = KeptBefore(s, k + 1) \o KeptOf(s.calls[k + 1])
<1> DEFINE K == Len(s.calls)
           Q(m) == [j \in 1..m |-> KeptOf(s.calls[K + 1 - j])]
           h == s.head
<1>1. K \in Nat /\ k \in 0..K /\ h \in Text
  BY StmtCalls
<1>2. \A l : KeptBefore(s, l) = h \o FlattenSeq(Q(K - l))
  BY Zenon DEF KeptBefore, KeptOf
<1>3. \A j \in 1..K : KeptOf(s.calls[K + 1 - j]) \in Text
  <2>1. \A j \in 1..K : K + 1 - j \in 1..K
    <3> HIDE DEF K
    <3> QED
      BY <1>1
  <2>2. <<>> \in Text
    BY DEF Text
  <2> QED
    BY <2>1, <2>2, StmtCalls, CallTexts DEF KeptOf
<1>4. \A m \in 0..K : FlattenSeq(Q(m)) \in Text
  <2> SUFFICES ASSUME NEW m \in 0..K PROVE FlattenSeq(Q(m)) \in Text
    OBVIOUS
  <2>1. \A j \in 1..m : j \in 1..K
    <3> HIDE DEF K
    <3> QED
      BY <1>1
  <2>2. m \in Nat
    <3> HIDE DEF K
    <3> QED
      BY <1>1
  <2> DEFINE q == Q(m)
  <2>3. q = [j \in 1..m |-> q[j]] /\ \A j \in 1..m : q[j] \in Text
    <3> HIDE DEF K
    <3> QED
      BY <1>3, <2>1
  <2> HIDE DEF q
  <2>4. q \in Seq(Text)
    BY <2>2, <2>3, Listing
  <2>5. FlattenSeq(q) \in Text
    BY <2>4, FlattenJoined DEF Text
  <2> QED
    BY <2>5 DEF q
<1>5. KeptBefore(s, k) \in Text
  <2>1. K - k \in 0..K
    <3> HIDE DEF K
    <3> QED
      BY <1>1
  <2> DEFINE x == FlattenSeq(Q(K - k))
  <2>2. x \in Text
    BY <1>4, <2>1
  <2> HIDE DEF x, h
  <2>3. h \o x \in Text
    BY <1>1, <2>2, Joins
  <2> QED
    BY <1>2, <2>3 DEF x
<1>6. CASE k = K
  <2>1. KeptBefore(s, k) = h \o FlattenSeq(Q(0))
    <3>1. K - k = 0
      <4> HIDE DEF K
      <4> QED
        BY <1>1, <1>6
    <3> HIDE DEF Q, K
    <3> QED
      BY <1>2, <3>1
  <2>2. Q(0) = <<>>
    <3> HIDE DEF K
    <3> QED
      OBVIOUS
  <2>3. FlattenSeq(<<>>) = <<>>
    <3>1. <<>> \in Seq(Seq(Words)) /\ Len(<<>>) = 0
      OBVIOUS
    <3>2. FlattenSeq(<<>>) = Joined(<<>>, Len(<<>>))
      BY <3>1, FlattenJoined
    <3> QED
      BY <3>1, <3>2 DEF Joined
  <2>4. h \o <<>> = h
    BY <1>1, NothingJoined DEF Text
  <2> HIDE DEF Q, K
  <2>5. KeptBefore(s, k) = h
    BY <2>1, <2>2, <2>3, <2>4
  <2> QED
    BY <1>5, <1>6, <2>5 DEF K
<1>7. CASE k # K
  <2> DEFINE n == K - (k + 1)
             q == Q(n + 1)
             p == Q(n)
             w == KeptOf(s.calls[k + 1])
  <2>1. /\ n \in Nat /\ K - k = n + 1 /\ n + 1 \in 1..(n + 1)
        /\ K + 1 - (n + 1) = k + 1 /\ n \in 0..K
        /\ \A j \in 1..(n + 1) : j \in 1..K
        /\ \A j \in 1..n : j \in 1..(n + 1)
    <3> HIDE DEF K
    <3> QED
      BY <1>1, <1>7
  <2>2. KeptBefore(s, k) = h \o FlattenSeq(q) /\ KeptBefore(s, k + 1) = h \o FlattenSeq(p)
    <3>1. KeptBefore(s, k + 1) = h \o FlattenSeq(Q(K - (k + 1)))
      <4> HIDE DEF Q, K
      <4> QED
        BY <1>2
    <3>2. KeptBefore(s, k) = h \o FlattenSeq(Q(n + 1))
      <4> HIDE DEF Q, K, n
      <4> QED
        BY <1>1, <1>2, <2>1
    <3> QED
      BY <3>1, <3>2
  <2>3. FlattenSeq(p) \in Text
    BY <1>4, <2>1
  <2> HIDE DEF K, n
  <2>4. /\ q = [j \in 1..(n + 1) |-> q[j]] /\ \A j \in 1..(n + 1) : q[j] \in Seq(Words)
        /\ q[n + 1] = w
    BY <1>3, <2>1 DEF Text
  <2>5. p = [j \in 1..n |-> q[j]]
    BY <2>1
  <2>6. w \in Text
    <3>1. q[n + 1] \in Seq(Words)
      BY <2>1, <2>4
    <3> QED
      BY <2>4, <3>1 DEF Text
  <2> HIDE DEF q, p, w, h
  <2>7. FlattenSeq(q) = FlattenSeq(p) \o q[n + 1]
    BY <2>1, <2>4, <2>5, FlattenAppended
  <2> DEFINE x == FlattenSeq(p)
  <2> HIDE DEF x
  <2>8. h \o (x \o w) = (h \o x) \o w
    BY <1>1, <2>3, <2>6 DEF Text, x
  <2>9. KeptBefore(s, k) = KeptBefore(s, k + 1) \o w
    BY <2>2, <2>4, <2>7, <2>8 DEF x
  <2> QED
    BY <1>5, <1>7, <2>9 DEF K, w
<1> QED
  BY <1>6, <1>7

------------------------------------------------------------------------------
(* Rewriter: an expression is read as it is without its contracts.         *)

LEMMA QuietJoin ==
  ASSUME NEW u \in Tokens, NEW v \in Tokens, ~Ends(u), ~Ends(v)
  PROVE  ~Ends(u \o v)
<1>1. CASE v = <<>>
  <2>1. u \o v = u
    BY <1>1, NothingJoined DEF Tokens
  <2> QED
    BY <2>1
<1>2. CASE v # <<>>
  <2>1. u \o v # <<>> /\ Last(u \o v) = Last(v)
    BY <1>2, SomethingJoined DEF Tokens
  <2> QED
    BY <1>2, <2>1 DEF Ends
<1> QED
  BY <1>1, <1>2

\* A line break behind text that calls for more, at the start of a line.
LEMMA QuietRead ==
  ASSUME NEW u \in Tokens, ~Ends(u), NEW t \in Text
  PROVE  /\ After(u, t) \in Tokens
         /\ ~Ends(Lexed(t)) => Lex(After(u, t), NL) = After(u, t)
<1>1. t \in Tokens /\ <<>> \in Tokens
  BY TextTokens DEF Tokens
<1>2. After(u, t) \in Tokens /\ After(<<>>, t) \in Tokens /\ Lexed(t) = After(<<>>, t)
  BY <1>1, ReadAll DEF Lexed
<1>3. After(u, t) = u \o After(<<>>, t)
  BY <1>1, AfterQuiet
<1>4. ~Ends(Lexed(t)) => ~Ends(After(u, t))
  BY <1>2, <1>3, QuietJoin
<1> QED
  BY <1>2, <1>4, LexWhite

\* A statement read from the start of a line.
FromLine(f, i) ==
  /\ f \in Files /\ i \in 1..Len(f.stmts) /\ ~IsWhole(f.stmts[i]) /\ Unbroken(f.stmts[i])
  /\ ~Ends(ReadAt(f, LineOf(f, i)))

LEMMA StartRead ==
  ASSUME NEW f, NEW i, FromLine(f, i), NEW k \in 0..Len(f.stmts[i].calls)
  PROVE  /\ ReadAt(f, LineOf(f, i)) \in Tokens
         /\ ReadAt(f, StartOf(f, i, k)) = After(ReadAt(f, LineOf(f, i)), KeptBefore(f.stmts[i], k))
<1> DEFINE s == f.stmts[i]
           K == Len(s.calls)
           u == ReadAt(f, LineOf(f, i))
           R(l) == ReadAt(f, StartOf(f, i, l))
           B(l) == KeptBefore(s, l)
           Bad == {m \in Nat : m <= K /\ R(K - m) # After(u, B(K - m))}
<1>0. f \in Files /\ i \in 1..Len(f.stmts) /\ ~IsWhole(s) /\ Unbroken(s) /\ ~Ends(u)
  BY Zenon DEF FromLine
<1>1. TypedStmt(s) /\ K \in Nat /\ k \in 0..K /\ DOMAIN s.calls = 1..K
  BY <1>0, FilesTyped, StmtCalls
<1>2. u \in Tokens /\ R(K) = After(u, s.head)
  BY <1>0, HeadRead
<1>3. ASSUME NEW l \in 1..K, R(l) = After(u, B(l)) PROVE R(l - 1) = After(u, B(l - 1))
  <2> DEFINE c == s.calls[l]
  <2>1. ReadsAs(R(l), R(l - 1), Open(c), IsErased(c))
    BY <1>0, LevelRead, Zenon DEF LevelReads
  <2>2. l \in 0..K /\ l - 1 \in 0..K /\ l - 1 # K /\ (l - 1) + 1 = l
    <3> HIDE DEF K
    <3> QED
      BY <1>1
  <2>3. B(l) \in Text
    BY <1>1, <2>2, KeptNext
  <2>4. B(l - 1) = B(l) \o KeptOf(c)
    <3>1. (l - 1) # Len(s.calls) => KeptBefore(s, l - 1) = KeptBefore(s, (l - 1) + 1) \o KeptOf(s.calls[(l - 1) + 1])
      BY <1>1, <2>2, KeptNext
    <3> QED
      BY <2>2, <3>1, Zenon
  <2>5. CASE ~IsErased(c)
    <3>1. R(l - 1) = After(R(l), Open(c))
      BY <2>1, <2>5, Zenon DEF ReadsAs
    <3>2. KeptOf(c) = Open(c)
      BY <2>5 DEF KeptOf
    <3>3. Open(c) \in Text
      BY <1>1, StmtCalls, CallTexts
    <3>4. Open(c) \in Tokens /\ B(l) \in Tokens
      BY <2>3, <3>3, TextTokens
    <3>5. After(u, B(l) \o Open(c)) = After(After(u, B(l)), Open(c))
      <4> HIDE DEF u, B, c
      <4> QED
        BY <1>2, <3>4, AfterJoined
    <3> QED
      BY <1>3, <2>4, <3>1, <3>2, <3>5, Zenon
  <2>6. CASE IsErased(c)
    <3>1. R(l - 1) \in {R(l), Lex(R(l), NL)} /\ (NL \notin ToSet(Open(c)) => R(l - 1) = R(l))
      BY <2>1, <2>6, Zenon DEF ReadsAs
    <3>2. B(l - 1) = B(l)
      <4>1. KeptOf(c) = <<>>
        BY <2>6 DEF KeptOf
      <4>2. B(l) \o <<>> = B(l)
        <5> HIDE DEF B
        <5> QED
          BY <2>3, NothingJoined DEF Text
      <4> QED
        BY <2>4, <4>1, <4>2, Zenon
    <3>3. NL \in ToSet(Open(c)) => ~Ends(Lexed(B(l)))
      <4>1. l \in DOMAIN s.calls
        BY <1>1
      <4> QED
        BY <1>0, <2>6, <4>1, Zenon DEF Unbroken
    <3>4. ~Ends(Lexed(B(l))) => Lex(After(u, B(l)), NL) = After(u, B(l))
      <4> HIDE DEF u, B
      <4> QED
        BY <1>0, <1>2, <2>3, QuietRead
    <3>5. R(l - 1) = R(l)
      <4>1. CASE NL \in ToSet(Open(c))
        BY <1>3, <3>1, <3>3, <3>4, <4>1
      <4>2. CASE NL \notin ToSet(Open(c))
        BY <3>1, <4>2
      <4> QED
        BY <4>1, <4>2
    <3> QED
      BY <1>3, <3>2, <3>5, Zenon
  <2> QED
    BY <2>5, <2>6
<1>4. B(K) = s.head
  <2>1. K \in 0..K
    BY <1>1
  <2> QED
    BY <1>1, <2>1, KeptNext
<1> HIDE DEF R, B, K, u
<1>5. Bad = {}
  <2> SUFFICES ASSUME Bad # {} PROVE FALSE
    OBVIOUS
  <2>1. PICK m \in Bad : \A j \in Bad : m <= j
    <3>1. Bad \subseteq Nat
      OBVIOUS
    <3> HIDE DEF Bad
    <3> QED
      BY <3>1, LeastNat
  <2>2. m \in Nat /\ m <= K /\ R(K - m) # After(u, B(K - m))
    OBVIOUS
  <2>3. m # 0
    <3> SUFFICES ASSUME m = 0 PROVE FALSE
      OBVIOUS
    <3>1. K - m = K
      BY <1>1
    <3> QED
      BY <1>2, <1>4, <2>2, <3>1, Zenon
  <2> DEFINE l == K - m + 1
  <2>4. m - 1 \in Nat /\ m - 1 <= K /\ ~(m <= m - 1) /\ l \in 1..K /\ K - (m - 1) = l /\ l - 1 = K - m
    BY <1>1, <2>2, <2>3
  <2>5. R(l) = After(u, B(l))
    <3> HIDE DEF l
    <3> QED
      BY <2>1, <2>4
  <2> HIDE DEF l
  <2>6. R(l - 1) = After(u, B(l - 1))
    BY <1>3, <2>4, <2>5
  <2> QED
    BY <2>2, <2>4, <2>6
<1>6. K - k \in Nat /\ K - k <= K /\ K - (K - k) = k
  BY <1>1
<1>7. R(k) = After(u, B(k))
  BY <1>5, <1>6
<1> QED
  BY <1>2, <1>7 DEF R, B, u

\* Level k is read as without contracts, and a line break may follow it.
EndReads(f, i, k) ==
  LET v == After(ReadAt(f, StartOf(f, i, k)), BareExpr(f.stmts[i], k))
      w == ReadAt(f, EndOf(f, i, k))
  IN  /\ v \in Tokens /\ (w = v \/ (w = Lex(v, NL) /\ NothingBehind(f.stmts[i], k)))

LEMMA EndReadNext ==
  ASSUME NEW f, NEW i, FromLine(f, i), NEW k \in 1..Len(f.stmts[i].calls), EndReads(f, i, k - 1)
  PROVE  EndReads(f, i, k)
<1> DEFINE s == f.stmts[i]
           K == Len(s.calls)
           c == s.calls[k]
           m == EndOf(f, i, k - 1) + Len(Close(c))
           a == ReadAt(f, StartOf(f, i, k))
           b == ReadAt(f, StartOf(f, i, k - 1))
           x == BareExpr(s, k - 1)
           y == BareExpr(s, k)
           w == ReadAt(f, EndOf(f, i, k - 1))
           z == ReadAt(f, m)
           e == ReadAt(f, EndOf(f, i, k))
           v == After(b, x)
           o == Open(c)
           p == Close(c)
           d == c.post
<1>0. f \in Files /\ i \in 1..Len(f.stmts) /\ ~IsWhole(s) /\ Unbroken(s)
  BY Zenon DEF FromLine
<1>1. TypedStmt(s) /\ K \in Nat /\ DOMAIN s.calls = 1..K /\ TypedCall(c) /\ k \in 1..K
  BY <1>0, FilesTyped, StmtCalls
<1>2. ReadsAs(a, b, o, IsErased(c)) /\ ReadsAs(w, z, p, IsErased(c)) /\ ReadsAs(z, e, d, FALSE)
  BY <1>0, LevelRead, Zenon DEF LevelReads
<1>3. v \in Tokens /\ (w = v \/ (w = Lex(v, NL) /\ NothingBehind(s, k - 1)))
  BY Zenon DEF EndReads
<1>4. k \in 0..K /\ k - 1 \in 0..K /\ k > k - 1
  <2> HIDE DEF K
  <2> QED
    BY <1>1
<1>5. y = Strip(x, c) /\ x \in Text /\ y \in Text
  <2>1. BareSteps(s)
    BY <1>1, BareKnown
  <2> QED
    BY <1>4, <2>1, Zenon DEF BareSteps
<1>6. o \in Text /\ p \in Text /\ d \in Text
  BY <1>1, CallTexts DEF TypedCall
<1>7. x \in Tokens /\ y \in Tokens /\ o \in Tokens /\ p \in Tokens /\ d \in Tokens
  BY <1>5, <1>6, TextTokens
<1>8. a \in Tokens /\ e = After(z, d) /\ w \in Tokens /\ z \in Tokens
  BY <1>2, Zenon DEF ReadsAs
<1>9. NothingBehind(s, k - 1) <=>
        s.tail = <<>> /\ \A j \in DOMAIN s.calls : j > k - 1 => IsErased(s.calls[j]) /\ s.calls[j].post = <<>>
  BY Zenon DEF NothingBehind
<1>10. NothingBehind(s, k - 1) => IsErased(c) /\ d = <<>>
  BY <1>1, <1>4, <1>9, Zenon
<1>11. NothingBehind(s, k - 1) => NothingBehind(s, k)
  <2>1. \A j \in 1..K : j > k => j > k - 1
    <3> HIDE DEF K
    <3> QED
      BY <1>1
  <2> QED
    BY <1>1, <1>9, <2>1, Zenon DEF NothingBehind
<1>12. CASE ~IsErased(c)
  <2>1. b = After(a, o) /\ z = After(w, p)
    BY <1>2, <1>12, Zenon DEF ReadsAs
  <2>2. w = v
    BY <1>3, <1>10, <1>12
  <2>3. y = o \o x \o p \o d
    BY <1>5, <1>12, Zenon DEF Strip, Around
  <2> HIDE DEF a, b, x, y, w, z, e, v, o, p, d
  <2>4. o \o x \in Tokens /\ (o \o x) \o p \in Tokens
    BY <1>7, TokensJoin
  <2>5. After(a, o \o x) = After(After(a, o), x)
    BY <1>7, <1>8, AfterJoined
  <2>6. After(a, (o \o x) \o p) = After(After(a, o \o x), p)
    <3> DEFINE ox == o \o x
    <3>1. ox \in Tokens
      BY <2>4
    <3> HIDE DEF ox
    <3>2. After(a, ox \o p) = After(After(a, ox), p)
      BY <1>7, <1>8, <3>1, AfterJoined
    <3> QED
      BY <3>2 DEF ox
  <2>7. After(a, y) = After(After(a, (o \o x) \o p), d)
    <3> DEFINE ox == (o \o x) \o p
    <3>1. ox \in Tokens
      BY <2>4
    <3> HIDE DEF ox
    <3>2. After(a, ox \o d) = After(After(a, ox), d)
      BY <1>7, <1>8, <3>1, AfterJoined
    <3> QED
      BY <2>3, <3>2 DEF ox
  <2>8. After(b, x) = v
    BY DEF v
  <2>9. e = After(a, y)
    BY <1>8, <2>1, <2>2, <2>5, <2>6, <2>7, <2>8, Zenon
  <2>10. After(a, y) \in Tokens
    BY <1>7, <1>8, ReadAll
  <2> QED
    BY <2>9, <2>10, Zenon DEF EndReads, a, y, e, s
<1>13. CASE IsErased(c)
  <2>1. b = a
    <3>1. StartOf(f, i, k) = StartOf(f, i, k) /\ KeptBefore(s, k - 1) = KeptBefore(s, k)
      <4>1. (k - 1) # Len(s.calls) => KeptBefore(s, k - 1) = KeptBefore(s, (k - 1) + 1) \o KeptOf(s.calls[(k - 1) + 1])
        BY <1>1, <1>4, KeptNext
      <4>2. (k - 1) # K /\ (k - 1) + 1 = k
        <5> HIDE DEF K
        <5> QED
          BY <1>1
      <4>3. KeptOf(c) = <<>>
        BY <1>13 DEF KeptOf
      <4>4. KeptBefore(s, k - 1) = KeptBefore(s, k) \o <<>>
        BY <4>1, <4>2, <4>3, Zenon
      <4>5. KeptBefore(s, k) \in Text
        BY <1>1, <1>4, KeptNext
      <4>6. KeptBefore(s, k) \o <<>> = KeptBefore(s, k)
        BY <4>5, NothingJoined DEF Text
      <4> QED
        BY <4>4, <4>6, Zenon
    <3>2. a = After(ReadAt(f, LineOf(f, i)), KeptBefore(s, k))
      BY <1>4, StartRead
    <3>3. b = After(ReadAt(f, LineOf(f, i)), KeptBefore(s, k - 1))
      BY <1>4, StartRead
    <3> QED
      BY <3>1, <3>2, <3>3, Zenon
  <2>2. z \in {w, Lex(w, NL)} /\ (NL \notin ToSet(p) => z = w)
    BY <1>2, <1>13, Zenon DEF ReadsAs
  <2>3. y = x \o d
    BY <1>5, <1>13, Zenon DEF Strip
  <2>4. NL \in ToSet(p) => d = <<>> /\ NothingBehind(s, k)
    <3>1. k \in DOMAIN s.calls
      BY <1>1
    <3> QED
      BY <1>0, <1>13, <3>1, Zenon DEF Unbroken
  <2>5. z = v \/ (z = Lex(v, NL) /\ NothingBehind(s, k) /\ d = <<>>)
    <3>1. Lex(Lex(v, NL), NL) = Lex(v, NL)
      <4> HIDE DEF v
      <4> QED
        BY <1>3, LineEnded, LexWhite
    <3>2. CASE w = v
      <4>1. z = v \/ (z = Lex(v, NL) /\ NL \in ToSet(p))
        BY <2>2, <3>2
      <4> QED
        BY <2>4, <4>1
    <3>3. CASE w = Lex(v, NL) /\ NothingBehind(s, k - 1)
      <4>1. z = Lex(v, NL)
        BY <2>2, <3>1, <3>3
      <4> QED
        BY <1>10, <1>11, <3>3, <4>1
    <3> QED
      BY <1>3, <3>2, <3>3
  <2>6. After(a, x) = v
    BY <2>1
  <2> HIDE DEF a, b, x, y, w, z, e, v, o, p, d
  <2>7. After(a, y) = After(v, d)
    <3>1. After(a, x \o d) = After(After(a, x), d)
      BY <1>7, <1>8, AfterJoined
    <3> QED
      BY <2>3, <2>6, <3>1, Zenon
  <2>8. After(a, y) \in Tokens
    BY <1>7, <1>8, ReadAll
  <2>9. CASE z = v
    <3>1. e = After(a, y)
      BY <1>8, <2>7, <2>9, Zenon
    <3> QED
      BY <2>8, <3>1, Zenon DEF EndReads, a, y, e, s
  <2>10. CASE z = Lex(v, NL) /\ NothingBehind(s, k) /\ d = <<>>
    <3>1. After(z, <<>>) = z /\ After(v, <<>>) = v
      BY <1>3, <1>8, AfterNone
    <3>2. e = Lex(After(a, y), NL)
      BY <1>8, <2>7, <2>10, <3>1, Zenon
    <3> QED
      BY <2>8, <2>10, <3>2, Zenon DEF EndReads, a, y, e, s
  <2> QED
    BY <2>5, <2>9, <2>10
<1> QED
  BY <1>12, <1>13

LEMMA EndRead ==
  ASSUME NEW f, NEW i, FromLine(f, i)
  PROVE  EndReads(f, i, Len(f.stmts[i].calls))
<1> DEFINE s == f.stmts[i]
           K == Len(s.calls)
           Q(l) == EndReads(f, i, l)
           Bad == {l \in Nat : l <= K /\ ~Q(l)}
<1>0. f \in Files /\ i \in 1..Len(f.stmts) /\ ~IsWhole(s)
  BY Zenon DEF FromLine
<1>1. TypedStmt(s) /\ K \in Nat
  BY <1>0, FilesTyped, StmtCalls
<1>2. Q(0)
  <2> DEFINE v == ReadAt(f, StartOf(f, i, 0))
             w == ReadAt(f, EndOf(f, i, 0))
             x == BareExpr(s, 0)
  <2>1. v \in Tokens /\ w = After(v, <<s.atom>>)
    BY <1>0, AtomRead
  <2>2. x = <<s.atom>> /\ x \in Text
    <3>1. 0 \in 0..K
      BY <1>1
    <3> QED
      BY <1>1, <3>1, BareKnown, Zenon DEF BareSteps
  <2>3. x \in Tokens
    BY <2>2, TextTokens
  <2> HIDE DEF v, w, x
  <2>4. After(v, x) \in Tokens /\ w = After(v, x)
    BY <2>1, <2>2, <2>3, ReadAll
  <2> QED
    BY <2>4, Zenon DEF EndReads, v, w, x
<1>3. \A l \in 1..K : Q(l - 1) => Q(l)
  BY EndReadNext
<1> HIDE DEF Q, K
<1>4. Bad = {}
  <2> SUFFICES ASSUME Bad # {} PROVE FALSE
    OBVIOUS
  <2>1. PICK l \in Bad : \A j \in Bad : l <= j
    <3>1. Bad \subseteq Nat
      OBVIOUS
    <3> HIDE DEF Bad
    <3> QED
      BY <3>1, LeastNat
  <2>2. l \in Nat /\ l <= K /\ ~Q(l)
    OBVIOUS
  <2>3. l # 0
    BY <1>2, <2>2
  <2>4. l \in 1..K /\ l - 1 \in Nat /\ l - 1 <= K /\ ~(l <= l - 1)
    BY <1>1, <2>2, <2>3
  <2>5. Q(l - 1)
    BY <2>1, <2>4
  <2> QED
    BY <1>3, <2>2, <2>4, <2>5
<1>5. K \in Nat /\ K <= K
  BY <1>1
<1> QED
  BY <1>4, <1>5 DEF Q, K

------------------------------------------------------------------------------
(* Rewriter: statements, and the file.                                     *)

\* A statement reads as it would without contracts, and ends its line.
StmtReads(f, i) ==
  LET v == ReadAt(f, LineOf(f, i + 1))
  IN  /\ Bare(f.stmts[i]) \in Text /\ v \in Tokens
      /\ v = After(ReadAt(f, LineOf(f, i)), Bare(f.stmts[i])) /\ ~Ends(v)

LEMMA OtherRead ==
  ASSUME NEW f, NEW i, FromLine(f, i)
  PROVE  StmtReads(f, i)
<1> DEFINE s == f.stmts[i]
           K == Len(s.calls)
           u == ReadAt(f, LineOf(f, i))
           a == ReadAt(f, StartOf(f, i, K))
           w == ReadAt(f, EndOf(f, i, K))
           n == ReadAt(f, LineOf(f, i + 1))
           h == s.head
           x == BareExpr(s, K)
           t == s.tail
           g == h \o x
           r == g \o t
           v == After(a, x)
<1>0. f \in Files /\ i \in 1..Len(f.stmts) /\ ~IsWhole(s)
  BY Zenon DEF FromLine
<1>1. TypedStmt(s) /\ K \in Nat /\ h \in Text /\ t \in Text
  BY <1>0, FilesTyped, StmtCalls
<1>2. x \in Text /\ FoldLeft(Strip, <<s.atom>>, s.calls) = x
  <2>1. K \in 0..K
    BY <1>1
  <2> QED
    BY <1>1, <2>1, BareKnown, Zenon DEF BareSteps
<1>3. u \in Tokens /\ a = After(u, h)
  BY <1>0, HeadRead
<1>4. v \in Tokens /\ (w = v \/ (w = Lex(v, NL) /\ NothingBehind(s, K)))
  BY EndRead, Zenon DEF EndReads
<1>5. w \in Tokens /\ n = Lex(After(w, t), NL)
  BY <1>0, TailRead
<1>6. NothingBehind(s, K) => t = <<>>
  BY Zenon DEF NothingBehind
<1>7. Bare(s) = r \o <<NL>>
  BY <1>0, <1>2, Zenon DEF Bare
<1>8. <<NL>> \in Text /\ NL \in Lexemes
  BY TextAssumption, OneWord DEF TextAssumption, Lexemes
<1> HIDE DEF u, a, w, n, h, x, t, v, s
<1>9. g \in Text /\ r \in Text
  BY <1>1, <1>2, Joins
<1>10. h \in Tokens /\ x \in Tokens /\ t \in Tokens
  BY <1>1, <1>2, TextTokens
<1>11. g \in Tokens /\ r \in Tokens /\ <<NL>> \in Tokens
  BY <1>8, <1>9, TextTokens
<1>12. r \o <<NL>> \in Text
  <2> HIDE DEF r
  <2> QED
    BY <1>8, <1>9, Joins
<1>13. After(u, g) = v
  BY <1>3, <1>10, AfterJoined DEF v
<1>14. After(u, r) = After(v, t)
  <2> HIDE DEF g
  <2> QED
    BY <1>3, <1>10, <1>11, <1>13, AfterJoined
<1>15. After(u, r \o <<NL>>) = Lex(After(v, t), NL)
  <2> HIDE DEF r
  <2>1. After(u, r \o <<NL>>) = After(After(u, r), <<NL>>)
    BY <1>3, <1>11, AfterJoined
  <2>2. After(u, r) \in Tokens
    BY <1>3, <1>11, ReadAll
  <2>3. After(After(u, r), <<NL>>) = Lex(After(u, r), NL)
    BY <1>8, <2>2, AfterOne
  <2> QED
    BY <1>14, <2>1, <2>3, Zenon
<1>16. n = Lex(After(v, t), NL)
  <2>1. CASE w = v
    BY <1>5, <2>1, Zenon
  <2>2. CASE w = Lex(v, NL) /\ NothingBehind(s, K)
    <3>1. t = <<>>
      BY <1>6, <2>2
    <3>2. After(w, <<>>) = w /\ After(v, <<>>) = v
      BY <1>4, <1>5, AfterNone
    <3>3. Lex(Lex(v, NL), NL) = Lex(v, NL)
      BY <1>4, LineEnded, LexWhite
    <3> QED
      BY <1>5, <2>2, <3>1, <3>2, <3>3, Zenon
  <2> QED
    BY <1>4, <2>1, <2>2
<1>17. n \in Tokens /\ ~Ends(n)
  <2>1. After(v, t) \in Tokens
    BY <1>4, <1>10, ReadAll
  <2> QED
    BY <1>8, <1>16, <2>1, LexTyped, LineEnded
<1>18. Bare(s) \in Text /\ n = After(u, Bare(s))
  BY <1>7, <1>12, <1>15, <1>16, Zenon
<1> QED
  BY <1>17, <1>18, Zenon DEF StmtReads, n, u, s

LEMMA WholeRead ==
  ASSUME NEW f \in Files, NEW i \in 1..Len(f.stmts), IsWhole(f.stmts[i]), ~Ends(ReadAt(f, LineOf(f, i)))
  PROVE  StmtReads(f, i)
<1> DEFINE s == f.stmts[i]
           K == Len(s.calls)
           X == ExprText(s, K)
           T == FileText(f)
           a == LineOf(f, i)
           b == LineOf(f, i + 1)
           S == StartOf(f, i, K)
           E == EndOf(f, i, K)
           u == ReadAt(f, a)
           w == ReadAt(f, E)
           v == ReadAt(f, b)
           n1 == <<NL>>
<1>1. s.head = <<>> /\ s.tail = <<>>
  BY Zenon DEF IsWhole
<1>2. /\ n1 \in Text /\ a \in Nat /\ K \in Nat
      /\ \A l \in 0..K : ExprText(s, l) \in Text /\ StartOf(f, i, l) \in Nat /\ EndOf(f, i, l) \in Nat
  BY StmtKnows, Zenon DEF StmtKnown
<1>3. /\ S = a + Len(s.head) /\ Stands(X, S, T)
      /\ Stands(n1, E + Len(s.tail), T) /\ b = E + Len(s.tail) + 1
  BY PartsKnown, Zenon DEF PartsStand
<1>4. K \in 0..K /\ Len(<<>>) = 0 /\ Len(n1) = 1
  BY <1>2
<1>5. S \in Nat /\ E \in Nat /\ X \in Text /\ E = S + Len(X)
  BY <1>2, <1>4, Zenon DEF EndOf
<1>6. S = a /\ Stands(n1, E, T) /\ b = E + 1
  <2>1. Len(s.head) = 0 /\ Len(s.tail) = 0
    BY <1>1, <1>4
  <2>2. S = a + 0 /\ Stands(n1, E + 0, T) /\ b = E + 0 + 1
    BY <1>3, <2>1, Zenon
  <2>3. a + 0 = a /\ E + 0 = E
    BY <1>2, <1>5
  <2> QED
    BY <2>2, <2>3, Zenon
<1>7. WholeEdit(f, i) \in CollectRewrites(f)
  <2>1. DOMAIN f.stmts = 1..Len(f.stmts)
    BY FilesTyped
  <2>2. EditsOf(f, i) = {WholeEdit(f, i)}
    BY Zenon DEF EditsOf
  <2>3. WholeEdit(f, i) \in EditsOf(f, i)
    BY <2>2
  <2> QED
    BY <2>1, <2>3, Zenon DEF CollectRewrites
<1>8. ASSUME NEW n \in Nat, S < n, n <= S + Len(X) PROVE Touched(f, n) <=> TRUE
  <2>1. Inside(f, i, K, n)
    BY <1>5, <1>8, Zenon DEF Inside
  <2>2. Erases(WholeEdit(f, i), n)
    BY <2>1, WholeTouches
  <2> QED
    BY <1>7, <2>2, Zenon DEF Touched
<1>9. ASSUME NEW n \in Nat, E < n, n <= E + Len(n1) PROVE Touched(f, n) <=> FALSE
  <2> SUFFICES ASSUME Touched(f, n) PROVE FALSE
    OBVIOUS
  <2>1. PICK e \in CollectRewrites(f) : Erases(e, n)
    BY Zenon DEF Touched
  <2>2. a < n /\ n <= b /\ ~(n <= E)
    <3> DEFINE lx == Len(X)
    <3>1. lx \in Nat /\ E = S + lx
      BY <1>5, TextLen
    <3>2. n <= E + 1 /\ E < n
      BY <1>4, <1>9, Zenon
    <3> HIDE DEF a, b, S, E, lx
    <3> QED
      BY <1>2, <1>5, <1>6, <3>1, <3>2
  <2>3. e \in EditsOf(f, i)
    BY <2>1, <2>2, OwnEdits
  <2>4. Inside(f, i, K, n)
    BY <2>1, <2>3, EditInside
  <2> QED
    BY <2>2, <2>4, Zenon DEF Inside
<1>10. ReadsAs(u, w, X, TRUE)
  <2>1. TRUE \in BOOLEAN
    OBVIOUS
  <2>2. \A n \in Nat : S < n /\ n <= S + Len(X) => (Touched(f, n) <=> TRUE)
    BY <1>8
  <2>3. Stands(X, S, FileText(f)) /\ S \in Nat /\ X \in Text
    BY <1>3, <1>5
  <2> HIDE DEF X, S
  <2>4. ReadsAs(ReadAt(f, S), ReadAt(f, S + Len(X)), X, TRUE)
    BY <2>1, <2>2, <2>3, PartRead
  <2> QED
    BY <1>5, <1>6, <2>4, Zenon
<1>11. ReadsAs(w, ReadAt(f, E + Len(n1)), n1, FALSE)
  <2>1. FALSE \in BOOLEAN
    OBVIOUS
  <2>2. \A n \in Nat : E < n /\ n <= E + Len(n1) => (Touched(f, n) <=> FALSE)
    BY <1>9
  <2>3. Stands(n1, E, FileText(f)) /\ E \in Nat /\ n1 \in Text
    BY <1>2, <1>5, <1>6
  <2> HIDE DEF n1, E
  <2> QED
    BY <2>1, <2>2, <2>3, PartRead DEF w
<1>12. ~Ends(u)
  OBVIOUS
<1>13. u \in Tokens /\ w \in {u, Lex(u, NL)} /\ w \in Tokens /\ v = After(w, n1)
  <2>1. E + Len(n1) = b
    BY <1>4, <1>6, Zenon
  <2> QED
    BY <1>10, <1>11, <2>1, Zenon DEF ReadsAs
<1>14. Bare(s) = <<>>
  BY Zenon DEF Bare
<1> HIDE DEF u, w, v, s
<1>15. NL \in Lexemes /\ <<>> \in Text
  BY DEF Lexemes, Text
<1>16. w = u /\ v = u
  <2>1. Lex(u, NL) = u
    BY <1>12, LexWhite
  <2>2. w = u
    BY <1>13, <2>1
  <2>3. After(u, <<NL>>) = Lex(u, NL)
    BY <1>13, <1>15, AfterOne
  <2> QED
    BY <1>13, <2>1, <2>2, <2>3
<1>17. After(u, <<>>) = u
  BY <1>13, AfterNone
<1>18. Bare(s) \in Text /\ v \in Tokens /\ v = After(u, Bare(s)) /\ ~Ends(v)
  BY <1>12, <1>13, <1>14, <1>15, <1>16, <1>17, Zenon
<1> QED
  BY <1>18, Zenon DEF StmtReads, v, u, s

\* The statements before the i-th, without their contracts.
BareBefore(f, i) == FlattenSeq([j \in 1..(i - 1) |-> Bare(f.stmts[j])])

LEMMA BareNext ==
  ASSUME NEW f \in Files, NEW i \in 1..Len(f.stmts), \A j \in 1..i : Bare(f.stmts[j]) \in Text
  PROVE  BareBefore(f, i + 1) = BareBefore(f, i) \o Bare(f.stmts[i])
<1> DEFINE n == i - 1
           q == [j \in 1..(n + 1) |-> Bare(f.stmts[j])]
           p == [j \in 1..n |-> Bare(f.stmts[j])]
<1>1. Len(f.stmts) \in Nat
  BY FilesTyped
<1>2. n \in Nat /\ n + 1 = i /\ (i + 1) - 1 = n + 1 /\ \A j \in 1..n : j \in 1..(n + 1)
  BY <1>1
<1>3. \A j \in 1..i : Bare(f.stmts[j]) \in Text
  OBVIOUS
<1>4. BareBefore(f, i + 1) = FlattenSeq(q) /\ BareBefore(f, i) = FlattenSeq(p)
  <2>1. BareBefore(f, i) = FlattenSeq(p)
    BY Zenon DEF BareBefore
  <2>2. BareBefore(f, i + 1) = FlattenSeq([j \in 1..((i + 1) - 1) |-> Bare(f.stmts[j])])
    BY Zenon DEF BareBefore
  <2> HIDE DEF n
  <2> QED
    BY <1>2, <2>1, <2>2, Zenon
<1>5. /\ q = [j \in 1..(n + 1) |-> q[j]] /\ \A j \in 1..(n + 1) : q[j] \in Seq(Words)
      /\ q[n + 1] = Bare(f.stmts[i])
  <2>1. n + 1 \in 1..(n + 1)
    BY <1>2
  <2> HIDE DEF n
  <2> QED
    BY <1>2, <1>3, <2>1 DEF Text
<1>6. p = [j \in 1..n |-> q[j]]
  <2> HIDE DEF n
  <2> QED
    BY <1>2
<1> HIDE DEF n, p, q
<1>7. FlattenSeq(q) = FlattenSeq(p) \o q[n + 1]
  BY <1>2, <1>5, <1>6, FlattenAppended
<1> QED
  BY <1>4, <1>5, <1>7

LEMMA FlatNothing == FlattenSeq(<<>>) = <<>>
<1>1. <<>> \in Seq(Seq(Words)) /\ Len(<<>>) = 0
  OBVIOUS
<1>2. FlattenSeq(<<>>) = Joined(<<>>, Len(<<>>))
  BY <1>1, FlattenJoined
<1> QED
  BY <1>1, <1>2 DEF Joined

\* The statements before the i-th are read as without their contracts.
LinesRead(f, i) ==
  LET v == ReadAt(f, LineOf(f, i))
  IN  /\ \A j \in 1..(i - 1) : Bare(f.stmts[j]) \in Text
      /\ BareBefore(f, i) \in Text
      /\ v \in Tokens /\ v = After(<<>>, BareBefore(f, i)) /\ ~Ends(v)

LEMMA LinesReadNext ==
  ASSUME NEW f \in Files, LinesUnbroken(f), NEW i \in 1..Len(f.stmts), LinesRead(f, i)
  PROVE  LinesRead(f, i + 1)
<1> DEFINE s == f.stmts[i]
           u == ReadAt(f, LineOf(f, i))
           v == ReadAt(f, LineOf(f, i + 1))
           B == BareBefore(f, i)
           x == Bare(s)
<1>1. Len(f.stmts) \in Nat
  BY FilesTyped
<1>2. /\ \A j \in 1..(i - 1) : Bare(f.stmts[j]) \in Text
      /\ B \in Text /\ u \in Tokens /\ u = After(<<>>, B) /\ ~Ends(u)
  BY Zenon DEF LinesRead
<1>3. StmtReads(f, i)
  <2>1. CASE IsWhole(s)
    BY <1>2, <2>1, WholeRead
  <2>2. CASE ~IsWhole(s)
    <3>1. s \in ToSet(f.stmts)
      <4>1. DOMAIN f.stmts = 1..Len(f.stmts)
        BY FilesTyped
      <4> QED
        BY <4>1 DEF ToSet
    <3>2. Unbroken(s)
      BY <2>2, <3>1, Zenon DEF LinesUnbroken
    <3>3. FromLine(f, i)
      BY <1>2, <2>2, <3>2, Zenon DEF FromLine
    <3> QED
      BY <3>3, OtherRead
  <2> QED
    BY <2>1, <2>2
<1>4. x \in Text /\ v \in Tokens /\ v = After(u, x) /\ ~Ends(v)
  BY <1>3, Zenon DEF StmtReads
<1>5. \A j \in 1..i : Bare(f.stmts[j]) \in Text
  <2>1. \A j \in 1..i : j \in 1..(i - 1) \/ j = i
    BY <1>1
  <2> QED
    BY <1>2, <1>4, <2>1
<1>6. BareBefore(f, i + 1) = B \o x
  BY <1>5, BareNext
<1>7. B \o x \in Text
  <2> HIDE DEF B, x
  <2> QED
    BY <1>2, <1>4, Joins
<1>8. v = After(<<>>, B \o x)
  <2>1. B \in Tokens /\ x \in Tokens /\ <<>> \in Tokens
    BY <1>2, <1>4, TextTokens DEF Tokens
  <2> HIDE DEF B, x, u, v
  <2>2. After(<<>>, B \o x) = After(After(<<>>, B), x)
    BY <2>1, AfterJoined
  <2> QED
    BY <1>2, <1>4, <2>2, Zenon
<1>9. (i + 1) - 1 = i
  BY <1>1
<1> QED
  BY <1>4, <1>5, <1>6, <1>7, <1>8, <1>9, Zenon DEF LinesRead

LEMMA EveryLine ==
  ASSUME NEW f \in Files, LinesUnbroken(f)
  PROVE  LinesRead(f, Len(f.stmts) + 1)
<1> DEFINE N == Len(f.stmts)
           Q(i) == LinesRead(f, i)
           Bad == {i \in Nat : 1 <= i /\ i <= N + 1 /\ ~Q(i)}
<1>1. N \in Nat
  BY FilesTyped
<1>2. Q(1)
  <2>1. /\ [j \in 1..(1 - 1) |-> StmtText(f.stmts[j])] = <<>>
        /\ [j \in 1..(1 - 1) |-> Bare(f.stmts[j])] = <<>>
    OBVIOUS
  <2>2. Before(f, 1) = <<>> /\ BareBefore(f, 1) = <<>>
    BY <2>1, FlatNothing, Zenon DEF Before, BareBefore
  <2>3. LineOf(f, 1) = 0
    <3>1. Len(<<>>) = 0
      OBVIOUS
    <3> QED
      BY <2>2, <3>1, Zenon DEF LineOf
  <2>4. ReadAt(f, LineOf(f, 1)) = <<>>
    BY <2>3, ReadAtKnown
  <2>5. <<>> \in Text /\ <<>> \in Tokens /\ After(<<>>, <<>>) = <<>>
    <3>1. <<>> \in Text /\ <<>> \in Tokens
      BY DEF Text, Tokens
    <3> QED
      BY <3>1, AfterNone
  <2>6. ~Ends(<<>>)
    BY DEF Ends
  <2>7. \A j \in 1..(1 - 1) : Bare(f.stmts[j]) \in Text
    OBVIOUS
  <2> QED
    BY <2>2, <2>4, <2>5, <2>6, <2>7, Zenon DEF LinesRead
<1>3. \A i \in 1..N : Q(i) => Q(i + 1)
  BY LinesReadNext
<1> HIDE DEF Q, N
<1>4. Bad = {}
  <2> SUFFICES ASSUME Bad # {} PROVE FALSE
    OBVIOUS
  <2>1. PICK i \in Bad : \A j \in Bad : i <= j
    <3>1. Bad \subseteq Nat
      OBVIOUS
    <3> HIDE DEF Bad
    <3> QED
      BY <3>1, LeastNat
  <2>2. i \in Nat /\ 1 <= i /\ i <= N + 1 /\ ~Q(i)
    OBVIOUS
  <2>3. i # 1
    BY <1>2, <2>2
  <2>4. i - 1 \in 1..N /\ i - 1 \in Nat /\ 1 <= i - 1 /\ i - 1 <= N + 1 /\ ~(i <= i - 1) /\ (i - 1) + 1 = i
    BY <1>1, <2>2, <2>3
  <2>5. Q(i - 1)
    BY <2>1, <2>4
  <2>6. Q((i - 1) + 1)
    BY <1>3, <2>4, <2>5
  <2> QED
    BY <2>2, <2>4, <2>6
<1>5. N + 1 \in Nat /\ 1 <= N + 1 /\ N + 1 <= N + 1
  BY <1>1
<1> QED
  BY <1>4, <1>5 DEF Q, N

\* The end of the file.
LEMMA FileRead ==
  ASSUME NEW f \in Files, LinesUnbroken(f)
  PROVE  LET v == ReadAt(f, Len(FileText(f)))
             kept == Lexed(BareText(f))
         IN  v \in Tokens /\ kept \in Tokens /\ kept = Lex(v, NL)
<1> DEFINE N == Len(f.stmts)
           T == FileText(f)
           l == LineOf(f, N + 1)
           B == Before(f, N + 1)
           y == <<Brace>>
           g == B \o y
           e == f.eof
           C == BareBefore(f, N + 1)
           u == ReadAt(f, l)
           x == Lex(u, Brace)
           v == ReadAt(f, Len(T))
           z == ReadAt(f, l + Len(y))
<1>1. N \in Nat /\ DOMAIN f.stmts = 1..N /\ e \in Text /\ e \in Seq({NL}) /\ T \in Text
  BY FilesTyped, FileTexts
<1>2. C \in Text /\ u \in Tokens /\ u = After(<<>>, C)
  BY EveryLine, Zenon DEF LinesRead
<1>3. B \in Text
  <2>1. N + 1 \in 1..(N + 1)
    BY <1>1
  <2> QED
    BY <2>1, BeforeTexts
<1>4. y \in Text /\ Brace \in Lexemes /\ NL \in Lexemes /\ Len(y) = 1
  BY TextAssumption, OneWord DEF TextAssumption, Lexemes
<1>5. l = Len(B) /\ l \in Nat
  BY <1>3, TextLen DEF LineOf
<1>6. T = g \o e
  BY Zenon DEF FileText
<1> HIDE DEF B, y, e, T, N, l
<1>7. g \in Text
  BY <1>3, <1>4, Joins
<1>8. Stands(g, 0, T) /\ Stands(e, Len(g), T) /\ Len(T) = Len(g) + Len(e)
  <2> HIDE DEF g
  <2> QED
    BY <1>1, <1>6, <1>7, StandsBefore, StandsAfter, Joins
<1>9. Stands(y, l, T) /\ Len(g) = l + Len(y)
  <2>1. 0 \in Nat /\ Stands(B \o y, 0, T)
    BY <1>8
  <2>2. Stands(y, 0 + Len(B), T)
    BY <1>1, <1>3, <1>4, <2>1, SplitStands
  <2>3. 0 + Len(B) = l
    BY <1>5
  <2>4. Len(B \o y) = Len(B) + Len(y)
    BY <1>3, <1>4, Joins
  <2> QED
    BY <1>5, <2>2, <2>3, <2>4
<1>10. ASSUME NEW n \in Nat, l < n PROVE ~Touched(f, n)
  <2> SUFFICES ASSUME Touched(f, n) PROVE FALSE
    OBVIOUS
  <2>1. PICK d \in CollectRewrites(f) : Erases(d, n)
    BY Zenon DEF Touched
  <2>2. n < l
    BY <2>1, OwnEdits DEF l, N
  <2> QED
    BY <1>5, <1>10, <2>2
<1>11. z \in Tokens /\ z = After(u, y)
  <2>1. \A n \in Nat : l < n /\ n <= l + Len(y) => ~Touched(f, n)
    BY <1>10
  <2>2. ReadAt(f, l + Len(y)) = After(ReadAt(f, l), y)
    BY <1>4, <1>5, <1>9, <2>1, KeptPart DEF T
  <2>3. y \in Tokens
    BY <1>4, TextTokens
  <2> HIDE DEF u, z
  <2>4. After(u, y) \in Tokens
    BY <1>2, <2>3, ReadAll
  <2> QED
    BY <2>2, <2>4 DEF u, z
<1>12. v = After(z, e)
  <2> DEFINE m == l + Len(y)
  <2>1. m \in Nat /\ l < m /\ m = Len(g)
    BY <1>4, <1>5, <1>9
  <2> HIDE DEF m, g
  <2>2. \A n \in Nat : m < n /\ n <= m + Len(e) => ~Touched(f, n)
    <3>1. \A n \in Nat : m < n => l < n
      BY <1>5, <2>1
    <3> QED
      BY <1>10, <3>1
  <2>3. Stands(e, m, FileText(f)) /\ Len(T) = m + Len(e)
    BY <1>8, <2>1 DEF T
  <2>4. ReadAt(f, m + Len(e)) = After(ReadAt(f, m), e)
    BY <1>1, <2>1, <2>2, <2>3, KeptPart
  <2> QED
    BY <2>3, <2>4 DEF m
<1>13. e \in Gaps
  <2>1. {NL} \subseteq {Blank, NL}
    OBVIOUS
  <2> QED
    BY <1>1, <2>1 DEF Gaps
<1>14. v \in Tokens /\ Lex(v, NL) = Lex(z, NL)
  <2> HIDE DEF z
  <2>1. e \in Tokens
    BY <1>13, GapTokens
  <2>2. After(z, e) \in Tokens
    BY <1>11, <2>1, ReadAll
  <2>3. Lex(After(z, e), NL) = Lex(z, NL)
    BY <1>11, <1>13, GapEnds
  <2> QED
    BY <1>12, <2>2, <2>3
<1> DEFINE w == <<Brace, NL>>
           kept == Lexed(BareText(f))
<1>15. BareText(f) = C \o w
  <2>1. [i \in DOMAIN f.stmts |-> Bare(f.stmts[i])] = [i \in 1..((N + 1) - 1) |-> Bare(f.stmts[i])]
    <3>1. (N + 1) - 1 = N
      BY <1>1
    <3> QED
      BY <1>1, <3>1, Zenon
  <2> QED
    BY <2>1, Zenon DEF BareText, BareBefore
<1>16. w = y \o <<NL>>
  BY DEF y
<1>17. kept = Lex(z, NL) /\ kept \in Tokens
  <2>1. C \in Tokens /\ y \in Tokens /\ <<NL>> \in Tokens /\ <<>> \in Tokens
    <3>1. C \in Tokens /\ y \in Tokens
      BY <1>2, <1>4, TextTokens
    <3>2. <<NL>> \in Tokens /\ <<>> \in Tokens
      BY <1>4, AfterOne DEF Tokens
    <3> QED
      BY <3>1, <3>2
  <2> HIDE DEF C, u, z
  <2>2. w \in Tokens
    BY <1>16, <2>1, TokensJoin
  <2>3. After(u, w) = After(z, <<NL>>)
    <3>1. After(u, y \o <<NL>>) = After(After(u, y), <<NL>>)
      BY <1>2, <2>1, AfterJoined
    <3> QED
      BY <1>11, <1>16, <3>1, Zenon
  <2>4. After(z, <<NL>>) = Lex(z, NL)
    BY <1>4, <1>11, AfterOne
  <2> HIDE DEF w
  <2>5. After(<<>>, C \o w) = After(After(<<>>, C), w) /\ C \o w \in Tokens
    BY <2>1, <2>2, AfterJoined, TokensJoin
  <2>6. FoldLeft(Lex, <<>>, C \o w) = After(<<>>, C \o w) /\ After(<<>>, C \o w) \in Tokens
    BY <2>1, <2>5, ReadAll
  <2>7. kept = After(<<>>, C \o w)
    BY <1>15, <2>6, Zenon DEF Lexed
  <2> QED
    BY <1>2, <2>3, <2>4, <2>5, <2>6, <2>7, Zenon
<1> QED
  BY <1>14, <1>17, Zenon DEF T

------------------------------------------------------------------------------
(* Rewriter: what is appended.                                             *)

\* What a sentinel uses.
Uses == Words \cap Ending

\* What is read of a text and a line break behind it.
Line(t) == Lex(After(<<>>, t), NL)

LEMMA ThreeMore ==
  ASSUME NEW X, NEW z \in Seq(X), NEW a \in X, NEW b \in X, NEW c \in X
  PROVE  /\ Append(Append(Append(z, a), b), c) = z \o <<a, b, c>>
         /\ <<a, b, c>> \in Seq(X)
         /\ Len(<<a, b, c>>) = 3 /\ <<a, b, c>>[1] = a /\ <<a, b, c>>[2] = b /\ <<a, b, c>>[3] = c
OBVIOUS

\* The words of a declaration, and what is read of them.
LEMMA Declared ==
  ASSUME NEW z \in Tokens, NEW w \in Lexemes
  PROVE  /\ Append(Append(Append(z, Declare), w), ";") = z \o <<Declare, w, ";">>
         /\ <<Declare, w, ";">> \in Tokens /\ Len(<<Declare, w, ";">>) = 3
         /\ <<Declare, w, ";">>[1] = Declare /\ <<Declare, w, ";">>[2] = w /\ <<Declare, w, ";">>[3] = ";"
<1> DEFINE X == Lexemes
<1>1. z \in Seq(X) /\ w \in X /\ Declare \in X /\ ";" \in X
  BY DEF Tokens, Lexemes
<1> HIDE DEF X
<1>2. ASSUME NEW a \in X, NEW c \in X
      PROVE  /\ Append(Append(Append(z, a), w), c) = z \o <<a, w, c>>
             /\ <<a, w, c>> \in Seq(X)
             /\ Len(<<a, w, c>>) = 3 /\ <<a, w, c>>[1] = a /\ <<a, w, c>>[2] = w /\ <<a, w, c>>[3] = c
  BY <1>1, <1>2, ThreeMore
<1>3. /\ Append(Append(Append(z, Declare), w), ";") = z \o <<Declare, w, ";">>
      /\ <<Declare, w, ";">> \in Seq(X) /\ Len(<<Declare, w, ";">>) = 3
      /\ <<Declare, w, ";">>[1] = Declare /\ <<Declare, w, ";">>[2] = w /\ <<Declare, w, ";">>[3] = ";"
  BY <1>1, <1>2, Zenon
<1> QED
  BY <1>3 DEF Tokens, X

LEMMA TokensMore ==
  /\ \A u, v \in Tokens : u \o v \in Tokens /\ Len(u \o v) = Len(u) + Len(v) /\ Len(u) \in Nat
  /\ \A u \in Tokens, x \in Lexemes : Append(u, x) \in Tokens
<1> DEFINE X == Lexemes
<1> HIDE DEF X
<1>1. \A u, v \in Seq(X) : u \o v \in Seq(X) /\ Len(u \o v) = Len(u) + Len(v) /\ Len(u) \in Nat
  BY Concatenated
<1>2. \A u \in Seq(X), x \in X : Append(u, x) \in Seq(X)
  OBVIOUS
<1> QED
  BY <1>1, <1>2 DEF Tokens, X

LEMMA UsesKnown ==
  /\ Uses \subseteq Lexemes /\ {NL, Declare, ";", Comment} \subseteq Lexemes
  /\ \A w \in Uses : w \in Ending /\ w \notin {NL, Blank, Comment, Declare, ";"}
  /\ ";" \notin Ending /\ Declare \notin {NL, Blank, Comment, ";"} /\ ";" \notin {NL, Blank, Comment}
<1>1. Ending \cap {NL, Blank, Comment, Declare, ";"} = {}
  BY TextAssumption DEF TextAssumption
<1>2. Declare \notin {NL, Blank, Comment, ";"} /\ ";" \notin {NL, Blank, Comment}
  BY DEF Declare, NL, Blank, Comment
<1> QED
  BY <1>1, <1>2 DEF Uses, Lexemes

LEMMA LineAppended ==
  ASSUME NEW t \in Tokens, t # <<>>, NEW w \in Uses
  PROVE  LET r == AppendSentinel(t, w)
         IN  /\ r \in Tokens /\ r # <<>> /\ Line(t) \in Tokens
             /\ Line(r) = Line(t) \o <<Declare, w, ";">> /\ After(<<>>, r) = Line(r)
<1> DEFINE v == IF Last(t) # NL THEN <<NL>> ELSE <<>>
           d == <<Declare, w, NL>>
           u == After(<<>>, t)
           b == t \o v
           r == b \o d
           z == Lex(u, NL)
<1>0. AppendSentinel(t, w) = r
  BY Zenon DEF AppendSentinel
<1>1. NL \in Lexemes /\ Declare \in Lexemes /\ w \in Lexemes /\ ";" \in Lexemes
  BY UsesKnown
<1>2. <<>> \in Tokens /\ <<NL>> \in Tokens /\ v \in Tokens
  <2>1. <<>> \in Tokens
    BY DEF Tokens
  <2>2. <<NL>> \in Tokens
    BY <1>1, <2>1, AfterOne
  <2> QED
    BY <2>1, <2>2
<1>3. u \in Tokens
  BY <1>2, ReadAll
<1>4. z \in Tokens
  <2> HIDE DEF u
  <2> QED
    BY <1>1, <1>3, LexTyped
<1>5. After(<<>>, b) = z
  <2>1. CASE Last(t) # NL
    <3>1. v = <<NL>>
      BY <2>1
    <3>2. After(<<>>, t \o <<NL>>) = After(u, <<NL>>)
      BY <1>2, AfterJoined
    <3>3. After(u, <<NL>>) = z
      <4> HIDE DEF u
      <4> QED
        BY <1>1, <1>3, AfterOne
    <3> QED
      BY <3>1, <3>2, <3>3, Zenon
  <2>2. CASE Last(t) = NL
    <3> DEFINE n == Len(t)
               y == ReadTo(<<>>, t, n - 1)
    <3>1. n \in 1..n /\ n - 1 \in 0..n /\ t[n] = NL
      BY <2>2 DEF Tokens, Last
    <3>2. u = Lex(y, t[n]) /\ y \in Tokens
      BY <1>2, <3>1, ReadStep, Zenon DEF ReadsOn, After
    <3> HIDE DEF y, u
    <3>3. ~Ends(u)
      BY <3>1, <3>2, LineEnded
    <3>4. z = u
      BY <3>3, LexWhite
    <3>5. b = t
      <4>1. v = <<>>
        BY <2>2
      <4> QED
        BY <4>1, NothingJoined DEF Tokens
    <3> QED
      BY <3>4, <3>5 DEF u
  <2> QED
    BY <2>1, <2>2
<1>6. b \in Tokens
  <2> HIDE DEF v
  <2> QED
    BY <1>2, TokensJoin
<1>7. d \in Tokens /\ Len(d) = 3 /\ d[1] = Declare /\ d[2] = w /\ d[3] = NL
  BY <1>1, ThreeMore DEF Tokens
<1> HIDE DEF z, b, d
<1> DEFINE P(k) == ReadTo(z, d, k)
           p1 == Append(z, Declare)
           p2 == Append(p1, w)
           p3 == Append(p2, ";")
<1>8. P(0) = z /\ P(1) = Lex(P(0), d[1]) /\ P(2) = Lex(P(1), d[2]) /\ P(3) = Lex(P(2), d[3])
  <2>1. P(0) = z /\ \A k \in 1..Len(d) : P(k) = Lex(P(k - 1), d[k])
    BY <1>4, <1>7, ReadStep, Zenon DEF ReadsOn
  <2>2. {1, 2, 3} \subseteq 1..Len(d) /\ 1 - 1 = 0 /\ 2 - 1 = 1 /\ 3 - 1 = 2
    BY <1>7
  <2> HIDE DEF P
  <2>3. P(1) = Lex(P(1 - 1), d[1]) /\ P(2) = Lex(P(2 - 1), d[2]) /\ P(3) = Lex(P(3 - 1), d[3])
    BY <2>1, <2>2
  <2> QED
    BY <2>1, <2>2, <2>3
<1>9. P(3) = p3
  <2> HIDE DEF P
  <2>1. Lex(z, Declare) = p1
    BY UsesKnown DEF Lex
  <2>2. Lex(p1, w) = p2
    BY UsesKnown DEF Lex
  <2>3. Ends(p2)
    <3>1. p1 \in Tokens
      BY <1>1, <1>4, TokensMore
    <3> HIDE DEF p1
    <3>2. p2 # <<>> /\ Last(p2) = w
      BY <1>1, <3>1, LastAppended DEF Tokens
    <3> HIDE DEF p2
    <3> QED
      BY <3>2, UsesKnown DEF Ends
  <2> HIDE DEF p2
  <2>4. Lex(p2, NL) = p3
    BY <2>3, LexWhite
  <2> HIDE DEF p1, p3
  <2> QED
    BY <1>7, <1>8, <2>1, <2>2, <2>4, Zenon
<1>10. p3 = z \o <<Declare, w, ";">> /\ p3 \in Tokens
  <2>1. p3 = z \o <<Declare, w, ";">> /\ <<Declare, w, ";">> \in Tokens
    BY <1>1, <1>4, Declared, Zenon DEF p1, p2, p3
  <2> HIDE DEF p3
  <2> QED
    BY <1>4, <2>1, TokensJoin
<1> HIDE DEF p3, P
<1>11. After(<<>>, r) = p3
  <2>1. After(<<>>, b \o d) = After(After(<<>>, b), d)
    BY <1>2, <1>6, <1>7, AfterJoined
  <2>2. After(z, d) = P(3)
    BY <1>7, Zenon DEF After, P
  <2> QED
    BY <1>5, <1>9, <2>1, <2>2, Zenon
<1>12. Lex(p3, NL) = p3
  <2>1. Last(p3) = ";"
    <3>1. p1 \in Tokens
      BY <1>1, <1>4, TokensMore
    <3> HIDE DEF p1
    <3>2. p2 \in Tokens
      BY <1>1, <3>1, TokensMore
    <3> HIDE DEF p2
    <3> QED
      BY <1>1, <3>2, LastAppended DEF Tokens, p3
  <2>2. ~Ends(p3)
    BY <2>1, UsesKnown DEF Ends
  <2> QED
    BY <2>2, LexWhite
<1>13. r \in Tokens /\ r # <<>>
  <2>1. r \in Tokens
    BY <1>6, <1>7, TokensJoin
  <2>2. Len(r) = Len(b) + 3 /\ Len(b) \in Nat
    BY <1>6, <1>7, TokensMore
  <2> HIDE DEF r
  <2> QED
    BY <2>1, <2>2
<1>14. Line(t) = z
  BY DEF Line, z
<1>15. Line(r) = p3
  BY <1>11, <1>12, Zenon DEF Line
<1> HIDE DEF r
<1> QED
  BY <1>0, <1>4, <1>10, <1>11, <1>13, <1>14, <1>15, Zenon

\* r is z and k declarations behind it.
Added(z, r, k) ==
  /\ r \in Tokens /\ Len(r) = Len(z) + 3 * k
  /\ \A n \in 1..Len(z) : r[n] = z[n]
  /\ \A n \in 1..(3 * k) : /\ (n % 3 = 1) = (r[Len(z) + n] = Declare)
                          /\ (n % 3 = 0) = (r[Len(z) + n] = ";")

LEMMA InThrees ==
  ASSUME NEW k \in Nat
  PROVE  /\ (3 * k + 1) % 3 = 1 /\ (3 * k + 2) % 3 = 2 /\ (3 * k + 3) % 3 = 0
         /\ 3 * (k + 1) = 3 * k + 3 /\ 3 * k \in Nat
         /\ \A n \in 1..(3 * (k + 1)) :
              n \in 1..(3 * k) \/ n = 3 * k + 1 \/ n = 3 * k + 2 \/ n = 3 * k + 3
OBVIOUS

LEMMA AddedNext ==
  ASSUME NEW z \in Tokens, NEW r, NEW k \in Nat, Added(z, r, k), NEW w \in Uses
  PROVE  Added(z, r \o <<Declare, w, ";">>, k + 1)
<1> DEFINE d == <<Declare, w, ";">>
           s == r \o d
           a == Len(z)
           m == 3 * k
           X == Lexemes
           One(n, x) == (n % 3 = 1) = (x = Declare)
           End(n, x) == (n % 3 = 0) = (x = ";")
           Three(n, x) == One(n, x) /\ End(n, x)
<1>1. /\ r \in Tokens /\ Len(r) = a + m /\ \A n \in 1..a : r[n] = z[n]
      /\ \A n \in 1..m : Three(n, r[a + n])
  BY Zenon DEF Added
<1>2. d \in Tokens /\ Len(d) = 3 /\ d[1] = Declare /\ d[2] = w /\ d[3] = ";"
  BY UsesKnown, Declared, Zenon DEF d
<1>3. a \in Nat
  BY TokensMore
<1> HIDE DEF d
<1>4. /\ s \in Tokens /\ Len(s) = Len(r) + 3
      /\ \A n \in 1..Len(r) : s[n] = r[n]
      /\ \A n \in 1..3 : s[Len(r) + n] = d[n]
  <2>1. r \in Seq(X) /\ d \in Seq(X)
    BY <1>1, <1>2 DEF Tokens
  <2> HIDE DEF X, a, m, s
  <2>3. s = r \o d
    BY DEF s
  <2>2. /\ s \in Seq(X) /\ Len(s) = Len(r) + Len(d)
        /\ \A n \in 1..Len(r) : s[n] = r[n]
        /\ \A n \in 1..Len(d) : s[Len(r) + n] = d[n]
    BY <2>1, <2>3, Concatenated
  <2> QED
    BY <1>2, <2>2 DEF Tokens, X
<1>5. /\ (m + 1) % 3 = 1 /\ (m + 2) % 3 = 2 /\ (m + 3) % 3 = 0
      /\ 3 * (k + 1) = m + 3 /\ m \in Nat
      /\ \A n \in 1..(3 * (k + 1)) : n \in 1..m \/ n = m + 1 \/ n = m + 2 \/ n = m + 3
  BY InThrees
<1> DEFINE b == Len(r)
<1>13. b = a + m /\ a \in Nat /\ m \in Nat /\ b \in Nat
  <2>1. b \in Nat
    BY <1>1, TokensMore
  <2> QED
    BY <1>1, <1>3, <1>5, <2>1
<1> HIDE DEF s, a, m, b
<1>6. \A n \in 1..a : s[n] = z[n]
  <2>1. \A n \in 1..a : n \in 1..b
    BY <1>13
  <2> QED
    BY <1>1, <1>4, <2>1, Zenon DEF b
<1>7. ASSUME NEW n \in 1..m PROVE Three(n, s[a + n])
  <2>1. a + n \in 1..b
    BY <1>13
  <2>2. s[a + n] = r[a + n]
    BY <1>4, <2>1, Zenon DEF b
  <2> QED
    BY <1>1, <2>2, Zenon
<1>8. s[a + (m + 1)] = Declare /\ s[a + (m + 2)] = w /\ s[a + (m + 3)] = ";"
  <2>1. a + (m + 1) = b + 1 /\ a + (m + 2) = b + 2 /\ a + (m + 3) = b + 3
    BY <1>13
  <2>2. 1 \in 1..3 /\ 2 \in 1..3 /\ 3 \in 1..3
    OBVIOUS
  <2>3. s[b + 1] = d[1] /\ s[b + 2] = d[2] /\ s[b + 3] = d[3]
    BY <1>4, <2>2, Zenon DEF b
  <2> QED
    BY <1>2, <2>1, <2>3
<1>9. Declare # ";" /\ w # Declare /\ w # ";"
  BY UsesKnown
<1>10. Three(m + 1, s[a + (m + 1)]) /\ Three(m + 2, s[a + (m + 2)]) /\ Three(m + 3, s[a + (m + 3)])
  BY <1>5, <1>8, <1>9
<1> HIDE DEF Three
<1>11. \A n \in 1..(3 * (k + 1)) : Three(n, s[a + n])
  BY <1>5, <1>7, <1>10
<1>12. Len(s) = a + 3 * (k + 1)
  <2>1. Len(s) = b + 3 /\ 3 * (k + 1) = m + 3
    BY <1>4, <1>5 DEF b
  <2> DEFINE j == 3 * (k + 1)
  <2>2. j = m + 3 /\ Len(s) = b + 3
    BY <2>1
  <2> HIDE DEF j
  <2>3. Len(s) = a + j
    BY <1>13, <2>2
  <2> QED
    BY <2>3 DEF j
<1> QED
  BY <1>4, <1>6, <1>11, <1>12, Zenon DEF Added, Three, One, End, s, a, d

LEMMA FileLonger ==
  ASSUME NEW f \in Files
  PROVE  /\ LineOf(f, Len(f.stmts) + 1) \in Nat
         /\ LineOf(f, Len(f.stmts) + 1) < Len(FileText(f))
<1> DEFINE N == Len(f.stmts)
           B == Before(f, N + 1)
           y == <<Brace>>
<1>1. N \in Nat /\ f.eof \in Text
  BY FilesTyped
<1>2. B \in Text
  <2>1. N + 1 \in 1..(N + 1)
    BY <1>1
  <2> QED
    BY <2>1, BeforeTexts
<1>3. y \in Text /\ Len(y) = 1
  BY TextAssumption, OneWord DEF TextAssumption
<1>4. FileText(f) = (B \o y) \o f.eof
  BY Zenon DEF FileText
<1> HIDE DEF B, y
<1>5. B \o y \in Text /\ Len(B \o y) = Len(B) + 1
  BY <1>2, <1>3, Joins
<1>6. Len(FileText(f)) = Len(B \o y) + Len(f.eof)
  BY <1>1, <1>4, <1>5, Joins
<1>7. Len(B) \in Nat /\ Len(f.eof) \in Nat
  BY <1>1, <1>2, TextLen
<1>8. LineOf(f, N + 1) = Len(B)
  BY Zenon DEF LineOf, B
<1> DEFINE a == Len(B)
           b == Len(f.eof)
           c == Len(B \o y)
           d == Len(FileText(f))
           l == LineOf(f, N + 1)
<1>9. d = c + b /\ c = a + 1 /\ l = a /\ a \in Nat /\ b \in Nat
  BY <1>5, <1>6, <1>7, <1>8
<1> HIDE DEF a, b, c, d, l
<1>10. l \in Nat /\ l < d
  BY <1>9
<1> QED
  BY <1>10 DEF l, d

LEMMA EditsBehind ==
  ASSUME NEW f \in Files, NEW e \in CollectRewrites(f), NEW n \in Nat, Erases(e, n)
  PROVE  n # 0
<1> DEFINE N == Len(f.stmts)
<1>1. DOMAIN f.stmts = 1..N
  BY FilesTyped
<1>2. PICK j \in 1..N : e \in EditsOf(f, j)
  BY <1>1, Zenon DEF CollectRewrites
<1>3. LineOf(f, j) < n
  BY <1>2, EditInside, InsideLine
<1>4. LineOf(f, j) \in Nat
  BY StmtKnows, Zenon DEF StmtKnown
<1> QED
  BY <1>3, <1>4

LEMMA NothingAdded == ASSUME NEW z \in Tokens PROVE Added(z, z, 0)
<1>1. Len(z) \in Nat
  BY TokensMore
<1>2. 3 * 0 = 0 /\ 1..0 = {}
  OBVIOUS
<1>3. Len(z) = Len(z) + 3 * 0 /\ \A n \in 1..(3 * 0) : FALSE
  BY <1>1, <1>2
<1> QED
  BY <1>3 DEF Added

\* Behind what is read of the text, a declaration is read for every sentinel.
LEMMA AllAppended ==
  ASSUME NEW t \in Tokens, t # <<>>, NEW q \in Seq(Uses)
  PROVE  LET r == FoldLeft(AppendSentinel, t, q)
         IN  /\ r \in Tokens
             /\ Added(Line(t), Line(r), Len(q)) /\ (q # <<>> => After(<<>>, r) = Line(r))
<1> DEFINE C == Appending(t, q)
           m == Len(q)
           X == Lexemes
           z == Line(t)
           Right(k) == LET r == C[1..k]
                       IN  /\ r \in Tokens /\ r # <<>>
                           /\ Added(z, Line(r), k) /\ (k # 0 => After(<<>>, r) = Line(r))
           Bad == {k \in Nat : k <= m /\ ~Right(k)}
<1>1. m \in Nat /\ DOMAIN q = 1..m /\ (\A k \in 1..m : q[k] \in Uses) /\ (q # <<>> => m # 0)
  OBVIOUS
<1>2. WordsOf(X, t, q)
  <2>1. Uses \subseteq X /\ NL \in X /\ Declare \in X
    BY UsesKnown
  <2>2. t \in Seq(X)
    BY DEF Tokens
  <2> HIDE DEF X
  <2>3. q \in Seq(X)
    BY <2>1
  <2> QED
    BY <2>1, <2>2, <2>3 DEF WordsOf
<1>3. Appends(C, t, q)
  <2> HIDE DEF X
  <2> QED
    BY <1>2, AppendingDef
<1> HIDE DEF C
<1>4. C = [s \in SUBSET (1..m) |-> IF s = {} THEN t ELSE AppendSentinel(C[s \ {Max(s)}], q[Max(s)])]
  BY <1>1, <1>3, Zenon DEF Appends
<1>5. C[1..0] = t
  <2>1. 1..0 = {} /\ {} \in SUBSET (1..m)
    OBVIOUS
  <2> HIDE DEF m
  <2> QED
    BY <1>4, <2>1
<1>6. ASSUME NEW k \in 1..m PROVE C[1..k] = AppendSentinel(C[1..(k - 1)], q[k])
  <2>1. 1..k \in SUBSET (1..m) /\ 1..k # {} /\ k \in Nat /\ k # 0
    <3>1. m \in Nat
      BY <1>1
    <3> HIDE DEF m
    <3>2. k \in Nat /\ k # 0 /\ k \in 1..k
      BY <3>1
    <3>3. \A x \in 1..k : x \in 1..m
      BY <3>1
    <3> QED
      BY <3>2, <3>3
  <2> HIDE DEF m
  <2>2. Max(1..k) = k /\ (1..k) \ {k} = 1..(k - 1)
    BY <2>1, GreatestOfAll
  <2>3. C[1..k] = AppendSentinel(C[(1..k) \ {Max(1..k)}], q[Max(1..k)])
    BY <1>4, <2>1
  <2> QED
    BY <2>2, <2>3, Zenon
<1>7. Line(t) \in Tokens
  <2>1. <<>> \in Tokens /\ NL \in Lexemes
    <3>1. <<>> \in Tokens
      BY DEF Tokens
    <3> QED
      BY <3>1, UsesKnown
  <2>2. After(<<>>, t) \in Tokens
    BY <2>1, ReadAll
  <2>3. Lex(After(<<>>, t), NL) \in Tokens
    BY <2>1, <2>2, LexTyped
  <2> QED
    BY <2>3, Zenon DEF Line
<1>8. Right(0)
  <2>1. Added(z, z, 0)
    BY <1>7, NothingAdded
  <2> HIDE DEF z
  <2> QED
    BY <1>5, <2>1 DEF z
<1>9. ASSUME NEW k \in Nat, Right(k), k + 1 \in 1..m PROVE Right(k + 1)
  <2> DEFINE r == C[1..k]
             w == q[k + 1]
             s == AppendSentinel(r, w)
  <2>1. r \in Tokens /\ r # <<>> /\ Added(z, Line(r), k)
    BY <1>9, Zenon
  <2>2. w \in Uses
    BY <1>1, <1>9
  <2>3. C[1..(k + 1)] = s
    <3>1. (k + 1) - 1 = k
      OBVIOUS
    <3>2. C[1..(k + 1)] = AppendSentinel(C[1..((k + 1) - 1)], q[k + 1])
      BY <1>6, <1>9
    <3> QED
      BY <3>1, <3>2, Zenon
  <2> HIDE DEF r, w
  <2>4. /\ s \in Tokens /\ s # <<>> /\ Line(r) \in Tokens
        /\ Line(s) = Line(r) \o <<Declare, w, ";">> /\ After(<<>>, s) = Line(s)
    BY <2>1, <2>2, LineAppended
  <2>5. Added(z, Line(r) \o <<Declare, w, ";">>, k + 1)
    BY <1>7, <1>9, <2>1, <2>2, AddedNext
  <2> HIDE DEF s
  <2>6. s \in Tokens /\ s # <<>> /\ Added(z, Line(s), k + 1) /\ After(<<>>, s) = Line(s)
    BY <2>4, <2>5, Zenon
  <2> QED
    BY <2>3, <2>6, Zenon
<1> HIDE DEF Right, m
<1>10. Bad = {}
  <2> SUFFICES ASSUME Bad # {} PROVE FALSE
    OBVIOUS
  <2>1. PICK k \in Bad : \A j \in Bad : k <= j
    <3>1. Bad \subseteq Nat
      OBVIOUS
    <3> HIDE DEF Bad
    <3> QED
      BY <3>1, LeastNat
  <2>2. k \in Nat /\ k <= m /\ ~Right(k)
    OBVIOUS
  <2>3. k # 0
    BY <1>8, <2>2
  <2>4. k - 1 \in Nat /\ k - 1 <= m /\ ~(k <= k - 1) /\ (k - 1) + 1 = k /\ k \in 1..m
    BY <1>1, <2>2, <2>3
  <2>5. Right(k - 1)
    BY <2>1, <2>4
  <2>6. Right((k - 1) + 1)
    BY <1>9, <2>4, <2>5
  <2> QED
    BY <2>2, <2>4, <2>6
<1>11. Right(m)
  <2>1. m \in Nat /\ m <= m
    BY <1>1
  <2> QED
    BY <1>10, <2>1
<1>12. FoldLeft(AppendSentinel, t, q) = C[1..m]
  BY <1>1, FoldIsAppending, Zenon DEF C
<1> QED
  BY <1>1, <1>11, <1>12, Zenon DEF Right, m, z

\* What the sentinels of a file use may end a statement.
LEMMA UsesListed ==
  ASSUME NEW f \in Files
  PROVE  Sentinels(f.imports, FileText(f), CollectRewrites(f)) \in Seq(Uses)
<1> DEFINE T == FileText(f)
           E == CollectRewrites(f)
           N == Len(f.stmts)
<1>1. ProvenUse \in Uses /\ TrustUse \in Uses /\ \A w \in Words : PackageOf[w] \notin Ours => w \in Uses
  BY TextAssumption DEF TextAssumption, Uses, Ours
<1>2. T \in Text /\ Len(T) \in Nat /\ \A n \in 1..Len(T) : T[n] \in Words
  <2>1. T \in Text
    BY FileTexts
  <2> HIDE DEF T
  <2> QED
    BY <2>1 DEF Text
<1>3. LineOf(f, N + 1) <= Len(T) /\ LineOf(f, N + 1) \in Nat
  BY FileLonger
<1>4. ASSUME NEW d \in E, NEW m \in Dead(d) PROVE m \in 1..Len(T)
  <2>1. d \in Places
    BY EditsFinite
  <2>2. d.start \in Nat /\ d.argStart \in Nat /\ d.argEnd \in Nat /\ d.end \in Nat
    BY <2>1 DEF Places
  <2>3. m \in Nat /\ Erases(d, m)
    <3>1. CASE d.argStart = d.end
      <4>1. m \in d.start..(d.end - 1)
        BY <1>4, <3>1, Zenon DEF Dead
      <4>2. m \in Nat
        BY <2>2, <4>1
      <4> QED
        BY <3>1, <4>1, <4>2 DEF Erases
    <3>2. CASE d.argStart # d.end
      <4>1. m \in d.argEnd..(d.end - 1)
        BY <1>4, <3>2, Zenon DEF Dead
      <4>2. m \in Nat
        BY <2>2, <4>1
      <4> QED
        BY <4>1, <4>2 DEF Erases
    <3> QED
      BY <3>1, <3>2
  <2>4. m < LineOf(f, N + 1)
    BY <2>3, OwnEdits
  <2>5. m # 0
    BY <2>3, EditsBehind
  <2> HIDE DEF T, N
  <2> QED
    BY <1>2, <1>3, <2>3, <2>4, <2>5
<1>5. Seen(f) \subseteq Uses
  <2> SUFFICES ASSUME NEW pkg \in UsedAliases(T, E) PROVE FirstSeen(T, E, pkg) \in Uses
    BY DEF Seen
  <2>1. pkg \notin Ours /\ \E d \in E : \E m \in Dead(d) : PackageOf[T[m]] = pkg /\ FirstSeen(T, E, pkg) = T[m]
    BY FirstSeenKnown
  <2>2. PICK d \in E : \E m \in Dead(d) : PackageOf[T[m]] = pkg /\ FirstSeen(T, E, pkg) = T[m]
    BY <2>1, Zenon
  <2>3. PICK m \in Dead(d) : PackageOf[T[m]] = pkg /\ FirstSeen(T, E, pkg) = T[m]
    BY <2>2, Zenon
  <2>4. m \in 1..Len(T)
    BY <1>4
  <2> HIDE DEF T, E
  <2> QED
    BY <1>1, <1>2, <2>1, <2>3, <2>4, Zenon
<1>6. Sentinels(f.imports, T, E) \in Seq({ProvenUse, TrustUse} \cup Seen(f))
  BY SentinelsListed
<1>7. {ProvenUse, TrustUse} \cup Seen(f) \subseteq Uses
  BY <1>1, <1>5
<1> DEFINE q == Sentinels(f.imports, T, E)
           Y == {ProvenUse, TrustUse} \cup Seen(f)
<1> HIDE DEF q, Y
<1>8. q \in Seq(Uses)
  <2>1. q \in Seq(Y) /\ Y \subseteq Uses
    BY <1>6, <1>7 DEF q, Y
  <2> QED
    BY <2>1
<1> QED
  BY <1>8 DEF q

\* A file with an edit imports the library, so that a sentinel is appended.
LEMMA SomethingListed ==
  ASSUME NEW f \in Files, CollectRewrites(f) # {}
  PROVE  Sentinels(f.imports, FileText(f), CollectRewrites(f)) # <<>>
<1> DEFINE T == FileText(f)
           q == Sentinels(f.imports, T, CollectRewrites(f))
           N == Len(f.stmts)
           Ask(i, k) == f.stmts[i].calls[k].fn \in Statements \cup Expressions
<1>1. PICK i \in 1..N : EditsOf(f, i) # {}
  <2>1. PICK e \in CollectRewrites(f) : TRUE
    OBVIOUS
  <2>2. PICK i \in DOMAIN f.stmts : e \in EditsOf(f, i)
    BY <2>1, Zenon DEF CollectRewrites
  <2>3. i \in 1..N
    BY FilesTyped
  <2> QED
    BY <2>2, <2>3
<1> DEFINE s == f.stmts[i]
           K == Len(s.calls)
<1>2. K \in Nat /\ DOMAIN s.calls = 1..K /\ TypedStmt(s) /\ s.calls \in Seq(ToSet(s.calls))
  <2>1. TypedStmt(s)
    BY FilesTyped
  <2> QED
    BY <2>1, StmtCalls, Zenon DEF TypedStmt
<1>3. PICK k \in 1..K : Ask(i, k)
  <2>1. CASE IsWhole(s)
    <3>1. s.calls # <<>> /\ Last(s.calls).fn \in Statements
      BY <2>1, Zenon DEF IsWhole
    <3>2. K \in 1..K
      BY <1>2, <3>1
    <3>3. Last(s.calls) = s.calls[K]
      BY Zenon DEF Last
    <3>4. Ask(i, K)
      BY <3>1, <3>3
    <3> QED
      BY <3>2, <3>4
  <2>2. CASE ~IsWhole(s)
    <3>1. EditsOf(f, i) = {CallEdit(f, i, k) : k \in {j \in DOMAIN s.calls : IsErased(s.calls[j])}}
      BY <2>2, Zenon DEF EditsOf
    <3>2. PICK k \in DOMAIN s.calls : IsErased(s.calls[k])
      BY <1>1, <3>1
    <3>3. Ask(i, k)
      BY <3>2 DEF IsErased
    <3> QED
      BY <1>2, <3>2, <3>3
  <2> QED
    BY <2>1, <2>2
<1> DEFINE c == s.calls[k]
           w == c.fn
           a == Open(c)
           S == StartOf(f, i, k)
<1>4. PackageOf[w] \in {"proven", "trust"}
  BY <1>3, TextAssumption, Zenon DEF TextAssumption
<1>5. TypedCall(c) /\ a \in Text /\ Stands(a, S, T)
  BY <1>3, LevelKnown, Zenon DEF LevelStands
<1>6. S \in Nat
  <2>1. k \in 0..K
    BY <1>2, <1>3
  <2> QED
    BY <2>1, StmtKnows, Zenon DEF StmtKnown
<1>7. a[1] = w /\ Len(a) \in Nat /\ 1 \in 1..Len(a)
  <2> DEFINE x == <<w>>
             y == c.lead
  <2>1. x \in Seq(Words) /\ y \in Seq(Words) /\ Len(x) = 1 /\ x[1] = w
    BY <1>5 DEF TypedCall, Text
  <2>2. a = x \o y
    BY Zenon DEF Open
  <2> HIDE DEF x, y, a, w
  <2>3. Len(a) = Len(x) + Len(y) /\ \A n \in 1..Len(x) : a[n] = x[n]
    BY <2>1, <2>2, Concatenated
  <2>4. Len(y) \in Nat
    BY <2>1
  <2>5. 1 \in 1..Len(x) /\ Len(a) \in Nat /\ 1 \in 1..Len(a)
    BY <2>1, <2>3, <2>4
  <2> QED
    BY <2>1, <2>3, <2>5
<1>8. T \in Seq(Words)
  BY FileTexts DEF Text
<1> HIDE DEF T, S, a, w
<1>9. w \in ToSet(T)
  <2>1. S + Len(a) <= Len(T) /\ T[S + 1] = a[1]
    BY <1>5, <1>7 DEF Stands
  <2>2. Len(T) \in Nat /\ DOMAIN T = 1..Len(T)
    BY <1>8
  <2>3. S + 1 \in 1..Len(T)
    BY <1>6, <1>7, <2>1, <2>2
  <2>4. T[S + 1] = w
    BY <1>7, <2>1
  <2> QED
    BY <2>2, <2>3, <2>4, Zenon DEF ToSet
<1>10. PackageOf[w] \in f.imports \cup {""}
  <2>1. \A x \in ToSet(T) : PackageOf[x] \in f.imports \cup {""}
    BY FilesTyped DEF T
  <2> QED
    BY <1>9, <2>1
<1>11. "proven" \in f.imports \/ "trust" \in f.imports
  BY <1>4, <1>10
<1>12. \E j \in 1..Len(q) : TRUE
  <2>1. /\ "proven" \in f.imports => \E j \in 1..Len(q) : q[j] = ProvenUse
        /\ "trust" \in f.imports => \E j \in 1..Len(q) : q[j] = TrustUse
    BY SentinelsListed DEF T
  <2> HIDE DEF q
  <2> QED
    BY <1>11, <2>1, Zenon
<1> HIDE DEF q
<1>13. q # <<>>
  BY <1>12
<1> QED
  BY <1>13 DEF q, T

\* r is z and declarations behind it.
Further(z, r) ==
  LET added == SubSeq(r, Len(z) + 1, Len(r))
  IN  /\ IsPrefix(z, r)
      /\ \A n \in DOMAIN added : (n % 3 = 1) = (added[n] = Declare) /\ (n % 3 = 0) = (added[n] = ";")

LEMMA AddedMeans ==
  ASSUME NEW z \in Tokens, NEW r, NEW m \in Nat, Added(z, r, m)
  PROVE  Further(z, r)
<1> DEFINE a == Len(z)
           b == Len(r)
           j == 3 * m
           d == SubSeq(r, a + 1, b)
           One(n, x) == (n % 3 = 1) = (x = Declare)
           End(n, x) == (n % 3 = 0) = (x = ";")
           Three(n, x) == One(n, x) /\ End(n, x)
           X == Lexemes
<1>1. /\ r \in Tokens /\ b = a + j /\ \A n \in 1..a : r[n] = z[n]
      /\ \A n \in 1..j : Three(n, r[a + n])
  BY Zenon DEF Added
<1>2. a \in Nat /\ b \in Nat /\ j \in Nat /\ z \in Seq(X) /\ r \in Seq(X)
  <2>1. a \in Nat /\ b \in Nat
    BY <1>1, TokensMore
  <2>2. z \in Seq(X) /\ r \in Seq(X)
    BY <1>1, Zenon DEF Tokens
  <2>3. j \in Nat
    OBVIOUS
  <2> QED
    BY <2>1, <2>2, <2>3
<1> HIDE DEF Three, X, j
<1>3. IsPrefix(z, r)
  <2>1. SubSeq(z, 1, a) = [n \in 1..a |-> z[n]]
    BY <1>2
  <2>2. SubSeq(r, 1, a) = [n \in 1..a |-> r[n]]
    <3>1. a <= b
      <4> HIDE DEF a, b
      <4> QED
        BY <1>1, <1>2
    <3> HIDE DEF a
    <3> QED
      BY <1>2, <3>1
  <2>3. SubSeq(z, 1, a) = SubSeq(r, 1, a)
    BY <1>1, <2>1, <2>2
  <2>4. a <= b
    <3> HIDE DEF a, b
    <3> QED
      BY <1>1, <1>2
  <2> QED
    BY <2>3, <2>4, Zenon DEF IsPrefix
<1>4. DOMAIN d = 1..j /\ \A n \in 1..j : d[n] = r[a + n]
  <2>1. DOMAIN d = 1..(b - (a + 1) + 1)
    <3> HIDE DEF a
    <3> QED
      BY <1>1, <1>2
  <2>2. b - (a + 1) + 1 = j
    <3> HIDE DEF a, b
    <3> QED
      BY <1>1, <1>2
  <2>3. \A n \in 1..j : d[n] = r[a + 1 + n - 1]
    <3> HIDE DEF a
    <3> QED
      BY <1>1, <1>2, <2>2
  <2>4. \A n \in 1..j : a + 1 + n - 1 = a + n
    <3> HIDE DEF a
    <3> QED
      BY <1>2
  <2> HIDE DEF d
  <2> QED
    BY <2>1, <2>2, <2>3, <2>4
<1> HIDE DEF d
<1>5. \A n \in DOMAIN d : Three(n, d[n])
  BY <1>1, <1>4
<1> QED
  BY <1>3, <1>5, Zenon DEF Further, Three, One, End, d, a, b

LEMMA EveryProgram ==
  ASSUME NEW f \in Files, LinesUnbroken(f) PROVE KeepsProgram(f, RewriteSource(f))
<1> SUFFICES ASSUME CollectRewrites(f) # {} PROVE KeepsProgram(f, RewriteSource(f))
  BY Zenon DEF KeepsProgram
<1> DEFINE A == Overwritten(f)
           q == Sentinels(f.imports, FileText(f), CollectRewrites(f))
           r == FoldLeft(AppendSentinel, A, q)
           h == <<Comment, NL>>
           kept == Lexed(BareText(f))
           read == Lexed(RewriteSource(f))
<1>1. A \in Tokens /\ Len(A) = Len(FileText(f))
  BY OverwrittenKnown
<1>2. A # <<>>
  <2>1. LineOf(f, Len(f.stmts) + 1) \in Nat /\ LineOf(f, Len(f.stmts) + 1) < Len(FileText(f))
    BY FileLonger
  <2>2. Len(<<>>) = 0
    OBVIOUS
  <2> HIDE DEF A
  <2> QED
    BY <1>1, <2>1, <2>2
<1>3. q \in Seq(Uses) /\ q # <<>>
  BY UsesListed, SomethingListed
<1>4. kept \in Tokens /\ kept = Line(A)
  <2>1. kept \in Tokens /\ kept = Lex(ReadAt(f, Len(FileText(f))), NL)
    BY FileRead, Zenon
  <2>2. ReadAt(f, Len(FileText(f))) = After(<<>>, A)
    BY <1>1, Zenon DEF ReadAt, After
  <2> QED
    BY <2>1, <2>2, Zenon DEF Line
<1>5. RewriteSource(f) = h \o r
  BY Zenon DEF RewriteSource, Overwritten
<1> HIDE DEF A, q, kept
<1>6. r \in Tokens /\ Added(Line(A), Line(r), Len(q)) /\ After(<<>>, r) = Line(r)
  BY <1>1, <1>2, <1>3, AllAppended, Zenon
<1> HIDE DEF r
<1>7. <<>> \in Tokens /\ Comment \in Lexemes /\ NL \in Lexemes
  <2>1. <<>> \in Tokens
    BY DEF Tokens
  <2> QED
    BY <2>1, UsesKnown
<1>8. h \in Tokens /\ After(<<>>, h) = <<>>
  <2>1. <<Comment>> \in Tokens /\ After(<<>>, <<Comment>>) = <<>>
    BY <1>7, AfterOne, LexWhite
  <2>2. <<NL>> \in Tokens /\ After(<<>>, <<NL>>) = Lex(<<>>, NL)
    BY <1>7, AfterOne
  <2>3. ~Ends(<<>>)
    BY DEF Ends
  <2>4. Lex(<<>>, NL) = <<>>
    BY <2>3, LexWhite
  <2>5. h = <<Comment>> \o <<NL>>
    OBVIOUS
  <2>6. After(<<>>, <<Comment>> \o <<NL>>) = After(After(<<>>, <<Comment>>), <<NL>>)
    BY <1>7, <2>1, <2>2, AfterJoined
  <2>7. <<Comment>> \o <<NL>> \in Tokens
    BY <2>1, <2>2, TokensMore
  <2> QED
    BY <2>1, <2>2, <2>4, <2>5, <2>6, <2>7, Zenon
<1> HIDE DEF h
<1>9. h \o r \in Tokens /\ After(<<>>, h \o r) = Line(r)
  <2>1. After(<<>>, h \o r) = After(After(<<>>, h), r)
    BY <1>6, <1>7, <1>8, AfterJoined
  <2>2. h \o r \in Tokens
    BY <1>6, <1>8, TokensMore
  <2> QED
    BY <1>6, <1>8, <2>1, <2>2, Zenon
<1>10. read = Line(r)
  <2>1. FoldLeft(Lex, <<>>, h \o r) = After(<<>>, h \o r)
    BY <1>7, <1>9, ReadAll
  <2> QED
    BY <1>5, <1>9, <2>1, Zenon DEF Lexed
<1> HIDE DEF read
<1>11. Added(kept, read, Len(q)) /\ Len(q) \in Nat
  <2>1. Len(q) \in Nat
    BY <1>3
  <2> QED
    BY <1>4, <1>6, <1>10, <2>1, Zenon
<1>12. Further(kept, read)
  BY <1>4, <1>11, AddedMeans
<1> QED
  BY <1>12, Zenon DEF KeepsProgram, Further, kept, read

------------------------------------------------------------------------------
(* The specification.                                                      *)

\* What an input is, and that the answer is the pass's answer to it: the
\* inductive invariant of every theorem below.
Given ==
  /\ pass = "func"    => input \in Functions
  /\ pass = "rule"    => input \in Rules
  /\ pass = "calls"   => input \in Bodies
  /\ pass = "expr"    => input \in Exprs
  /\ pass = "literal" => input \in [arg : LitArgs, type : ParamTypes, asked : Demanded]
  /\ pass = "rewrite" => input \in Files

AnswerGiven ==
  /\ pass = "func"  => answer = ScanFunc(input)
  /\ pass = "rule"  => answer = ExtractInferRule(input)
  /\ pass = "calls" => answer = AnalyzeFile(input)
  /\ pass = "expr"  => answer = [then    |-> CollectGuardFacts[input][FALSE],
                                 else    |-> CollectGuardFacts[input][TRUE],
                                 planted |-> WalkCalls[input]]
  /\ pass = "literal" => answer = EvalLiterals(input.arg, input.asked.required, input.asked.ors)
  /\ pass = "rewrite" => answer = RewriteSource(input)

PassInv == Given /\ (done => AnswerGiven)

\* The answer to an input, once given, is the one of its pass: no step gives
\* another, or answers twice (Scan, ScanRule, CheckCalls, Read, Decide, Erase).
THEOREM AnswersStand == PassSpec => []PassInv
<1>1. PassInit => PassInv
  BY DEF PassInit, PassInv, Given
<1>2. PassInv /\ [PassNext]_passVars => PassInv'
  <2> SUFFICES ASSUME PassInv, [PassNext]_passVars PROVE PassInv'
    OBVIOUS
  <2>1. CASE UNCHANGED passVars
    BY <2>1 DEF PassInv, Given, AnswerGiven, passVars
  <2>2. ASSUME NEW a, Answers(a) PROVE Given' /\ done' /\ UNCHANGED <<pass, input>> /\ answer' = a
    BY <2>2 DEF PassInv, Given, Answers
  <2>3. CASE Scan
    BY <2>3, <2>2 DEF Scan, PassInv, AnswerGiven
  <2>4. CASE ScanRule
    BY <2>4, <2>2 DEF ScanRule, PassInv, AnswerGiven
  <2>5. CASE CheckCalls
    BY <2>5, <2>2 DEF CheckCalls, PassInv, AnswerGiven
  <2>6. CASE Read
    BY <2>6, <2>2 DEF Read, PassInv, AnswerGiven
  <2>7. CASE Decide
    BY <2>7, <2>2 DEF Decide, PassInv, AnswerGiven
  <2>8. CASE Erase
    BY <2>8, <2>2 DEF Erase, PassInv, AnswerGiven
  <2> QED
    BY <2>1, <2>3, <2>4, <2>5, <2>6, <2>7, <2>8 DEF PassNext
<1> QED
  BY <1>1, <1>2, PTL DEF PassSpec

\* Each branch of an if is analysed with facts that hold whenever it runs
\* (collectGuardFacts).
THEOREM GuardsAlwaysTrue == PassSpec => []GuardsTrue
<1>1. PassInv => GuardsTrue
  <2> SUFFICES ASSUME PassInv, Answered("expr")
               PROVE  GuardFactsTrue(input, answer.then, answer.else)
    BY DEF GuardsTrue
  <2>1. input \in Exprs /\ AnswerGiven /\ pass = "expr"
    BY DEF PassInv, Given, Answered
  <2> DEFINE X == CollectGuardFacts[input][FALSE]
             Y == CollectGuardFacts[input][TRUE]
  <2>3. answer = [then |-> X, else |-> Y, planted |-> WalkCalls[input]]
    BY <2>1, Zenon DEF AnswerGiven
  <2> HIDE DEF X, Y
  <2>4. answer.then = X /\ answer.else = Y
    BY <2>3
  <2>2. TakenBranchTrue(input)
    BY <2>1, InputAssumption, EveryTakenBranch DEF InputAssumption
  <2> QED
    BY <2>2, <2>4, Zenon DEF TakenBranchTrue, GuardFactsTrue, X, Y
<1> QED
  BY <1>1, AnswersStand, PTL

\* What the calls in an expression prove holds once it has been evaluated
\* (walkCalls, plantFromInlineFactCall), if evaluation reaches all of them.
THEOREM PlantedAlwaysTrue == ASSUME NothingSkipped PROVE PassSpec => []PlantedTrue
<1>1. PassInv => PlantedTrue
  <2> SUFFICES ASSUME PassInv, Answered("expr")
               PROVE  PlantedFactsTrue(input, answer.planted)
    BY DEF PlantedTrue
  <2>1. input \in Exprs /\ answer.planted = WalkCalls[input]
    BY DEF PassInv, Given, AnswerGiven, Answered
  <2>2. PlantedOnceDone(input)
    BY <2>1, InputAssumption, EveryPlanted DEF InputAssumption
  <2> QED
    BY <2>1, <2>2 DEF PlantedOnceDone, PlantedFactsTrue
<1> QED
  BY <1>1, AnswersStand, PTL

\* The rule that the preprocessor trusts is the rule that infertest verifies
\* (extractInferRule, Rule.Check), and none is lost without a diagnostic, if no
\* alternative of an Or comes from an unknown package.
THEOREM RulesAlwaysHarvested == ASSUME OrsKnown PROVE PassSpec => []RulesHarvested
<1>1. PassInv => RulesHarvested
  <2> SUFFICES ASSUME PassInv, Answered("rule")
               PROVE  RulesAsVerified(input, answer)
    BY DEF RulesHarvested
  <2>1. input \in Rules /\ answer = ExtractInferRule(input)
    BY DEF PassInv, Given, AnswerGiven, Answered
  <2> QED
    BY <2>1, EveryRule
<1> QED
  BY <1>1, AnswersStand, PTL

\* A function whose contracts the scanner accepts without a diagnostic demands
\* of its callers, and promises them, what its contracts say (recordThat,
\* recordReturns, resolveAndFlat, buildParamIndex), if no contract stands in a
\* function literal, no disjunctive postcondition alone, and no alternative of
\* an Or comes from an unknown package.
THEOREM ContractsAlwaysHarvested ==
  ASSUME OrsKnown, \A f \in Functions : PlainContracts(f)
  PROVE  PassSpec => []ContractsHarvested
<1>1. PassInv => ContractsHarvested
  <2> SUFFICES ASSUME PassInv, Answered("func")
               PROVE  ContractsAsDeclared(input, answer)
    BY DEF ContractsHarvested
  <2>1. input \in Functions /\ answer = ScanFunc(input)
    BY DEF PassInv, Given, AnswerGiven, Answered
  <2> QED
    BY <2>1, EveryFunction
<1> QED
  BY <1>1, AnswersStand, PTL

\* The preprocessor checks every call of a function with contracts (walkCalls,
\* resolveCallee), at every place where one can stand, if no call stands in the
\* header of a compound statement, every statement is of a kind that the
\* analyzer knows, and imports are named.
THEOREM CallsAlwaysChecked ==
  ASSUME StatementsKnown, \A f \in Bodies : ImportsNamed(f)
  PROVE  PassSpec => []CallsChecked
<1>1. PassInv => CallsChecked
  <2> SUFFICES ASSUME PassInv, Answered("calls")
               PROVE  ChecksEveryCall(input, answer)
    BY DEF CallsChecked
  <2>1. input \in Bodies /\ answer = AnalyzeFile(input)
    BY DEF PassInv, Given, AnswerGiven, Answered
  <2> QED
    BY <2>1, EveryBody
<1> QED
  BY <1>1, AnswersStand, PTL

\* A literal is accepted for a parameter only if the value that arrives there
\* has the predicates (evalLibraryPredicate), if no parameter is of an interface
\* type or of a floating-point type narrower than the evaluator's.
THEOREM LiteralsAlwaysTrue ==
  ASSUME \A T \in ParamTypes : PlainType(T)
  PROVE  PassSpec => []LiteralsTrue
<1>1. PassInv => LiteralsTrue
  <2> SUFFICES ASSUME PassInv, Answered("literal")
               PROVE  LiteralFactsTrue(input.arg, input.type, input.asked.required,
                                       input.asked.ors, answer)
    BY DEF LiteralsTrue
  <2>1. /\ input \in [arg : LitArgs, type : ParamTypes, asked : Demanded]
        /\ answer = EvalLiterals(input.arg, input.asked.required, input.asked.ors)
    BY DEF PassInv, Given, AnswerGiven, Answered
  <2>2. /\ input.arg \in LitArgs /\ input.asked \in Demanded
        /\ PlainType(input.type) /\ input.type.kind \in Kinds
    BY <2>1, InputAssumption DEF InputAssumption
  <2> QED
    BY <2>1, <2>2, EveryLiteral
<1> QED
  BY <1>1, AnswersStand, PTL

\* The compiler reads a file whose contracts are erased as the file without
\* them, and the declarations appended (applyRewrites, blankRange,
\* appendImportSentinel), where no line break that stays ends a statement.
THEOREM UnbrokenProgramsKept ==
  PassSpec => [](Answered("rewrite") /\ LinesUnbroken(input) => KeepsProgram(input, answer))
<1>1. PassInv => (Answered("rewrite") /\ LinesUnbroken(input) => KeepsProgram(input, answer))
  <2> SUFFICES ASSUME PassInv, Answered("rewrite"), LinesUnbroken(input)
               PROVE  KeepsProgram(input, answer)
    OBVIOUS
  <2>1. input \in Files /\ answer = RewriteSource(input)
    BY DEF PassInv, Given, AnswerGiven, Answered
  <2> QED
    BY <2>1, EveryProgram, Zenon
<1> QED
  BY <1>1, AnswersStand, PTL

\* Erasing the contracts leaves the program without its contracts
\* (applyRewrites), if no file has such a line break.
THEOREM ProgramAlwaysKept ==
  ASSUME \A f \in Files : LinesUnbroken(f)
  PROVE  PassSpec => []ProgramKept
<1>1. PassInv => ProgramKept
  <2> SUFFICES ASSUME PassInv, Answered("rewrite")
               PROVE  KeepsProgram(input, answer)
    BY DEF ProgramKept
  <2>1. input \in Files /\ answer = RewriteSource(input)
    BY DEF PassInv, Given, AnswerGiven, Answered
  <2> QED
    BY <2>1, EveryProgram, Zenon
<1> QED
  BY <1>1, AnswersStand, PTL

\* Erasing the contracts moves nothing (blankRange, applyRewrites): behind the
\* comment line, every word of the file stands where it stood or gives way to a
\* blank, and every line break stays.
THEOREM PlacesAlwaysKept == PassSpec => []PlacesKept
<1>1. PassInv => PlacesKept
  <2> SUFFICES ASSUME PassInv, Answered("rewrite")
               PROVE  KeepsPlaces(input, answer)
    BY DEF PlacesKept
  <2>1. input \in Files /\ answer = RewriteSource(input)
    BY DEF PassInv, Given, AnswerGiven, Answered
  <2> QED
    BY <2>1, EveryPlace, Zenon
<1> QED
  BY <1>1, AnswersStand, PTL

\* Every package that the file names is still named once its contracts are
\* erased, so that no import is without a use (appendImportSentinel).
THEOREM ImportsAlwaysKept == PassSpec => []ImportsKept
<1>1. PassInv => ImportsKept
  <2> SUFFICES ASSUME PassInv, Answered("rewrite")
               PROVE  KeepsImports(input, answer)
    BY DEF ImportsKept
  <2>1. input \in Files /\ answer = RewriteSource(input)
    BY DEF PassInv, Given, AnswerGiven, Answered
  <2> QED
    BY <2>1, EveryImport, Zenon
<1> QED
  BY <1>1, AnswersStand, PTL
=============================================================================
