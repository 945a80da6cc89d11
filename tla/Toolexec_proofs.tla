--------------------------- MODULE Toolexec_proofs ---------------------------
(***************************************************************************)
(* Proofs about Toolexec: whatever the chain, the tool that proven plans   *)
(* for and the tool that runs is the one go build asked for, with its      *)
(* words; its temporary inputs exist when it runs, and none outlives the   *)
(* invocation.                                                             *)
(***************************************************************************)
EXTENDS Toolexec, SequenceTheorems, WellFoundedInduction, TLAPS

------------------------------------------------------------------------------
(* Numbers, and the first place at which a sequence has some word. *)

\* A set of numbers that is not empty has a least one.
LEMMA LeastNat ==
  ASSUME NEW S, S \subseteq Nat, S # {}
  PROVE  \E n \in S : \A m \in S : n <= m
<1>1. PICK n \in S : \A k \in S : <<k, n>> \notin OpToRel(<, Nat)
  BY WFMin, NatLessThanWellFounded, Zenon
<1>2. \A k \in S : ~(k < n)
  BY <1>1, Zenon DEF OpToRel
<1>3. \A m \in S : m \in Nat /\ n \in Nat
  OBVIOUS
<1> QED
  BY <1>3, <1>2

LEMMA MinIsLeast ==
  ASSUME NEW S, S \subseteq Nat, S # {}
  PROVE  Min(S) \in S /\ \A m \in S : Min(S) <= m
BY LeastNat DEF Min

\* Words of an argument vector.
Word == STRING \cup {Sep, Absent}

LEMMA WordSeq == ASSUME NEW s \in Seq(STRING) PROVE s \in Seq(Word)
BY DEF Word

\* A sequence of words, and where those of each part are.
LEMMA Joining ==
  ASSUME NEW s \in Seq(Word), NEW t \in Seq(Word)
  PROVE  /\ s \o t \in Seq(Word) /\ Len(s \o t) = Len(s) + Len(t)
         /\ \A j \in 1..Len(s) : (s \o t)[j] = s[j]
         /\ \A j \in 1..Len(t) : (s \o t)[Len(s) + j] = t[j]
OBVIOUS

\* The first separator of a sequence of words, or 0.
LEMMA FirstSep ==
  ASSUME NEW s \in Seq(Word), NEW n \in Nat, n <= Len(s),
         \A i \in 1..n : s[i] # Sep
  PROVE  /\ n = Len(s) => SelectInSeq(s, IsSep) = 0
         /\ (n < Len(s) /\ s[n + 1] = Sep) => SelectInSeq(s, IsSep) = n + 1
<1> DEFINE I == {i \in 1..Len(s) : IsSep(s[i])}
<1>1. SelectInSeq(s, IsSep) = IF I # {} THEN Min(I) ELSE 0
  BY Zenon DEF SelectInSeq
<1>2. ASSUME n = Len(s) PROVE I = {}
  BY <1>2 DEF IsSep
<1>3. ASSUME n < Len(s), s[n + 1] = Sep PROVE I # {} /\ Min(I) = n + 1
  <2>1. n + 1 \in I
    BY <1>3 DEF IsSep
  <2>2. \A i \in I : n + 1 <= i
    BY DEF IsSep
  <2>3. Min(I) \in I /\ \A m \in I : Min(I) <= m
    <3>1. I \subseteq Nat /\ I # {}
      BY <2>1
    <3> HIDE DEF I
    <3> QED
      BY <3>1, MinIsLeast
  <2>4. Min(I) \in Nat
    BY <2>3
  <2> QED
    BY <2>1, <2>2, <2>3, <2>4
<1> QED
  BY <1>1, <1>2, <1>3

\* The first tool of a sequence of words, or 0.
LEMMA FirstTool ==
  ASSUME NEW s \in Seq(Word), NEW n \in Nat, n <= Len(s),
         \A i \in 1..n : s[i] \notin ToolPaths
  PROVE  /\ n = Len(s) => FindGoToolIndex(s) = 0
         /\ (n < Len(s) /\ s[n + 1] \in ToolPaths) => FindGoToolIndex(s) = n + 1
<1> DEFINE I == {i \in 1..Len(s) : IsTool(s[i])}
<1>1. FindGoToolIndex(s) = IF I # {} THEN Min(I) ELSE 0
  BY Zenon DEF SelectInSeq, FindGoToolIndex
<1>2. ASSUME n = Len(s) PROVE I = {}
  BY <1>2 DEF IsTool
<1>3. ASSUME n < Len(s), s[n + 1] \in ToolPaths PROVE I # {} /\ Min(I) = n + 1
  <2>1. n + 1 \in I
    BY <1>3 DEF IsTool
  <2>2. \A i \in I : n + 1 <= i
    BY DEF IsTool
  <2>3. Min(I) \in I /\ \A m \in I : Min(I) <= m
    <3>1. I \subseteq Nat /\ I # {}
      BY <2>1
    <3> HIDE DEF I
    <3> QED
      BY <3>1, MinIsLeast
  <2>4. Min(I) \in Nat
    BY <2>3
  <2> QED
    BY <2>1, <2>2, <2>3, <2>4
<1> QED
  BY <1>1, <1>2, <1>3
------------------------------------------------------------------------------
(* Flattening a sequence of sequences: the function that FlattenSeq folds      *)
(* with, and what it does at each place.                                       *)

Flat(seqs) ==
  LET flatten[i \in 1..Len(seqs)] == IF i = 1 THEN seqs[i] ELSE flatten[i - 1] \o seqs[i]
  IN  flatten

\* f folds the first n sequences.
Folds(f, seqs, n) == f = [i \in 1..n |-> IF i = 1 THEN seqs[i] ELSE f[i - 1] \o seqs[i]]

\* There is a folding function of any length.
LEMMA FoldExists ==
  ASSUME NEW seqs, NEW n \in Nat
  PROVE  \E f : Folds(f, seqs, n)
<1> DEFINE Bad == {m \in Nat : ~\E f : Folds(f, seqs, m)}
<1>1. ASSUME Bad # {} PROVE FALSE
  <2>1. PICK m \in Bad : \A k \in Bad : m <= k
    <3>1. Bad \subseteq Nat
      OBVIOUS
    <3> HIDE DEF Bad
    <3> QED
      BY <1>1, <3>1, LeastNat
  <2>2. m \in Nat /\ ~\E f : Folds(f, seqs, m)
    BY <2>1
  <2>3. CASE m = 0
    <3>1. Folds([i \in 1..0 |-> 0], seqs, 0)
      BY DEF Folds
    <3> QED
      BY <2>2, <2>3, <3>1
  <2>4. CASE m # 0
    <3>1. m - 1 \in Nat /\ ~(m <= m - 1)
      BY <2>2, <2>4
    <3>2. PICK f : Folds(f, seqs, m - 1)
      BY <2>1, <3>1
    <3> DEFINE g == [i \in 1..m |-> IF i = 1 THEN seqs[i] ELSE f[i - 1] \o seqs[i]]
    <3>3. ASSUME NEW i \in 1..(m - 1) PROVE g[i] = f[i]
      <4>1. i \in 1..m
        BY <2>2
      <4>2. f[i] = IF i = 1 THEN seqs[i] ELSE f[i - 1] \o seqs[i]
        BY <3>2, Zenon DEF Folds
      <4> QED
        BY <4>1, <4>2
    <3>4. \A i \in 1..m : g[i] = IF i = 1 THEN seqs[i] ELSE g[i - 1] \o seqs[i]
      <4> SUFFICES ASSUME NEW i \in 1..m, i # 1
                   PROVE  g[i - 1] = f[i - 1]
        OBVIOUS
      <4>1. i - 1 \in 1..(m - 1)
        BY <2>2
      <4> HIDE DEF g
      <4> QED
        BY <3>3, <4>1
    <3>5. g = [i \in 1..m |-> g[i]]
      OBVIOUS
    <3>6. Folds(g, seqs, m)
      <4> HIDE DEF g
      <4> QED
        BY <3>4, <3>5 DEF Folds
    <3> QED
      BY <2>2, <3>6
  <2> QED
    BY <2>3, <2>4
<1> QED
  BY <1>1

LEMMA FlatFolds ==
  ASSUME NEW seqs, Len(seqs) \in Nat
  PROVE  Folds(Flat(seqs), seqs, Len(seqs))
<1>1. PICK f : Folds(f, seqs, Len(seqs))
  BY FoldExists
<1> QED
  BY <1>1, Zenon DEF Folds, Flat

LEMMA FlattenIsFlat ==
  ASSUME NEW seqs, Len(seqs) # 0
  PROVE  FlattenSeq(seqs) = Flat(seqs)[Len(seqs)]
BY Zenon DEF FlattenSeq, Flat
------------------------------------------------------------------------------
(* A chain, link by link. *)

Marked(l)   == [i \in DOMAIN l.links |-> <<Sep>> \o l.links[i]]
N(l)        == Len(l.links)
\* The chain up to and with link k.
Upto(l, k)  == IF k = 0 THEN <<>> ELSE Flat(Marked(l))[k]

\* Each link adds the separator and its own words.
Extends(l, k) ==
  /\ Upto(l, k) \in Seq(Word)
  /\ Upto(l, k + 1) = Upto(l, k) \o (<<Sep>> \o l.links[k + 1])

LEMMA LinkType ==
  ASSUME NEW l \in Lines, NEW k \in 1..N(l)
  PROVE  /\ N(l) \in Nat /\ l.links[k] \in Seq(STRING) /\ l.links[k] \in Seq(Word)
         /\ Len(l.links[k]) \in Nat \ {0}
         /\ \A j \in 1..Len(l.links[k]) : l.links[k][j] \notin ToolPaths /\ l.links[k][j] # Sep
<1>1. l.links \in Seq(Seq(STRING)) /\ k \in DOMAIN l.links
  BY LineAssumption DEF N
<1>2. l.links[k] \in Seq(STRING) /\ l.links[k] \in Seq(Word) /\ l.links[k] # <<>>
  BY <1>1, LineAssumption, WordSeq
<1>3. ToSet(l.links[k]) \cap (ToolPaths \cup {Sep}) = {}
  BY <1>1, LineAssumption
<1>4. \A j \in 1..Len(l.links[k]) : l.links[k][j] \in ToSet(l.links[k])
  BY <1>2 DEF ToSet
<1>5. N(l) \in Nat
  BY <1>1 DEF N
<1>6. Len(l.links[k]) \in Nat \ {0}
  BY <1>2
<1> QED
  BY <1>2, <1>3, <1>4, <1>5, <1>6

LEMMA MarkedType ==
  ASSUME NEW l \in Lines
  PROVE  /\ N(l) \in Nat /\ Len(Marked(l)) = N(l)
         /\ \A k \in 1..N(l) :
              Marked(l)[k] = <<Sep>> \o l.links[k] /\ Marked(l)[k] \in Seq(Word)
<1>1. l.links \in Seq(Seq(STRING))
  BY LineAssumption
<1>2. N(l) \in Nat /\ DOMAIN l.links = 1..N(l)
  BY <1>1 DEF N
<1>3. \A k \in 1..N(l) : Marked(l)[k] = <<Sep>> \o l.links[k]
  BY <1>2 DEF Marked
<1>4. ASSUME NEW k \in 1..N(l) PROVE <<Sep>> \o l.links[k] \in Seq(Word)
  <2>1. l.links[k] \in Seq(Word)
    BY LinkType
  <2>2. Sep \in Word
    BY DEF Word
  <2> QED
    BY <2>1, <2>2
<1>5. Marked(l) \in [1..N(l) -> Seq(Word)]
  <2>1. Marked(l) = [k \in 1..N(l) |-> <<Sep>> \o l.links[k]]
    BY <1>2 DEF Marked
  <2> QED
    BY <1>4, <2>1
<1>6. Len(Marked(l)) = N(l)
  BY <1>2, <1>5
<1> QED
  BY <1>2, <1>3, <1>4, <1>6

LEMMA FlatAt ==
  ASSUME NEW l \in Lines, NEW k \in 1..N(l)
  PROVE  Flat(Marked(l))[k] = IF k = 1 THEN Marked(l)[k] ELSE Flat(Marked(l))[k - 1] \o Marked(l)[k]
<1>1. Len(Marked(l)) = N(l) /\ N(l) \in Nat
  BY MarkedType
<1>2. Folds(Flat(Marked(l)), Marked(l), N(l))
  BY <1>1, FlatFolds
<1> DEFINE f == Flat(Marked(l))
<1>3. f = [i \in 1..N(l) |-> IF i = 1 THEN Marked(l)[i] ELSE f[i - 1] \o Marked(l)[i]]
  BY <1>2, Zenon DEF Folds
<1> HIDE DEF f
<1>4. f[k] = IF k = 1 THEN Marked(l)[k] ELSE f[k - 1] \o Marked(l)[k]
  BY <1>3, Zenon
<1> QED
  BY <1>4 DEF f

LEMMA UptoType ==
  ASSUME NEW l \in Lines, NEW k \in 0..N(l)
  PROVE  Upto(l, k) \in Seq(Word)
<1> DEFINE Bad == {m \in Nat : m <= N(l) /\ Upto(l, m) \notin Seq(Word)}
<1>1. N(l) \in Nat
  BY MarkedType
<1>2. ASSUME Bad # {} PROVE FALSE
  <2>1. PICK m \in Bad : \A j \in Bad : m <= j
    <3>1. Bad \subseteq Nat
      OBVIOUS
    <3> HIDE DEF Bad
    <3> QED
      BY <1>2, <3>1, LeastNat
  <2>2. m \in Nat /\ m <= N(l) /\ Upto(l, m) \notin Seq(Word)
    BY <2>1
  <2>3. m # 0
    <3>1. <<>> \in Seq(Word)
      OBVIOUS
    <3> QED
      BY <2>2, <3>1 DEF Upto
  <2>4. m \in 1..N(l) /\ m - 1 \in Nat /\ m - 1 <= N(l) /\ ~(m <= m - 1)
    BY <1>1, <2>2, <2>3
  <2>5. Upto(l, m - 1) \in Seq(Word)
    BY <2>1, <2>4
  <2>6. Marked(l)[m] \in Seq(Word)
    BY <2>4, MarkedType
  <2>7. CASE m = 1
    BY <2>2, <2>4, <2>6, <2>7, FlatAt DEF Upto
  <2>8. CASE m # 1
    <3>1. Upto(l, m - 1) = Flat(Marked(l))[m - 1]
      BY <2>4, <2>8 DEF Upto
    <3>2. Upto(l, m) = Upto(l, m - 1) \o Marked(l)[m]
      BY <2>3, <2>4, <2>8, <3>1, FlatAt DEF Upto
    <3> QED
      BY <2>2, <2>5, <2>6, <3>2
  <2> QED
    BY <2>7, <2>8
<1> QED
  BY <1>1, <1>2

LEMMA UptoNext ==
  ASSUME NEW l \in Lines, NEW k \in 0..N(l), k # N(l)
  PROVE  Extends(l, k)
<1>1. N(l) \in Nat
  BY MarkedType
<1>2. k \in Nat /\ k + 1 \in 1..N(l) /\ k + 1 # 0 /\ (k + 1) - 1 = k
  BY <1>1
<1>3. Marked(l)[k + 1] = <<Sep>> \o l.links[k + 1] /\ Marked(l)[k + 1] \in Seq(Word)
  BY <1>2, MarkedType
<1>4. Upto(l, k) \in Seq(Word)
  BY UptoType
<1> DEFINE m == k + 1
<1>5. Flat(Marked(l))[m] = IF m = 1 THEN Marked(l)[m] ELSE Flat(Marked(l))[m - 1] \o Marked(l)[m]
  <2>1. m \in 1..N(l)
    BY <1>2
  <2> HIDE DEF m
  <2> QED
    BY <2>1, FlatAt
<1>6. CASE k = 0
  <2>1. Upto(l, k) = <<>> /\ Upto(l, k + 1) = Marked(l)[k + 1]
    BY <1>2, <1>5, <1>6 DEF Upto
  <2>2. <<>> \o Marked(l)[k + 1] = Marked(l)[k + 1]
    BY <1>3, ConcatEmptySeq
  <2> QED
    BY <1>3, <1>4, <2>1, <2>2 DEF Extends
<1>7. CASE k # 0
  <2>1. Flat(Marked(l))[k + 1] = Flat(Marked(l))[k] \o Marked(l)[k + 1]
    <3>1. k + 1 # 1
      BY <1>2, <1>7
    <3> QED
      BY <1>2, <1>5, <3>1, Zenon
  <2>2. Upto(l, k) = Flat(Marked(l))[k] /\ Upto(l, k + 1) = Flat(Marked(l))[k + 1]
    BY <1>2, <1>7, Zenon DEF Upto
  <2>3. Upto(l, k + 1) = Upto(l, k) \o Marked(l)[k + 1]
    BY <2>1, <2>2
  <2> QED
    BY <1>3, <1>4, <2>3 DEF Extends
<1> QED
  BY <1>6, <1>7

\* The whole chain is what is reached after the last link.
LEMMA ChainedIsUpto ==
  ASSUME NEW l \in Lines
  PROVE  Chained(l.links) = Upto(l, N(l))
<1>1. Chained(l.links) = FlattenSeq(Marked(l))
  BY DEF Chained, Marked
<1>2. N(l) \in Nat /\ Len(Marked(l)) = N(l)
  BY MarkedType
<1>3. CASE N(l) = 0
  <2>1. FlattenSeq(Marked(l)) = Marked(l)
    BY <1>2, <1>3, Zenon DEF FlattenSeq
  <2>2. Marked(l) = <<>>
    BY <1>2, <1>3, LineAssumption DEF Marked, N
  <2> QED
    BY <1>1, <1>3, <2>1, <2>2 DEF Upto
<1>4. CASE N(l) # 0
  BY <1>1, <1>2, <1>4, FlattenIsFlat DEF Upto
<1> QED
  BY <1>3, <1>4
------------------------------------------------------------------------------
(* Where each link of a chain lies. *)

End(l, k) == Len(Upto(l, k))

Joined(l, k) ==
  /\ End(l, k) \in Nat /\ End(l, k + 1) \in Nat
  /\ End(l, k + 1) = End(l, k) + 1 + Len(l.links[k + 1])
  /\ \A j \in 1..End(l, k) : Upto(l, k + 1)[j] = Upto(l, k)[j]
  /\ Upto(l, k + 1)[End(l, k) + 1] = Sep
  /\ \A j \in 1..Len(l.links[k + 1]) : Upto(l, k + 1)[End(l, k) + 1 + j] = l.links[k + 1][j]

LEMMA UptoJoins ==
  ASSUME NEW l \in Lines, NEW k \in 0..N(l), k # N(l)
  PROVE  Joined(l, k)
<1>1. N(l) \in Nat /\ k + 1 \in 1..N(l)
  <2>1. N(l) \in Nat
    BY MarkedType
  <2> QED
    BY <2>1
<1> DEFINE s == Upto(l, k)
           t == l.links[k + 1]
           u == Upto(l, k + 1)
<1>2. s \in Seq(Word) /\ u = s \o (<<Sep>> \o t)
  BY UptoNext, UptoType DEF Extends
<1>3. t \in Seq(Word)
  BY <1>1, LinkType
<1>4. Sep \in Word
  BY DEF Word
<1> HIDE DEF s, t, u
<1>5. <<Sep>> \o t \in Seq(Word) /\ Len(<<Sep>> \o t) = 1 + Len(t)
  BY <1>3, <1>4
<1>6. (<<Sep>> \o t)[1] = Sep /\ \A j \in 1..Len(t) : (<<Sep>> \o t)[1 + j] = t[j]
  BY <1>3, <1>4
<1> DEFINE v == <<Sep>> \o t
<1> HIDE DEF v
<1>7. v \in Seq(Word) /\ Len(v) = 1 + Len(t) /\ v[1] = Sep /\ \A j \in 1..Len(t) : v[1 + j] = t[j]
  BY <1>5, <1>6 DEF v
<1>8. /\ Len(u) = Len(s) + Len(v)
      /\ \A j \in 1..Len(s) : u[j] = s[j]
      /\ \A j \in 1..Len(v) : u[Len(s) + j] = v[j]
  <2>1. u = s \o v
    BY <1>2 DEF v
  <2> QED
    BY <1>2, <1>7, <2>1
<1>9. /\ Len(s) \in Nat /\ Len(u) \in Nat /\ Len(u) = Len(s) + 1 + Len(t)
      /\ u[Len(s) + 1] = Sep
      /\ \A j \in 1..Len(t) : u[Len(s) + 1 + j] = t[j]
  <2>1. Len(s) \in Nat /\ Len(t) \in Nat
    BY <1>2, <1>3
  <2>2. u[Len(s) + 1] = Sep
    BY <1>7, <1>8, <2>1
  <2>3. ASSUME NEW j \in 1..Len(t) PROVE u[Len(s) + 1 + j] = t[j]
    <3>1. 1 + j \in 1..Len(v) /\ Len(s) + (1 + j) = Len(s) + 1 + j
      BY <1>7, <2>1
    <3> QED
      BY <1>7, <1>8, <3>1
  <2> QED
    BY <1>7, <1>8, <2>1, <2>2, <2>3
<1> QED
  BY <1>8, <1>9 DEF Joined, End, s, t, u

\* What is reached with one link is the beginning of what is reached with more.
Begins(l, k, m) ==
  /\ End(l, k) \in Nat /\ End(l, m) \in Nat /\ End(l, k) <= End(l, m)
  /\ \A j \in 1..End(l, k) : Upto(l, m)[j] = Upto(l, k)[j]

LEMMA UptoBegins ==
  ASSUME NEW l \in Lines, NEW k \in 0..N(l)
  PROVE  Begins(l, k, N(l))
<1>1. N(l) \in Nat
  BY MarkedType
<1> DEFINE Bad == {m \in Nat : k <= m /\ m <= N(l) /\ ~Begins(l, k, m)}
<1>2. ASSUME Bad # {} PROVE FALSE
  <2>1. PICK m \in Bad : \A j \in Bad : m <= j
    <3>1. Bad \subseteq Nat
      OBVIOUS
    <3> HIDE DEF Bad
    <3> QED
      BY <1>2, <3>1, LeastNat
  <2>2. m \in Nat /\ k <= m /\ m <= N(l) /\ ~Begins(l, k, m)
    BY <2>1
  <2>3. End(l, k) \in Nat
    BY UptoType DEF End
  <2>4. m # k
    BY <2>2, <2>3 DEF Begins
  <2>5. m - 1 \in 0..N(l) /\ m - 1 # N(l) /\ m - 1 \in Nat /\ k <= m - 1 /\ ~(m <= m - 1) /\ (m - 1) + 1 = m
    BY <1>1, <2>2, <2>4
  <2>6. Begins(l, k, m - 1)
    BY <2>1, <2>2, <2>5
  <2>7. Joined(l, m - 1)
    BY <2>5, UptoJoins
  <2>8. /\ End(l, m - 1) \in Nat /\ End(l, m) \in Nat
        /\ End(l, m) = End(l, m - 1) + 1 + Len(l.links[m])
        /\ \A j \in 1..End(l, m - 1) : Upto(l, m)[j] = Upto(l, m - 1)[j]
    BY <2>5, <2>7, Zenon DEF Joined
  <2>9. Len(l.links[m]) \in Nat
    <3>1. m \in 1..N(l)
      BY <2>2, <2>5
    <3> QED
      BY <3>1, LinkType
  <2>10. Begins(l, k, m)
    BY <2>6, <2>8, <2>9 DEF Begins
  <2> QED
    BY <2>2, <2>10
<1> QED
  BY <1>1, <1>2

\* None of the words of a chain is a tool.
LEMMA UptoNoTool ==
  ASSUME NEW l \in Lines, NEW k \in 0..N(l)
  PROVE  \A j \in 1..End(l, k) : Upto(l, k)[j] \notin ToolPaths
<1>1. N(l) \in Nat
  BY MarkedType
<1> DEFINE Good(m) == \A j \in 1..End(l, m) : Upto(l, m)[j] \notin ToolPaths
           Bad == {m \in Nat : m <= N(l) /\ ~Good(m)}
<1>2. ASSUME Bad # {} PROVE FALSE
  <2>1. PICK m \in Bad : \A j \in Bad : m <= j
    <3>1. Bad \subseteq Nat
      OBVIOUS
    <3> HIDE DEF Bad
    <3> QED
      BY <1>2, <3>1, LeastNat
  <2>2. m \in Nat /\ m <= N(l) /\ ~Good(m)
    BY <2>1
  <2>3. m # 0
    <3>1. ASSUME m = 0 PROVE Good(m)
      <4>1. Upto(l, m) = <<>>
        BY <3>1 DEF Upto
      <4>2. End(l, m) = 0
        BY <4>1 DEF End
      <4> QED
        BY <4>2
    <3> QED
      BY <2>2, <3>1
  <2>4. m - 1 \in 0..N(l) /\ m - 1 # N(l) /\ m - 1 \in Nat /\ m - 1 <= N(l) /\ ~(m <= m - 1)
        /\ (m - 1) + 1 = m /\ m \in 1..N(l)
    BY <1>1, <2>2, <2>3
  <2>5. Good(m - 1)
    BY <2>1, <2>4
  <2>6. Joined(l, m - 1)
    BY <2>4, UptoJoins
  <2> DEFINE t == l.links[m]
  <2>7. /\ End(l, m - 1) \in Nat /\ End(l, m) \in Nat
        /\ End(l, m) = End(l, m - 1) + 1 + Len(t)
        /\ \A j \in 1..End(l, m - 1) : Upto(l, m)[j] = Upto(l, m - 1)[j]
        /\ Upto(l, m)[End(l, m - 1) + 1] = Sep
        /\ \A j \in 1..Len(t) : Upto(l, m)[End(l, m - 1) + 1 + j] = t[j]
    BY <2>4, <2>6, Zenon DEF Joined
  <2>8. Len(t) \in Nat /\ \A j \in 1..Len(t) : t[j] \notin ToolPaths
    BY <2>4, LinkType
  <2> HIDE DEF t
  <2>9. ASSUME NEW j \in 1..End(l, m) PROVE Upto(l, m)[j] \notin ToolPaths
    <3>1. CASE j <= End(l, m - 1)
      <4>1. j \in 1..End(l, m - 1)
        BY <2>7, <3>1
      <4> QED
        BY <2>5, <2>7, <4>1
    <3>2. CASE j = End(l, m - 1) + 1
      BY <2>7, <3>2, WordAssumption
    <3>3. CASE j > End(l, m - 1) + 1
      <4> DEFINE i == j - (End(l, m - 1) + 1)
      <4>1. i \in 1..Len(t) /\ End(l, m - 1) + 1 + i = j
        BY <2>7, <2>8, <3>3
      <4> HIDE DEF i
      <4>2. Upto(l, m)[End(l, m - 1) + 1 + i] = t[i]
        BY <2>7, <4>1
      <4> QED
        BY <2>8, <4>1, <4>2
    <3> QED
      BY <2>7, <3>1, <3>2, <3>3
  <2> QED
    BY <2>2, <2>9
<1> QED
  BY <1>1, <1>2

\* The chain that go build composes, link by link.
ChainOf(l) == Chained(l.links)

Located(l, k) ==
  /\ End(l, k) \in Nat /\ End(l, k + 1) \in Nat
  /\ End(l, k + 1) = End(l, k) + 1 + Len(l.links[k + 1])
  /\ End(l, k + 1) <= Len(ChainOf(l))
  /\ ChainOf(l)[End(l, k) + 1] = Sep
  /\ \A j \in 1..Len(l.links[k + 1]) : ChainOf(l)[End(l, k) + 1 + j] = l.links[k + 1][j]

LEMMA ChainLocated ==
  ASSUME NEW l \in Lines, NEW k \in 0..N(l), k # N(l)
  PROVE  Located(l, k)
<1>1. N(l) \in Nat /\ k + 1 \in 0..N(l) /\ k + 1 \in 1..N(l)
  <2>1. N(l) \in Nat
    BY MarkedType
  <2> QED
    BY <2>1
<1>2. Joined(l, k)
  BY UptoJoins
<1> DEFINE m == k + 1
           t == l.links[m]
<1>3. Begins(l, m, N(l))
  BY <1>1, UptoBegins
<1>4. Len(t) \in Nat
  BY <1>1, LinkType
<1>5. /\ End(l, k) \in Nat /\ End(l, m) \in Nat /\ End(l, m) = End(l, k) + 1 + Len(t)
      /\ Upto(l, m)[End(l, k) + 1] = Sep
      /\ \A j \in 1..Len(t) : Upto(l, m)[End(l, k) + 1 + j] = t[j]
  BY <1>2, Zenon DEF Joined
<1>6. End(l, m) <= Len(ChainOf(l)) /\ \A j \in 1..End(l, m) : ChainOf(l)[j] = Upto(l, m)[j]
  BY <1>3, ChainedIsUpto DEF Begins, End, ChainOf
<1> HIDE DEF m, t
<1>7. ChainOf(l)[End(l, k) + 1] = Sep
  <2>1. End(l, k) + 1 \in 1..End(l, m)
    BY <1>4, <1>5
  <2> QED
    BY <1>5, <1>6, <2>1
<1>8. ASSUME NEW j \in 1..Len(t) PROVE ChainOf(l)[End(l, k) + 1 + j] = t[j]
  <2>1. End(l, k) + 1 + j \in 1..End(l, m)
    BY <1>4, <1>5
  <2> QED
    BY <1>5, <1>6, <2>1
<1> QED
  BY <1>5, <1>6, <1>7, <1>8 DEF Located, m, t

LEMMA ChainType ==
  ASSUME NEW l \in Lines
  PROVE  /\ ChainOf(l) \in Seq(Word) /\ N(l) \in Nat
         /\ Len(ChainOf(l)) \in Nat
         /\ End(l, 0) = 0 /\ End(l, N(l)) = Len(ChainOf(l))
         /\ \A j \in 1..Len(ChainOf(l)) : ChainOf(l)[j] \notin ToolPaths
         /\ N(l) = 0 => ChainOf(l) = <<>>
         /\ N(l) # 0 => Len(ChainOf(l)) > 0 /\ ChainOf(l)[1] = Sep
<1>1. N(l) \in Nat /\ N(l) \in 0..N(l) /\ 0 \in 0..N(l)
  <2>1. N(l) \in Nat
    BY MarkedType
  <2> QED
    BY <2>1
<1>2. ChainOf(l) = Upto(l, N(l)) /\ End(l, N(l)) = Len(ChainOf(l))
  BY ChainedIsUpto DEF End, ChainOf
<1>3. ChainOf(l) \in Seq(Word)
  BY <1>1, <1>2, UptoType
<1>4. Upto(l, 0) = <<>> /\ End(l, 0) = 0
  BY DEF Upto, End
<1>5. \A j \in 1..Len(ChainOf(l)) : ChainOf(l)[j] \notin ToolPaths
  BY <1>1, <1>2, UptoNoTool
<1>6. ASSUME N(l) # 0 PROVE Len(ChainOf(l)) > 0 /\ ChainOf(l)[1] = Sep
  <2>1. Located(l, 0)
    BY <1>1, <1>6, ChainLocated
  <2>2. 0 + 1 \in 1..N(l)
    BY <1>1, <1>6
  <2>3. Len(l.links[0 + 1]) \in Nat
    BY <2>2, LinkType
  <2> QED
    BY <1>3, <1>4, <2>1, <2>3 DEF Located
<1> QED
  BY <1>1, <1>2, <1>3, <1>4, <1>5, <1>6
------------------------------------------------------------------------------
(* What proven parses of a command line that go build composes. *)

Call(l) == IF l.tool = Absent THEN <<>> ELSE <<l.tool>> \o l.args

\* The tool and its words, and the chain without its first separator.
Understood(l, p) ==
  /\ l.tool \in ToolPaths /\ p.tool = l.tool /\ p.args = l.args
  /\ p.next \in Seq(Word)
  /\ N(l) = 0 => p.next = <<>>
  /\ N(l) # 0 => /\ Len(p.next) = Len(ChainOf(l)) - 1
                 /\ \A j \in 1..Len(p.next) : p.next[j] = ChainOf(l)[j + 1]

LEMMA CallType ==
  ASSUME NEW l \in Lines
  PROVE  /\ l.own \in Seq(Word) /\ l.args \in Seq(Word) /\ Call(l) \in Seq(Word)
         /\ \A j \in 1..Len(l.own) : l.own[j] # Sep
         /\ l.tool # Absent => /\ l.tool \in ToolPaths /\ Call(l) = <<l.tool>> \o l.args
                               /\ Len(Call(l)) = 1 + Len(l.args) /\ Call(l)[1] = l.tool
                               /\ \A j \in 1..Len(l.args) : Call(l)[1 + j] = l.args[j]
         /\ l.tool = Absent => Call(l) = <<>>
<1>1. /\ l.own \in Seq(STRING) /\ l.args \in Seq(STRING)
      /\ l.tool \in ToolPaths \cup {Absent} /\ Sep \notin ToSet(l.own)
  BY LineAssumption
<1>2. l.own \in Seq(Word) /\ l.args \in Seq(Word)
  BY <1>1, WordSeq
<1>3. \A j \in 1..Len(l.own) : l.own[j] # Sep
  BY <1>1, <1>2 DEF ToSet
<1>4. l.tool \in Word
  BY <1>1, WordAssumption DEF Word
<1>5. CASE l.tool = Absent
  <2>1. Call(l) = <<>>
    BY <1>5 DEF Call
  <2> QED
    BY <1>2, <1>3, <1>5, <2>1
<1>6. CASE l.tool # Absent
  <2>1. Call(l) = <<l.tool>> \o l.args
    BY <1>6 DEF Call
  <2>2. <<l.tool>> \o l.args \in Seq(Word)
    BY <1>2, <1>4
  <2>3. /\ Len(<<l.tool>> \o l.args) = 1 + Len(l.args) /\ (<<l.tool>> \o l.args)[1] = l.tool
        /\ \A j \in 1..Len(l.args) : (<<l.tool>> \o l.args)[1 + j] = l.args[j]
    BY <1>2, <1>4
  <2> QED
    BY <1>1, <1>2, <1>3, <1>6, <2>1, <2>2, <2>3
<1> QED
  BY <1>5, <1>6

\* A plain command line is the tool and its words.
LEMMA PlainParses ==
  ASSUME NEW l \in Lines, N(l) = 0, ParseChain(Composed(l)).ok
  PROVE  Understood(l, ParseChain(Composed(l)))
<1>1. l.links = <<>>
  BY LineAssumption DEF N
<1>2. l.own = <<>> /\ Sep \notin ToSet(l.args)
  BY <1>1, LineAssumption
<1>3. ChainOf(l) = <<>> /\ Call(l) \in Seq(Word)
  BY ChainType, CallType
<1>4. Composed(l) = Call(l)
  BY <1>2, <1>3 DEF Composed, ChainOf, Call
<1> DEFINE s == Call(l)
<1>5. \A i \in 1..Len(s) : s[i] # Sep
  <2>1. CASE l.tool = Absent
    <3>1. s = <<>>
      BY <2>1, CallType
    <3> QED
      BY <3>1
  <2>2. CASE l.tool # Absent
    <3>1. /\ Len(s) = 1 + Len(l.args) /\ s[1] = l.tool
          /\ \A j \in 1..Len(l.args) : s[1 + j] = l.args[j]
          /\ l.tool \in ToolPaths /\ l.args \in Seq(Word)
      BY <2>2, CallType
    <3>2. \A j \in 1..Len(l.args) : l.args[j] # Sep
      BY <1>2, <3>1 DEF ToSet
    <3> HIDE DEF s
    <3>3. ASSUME NEW i \in 1..Len(s) PROVE s[i] # Sep
      <4>1. CASE i = 1
        BY <3>1, <4>1, WordAssumption
      <4>2. CASE i # 1
        <5> DEFINE j == i - 1
        <5>1. j \in 1..Len(l.args) /\ 1 + j = i
          BY <3>1, <4>2
        <5> HIDE DEF j
        <5> QED
          BY <3>1, <3>2, <5>1
      <4> QED
        BY <4>1, <4>2
    <3> QED
      BY <3>3
  <2> QED
    BY <2>1, <2>2
<1>6. SelectInSeq(s, IsSep) = 0
  <2>1. s \in Seq(Word) /\ Len(s) \in Nat /\ Len(s) <= Len(s)
    BY <1>3
  <2> DEFINE n == Len(s)
  <2>2. n \in Nat /\ n = Len(s) /\ n <= Len(s) /\ \A i \in 1..n : s[i] # Sep
    BY <1>5, <2>1
  <2> HIDE DEF s, n
  <2> QED
    BY <2>1, <2>2, FirstSep
<1>7. ParseChain(s) = IF s = <<>> THEN NoParse
                      ELSE [ok |-> TRUE, next |-> <<>>, tool |-> Head(s), args |-> Tail(s)]
  BY <1>6, Zenon DEF ParseChain
<1>8. s # <<>>
  <2>1. ~NoParse.ok
    BY DEF NoParse
  <2> QED
    BY <1>4, <1>7, <2>1
<1>9. l.tool # Absent
  BY <1>8, CallType
<1>10. l.tool \in ToolPaths /\ s = <<l.tool>> \o l.args /\ l.args \in Seq(Word) /\ l.tool \in Word
  BY <1>9, CallType, WordAssumption DEF Word
<1>11. Head(<<l.tool>> \o l.args) = l.tool /\ Tail(<<l.tool>> \o l.args) = l.args
  BY <1>10
<1>12. <<>> \in Seq(Word)
  OBVIOUS
<1>13. ParseChain(Composed(l)) = [ok |-> TRUE, next |-> <<>>, tool |-> Head(s), args |-> Tail(s)]
  BY <1>4, <1>7, <1>8
<1> HIDE DEF s
<1> QED
  BY <1>10, <1>11, <1>12, <1>13 DEF Understood

\* In a chain, the tool is the first word that is one.
LEMMA ChainParses ==
  ASSUME NEW l \in Lines, N(l) # 0, ParseChain(Composed(l)).ok
  PROVE  Understood(l, ParseChain(Composed(l)))
<1> DEFINE c == ChainOf(l)
           t == Call(l)
           o == l.own
           s == o \o c \o t
<1>1. Composed(l) = s
  BY DEF Composed, ChainOf, Call
<1>2. /\ c \in Seq(Word) /\ Len(c) \in Nat /\ Len(c) > 0 /\ c[1] = Sep
      /\ \A j \in 1..Len(c) : c[j] \notin ToolPaths
  BY ChainType
<1>3. /\ o \in Seq(Word) /\ Len(o) \in Nat /\ \A j \in 1..Len(o) : o[j] # Sep
      /\ t \in Seq(Word) /\ Len(t) \in Nat
  <2>1. o \in Seq(Word) /\ t \in Seq(Word) /\ \A j \in 1..Len(o) : o[j] # Sep
    BY CallType
  <2> HIDE DEF o, t
  <2> QED
    BY <2>1
<1> HIDE DEF c, t, o
<1>4. /\ s \in Seq(Word) /\ Len(s) = Len(o) + Len(c) + Len(t)
      /\ \A j \in 1..Len(o) : s[j] = o[j]
      /\ \A j \in 1..Len(c) : s[Len(o) + j] = c[j]
      /\ \A j \in 1..Len(t) : s[Len(o) + Len(c) + j] = t[j]
  <2>1. /\ o \o c \in Seq(Word) /\ Len(o \o c) = Len(o) + Len(c)
        /\ \A j \in 1..Len(o) : (o \o c)[j] = o[j]
        /\ \A j \in 1..Len(c) : (o \o c)[Len(o) + j] = c[j]
    BY <1>2, <1>3
  <2> DEFINE u == o \o c
  <2> HIDE DEF u
  <2>2. /\ u \in Seq(Word) /\ Len(u) = Len(o) + Len(c)
        /\ \A j \in 1..Len(o) : u[j] = o[j]
        /\ \A j \in 1..Len(c) : u[Len(o) + j] = c[j]
    BY <2>1 DEF u
  <2>3. /\ u \o t \in Seq(Word) /\ Len(u \o t) = Len(u) + Len(t)
        /\ \A j \in 1..Len(u) : (u \o t)[j] = u[j]
        /\ \A j \in 1..Len(t) : (u \o t)[Len(u) + j] = t[j]
    BY <1>3, <2>2, Joining
  <2>4. s = u \o t
    BY DEF u
  <2> HIDE DEF s
  <2>5. s \in Seq(Word) /\ Len(s) = Len(o) + Len(c) + Len(t)
    BY <2>2, <2>3, <2>4
  <2>6. \A j \in 1..Len(t) : s[Len(o) + Len(c) + j] = t[j]
    BY <2>2, <2>3, <2>4
  <2>7. \A j \in 1..Len(u) : s[j] = u[j]
    BY <2>3, <2>4
  <2>8. ASSUME NEW j \in 1..Len(o) PROVE s[j] = o[j]
    <3>1. j \in 1..Len(u)
      BY <1>2, <1>3, <2>2
    <3> QED
      BY <2>2, <2>7, <3>1
  <2>9. ASSUME NEW j \in 1..Len(c) PROVE s[Len(o) + j] = c[j]
    <3>1. Len(o) + j \in 1..Len(u)
      BY <1>2, <1>3, <2>2
    <3> QED
      BY <2>2, <2>7, <3>1
  <2> QED
    BY <2>5, <2>6, <2>8, <2>9
<1> HIDE DEF s
<1> DEFINE r == From(s, Len(o) + 2)
<1>5. SelectInSeq(s, IsSep) = Len(o) + 1
  <2> DEFINE n == Len(o)
  <2>1. n \in Nat /\ n < Len(s) /\ n <= Len(s) /\ s[n + 1] = Sep
    <3>1. 1 \in 1..Len(c) /\ Len(o) < Len(s)
      BY <1>2, <1>3, <1>4
    <3>2. s[Len(o) + 1] = Sep
      BY <1>2, <1>4, <3>1
    <3> QED
      BY <1>3, <3>1, <3>2
  <2>2. \A i \in 1..n : s[i] # Sep
    BY <1>3, <1>4
  <2> HIDE DEF n
  <2>3. SelectInSeq(s, IsSep) = n + 1
    BY <1>4, <2>1, <2>2, FirstSep
  <2> QED
    BY <2>3 DEF n
<1>6. /\ r \in Seq(Word) /\ Len(r) = Len(c) - 1 + Len(t)
      /\ \A j \in 1..(Len(c) - 1) : r[j] = c[j + 1]
      /\ \A j \in 1..Len(t) : r[Len(c) - 1 + j] = t[j]
  <2>1. r \in Seq(Word) /\ Len(r) = Len(c) - 1 + Len(t)
    BY <1>2, <1>3, <1>4 DEF From
  <2>2. \A j \in 1..Len(r) : r[j] = s[Len(o) + 1 + j]
    BY <1>2, <1>3, <1>4 DEF From
  <2> HIDE DEF r
  <2>3. ASSUME NEW j \in 1..(Len(c) - 1) PROVE r[j] = c[j + 1]
    <3>1. j \in 1..Len(r) /\ j + 1 \in 1..Len(c) /\ Len(o) + 1 + j = Len(o) + (j + 1)
      BY <1>2, <1>3, <2>1
    <3> QED
      BY <1>4, <2>2, <3>1
  <2>4. ASSUME NEW j \in 1..Len(t) PROVE r[Len(c) - 1 + j] = t[j]
    <3>1. Len(c) - 1 + j \in 1..Len(r) /\ Len(o) + 1 + (Len(c) - 1 + j) = Len(o) + Len(c) + j
      BY <1>2, <1>3, <2>1
    <3> QED
      BY <1>4, <2>2, <3>1
  <2> QED
    BY <2>1, <2>3, <2>4
<1>7. ParseChain(s) = IF FindGoToolIndex(r) = 0 THEN NoParse
                      ELSE [ok |-> TRUE, next |-> SubSeq(r, 1, FindGoToolIndex(r) - 1),
                            tool |-> r[FindGoToolIndex(r)],
                            args |-> From(r, FindGoToolIndex(r) + 1)]
  <2>1. SelectInSeq(s, IsSep) + 1 = Len(o) + 2 /\ SelectInSeq(s, IsSep) # 0
    BY <1>3, <1>5
  <2> QED
    BY <2>1, Zenon DEF ParseChain
<1> HIDE DEF r
<1> DEFINE m == Len(c) - 1
<1>8. m \in Nat /\ Len(c) = m + 1 /\ Len(r) = m + Len(t) /\ \A j \in 1..m : r[j] \notin ToolPaths
  <2>1. m \in Nat /\ Len(c) = m + 1 /\ Len(r) = m + Len(t)
    BY <1>2, <1>6
  <2>2. ASSUME NEW j \in 1..m PROVE r[j] \notin ToolPaths
    <3>1. j + 1 \in 1..Len(c) /\ j \in 1..(Len(c) - 1)
      BY <1>2, <2>1
    <3> QED
      BY <1>2, <1>6, <3>1
  <2> QED
    BY <2>1, <2>2
<1>9. \A j \in 1..m : r[j] = c[j + 1]
  BY <1>6
<1>10. \A j \in 1..Len(t) : r[m + j] = t[j]
  BY <1>6
<1> HIDE DEF m
<1>11. l.tool # Absent
  <2>1. ASSUME l.tool = Absent PROVE FALSE
    <3>1. t = <<>>
      BY <2>1, CallType DEF t
    <3>2. m <= Len(r) /\ m = Len(r)
      BY <1>8, <3>1
    <3>3. FindGoToolIndex(r) = 0
      BY <1>6, <1>8, <3>2, FirstTool
    <3>4. ~NoParse.ok
      BY DEF NoParse
    <3> QED
      BY <1>1, <1>7, <3>3, <3>4
  <2> QED
    BY <2>1
<1>12. /\ l.tool \in ToolPaths /\ l.args \in Seq(Word)
       /\ Len(t) = 1 + Len(l.args) /\ t[1] = l.tool
       /\ \A j \in 1..Len(l.args) : t[1 + j] = l.args[j]
  BY <1>11, CallType DEF t
<1>13. FindGoToolIndex(r) = m + 1 /\ r[m + 1] = l.tool
  <2>1. 1 \in 1..Len(t) /\ m < Len(r) /\ m <= Len(r)
    BY <1>8, <1>12
  <2>2. r[m + 1] = l.tool
    BY <1>10, <1>12, <2>1
  <2> QED
    BY <1>6, <1>8, <1>12, <2>1, <2>2, FirstTool
<1>14. From(r, m + 2) = l.args
  <2> DEFINE a == From(r, m + 2)
  <2>1. a \in Seq(Word) /\ Len(a) = Len(l.args)
    BY <1>6, <1>8, <1>12 DEF From
  <2>2. \A j \in 1..Len(a) : a[j] = r[m + 1 + j]
    BY <1>6, <1>8, <1>12 DEF From
  <2> HIDE DEF a
  <2>3. ASSUME NEW j \in 1..Len(a) PROVE a[j] = l.args[j]
    <3>0. j \in 1..Len(l.args) /\ Len(l.args) \in Nat
      BY <1>12, <2>1
    <3>1. 1 + j \in 1..Len(t) /\ m + (1 + j) = m + 1 + j /\ j \in 1..Len(l.args)
      BY <1>8, <1>12, <3>0
    <3> QED
      BY <1>10, <1>12, <2>2, <3>1
  <2>4. a = l.args
    BY <1>12, <2>1, <2>3, SeqEqual
  <2> QED
    BY <2>4 DEF a
<1>15. /\ SubSeq(r, 1, m) \in Seq(Word) /\ Len(SubSeq(r, 1, m)) = m
       /\ \A j \in 1..m : SubSeq(r, 1, m)[j] = c[j + 1]
  <2>1. m <= Len(r)
    BY <1>8, <1>12
  <2>2. /\ SubSeq(r, 1, m) \in Seq(Word) /\ Len(SubSeq(r, 1, m)) = m
        /\ \A j \in 1..m : SubSeq(r, 1, m)[j] = r[j]
    BY <1>6, <1>8, <2>1
  <2> QED
    BY <1>9, <2>2
<1>16. ParseChain(s) = [ok |-> TRUE, next |-> SubSeq(r, 1, m), tool |-> l.tool, args |-> l.args]
  <2>1. (m + 1) - 1 = m /\ (m + 1) + 1 = m + 2 /\ m + 1 # 0
    BY <1>8
  <2> QED
    BY <1>7, <1>13, <1>14, <2>1
<1>17. Len(c) - 1 = m
  BY <1>8
<1> DEFINE x == SubSeq(r, 1, m)
<1> HIDE DEF x
<1>18. ParseChain(s) = [ok |-> TRUE, next |-> x, tool |-> l.tool, args |-> l.args]
  BY <1>16 DEF x
<1>19. x \in Seq(Word) /\ Len(x) = m /\ \A j \in 1..m : x[j] = c[j + 1]
  BY <1>15 DEF x
<1> QED
  BY <1>1, <1>12, <1>17, <1>18, <1>19 DEF Understood, c

LEMMA Parses ==
  ASSUME NEW l \in Lines, ParseChain(Composed(l)).ok
  PROVE  Understood(l, ParseChain(Composed(l)))
BY PlainParses, ChainParses
------------------------------------------------------------------------------
(* The inductive invariant. *)

\* The words the tool is to be given, and the argument vector they end.
ToolArgs == Substituted(line.args, plan.copied) \o (IF plan.stub THEN <<Stub>> ELSE <<>>)
Whole    == ChainOf(line) \o (<<line.tool>> \o ToolArgs)

\* How much of it k successors, and the separator before the next, take away.
Passed(k) == End(line, k) + (IF k = N(line) THEN 0 ELSE 1)

\* Until something runs, the argument vector is the one go build composed.
Planning ==
  phase \in {"start", "stub", "user", "rewrite", "exec"} =>
    argv = Composed(line) /\ ran = <<>> /\ code = 0 /\ (phase # "start" => Parsed.ok)

\* Nothing is planned before the package is looked at.
Unplanned == phase \in {"start", "stub", "user"} => plan = NoPlan /\ temp = {}

\* The sources to be rewritten are words of the command line.
Places == phase = "rewrite" => left \subseteq CompileSourceFiles(line.args)

\* Exactly the files that exist are to be removed, and they are until the end.
Accounted ==
  /\ phase # "exit" => unread = Absent /\ \A f \in Source \cup {Stub} : File(f) \in temp <=> File(f) \in plan.cleanup
  /\ phase = "exit" /\ unread = Absent => \A f \in Source \cup {Stub} : File(f) \notin temp

\* What the plan puts in an argument vector is to be removed.
Covered ==
  /\ \A s \in plan.copied : File(s) \in plan.cleanup
  /\ plan.stub => File(Stub) \in plan.cleanup

\* What runs has the rest of the whole argument vector: as many successors have
\* taken their words as have run.
Threaded ==
  phase = "running" =>
    /\ line.tool \in ToolPaths /\ Len(ran) \in 0..N(line)
    /\ argv = From(Whole, Passed(Len(ran)) + 1)

\* An invocation that ends well has run every successor, and then the tool.
Finished ==
  phase \in {"ran", "exit"} /\ code = 0 =>
    Len(ran) = N(line) /\ argv # <<>> /\ Head(argv) = line.tool

IInv ==
  /\ TypeOK /\ line \in Lines /\ ran \in Seq(Seq(STRING))
  /\ Planning /\ Unplanned /\ Places /\ Accounted /\ Covered /\ Threaded /\ Finished
------------------------------------------------------------------------------
(* Every step keeps the invariant. *)

LEMMA FileNames ==
  /\ \A f, g : File(f) = File(g) <=> f = g
  /\ \A f, g : File(f) # Dir(g)
BY DEF File, Dir

\* Once something is planned, what was parsed is what go build asked for.
LEMMA AsAsked ==
  ASSUME IInv, phase \in {"stub", "user", "rewrite", "exec"}
  PROVE  Understood(line, Parsed)
<1>1. line \in Lines /\ argv = Composed(line) /\ Parsed.ok
  BY DEF IInv, Planning
<1> QED
  BY <1>1, Parses DEF Parsed

LEMMA InitIInv == Init => IInv
<1> SUFFICES ASSUME Init PROVE IInv
  OBVIOUS
<1> USE DEF Init
<1>1. TypeOK
  <2>1. {} \in SUBSET Source /\ {} \in SUBSET {File(f) : f \in Source \cup {Stub}}
    OBVIOUS
  <2>2. plan \in [copied : SUBSET Source, stub : BOOLEAN,
                  cleanup : SUBSET {File(f) : f \in Source \cup {Stub}}]
    BY <2>1 DEF NoPlan
  <2> QED
    BY <2>2 DEF TypeOK
<1>2. Planning /\ Unplanned /\ Places /\ Threaded /\ Finished
  BY DEF Planning, Unplanned, Places, Threaded, Finished
<1>3. Accounted /\ Covered
  BY DEF Accounted, Covered, NoPlan
<1> QED
  BY <1>1, <1>2, <1>3 DEF IInv

LEMMA BadArgumentsIInv == IInv /\ BadArguments => IInv'
<1> SUFFICES ASSUME IInv, BadArguments PROVE IInv'
  OBVIOUS
<1> USE DEF BadArguments, Exit
<1>1. code' # 0 /\ code' \in 0..2 /\ phase' = "exit"
  OBVIOUS
<1>2. TypeOK' /\ line' \in Lines /\ ran' \in Seq(Seq(STRING))
  BY <1>1 DEF IInv, TypeOK
<1>3. Planning' /\ Unplanned' /\ Places' /\ Threaded' /\ Finished'
  BY <1>1 DEF Planning, Unplanned, Places, Threaded, Finished
<1>4. Accounted' /\ Covered'
  BY <1>1 DEF IInv, Unplanned, NoPlan, Accounted, Covered
<1> QED
  BY <1>2, <1>3, <1>4 DEF IInv

LEMMA PlanCompileIInv == IInv /\ PlanCompile => IInv'
<1> SUFFICES ASSUME IInv, PlanCompile PROVE IInv'
  OBVIOUS
<1>1. /\ phase = "start" /\ Parsed.ok /\ phase' \in {"exec", "stub", "user"}
      /\ UNCHANGED <<line, argv, plan, temp, left, unread, ran, code>>
  BY DEF PlanCompile
<1>2. TypeOK' /\ line' \in Lines /\ ran' \in Seq(Seq(STRING))
  BY <1>1 DEF IInv, TypeOK
<1>3. Planning'
  BY <1>1 DEF IInv, Planning, Parsed
<1>4. Unplanned' /\ Places' /\ Threaded' /\ Finished'
  BY <1>1 DEF IInv, Unplanned, Places, Threaded, Finished
<1>5. Accounted' /\ Covered'
  BY <1>1 DEF IInv, Accounted, Covered
<1> QED
  BY <1>2, <1>3, <1>4, <1>5 DEF IInv

LEMMA PlanProvenStubIInv == IInv /\ PlanProvenStub => IInv'
<1> SUFFICES ASSUME IInv, PlanProvenStub PROVE IInv'
  OBVIOUS
<1>1. phase = "stub" /\ UNCHANGED <<line, argv, left, unread, ran>>
  BY DEF PlanProvenStub
<1>2. plan = NoPlan /\ temp = {} /\ unread = Absent /\ code = 0 /\ ran = <<>> /\ argv = Composed(line) /\ Parsed.ok
  BY <1>1 DEF IInv, Unplanned, Accounted, Planning
<1>3. line' \in Lines /\ ran' \in Seq(Seq(STRING))
  BY <1>1 DEF IInv
<1>4. CASE Exit(1) /\ UNCHANGED <<plan, temp>>
  <2>1. TypeOK'
    BY <1>1, <1>4 DEF IInv, TypeOK, Exit
  <2>2. Planning' /\ Unplanned' /\ Places' /\ Threaded' /\ Finished'
    BY <1>4 DEF Exit, Planning, Unplanned, Places, Threaded, Finished
  <2>3. Accounted' /\ Covered'
    BY <1>2, <1>4 DEF Exit, Accounted, Covered, NoPlan
  <2> QED
    BY <1>3, <2>1, <2>2, <2>3 DEF IInv
<1>5. CASE phase' = "exec" /\ UNCHANGED <<plan, temp, code>>
  <2>1. TypeOK'
    BY <1>1, <1>5 DEF IInv, TypeOK
  <2>2. Planning' /\ Unplanned' /\ Places' /\ Threaded' /\ Finished'
    BY <1>1, <1>2, <1>5 DEF Planning, Unplanned, Places, Threaded, Finished, Parsed
  <2>3. Accounted' /\ Covered'
    BY <1>1, <1>2, <1>5 DEF Accounted, Covered, NoPlan
  <2> QED
    BY <1>3, <2>1, <2>2, <2>3 DEF IInv
<1>6. CASE /\ temp' = temp \cup {File(Stub)}
           /\ plan' = [copied |-> {}, stub |-> TRUE, cleanup |-> {File(Stub)}]
           /\ phase' = "exec" /\ UNCHANGED code
  <2>1. TypeOK'
    <3>1. {} \in SUBSET Source /\ {File(Stub)} \in SUBSET {File(f) : f \in Source \cup {Stub}}
      OBVIOUS
    <3>2. plan' \in [copied : SUBSET Source, stub : BOOLEAN,
                     cleanup : SUBSET {File(f) : f \in Source \cup {Stub}}]
      BY <1>6, <3>1
    <3>3. temp' \subseteq {File(f) : f \in Source \cup {Stub}} \cup {Dir(s) : s \in Source}
      BY <1>2, <1>6
    <3> QED
      BY <1>1, <1>6, <3>2, <3>3 DEF IInv, TypeOK
  <2>2. Planning' /\ Unplanned' /\ Places' /\ Threaded' /\ Finished'
    BY <1>1, <1>2, <1>6 DEF Planning, Unplanned, Places, Threaded, Finished, Parsed
  <2>3. Accounted' /\ Covered'
    BY <1>1, <1>2, <1>6 DEF Accounted, Covered
  <2> QED
    BY <1>3, <2>1, <2>2, <2>3 DEF IInv
<1> QED
  BY <1>4, <1>5, <1>6 DEF PlanProvenStub

LEMMA PlanUserPackageIInv == IInv /\ PlanUserPackage => IInv'
<1> SUFFICES ASSUME IInv, PlanUserPackage PROVE IInv'
  OBVIOUS
<1>1. phase = "user" /\ UNCHANGED <<line, argv, plan, temp, unread, ran>>
  BY DEF PlanUserPackage
<1>2. plan = NoPlan /\ temp = {} /\ unread = Absent /\ code = 0 /\ ran = <<>> /\ argv = Composed(line) /\ Parsed.ok
  BY <1>1 DEF IInv, Unplanned, Accounted, Planning
<1>3. line' \in Lines /\ ran' \in Seq(Seq(STRING))
  BY <1>1 DEF IInv
<1>4. Parsed.args = line.args
  BY <1>1, AsAsked DEF Understood
<1>5. Accounted' /\ Covered'
  BY <1>1, <1>2 DEF Accounted, Covered, NoPlan
<1>6. CASE Exit(1) /\ UNCHANGED left
  <2>1. TypeOK'
    BY <1>1, <1>6 DEF IInv, TypeOK, Exit
  <2>2. Planning' /\ Unplanned' /\ Places' /\ Threaded' /\ Finished'
    BY <1>6 DEF Exit, Planning, Unplanned, Places, Threaded, Finished
  <2> QED
    BY <1>3, <1>5, <2>1, <2>2 DEF IInv
<1>7. CASE phase' = "exec" /\ UNCHANGED <<left, code>>
  <2>1. TypeOK'
    BY <1>1, <1>7 DEF IInv, TypeOK
  <2>2. Planning' /\ Unplanned' /\ Places' /\ Threaded' /\ Finished'
    BY <1>1, <1>2, <1>7 DEF Planning, Unplanned, Places, Threaded, Finished, Parsed
  <2> QED
    BY <1>3, <1>5, <2>1, <2>2 DEF IInv
<1>8. CASE phase' = "rewrite" /\ left' = CompileSourceFiles(Parsed.args) /\ UNCHANGED code
  <2>1. TypeOK'
    BY <1>1, <1>8 DEF IInv, TypeOK
  <2>2. Planning' /\ Unplanned' /\ Threaded' /\ Finished'
    BY <1>1, <1>2, <1>8 DEF Planning, Unplanned, Threaded, Finished, Parsed
  <2>3. Places'
    BY <1>1, <1>4, <1>8 DEF Places
  <2> QED
    BY <1>3, <1>5, <2>1, <2>2, <2>3 DEF IInv
<1> QED
  BY <1>6, <1>7, <1>8 DEF PlanUserPackage

\* While sources are rewritten.
LEMMA Rewriting ==
  ASSUME IInv, phase = "rewrite"
  PROVE  /\ unread = Absent /\ code = 0 /\ ran = <<>> /\ argv = Composed(line) /\ Parsed.ok
         /\ \A i \in left : Parsed.args[i] \in Source
         /\ \A f \in Source \cup {Stub} : File(f) \in temp <=> File(f) \in plan.cleanup
<1>1. Parsed.args = line.args
  BY AsAsked DEF Understood
<1>2. left \subseteq CompileSourceFiles(line.args)
  BY DEF IInv, Places
<1> QED
  BY <1>1, <1>2 DEF IInv, Accounted, Planning, CompileSourceFiles

LEMMA RewriteUnchangedIInv == IInv /\ RewriteUnchanged => IInv'
<1> SUFFICES ASSUME IInv, RewriteUnchanged PROVE IInv'
  OBVIOUS
<1>1. /\ left' \subseteq left /\ phase = "rewrite"
      /\ UNCHANGED <<line, argv, phase, plan, temp, unread, ran, code>>
  BY DEF RewriteUnchanged
<1>2. TypeOK' /\ line' \in Lines /\ ran' \in Seq(Seq(STRING))
  BY <1>1 DEF IInv, TypeOK
<1>3. Planning' /\ Unplanned' /\ Places' /\ Threaded' /\ Finished'
  BY <1>1 DEF IInv, Planning, Unplanned, Places, Threaded, Finished, Parsed
<1>4. Accounted' /\ Covered'
  BY <1>1 DEF IInv, Accounted, Covered
<1> QED
  BY <1>2, <1>3, <1>4 DEF IInv

LEMMA RewrittenIInv == IInv /\ Rewritten => IInv'
<1> SUFFICES ASSUME IInv, Rewritten PROVE IInv'
  OBVIOUS
<1>1. phase = "rewrite" /\ UNCHANGED <<line, argv, phase, unread, ran, code>>
  BY DEF Rewritten
<1>2. PICK i \in left :
        /\ left' = left \ {i}
        /\ temp' = temp \cup {Dir(Parsed.args[i]), File(Parsed.args[i])}
        /\ plan' = [plan EXCEPT !.copied = @ \cup {Parsed.args[i]},
                                !.cleanup = @ \cup {File(Parsed.args[i])}]
  BY DEF Rewritten
<1> DEFINE s == Parsed.args[i]
<1>3. s \in Source
  BY <1>1, <1>2, Rewriting
<1>4. /\ temp' = temp \cup {Dir(s), File(s)}
      /\ plan' = [plan EXCEPT !.copied = @ \cup {s}, !.cleanup = @ \cup {File(s)}]
  BY <1>2
<1> HIDE DEF s
<1>5. /\ plan \in [copied : SUBSET Source, stub : BOOLEAN,
                   cleanup : SUBSET {File(f) : f \in Source \cup {Stub}}]
      /\ temp \subseteq {File(f) : f \in Source \cup {Stub}} \cup {Dir(t) : t \in Source}
  BY DEF IInv, TypeOK
<1>6. /\ plan'.copied = plan.copied \cup {s} /\ plan'.stub = plan.stub
      /\ plan'.cleanup = plan.cleanup \cup {File(s)}
  BY <1>4, <1>5
<1>7. TypeOK'
  <2>1. plan' \in [copied : SUBSET Source, stub : BOOLEAN,
                   cleanup : SUBSET {File(f) : f \in Source \cup {Stub}}]
    <3>1. plan.copied \cup {s} \in SUBSET Source
      BY <1>3, <1>5
    <3>2. plan.cleanup \cup {File(s)} \in SUBSET {File(f) : f \in Source \cup {Stub}}
      BY <1>3, <1>5
    <3> QED
      BY <1>4, <1>5, <3>1, <3>2
  <2>2. temp' \subseteq {File(f) : f \in Source \cup {Stub}} \cup {Dir(t) : t \in Source}
    BY <1>3, <1>4, <1>5
  <2> QED
    BY <1>1, <2>1, <2>2 DEF IInv, TypeOK
<1>8. Planning' /\ Unplanned' /\ Places' /\ Threaded' /\ Finished'
  BY <1>1, <1>2 DEF IInv, Planning, Unplanned, Places, Threaded, Finished, Parsed
<1>9. Accounted'
  <2>1. \A f \in Source \cup {Stub} : File(f) \in temp' <=> File(f) \in plan'.cleanup
    BY <1>1, <1>4, <1>6, Rewriting, FileNames
  <2> QED
    BY <1>1, <2>1, Rewriting DEF Accounted
<1>10. Covered'
  BY <1>6 DEF IInv, Covered
<1> QED
  BY <1>1, <1>7, <1>8, <1>9, <1>10 DEF IInv

LEMMA RewriteFailsIInv == IInv /\ RewriteFails => IInv'
<1> SUFFICES ASSUME IInv, RewriteFails PROVE IInv'
  OBVIOUS
<1>1. /\ phase = "rewrite" /\ phase' = "exit" /\ code' = 1
      /\ UNCHANGED <<line, argv, plan, temp, left, ran>>
  BY DEF RewriteFails, Exit
<1>2. unread' \in Source
  BY <1>1, Rewriting DEF RewriteFails
<1>3. unread' # Absent
  BY <1>2, WordAssumption
<1>4. TypeOK' /\ line' \in Lines /\ ran' \in Seq(Seq(STRING))
  BY <1>1, <1>2 DEF IInv, TypeOK
<1>5. Planning' /\ Unplanned' /\ Places' /\ Threaded' /\ Finished'
  BY <1>1 DEF Planning, Unplanned, Places, Threaded, Finished
<1>6. Accounted' /\ Covered'
  BY <1>1, <1>3 DEF IInv, Accounted, Covered
<1> QED
  BY <1>4, <1>5, <1>6 DEF IInv

LEMMA WriteFailsIInv == IInv /\ WriteFails => IInv'
<1> SUFFICES ASSUME IInv, WriteFails PROVE IInv'
  OBVIOUS
<1>1. /\ phase = "rewrite" /\ phase' = "exit" /\ code' = 1 /\ temp' = temp \ plan.cleanup
      /\ UNCHANGED <<line, argv, plan, left, unread, ran>>
  BY DEF WriteFails, Exit
<1>2. TypeOK' /\ line' \in Lines /\ ran' \in Seq(Seq(STRING))
  BY <1>1 DEF IInv, TypeOK
<1>3. Planning' /\ Unplanned' /\ Places' /\ Threaded' /\ Finished'
  BY <1>1 DEF Planning, Unplanned, Places, Threaded, Finished
<1>4. Accounted'
  BY <1>1, Rewriting DEF Accounted
<1>5. Covered'
  BY <1>1 DEF IInv, Covered
<1> QED
  BY <1>2, <1>3, <1>4, <1>5 DEF IInv

LEMMA RewriteDoneIInv == IInv /\ RewriteDone => IInv'
<1> SUFFICES ASSUME IInv, RewriteDone PROVE IInv'
  OBVIOUS
<1>1. /\ phase = "rewrite" /\ phase' = "exec"
      /\ UNCHANGED <<line, argv, plan, temp, left, unread, ran, code>>
  BY DEF RewriteDone
<1>2. TypeOK' /\ line' \in Lines /\ ran' \in Seq(Seq(STRING))
  BY <1>1 DEF IInv, TypeOK
<1>3. Planning' /\ Unplanned' /\ Places' /\ Threaded' /\ Finished'
  BY <1>1 DEF IInv, Planning, Unplanned, Places, Threaded, Finished, Parsed
<1>4. Accounted' /\ Covered'
  BY <1>1 DEF IInv, Accounted, Covered
<1> QED
  BY <1>2, <1>3, <1>4 DEF IInv
------------------------------------------------------------------------------
(* What runs, and in what order. *)

LEMMA FromType ==
  ASSUME NEW s \in Seq(Word), NEW a \in Nat, a <= Len(s)
  PROVE  /\ From(s, a + 1) \in Seq(Word) /\ Len(From(s, a + 1)) = Len(s) - a
         /\ \A j \in 1..(Len(s) - a) : From(s, a + 1)[j] = s[a + j]
BY DEF From

LEMMA FromFrom ==
  ASSUME NEW s \in Seq(Word), NEW a \in Nat, NEW b \in Nat, a + b <= Len(s)
  PROVE  From(From(s, a + 1), b + 1) = From(s, a + b + 1)
<1> DEFINE u == From(s, a + 1)
<1>1. Len(s) \in Nat /\ a <= Len(s)
  OBVIOUS
<1>2. u \in Seq(Word) /\ Len(u) = Len(s) - a /\ \A j \in 1..(Len(s) - a) : u[j] = s[a + j]
  BY <1>1, FromType
<1> HIDE DEF u
<1> DEFINE v == From(u, b + 1)
           w == From(s, a + b + 1)
<1>3. /\ v \in Seq(Word) /\ Len(v) = Len(u) - b
      /\ \A j \in 1..(Len(u) - b) : v[j] = u[b + j]
  <2>1. b <= Len(u)
    BY <1>1, <1>2
  <2> QED
    BY <1>2, <2>1, FromType
<1>4. /\ w \in Seq(Word) /\ Len(w) = Len(s) - (a + b)
      /\ \A j \in 1..(Len(s) - (a + b)) : w[j] = s[a + b + j]
  <2>1. a + b \in Nat
    OBVIOUS
  <2> QED
    BY <2>1, FromType
<1> HIDE DEF v, w
<1>5. Len(v) = Len(w)
  BY <1>1, <1>2, <1>3, <1>4
<1>6. ASSUME NEW j \in 1..Len(v) PROVE v[j] = w[j]
  <2>1. b + j \in 1..(Len(s) - a) /\ a + (b + j) = a + b + j /\ j \in 1..(Len(s) - (a + b)) /\ j \in 1..(Len(u) - b)
    BY <1>1, <1>2, <1>3
  <2> QED
    BY <1>2, <1>3, <1>4, <2>1
<1>7. v = w
  BY <1>3, <1>4, <1>5, <1>6, SeqEqual
<1> QED
  BY <1>7 DEF u, v, w

LEMMA HeadOfFrom ==
  ASSUME NEW s \in Seq(Word), NEW a \in Nat, a < Len(s)
  PROVE  /\ From(s, a + 1) # <<>> /\ Head(From(s, a + 1)) = s[a + 1]
         /\ Tail(From(s, a + 1)) = From(s, a + 2)
<1>1. Len(s) \in Nat /\ a <= Len(s)
  OBVIOUS
<1> DEFINE u == From(s, a + 1)
           w == From(s, a + 2)
<1>2. u \in Seq(Word) /\ Len(u) = Len(s) - a /\ \A j \in 1..(Len(s) - a) : u[j] = s[a + j]
  BY <1>1, FromType
<1>3. /\ w \in Seq(Word) /\ Len(w) = Len(s) - (a + 1)
      /\ \A j \in 1..(Len(s) - (a + 1)) : w[j] = s[a + 1 + j]
  <2> DEFINE b == a + 1
  <2>1. b \in Nat /\ b <= Len(s) /\ b + 1 = a + 2
    BY <1>1
  <2>2. w = From(s, b + 1)
    BY <2>1
  <2> HIDE DEF b
  <2>3. /\ From(s, b + 1) \in Seq(Word) /\ Len(From(s, b + 1)) = Len(s) - b
        /\ \A j \in 1..(Len(s) - b) : From(s, b + 1)[j] = s[b + j]
    BY <2>1, FromType
  <2> HIDE DEF w
  <2> QED
    BY <2>2, <2>3 DEF b
<1> HIDE DEF u, w
<1>4. u # <<>> /\ 1 \in 1..(Len(s) - a)
  BY <1>1, <1>2
<1>5. Head(u) = s[a + 1]
  BY <1>2, <1>4
<1>6. /\ Tail(u) \in Seq(Word) /\ Len(Tail(u)) = Len(u) - 1
      /\ \A j \in 1..Len(Tail(u)) : Tail(u)[j] = u[j + 1]
  BY <1>2, <1>4, HeadTailProperties
<1> DEFINE v == Tail(u)
<1>7. v \in Seq(Word) /\ Len(v) = Len(u) - 1 /\ \A j \in 1..Len(v) : v[j] = u[j + 1]
  BY <1>6
<1> HIDE DEF v
<1>8. Len(v) = Len(w)
  BY <1>1, <1>2, <1>3, <1>7
<1>9. ASSUME NEW j \in 1..Len(v) PROVE v[j] = w[j]
  <2>1. j + 1 \in 1..(Len(s) - a) /\ a + (j + 1) = a + 1 + j /\ j \in 1..(Len(s) - (a + 1))
    BY <1>1, <1>2, <1>7
  <2> QED
    BY <1>2, <1>3, <1>7, <2>1
<1>10. v = w
  BY <1>3, <1>7, <1>8, <1>9, SeqEqual
<1> QED
  BY <1>4, <1>5, <1>10 DEF u, v, w

LEMMA PartsType ==
  ASSUME IInv
  PROVE  /\ plan.copied \subseteq Source /\ line.args \in Seq(Word)
         /\ Substituted(line.args, plan.copied) \in Seq(Word)
         /\ <<Stub>> \in Seq(Word) /\ <<>> \in Seq(Word)
         /\ (IF plan.stub THEN <<Stub>> ELSE <<>>) \in Seq(Word)
<1>1. plan.copied \subseteq Source /\ line.args \in Seq(Word)
  <2>1. plan \in [copied : SUBSET Source, stub : BOOLEAN,
                  cleanup : SUBSET {File(f) : f \in Source \cup {Stub}}]
    BY DEF IInv, TypeOK
  <2> QED
    BY <2>1, CallType DEF IInv
<1>2. Substituted(line.args, plan.copied) \in Seq(Word)
  <2> DEFINE a == line.args
             e == [i \in DOMAIN a |-> IF a[i] \in plan.copied THEN CopyOf[a[i]] ELSE a[i]]
  <2>1. DOMAIN a = 1..Len(a) /\ Len(a) \in Nat
    BY <1>1
  <2>2. \A i \in 1..Len(a) : a[i] \in Word
    BY <1>1
  <2>3. \A s \in plan.copied : CopyOf[s] \in Word
    BY <1>1, FreshAssumption DEF Word
  <2>4. e \in [1..Len(a) -> Word]
    BY <2>1, <2>2, <2>3
  <2>5. e \in Seq(Word)
    BY <2>1, <2>4
  <2> QED
    BY <2>5 DEF Substituted
<1>3. <<Stub>> \in Seq(Word) /\ <<>> \in Seq(Word)
  <2>1. Stub \in Word
    BY FreshAssumption DEF Word
  <2> QED
    BY <2>1
<1>4. CASE plan.stub
  BY <1>1, <1>2, <1>3, <1>4
<1>5. CASE ~plan.stub
  BY <1>1, <1>2, <1>3, <1>5
<1> QED
  BY <1>4, <1>5

LEMMA ToolArgsType ==
  ASSUME IInv
  PROVE  ToolArgs \in Seq(Word)
<1> DEFINE a == Substituted(line.args, plan.copied)
           b == IF plan.stub THEN <<Stub>> ELSE <<>>
<1>1. a \in Seq(Word) /\ b \in Seq(Word)
  BY PartsType
<1>2. ToolArgs = a \o b
  BY DEF ToolArgs
<1> HIDE DEF a, b
<1> QED
  BY <1>1, <1>2, Joining

\* The whole argument vector: the chain, then the tool, then its words.
LEMMA WholeType ==
  ASSUME IInv, line.tool \in ToolPaths
  PROVE  /\ Whole \in Seq(Word) /\ Len(ChainOf(line)) \in Nat /\ Len(ToolArgs) \in Nat
         /\ Len(Whole) = Len(ChainOf(line)) + 1 + Len(ToolArgs)
         /\ \A j \in 1..Len(ChainOf(line)) : Whole[j] = ChainOf(line)[j]
         /\ Whole[Len(ChainOf(line)) + 1] = line.tool
         /\ \A j \in 1..Len(ToolArgs) : Whole[Len(ChainOf(line)) + 1 + j] = ToolArgs[j]
<1> DEFINE c == ChainOf(line)
           a == ToolArgs
           g == <<line.tool>> \o a
<1>1. c \in Seq(Word) /\ a \in Seq(Word) /\ line.tool \in Word
  <2>1. line \in Lines
    BY DEF IInv
  <2> QED
    BY <2>1, ChainType, ToolArgsType, WordAssumption DEF Word
<1>2. Whole = c \o g
  BY DEF Whole
<1> HIDE DEF c, a
<1>3. /\ g \in Seq(Word) /\ Len(g) = 1 + Len(a) /\ g[1] = line.tool
      /\ \A j \in 1..Len(a) : g[1 + j] = a[j]
  BY <1>1
<1> HIDE DEF g
<1>4. /\ c \o g \in Seq(Word) /\ Len(c \o g) = Len(c) + Len(g)
      /\ \A j \in 1..Len(c) : (c \o g)[j] = c[j]
      /\ \A j \in 1..Len(g) : (c \o g)[Len(c) + j] = g[j]
  BY <1>1, <1>3, Joining
<1>5. Len(c) \in Nat /\ Len(a) \in Nat
  BY <1>1
<1>6. (c \o g)[Len(c) + 1] = line.tool
  BY <1>3, <1>4, <1>5
<1>7. ASSUME NEW j \in 1..Len(a) PROVE (c \o g)[Len(c) + 1 + j] = a[j]
  <2>1. 1 + j \in 1..Len(g) /\ Len(c) + (1 + j) = Len(c) + 1 + j
    BY <1>3, <1>5
  <2> QED
    BY <1>3, <1>4, <2>1
<1>8. Len(c) + Len(g) = Len(c) + 1 + Len(a)
  BY <1>3, <1>5
<1> QED
  BY <1>2, <1>4, <1>5, <1>6, <1>7, <1>8 DEF c, a

LEMMA PassedType ==
  ASSUME line \in Lines, NEW k \in 0..N(line)
  PROVE  /\ N(line) \in Nat /\ Passed(k) \in Nat /\ Passed(k) <= Len(ChainOf(line))
         /\ k = N(line) => Passed(k) = Len(ChainOf(line))
         /\ k # N(line) => Passed(k) = End(line, k) + 1
<1>1. N(line) \in Nat /\ Len(ChainOf(line)) \in Nat
  BY ChainType
<1>2. CASE k = N(line)
  <2>1. End(line, k) = Len(ChainOf(line))
    BY <1>2, ChainType
  <2>2. Passed(k) = End(line, k)
    BY <1>1, <1>2, <2>1 DEF Passed
  <2> QED
    BY <1>1, <1>2, <2>1, <2>2
<1>3. CASE k # N(line)
  <2>1. Located(line, k)
    BY <1>3, ChainLocated
  <2>2. Passed(k) = End(line, k) + 1
    BY <1>3 DEF Passed
  <2>3. k + 1 \in 1..N(line)
    BY <1>1, <1>3
  <2>4. Len(line.links[k + 1]) \in Nat
    BY <2>3, LinkType
  <2> QED
    BY <1>1, <1>3, <2>1, <2>2, <2>4 DEF Located
<1> QED
  BY <1>2, <1>3

\* proven itself hands on the whole argument vector.
LEMMA ExecThreads ==
  ASSUME IInv, Exec
  PROVE  argv' = From(Whole, Passed(0) + 1) /\ line.tool \in ToolPaths
<1>1. /\ phase = "exec" /\ argv' = Parsed.next \o <<Parsed.tool>> \o NewArgs
  BY DEF Exec
<1>2. Understood(line, Parsed) /\ line \in Lines
  BY <1>1, AsAsked DEF IInv
<1>3. line.tool \in ToolPaths /\ Parsed.tool = line.tool /\ Parsed.args = line.args /\ Parsed.next \in Seq(Word)
  BY <1>2 DEF Understood
<1>4. NewArgs = ToolArgs
  BY <1>3 DEF NewArgs, ToolArgs
<1> DEFINE p == Parsed.next
           a == ToolArgs
           c == ChainOf(line)
           w == Whole
           v == p \o <<line.tool>> \o a
<1>5. argv' = v
  BY <1>1, <1>3, <1>4
<1>6. /\ w \in Seq(Word) /\ Len(c) \in Nat /\ Len(a) \in Nat
      /\ Len(w) = Len(c) + 1 + Len(a)
      /\ \A j \in 1..Len(c) : w[j] = c[j]
      /\ w[Len(c) + 1] = line.tool
      /\ \A j \in 1..Len(a) : w[Len(c) + 1 + j] = a[j]
  BY <1>3, WholeType
<1>7. p \in Seq(Word) /\ a \in Seq(Word) /\ line.tool \in Word
  BY <1>3, ToolArgsType, WordAssumption DEF Word
<1>8. PICK m \in Nat : /\ m = Passed(0) /\ Len(c) = Len(p) + m
                       /\ \A j \in 1..Len(p) : p[j] = c[m + j]
  <2>1. N(line) \in Nat /\ 0 \in 0..N(line) /\ End(line, 0) = 0 /\ N(line) = 0 => c = <<>>
    BY <1>2, ChainType
  <2>2. CASE N(line) = 0
    <3>1. p = <<>> /\ c = <<>> /\ Passed(0) = 0
      BY <1>2, <2>1, <2>2, ChainType DEF Understood, Passed
    <3> QED
      BY <3>1
  <2>3. CASE N(line) # 0
    <3>1. Passed(0) = 1
      BY <1>2, <2>3, ChainType DEF Passed
    <3>2. Len(p) = Len(c) - 1 /\ \A j \in 1..Len(p) : p[j] = c[j + 1]
      BY <1>2, <2>3 DEF Understood
    <3>3. Len(c) = Len(p) + 1 /\ \A j \in 1..Len(p) : p[j] = c[1 + j]
      <4>1. \A j \in 1..Len(p) : j + 1 = 1 + j
        OBVIOUS
      <4> QED
        BY <1>6, <3>2, <4>1
    <3> QED
      BY <3>1, <3>3
  <2> QED
    BY <2>2, <2>3
<1> HIDE DEF p, a, c, w
<1>9. /\ v \in Seq(Word) /\ Len(v) = Len(p) + 1 + Len(a)
      /\ \A j \in 1..Len(p) : v[j] = p[j]
      /\ v[Len(p) + 1] = line.tool
      /\ \A j \in 1..Len(a) : v[Len(p) + 1 + j] = a[j]
  <2> DEFINE u == p \o <<line.tool>>
  <2>1. /\ u \in Seq(Word) /\ Len(u) = Len(p) + 1
        /\ \A j \in 1..Len(p) : u[j] = p[j]
        /\ u[Len(p) + 1] = line.tool
    BY <1>7
  <2> HIDE DEF u
  <2>2. v = u \o a
    BY DEF u
  <2>3. /\ u \o a \in Seq(Word) /\ Len(u \o a) = Len(u) + Len(a)
        /\ \A j \in 1..Len(u) : (u \o a)[j] = u[j]
        /\ \A j \in 1..Len(a) : (u \o a)[Len(u) + j] = a[j]
    BY <1>7, <2>1, Joining
  <2> HIDE DEF v
  <2>4. Len(p) \in Nat
    BY <1>7
  <2> QED
    BY <2>1, <2>2, <2>3, <2>4
<1> HIDE DEF v
<1> DEFINE f == From(w, m + 1)
<1>10. /\ f \in Seq(Word) /\ Len(f) = Len(w) - m
       /\ \A j \in 1..(Len(w) - m) : f[j] = w[m + j]
  <2>1. m <= Len(w)
    BY <1>6, <1>7, <1>8
  <2> QED
    BY <1>6, <2>1, FromType
<1> HIDE DEF f
<1>11. Len(p) \in Nat /\ Len(v) = Len(f)
  <2>1. Len(p) \in Nat
    BY <1>7
  <2>2. Len(v) = Len(p) + 1 + Len(a)
    BY <1>9
  <2>3. Len(f) = Len(w) - m
    BY <1>10
  <2>4. Len(w) = Len(c) + 1 + Len(a) /\ Len(a) \in Nat
    BY <1>6
  <2>5. Len(c) = Len(p) + m
    BY <1>8
  <2>6. \A x, y, z \in Nat : ((x + y) + 1 + z) - y = x + 1 + z
    OBVIOUS
  <2>7. Len(f) = ((Len(p) + m) + 1 + Len(a)) - m
    BY <2>3, <2>4, <2>5
  <2> QED
    BY <2>1, <2>2, <2>4, <2>6, <2>7
<1>12. ASSUME NEW j \in 1..Len(v) PROVE v[j] = f[j]
  <2>1. f[j] = w[m + j]
    BY <1>10, <1>11
  <2>2. CASE j <= Len(p)
    <3>1. j \in 1..Len(p) /\ m + j \in 1..Len(c)
      BY <1>8, <1>11, <2>2
    <3> QED
      BY <1>6, <1>8, <1>9, <2>1, <3>1
  <2>3. CASE j = Len(p) + 1
    <3>1. m + j = Len(c) + 1
      BY <1>8, <1>11, <2>3
    <3> QED
      BY <1>6, <1>9, <2>1, <2>3, <3>1
  <2>4. CASE j > Len(p) + 1
    <3> DEFINE i == j - (Len(p) + 1)
    <3>1. i \in 1..Len(a) /\ Len(p) + 1 + i = j /\ Len(c) + 1 + i = m + j
      <4>1. j \in 1..(Len(p) + 1 + Len(a)) /\ Len(a) \in Nat
        BY <1>6, <1>9
      <4>2. Len(p) \in Nat /\ Len(c) = Len(p) + m /\ j > Len(p) + 1
        BY <1>8, <1>11, <2>4
      <4>3. \A x, y, z \in Nat : \A n \in 1..(x + 1 + z) :
              n > x + 1 => /\ n - (x + 1) \in 1..z /\ x + 1 + (n - (x + 1)) = n
                           /\ (x + y) + 1 + (n - (x + 1)) = y + n
        OBVIOUS
      <4> QED
        BY <4>1, <4>2, <4>3
    <3> HIDE DEF i
    <3> QED
      BY <1>6, <1>9, <2>1, <3>1
  <2> QED
    BY <1>11, <2>2, <2>3, <2>4
<1>13. v = f
  BY <1>9, <1>10, <1>11, <1>12, SeqEqual
<1> QED
  BY <1>3, <1>5, <1>8, <1>13 DEF f, w
\* The argument vector of the next successor begins with its own words, and goes
\* on with what is left of the whole.
LEMMA NextLink ==
  ASSUME IInv, phase = "running", Len(ran) # N(line)
  PROVE  LET k   == Len(ran)
             own == line.links[k + 1]
         IN  /\ k + 1 \in 1..N(line) /\ own \in Seq(STRING)
             /\ End(line, k + 1) \in Nat /\ End(line, k + 1) <= Len(ChainOf(line))
             /\ From(argv, Len(own) + 1) = From(Whole, End(line, k + 1) + 1)
             /\ IsPrefix(own, argv)
<1> DEFINE k == Len(ran)
           own == line.links[k + 1]
           w == Whole
           c == ChainOf(line)
<1>1. line.tool \in ToolPaths /\ k \in 0..N(line) /\ k # N(line) /\ argv = From(w, Passed(k) + 1) /\ line \in Lines
  BY DEF IInv, Threaded
<1>2. Located(line, k) /\ N(line) \in Nat
  BY <1>1, ChainLocated, ChainType
<1>3. /\ w \in Seq(Word) /\ Len(c) \in Nat /\ Len(w) \in Nat /\ Len(c) <= Len(w)
      /\ \A j \in 1..Len(c) : w[j] = c[j]
  <2>1. /\ w \in Seq(Word) /\ Len(c) \in Nat /\ Len(ToolArgs) \in Nat
        /\ Len(w) = Len(c) + 1 + Len(ToolArgs)
        /\ \A j \in 1..Len(c) : w[j] = c[j]
    BY <1>1, WholeType
  <2> HIDE DEF w, c
  <2> QED
    BY <2>1
<1>4. Passed(k) = End(line, k) + 1
  BY <1>1, PassedType
<1>5. k + 1 \in 1..N(line)
  <2> HIDE DEF k
  <2> QED
    BY <1>1, <1>2
<1>6. own \in Seq(STRING) /\ own \in Seq(Word) /\ Len(own) \in Nat
  <2> HIDE DEF k
  <2> QED
    BY <1>1, <1>5, LinkType
<1>7. /\ End(line, k) \in Nat /\ End(line, k + 1) \in Nat
      /\ End(line, k + 1) = End(line, k) + 1 + Len(own)
      /\ End(line, k + 1) <= Len(c)
      /\ \A j \in 1..Len(own) : c[End(line, k) + 1 + j] = own[j]
  BY <1>2, Zenon DEF Located
<1> DEFINE p == End(line, k) + 1
           q == End(line, k + 1)
<1>8. /\ p \in Nat /\ q \in Nat /\ q = p + Len(own) /\ q <= Len(c) /\ argv = From(w, p + 1)
      /\ \A j \in 1..Len(own) : c[p + j] = own[j]
  BY <1>1, <1>4, <1>7
<1> HIDE DEF p, q, w, c, own, k
<1>9. From(argv, Len(own) + 1) = From(w, q + 1)
  <2>1. p + Len(own) <= Len(w)
    BY <1>3, <1>8
  <2> QED
    BY <1>3, <1>6, <1>8, <2>1, FromFrom
<1>10. IsPrefix(own, argv)
  <2>1. /\ argv \in Seq(Word) /\ Len(argv) = Len(w) - p
        /\ \A j \in 1..(Len(w) - p) : argv[j] = w[p + j]
    <3>1. p <= Len(w)
      BY <1>3, <1>6, <1>8
    <3> QED
      BY <1>3, <1>8, <3>1, FromType
  <2>2. Len(own) <= Len(argv)
    BY <1>3, <1>6, <1>8, <2>1
  <2>3. ASSUME NEW j \in 1..Len(own) PROVE argv[j] = own[j]
    <3>1. j \in 1..(Len(w) - p) /\ p + j \in 1..Len(c)
      BY <1>3, <1>6, <1>8
    <3> QED
      BY <1>3, <1>8, <2>1, <3>1
  <2>4. /\ SubSeq(own, 1, Len(own)) = own
        /\ SubSeq(argv, 1, Len(own)) \in Seq(Word) /\ Len(SubSeq(argv, 1, Len(own))) = Len(own)
        /\ \A j \in 1..Len(own) : SubSeq(argv, 1, Len(own))[j] = argv[j]
    BY <1>6, <2>1, <2>2
  <2> DEFINE u == SubSeq(argv, 1, Len(own))
  <2>5. u \in Seq(Word) /\ Len(u) = Len(own) /\ \A j \in 1..Len(u) : u[j] = own[j]
    BY <2>3, <2>4
  <2> HIDE DEF u
  <2>6. u = own
    BY <1>6, <2>5, SeqEqual
  <2> QED
    BY <2>2, <2>4, <2>6 DEF IsPrefix, u
<1> QED
  BY <1>5, <1>6, <1>8, <1>9, <1>10 DEF k, own, w, c, q

\* After the last successor the tool is what runs.
LEMMA AtTheTool ==
  ASSUME IInv, phase = "running", Len(ran) = N(line)
  PROVE  argv = <<line.tool>> \o ToolArgs /\ argv # <<>> /\ Head(argv) = line.tool
<1> DEFINE w == Whole
           c == ChainOf(line)
           a == ToolArgs
           g == <<line.tool>> \o a
           f == From(w, Len(c) + 1)
<1>1. line.tool \in ToolPaths /\ line \in Lines
  BY DEF IInv, Threaded
<1>2. argv = f
  <2>1. N(line) \in Nat /\ N(line) \in 0..N(line)
    BY <1>1, PassedType DEF IInv, Threaded
  <2>2. Passed(N(line)) = Len(c)
    BY <1>1, <2>1, PassedType
  <2> QED
    BY <2>2 DEF IInv, Threaded
<1>3. /\ w \in Seq(Word) /\ Len(c) \in Nat /\ Len(a) \in Nat
      /\ Len(w) = Len(c) + 1 + Len(a)
      /\ w[Len(c) + 1] = line.tool
      /\ \A j \in 1..Len(a) : w[Len(c) + 1 + j] = a[j]
  BY <1>1, WholeType
<1>4. a \in Seq(Word) /\ line.tool \in Word
  BY <1>1, ToolArgsType, WordAssumption DEF Word
<1> HIDE DEF w, c, a
<1>5. /\ g \in Seq(Word) /\ Len(g) = 1 + Len(a) /\ g[1] = line.tool
      /\ \A j \in 1..Len(a) : g[1 + j] = a[j]
  BY <1>4
<1> HIDE DEF g
<1>6. /\ f \in Seq(Word) /\ Len(f) = Len(w) - Len(c)
      /\ \A j \in 1..(Len(w) - Len(c)) : f[j] = w[Len(c) + j]
  <2>1. Len(c) <= Len(w)
    BY <1>3
  <2> QED
    BY <1>3, <2>1, FromType
<1> HIDE DEF f
<1>7. Len(w) - Len(c) = 1 + Len(a)
  BY <1>3
<1>8. ASSUME NEW j \in 1..Len(f) PROVE f[j] = g[j]
  <2>1. j \in 1..(1 + Len(a)) /\ f[j] = w[Len(c) + j]
    BY <1>6, <1>7
  <2>2. CASE j = 1
    BY <1>3, <1>5, <2>1, <2>2
  <2>3. CASE j # 1
    <3> DEFINE i == j - 1
    <3>1. i \in 1..Len(a) /\ 1 + i = j /\ Len(c) + j = Len(c) + 1 + i
      <4>1. Len(a) \in Nat /\ Len(c) \in Nat
        BY <1>3
      <4> QED
        BY <2>1, <2>3, <4>1
    <3> HIDE DEF i
    <3> QED
      BY <1>3, <1>5, <2>1, <3>1
  <2> QED
    BY <2>2, <2>3
<1>9. f = g
  <2>1. Len(f) = Len(g)
    BY <1>5, <1>6, <1>7
  <2> QED
    BY <1>5, <1>6, <1>8, <2>1, SeqEqual
<1>10. g # <<>> /\ Head(g) = line.tool
  <2>1. Len(g) # 0
    BY <1>3, <1>5
  <2> QED
    BY <1>5, <2>1
<1> QED
  BY <1>2, <1>9, <1>10 DEF g, a

\* Every word the tool is given is one of the command line, a copy or the stub.
LEMMA WordsOfTool ==
  ASSUME IInv, phase = "running", Len(ran) = N(line), NEW w \in ToSet(argv)
  PROVE  \/ w \in {line.tool} \cup ToSet(line.args)
         \/ \E s \in plan.copied : w = CopyOf[s]
         \/ plan.stub /\ w = Stub
<1>1. plan.copied \subseteq Source /\ line.args \in Seq(Word)
  BY PartsType
<1> DEFINE a == Substituted(line.args, plan.copied)
           b == IF plan.stub THEN <<Stub>> ELSE <<>>
<1>2. argv = <<line.tool>> \o (a \o b)
  BY AtTheTool DEF ToolArgs
<1>3. a \in Seq(Word) /\ b \in Seq(Word) /\ line.tool \in Word
  BY PartsType, WordAssumption DEF IInv, Threaded, Word
<1>4. /\ Len(a) = Len(line.args)
      /\ \A i \in 1..Len(line.args) :
           a[i] = IF line.args[i] \in plan.copied THEN CopyOf[line.args[i]] ELSE line.args[i]
  <2>1. DOMAIN line.args = 1..Len(line.args) /\ Len(line.args) \in Nat
    BY <1>1
  <2> QED
    BY <2>1 DEF Substituted
<1>5. \A i \in 1..Len(b) : plan.stub /\ b[i] = Stub
  <2>1. CASE plan.stub
    <3>1. b = <<Stub>>
      BY <2>1
    <3> HIDE DEF b
    <3> QED
      BY <2>1, <3>1
  <2>2. CASE ~plan.stub
    <3>1. b = <<>>
      BY <2>2
    <3> HIDE DEF b
    <3> QED
      BY <3>1
  <2> QED
    BY <2>1, <2>2
<1> HIDE DEF a, b
<1> DEFINE u == a \o b
<1>6. /\ u \in Seq(Word) /\ Len(u) = Len(a) + Len(b)
      /\ \A j \in 1..Len(a) : u[j] = a[j]
      /\ \A j \in 1..Len(b) : u[Len(a) + j] = b[j]
  BY <1>3, Joining
<1> HIDE DEF u
<1> DEFINE t == <<line.tool>>
<1>7. t \in Seq(Word) /\ Len(t) = 1 /\ t[1] = line.tool
  BY <1>3
<1> HIDE DEF t
<1>8. /\ t \o u \in Seq(Word) /\ Len(t \o u) = 1 + Len(u)
      /\ (t \o u)[1] = line.tool
      /\ \A j \in 1..Len(u) : (t \o u)[1 + j] = u[j]
  <2>1. /\ t \o u \in Seq(Word) /\ Len(t \o u) = Len(t) + Len(u)
        /\ \A j \in 1..Len(t) : (t \o u)[j] = t[j]
        /\ \A j \in 1..Len(u) : (t \o u)[Len(t) + j] = u[j]
    BY <1>6, <1>7, Joining
  <2> QED
    BY <1>7, <2>1
<1> DEFINE v == t \o u
<1>9. argv = v
  BY <1>2 DEF t, u
<1>10. /\ v \in Seq(Word) /\ Len(v) = 1 + Len(u) /\ v[1] = line.tool
       /\ \A j \in 1..Len(u) : v[1 + j] = u[j]
  BY <1>8
<1> HIDE DEF v
<1>11. PICK i \in 1..Len(v) : w = v[i]
  BY <1>9, <1>10 DEF ToSet
<1>12. Len(u) \in Nat /\ Len(a) \in Nat /\ Len(b) \in Nat
  BY <1>3, <1>6
<1>13. CASE i = 1
  BY <1>10, <1>11, <1>13
<1>14. CASE i # 1
  <2>1. PICK j \in 1..Len(u) : w = u[j]
    <3>1. i - 1 \in 1..Len(u) /\ 1 + (i - 1) = i
      BY <1>10, <1>12, <1>14
    <3> QED
      BY <1>10, <1>11, <3>1
  <2>2. CASE j <= Len(a)
    <3>1. j \in 1..Len(line.args) /\ w = a[j]
      BY <1>4, <1>6, <1>12, <2>1, <2>2
    <3>2. line.args[j] \in ToSet(line.args)
      BY <1>1, <3>1 DEF ToSet
    <3> QED
      BY <1>4, <3>1, <3>2
  <2>3. CASE j > Len(a)
    <3> DEFINE m == j - Len(a)
    <3>1. m \in 1..Len(b) /\ Len(a) + m = j
      BY <1>6, <1>12, <2>3
    <3> HIDE DEF m
    <3> QED
      BY <1>5, <1>6, <2>1, <3>1
  <2> QED
    BY <1>12, <2>2, <2>3
<1> QED
  BY <1>13, <1>14

LEMMA ExecIInv == IInv /\ Exec => IInv'
<1> SUFFICES ASSUME IInv, Exec PROVE IInv'
  OBVIOUS
<1>1. phase = "exec" /\ phase' = "running" /\ UNCHANGED <<line, plan, temp, left, unread, ran, code>>
  BY DEF Exec
<1>2. TypeOK' /\ line' \in Lines /\ ran' \in Seq(Seq(STRING))
  BY <1>1 DEF IInv, TypeOK
<1>3. Planning' /\ Unplanned' /\ Places' /\ Finished'
  BY <1>1 DEF Planning, Unplanned, Places, Finished
<1>4. Threaded'
  <2>1. ran = <<>> /\ Len(ran) = 0 /\ N(line) \in Nat
    BY <1>1, ChainType DEF IInv, Planning
  <2>2. Whole' = Whole /\ Passed(0)' = Passed(0) /\ N(line') = N(line)
    BY <1>1 DEF Whole, ToolArgs, Passed
  <2>3. argv' = From(Whole', Passed(0)' + 1) /\ line.tool \in ToolPaths
    BY <2>2, ExecThreads
  <2>4. Len(ran') = 0 /\ Len(ran)' = 0
    BY <1>1, <2>1
  <2>5. Passed(Len(ran))' = Passed(0)'
    BY <1>1, <2>1 DEF Passed
  <2> QED
    BY <1>1, <2>1, <2>2, <2>3, <2>4, <2>5 DEF Threaded
<1>5. Accounted' /\ Covered'
  BY <1>1 DEF IInv, Accounted, Covered
<1> QED
  BY <1>2, <1>3, <1>4, <1>5 DEF IInv

LEMMA SuccessorIInv == IInv /\ Successor => IInv'
<1> SUFFICES ASSUME IInv, Successor PROVE IInv'
  OBVIOUS
<1> DEFINE k == Len(ran)
           own == line.links[k + 1]
           rest == From(argv, Len(own) + 1)
           w == Whole
           c == ChainOf(line)
           q == End(line, k + 1)
<1>1. /\ phase = "running" /\ k < N(line) /\ ran' = Append(ran, own)
      /\ argv' = IF rest # <<>> /\ IsSep(Head(rest)) THEN Tail(rest) ELSE rest
      /\ UNCHANGED <<line, phase, plan, temp, left, unread, code>>
  BY DEF Successor, N
<1>2. line \in Lines /\ line.tool \in ToolPaths /\ k \in 0..N(line) /\ N(line) \in Nat
  BY <1>1, ChainType DEF IInv, Threaded
<1>3. k # N(line) /\ k \in Nat
  <2> HIDE DEF k
  <2> QED
    BY <1>1, <1>2
<1>4. /\ k + 1 \in 1..N(line) /\ own \in Seq(STRING) /\ q \in Nat /\ q <= Len(c)
      /\ rest = From(w, q + 1)
  BY <1>1, <1>3, NextLink
<1>5. /\ w \in Seq(Word) /\ Len(c) \in Nat /\ Len(ToolArgs) \in Nat
      /\ Len(w) = Len(c) + 1 + Len(ToolArgs)
      /\ \A j \in 1..Len(c) : w[j] = c[j]
      /\ w[Len(c) + 1] = line.tool
  BY <1>2, WholeType
<1>6. ran' \in Seq(Seq(STRING)) /\ Len(ran') = k + 1
  <2>1. ran \in Seq(Seq(STRING))
    BY DEF IInv
  <2>2. own \in Seq(STRING)
    BY <1>4
  <2> HIDE DEF own
  <2> QED
    BY <1>1, <2>1, <2>2
<1>7. rest # <<>> /\ Head(rest) = w[q + 1] /\ Tail(rest) = From(w, q + 2)
  <2> HIDE DEF w, c, q, rest
  <2>1. q < Len(w)
    BY <1>4, <1>5
  <2> QED
    BY <1>4, <1>5, <2>1, HeadOfFrom
<1>8. argv' = From(w, Passed(k + 1) + 1)
  <2>1. CASE k + 1 = N(line)
    <3>1. Passed(k + 1) = Len(c) /\ q = Len(c)
      <4>1. N(line) \in 0..N(line)
        BY <1>2
      <4> QED
        BY <1>2, <2>1, <4>1, PassedType, ChainType
    <3>2. ~IsSep(Head(rest))
      BY <1>2, <1>5, <1>7, <3>1, WordAssumption DEF IsSep
    <3> HIDE DEF w, c, q, rest, own, k
    <3> QED
      BY <1>1, <1>4, <3>1, <3>2
  <2>2. CASE k + 1 # N(line)
    <3>1. k + 1 \in 0..N(line)
      <4> HIDE DEF k
      <4> QED
        BY <1>2, <1>3, <1>4
    <3>2. Passed(k + 1) = q + 1 /\ Located(line, k + 1)
      BY <1>2, <2>2, <3>1, PassedType, ChainLocated
    <3>3. c[q + 1] = Sep /\ Passed(k + 1) <= Len(c)
      BY <1>2, <3>1, <3>2, PassedType DEF Located
    <3> HIDE DEF w, c, q, rest, own
    <3>4. q + 1 \in 1..Len(c)
      BY <1>4, <1>5, <3>2, <3>3
    <3>5. w[q + 1] = Sep
      BY <1>5, <3>3, <3>4
    <3>6. (q + 1) + 1 = q + 2
      BY <1>4
    <3>7. argv' = Tail(rest)
      BY <1>1, <1>7, <3>5 DEF IsSep
    <3> QED
      BY <1>7, <3>2, <3>6, <3>7
  <2> QED
    BY <2>1, <2>2
<1>9. TypeOK' /\ line' \in Lines
  BY <1>1 DEF IInv, TypeOK
<1>10. Planning' /\ Unplanned' /\ Places' /\ Finished'
  BY <1>1 DEF Planning, Unplanned, Places, Finished
<1>11. Threaded'
  <2>1. Whole' = w
    BY <1>1 DEF Whole, ToolArgs
  <2>2. Passed(Len(ran))' = Passed(k + 1)
    <3> HIDE DEF k
    <3> QED
      BY <1>1, <1>6 DEF Passed
  <2>3. Len(ran)' = k + 1 /\ k + 1 \in 0..N(line)
    <3> HIDE DEF k
    <3> QED
      BY <1>2, <1>4, <1>6
  <2> HIDE DEF k, w
  <2> QED
    BY <1>1, <1>2, <1>8, <2>1, <2>2, <2>3 DEF Threaded
<1>12. Accounted' /\ Covered'
  BY <1>1 DEF IInv, Accounted, Covered
<1> QED
  BY <1>6, <1>9, <1>10, <1>11, <1>12 DEF IInv

LEMMA ToolIInv == IInv /\ Tool => IInv'
<1> SUFFICES ASSUME IInv, Tool PROVE IInv'
  OBVIOUS
<1>1. /\ phase = "running" /\ Len(ran) = N(line) /\ phase' = "ran" /\ code' \in {0, 2}
      /\ UNCHANGED <<line, argv, plan, temp, left, unread, ran>>
  BY DEF Tool, N
<1>2. TypeOK' /\ line' \in Lines /\ ran' \in Seq(Seq(STRING))
  BY <1>1 DEF IInv, TypeOK
<1>3. Planning' /\ Unplanned' /\ Places' /\ Threaded'
  BY <1>1 DEF Planning, Unplanned, Places, Threaded
<1>4. Finished'
  BY <1>1, AtTheTool DEF Finished
<1>5. Accounted' /\ Covered'
  BY <1>1 DEF IInv, Accounted, Covered
<1> QED
  BY <1>2, <1>3, <1>4, <1>5 DEF IInv

LEMMA ExecFailsIInv == IInv /\ ExecFails => IInv'
<1> SUFFICES ASSUME IInv, ExecFails PROVE IInv'
  OBVIOUS
<1>1. /\ phase = "running" /\ phase' = "ran" /\ code' = 1
      /\ UNCHANGED <<line, argv, plan, temp, left, unread, ran>>
  BY DEF ExecFails
<1>2. TypeOK' /\ line' \in Lines /\ ran' \in Seq(Seq(STRING))
  BY <1>1 DEF IInv, TypeOK
<1>3. Planning' /\ Unplanned' /\ Places' /\ Threaded' /\ Finished'
  BY <1>1 DEF Planning, Unplanned, Places, Threaded, Finished
<1>4. Accounted' /\ Covered'
  BY <1>1 DEF IInv, Accounted, Covered
<1> QED
  BY <1>2, <1>3, <1>4 DEF IInv

LEMMA CleanupIInv == IInv /\ Cleanup => IInv'
<1> SUFFICES ASSUME IInv, Cleanup PROVE IInv'
  OBVIOUS
<1>1. /\ phase = "ran" /\ phase' = "exit" /\ temp' = temp \ plan.cleanup
      /\ UNCHANGED <<line, argv, plan, left, unread, ran, code>>
  BY DEF Cleanup
<1>2. TypeOK' /\ line' \in Lines /\ ran' \in Seq(Seq(STRING))
  BY <1>1 DEF IInv, TypeOK
<1>3. Planning' /\ Unplanned' /\ Places' /\ Threaded'
  BY <1>1 DEF Planning, Unplanned, Places, Threaded
<1>4. Finished'
  BY <1>1 DEF IInv, Finished
<1>5. Accounted' /\ Covered'
  BY <1>1 DEF IInv, Accounted, Covered
<1> QED
  BY <1>2, <1>3, <1>4, <1>5 DEF IInv
------------------------------------------------------------------------------
(* The properties. *)

LEMMA NextIInv == IInv /\ [Next]_vars => IInv'
<1> SUFFICES ASSUME IInv, [Next]_vars PROVE IInv'
  OBVIOUS
<1>1. CASE Next
  BY <1>1, BadArgumentsIInv, PlanCompileIInv, PlanProvenStubIInv, PlanUserPackageIInv,
     RewriteUnchangedIInv, RewrittenIInv, RewriteFailsIInv, WriteFailsIInv, RewriteDoneIInv,
     ExecIInv, SuccessorIInv, ToolIInv, ExecFailsIInv, CleanupIInv DEF Next
<1>2. CASE UNCHANGED vars
  <2> USE <1>2 DEF vars
  <2>1. TypeOK' /\ line' \in Lines /\ ran' \in Seq(Seq(STRING))
    BY DEF IInv, TypeOK
  <2>2. Planning' /\ Unplanned' /\ Places' /\ Finished'
    BY DEF IInv, Planning, Unplanned, Places, Finished, Parsed
  <2>3. Threaded'
    BY DEF IInv, Threaded, Whole, ToolArgs, Passed
  <2>4. Accounted' /\ Covered'
    BY DEF IInv, Accounted, Covered
  <2> QED
    BY <2>1, <2>2, <2>3, <2>4 DEF IInv
<1> QED
  BY <1>1, <1>2

LEMMA AlwaysIInv == Spec => []IInv
BY InitIInv, NextIInv, PTL DEF Spec

\* TypeOK: the plan replaces and removes sources of the compilation and the stub
\* only, and nothing else is ever written.
THEOREM TypesHold == Spec => []TypeOK
<1>1. IInv => TypeOK
  BY DEF IInv
<1> QED
  BY <1>1, AlwaysIInv, PTL

\* ToolAsInvoked: through any chain, proven plans for, and in the end the
\* successors run, the tool go build asked for with its words in their order.
THEOREM ToolIsAsInvoked == Spec => []ToolAsInvoked
<1>1. IInv => ToolAsInvoked
  <2> SUFFICES ASSUME IInv PROVE ToolAsInvoked
    OBVIOUS
  <2>1. phase \in {"stub", "user", "rewrite", "exec"} =>
          Parsed.tool = line.tool /\ Parsed.args = line.args
    BY AsAsked DEF Understood
  <2>2. ASSUME Reached
        PROVE  argv = <<line.tool>> \o Substituted(line.args, plan.copied)
                                    \o (IF plan.stub THEN <<Stub>> ELSE <<>>)
    <3> DEFINE a == Substituted(line.args, plan.copied)
               b == IF plan.stub THEN <<Stub>> ELSE <<>>
    <3>1. argv = <<line.tool>> \o (a \o b)
      BY <2>2, AtTheTool DEF Reached, ToolArgs, N
    <3>2. line.tool \in ToolPaths /\ line \in Lines
      BY <2>2 DEF IInv, Threaded, Reached
    <3>3. a \in Seq(Word) /\ b \in Seq(Word) /\ <<line.tool>> \in Seq(Word)
      <4>1. line.tool \in Word
        BY <3>2, WordAssumption DEF Word
      <4> QED
        BY <4>1, PartsType
    <3> HIDE DEF a, b
    <3>4. (<<line.tool>> \o a) \o b = <<line.tool>> \o (a \o b)
      BY <3>3, ConcatAssociative
    <3> QED
      BY <3>1, <3>4 DEF a, b
  <2> QED
    BY <2>1, <2>2 DEF ToolAsInvoked
<1> QED
  BY <1>1, AlwaysIInv, PTL

\* SuccessorsRun: each successor is started with its own words before the rest
\* of the chain, in the order of the chain, and none is skipped.
THEOREM EverySuccessorRuns == Spec => []SuccessorsRun
<1>1. IInv => SuccessorsRun
  <2> SUFFICES ASSUME IInv, phase = "running", Len(ran) < Len(line.links)
               PROVE  IsPrefix(line.links[Len(ran) + 1], argv)
    BY DEF SuccessorsRun
  <2>1. Len(ran) # N(line)
    <3>1. Len(ran) \in 0..N(line) /\ N(line) \in Nat
      BY ChainType DEF IInv, Threaded
    <3>2. Len(ran) < N(line)
      BY DEF N
    <3> QED
      BY <3>1, <3>2
  <2> QED
    BY <2>1, NextLink
<1> QED
  BY <1>1, AlwaysIInv, PTL

\* InputsExist: every copy and the stub that the tool is given still exist when
\* it runs.
THEOREM InputsAlwaysExist == Spec => []InputsExist
<1>1. IInv => InputsExist
  <2> SUFFICES ASSUME IInv, Reached
               PROVE  /\ \A s \in Source : CopyOf[s] \in ToSet(argv) => File(s) \in temp
                      /\ Stub \in ToSet(argv) => File(Stub) \in temp
    BY DEF InputsExist
  <2>1. line \in Lines /\ phase = "running" /\ Len(ran) = N(line)
    BY DEF IInv, Reached, N
  <2>2. /\ \A s \in plan.copied : File(s) \in temp
        /\ plan.stub => File(Stub) \in temp
    <3>1. plan.copied \subseteq Source
      <4>1. plan \in [copied : SUBSET Source, stub : BOOLEAN,
                      cleanup : SUBSET {File(f) : f \in Source \cup {Stub}}]
        BY DEF IInv, TypeOK
      <4> QED
        BY <4>1
    <3> QED
      BY <2>1, <3>1 DEF IInv, Covered, Accounted
  <2>3. \A w \in {line.tool} \cup ToSet(line.args) : w # Stub /\ \A s \in Source : w # CopyOf[s]
    BY <2>1, FreshAssumption
  <2>4. ASSUME NEW w \in ToSet(argv)
        PROVE  \/ w \in {line.tool} \cup ToSet(line.args)
               \/ \E s \in plan.copied : w = CopyOf[s]
               \/ plan.stub /\ w = Stub
    <3> QED
      BY <2>1, <2>4, WordsOfTool
  <2>5. ASSUME NEW s \in Source, CopyOf[s] \in ToSet(argv) PROVE s \in plan.copied
    <3>1. CopyOf[s] # Stub /\ \A t \in Source : CopyOf[s] = CopyOf[t] => s = t
      BY <2>5, FreshAssumption
    <3>2. plan.copied \subseteq Source
      BY PartsType
    <3> QED
      BY <2>3, <2>4, <2>5, <3>1, <3>2
  <2>6. ASSUME Stub \in ToSet(argv) PROVE plan.stub
    <3>1. plan.copied \subseteq Source
      BY PartsType
    <3>2. \A s \in plan.copied : CopyOf[s] # Stub
      BY <3>1, FreshAssumption
    <3> QED
      BY <2>3, <2>4, <2>6, <3>2
  <2> QED
    BY <2>2, <2>5, <2>6
<1> QED
  BY <1>1, AlwaysIInv, PTL

\* FilesRemoved: whichever step failed, no temporary file is left, except when a
\* source that was read once cannot be read again.
THEOREM FilesAreRemoved == Spec => []FilesRemoved
<1>1. IInv => FilesRemoved
  BY DEF IInv, Accounted, FilesRemoved
<1> QED
  BY <1>1, AlwaysIInv, PTL

\* SuccessIsTheTools: success is reported only when every successor has run and
\* the tool itself has reported it.
THEOREM SuccessIsAlwaysTheTools == Spec => []SuccessIsTheTools
<1>1. IInv => SuccessIsTheTools
  BY DEF IInv, Finished, SuccessIsTheTools, N
<1> QED
  BY <1>1, AlwaysIInv, PTL
=============================================================================
