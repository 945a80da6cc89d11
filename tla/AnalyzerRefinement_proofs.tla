---------------------- MODULE AnalyzerRefinement_proofs ----------------------
(***************************************************************************)
(* The event-stream walk is the clone-and-restore walk it replaced, for    *)
(* every function, claims, keys and guards, and every statement form.      *)
(*                                                                         *)
(* A clone is what the lookup finds at the level of an enclosing block,    *)
(* and nothing that is recorded inside is seen from there (Linked), so no  *)
(* clone changes while its branch is walked.                               *)
(***************************************************************************)
EXTENDS Analyzer_proofs, AnalyzerRefinement

-----------------------------------------------------------------------------
(* Lookups from a place that sees the scopes of P.                         *)

Found(ev, P) ==
  {f \in Claim \X Key :
     \E i \in DOMAIN ev :
       /\ ev[i].scope \in P
       /\ \E g \in Standing(ev[i]) : g.claim = f[1] /\ g.key = f[2]
       /\ \A j \in DOMAIN ev : j > i => ~(ev[j].scope \in P /\ Root[f[2]] \in ev[j].wrote)}

LEMMA FoundIs ==
  ASSUME NEW s
  PROVE  FoundFrom(s) = Found(events, path[s]) /\ FoundFrom(s)' = Found(events', path'[s])
BY DEF FoundFrom, Found, HasFact, Sources, Visible, IsAncestorOrSelf, Unbarred, Bars

LEMMA AppendPlaces ==
  ASSUME NEW ev \in Seq(Entry), NEW e \in Entry
  PROVE  /\ Append(ev, e) \in Seq(Entry) /\ DOMAIN ev = 1..Len(ev) /\ Len(ev) \in Nat
         /\ DOMAIN Append(ev, e) = 1..Len(ev) + 1
         /\ \A i \in 1..Len(ev) : i \in 1..Len(ev) + 1 /\ Append(ev, e)[i] = ev[i] /\ Len(ev) + 1 > i
         /\ Append(ev, e)[Len(ev) + 1] = e /\ Len(ev) + 1 \in 1..Len(ev) + 1
         /\ \A i \in 1..Len(ev) + 1 : i \in 1..Len(ev) \/ i = Len(ev) + 1
         /\ \A i \in 1..Len(ev) + 1 : ~(i > Len(ev) + 1)
OBVIOUS

\* What is recorded out of sight makes no difference.
LEMMA FoundUnseen ==
  ASSUME NEW ev \in Seq(Entry), NEW e \in Entry, NEW P, e.scope \notin P
  PROVE  Found(Append(ev, e), P) = Found(ev, P)
<1> DEFINE a == Append(ev, e)
           n == Len(ev)
<1>1. /\ DOMAIN ev = 1..n /\ DOMAIN a = 1..n + 1 /\ a[n + 1] = e
      /\ \A i \in 1..n : i \in 1..n + 1 /\ a[i] = ev[i]
      /\ \A i \in 1..n + 1 : i \in 1..n \/ i = n + 1
  BY AppendPlaces
<1> HIDE DEF a, n
<1>2. Found(a, P) \subseteq Found(ev, P)
  BY <1>1 DEF Found
<1>3. Found(ev, P) \subseteq Found(a, P)
  BY <1>1 DEF Found
<1> QED
  BY <1>2, <1>3 DEF a

\* Nor does a scope in which nothing is recorded.
LEMMA FoundEmpty ==
  ASSUME NEW ev, NEW P, NEW s, \A i \in DOMAIN ev : ev[i].scope # s
  PROVE  Found(ev, P \cup {s}) = Found(ev, P)
BY DEF Found

\* A write takes facts away, and sources bring what they are sources of.
LEMMA FoundWrite ==
  ASSUME NEW ev \in Seq(Entry), NEW e \in Entry, NEW P, Planted(e) = {}
  PROVE  Found(Append(ev, e), P) \subseteq Found(ev, P)
<1> DEFINE a == Append(ev, e)
           n == Len(ev)
<1>1. /\ DOMAIN ev = 1..n /\ DOMAIN a = 1..n + 1 /\ a[n + 1] = e
      /\ \A i \in 1..n : i \in 1..n + 1 /\ a[i] = ev[i]
      /\ \A i \in 1..n + 1 : i \in 1..n \/ i = n + 1
  BY AppendPlaces
<1>2. Standing(e) = {}
  BY DEF Standing, Planted
<1> HIDE DEF a, n
<1>3. Found(a, P) \subseteq Found(ev, P)
  BY <1>1, <1>2 DEF Found
<1> QED
  BY <1>3 DEF a

LEMMA FoundSource ==
  ASSUME NEW ev \in Seq(Entry), NEW e \in Entry, NEW P,
         e.scope \in P, e.wrote = {}
  PROVE  Found(Append(ev, e), P) = Found(ev, P) \cup Undated(Planted(e))
<1> DEFINE F == Planted(e)
           a == Append(ev, e)
           n == Len(ev)
<1>1. Standing(e) = F /\ F \subseteq DatedFact
  BY DEF Planted, Standing, Entry
<1> HIDE DEF F
<1>2. /\ DOMAIN ev = 1..n /\ DOMAIN a = 1..n + 1 /\ a[n + 1] = e
      /\ \A i \in 1..n : i \in 1..n + 1 /\ a[i] = ev[i] /\ n + 1 > i
      /\ n + 1 \in 1..n + 1
      /\ \A i \in 1..n + 1 : i \in 1..n \/ i = n + 1
      /\ \A i \in 1..n + 1 : ~(i > n + 1)
  BY <1>1, AppendPlaces
<1> HIDE DEF a, n
<1>3. Found(a, P) \subseteq Found(ev, P) \cup Undated(F)
  <2> SUFFICES ASSUME NEW f \in Found(a, P), f \notin Undated(F) PROVE f \in Found(ev, P)
    OBVIOUS
  <2>1. f \in Claim \X Key
    BY DEF Found
  <2>2. PICK i \in 1..n + 1 :
          /\ a[i].scope \in P
          /\ \E g \in Standing(a[i]) : g.claim = f[1] /\ g.key = f[2]
          /\ \A j \in 1..n + 1 : j > i => ~(a[j].scope \in P /\ Root[f[2]] \in a[j].wrote)
    BY <1>2 DEF Found
  <2>3. i # n + 1
    <3>1. ASSUME i = n + 1 PROVE FALSE
      <4>1. PICK g \in F : g.claim = f[1] /\ g.key = f[2]
        BY <1>1, <1>2, <2>2, <3>1
      <4>2. f = <<f[1], f[2]>>
        BY <2>1
      <4>3. f = <<g.claim, g.key>>
        BY <4>1, <4>2
      <4> QED
        BY <4>3 DEF Undated
    <3> QED
      BY <3>1
  <2>4. i \in 1..n
    BY <1>2, <2>3
  <2> QED
    BY <1>2, <2>1, <2>2, <2>4 DEF Found
<1>4. Found(ev, P) \subseteq Found(a, P)
  BY <1>1, <1>2 DEF Found
<1>5. Undated(F) \subseteq Found(a, P)
  <2> SUFFICES ASSUME NEW g \in F PROVE <<g.claim, g.key>> \in Found(a, P)
    BY DEF Undated
  <2>1. <<g.claim, g.key>> \in Claim \X Key
    BY <1>1 DEF DatedFact
  <2>2. g \in Standing(a[n + 1]) /\ a[n + 1].scope \in P
    BY <1>1, <1>2
  <2> QED
    BY <1>2, <2>1, <2>2 DEF Found
<1> QED
  BY <1>3, <1>4, <1>5 DEF a, F

-----------------------------------------------------------------------------
(* The clone-and-restore walk that a walk stands for.                      *)

\* What is found at level d, and what is kept for the branch opened there.
At(w, d) == Found(w.ev, w.pa[ScopeAt(w, d)])

Clone(w, d) ==
  [clone |-> At(w, d),
   condition |-> Undated(w.st[d + 1].yes \cup w.st[d + 1].no),
   branch |-> ScopeAt(w, d + 1)]

Clones(w) == [d \in 1..Len(w.st) - 1 |-> Clone(w, d)]

LEMMA Less == \A m \in Nat : m >= 1 =>
  /\ m - 1 \in Nat /\ (m - 1) + 1 = m /\ m \in 1..m
  /\ \A d \in 1..m - 1 : d # m /\ d \in 1..m /\ d + 1 \in 2..m /\ d < m
OBVIOUS

\* The levels around the one above, and around the one above that.
LEMMA Above == \A n \in Nat : \A d \in 1..n - 1 :
  /\ d \in 1..n /\ d + 1 \in 1..n /\ d # n + 1 /\ d # n /\ d + 1 # n + 1
  /\ (d + 1 # n => (d + 1) + 1 \in 1..n)
OBVIOUS

LEMMA TwoAbove == \A n \in Nat : \A d \in 1..n - 2 :
  /\ d \in 1..n - 1 /\ d + 1 \in 1..n - 1 /\ d < n - 1
  /\ (d + 1 # n - 1 => (d + 1) + 1 \in 1..n - 1)
  /\ \A k \in Nat : n <= k => d # k /\ d + 1 # k
OBVIOUS

\* The two scopes that are opened next.
LEMMA NewScopes == \A k \in Nat :
  /\ k + 1 \in Nat /\ (k + 1) + 1 \in Nat /\ (k + 1) + 1 # k + 1
  /\ k + 1 \notin 1..k /\ (k + 1) + 1 \notin 1..k
OBVIOUS

\* w is the state of the walk.
IsAt(w) == w.ev = events /\ w.pa = path /\ w.cu = current /\ w.st = stack

LEMMA StandsFor ==
  ASSUME NEW w \in Walk, IsAt(w), Len(w.st) >= 1
  PROVE  FoundFrom(current) = At(w, Len(w.st)) /\ Saved = Clones(w)
<1>1. FoundFrom(current) = At(w, Len(w.st))
  BY FoundIs DEF At, ScopeAt, IsAt
<1>2. Len(w.st) \in Nat
  BY WalkType
<1>3. ASSUME NEW d \in 1..Len(w.st) - 1
      PROVE  /\ FoundFrom(stack[d + 1].prev) = At(w, d)
             /\ BranchScope(d + 1) = ScopeAt(w, d + 1)
  <2>1. d # Len(w.st)
    BY <1>2, <1>3, Less
  <2> QED
    BY <2>1, FoundIs DEF At, ScopeAt, IsAt, BranchScope
<1>4. Saved = Clones(w)
  BY <1>3 DEF Saved, Clones, Clone, IsAt
<1> QED
  BY <1>1, <1>4

LEMMA StandsForNext ==
  ASSUME NEW w \in Walk, IsAt(w)', Len(w.st) >= 1
  PROVE  FoundFrom(current)' = At(w, Len(w.st)) /\ Saved' = Clones(w)
<1>1. FoundFrom(current)' = At(w, Len(w.st))
  <2>1. FoundFrom(current)' = Found(events', path'[current'])
    BY DEF FoundFrom, Found, HasFact, Sources, Visible, IsAncestorOrSelf, Unbarred, Bars
  <2> QED
    BY <2>1 DEF At, ScopeAt, IsAt
<1>2. Len(w.st) \in Nat
  BY WalkType
<1>3. ASSUME NEW d \in 1..Len(w.st) - 1
      PROVE  /\ FoundFrom(stack[d + 1].prev)' = At(w, d)
             /\ BranchScope(d + 1)' = ScopeAt(w, d + 1)
  <2>1. d # Len(w.st)
    BY <1>2, <1>3, Less
  <2>2. FoundFrom(stack[d + 1].prev)' = Found(events', path'[stack'[d + 1].prev])
    BY DEF FoundFrom, Found, HasFact, Sources, Visible, IsAncestorOrSelf, Unbarred, Bars
  <2> QED
    BY <2>1, <2>2 DEF At, ScopeAt, IsAt, BranchScope
<1>4. Saved' = Clones(w)
  BY <1>3 DEF Saved, Clones, Clone, IsAt
<1> QED
  BY <1>1, <1>4

\* The clones of a walk are a sequence, one for each open statement.
LEMMA ClonesSeq ==
  ASSUME NEW w \in Walk, Len(w.st) >= 1
  PROVE  /\ Len(Clones(w)) = Len(w.st) - 1 /\ DOMAIN Clones(w) = 1..Len(w.st) - 1
         /\ \A d \in 1..Len(w.st) - 1 : Clones(w)[d] = Clone(w, d)
         /\ \E S : Clones(w) \in Seq(S)
<1> DEFINE S == {Clone(w, d) : d \in 1..Len(w.st) - 1}
           m == Len(w.st) - 1
<1>1. m \in Nat
  BY WalkType, Less
<1>2. Clones(w) = [d \in 1..m |-> Clone(w, d)] /\ \A d \in 1..m : Clone(w, d) \in S
  BY DEF Clones
<1> HIDE DEF S, m
<1>3. Clones(w) \in Seq(S) /\ Len(Clones(w)) = m
  BY <1>1, <1>2
<1> QED
  BY <1>2, <1>3 DEF m

\* An enclosing level sees nothing of what is recorded further in, or in a new
\* scope.
LEMMA Outside ==
  ASSUME NEW w \in Walk, Linked(w), Len(w.st) >= 1, NEW d \in 1..Len(w.st) - 1
  PROVE  /\ ScopeAt(w, d) = w.st[d + 1].prev /\ ScopeAt(w, d) \in 1..Len(w.pa)
         /\ w.cu \notin w.pa[ScopeAt(w, d)]
         /\ Len(w.pa) + 1 \notin w.pa[ScopeAt(w, d)]
         /\ \A e \in 1..Len(w.st) : d < e => ScopeAt(w, e) \notin w.pa[ScopeAt(w, d)]
<1> DEFINE n == Len(w.st)
<1>1. n \in Nat /\ Len(w.pa) \in Nat
  BY WalkType
<1>2. d # n /\ d \in 1..n /\ d < n /\ n \in 1..n
  BY <1>1, Less
<1>3. ScopeAt(w, n) = w.cu /\ ScopeAt(w, d) = w.st[d + 1].prev
  BY <1>2 DEF ScopeAt
<1> HIDE DEF n
<1>4. \A e \in 1..n : d < e => ScopeAt(w, e) \notin w.pa[ScopeAt(w, d)]
  BY <1>2 DEF Linked, n
<1>5. ScopeAt(w, d) \in 1..Len(w.pa) /\ w.pa[ScopeAt(w, d)] \subseteq 1..Len(w.pa)
  BY <1>2 DEF Linked, n
<1>6. Len(w.pa) + 1 \notin 1..Len(w.pa)
  BY <1>1
<1> QED
  BY <1>2, <1>3, <1>4, <1>5, <1>6 DEF n

-----------------------------------------------------------------------------
(* What a step does to the clones.                                         *)

\* Level d of x has the scope it had in w and sees nothing of what is new.
Unseen(w, x, d) ==
  /\ ScopeAt(x, d) = ScopeAt(w, d)
  /\ x.pa[ScopeAt(w, d)] = w.pa[ScopeAt(w, d)]
  /\ \E e, f \in Entry :
       /\ e.scope \notin w.pa[ScopeAt(w, d)] /\ f.scope \notin w.pa[ScopeAt(w, d)]
       /\ x.ev \in {w.ev, Append(w.ev, e), Append(Append(w.ev, e), f)}

LEMMA UnseenKeeps ==
  ASSUME NEW w \in Walk, NEW x \in Walk, NEW d, Unseen(w, x, d)
  PROVE  /\ At(x, d) = At(w, d)
         /\ SameBranch(x.st[d + 1], w.st[d + 1]) /\ ScopeAt(x, d + 1) = ScopeAt(w, d + 1)
              => Clone(x, d) = Clone(w, d)
<1> DEFINE P == w.pa[ScopeAt(w, d)]
<1>1. PICK e \in Entry, f \in Entry :
        /\ e.scope \notin P /\ f.scope \notin P
        /\ x.ev \in {w.ev, Append(w.ev, e), Append(Append(w.ev, e), f)}
  BY DEF Unseen
<1>2. At(w, d) = Found(w.ev, P) /\ At(x, d) = Found(x.ev, P)
  BY DEF Unseen, At
<1> HIDE DEF P
<1>3. w.ev \in Seq(Entry) /\ Append(w.ev, e) \in Seq(Entry)
  BY WalkType
<1>4. /\ Found(Append(w.ev, e), P) = Found(w.ev, P)
      /\ Found(Append(Append(w.ev, e), f), P) = Found(Append(w.ev, e), P)
  BY <1>1, <1>3, FoundUnseen
<1>5. At(x, d) = At(w, d)
  BY <1>1, <1>2, <1>4
<1> QED
  BY <1>5 DEF Clone, SameBranch

\* A statement of the open block.
Straight(w, x, n) ==
  /\ n = Len(w.st) /\ n >= 1 /\ Len(x.st) = n
  /\ \A d \in 1..n : SameBranch(x.st[d], w.st[d])
  /\ x.cu = w.cu /\ \A s \in 1..Len(w.pa) : x.pa[s] = w.pa[s]
  /\ \E e \in Entry : /\ e.scope \in {w.cu, Len(w.pa) + 1}
                      /\ x.ev \in {w.ev, Append(w.ev, e)}

LEMMA StraightClones ==
  ASSUME NEW w \in Walk, NEW x \in Walk, Linked(w), NEW n, Straight(w, x, n)
  PROVE  Clones(x) = Clones(w)
<1>1. n \in Nat /\ n >= 1 /\ n = Len(w.st) /\ n = Len(x.st)
  BY WalkType DEF Straight
<1>2. ASSUME NEW d \in 1..n PROVE ScopeAt(x, d) = ScopeAt(w, d)
  <2>1. d # n => d + 1 \in 1..n
    BY <1>1
  <2> QED
    BY <1>1, <2>1 DEF ScopeAt, Straight, SameBranch
<1>3. ASSUME NEW d \in 1..n - 1 PROVE Clone(x, d) = Clone(w, d)
  <2>1. d \in 1..n /\ d + 1 \in 1..n
    BY <1>1
  <2>2. PICK e \in Entry : e.scope \in {w.cu, Len(w.pa) + 1} /\ x.ev \in {w.ev, Append(w.ev, e)}
    BY DEF Straight
  <2>3. /\ ScopeAt(w, d) \in 1..Len(w.pa) /\ w.cu \notin w.pa[ScopeAt(w, d)]
        /\ Len(w.pa) + 1 \notin w.pa[ScopeAt(w, d)]
    BY <1>1, Outside
  <2>4. Unseen(w, x, d)
    BY <1>2, <2>1, <2>2, <2>3 DEF Unseen, Straight
  <2> QED
    BY <1>2, <2>1, <2>4, UnseenKeeps DEF Straight
<1> QED
  BY <1>1, <1>3 DEF Clones

\* Nothing is recorded in scope s.
Elsewhere(ev, s) == \A i \in 1..Len(ev) : ev[i].scope # s

\* e are the first sources in scope s, in which nothing else is recorded.
First(ev, e, P, s) ==
  /\ ev \in Seq(Entry) /\ e \in Entry
  /\ s \notin P /\ e.scope = s /\ e.wrote = {} /\ Elsewhere(ev, s)

\* What is found in a new scope, and what the scope around it finds then.
LEMMA FoundChild ==
  ASSUME NEW ev, NEW e, NEW P, NEW s, First(ev, e, P, s)
  PROVE  /\ Found(Append(ev, e), P \cup {s}) = Found(ev, P) \cup Undated(Planted(e))
         /\ Found(Append(ev, e), P) = Found(ev, P)
<1>0. /\ ev \in Seq(Entry) /\ e \in Entry /\ DOMAIN ev = 1..Len(ev)
      /\ s \notin P /\ e.scope = s /\ e.wrote = {} /\ Elsewhere(ev, s)
  BY DEF First
<1>1. Found(Append(ev, e), P \cup {s}) = Found(ev, P \cup {s}) \cup Undated(Planted(e))
  BY <1>0, FoundSource
<1>2. Found(ev, P \cup {s}) = Found(ev, P)
  <2>1. \A i \in DOMAIN ev : ev[i].scope # s
    BY <1>0 DEF Elsewhere
  <2> QED
    BY <2>1, FoundEmpty
<1>3. Found(Append(ev, e), P) = Found(ev, P)
  BY <1>0, FoundUnseen
<1> QED
  BY <1>1, <1>2, <1>3

\* now is what the clone c and its condition let be restored.
Restored(now, c) == c.clone \subseteq now /\ now \subseteq c.clone \cup c.condition

\* A branch is opened, after a write.
Opens(w, x, n, ev, F) ==
  /\ n = Len(w.st) /\ n >= 1 /\ Len(x.st) = n + 1
  /\ \A d \in 1..n : SameBranch(x.st[d], w.st[d])
  /\ x.st[n + 1].prev = w.cu /\ x.cu = Len(w.pa) + 1
  /\ x.pa = Append(w.pa, w.pa[w.cu] \cup {Len(w.pa) + 1})
  /\ x.ev = Append(ev, Source(F, Len(w.pa) + 1))
  /\ F \subseteq x.st[n + 1].yes \cup x.st[n + 1].no
  /\ \/ ev = w.ev
     \/ \E e \in Entry : ev = Append(w.ev, e) /\ e.scope = w.cu /\ Planted(e) = {}

\* The paths of the scopes that are there do not change.
LEMMA PathsKept ==
  ASSUME NEW pa \in Seq(SUBSET Nat), NEW Q \in SUBSET Nat
  PROVE  /\ \A s \in 1..Len(pa) : Append(pa, Q)[s] = pa[s]
         /\ Append(pa, Q)[Len(pa) + 1] = Q
         /\ Append(pa, Q) \in Seq(SUBSET Nat) /\ Len(Append(pa, Q)) = Len(pa) + 1
OBVIOUS

LEMMA OpensClones ==
  ASSUME NEW w \in Walk, NEW x \in Walk, Linked(w), NEW n, NEW ev \in Seq(Entry),
         NEW F \in SUBSET DatedFact, Opens(w, x, n, ev, F)
  PROVE  /\ \A d \in 1..n - 1 : Clone(x, d) = Clone(w, d)
         /\ Clone(x, n).clone \subseteq At(w, n)
         /\ Restored(At(x, n + 1), Clone(x, n))
<1> DEFINE s == Len(w.pa) + 1
           P == w.pa[w.cu]
<1>1. /\ n \in Nat /\ n >= 1 /\ n = Len(w.st) /\ Len(x.st) = n + 1
      /\ n \in 1..n /\ n # n + 1 /\ Len(w.pa) \in Nat /\ s \in Nat
      /\ s \notin 1..Len(w.pa)
  <2>1. Len(w.st) \in Nat /\ Len(w.pa) \in Nat
    BY WalkType
  <2>2. n = Len(w.st) /\ n >= 1 /\ Len(x.st) = n + 1
    BY DEF Opens
  <2>3. s \in Nat /\ s \notin 1..Len(w.pa)
    BY <2>1, NewScopes
  <2>4. n \in 1..n /\ n # n + 1
    BY <2>1, <2>2
  <2> QED
    BY <2>1, <2>2, <2>3, <2>4
<1>2. ScopeAt(w, n) = w.cu /\ ScopeAt(x, n) = w.cu /\ ScopeAt(x, n + 1) = s
  BY <1>1 DEF ScopeAt, Opens
<1>3. w.cu \in 1..Len(w.pa) /\ P \subseteq 1..Len(w.pa) /\ P \in SUBSET Nat
  <2>1. w.cu \in 1..Len(w.pa) /\ P \subseteq 1..Len(w.pa)
    BY <1>1, <1>2 DEF Linked
  <2> QED
    BY <2>1
<1>4. x.pa[s] = P \cup {s} /\ \A t \in 1..Len(w.pa) : x.pa[t] = w.pa[t]
  <2>1. P \cup {s} \in SUBSET Nat
    BY <1>1, <1>3
  <2> QED
    BY <2>1, PathsKept, WalkType DEF Opens
<1>5. ASSUME NEW i \in 1..Len(ev) PROVE ev[i].scope # s
  <2>1. \A j \in 1..Len(w.ev) : w.ev[j].scope # s
    BY <1>1 DEF Linked
  <2>2. CASE ev = w.ev
    BY <2>1, <2>2
  <2>3. ASSUME NEW e \in Entry, ev = Append(w.ev, e), e.scope = w.cu PROVE ev[i].scope # s
    <3>1. w.ev \in Seq(Entry)
      BY WalkType
    <3>2. Len(ev) = Len(w.ev) + 1
      BY <2>3, <3>1
    <3>3. (i \in 1..Len(w.ev) /\ ev[i] = w.ev[i]) \/ ev[i] = e
      BY <2>3, <3>1, <3>2, AppendPlaces
    <3> QED
      BY <1>1, <1>3, <2>1, <2>3, <3>3
  <2> QED
    BY <2>2, <2>3 DEF Opens
<1> DEFINE new == Source(F, s)
<1>6. /\ x.ev = Append(ev, new) /\ new \in Entry /\ new.scope = s
      /\ new.wrote = {} /\ Planted(new) = F
  BY <1>1, SourceType, SourceFields DEF Opens
<1> HIDE DEF new
<1>7. At(x, n + 1) = Found(ev, P) \cup Undated(F) /\ At(x, n) = Found(ev, P)
  <2>1. At(x, n + 1) = Found(x.ev, P \cup {s}) /\ At(x, n) = Found(x.ev, P)
    BY <1>2, <1>3, <1>4 DEF At
  <2>2. First(ev, new, P, s)
    BY <1>1, <1>3, <1>5, <1>6 DEF First, Elsewhere
  <2> HIDE DEF s, P
  <2>3. /\ Found(Append(ev, new), P \cup {s}) = Found(ev, P) \cup Undated(Planted(new))
        /\ Found(Append(ev, new), P) = Found(ev, P)
    BY <2>2, FoundChild
  <2> QED
    BY <1>6, <2>1, <2>3
<1>8. Found(ev, P) \subseteq At(w, n)
  <2>1. At(w, n) = Found(w.ev, P) /\ w.ev \in Seq(Entry)
    BY <1>2, WalkType DEF At
  <2>2. CASE ev = w.ev
    BY <2>1, <2>2
  <2>3. ASSUME NEW e \in Entry, ev = Append(w.ev, e), Planted(e) = {}
        PROVE  Found(ev, P) \subseteq At(w, n)
    BY <2>1, <2>3, FoundWrite
  <2> QED
    BY <2>2, <2>3 DEF Opens
<1>9. ASSUME NEW d \in 1..n - 1 PROVE Clone(x, d) = Clone(w, d)
  <2>1. d \in 1..n /\ d + 1 \in 1..n /\ d # n + 1 /\ d # n /\ d + 1 # n + 1
        /\ (d + 1 # n => (d + 1) + 1 \in 1..n)
    BY <1>1, Above
  <2>2. SameBranch(x.st[d + 1], w.st[d + 1])
    BY <2>1 DEF Opens
  <2>3. ScopeAt(x, d) = ScopeAt(w, d)
    BY <1>1, <2>1, <2>2 DEF ScopeAt, SameBranch
  <2>4. ScopeAt(x, d + 1) = ScopeAt(w, d + 1)
    <3>1. CASE d + 1 = n
      BY <1>2, <3>1
    <3>2. CASE d + 1 # n
      BY <1>1, <2>1, <3>2 DEF ScopeAt, SameBranch, Opens
    <3> QED
      BY <3>1, <3>2
  <2>5. /\ ScopeAt(w, d) \in 1..Len(w.pa)
        /\ w.cu \notin w.pa[ScopeAt(w, d)] /\ s \notin w.pa[ScopeAt(w, d)]
    BY <1>1, Outside
  <2>6. Unseen(w, x, d)
    <3>1. new \in Entry /\ new.scope = s
      BY <1>6
    <3>2. \E e, f \in Entry :
            /\ e.scope \in {w.cu, s} /\ f.scope \in {w.cu, s}
            /\ x.ev \in {w.ev, Append(w.ev, e), Append(Append(w.ev, e), f)}
      BY <1>6, <3>1, Zenon DEF Opens
    <3> QED
      BY <1>4, <2>3, <2>5, <3>2 DEF Unseen
  <2> QED
    BY <2>2, <2>4, <2>6, UnseenKeeps
<1>10. Clone(x, n).clone = At(x, n) /\ Undated(F) \subseteq Clone(x, n).condition
  BY DEF Clone, Opens, Undated
<1> QED
  BY <1>7, <1>8, <1>9, <1>10 DEF Restored

\* A branch is closed.
Closes(w, x, n, F) ==
  /\ n = Len(w.st) /\ n >= 2 /\ Len(x.st) = n - 1
  /\ \A d \in 1..n - 1 : SameBranch(x.st[d], w.st[d])
  /\ x.cu = w.st[n].prev /\ x.pa = w.pa
  /\ x.ev = Append(w.ev, Source(F, w.st[n].prev))
  /\ F \subseteq w.st[n].yes \cup w.st[n].no

LEMMA ClosesClones ==
  ASSUME NEW w \in Walk, NEW x \in Walk, Linked(w), NEW n, NEW F \in SUBSET DatedFact,
         Closes(w, x, n, F)
  PROVE  /\ \A d \in 1..n - 2 : Clone(x, d) = Clone(w, d)
         /\ Restored(At(x, n - 1), Clone(w, n - 1))
<1> DEFINE m == n - 1
           s == w.st[n].prev
           P == w.pa[s]
<1>1. /\ n \in Nat /\ n = Len(w.st) /\ m \in Nat /\ m >= 1 /\ Len(x.st) = m /\ m + 1 = n
      /\ m \in 1..n /\ m \in 1..n - 1 /\ m # n /\ m < n
  BY WalkType DEF Closes
<1>2. ScopeAt(w, m) = s /\ ScopeAt(x, m) = s /\ x.pa = w.pa
  BY <1>1 DEF ScopeAt, Closes
<1>3. s \in 1..Len(w.pa) /\ s \in P /\ s \in Nat
  <2>1. s \in 1..Len(w.pa)
    BY <1>1, <1>2 DEF Linked
  <2> QED
    BY <2>1 DEF Linked
<1> DEFINE new == Source(F, s)
<1>4. /\ x.ev = Append(w.ev, new) /\ w.ev \in Seq(Entry) /\ new \in Entry
      /\ new.scope = s /\ new.wrote = {} /\ Planted(new) = F
  BY <1>3, WalkType, SourceType, SourceFields DEF Closes
<1> HIDE DEF new
<1>5. At(x, m) = At(w, m) \cup Undated(F)
  <2>1. At(x, m) = Found(x.ev, P) /\ At(w, m) = Found(w.ev, P)
    BY <1>2 DEF At
  <2>2. new.scope \in P
    BY <1>3, <1>4
  <2> HIDE DEF s, P
  <2>3. Found(Append(w.ev, new), P) = Found(w.ev, P) \cup Undated(Planted(new))
    BY <1>4, <2>2, FoundSource
  <2> QED
    BY <1>4, <2>1, <2>3
<1>6. Clone(w, m).clone = At(w, m) /\ Undated(F) \subseteq Clone(w, m).condition
  BY <1>1 DEF Clone, Closes, Undated
<1>7. ASSUME NEW d \in 1..n - 2 PROVE Clone(x, d) = Clone(w, d)
  <2>1. d \in 1..n - 1 /\ d + 1 \in 1..n - 1 /\ d # m /\ d # n /\ d + 1 # n /\ d < m
        /\ d \in 1..n /\ (d + 1 # m => (d + 1) + 1 \in 1..n - 1)
    <3>1. /\ d \in 1..n - 1 /\ d + 1 \in 1..n - 1 /\ d < m /\ d # m
          /\ (d + 1 # m => (d + 1) + 1 \in 1..n - 1)
      BY <1>1, TwoAbove
    <3> QED
      BY <1>1, <3>1, Above
  <2>2. SameBranch(x.st[d + 1], w.st[d + 1])
    BY <2>1 DEF Closes
  <2>3. ScopeAt(x, d) = ScopeAt(w, d)
    BY <1>1, <2>1, <2>2 DEF ScopeAt, SameBranch
  <2>4. ScopeAt(x, d + 1) = ScopeAt(w, d + 1)
    <3>1. CASE d + 1 = m
      BY <1>2, <3>1
    <3>2. CASE d + 1 # m
      BY <1>1, <2>1, <3>2 DEF ScopeAt, SameBranch, Closes
    <3> QED
      BY <3>1, <3>2
  <2>5. s \notin w.pa[ScopeAt(w, d)]
    <3>1. Len(w.st) >= 1 /\ d \in 1..Len(w.st) - 1 /\ m \in 1..Len(w.st) /\ d < m
      BY <1>1, <2>1
    <3>2. ScopeAt(w, m) \notin w.pa[ScopeAt(w, d)]
      BY <3>1, Outside
    <3> QED
      BY <1>2, <3>2
  <2>7. Unseen(w, x, d)
    BY <1>2, <1>4, <2>3, <2>5 DEF Unseen
  <2> QED
    BY <2>2, <2>4, <2>7, UnseenKeeps
<1> QED
  BY <1>5, <1>6, <1>7 DEF Restored

\* A branch is closed and another of the same statement is opened; ev is what
\* is recorded further in.
Turns(w, x, n, F) ==
  /\ n = Len(w.st) /\ n >= 2 /\ n <= Len(x.st)
  /\ \A d \in 1..n - 1 : SameBranch(x.st[d], w.st[d])
  /\ x.st[n].prev = w.st[n].prev
  /\ x.st[n].yes = w.st[n].yes /\ x.st[n].no = w.st[n].no
  /\ ScopeAt(x, n) = Len(w.pa) + 1
  /\ F \subseteq w.st[n].yes \cup w.st[n].no

\* What x has recorded and opened, the sibling last.
Beginning(w, x, n, F) ==
  /\ x.pa = Append(w.pa, w.pa[w.st[n].prev] \cup {Len(w.pa) + 1})
  /\ x.ev = Append(w.ev, Source(F, Len(w.pa) + 1))

\* The same, and a statement nested in the sibling.
Nesting(w, x, n, F, G) ==
  /\ x.pa = Append(Append(w.pa, w.pa[w.st[n].prev] \cup {Len(w.pa) + 1}),
                   w.pa[w.st[n].prev] \cup {Len(w.pa) + 1, Len(w.pa) + 1 + 1})
  /\ x.ev = Append(Append(w.ev, Source(F, Len(w.pa) + 1)), Source(G, Len(w.pa) + 1 + 1))
  /\ Len(x.st) = n + 1 /\ x.cu = Len(w.pa) + 1 + 1
  /\ G \subseteq x.st[n + 1].yes \cup x.st[n + 1].no

LEMMA TurnsLevels ==
  ASSUME NEW w \in Walk, NEW x \in Walk, Linked(w), NEW n, NEW F, Turns(w, x, n, F)
  PROVE  LET s == Len(w.pa) + 1
             p == w.st[n].prev
         IN  /\ n \in Nat /\ n - 1 \in 1..n - 1 /\ (n - 1) + 1 = n /\ Len(w.pa) \in Nat
             /\ s \in Nat /\ s + 1 \in Nat /\ s \notin 1..Len(w.pa) /\ s + 1 \notin 1..Len(w.pa) /\ s + 1 # s
             /\ ScopeAt(w, n - 1) = p /\ ScopeAt(x, n - 1) = p
             /\ p \in 1..Len(w.pa) /\ w.pa[p] \subseteq 1..Len(w.pa) /\ w.pa[p] \in SUBSET Nat
             /\ \A i \in 1..Len(w.ev) : w.ev[i].scope \in 1..Len(w.pa)
<1>1. n \in Nat /\ n >= 2 /\ n = Len(w.st) /\ Len(x.st) \in Nat /\ n <= Len(x.st) /\ Len(w.pa) \in Nat
  BY WalkType DEF Turns
<1>2. /\ n - 1 \in 1..n - 1 /\ n - 1 \in 1..n /\ (n - 1) + 1 = n /\ n - 1 # Len(w.st)
      /\ n - 1 # Len(x.st) /\ Len(w.pa) + 1 \in Nat /\ Len(w.pa) + 1 + 1 \in Nat
      /\ Len(w.pa) + 1 \notin 1..Len(w.pa) /\ Len(w.pa) + 1 + 1 \notin 1..Len(w.pa)
      /\ Len(w.pa) + 1 + 1 # Len(w.pa) + 1
  <2>1. /\ Len(w.pa) + 1 \in Nat /\ Len(w.pa) + 1 + 1 \in Nat
        /\ Len(w.pa) + 1 \notin 1..Len(w.pa) /\ Len(w.pa) + 1 + 1 \notin 1..Len(w.pa)
        /\ Len(w.pa) + 1 + 1 # Len(w.pa) + 1
    BY <1>1, NewScopes
  <2>2. /\ n - 1 \in 1..n - 1 /\ n - 1 \in 1..n /\ (n - 1) + 1 = n
        /\ \A k \in Nat : n <= k => n - 1 # k
    BY <1>1
  <2> QED
    BY <1>1, <2>1, <2>2
<1>3. ScopeAt(w, n - 1) = w.st[n].prev /\ ScopeAt(x, n - 1) = w.st[n].prev
  BY <1>2 DEF ScopeAt, Turns
<1>4. w.st[n].prev \in 1..Len(w.pa)
  <2>1. n - 1 \in 1..Len(w.st)
    BY <1>1, <1>2
  <2>2. ScopeAt(w, n - 1) \in 1..Len(w.pa)
    BY <2>1 DEF Linked
  <2> QED
    BY <1>3, <2>2
<1>5. w.pa[w.st[n].prev] \subseteq 1..Len(w.pa)
  BY <1>4 DEF Linked
<1>6. w.pa[w.st[n].prev] \in SUBSET Nat
  BY <1>1, <1>5
<1> QED
  BY <1>1, <1>2, <1>3, <1>4, <1>5, <1>6 DEF Linked

\* What x records more than w is in scopes that are new.
Further(w, x) ==
  /\ \A s \in 1..Len(w.pa) : x.pa[s] = w.pa[s]
  /\ \E e, f \in Entry :
       /\ e.scope \notin 1..Len(w.pa) /\ f.scope \notin 1..Len(w.pa)
       /\ x.ev \in {w.ev, Append(w.ev, e), Append(Append(w.ev, e), f)}

LEMMA TurnsClones ==
  ASSUME NEW w \in Walk, NEW x \in Walk, Linked(w), NEW n, NEW F, Turns(w, x, n, F),
         Further(w, x)
  PROVE  /\ \A d \in 1..n - 2 : Clone(x, d) = Clone(w, d)
         /\ Clone(x, n - 1) = [Clone(w, n - 1) EXCEPT !.branch = ScopeAt(x, n)]
         /\ ScopeAt(x, n) # ScopeAt(w, n)
<1> DEFINE s == Len(w.pa) + 1
           m == n - 1
<1>1. /\ n \in Nat /\ n >= 2 /\ n = Len(w.st) /\ Len(x.st) \in Nat /\ n <= Len(x.st)
      /\ m \in 1..n - 1 /\ m + 1 = n /\ n \in 1..n /\ n >= 1
      /\ s \notin 1..Len(w.pa) /\ s + 1 \notin 1..Len(w.pa)
      /\ ScopeAt(w, m) = w.st[n].prev /\ ScopeAt(x, m) = w.st[n].prev
  <2>1. /\ n \in Nat /\ m \in 1..n - 1 /\ m + 1 = n
        /\ s \notin 1..Len(w.pa) /\ s + 1 \notin 1..Len(w.pa)
        /\ ScopeAt(w, m) = w.st[n].prev /\ ScopeAt(x, m) = w.st[n].prev
    BY TurnsLevels
  <2>2. n >= 2 /\ n = Len(w.st) /\ Len(x.st) \in Nat /\ n <= Len(x.st)
    BY WalkType DEF Turns
  <2>3. n \in 1..n /\ n >= 1
    BY <2>1, <2>2
  <2> QED
    BY <2>1, <2>2, <2>3
<1>2. ASSUME NEW d \in 1..n - 1, ScopeAt(x, d) = ScopeAt(w, d) PROVE Unseen(w, x, d)
  <2>1. ScopeAt(w, d) \in 1..Len(w.pa) /\ w.pa[ScopeAt(w, d)] \subseteq 1..Len(w.pa)
    <3>1. ScopeAt(w, d) \in 1..Len(w.pa)
      BY <1>1, Outside
    <3> QED
      BY <3>1 DEF Linked
  <2>2. x.pa[ScopeAt(w, d)] = w.pa[ScopeAt(w, d)]
    BY <2>1 DEF Further
  <2>3. PICK e, f \in Entry :
          /\ e.scope \notin 1..Len(w.pa) /\ f.scope \notin 1..Len(w.pa)
          /\ x.ev \in {w.ev, Append(w.ev, e), Append(Append(w.ev, e), f)}
    BY DEF Further
  <2>4. e.scope \notin w.pa[ScopeAt(w, d)] /\ f.scope \notin w.pa[ScopeAt(w, d)]
    BY <2>1, <2>3
  <2> QED
    BY <1>2, <2>2, <2>3, <2>4, Zenon DEF Unseen
<1>3. ASSUME NEW d \in 1..n - 2 PROVE Clone(x, d) = Clone(w, d)
  <2>1. d \in 1..n - 1 /\ d + 1 \in 1..n - 1 /\ d # n /\ d + 1 # n /\ d # Len(x.st)
        /\ d + 1 # Len(x.st) /\ (d + 1 # m => (d + 1) + 1 \in 1..n - 1)
    <3>1. n \in Nat /\ n <= n /\ Len(x.st) \in Nat /\ n <= Len(x.st)
      BY <1>1
    <3> QED
      BY <3>1, TwoAbove
  <2>2. SameBranch(x.st[d + 1], w.st[d + 1])
    BY <2>1 DEF Turns
  <2>3. ScopeAt(x, d) = ScopeAt(w, d)
    BY <1>1, <2>1, <2>2 DEF ScopeAt, SameBranch
  <2>4. ScopeAt(x, d + 1) = ScopeAt(w, d + 1)
    <3>1. CASE d + 1 = m
      BY <1>1, <3>1
    <3>2. CASE d + 1 # m
      BY <1>1, <2>1, <3>2 DEF ScopeAt, SameBranch, Turns
    <3> QED
      BY <3>1, <3>2
  <2> QED
    BY <1>2, <2>1, <2>2, <2>3, <2>4, UnseenKeeps
<1>4. At(x, m) = At(w, m)
  BY <1>1, <1>2, UnseenKeeps
<1> HIDE DEF m
<1>5. Clone(x, m) = [Clone(w, m) EXCEPT !.branch = ScopeAt(x, n)]
  <2> DEFINE C == Undated(w.st[n].yes \cup w.st[n].no)
  <2>1. Clone(w, m) = [clone |-> At(w, m), condition |-> C, branch |-> ScopeAt(w, n)]
    BY <1>1 DEF Clone
  <2>2. Clone(x, m) = [clone |-> At(x, m), condition |-> C, branch |-> ScopeAt(x, n)]
    BY <1>1 DEF Clone, Turns
  <2> HIDE DEF C
  <2> QED
    BY <1>4, <2>1, <2>2
<1>6. ScopeAt(w, n) \in 1..Len(w.pa) /\ ScopeAt(x, n) = s
  BY <1>1 DEF Linked, Turns
<1> QED
  BY <1>1, <1>3, <1>5, <1>6 DEF m

\* The next branch starts from the same clone.
LEMMA BeginningClones ==
  ASSUME NEW w \in Walk, NEW x \in Walk, Linked(w), NEW n, NEW F \in SUBSET DatedFact,
         Turns(w, x, n, F), Beginning(w, x, n, F)
  PROVE  /\ \A d \in 1..n - 2 : Clone(x, d) = Clone(w, d)
         /\ Clone(x, n - 1) = [Clone(w, n - 1) EXCEPT !.branch = ScopeAt(x, n)]
         /\ ScopeAt(x, n) # ScopeAt(w, n)
         /\ Restored(At(x, n), Clone(w, n - 1))
<1> DEFINE s == Len(w.pa) + 1
           P == w.pa[w.st[n].prev]
           e == Source(F, s)
<1>1. /\ s \in Nat /\ s \notin P /\ P \in SUBSET Nat /\ ScopeAt(w, n - 1) = w.st[n].prev
      /\ P \cup {s} \in SUBSET Nat /\ (n - 1) + 1 = n /\ s \notin 1..Len(w.pa)
      /\ Elsewhere(w.ev, s)
  <2>1. /\ s \in Nat /\ ScopeAt(w, n - 1) = w.st[n].prev /\ (n - 1) + 1 = n
        /\ s \notin 1..Len(w.pa) /\ P \subseteq 1..Len(w.pa) /\ P \in SUBSET Nat
        /\ \A i \in 1..Len(w.ev) : w.ev[i].scope \in 1..Len(w.pa)
    BY TurnsLevels
  <2>2. Elsewhere(w.ev, s)
    BY <2>1 DEF Elsewhere
  <2> HIDE DEF s, P
  <2>3. s \notin P /\ P \cup {s} \in SUBSET Nat
    BY <2>1
  <2> QED
    BY <2>1, <2>2, <2>3
<1>2. e \in Entry /\ e.scope = s /\ e.wrote = {} /\ Planted(e) = F
  BY <1>1, SourceType, SourceFields
<1>3. x.ev = Append(w.ev, e) /\ x.pa = Append(w.pa, P \cup {s})
  BY DEF Beginning
<1> HIDE DEF e
<1>4. x.pa[s] = P \cup {s} /\ \A t \in 1..Len(w.pa) : x.pa[t] = w.pa[t]
  BY <1>1, <1>3, PathsKept, WalkType
<1>5. /\ \A d \in 1..n - 2 : Clone(x, d) = Clone(w, d)
      /\ Clone(x, n - 1) = [Clone(w, n - 1) EXCEPT !.branch = ScopeAt(x, n)]
      /\ ScopeAt(x, n) # ScopeAt(w, n)
  <2>1. e.scope \notin 1..Len(w.pa)
    BY <1>1, <1>2
  <2>2. Further(w, x)
    BY <1>2, <1>3, <1>4, <2>1 DEF Further
  <2> QED
    BY <2>2, TurnsClones
<1>6. At(x, n) = Found(w.ev, P) \cup Undated(F)
  <2>1. At(x, n) = Found(x.ev, P \cup {s}) /\ w.ev \in Seq(Entry)
    BY <1>4, WalkType DEF At, Turns
  <2>3. First(w.ev, e, P, s)
    BY <1>1, <1>2, <2>1 DEF First
  <2> HIDE DEF s, P
  <2>2. Found(Append(w.ev, e), P \cup {s}) = Found(w.ev, P) \cup Undated(Planted(e))
    BY <2>3, FoundChild
  <2> QED
    BY <1>2, <1>3, <2>1, <2>2
<1>7. Clone(w, n - 1).clone = Found(w.ev, P) /\ Undated(F) \subseteq Clone(w, n - 1).condition
  BY <1>1 DEF Clone, Turns, Undated, At
<1> QED
  BY <1>5, <1>6, <1>7 DEF Restored

LEMMA NestingClones ==
  ASSUME NEW w \in Walk, NEW x \in Walk, Linked(w), NEW n, NEW F \in SUBSET DatedFact,
         NEW G \in SUBSET DatedFact, Turns(w, x, n, F), Nesting(w, x, n, F, G)
  PROVE  /\ \A d \in 1..n - 2 : Clone(x, d) = Clone(w, d)
         /\ Clone(x, n - 1) = [Clone(w, n - 1) EXCEPT !.branch = ScopeAt(x, n)]
         /\ Restored(At(x, n), Clone(w, n - 1))
         /\ Clone(x, n).clone = At(x, n)
         /\ Restored(At(x, n + 1), Clone(x, n))
<1> DEFINE s == Len(w.pa) + 1
           t == s + 1
           P == w.pa[w.st[n].prev]
           e == Source(F, s)
           f == Source(G, t)
           ev == Append(w.ev, e)
           pa == Append(w.pa, P \cup {s})
<1>1. /\ s \in Nat /\ t \in Nat /\ s \notin P /\ t \notin P \cup {s} /\ P \in SUBSET Nat
      /\ ScopeAt(w, n - 1) = w.st[n].prev /\ P \cup {s} \in SUBSET Nat
      /\ P \cup {s, t} \in SUBSET Nat /\ (n - 1) + 1 = n /\ n \in Nat
      /\ Len(w.pa) \in Nat /\ s \notin 1..Len(w.pa) /\ t \notin 1..Len(w.pa)
  BY TurnsLevels
<1>2. Elsewhere(w.ev, s) /\ Elsewhere(w.ev, t)
  BY TurnsLevels DEF Elsewhere
<1>3. /\ e \in Entry /\ e.scope = s /\ e.wrote = {} /\ Planted(e) = F
      /\ f \in Entry /\ f.scope = t /\ f.wrote = {} /\ Planted(f) = G
  BY <1>1, SourceType, SourceFields
<1>4. x.ev = Append(ev, f) /\ x.pa = Append(pa, P \cup {s, t})
  BY DEF Nesting
<1> HIDE DEF e, f
<1>5. x.pa[s] = P \cup {s} /\ x.pa[t] = P \cup {s} \cup {t} /\ \A r \in 1..Len(w.pa) : x.pa[r] = w.pa[r]
  <2>1. /\ pa \in Seq(SUBSET Nat) /\ Len(pa) = s /\ pa[s] = P \cup {s}
        /\ \A r \in 1..Len(w.pa) : pa[r] = w.pa[r]
    <3> DEFINE R == P \cup {s}
    <3>1. w.pa \in Seq(SUBSET Nat) /\ R \in SUBSET Nat
      BY <1>1, WalkType
    <3> HIDE DEF R
    <3>2. /\ \A r \in 1..Len(w.pa) : Append(w.pa, R)[r] = w.pa[r]
          /\ Append(w.pa, R)[Len(w.pa) + 1] = R
          /\ Append(w.pa, R) \in Seq(SUBSET Nat) /\ Len(Append(w.pa, R)) = Len(w.pa) + 1
      BY <3>1, PathsKept
    <3> QED
      BY <3>2 DEF R
  <2>2. s \in 1..s /\ \A r \in 1..Len(w.pa) : r \in 1..s
    BY <1>1
  <2>3. P \cup {s, t} = P \cup {s} \cup {t}
    OBVIOUS
  <2> DEFINE Q == P \cup {s, t}
  <2>4. Q \in SUBSET Nat
    BY <1>1
  <2> HIDE DEF pa, Q
  <2>5. \A r \in 1..Len(pa) : Append(pa, Q)[r] = pa[r]
    BY <2>1, <2>4, PathsKept
  <2>6. Append(pa, Q)[Len(pa) + 1] = Q
    BY <2>1, <2>4, PathsKept
  <2>7. x.pa = Append(pa, Q) /\ Q = P \cup {s} \cup {t}
    BY <1>4, <2>3 DEF Q
  <2>8. x.pa[t] = Q
    BY <2>1, <2>6, <2>7
  <2>9. x.pa[s] = pa[s] /\ \A r \in 1..Len(w.pa) : x.pa[r] = pa[r]
    BY <2>1, <2>2, <2>5, <2>7
  <2> QED
    BY <2>1, <2>7, <2>8, <2>9
<1>6. /\ \A d \in 1..n - 2 : Clone(x, d) = Clone(w, d)
      /\ Clone(x, n - 1) = [Clone(w, n - 1) EXCEPT !.branch = ScopeAt(x, n)]
  <2>1. e.scope \notin 1..Len(w.pa) /\ f.scope \notin 1..Len(w.pa)
    BY <1>1, <1>3
  <2>2. Further(w, x)
    BY <1>3, <1>4, <1>5, <2>1, Zenon DEF Further
  <2> QED
    BY <2>2, TurnsClones
<1>7. /\ At(x, n) = Found(Append(ev, f), P \cup {s})
      /\ At(x, n + 1) = Found(Append(ev, f), P \cup {s} \cup {t})
  <2>1. ScopeAt(x, n) = s /\ ScopeAt(x, n + 1) = t
    BY DEF Turns, Nesting, ScopeAt
  <2> QED
    BY <1>4, <1>5, <2>1 DEF At
<1>8. /\ At(x, n) = Found(w.ev, P) \cup Undated(F)
      /\ At(x, n + 1) = At(x, n) \cup Undated(G)
  <2>1. w.ev \in Seq(Entry)
    BY WalkType
  <2>2. ev \in Seq(Entry) /\ Elsewhere(ev, t)
    <3>1. ev \in Seq(Entry) /\ Len(ev) = Len(w.ev) + 1
      BY <1>3, <2>1
    <3>2. \A i \in 1..Len(ev) : (i \in 1..Len(w.ev) /\ ev[i] = w.ev[i]) \/ ev[i] = e
      BY <1>3, <2>1, <3>1, AppendPlaces
    <3>3. s # t
      BY <1>1
    <3> QED
      BY <1>2, <1>3, <3>1, <3>2, <3>3 DEF Elsewhere
  <2> DEFINE Q == P \cup {s}
  <2>3. First(w.ev, e, P, s) /\ First(ev, f, Q, t)
    BY <1>1, <1>2, <1>3, <2>1, <2>2 DEF First
  <2> HIDE DEF s, t, P
  <2>4. Found(ev, Q) = Found(w.ev, P) \cup Undated(Planted(e))
    BY <2>3, FoundChild
  <2> HIDE DEF ev, Q
  <2>5. /\ Found(Append(ev, f), Q \cup {t}) = Found(ev, Q) \cup Undated(Planted(f))
        /\ Found(Append(ev, f), Q) = Found(ev, Q)
    BY <2>3, FoundChild
  <2> QED
    BY <1>3, <1>7, <2>4, <2>5 DEF Q
<1>9. /\ Clone(w, n - 1).clone = Found(w.ev, P) /\ Undated(F) \subseteq Clone(w, n - 1).condition
      /\ Clone(x, n).clone = At(x, n) /\ Undated(G) \subseteq Clone(x, n).condition
  BY <1>1 DEF Clone, Turns, Nesting, Undated, At
<1> QED
  BY <1>6, <1>8, <1>9 DEF Restored

-----------------------------------------------------------------------------
(* Steps of the clone-and-restore walk, from the clones on both sides.     *)

\* w is the state, x the next, with n and m open statements.
Between(w, x, n, m) ==
  /\ w \in Walk /\ x \in Walk /\ IsAt(w) /\ IsAt(x)'
  /\ n = Len(w.st) /\ n >= 1 /\ m = Len(x.st) /\ m >= 1

LEMMA BetweenClones ==
  ASSUME NEW w, NEW x, NEW n, NEW m, Between(w, x, n, m)
  PROVE  /\ n \in Nat /\ m \in Nat /\ n >= 1 /\ m >= 1
         /\ FoundFrom(current) = At(w, n) /\ FoundFrom(current)' = At(x, m)
         /\ Len(Saved) = n - 1 /\ DOMAIN Saved = 1..n - 1
         /\ Len(Saved') = m - 1 /\ DOMAIN Saved' = 1..m - 1
         /\ \A d \in 1..n - 1 : Saved[d] = Clone(w, d)
         /\ \A d \in 1..m - 1 : Saved'[d] = Clone(x, d)
         /\ (\E S : Saved \in Seq(S)) /\ (\E S : Saved' \in Seq(S))
         /\ FoundFrom(current)' \subseteq Claim \X Key
<1>1. /\ w \in Walk /\ x \in Walk /\ IsAt(w) /\ IsAt(x)' /\ n = Len(w.st) /\ n >= 1
      /\ m = Len(x.st) /\ m >= 1
  BY DEF Between
<1>2. n \in Nat /\ m \in Nat
  BY <1>1, WalkType
<1>3. FoundFrom(current) = At(w, n) /\ Saved = Clones(w)
  BY <1>1, StandsFor
<1>4. FoundFrom(current)' = At(x, m) /\ Saved' = Clones(x)
  BY <1>1, StandsForNext
<1>5. /\ Len(Clones(w)) = n - 1 /\ DOMAIN Clones(w) = 1..n - 1
      /\ \A d \in 1..n - 1 : Clones(w)[d] = Clone(w, d)
      /\ \E S : Clones(w) \in Seq(S)
  BY <1>1, ClonesSeq
<1>6. /\ Len(Clones(x)) = m - 1 /\ DOMAIN Clones(x) = 1..m - 1
      /\ \A d \in 1..m - 1 : Clones(x)[d] = Clone(x, d)
      /\ \E S : Clones(x) \in Seq(S)
  BY <1>1, ClonesSeq
<1>7. At(x, m) \subseteq Claim \X Key
  BY DEF At, Found
<1> QED
  BY <1>1, <1>2, <1>3, <1>4, <1>5, <1>6, <1>7

LEMMA WorkStep ==
  ASSUME NEW w, NEW x, NEW n, Between(w, x, n, n), Clones(x) = Clones(w)
  PROVE  CR!Next
<1>1. w \in Walk /\ x \in Walk /\ IsAt(w) /\ IsAt(x)' /\ Len(w.st) >= 1 /\ Len(x.st) >= 1
  BY DEF Between
<1>2. Saved' = Saved
  BY <1>1, StandsFor, StandsForNext
<1>3. FoundFrom(current)' \in SUBSET (Claim \X Key)
  BY BetweenClones
<1> QED
  BY <1>2, <1>3 DEF CR!Next, CR!Work

LEMMA EnterStep ==
  ASSUME NEW w, NEW x, NEW n, Between(w, x, n, n + 1),
         \A d \in 1..n - 1 : Clone(x, d) = Clone(w, d),
         Clone(x, n).clone \subseteq At(w, n), Restored(At(x, n + 1), Clone(x, n))
  PROVE  CR!Next
<1>1. /\ n \in Nat /\ n >= 1
      /\ FoundFrom(current) = At(w, n) /\ FoundFrom(current)' = At(x, n + 1)
      /\ Len(Saved) = n - 1 /\ DOMAIN Saved = 1..n - 1
      /\ Len(Saved') = (n + 1) - 1 /\ DOMAIN Saved' = 1..(n + 1) - 1
      /\ \A d \in 1..n - 1 : Saved[d] = Clone(w, d)
      /\ \A d \in 1..(n + 1) - 1 : Saved'[d] = Clone(x, d)
  BY BetweenClones
<1>2. /\ (n + 1) - 1 = n /\ (n - 1) + 1 = n /\ n \in 1..n
      /\ \A d \in 1..n - 1 : d \in 1..n
  BY <1>1
<1>3. Len(Saved') = Len(Saved) + 1 /\ Saved'[Len(Saved')] = Clone(x, n)
  BY <1>1, <1>2
<1>4. \A d \in DOMAIN Saved : Saved'[d] = Saved[d]
  BY <1>1, <1>2
<1>5. CR!Enter
  BY <1>1, <1>3, <1>4 DEF CR!Enter, CR!Restores, Restored
<1> QED
  BY <1>5 DEF CR!Next

LEMMA NextBranchStep ==
  ASSUME NEW w, NEW x, NEW n, Between(w, x, n, n), n >= 2,
         \A d \in 1..n - 2 : Clone(x, d) = Clone(w, d),
         Clone(x, n - 1) = [Clone(w, n - 1) EXCEPT !.branch = ScopeAt(x, n)],
         ScopeAt(x, n) # ScopeAt(w, n),
         Restored(At(x, n), Clone(w, n - 1))
  PROVE  CR!Next
<1> DEFINE m == n - 1
           C == [Clone(w, n - 1) EXCEPT !.branch = ScopeAt(x, n)]
<1>1. /\ n \in Nat /\ FoundFrom(current)' = At(x, n)
      /\ Len(Saved) = m /\ DOMAIN Saved = 1..m
      /\ Len(Saved') = m /\ DOMAIN Saved' = 1..m
      /\ \A d \in 1..m : Saved[d] = Clone(w, d)
      /\ \A d \in 1..m : Saved'[d] = Clone(x, d)
      /\ (\E S : Saved \in Seq(S)) /\ (\E S : Saved' \in Seq(S))
  BY BetweenClones
<1>2. m \in Nat /\ m >= 1 /\ m \in 1..m /\ n - 2 = m - 1 /\ m + 1 = n
  BY <1>1
<1>3. Saved[m] = Clone(w, m) /\ Saved'[m] = C
  BY <1>1, <1>2
<1>4. Clone(w, m).branch = ScopeAt(w, n) /\ C.branch = ScopeAt(x, n)
  BY <1>2 DEF Clone
<1>5. \A d \in 1..m - 1 : Saved'[d] = Saved[d]
  BY <1>1, <1>2
<1> DEFINE a == Saved
           b == Saved'
<1>6. b = Append(SubSeq(a, 1, m - 1), C)
  <2> HIDE DEF a, b, C, m
  <2>1. PICK S : a \in Seq(S)
    BY <1>1 DEF a
  <2>2. PICK T : b \in Seq(T)
    BY <1>1 DEF b
  <2>3. Len(a) = m /\ Len(b) = m /\ b[m] = C /\ \A d \in 1..m - 1 : b[d] = a[d]
    BY <1>1, <1>3, <1>5 DEF a, b
  <2> QED
    BY <1>2, <2>1, <2>2, <2>3
<1>7. Saved # <<>>
  BY <1>1, <1>2
<1>8. Saved[Len(Saved)] = Clone(w, m) /\ Saved'[Len(Saved)] = C /\ Len(Saved') = Len(Saved)
  BY <1>1, <1>3
<1>9. Saved' = Append(SubSeq(Saved, 1, Len(Saved) - 1), [Clone(w, m) EXCEPT !.branch = C.branch])
  BY <1>1, <1>4, <1>6
<1> HIDE DEF C, m
<1>10. CR!NextBranch
  BY <1>1, <1>4, <1>7, <1>8, <1>9 DEF CR!NextBranch, CR!Restores, CR!Last, CR!Front, Restored, m
<1> QED
  BY <1>10 DEF CR!Next

LEMMA NextNestedStep ==
  ASSUME NEW w, NEW x, NEW n, Between(w, x, n, n + 1), n >= 2,
         \A d \in 1..n - 2 : Clone(x, d) = Clone(w, d),
         Clone(x, n - 1) = [Clone(w, n - 1) EXCEPT !.branch = ScopeAt(x, n)],
         Restored(At(x, n), Clone(w, n - 1)), Clone(x, n).clone = At(x, n),
         Restored(At(x, n + 1), Clone(x, n))
  PROVE  CR!Next
<1> DEFINE m == n - 1
           C == [Clone(w, n - 1) EXCEPT !.branch = ScopeAt(x, n)]
<1>1. /\ n \in Nat /\ FoundFrom(current)' = At(x, n + 1)
      /\ Len(Saved) = n - 1 /\ DOMAIN Saved = 1..n - 1
      /\ Len(Saved') = (n + 1) - 1 /\ DOMAIN Saved' = 1..(n + 1) - 1
      /\ \A d \in 1..n - 1 : Saved[d] = Clone(w, d)
      /\ \A d \in 1..(n + 1) - 1 : Saved'[d] = Clone(x, d)
      /\ \E S : Saved \in Seq(S)
  BY BetweenClones
<1>2. /\ m \in Nat /\ m >= 1 /\ m \in 1..m /\ n - 2 = m - 1 /\ m + 1 = n /\ (n + 1) - 1 = n
      /\ n \in 1..n /\ m \in 1..n /\ \A d \in 1..m - 1 : d \in 1..n /\ d \in 1..m
  BY <1>1
<1>3. Saved[m] = Clone(w, m) /\ Saved'[m] = C /\ Saved'[n] = Clone(x, n) /\ Len(Saved) = m /\ Len(Saved') = n
  BY <1>1, <1>2
<1>4. C = [Clone(w, m) EXCEPT !.branch = C.branch]
  BY DEF Clone
<1>5. \A d \in 1..m - 1 : Saved'[d] = Saved[d]
  BY <1>1, <1>2
<1>6. DOMAIN SubSeq(Saved, 1, Len(Saved) - 1) = 1..m - 1
  BY <1>1, <1>2
<1>7. Saved # <<>> /\ Len(Saved') = Len(Saved) + 1
  BY <1>1, <1>2
<1>8. /\ Saved[Len(Saved)] = Clone(w, m) /\ Saved'[Len(Saved)] = C
      /\ Saved'[Len(Saved')] = Clone(x, n)
  BY <1>3
<1> HIDE DEF C, m
<1>9. CR!NextNested
  <2>1. CR!Last = Clone(w, m)
    BY <1>8 DEF CR!Last
  <2>2. CR!Restores(Clone(x, n).clone, Clone(w, m).clone, Clone(w, m).condition)
    BY DEF CR!Restores, Restored, m
  <2>3. CR!Restores(FoundFrom(current)', Clone(x, n).clone, Clone(x, n).condition)
    BY <1>1 DEF CR!Restores, Restored
  <2> QED
    BY <1>4, <1>5, <1>6, <1>7, <1>8, <2>1, <2>2, <2>3 DEF CR!NextNested, CR!Front
<1> QED
  BY <1>9 DEF CR!Next

LEMMA LeaveStep ==
  ASSUME NEW w, NEW x, NEW n, Between(w, x, n, n - 1), n >= 2,
         \A d \in 1..n - 2 : Clone(x, d) = Clone(w, d),
         Restored(At(x, n - 1), Clone(w, n - 1))
  PROVE  CR!Next
<1> DEFINE m == n - 1
           a == Saved
           b == Saved'
<1>1. /\ n \in Nat /\ FoundFrom(current)' = At(x, m)
      /\ Len(a) = m /\ Len(b) = m - 1
      /\ \A d \in 1..m : a[d] = Clone(w, d)
      /\ \A d \in 1..m - 1 : b[d] = Clone(x, d)
      /\ (\E S : a \in Seq(S)) /\ (\E S : b \in Seq(S))
  BY BetweenClones
<1>2. m \in Nat /\ m >= 1 /\ m \in 1..m /\ n - 2 = m - 1
  BY <1>1
<1>3. \A d \in 1..m - 1 : b[d] = a[d]
  BY <1>1, <1>2
<1>4. b = SubSeq(a, 1, m - 1)
  <2> HIDE DEF a, b, m
  <2>1. PICK S : a \in Seq(S)
    BY <1>1
  <2>2. PICK T : b \in Seq(T)
    BY <1>1
  <2> QED
    BY <1>1, <1>2, <1>3, <2>1, <2>2
<1>5. a # <<>> /\ a[Len(a)] = Clone(w, m)
  BY <1>1, <1>2
<1>6. CR!Leave
  BY <1>1, <1>4, <1>5 DEF CR!Leave, CR!Restores, CR!Last, CR!Front, Restored
<1> QED
  BY <1>6 DEF CR!Next

-----------------------------------------------------------------------------
(* What a step of the walk does to the clones, and to the clauses' frames. *)

\* The clauses of a switch have no condition.
Plain ==
  \A d \in 1..Len(stack) :
    stack[d].kind = "case" => stack[d].yes = {} /\ stack[d].no = {}

\* w is the state before a step, x the state after it.
Views(w, x) == w \in Walk /\ x \in Walk /\ Shows(w) /\ Consistent(w) /\ Shows(x)'

\* The step is one of the clone-and-restore walk.
Mirrored == CR!Next /\ Plain'

LEMMA Viewed ==
  ASSUME TypedWalk, TypedWalk', NEW w, NEW x, Views(w, x), NEW n, n = Len(stack)
  PROVE  /\ w \in Walk /\ x \in Walk /\ Linked(w)
         /\ n \in Nat /\ n >= 1 /\ n \in 1..n /\ n = Len(w.st) /\ Len(x.st) >= 1
         /\ Between(w, x, n, Len(x.st))
         /\ w.ev = events /\ w.pa = path /\ w.cu = current /\ w.st = stack
         /\ x.ev = events' /\ x.pa = path' /\ x.cu = current' /\ x.st = stack'
         /\ w.st[n] = Top /\ Top \in Frame
<1>1. w \in Walk /\ x \in Walk /\ Shows(w) /\ Consistent(w) /\ Shows(x)'
  BY DEF Views
<1>2. /\ n \in Nat /\ n >= 1 /\ n \in 1..n /\ n = Len(w.st) /\ w.st[n] = Top /\ Top \in Frame
      /\ w.ev = events /\ w.pa = path /\ w.cu = current /\ w.st = stack
  BY <1>1, TopLevel
<1>3. x.ev = events' /\ x.pa = path' /\ x.cu = current' /\ x.st = stack'
  BY <1>1 DEF Shows
<1>4. stack' # <<>> /\ stack' \in Seq(Frame)
  BY DEF TypedWalk, TypeOK
<1>5. Len(x.st) >= 1
  BY <1>3, <1>4
<1>6. IsAt(w) /\ IsAt(x)'
  BY <1>2, <1>3 DEF IsAt
<1> QED
  BY <1>1, <1>2, <1>3, <1>5, <1>6 DEF Between, Consistent

\* The open statements and their scopes stay, and at most one entry is
\* recorded here or in a scope that is left again.
Stays ==
  /\ Len(stack') = Len(stack)
  /\ \A d \in 1..Len(stack) : SameBranch(stack'[d], stack[d])
  /\ current' = current /\ \A s \in 1..Len(path) : path'[s] = path[s]
  /\ \E e \in Entry : /\ e.scope \in {current, Len(path) + 1}
                      /\ events' \in {events, Append(events, e)}

LEMMA StaysStep ==
  ASSUME TypedWalk, TypedWalk', Plain, NEW w, NEW x, Views(w, x), Stays
  PROVE  Mirrored
<1> DEFINE n == Len(stack)
<1>1. n = Len(stack)
  OBVIOUS
<1> HIDE DEF n
<1>2. /\ w \in Walk /\ x \in Walk /\ Linked(w) /\ n >= 1 /\ n = Len(w.st)
      /\ Between(w, x, n, Len(x.st))
      /\ w.ev = events /\ w.pa = path /\ w.cu = current /\ w.st = stack
      /\ x.ev = events' /\ x.pa = path' /\ x.cu = current' /\ x.st = stack'
  BY <1>1, Viewed
<1>3. Straight(w, x, n) /\ Len(x.st) = n
  BY <1>1, <1>2 DEF Stays, Straight
<1>4. Clones(x) = Clones(w)
  BY <1>2, <1>3, StraightClones
<1>5. CR!Next
  BY <1>2, <1>3, <1>4, WorkStep
<1>6. Plain'
  BY DEF Stays, Plain, SameBranch
<1> QED
  BY <1>5, <1>6 DEF Mirrored

LEMMA OpensStep ==
  ASSUME TypedWalk, TypedWalk', Plain, NEW w, NEW x, Views(w, x), NEW n, n = Len(stack),
         NEW ev \in Seq(Entry), NEW F \in SUBSET DatedFact, Opens(w, x, n, ev, F),
         x.st[n + 1].kind = "case" => x.st[n + 1].yes = {} /\ x.st[n + 1].no = {}
  PROVE  Mirrored
<1>1. /\ w \in Walk /\ x \in Walk /\ Linked(w) /\ n \in Nat /\ n >= 1 /\ n = Len(w.st)
      /\ Between(w, x, n, Len(x.st)) /\ w.st = stack /\ x.st = stack'
  BY Viewed
<1>2. /\ Len(x.st) = n + 1 /\ \A d \in 1..n : SameBranch(x.st[d], w.st[d])
  BY DEF Opens
<1>3. /\ \A d \in 1..n - 1 : Clone(x, d) = Clone(w, d)
      /\ Clone(x, n).clone \subseteq At(w, n)
      /\ Restored(At(x, n + 1), Clone(x, n))
  BY <1>1, OpensClones
<1>4. CR!Next
  BY <1>1, <1>2, <1>3, EnterStep
<1>5. \A d \in 1..n + 1 : d \in 1..n \/ d = n + 1
  BY <1>1, OneMore
<1>6. Plain'
  <2> SUFFICES ASSUME NEW d \in 1..Len(stack'), stack'[d].kind = "case"
               PROVE  stack'[d].yes = {} /\ stack'[d].no = {}
    BY DEF Plain
  <2>1. CASE d \in 1..n
    <3>1. SameBranch(stack'[d], stack[d]) /\ d \in 1..Len(stack)
      BY <1>1, <1>2, <1>5, <2>1
    <3> QED
      BY <3>1 DEF Plain, SameBranch
  <2>2. CASE d = n + 1
    BY <1>1, <2>2
  <2> QED
    BY <1>1, <1>2, <1>5, <2>1, <2>2
<1> QED
  BY <1>4, <1>6 DEF Mirrored

LEMMA ClosesStep ==
  ASSUME TypedWalk, TypedWalk', Plain, NEW w, NEW x, Views(w, x), NEW n, n = Len(stack),
         NEW F \in SUBSET DatedFact, Closes(w, x, n, F)
  PROVE  Mirrored
<1>1. /\ w \in Walk /\ x \in Walk /\ Linked(w) /\ n \in Nat /\ n = Len(w.st)
      /\ Between(w, x, n, Len(x.st)) /\ w.st = stack /\ x.st = stack'
  BY Viewed
<1>2. n >= 2 /\ Len(x.st) = n - 1 /\ \A d \in 1..n - 1 : SameBranch(x.st[d], w.st[d])
  BY DEF Closes
<1>3. /\ \A d \in 1..n - 2 : Clone(x, d) = Clone(w, d)
      /\ Restored(At(x, n - 1), Clone(w, n - 1))
  BY <1>1, ClosesClones
<1>4. CR!Next
  BY <1>1, <1>2, <1>3, LeaveStep
<1>5. \A d \in 1..n - 1 : d \in 1..n
  BY <1>1
<1>6. Plain'
  <2> SUFFICES ASSUME NEW d \in 1..Len(stack'), stack'[d].kind = "case"
               PROVE  stack'[d].yes = {} /\ stack'[d].no = {}
    BY DEF Plain
  <2>1. SameBranch(stack'[d], stack[d]) /\ d \in 1..Len(stack)
    BY <1>1, <1>2, <1>5
  <2> QED
    BY <2>1 DEF Plain, SameBranch
<1> QED
  BY <1>4, <1>6 DEF Mirrored

LEMMA TurnsStep ==
  ASSUME TypedWalk, TypedWalk', Plain, NEW w, NEW x, Views(w, x), NEW n, n = Len(stack),
         NEW F \in SUBSET DatedFact, Turns(w, x, n, F), Beginning(w, x, n, F),
         Len(x.st) = n, x.st[n].kind = "case" => w.st[n].kind = "case"
  PROVE  Mirrored
<1>1. /\ w \in Walk /\ x \in Walk /\ Linked(w) /\ n \in Nat /\ n = Len(w.st)
      /\ Between(w, x, n, Len(x.st)) /\ w.st = stack /\ x.st = stack'
  BY Viewed
<1>2. /\ n >= 2 /\ \A d \in 1..n - 1 : SameBranch(x.st[d], w.st[d])
      /\ x.st[n].yes = w.st[n].yes /\ x.st[n].no = w.st[n].no
  BY DEF Turns
<1>3. /\ \A d \in 1..n - 2 : Clone(x, d) = Clone(w, d)
      /\ Clone(x, n - 1) = [Clone(w, n - 1) EXCEPT !.branch = ScopeAt(x, n)]
      /\ ScopeAt(x, n) # ScopeAt(w, n)
      /\ Restored(At(x, n), Clone(w, n - 1))
  BY <1>1, BeginningClones
<1>4. CR!Next
  BY <1>1, <1>2, <1>3, NextBranchStep
<1>5. \A d \in 1..n : d \in 1..n - 1 \/ d = n
  BY <1>1
<1>6. Plain'
  <2> SUFFICES ASSUME NEW d \in 1..Len(stack'), stack'[d].kind = "case"
               PROVE  stack'[d].yes = {} /\ stack'[d].no = {}
    BY DEF Plain
  <2>1. CASE d \in 1..n - 1
    <3>1. SameBranch(stack'[d], stack[d]) /\ d \in 1..Len(stack)
      BY <1>1, <1>2, <1>5, <2>1
    <3> QED
      BY <3>1 DEF Plain, SameBranch
  <2>2. CASE d = n
    <3>1. stack[n].kind = "case" /\ n \in 1..Len(stack)
      BY <1>1, <1>2, <2>2
    <3> QED
      BY <1>1, <1>2, <2>2, <3>1 DEF Plain
  <2> QED
    BY <1>1, <1>2, <1>5, <2>1, <2>2
<1> QED
  BY <1>4, <1>6 DEF Mirrored

LEMMA NestsStep ==
  ASSUME TypedWalk, TypedWalk', Plain, NEW w, NEW x, Views(w, x), NEW n, n = Len(stack),
         NEW F \in SUBSET DatedFact, NEW G \in SUBSET DatedFact,
         Turns(w, x, n, F), Nesting(w, x, n, F, G),
         x.st[n].kind # "case", x.st[n + 1].kind # "case"
  PROVE  Mirrored
<1>1. /\ w \in Walk /\ x \in Walk /\ Linked(w) /\ n \in Nat /\ n = Len(w.st)
      /\ Between(w, x, n, Len(x.st)) /\ w.st = stack /\ x.st = stack'
  BY Viewed
<1>2. /\ n >= 2 /\ Len(x.st) = n + 1 /\ \A d \in 1..n - 1 : SameBranch(x.st[d], w.st[d])
  BY DEF Turns, Nesting
<1>3. /\ \A d \in 1..n - 2 : Clone(x, d) = Clone(w, d)
      /\ Clone(x, n - 1) = [Clone(w, n - 1) EXCEPT !.branch = ScopeAt(x, n)]
      /\ Restored(At(x, n), Clone(w, n - 1))
      /\ Clone(x, n).clone = At(x, n)
      /\ Restored(At(x, n + 1), Clone(x, n))
  BY <1>1, NestingClones
<1>4. CR!Next
  <2>1. Between(w, x, n, n + 1) /\ n >= 2
    BY <1>1, <1>2
  <2> QED
    BY ONLY <1>3, <2>1, NextNestedStep
<1>5. \A d \in 1..n + 1 : (d \in 1..n - 1 /\ d \in 1..n) \/ d = n \/ d = n + 1
  BY <1>1
<1>6. Plain'
  <2> SUFFICES ASSUME NEW d \in 1..Len(stack'), stack'[d].kind = "case"
               PROVE  stack'[d].yes = {} /\ stack'[d].no = {}
    BY DEF Plain
  <2>1. CASE d \in 1..n - 1
    <3>1. SameBranch(stack'[d], stack[d]) /\ d \in 1..Len(stack)
      BY <1>1, <1>2, <1>5, <2>1
    <3> QED
      BY <3>1 DEF Plain, SameBranch
  <2>2. d # n /\ d # n + 1
    BY <1>1
  <2> QED
    BY <1>1, <1>2, <1>5, <2>1, <2>2
<1> QED
  BY <1>4, <1>6 DEF Mirrored

-----------------------------------------------------------------------------
(* The statements without a body.                                          *)

\* A statement of the open block that records at most one entry there.
LEMMA RunsStep ==
  ASSUME TypedWalk, TypedWalk', Plain, NEW w, NEW x, Views(w, x),
         NEW n, n = Len(stack), NEW D, NEW M, NEW ok,
         Runs(w, n, D, M, ok, stack', env', touched'),
         path' = path, current' = current,
         \/ events' = events
         \/ \E F, V, t, G : events' = Append(events, Recorded(F, V, t, G, current))
  PROVE  Mirrored
<1>1. /\ w.st = stack /\ n \in Nat /\ n >= 1 /\ n \in 1..n /\ w.st[n] = Top /\ Top \in Frame
  BY Viewed
<1>2. /\ Len(stack') = n /\ \A d \in 1..n - 1 : stack'[d] = stack[d]
      /\ SameBranch(stack'[n], stack[n])
  BY <1>1 DEF Runs, Advanced, SameBranch
<1>3. \A d \in 1..n : SameBranch(stack'[d], stack[d])
  <2>1. \A d \in 1..n : d \in 1..n - 1 \/ d = n
    BY <1>1
  <2> QED
    BY <1>2, <2>1 DEF SameBranch
<1>4. \E e \in Entry : e.scope = current /\ events' \in {events, Append(events, e)}
  <2>1. CASE events' = events
    <3>1. Source({}, current) \in Entry /\ Source({}, current).scope = current
      BY SourceType, SourceFields, ScopesTyped
    <3> QED
      BY <2>1, <3>1
  <2>2. ASSUME NEW e, e.scope = current, events' = Append(events, e) PROVE e \in Entry
    <3>1. events \in Seq(Entry) /\ events' \in Seq(Entry)
      BY ScopesTyped DEF TypedWalk, TypeOK, StreamTypeOK
    <3>2. events \in Seq(Entry \cup {e}) /\ e \in Entry \cup {e}
      BY <3>1
    <3>3. /\ Append(events, e)[Len(events) + 1] = e
          /\ Len(events) + 1 \in 1..Len(Append(events, e))
      BY <3>2
    <3> QED
      BY <2>2, <3>1, <3>3, ElementOfSeq
  <2>3. \A F, V, t, G : Recorded(F, V, t, G, current).scope = current
    BY DEF Recorded
  <2> QED
    BY <2>1, <2>2, <2>3
<1>5. Stays
  BY <1>2, <1>3, <1>4 DEF Stays
<1> QED
  BY <1>5, StaysStep

LEMMA ExecuteStep ==
  ASSUME TypedWalk, TypedWalk', Plain, NEW w, NEW x, Views(w, x),
         NEW D \in SUBSET Var, NEW M \in SUBSET Var, NEW new, NEW ok \in BOOLEAN,
         Execute(D, M, new, ok), path' = path, current' = current,
         \/ events' = events
         \/ \E F, V, G : Record(F, V, G)
  PROVE  Mirrored
<1> DEFINE n == Len(stack)
<1>1. n = Len(stack)
  OBVIOUS
<1> HIDE DEF n
<1>2. w \in Walk /\ Shows(w) /\ Consistent(w)
  BY DEF Views
<1>3. Runs(w, n, D, M, ok, stack', env', touched')
  BY <1>1, <1>2, ExecuteRuns
<1>4. \/ events' = events
      \/ \E F, V, t, G : events' = Append(events, Recorded(F, V, t, G, current))
  BY DEF Record
<1> QED
  BY <1>1, <1>3, <1>4, RunsStep

LEMMA AssignStep ==
  ASSUME TypedWalk, TypedWalk', Plain, NEW w, NEW x, Views(w, x), NEW mode,
         NEW l \in Subject,
         \/ AssignValue(mode, l)
         \/ \E C \in SUBSET Claim : AssignCall(mode, l, C)
         \/ \E k \in Subject, c \in Claim : AssignMust(mode, l, k, c)
  PROVE  Mirrored
<1> DEFINE V == {Root[l]}
<1>1. V \in SUBSET Var /\ Declares(mode, V) \in SUBSET Var
  BY SubjectRoot DEF Declares
<1>2. path' = path /\ current' = current
  BY DEF AssignValue, AssignCall, AssignMust
<1>3. \E F, W, G : Record(F, W, G)
  BY DEF AssignValue, AssignCall, AssignMust
<1>4. \E new : \E ok \in BOOLEAN : Execute(Declares(mode, V), V, new, ok)
  <2>1. CASE AssignValue(mode, l)
    BY <2>1 DEF AssignValue
  <2>2. CASE \E C \in SUBSET Claim : AssignCall(mode, l, C)
    BY <2>2 DEF AssignCall
  <2>3. ASSUME NEW k \in Subject, NEW c \in Claim, AssignMust(mode, l, k, c)
        PROVE  \E new : \E ok \in BOOLEAN : Execute(Declares(mode, V), V, new, ok)
    <3>1. True(c, k) \in BOOLEAN
      BY DEF True
    <3> QED
      BY <2>3, <3>1 DEF AssignMust
  <2> QED
    BY <2>1, <2>2, <2>3
<1> HIDE DEF V
<1> QED
  BY <1>1, <1>2, <1>3, <1>4, ExecuteStep

LEMMA AssignTwoStep ==
  ASSUME TypedWalk, TypedWalk', Plain, NEW w, NEW x, Views(w, x), NEW mode,
         NEW v \in Var, NEW u \in Var, NEW C \in SUBSET Claim, AssignTwo(mode, v, u, C)
  PROVE  Mirrored
<1> DEFINE V == {v, u}
<1>1. V \in SUBSET Var /\ Declares(mode, V) \in SUBSET Var
  BY DEF Declares
<1>2. /\ path' = path /\ current' = current /\ \E F, W, G : Record(F, W, G)
      /\ \E new : Execute(Declares(mode, V), V, new, TRUE)
  BY DEF AssignTwo
<1> HIDE DEF V
<1> QED
  BY <1>1, <1>2, ExecuteStep

LEMMA VariableStep ==
  ASSUME TypedWalk, TypedWalk', Plain, NEW w, NEW x, Views(w, x), NEW v \in Var,
         \/ \E kind : Overwrite(kind, v)
         \/ Silent(v)
         \/ \E C \in SUBSET Claim : Decl(v, C)
  PROVE  Mirrored
<1>1. {v} \in SUBSET Var /\ {} \in SUBSET Var
  OBVIOUS
<1>2. /\ path' = path /\ current' = current
      /\ events' = events \/ \E F, W, G : Record(F, W, G)
      /\ \E D \in {{}, {v}} : \E new : Execute(D, {v}, new, TRUE)
  BY DEF Overwrite, Silent, Decl, stream
<1> QED
  BY <1>1, <1>2, ExecuteStep

LEMMA MustStep ==
  ASSUME TypedWalk, TypedWalk', Plain, NEW w, NEW x, Views(w, x), NEW k, NEW c, Must(k, c)
  PROVE  Mirrored
<1>1. {} \in SUBSET Var /\ True(c, k) \in BOOLEAN
  BY DEF True
<1>2. /\ path' = path /\ current' = current /\ \E F, W, G : Record(F, W, G)
      /\ Execute({}, {}, env, True(c, k))
  BY DEF Must
<1> QED
  BY <1>1, <1>2, ExecuteStep

LEMMA EscapeStep ==
  ASSUME TypedWalk, TypedWalk', Plain, NEW w, NEW x, Views(w, x),
         \/ Escape /\ UNCHANGED <<stream, env, touched>>
         \/ UNCHANGED <<stream, stack, env, touched>>
  PROVE  Mirrored
<1> DEFINE n == Len(stack)
<1>1. n = Len(stack)
  OBVIOUS
<1> HIDE DEF n
<1>2. w \in Walk /\ Shows(w) /\ Consistent(w)
  BY DEF Views
<1>3. events' = events /\ path' = path /\ current' = current
  BY DEF stream
<1>4. \E ok : Runs(w, n, {}, {}, ok, stack', env', touched')
  BY <1>1, <1>2, EscapeRuns, IdleRuns
<1> QED
  BY <1>1, <1>3, <1>4, RunsStep

\* The scope of a nested call is left again.
LEMMA CallNestedStep ==
  ASSUME TypedWalk, TypedWalk', Plain, NEW w, NEW x, Views(w, x),
         NEW C \in SUBSET Claim, NEW c, CallNested(C, c)
  PROVE  Mirrored
<1> DEFINE e == Source(On(C, Arg, clock), NextScope)
           Q == path[current] \cup {Len(path) + 1}
<1>1. On(C, Arg, clock) \in SUBSET DatedFact /\ NextScope \in Nat
  BY ClockTyped, OnType, ArgAssumption, OpenedType, ScopesTyped
<1>2. e \in Entry /\ e.scope = Len(path) + 1
  BY <1>1, SourceType, SourceFields DEF NextScope
<1>3. /\ path' = Append(path, Q) /\ events' = Append(events, e)
      /\ UNCHANGED <<current, stack>>
  BY DEF CallNested, Opened, NextScope
<1>4. \A s \in 1..Len(path) : path'[s] = path[s]
  <2>1. path \in Seq(SUBSET Nat) /\ Len(path) + 1 \in Nat /\ path[current] \in SUBSET Nat
    BY ScopesTyped, ElementOfSeq
  <2>2. Q \in SUBSET Nat
    BY <2>1
  <2> HIDE DEF Q
  <2> QED
    BY <1>3, <2>1, <2>2, PathsKept
<1> HIDE DEF e
<1>5. Stays
  BY <1>2, <1>3, <1>4 DEF Stays, SameBranch
<1> QED
  BY <1>5, StaysStep

-----------------------------------------------------------------------------
(* The statements with a body.                                             *)

\* A branch of the open block is opened.
LEMMA PushStep ==
  ASSUME TypedWalk, TypedWalk', Plain, NEW w, NEW x, Views(w, x),
         NEW f \in Frame, f.prev = current, NEW F \in SUBSET DatedFact,
         F \subseteq f.yes \cup f.no, f.kind = "case" => f.yes = {} /\ f.no = {},
         Open(current, F), stack' = Append(stack, f)
  PROVE  Mirrored
<1> DEFINE n == Len(stack)
<1>1. n = Len(stack)
  OBVIOUS
<1> HIDE DEF n
<1>2. /\ n \in Nat /\ n >= 1 /\ n = Len(w.st)
      /\ w.ev = events /\ w.pa = path /\ w.cu = current /\ w.st = stack
      /\ x.ev = events' /\ x.pa = path' /\ x.cu = current' /\ x.st = stack'
  BY <1>1, Viewed
<1>3. /\ Len(stack') = n + 1 /\ stack'[n + 1] = f /\ \A d \in 1..n : stack'[d] = stack[d]
  <2>1. stack \in Seq(Frame)
    BY DEF TypedWalk, TypeOK
  <2> QED
    BY <1>1, <2>1
<1>4. events \in Seq(Entry)
  BY ScopesTyped
<1>5. Opens(w, x, n, events, F)
  <2>1. /\ x.cu = Len(w.pa) + 1 /\ x.pa = Append(w.pa, w.pa[w.cu] \cup {Len(w.pa) + 1})
        /\ x.ev = Append(events, Source(F, Len(w.pa) + 1))
    BY <1>2 DEF Open, Opened, NextScope
  <2>2. \A d \in 1..n : SameBranch(x.st[d], w.st[d])
    BY <1>2, <1>3 DEF SameBranch
  <2> QED
    BY <1>2, <1>3, <2>1, <2>2 DEF Opens
<1>6. x.st[n + 1].kind = "case" => x.st[n + 1].yes = {} /\ x.st[n + 1].no = {}
  BY <1>2, <1>3
<1> QED
  BY <1>1, <1>4, <1>5, <1>6, OpensStep

LEMMA IfStep ==
  ASSUME TypedWalk, TypedWalk', Plain, NEW w, NEW x, Views(w, x), NEW g \in Guards, If(g)
  PROVE  Mirrored
<1> DEFINE yes == Dated(g.yes, clock)
           no  == Dated(g.no, clock)
<1>1. PICK taken \in BOOLEAN :
        stack' = Append(stack, Branch(NewFrame("then", current, yes, no), taken))
  BY DEF If
<1> DEFINE f == Branch(NewFrame("then", current, yes, no), taken)
<1>2. yes \in SUBSET DatedFact /\ no \in SUBSET DatedFact
  BY ClockTyped, GuardType, DatedType
<1>3. Open(current, yes) /\ stack' = Append(stack, f)
  BY <1>1 DEF If
<1> HIDE DEF yes, no
<1>4. Enters(f, "then", current, yes, no, taken)
  BY <1>2, NewBranch, ScopesTyped DEF Kinds
<1> HIDE DEF f
<1>5. f \in Frame /\ f.prev = current /\ f.kind # "case" /\ yes \subseteq f.yes \cup f.no
  BY <1>4 DEF Enters
<1> QED
  BY <1>2, <1>3, <1>5, PushStep

LEMMA BodyStep ==
  ASSUME TypedWalk, TypedWalk', Plain, NEW w, NEW x, Views(w, x), Block \/ Switch
  PROVE  Mirrored
<1>1. PICK kind \in {"block", "case"}, taken \in BOOLEAN :
        stack' = Append(stack, Branch(NewFrame(kind, current, {}, {}), taken))
  <2>1. Top.live \in BOOLEAN
    BY NestedTop DEF Frame
  <2> QED
    BY <2>1 DEF Block, Switch
<1> DEFINE f == Branch(NewFrame(kind, current, {}, {}), taken)
<1>2. Open(current, {}) /\ stack' = Append(stack, f)
  BY <1>1 DEF Block, Switch
<1>3. kind \in Kinds /\ current \in Nat /\ {} \in SUBSET DatedFact
  BY ScopesTyped DEF Kinds
<1>4. Enters(f, kind, current, {}, {}, taken)
  BY <1>3, NewBranch
<1> HIDE DEF f
<1>5. f \in Frame /\ f.prev = current /\ f.yes = {} /\ f.no = {}
  BY <1>4 DEF Enters
<1> QED
  BY <1>2, <1>3, <1>5, PushStep

LEMMA LoopStep ==
  ASSUME TypedWalk, TypedWalk', Plain, NEW w, NEW x, Views(w, x),
         NEW W \in SUBSET Var, NEW D \in SUBSET Var, Loop(W, D)
  PROVE  Mirrored
<1> DEFINE bare == NewFrame("loop", current, {}, {})
           hav  == [bare EXCEPT !.havoc = W]
<1>1. PICK taken \in BOOLEAN : stack' = Append(stack, Branch(Declaring(hav, D), taken))
  BY DEF Loop
<1> DEFINE f == Branch(Declaring(hav, D), taken)
<1>2. Open(current, {}) /\ stack' = Append(stack, f) /\ {} \in SUBSET DatedFact
  BY <1>1 DEF Loop
<1>3. bare \in Frame
  BY NewFrameType, ScopesTyped DEF Kinds
<1>4. bare.kind = "loop" /\ bare.prev = current
  BY DEF NewFrame
<1> HIDE DEF bare
<1>5. hav \in Frame /\ hav.kind = "loop" /\ hav.prev = current
  BY <1>3, <1>4 DEF Frame
<1> HIDE DEF hav
<1>6. f \in Frame /\ Advanced(Branch(hav, taken), f, D, env, touched, TRUE)
  BY <1>5, BranchDeclaring
<1>7. Branch(hav, taken).kind = "loop" /\ Branch(hav, taken).prev = current
  BY <1>5 DEF Branch, Frame
<1> HIDE DEF f
<1>8. f.kind # "case" /\ f.prev = current
  BY <1>6, <1>7 DEF Advanced
<1> QED
  BY <1>2, <1>6, <1>8, PushStep

LEMMA ProveThatIfStep ==
  ASSUME TypedWalk, TypedWalk', Plain, NEW w, NEW x, Views(w, x),
         NEW V \in {{}} \cup {{l} : l \in Subject}, NEW k \in Subject, NEW c \in Claim,
         NEW mode, NEW op, ProveThatIf(mode, V, k, c, op)
  PROVE  Mirrored
<1> DEFINE n       == Len(stack)
           W       == Roots(V)
           D       == Declares(mode, W)
           proved  == ProveTargets(V, k, c)
           yes     == IF op = "==" THEN proved ELSE {}
           no      == IF op = "!=" THEN proved ELSE {}
           taken   == Top.live /\ (True(c, k) <=> op = "==")
           opening == Declaring(Top, D)
           base    == [stack EXCEPT ![Len(stack)] = opening]
           f       == Branch(NewFrame("then", current, yes, no), taken)
           wrote   == Recorded({}, W, clock + 1, {}, current)
           ev      == Append(events, wrote)
<1>1. /\ n \in Nat /\ n >= 1 /\ n = Len(w.st) /\ n = Len(stack)
      /\ w.ev = events /\ w.pa = path /\ w.cu = current /\ w.st = stack
      /\ x.ev = events' /\ x.pa = path' /\ x.cu = current' /\ x.st = stack'
      /\ stack[n] = Top /\ Top \in Frame /\ n \in 1..n
  BY Viewed
<1>2. V \in SUBSET Subject /\ W \in SUBSET Key /\ D \in SUBSET Var
  BY VarType, RootsType DEF Declares
<1>3. proved \in SUBSET DatedFact /\ yes \in SUBSET DatedFact /\ no \in SUBSET DatedFact
  BY <1>2, ProveTargetsType
<1>4. /\ path' = Append(path, path[current] \cup {Len(path) + 1}) /\ current' = Len(path) + 1
      /\ events' = Append(ev, Source(yes, Len(path) + 1))
      /\ stack' = Append(base, f)
  BY DEF ProveThatIf, Opened, NextScope
<1>5. /\ wrote \in Entry /\ wrote.scope = current /\ Planted(wrote) = {}
      /\ ev \in Seq(Entry)
  <2>1. wrote \in Entry
    BY <1>2, RecordedType, ClockTyped, ScopesTyped
  <2>2. wrote.scope = current /\ Planted(wrote) = {}
    BY DEF Recorded, Planted
  <2> HIDE DEF wrote
  <2> QED
    BY <2>1, <2>2, ScopesTyped
<1>6. opening \in Frame /\ SameBranch(opening, Top)
  <2>1. opening \in Frame /\ Advanced(Top, opening, D, env, touched, TRUE)
    BY <1>1, <1>2, DeclaringOnly
  <2> HIDE DEF opening
  <2> QED
    BY <2>1 DEF Advanced, SameBranch
<1>7. taken \in BOOLEAN /\ current \in Nat
  BY <1>1, ScopesTyped DEF Frame
<1> HIDE DEF opening, yes, no, taken, wrote, ev
<1>8. Enters(f, "then", current, yes, no, taken)
  BY <1>3, <1>7, NewBranch DEF Kinds
<1> HIDE DEF f
<1>9. f \in Frame /\ f.kind # "case" /\ f.prev = current /\ yes \subseteq f.yes \cup f.no
  BY <1>8 DEF Enters
<1>10. /\ base \in Seq(Frame) /\ Len(base) = n
       /\ \A d \in 1..n : base[d] = IF d = n THEN opening ELSE stack[d]
  BY <1>1, <1>6, ExceptSeq DEF TypedWalk, TypeOK
<1> HIDE DEF base
<1>11. /\ Len(stack') = n + 1 /\ stack'[n + 1] = f /\ \A d \in 1..n : stack'[d] = base[d]
  <2> HIDE DEF n
  <2> QED
    BY <1>1, <1>4, <1>9, <1>10
<1> HIDE DEF n
<1>12. \A d \in 1..n : SameBranch(x.st[d], w.st[d])
  BY <1>1, <1>6, <1>10, <1>11 DEF SameBranch
<1>13. Opens(w, x, n, ev, yes)
  <2>1. \/ ev = w.ev
        \/ \E e \in Entry : ev = Append(w.ev, e) /\ e.scope = w.cu /\ Planted(e) = {}
    BY <1>1, <1>5 DEF ev
  <2> QED
    BY <1>1, <1>4, <1>9, <1>11, <1>12, <2>1 DEF Opens
<1>14. x.st[n + 1].kind # "case"
  BY <1>1, <1>9, <1>11
<1> QED
  BY <1>1, <1>3, <1>5, <1>13, <1>14, OpensStep

-----------------------------------------------------------------------------
(* The end of a branch.                                                    *)

\* The frames that enclose the branch are as they were.
LEMMA PoppedBranches ==
  ASSUME TypedWalk, TypedWalk', NEW w, NEW x, Views(w, x), NEW n, n = Len(stack),
         Top.kind # "func"
  PROVE  /\ n \in Nat /\ n >= 2 /\ n - 1 \in Nat /\ (n - 1) + 1 = n
         /\ Popped \in Seq(Frame) /\ Len(Popped) = n - 1
         /\ \A d \in 1..n - 1 : SameBranch(Popped[d], w.st[d])
<1>1. w \in Walk /\ Shows(w) /\ Consistent(w)
  BY DEF Views
<1>2. /\ n \in Nat /\ n >= 2 /\ n - 1 \in Nat /\ (n - 1) + 1 = n
      /\ Popped \in Seq(Frame) /\ Len(Popped) = n - 1
      /\ \A d \in 1..n - 2 : Popped[d] = w.st[d]
      /\ Rejoins(w.st[n - 1], Popped[n - 1], w.here[n - 1])
  BY <1>1, PoppedShape
<1>3. \A d \in 1..n - 1 : d \in 1..n - 2 \/ d = n - 1
  BY <1>2
<1>4. SameBranch(Popped[n - 1], w.st[n - 1])
  BY <1>2 DEF Rejoins
<1>5. \A d \in 1..n - 1 : SameBranch(Popped[d], w.st[d])
  BY <1>2, <1>3, <1>4 DEF SameBranch
<1> QED
  BY <1>2, <1>5

LEMMA CloseStep ==
  ASSUME TypedWalk, TypedWalk', Plain, NEW w, NEW x, Views(w, x), Top.kind # "func",
         NEW F \in SUBSET DatedFact, F \subseteq Top.yes \cup Top.no, Close(F)
  PROVE  Mirrored
<1> DEFINE n == Len(stack)
<1>1. n = Len(stack)
  OBVIOUS
<1> HIDE DEF n
<1>2. /\ n = Len(w.st) /\ w.st[n] = Top
      /\ w.ev = events /\ w.pa = path
      /\ x.ev = events' /\ x.pa = path' /\ x.cu = current' /\ x.st = stack'
  BY <1>1, Viewed
<1>3. /\ n >= 2 /\ Len(Popped) = n - 1
      /\ \A d \in 1..n - 1 : SameBranch(Popped[d], w.st[d])
  BY <1>1, PoppedBranches
<1>4. /\ stack' = Popped /\ current' = Top.prev /\ path' = path
      /\ events' = Append(events, Source(F, Top.prev))
  BY DEF Close
<1>5. Closes(w, x, n, F)
  BY <1>2, <1>3, <1>4 DEF Closes
<1> QED
  BY <1>1, <1>5, ClosesStep

LEMMA EndStep ==
  ASSUME TypedWalk, TypedWalk', Plain, NEW w, NEW x, Views(w, x),
         EndThen \/ EndElse \/ EndBody
  PROVE  Mirrored
<1>1. Top.kind # "func"
  BY DEF EndThen, EndElse, EndBody
<1>2. \E F \in SUBSET (Top.yes \cup Top.no) : Close(F)
  <2>1. (IF Top.escapes THEN Top.no ELSE {}) \in SUBSET (Top.yes \cup Top.no)
    OBVIOUS
  <2>2. Surviving \in SUBSET (Top.yes \cup Top.no)
    BY DEF Surviving
  <2>3. {} \in SUBSET (Top.yes \cup Top.no)
    OBVIOUS
  <2> QED
    BY <2>1, <2>2, <2>3 DEF EndThen, EndElse, EndBody
<1>3. SUBSET (Top.yes \cup Top.no) \subseteq SUBSET DatedFact
  BY BranchFacts
<1> QED
  BY <1>1, <1>2, <1>3, CloseStep

\* The frame f of the next branch of the statement, above the others.
LEMMA PoppedTurns ==
  ASSUME TypedWalk, TypedWalk', NEW w, NEW x, Views(w, x), NEW n, n = Len(stack),
         Top.kind # "func", NEW f \in Frame, f.prev = Top.prev,
         f.yes = Top.yes, f.no = Top.no
  PROVE  LET s == Append(Popped, f)
         IN  /\ s \in Seq(Frame) /\ Len(s) = n /\ s[n] = f
             /\ \A d \in 1..n - 1 : SameBranch(s[d], w.st[d])
<1>1. /\ n \in Nat /\ n - 1 \in Nat /\ (n - 1) + 1 = n
      /\ Popped \in Seq(Frame) /\ Len(Popped) = n - 1
      /\ \A d \in 1..n - 1 : SameBranch(Popped[d], w.st[d])
  BY PoppedBranches
<1> DEFINE s == Append(Popped, f)
<1>2. /\ s \in Seq(Frame) /\ Len(s) = n /\ s[n] = f
      /\ \A d \in 1..n - 1 : s[d] = Popped[d]
  BY <1>1
<1> HIDE DEF s
<1>3. \A d \in 1..n - 1 : SameBranch(s[d], w.st[d])
  BY <1>1, <1>2 DEF SameBranch
<1> QED
  BY <1>2, <1>3 DEF s

LEMMA SiblingStep ==
  ASSUME TypedWalk, TypedWalk', Plain, NEW w, NEW x, Views(w, x), Top.kind # "func",
         NEW f \in Frame, f.prev = Top.prev, f.yes = Top.yes, f.no = Top.no,
         f.kind = "case" => Top.kind = "case",
         NEW F \in SUBSET DatedFact, F \subseteq Top.yes \cup Top.no,
         Open(Top.prev, F), stack' = Append(Popped, f)
  PROVE  Mirrored
<1> DEFINE n == Len(stack)
<1>1. n = Len(stack)
  OBVIOUS
<1> HIDE DEF n
<1>2. /\ n = Len(w.st) /\ w.st[n] = Top
      /\ w.ev = events /\ w.pa = path
      /\ x.ev = events' /\ x.pa = path' /\ x.cu = current' /\ x.st = stack'
  BY <1>1, Viewed
<1>3. /\ Len(x.st) = n /\ x.st[n] = f /\ \A d \in 1..n - 1 : SameBranch(x.st[d], w.st[d])
  BY <1>1, <1>2, PoppedTurns
<1>4. n \in Nat /\ n >= 2
  BY <1>1, PoppedBranches
<1>5. x.cu = Len(w.pa) + 1 /\ Beginning(w, x, n, F)
  BY <1>2 DEF Open, Opened, NextScope, Beginning
<1>6. Turns(w, x, n, F)
  <2>1. ScopeAt(x, n) = Len(w.pa) + 1
    BY <1>3, <1>5 DEF ScopeAt
  <2>2. n <= Len(x.st)
    BY <1>3, <1>4
  <2> QED
    BY <1>2, <1>3, <1>4, <2>1, <2>2 DEF Turns
<1> QED
  BY <1>1, <1>2, <1>3, <1>5, <1>6, TurnsStep

LEMMA ElseStep ==
  ASSUME TypedWalk, TypedWalk', Plain, NEW w, NEW x, Views(w, x), Else
  PROVE  Mirrored
<1> DEFINE f == Sibling("else")
<1>1. /\ Top.kind # "func" /\ Open(Top.prev, Top.no) /\ stack' = Append(Popped, f)
  BY DEF Else
<1>2. /\ f \in Frame /\ f.kind = "else" /\ f.prev = Top.prev
      /\ f.yes = Top.yes /\ f.no = Top.no
  BY <1>1, SiblingFields DEF Kinds
<1> HIDE DEF f
<1>3. Top.no \in SUBSET DatedFact /\ Top.no \subseteq Top.yes \cup Top.no
  BY BranchFacts
<1> QED
  BY <1>1, <1>2, <1>3, SiblingStep

LEMMA NextCaseStep ==
  ASSUME TypedWalk, TypedWalk', Plain, NEW w, NEW x, Views(w, x), NextCase
  PROVE  Mirrored
<1> DEFINE bare == NewFrame("case", Top.prev, {}, {})
           next == [bare EXCEPT !.before = Top.before \/ Top.taken]
<1>1. PICK taken \in BOOLEAN : stack' = Append(Popped, Branch(next, taken))
  BY DEF NextCase
<1> DEFINE f == Branch(next, taken)
<1>2. /\ Top.kind = "case" /\ Open(Top.prev, {}) /\ stack' = Append(Popped, f)
      /\ {} \in SUBSET DatedFact
  BY <1>1 DEF NextCase
<1>3. bare \in Frame
  BY NewFrameType, NestedTop, ScopesTyped DEF Kinds
<1>4. bare.prev = Top.prev /\ bare.yes = {} /\ bare.no = {}
  BY DEF NewFrame
<1> HIDE DEF bare
<1>5. next \in Frame /\ next.prev = Top.prev /\ next.yes = {} /\ next.no = {}
  <2>1. (Top.before \/ Top.taken) \in BOOLEAN
    OBVIOUS
  <2> QED
    BY <1>3, <1>4, <2>1 DEF Frame
<1> HIDE DEF next
<1>6. f \in Frame /\ f.prev = Top.prev /\ f.yes = {} /\ f.no = {}
  BY <1>5 DEF Branch, Frame
<1>7. Top.yes = {} /\ Top.no = {}
  <2>1. Len(stack) \in 1..Len(stack)
    BY NestedTop
  <2> QED
    BY <1>2, <2>1 DEF Plain, Top
<1> HIDE DEF f
<1> QED
  BY <1>2, <1>6, <1>7, SiblingStep

LEMMA ElseIfStep ==
  ASSUME TypedWalk, TypedWalk', Plain, NEW w, NEW x, Views(w, x), NEW g \in Guards,
         ElseIf(g)
  PROVE  Mirrored
<1> DEFINE n   == Len(stack)
           yes == Dated(g.yes, clock)
           no  == Dated(g.no, clock)
           s   == Append(Popped, Sibling("elseif"))
<1>1. PICK taken \in BOOLEAN :
        stack' = Append(s, Branch(NewFrame("then", NextScope, yes, no), taken))
  BY DEF ElseIf
<1> DEFINE f == Branch(NewFrame("then", NextScope, yes, no), taken)
<1>2. /\ Top.kind # "func" /\ n = Len(stack) /\ stack' = Append(s, f)
      /\ path' = Append(Append(path, path[Top.prev] \cup {Len(path) + 1}),
                        path[Top.prev] \cup {Len(path) + 1, Len(path) + 1 + 1})
      /\ current' = Len(path) + 1 + 1
      /\ events' = Append(Append(events, Source(Top.no, Len(path) + 1)),
                          Source(yes, Len(path) + 1 + 1))
  BY <1>1 DEF ElseIf, Opened, NextScope
<1>3. yes \in SUBSET DatedFact /\ no \in SUBSET DatedFact /\ NextScope \in Nat
      /\ NextScope = Len(path) + 1
  BY ClockTyped, GuardType, DatedType, ScopesTyped DEF NextScope
<1> HIDE DEF yes, no
<1>4. Enters(f, "then", NextScope, yes, no, taken)
  BY <1>3, NewBranch DEF Kinds
<1> HIDE DEF f
<1>5. /\ f \in Frame /\ f.kind # "case" /\ f.prev = Len(path) + 1
      /\ yes \subseteq f.yes \cup f.no
  BY <1>3, <1>4 DEF Enters
<1> DEFINE b == Sibling("elseif")
<1>6. /\ b \in Frame /\ b.kind # "case" /\ b.prev = Top.prev
      /\ b.yes = Top.yes /\ b.no = Top.no
  BY <1>2, SiblingFields DEF Kinds
<1> HIDE DEF b, n
<1>7. /\ s \in Seq(Frame) /\ Len(s) = n /\ s[n] = b
      /\ \A d \in 1..n - 1 : SameBranch(s[d], w.st[d])
  BY <1>2, <1>6, PoppedTurns DEF b
<1>8. /\ n \in Nat /\ n >= 2 /\ n \in 1..n /\ \A d \in 1..n - 1 : d \in 1..n
  <2>1. n \in Nat /\ n >= 2
    BY <1>2, PoppedBranches
  <2> QED
    BY <2>1
<1>9. /\ n = Len(w.st) /\ w.st[n] = Top
      /\ w.ev = events /\ w.pa = path
      /\ x.ev = events' /\ x.pa = path' /\ x.cu = current' /\ x.st = stack'
  BY <1>2, Viewed
<1> HIDE DEF s
<1>10. /\ Len(x.st) = n + 1 /\ x.st[n + 1] = f /\ \A d \in 1..n : x.st[d] = s[d]
  BY <1>2, <1>5, <1>7, <1>8, <1>9
<1>11. x.st[n] = b /\ \A d \in 1..n - 1 : SameBranch(x.st[d], w.st[d])
  BY <1>7, <1>8, <1>10 DEF SameBranch
<1>12. Top.no \in SUBSET DatedFact /\ Top.no \subseteq Top.yes \cup Top.no
  BY BranchFacts
<1>13. Turns(w, x, n, Top.no)
  <2>1. n # n + 1 /\ n <= n + 1
    BY <1>8
  <2>2. ScopeAt(x, n) = Len(w.pa) + 1
    BY <1>5, <1>9, <1>10, <2>1 DEF ScopeAt
  <2> QED
    BY <1>6, <1>8, <1>9, <1>10, <1>11, <1>12, <2>1, <2>2 DEF Turns
<1>14. Nesting(w, x, n, Top.no, yes)
  BY <1>2, <1>5, <1>9, <1>10 DEF Nesting
<1> QED
  BY <1>2, <1>3, <1>5, <1>6, <1>10, <1>11, <1>12, <1>13, <1>14, NestsStep

-----------------------------------------------------------------------------
(* The refinement.                                                         *)

LEMMA SimpleMirrored ==
  ASSUME TypedWalk, TypedWalk', Plain, NEW w, NEW x, Views(w, x), Simple
  PROVE  Mirrored
<1>1. CASE \E k \in Subject, c \in Claim : Call(k, c) \/ Must(k, c)
  BY <1>1, MustStep, EscapeStep DEF Call
<1>2. CASE \E C \in SomeClaims, c \in Claim : CallNested(C, c)
  BY <1>2, CallNestedStep DEF SomeClaims
<1>3. CASE \E l \in Subject, mode \in Modes :
             \/ AssignValue(mode, l)
             \/ \E C \in SomeClaims : AssignCall(mode, l, C)
             \/ \E k \in Subject, c \in Claim : AssignMust(mode, l, k, c)
  BY <1>3, AssignStep DEF SomeClaims
<1>4. CASE \E v, u \in Var, mode \in Modes, C \in SomeClaims : AssignTwo(mode, v, u, C)
  BY <1>4, AssignTwoStep DEF SomeClaims
<1>5. CASE \E v \in Var : IncDec(v) \/ AddrEscape(v) \/ Silent(v)
  BY <1>5, VariableStep DEF IncDec, AddrEscape
<1>6. CASE \E v \in Var, C \in SUBSET Claim : Decl(v, C)
  BY <1>6, VariableStep
<1>7. CASE ReturnOther \/ Panic \/ \E v \in Var : Return(v)
  BY <1>7, EscapeStep DEF ReturnOther, Panic, Return, Leave
<1> QED
  BY <1>1, <1>2, <1>3, <1>4, <1>5, <1>6, <1>7 DEF Simple

LEMMA CompoundMirrored ==
  ASSUME TypedWalk, TypedWalk', Plain, NEW w, NEW x, Views(w, x), Compound
  PROVE  Mirrored
<1>1. CASE \E g \in Guards : If(g) \/ ElseIf(g)
  BY <1>1, IfStep, ElseIfStep
<1>2. CASE \E V \in {{}} \cup {{l} : l \in Subject}, k \in Subject, c \in Claim,
              mode \in Modes, op \in {"==", "!="} : ProveThatIf(mode, V, k, c, op)
  BY <1>2, ProveThatIfStep
<1>3. CASE Else \/ EndThen \/ EndElse \/ Block \/ Switch \/ NextCase \/ EndBody
  BY <1>3, ElseStep, EndStep, BodyStep, NextCaseStep
<1>4. CASE \E W, D \in SUBSET Var : Loop(W, D)
  BY <1>4, LoopStep
<1> QED
  BY <1>1, <1>2, <1>3, <1>4 DEF Compound

LEMMA InitMirrored == Init => CR!Init /\ Plain
<1> SUFFICES ASSUME Init PROVE CR!Init /\ Plain
  OBVIOUS
<1> DEFINE f == [NewFrame("func", 1, {}, {}) EXCEPT !.declared = Params]
<1>1. stack = <<f>> /\ f.kind = "func"
  BY DEF Init, NewFrame
<1> HIDE DEF f
<1>2. Len(stack) = 1 /\ stack[1] = f /\ 1..Len(stack) = {1} /\ 1..Len(stack) - 1 = {}
  BY <1>1
<1>3. Saved = <<>>
  BY <1>2 DEF Saved
<1>4. FoundFrom(current) \in SUBSET (Claim \X Key)
  BY DEF FoundFrom
<1>5. Plain
  BY <1>1, <1>2 DEF Plain
<1> QED
  BY <1>3, <1>4, <1>5 DEF CR!Init

LEMMA NextMirrored ==
  TypedWalk /\ FactsInv /\ (TypedWalk /\ FactsInv)' /\ Plain /\ [Next]_vars =>
    [CR!Next]_<<FoundFrom(current), Saved>> /\ Plain'
<1> SUFFICES ASSUME TypedWalk, FactsInv, TypedWalk', FactsInv', Plain, [Next]_vars
             PROVE  [CR!Next]_<<FoundFrom(current), Saved>> /\ Plain'
  OBVIOUS
<1>1. PICK w \in Walk : Shows(w) /\ Consistent(w)
  BY DEF FactsInv
<1>2. PICK x \in Walk : Shows(x)'
  BY DEF FactsInv, Shows
<1>3. Views(w, x)
  BY <1>1, <1>2 DEF Views
<1>4. CASE Next
  <2>1. Mirrored
    BY <1>3, <1>4, SimpleMirrored, CompoundMirrored DEF Next
  <2> QED
    BY <2>1 DEF Mirrored
<1>5. CASE UNCHANGED vars
  <2>1. UNCHANGED <<events, path, current, stack>>
    BY <1>5 DEF vars, stream
  <2>2. UNCHANGED <<FoundFrom(current), Saved>>
    BY <2>1 DEF FoundFrom, Saved, HasFact, Sources, Visible, IsAncestorOrSelf, Unbarred,
                Bars, BranchScope
  <2> QED
    BY <2>1, <2>2 DEF Plain
<1> QED
  BY <1>4, <1>5

\* Whatever the function, each step of the event-stream walk is one of the walk
\* that cloned and restored a set of facts, or leaves that set and its clones
\* alone (analyzer_events.go:15-20, analyzer_resolver.go:26-27).
THEOREM CloneRestoreImplemented == Spec => ImplementsCloneRestore
<1>1. Init => CR!Init /\ Plain
  BY InitMirrored
<1>2. TypedWalk /\ FactsInv /\ (TypedWalk /\ FactsInv)' /\ Plain /\ [Next]_vars =>
        [CR!Next]_<<FoundFrom(current), Saved>> /\ Plain'
  BY NextMirrored
<1>3. Spec => [](TypedWalk /\ FactsInv)
  BY FactsAgree
<1> QED
  BY <1>1, <1>2, <1>3, PTL DEF Spec, ImplementsCloneRestore, CR!Spec
=============================================================================
