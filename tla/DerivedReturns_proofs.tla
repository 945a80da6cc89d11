------------------------ MODULE DerivedReturns_proofs ------------------------
(***************************************************************************)
(* Proofs about DerivedReturns, for every program, order and cap.          *)
(***************************************************************************)
EXTENDS DerivedReturns, FiniteSetTheorems, TLAPS

USE NoneAssumption

\* A walk derives claims the package mentions.
LEMMA DerivableType ==
  ASSUME NEW k, NEW d PROVE Derivable(k, d) \in SUBSET Claim
BY DEF Derivable

\* Knowing more about the callees never derives less.
LEMMA DerivableMonotone ==
  ASSUME NEW k \in Func, NEW d, NEW e, TypeOK,
         \A g \in Func : d[g] \subseteq e[g]
  PROVE  Derivable(k, d) \subseteq Derivable(k, e)
<1>1. \A r \in body[k] : Advertised(r.callee, d) \subseteq Advertised(r.callee, e)
  <2>1. \A r \in body[k] : r.callee \in Func \cup {None}
    BY BodiesAssumption DEF TypeOK, ReturnStmt
  <2> QED BY <2>1 DEF Advertised
<1>2. \A r \in body[k] : ReturnSnapshot(r, d) \subseteq ReturnSnapshot(r, e)
  BY <1>1 DEF ReturnSnapshot, Established
<1> QED BY <1>2 DEF Derivable

-----------------------------------------------------------------------------
LEMMA Bounds ==
  /\ 1 \in 1..(Len(Decls) + 1)
  /\ 1 \in 1..Cap
  /\ \A n \in 1..(Len(Decls) + 1) : n <= Len(Decls) => n + 1 \in 1..(Len(Decls) + 1)
  /\ \A n \in 1..Cap : n < Cap => n + 1 \in 1..Cap
<1>1. Len(Decls) \in Nat
  BY DeclsAssumption
<1> QED BY <1>1, CapAssumption

LEMMA InitTyped == Init => TypeOK
BY Bounds DEF Init, TypeOK

LEMMA NextTyped == TypeOK /\ [Next]_vars => TypeOK'
<1> SUFFICES ASSUME TypeOK, [Next]_vars PROVE TypeOK'
  OBVIOUS
<1> USE Bounds DEF TypeOK
<1>1. CASE Walk
  <2>1. Derivable(Decls[pos], derived) \in SUBSET Claim
    BY DerivableType
  <2>2. derived' \in [Func -> SUBSET Claim]
    BY <1>1, <2>1 DEF Walk
  <2>3. changed' \in BOOLEAN
    BY <1>1 DEF Walk
  <2>4. pos' \in 1..(Len(Decls) + 1)
    BY <1>1 DEF Walk
  <2> QED BY <1>1, <2>2, <2>3, <2>4 DEF Walk
<1>2. CASE NextRound
  BY <1>2 DEF NextRound
<1>3. CASE Settle
  BY <1>3 DEF Settle
<1>4. CASE Discharge
  BY <1>4 DEF Discharge
<1>5. ASSUME NEW k \in Func, NEW r \in body[k], ReturnPassed(k, r) PROVE TypeOK'
  BY <1>5 DEF ReturnPassed
<1>6. ASSUME NEW k \in Func, NEW r \in body[k], NEW v \in SUBSET Pred, ReturnOwn(k, r, v)
      PROVE  TypeOK'
  BY <1>6 DEF ReturnOwn
<1>7. CASE UNCHANGED vars
  BY <1>7 DEF vars
<1> QED BY <1>1, <1>2, <1>3, <1>4, <1>5, <1>6, <1>7 DEF Next

(***************************************************************************)
(* The state of discovery and of the run is well typed: every walk records *)
(* a set of claims for a function that has an entry.                       *)
(***************************************************************************)
THEOREM TypeCorrect == Spec => []TypeOK
BY InitTyped, NextTyped, PTL DEF Spec

-----------------------------------------------------------------------------
\* A walk replaces what is derived for one function, by no less.
LEMMA WalkGrows ==
  ASSUME TypeOK, DerivedSupported, Walk
  PROVE  /\ \A g \in Func : derived[g] \subseteq derived'[g]
         /\ DerivedSupported'
<1> DEFINE k == Decls[pos]
<1>1. k \in Func
  BY DeclsAssumption DEF TypeOK, Walk
<1>2. derived' = [derived EXCEPT ![k] = Derivable(k, derived)] /\ body' = body
  BY DEF Walk
<1>3. derived'[k] = Derivable(k, derived) /\ \A g \in Func \ {k} : derived'[g] = derived[g]
  BY <1>1, <1>2 DEF TypeOK
<1>4. \A g \in Func : derived[g] \subseteq derived'[g]
  BY <1>1, <1>3 DEF DerivedSupported
<1>5. \A g \in Func : Derivable(g, derived) \subseteq Derivable(g, derived')
  BY <1>4, DerivableMonotone
<1>6. \A g \in Func : derived'[g] \subseteq Derivable(g, derived')
  BY <1>1, <1>3, <1>5 DEF DerivedSupported
<1>7. DerivedSupported' <=> \A g \in Func : derived'[g] \subseteq Derivable(g, derived')
  BY <1>2 DEF DerivedSupported, Derivable, ReturnSnapshot, Established, Advertised,
              Declared, Pins
<1> QED BY <1>4, <1>6, <1>7

LEMMA InitSupported == Init => DerivedSupported
BY DEF Init, DerivedSupported

\* Only a walk changes what is derived.
LEMMA OnlyWalksDerive ==
  ASSUME [Next]_vars PROVE body' = body /\ (Walk \/ derived' = derived)
BY DEF Next, vars, Walk, NextRound, Settle, Discharge, ReturnOwn, ReturnPassed

LEMMA NextSupported == TypeOK /\ DerivedSupported /\ [Next]_vars => DerivedSupported'
<1> SUFFICES ASSUME TypeOK, DerivedSupported, [Next]_vars PROVE DerivedSupported'
  OBVIOUS
<1>1. CASE Walk
  BY <1>1, WalkGrows
<1>2. CASE derived' = derived
  BY <1>2, OnlyWalksDerive
     DEF DerivedSupported, Derivable, ReturnSnapshot, Established, Advertised, Declared, Pins
<1> QED BY <1>1, <1>2, OnlyWalksDerive

(***************************************************************************)
(* At every moment, so wherever the loop or its cap stops, what is derived *)
(* for a function is supported by what is derived for its callees.         *)
(***************************************************************************)
THEOREM StaysSupported == Spec => []DerivedSupported
BY TypeCorrect, InitSupported, NextSupported, PTL DEF Spec

(***************************************************************************)
(* The passes only ever add postconditions, in any order of declarations   *)
(* and with any recursion among the functions.                             *)
(***************************************************************************)
THEOREM DerivedGrows == Spec => OnlyGrows
<1>1. TypeOK /\ DerivedSupported /\ [Next]_vars => [Grows]_vars
  BY WalkGrows, OnlyWalksDerive DEF Grows
<1> QED BY <1>1, TypeCorrect, StaysSupported, PTL DEF Spec, OnlyGrows

-----------------------------------------------------------------------------
(***************************************************************************)
(* The run. A pinned claim has been verified by the time the program runs; *)
(* then the value on its way up satisfies what its function advertises.    *)
(***************************************************************************)
AllVerified == phase = "run" => \A k \in Func : \A r \in body[k] : Verified(r)

LEMMA NextVerified == AllVerified /\ [Next]_vars => AllVerified'
<1> SUFFICES ASSUME AllVerified, [Next]_vars, phase' = "run"
             PROVE  \A k \in Func : \A r \in body'[k] : Verified(r)'
  BY DEF AllVerified
<1>1. CASE Discharge
  BY <1>1 DEF Discharge, Verified, Established, Advertised, Declared, Pins, Meets
<1>2. CASE ~Discharge
  <2>1. UNCHANGED <<body, derived, phase>>
    BY <1>2 DEF Next, vars, Walk, NextRound, Settle, ReturnOwn, ReturnPassed
  <2> QED BY <2>1 DEF AllVerified, Verified, Established, Advertised, Declared, Pins, Meets
<1> QED BY <1>1, <1>2

\* Claims met by claims that are true are true.
LEMMA MeetsTrue ==
  ASSUME NEW C, NEW c, NEW v, Satisfies(v, C), Meets(C, c)
  PROVE  c \cap v # {}
<1>1. CASE c \in C
  BY <1>1 DEF Satisfies
<1>2. CASE \E p \in c : {p} \in C
  <2>1. PICK p \in c : {p} \in C
    BY <1>2
  <2>2. {p} \cap v # {}
    BY <2>1 DEF Satisfies
  <2> QED BY <2>1, <2>2
<1> QED BY <1>1, <1>2 DEF Meets

\* A return gives what its function advertises, if the call it returns the
\* result of gave what it advertises.
LEMMA ReturnSound ==
  ASSUME \A b \in Bodies : Uniform(b),
         TypeOK, DerivedSupported, AllVerified, phase = "run",
         NEW k \in Func, NEW r \in body[k], NEW v,
         Examined(r, v), Satisfies(v, Advertised(r.callee, derived))
  PROVE  Satisfies(v, Advertised(k, derived))
<1> SUFFICES ASSUME NEW c \in Advertised(k, derived) PROVE c \cap v # {}
  BY DEF Satisfies
<1>1. Satisfies(v, Established(r, derived))
  BY DEF Examined, Satisfies, Established
<1>2. CASE c \in derived[k]
  <2>1. c \in ReturnSnapshot(r, derived)
    BY <1>2 DEF DerivedSupported, Derivable
  <2>2. c \in Established(r, derived)
    BY <2>1 DEF ReturnSnapshot
  <2> QED BY <1>1, <2>2 DEF Satisfies
<1>3. CASE c \in Declared(k)
  <2>1. body[k] \in Bodies
    BY DEF TypeOK
  <2>2. PICK s \in body[k] : c \in s.pins
    BY <1>3 DEF Declared, Pins
  <2>3. c \in r.pins
    BY <2>1, <2>2 DEF Uniform
  <2>4. r.shape \in {"pinned", "trusted"}
    BY <2>1, <2>3, BodiesAssumption DEF ReturnStmt
  <2>5. CASE r.shape = "pinned"
    <3>1. Meets(Established(r, derived), c)
      BY <2>3, <2>5 DEF AllVerified, Verified
    <3> QED BY <1>1, <3>1, MeetsTrue
  <2>6. CASE r.shape = "trusted"
    BY <2>3, <2>6 DEF Examined, Satisfies
  <2> QED BY <2>4, <2>5, <2>6
<1> QED BY <1>2, <1>3 DEF Advertised

RunInv ==
  /\ AllVerified
  /\ phase # "run" => unwound = None
  /\ AdvertisedHold

LEMMA NextRun ==
  ASSUME \A b \in Bodies : Uniform(b)
  PROVE  TypeOK /\ DerivedSupported /\ RunInv /\ [Next]_vars => RunInv'
<1> SUFFICES ASSUME TypeOK, DerivedSupported, RunInv, [Next]_vars PROVE RunInv'
  OBVIOUS
<1>1. AllVerified'
  BY NextVerified DEF RunInv
<1>2. (phase # "run" => unwound = None)'
  BY DEF RunInv, Next, vars, Walk, NextRound, Settle, Discharge, ReturnOwn, ReturnPassed
<1>3. AdvertisedHold'
  <2>1. ASSUME NEW k \in Func, NEW r \in body[k], ReturnPassed(k, r) PROVE AdvertisedHold'
    <3>1. phase = "run" /\ unwound = r.callee /\ unwound # None /\ Examined(r, value)
      BY <2>1 DEF ReturnPassed
    <3>2. Satisfies(value, Advertised(r.callee, derived))
      BY <3>1 DEF RunInv, AdvertisedHold
    <3>3. Satisfies(value, Advertised(k, derived))
      BY <3>1, <3>2, ReturnSound DEF RunInv
    <3>4. UNCHANGED <<body, derived, value>> /\ unwound' = k
      BY <2>1 DEF ReturnPassed
    <3> QED BY <3>3, <3>4 DEF AdvertisedHold, Advertised, Declared, Pins, Satisfies
  <2>2. ASSUME NEW k \in Func, NEW r \in body[k], NEW v \in SUBSET Pred, ReturnOwn(k, r, v)
        PROVE  AdvertisedHold'
    <3>1. phase = "run" /\ r.callee = None /\ Examined(r, v)
      BY <2>2 DEF ReturnOwn
    <3>2. Satisfies(v, Advertised(r.callee, derived))
      BY <3>1 DEF Advertised, Satisfies
    <3>3. Satisfies(v, Advertised(k, derived))
      BY <3>1, <3>2, ReturnSound DEF RunInv
    <3>4. UNCHANGED <<body, derived>> /\ unwound' = k /\ value' = v
      BY <2>2 DEF ReturnOwn
    <3> QED BY <3>3, <3>4 DEF AdvertisedHold, Advertised, Declared, Pins, Satisfies
  <2>3. CASE Walk \/ NextRound \/ Settle \/ Discharge
    <3>1. unwound' = None
      BY <2>3 DEF RunInv, Walk, NextRound, Settle, Discharge
    <3> QED BY <3>1 DEF AdvertisedHold
  <2>4. CASE UNCHANGED vars
    BY <2>4 DEF vars, RunInv, AdvertisedHold, Advertised, Declared, Pins, Satisfies
  <2> QED BY <2>1, <2>2, <2>3, <2>4 DEF Next
<1> QED BY <1>1, <1>2, <1>3 DEF RunInv

LEMMA InitRun == Init => RunInv
BY DEF Init, RunInv, AllVerified, AdvertisedHold

(***************************************************************************)
(* A package whose functions pin the same claims at all their returns, or  *)
(* none, advertises only what is true of every value returned: for every   *)
(* such program, with any recursion and any cap on the passes.             *)
(***************************************************************************)
THEOREM AdvertisedSound ==
  ASSUME \A b \in Bodies : Uniform(b)
  PROVE  Spec => []AdvertisedHold
<1>1. TypeOK /\ DerivedSupported /\ RunInv /\ [Next]_vars => RunInv'
  BY NextRun
<1>2. RunInv => AdvertisedHold
  BY DEF RunInv
<1> QED BY <1>1, <1>2, InitRun, TypeCorrect, StaysSupported, PTL DEF Spec

-----------------------------------------------------------------------------
(***************************************************************************)
(* Termination of the passes. The least solution: what is derived is in    *)
(* every solution, and as long as a round has changed nothing, each of its *)
(* walks has left a function with what its body now supports.              *)
(***************************************************************************)
Least == \A d \in Solutions : \A k \in Func : derived[k] \subseteq d[k]

Stable ==
  phase \in {"discovery", "discharge"} /\ ~changed =>
    \A i \in 1..(pos - 1) : Derivable(Decls[i], derived) = derived[Decls[i]]

WalkedAll == phase = "discharge" => pos > Len(Decls)

\* The pairs that discovery has found; a round that changed something found one.
Found   == {x \in Func \X Claim : x[2] \in derived[x[1]]}
Rounds  == round + (IF changed THEN 1 ELSE 0) <= Cardinality(Found) + 1

LEMMA InitLeast == Init => Least /\ Stable /\ WalkedAll
BY DEF Init, Least, Stable, WalkedAll

\* Solutions are the program's, whatever is derived.
LEMMA SameSolutions == body' = body => Solutions' = Solutions
BY DEF Solutions, Derivable, ReturnSnapshot, Established, Advertised, Declared, Pins

LEMMA NextLeast == TypeOK /\ Least /\ [Next]_vars => Least'
<1> SUFFICES ASSUME TypeOK, Least, [Next]_vars, NEW d \in Solutions, NEW k \in Func
             PROVE  derived'[k] \subseteq d[k]
  BY SameSolutions, OnlyWalksDerive DEF Least
<1>1. derived[k] \subseteq d[k]
  BY DEF Least
<1>2. CASE Walk
  <2> DEFINE g == Decls[pos]
  <2>1. g \in Func /\ derived' = [derived EXCEPT ![g] = Derivable(g, derived)]
    BY <1>2, DeclsAssumption DEF TypeOK, Walk
  <2>2. Derivable(g, derived) \subseteq Derivable(g, d)
    BY <2>1, DerivableMonotone DEF Least
  <2>3. Derivable(g, d) \subseteq d[g]
    BY <2>1 DEF Solutions
  <2> HIDE DEF g
  <2> QED BY <1>1, <2>1, <2>2, <2>3 DEF TypeOK
<1> QED BY <1>1, <1>2, OnlyWalksDerive

\* What a walk derives depends on the program and what is derived.
LEMMA SameDerivable ==
  ASSUME UNCHANGED <<body, derived>>, NEW k
  PROVE  Derivable(k, derived)' = Derivable(k, derived)
<1>1. \A g : Advertised(g, derived)' = Advertised(g, derived)
  BY DEF Advertised, Declared, Pins
<1>2. \A r : Established(r, derived)' = Established(r, derived)
  BY <1>1, Zenon DEF Established
<1>3. \A r : ReturnSnapshot(r, derived)' = ReturnSnapshot(r, derived)
  BY <1>2, Zenon DEF ReturnSnapshot
<1> QED BY <1>3 DEF Derivable

LEMMA NextStable == TypeOK /\ Stable /\ WalkedAll /\ [Next]_vars => Stable' /\ WalkedAll'
<1> SUFFICES ASSUME TypeOK, Stable, WalkedAll, [Next]_vars PROVE Stable' /\ WalkedAll'
  OBVIOUS
<1>1. Len(Decls) \in Nat /\ pos \in 1..(Len(Decls) + 1)
  BY DeclsAssumption DEF TypeOK
<1>2. CASE Walk
  <2> DEFINE g == Decls[pos]
  <2>1. /\ g \in Func /\ derived' = [derived EXCEPT ![g] = Derivable(g, derived)]
        /\ changed' = (changed \/ derived'[g] # derived[g])
        /\ pos' = pos + 1 /\ body' = body /\ phase' = "discovery" /\ phase = "discovery"
    BY <1>2, DeclsAssumption DEF TypeOK, Walk
  <2>2. ASSUME ~changed', NEW i \in 1..(pos' - 1)
        PROVE  Derivable(Decls[i], derived)' = derived'[Decls[i]]
    <3>1. ~changed /\ derived'[g] = derived[g] /\ derived'[g] = Derivable(g, derived)
      BY <2>1, <2>2 DEF TypeOK
    <3>2. derived' = derived
      BY <2>1, <3>1 DEF TypeOK
    <3>3. Derivable(Decls[i], derived)' = Derivable(Decls[i], derived)
      BY <2>1, <3>2, SameDerivable
    <3>4. i \in 1..(pos - 1) \/ i = pos
      BY <1>1, <2>1
    <3>5. CASE i = pos
      BY <3>1, <3>2, <3>3, <3>5
    <3>6. CASE i \in 1..(pos - 1)
      BY <2>1, <3>1, <3>2, <3>3, <3>6 DEF Stable
    <3> QED BY <3>4, <3>5, <3>6
  <2> QED BY <2>1, <2>2 DEF Stable, WalkedAll
<1>3. CASE NextRound
  <2>1. pos' = 1 /\ phase' = "discovery"
    BY <1>3 DEF NextRound
  <2> QED BY <2>1 DEF Stable, WalkedAll
<1>4. CASE ~Walk /\ ~NextRound
  <2>1. /\ UNCHANGED <<body, derived, pos, changed>>
        /\ phase' \in {"discovery", "discharge"} =>
             phase \in {"discovery", "discharge"} /\ (phase' = "discharge" => WalkedAll')
    BY <1>4 DEF Next, vars, Settle, Discharge, ReturnOwn, ReturnPassed, WalkedAll
  <2>2. \A k : Derivable(k, derived)' = Derivable(k, derived)
    BY <2>1, SameDerivable
  <2> QED BY <2>1, <2>2 DEF Stable, WalkedAll
<1> QED BY <1>2, <1>3, <1>4

(***************************************************************************)
(* In any order of declarations, when a round has changed nothing, what is *)
(* derived is the least solution of the package: recursion neither lends a *)
(* function a postcondition nor costs it one the bodies establish.         *)
(***************************************************************************)
THEOREM SettlesOnLeastSolution == Spec => []SettlesOnLeast
<1>1. TypeOK /\ Least /\ Stable /\ WalkedAll => SettlesOnLeast
  <2> SUFFICES ASSUME TypeOK, Least, Stable, WalkedAll, phase = "discharge", ~changed
               PROVE  derived \in Solutions
    BY DEF SettlesOnLeast, Least
  <2>1. ASSUME NEW k \in Func PROVE Derivable(k, derived) \subseteq derived[k]
    <3>1. PICK i \in DOMAIN Decls : Decls[i] = k
      BY DeclsAssumption
    <3>2. Len(Decls) \in Nat /\ DOMAIN Decls = 1..Len(Decls) /\ pos > Len(Decls) /\ pos \in Nat
      BY DeclsAssumption DEF WalkedAll, TypeOK
    <3>3. i \in 1..(pos - 1)
      BY <3>1, <3>2
    <3> QED BY <3>1, <3>3 DEF Stable
  <2>2. derived \in [Func -> SUBSET Claim]
    BY DEF TypeOK
  <2> QED BY <2>1, <2>2 DEF Solutions
<1>2. TypeOK /\ Least /\ [Next]_vars => Least'
  BY NextLeast
<1>3. TypeOK /\ Stable /\ WalkedAll /\ [Next]_vars => Stable' /\ WalkedAll'
  BY NextStable
<1> QED BY <1>1, <1>2, <1>3, InitLeast, TypeCorrect, PTL DEF Spec

\* There are finitely many pairs to find, and finding more counts.
LEMMA FoundCounts ==
  /\ IsFiniteSet(Found) /\ Cardinality(Found) \in Nat
  /\ Cardinality(Found) <= Cardinality(Func) * Cardinality(Claim)
<1>1. IsFiniteSet(Func \X Claim) /\ Cardinality(Func \X Claim) = Cardinality(Func) * Cardinality(Claim)
  BY FiniteAssumption, FS_Product
<1>2. Found \in SUBSET (Func \X Claim)
  BY DEF Found
<1>3. IsFiniteSet(Found) /\ Cardinality(Found) <= Cardinality(Func \X Claim)
  BY <1>1, <1>2, FS_Subset
<1> QED BY <1>1, <1>3, FS_CardinalityType

LEMMA FoundGrows ==
  ASSUME TypeOK, \A k \in Func : derived[k] \subseteq derived'[k],
         NEW g \in Func, derived'[g] # derived[g], derived'[g] \subseteq Claim
  PROVE  Cardinality(Found) + 1 <= Cardinality(Found')
<1>1. IsFiniteSet(Found') /\ Cardinality(Found') \in Nat
  <2>1. IsFiniteSet(Func \X Claim)
    BY FiniteAssumption, FS_Product
  <2>2. Found' \in SUBSET (Func \X Claim)
    BY DEF Found
  <2> QED BY <2>1, <2>2, FS_Subset, FS_CardinalityType
<1>2. Found \in SUBSET Found'
  BY DEF Found
<1>3. Found # Found'
  <2>1. PICK c \in derived'[g] : c \notin derived[g]
    BY DEF TypeOK
  <2>2. <<g, c>> \in Found' /\ <<g, c>> \notin Found
    BY <2>1 DEF Found
  <2> QED BY <2>2
<1>4. Cardinality(Found) \in Nat
  BY FoundCounts
<1>5. Cardinality(Found) <= Cardinality(Found') /\ Cardinality(Found') # Cardinality(Found)
  BY <1>1, <1>2, <1>3, FS_Subset
<1> QED BY <1>1, <1>4, <1>5

LEMMA InitRounds == Init => Rounds
<1>1. Cardinality(Found) \in Nat
  BY FoundCounts
<1> QED BY <1>1 DEF Init, Rounds

LEMMA NextRounds == TypeOK /\ DerivedSupported /\ Rounds /\ [Next]_vars => Rounds'
<1> SUFFICES ASSUME TypeOK, DerivedSupported, Rounds, [Next]_vars PROVE Rounds'
  OBVIOUS
<1>1. round \in Nat /\ changed \in BOOLEAN /\ Cardinality(Found) \in Nat
  BY FoundCounts, CapAssumption DEF TypeOK
<1>2. CASE Walk
  <2> DEFINE g == Decls[pos]
  <2>1. /\ g \in Func /\ derived' = [derived EXCEPT ![g] = Derivable(g, derived)]
        /\ changed' = (changed \/ derived'[g] # derived[g]) /\ round' = round
    BY <1>2, DeclsAssumption DEF TypeOK, Walk
  <2>2. \A k \in Func : derived[k] \subseteq derived'[k]
    BY <1>2, WalkGrows
  <2>3. CASE derived'[g] = derived[g]
    <3>1. derived' = derived /\ changed' = changed
      BY <2>1, <2>3 DEF TypeOK
    <3>2. Found' = Found
      BY <3>1 DEF Found
    <3> QED BY <2>1, <3>1, <3>2 DEF Rounds
  <2>4. CASE derived'[g] # derived[g]
    <3>1. derived'[g] \subseteq Claim
      BY <2>1, DerivableType DEF TypeOK
    <3>2. Cardinality(Found) + 1 <= Cardinality(Found')
      BY <2>1, <2>2, <2>4, <3>1, FoundGrows
    <3>3. changed'
      BY <2>1, <2>4
    <3>4. round <= Cardinality(Found) + 1
      BY <1>1 DEF Rounds
    <3>5. Cardinality(Found)' \in Nat
      BY FiniteAssumption, FS_Product, FS_Subset, FS_CardinalityType DEF Found
    <3> QED BY <1>1, <2>1, <3>2, <3>3, <3>4, <3>5 DEF Rounds
  <2> QED BY <2>3, <2>4
<1>3. CASE NextRound
  <2>1. changed /\ changed' = FALSE /\ round' = round + 1 /\ derived' = derived
    BY <1>3 DEF NextRound
  <2>2. Found' = Found
    BY <2>1 DEF Found
  <2> QED BY <1>1, <2>1, <2>2 DEF Rounds
<1>4. CASE ~Walk /\ ~NextRound
  <2>1. UNCHANGED <<derived, round, changed>>
    BY <1>4 DEF Next, vars, Settle, Discharge, ReturnOwn, ReturnPassed
  <2>2. Found' = Found
    BY <2>1 DEF Found
  <2> QED BY <2>1, <2>2 DEF Rounds
<1> QED BY <1>2, <1>3, <1>4

(***************************************************************************)
(* Whatever the order of declarations and the recursion, each round but    *)
(* the last finds a new pair of a function and a claim, so discovery ends  *)
(* within one round more than there are such pairs: a cap above that never *)
(* stops it.                                                               *)
(***************************************************************************)
THEOREM SettlesInTime == Spec => []SettlesBeforeCap
<1>1. TypeOK /\ Rounds => SettlesBeforeCap
  <2> SUFFICES ASSUME TypeOK, Rounds PROVE SettlesBeforeCap
    OBVIOUS
  <2>1. round \in Nat /\ changed \in BOOLEAN
    BY CapAssumption DEF TypeOK
  <2>2. round <= Cardinality(Found) + 1
    BY <2>1, FoundCounts DEF Rounds
  <2>3. Cardinality(Func) \in Nat /\ Cardinality(Claim) \in Nat
    BY FiniteAssumption, FS_CardinalityType
  <2> DEFINE m == Cardinality(Func) * Cardinality(Claim)
  <2>4. m \in Nat /\ Cardinality(Found) \in Nat /\ Cardinality(Found) <= m
    BY <2>3, FoundCounts
  <2>5. SettlesBeforeCap <=> round <= m + 1
    BY DEF SettlesBeforeCap
  <2> HIDE DEF m
  <2> QED BY <2>1, <2>2, <2>4, <2>5
<1> QED BY <1>1, InitRounds, NextRounds, TypeCorrect, StaysSupported, PTL DEF Spec
=============================================================================
