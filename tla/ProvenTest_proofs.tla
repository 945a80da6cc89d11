------------------------- MODULE ProvenTest_proofs -------------------------
(***************************************************************************)
(* Tests that keep to themselves and do not nest helpers: checks are on    *)
(* exactly while a helper runs, whatever panics, recoveries and failures   *)
(* there are, and every assertion's verdict is what the blocks did.  For   *)
(* any number of goroutines and predicates.                                *)
(***************************************************************************)
EXTENDS ProvenTest, TLAPS

OneInside == \A g, h \in Goroutine : Inside(g) /\ Inside(h) => g = h

\* The helper that g runs, if any, knows of the failure that is under way.
Aware(g) ==
  /\ Len(frames[g]) <= 1
  /\ Inside(g) => /\ mode[g] = "run" => Top(g).first = None
                  /\ mode[g] \in Pred => Top(g).first = mode[g]

IInv ==
  /\ TypeOK
  /\ ScopedFlag
  /\ OneInside
  /\ \A g \in Goroutine : Aware(g)
------------------------------------------------------------------------------
LEMMA EmptyOrOne ==
  ASSUME NEW S, NEW s \in Seq(S), Len(s) <= 1
  PROVE  \/ s = <<>> /\ Len(s) = 0
         \/ s # <<>> /\ Len(s) = 1
<1>1. Len(s) \in Nat
  OBVIOUS
<1>2. Len(<<>>) = 0
  OBVIOUS
<1>3. Len(s) = 0 => s = <<>>
  OBVIOUS
<1>4. CASE Len(s) = 0
  BY <1>3, <1>4, Zenon
<1>5. CASE Len(s) = 1
  <2>1. s # <<>>
    BY <1>2, <1>5
  <2> QED BY <1>5, <2>1, Zenon
<1>6. \A n \in Nat : n <= 1 => n = 0 \/ n = 1
  OBVIOUS
<1> QED BY <1>1, <1>4, <1>5, <1>6, Zenon

LEMMA BelowOne ==
  ASSUME NEW S, NEW s \in Seq(S), Len(s) = 1
  PROVE  SubSeq(s, 1, Len(s) - 1) = <<>>
<1>1. SubSeq(s, 1, 0) = <<>>
  OBVIOUS
<1> QED BY <1>1

LEMMA HandledFrame ==
  ASSUME NEW f \in Frame
  PROVE  [f EXCEPT !.first = None] \in Frame
  BY DEF Frame

LEMMA HandledSeq ==
  ASSUME NEW s \in Seq(Frame)
  PROVE  Handled(s) \in Seq(Frame) /\ Len(Handled(s)) = Len(s)
<1>1. DOMAIN s = 1..Len(s) /\ Len(s) \in Nat
  OBVIOUS
<1>2. \A i \in 1..Len(s) : s[i] \in Frame
  OBVIOUS
<1>3. \A i \in 1..Len(s) : [s[i] EXCEPT !.first = None] \in Frame
  BY <1>2, HandledFrame, Zenon
<1>4. Handled(s) = [i \in 1..Len(s) |-> [s[i] EXCEPT !.first = None]]
  BY <1>1, Zenon DEF Handled
<1>5. Handled(s) \in [1..Len(s) -> Frame]
  BY <1>3, <1>4, Zenon
<1> QED BY <1>1, <1>5
------------------------------------------------------------------------------
Modes == Pred \cup {Other, "run", "fatal"}

\* What a goroutine may leave behind: no helper, or one that is aware.
Left(s, m) ==
  /\ s \in Seq(Frame) /\ m \in Modes
  /\ \/ s = <<>>
     \/ /\ s # <<>> /\ Len(s) = 1
        /\ m = "run" => s[1].first = None
        /\ m \in Pred => s[1].first = m

LEMMA Held ==
  ASSUME IInv, NEW g \in Goroutine
  PROVE  /\ frames[g] \in Seq(Frame) /\ mode[g] \in Modes
         /\ Left(frames[g], mode[g])
         /\ Inside(g) => /\ Top(g) = frames[g][1] /\ Top(g) \in Frame
                         /\ Below(g) = <<>>
                         /\ \A h \in Goroutine \ {g} : ~Inside(h)
                         /\ enabled
<1>1. frames[g] \in Seq(Frame) /\ mode[g] \in Modes /\ Len(frames[g]) <= 1
  BY DEF IInv, TypeOK, Aware, Modes
<1>2. \/ frames[g] = <<>> /\ Len(frames[g]) = 0
      \/ frames[g] # <<>> /\ Len(frames[g]) = 1
  BY <1>1, EmptyOrOne, Zenon
<1>3. CASE frames[g] = <<>>
  BY <1>1, <1>3 DEF Left, Inside
<1>4. CASE frames[g] # <<>> /\ Len(frames[g]) = 1
  <2>1. Top(g) = frames[g][1]
    BY <1>4 DEF Top
  <2>2. Top(g) \in Frame
    BY <1>1, <1>4, <2>1
  <2>3. Below(g) = <<>>
    BY <1>1, <1>4, BelowOne, Zenon DEF Below
  <2>4. Inside(g)
    BY <1>4 DEF Inside
  <2>5. \A h \in Goroutine \ {g} : ~Inside(h)
    BY <2>4, Zenon DEF IInv, OneInside
  <2>6. enabled
    BY <2>4, Zenon DEF IInv, ScopedFlag
  <2>7. Left(frames[g], mode[g])
    BY <1>1, <1>4, <2>1, <2>4 DEF IInv, Aware, Left
  <2> QED BY <1>1, <2>1, <2>2, <2>3, <2>5, <2>6, <2>7, Zenon
<1> QED BY <1>2, <1>3, <1>4, Zenon

\* A step of one goroutine preserves the invariant if it leaves the goroutine
\* and the flag in agreement.
LEMMA StepOf ==
  ASSUME IInv, NEW g \in Goroutine, NEW s, NEW m, Left(s, m),
         frames' = [frames EXCEPT ![g] = s], mode' = [mode EXCEPT ![g] = m],
         verdict' \in [frame : Frame, passed : BOOLEAN] \cup {None},
         s # <<>> => enabled' = TRUE /\ \A h \in Goroutine \ {g} : ~Inside(h),
         s = <<>> => enabled' = (\E h \in Goroutine \ {g} : Inside(h))
  PROVE  IInv'
<1>1. s \in Seq(Frame) /\ m \in Modes
  BY DEF Left
<1>2. frames'[g] = s /\ mode'[g] = m
  BY DEF IInv, TypeOK
<1>3. \A h \in Goroutine \ {g} : frames'[h] = frames[h] /\ mode'[h] = mode[h]
  BY DEF IInv, TypeOK
<1>4. \A h \in Goroutine \ {g} : Inside(h)' <=> Inside(h)
  BY <1>3 DEF Inside
<1>5. Inside(g)' <=> s # <<>>
  BY <1>2 DEF Inside
<1>6. enabled' \in BOOLEAN
  BY Zenon
<1>7. TypeOK'
  <2>1. frames' \in [Goroutine -> Seq(Frame)]
    BY <1>1 DEF IInv, TypeOK
  <2>2. mode' \in [Goroutine -> Pred \cup {Other, "run", "fatal"}]
    BY <1>1 DEF IInv, TypeOK, Modes
  <2> QED BY <1>6, <2>1, <2>2, Zenon DEF TypeOK
<1>8. ScopedFlag'
  <2>1. CASE s = <<>>
    BY <2>1, <1>4, <1>5, Zenon DEF ScopedFlag
  <2>2. CASE s # <<>>
    BY <2>2, <1>5, Zenon DEF ScopedFlag
  <2> QED BY <2>1, <2>2, Zenon
<1>9. OneInside'
  <2>1. CASE s = <<>>
    BY <2>1, <1>4, <1>5, Zenon DEF OneInside, IInv
  <2>2. CASE s # <<>>
    BY <2>2, <1>4, <1>5, Zenon DEF OneInside
  <2> QED BY <2>1, <2>2, Zenon
<1>10. \A h \in Goroutine : Aware(h)'
  <2>1. TAKE h \in Goroutine
  <2>2. CASE h = g
    <3>1. CASE s = <<>>
      BY <1>2, <2>2, <3>1 DEF Aware, Inside
    <3>2. CASE s # <<>>
      <4>1. Len(s) = 1 /\ (m = "run" => s[1].first = None) /\ (m \in Pred => s[1].first = m)
        BY <3>2, Zenon DEF Left
      <4>2. Len(frames[g])' = 1 /\ Top(g)' = s[1]
        BY <1>2, <4>1 DEF Top
      <4>3. Aware(g)'
        <5>4. 1 <= 1
          OBVIOUS
        <5>1. Len(frames[g])' <= 1
          BY <4>2, <5>4, Zenon
        <5>2. (mode[g])' = "run" => Top(g)'.first = None
          BY <1>2, <4>1, <4>2, Zenon
        <5>3. (mode[g])' \in Pred => Top(g)'.first = (mode[g])'
          BY <1>2, <4>1, <4>2, Zenon
        <5> QED BY <5>1, <5>2, <5>3, Zenon DEF Aware
      <4> QED BY <2>2, <4>3, Zenon
    <3> QED BY <3>1, <3>2
  <2>3. CASE h # g
    BY <1>3, <2>3 DEF IInv, Aware, Inside, Top
  <2> QED BY <2>2, <2>3
<1> QED BY <1>7, <1>8, <1>9, <1>10, Zenon DEF IInv
------------------------------------------------------------------------------
(* Each step. *)

LEMMA EnterKeeps == ASSUME IInv, Alone, MaxDepth = 1, NEW g \in Goroutine, Enter(g) PROVE IInv'
<1>1. frames[g] = <<>>
  <2>1. Len(frames[g]) < 1 /\ frames[g] \in Seq(Frame)
    BY Held DEF Enter
  <2> QED BY <2>1
<1>2. \A h \in Goroutine \ {g} : ~Inside(h)
  BY Zenon DEF Enter, Permitted
<1>3. PICK h \in Helper, p \in Pred :
        frames' = [frames EXCEPT ![g] = Append(@, [helper |-> h, want |-> p, first |-> None])]
  BY Zenon DEF Enter
<1> DEFINE f == [helper |-> h, want |-> p, first |-> None]
<1>4. f \in Frame
  BY DEF Frame
<1>5. frames' = [frames EXCEPT ![g] = <<f>>]
  BY <1>1, <1>3
<1>6. mode[g] = "run" /\ mode' = mode /\ verdict' = verdict /\ enabled' = TRUE
  BY Zenon DEF Enter
<1>7. mode' = [mode EXCEPT ![g] = "run"]
  BY <1>6 DEF IInv, TypeOK
<1>8. Left(<<f>>, "run")
  <2>1. <<f>> # <<>> /\ Len(<<f>>) = 1 /\ <<f>>[1].first = None /\ "run" \notin Pred
    BY HelperAssumption
  <2>2. <<f>> \in Seq(Frame) /\ "run" \in Modes
    BY <1>4 DEF Modes
  <2> QED BY <2>1, <2>2, Zenon DEF Left
<1>9. <<f>> # <<>>
  OBVIOUS
<1>10. verdict' \in [frame : Frame, passed : BOOLEAN] \cup {None}
  BY <1>6 DEF IInv, TypeOK
<1> HIDE DEF f
<1> QED BY <1>2, <1>5, <1>6, <1>7, <1>8, <1>9, <1>10, StepOf, Zenon

LEMMA FailingBlockKeeps == ASSUME IInv, Alone, NEW g \in Goroutine, FailingBlock(g) PROVE IInv'
<1>1. PICK p \in Pred :
        /\ frames' = [frames EXCEPT ![g] =
             [i \in DOMAIN @ |-> IF @[i].first = None THEN [@[i] EXCEPT !.first = p] ELSE @[i]]]
        /\ mode' = [mode EXCEPT ![g] = IF enabled THEN p ELSE "run"]
  BY Zenon DEF FailingBlock
<1> DEFINE s == [i \in DOMAIN frames[g] |->
                   IF frames[g][i].first = None THEN [frames[g][i] EXCEPT !.first = p] ELSE frames[g][i]]
<1>2. frames' = [frames EXCEPT ![g] = s]
  BY <1>1
<1>3. /\ mode[g] = "run" /\ enabled' = enabled /\ verdict' = verdict
      /\ \A h \in Goroutine \ {g} : ~Inside(h)
  BY Zenon DEF FailingBlock, Permitted
<1>4. verdict' \in [frame : Frame, passed : BOOLEAN] \cup {None}
  BY <1>3 DEF IInv, TypeOK
<1>5. enabled \in BOOLEAN
  BY DEF IInv, TypeOK
<1>6. CASE ~Inside(g)
  <2>1. s = <<>>
    BY <1>6 DEF Inside
  <2>2. ~enabled
    BY <1>3, <1>6, Zenon DEF IInv, ScopedFlag
  <2>3. mode' = [mode EXCEPT ![g] = "run"]
    BY <1>1, <2>2, Zenon
  <2>4. Left(<<>>, "run")
    BY DEF Left, Modes
  <2>5. enabled' = (\E h \in Goroutine \ {g} : Inside(h))
    BY <1>3, <1>5, <2>2, Zenon
  <2>6. frames' = [frames EXCEPT ![g] = <<>>]
    BY <1>2, <2>1, Zenon
  <2> QED BY <1>4, <2>3, <2>4, <2>5, <2>6, StepOf, Zenon
<1>7. CASE Inside(g)
  <2>1. /\ frames[g] \in Seq(Frame) /\ frames[g] # <<>>
        /\ Left(frames[g], mode[g]) /\ enabled
    BY <1>7, Held, Zenon DEF Inside
  <2>2. Len(frames[g]) = 1 /\ frames[g][1].first = None
    BY <1>3, <2>1 DEF Left
  <2>3. frames[g][1] \in Frame /\ DOMAIN frames[g] = 1..1
    BY <2>1, <2>2
  <2>4. s = [i \in 1..1 |-> IF frames[g][i].first = None THEN [frames[g][i] EXCEPT !.first = p] ELSE frames[g][i]]
    BY <2>3, Zenon
  <2>5. s[1] = [frames[g][1] EXCEPT !.first = p]
    <3>1. 1 \in 1..1
      OBVIOUS
    <3> QED BY <2>2, <2>4, <3>1, Zenon
  <2>6. [frames[g][1] EXCEPT !.first = p] \in Frame /\ [frames[g][1] EXCEPT !.first = p].first = p
    BY <2>3 DEF Frame
  <2>7. \A i \in 1..1 : i = 1
    OBVIOUS
  <2>8. s \in [1..1 -> Frame]
    BY <2>4, <2>5, <2>6, <2>7, Zenon
  <2>9. s \in Seq(Frame) /\ Len(s) = 1 /\ s # <<>>
    <3>1. \A t \in [1..1 -> Frame] : t \in Seq(Frame) /\ Len(t) = 1
      <4>1. \A n \in Nat : \A t \in [1..n -> Frame] : t \in Seq(Frame) /\ Len(t) = n
        OBVIOUS
      <4>2. 1 \in Nat
        OBVIOUS
      <4> QED BY <4>1, <4>2, Zenon
    <3>2. Len(<<>>) = 0 /\ 0 # 1
      OBVIOUS
    <3>3. s \in Seq(Frame) /\ Len(s) = 1
      <4> HIDE DEF s
      <4> QED BY <2>8, <3>1, Zenon
    <3>4. s # <<>>
      <4> HIDE DEF s
      <4> QED BY <3>2, <3>3, Zenon
    <3> QED BY <3>3, <3>4, Zenon
  <2>10. Left(s, p)
    <3>1. p \in Modes /\ p # "run"
      BY HelperAssumption DEF Modes
    <3> QED BY <2>5, <2>6, <2>9, <3>1, Zenon DEF Left
  <2>11. mode' = [mode EXCEPT ![g] = p]
    BY <1>1, <2>1, Zenon
  <2>12. enabled' = TRUE
    BY <1>3, <1>5, <2>1, Zenon
  <2> HIDE DEF s
  <2> QED BY <1>2, <1>3, <1>4, <2>9, <2>10, <2>11, <2>12, StepOf, Zenon
<1> QED BY <1>6, <1>7, Zenon

\* Leaving the one helper.
LEMMA LeftKeeps ==
  ASSUME IInv, NEW g \in Goroutine, NEW m \in Modes, Inside(g),
         frames' = [frames EXCEPT ![g] = <<>>], mode' = [mode EXCEPT ![g] = m], Leave(g),
         verdict' \in [frame : Frame, passed : BOOLEAN] \cup {None}
  PROVE  IInv'
<1>1. enabled' = (\E h \in Goroutine \ {g} : Inside(h))
  <2>1. \A h \in Goroutine \ {g} : ~Inside(h)
    BY Held, Zenon
  <2> QED BY <2>1, Zenon DEF Leave
<1>2. Left(<<>>, m)
  BY DEF Left
<1> QED BY <1>1, <1>2, StepOf, Zenon

LEMMA HandledEmpty == Handled(<<>>) = <<>>
<1>1. <<>> \in Seq(Frame)
  OBVIOUS
<1>2. Handled(<<>>) \in Seq(Frame) /\ Len(Handled(<<>>)) = Len(<<>>)
  BY <1>1, HandledSeq, Zenon
<1>3. \A t \in Seq(Frame) : Len(t) = Len(<<>>) => t = <<>>
  OBVIOUS
<1> QED BY <1>2, <1>3, Zenon

LEMMA ReturnKeeps == ASSUME IInv, NEW g \in Goroutine, Return(g) PROVE IInv'
<1>1. Inside(g) /\ Leave(g) /\ frames' = [frames EXCEPT ![g] = Below(g)] /\ mode[g] = "run"
  BY Zenon DEF Return
<1>2. Below(g) = <<>> /\ Top(g) \in Frame
  BY <1>1, Held, Zenon
<1>3. CASE Top(g).helper = "WithChecks"
  <2>1. mode' = mode /\ verdict' = verdict
    BY <1>3, Zenon DEF Return
  <2>2. mode' = [mode EXCEPT ![g] = "run"] /\ "run" \in Modes
    BY <1>1, <2>1 DEF IInv, TypeOK, Modes
  <2>3. verdict' \in [frame : Frame, passed : BOOLEAN] \cup {None}
    BY <2>1 DEF IInv, TypeOK
  <2> QED BY <1>1, <1>2, <2>2, <2>3, LeftKeeps, Zenon
<1>4. CASE Top(g).helper # "WithChecks"
  <2> DEFINE b == Top(g).helper = "AssertPasses"
             m == IF b THEN "run" ELSE "fatal"
  <2>1. mode' = [mode EXCEPT ![g] = m] /\ verdict' = [frame |-> Top(g), passed |-> b]
    BY <1>4, Zenon DEF Return, Decide
  <2>2. m \in Modes
    BY DEF Modes
  <2>3. verdict' \in [frame : Frame, passed : BOOLEAN] \cup {None}
    BY <1>2, <2>1
  <2> HIDE DEF m, b
  <2> QED BY <1>1, <1>2, <2>1, <2>2, <2>3, LeftKeeps, Zenon
<1> QED BY <1>3, <1>4, Zenon

LEMMA CaughtKeeps == ASSUME IInv, NEW g \in Goroutine, Caught(g) PROVE IInv'
<1> DEFINE b == \/ Top(g).helper = "AssertAnyFailure"
                \/ Top(g).helper = "AssertFails" /\ Code[Top(g).want] = Code[mode[g]]
           m == IF b THEN "run" ELSE "fatal"
<1>1. Inside(g) /\ Leave(g) /\ frames' = [frames EXCEPT ![g] = Handled(Below(g))]
  BY Zenon DEF Caught
<1>2. Below(g) = <<>> /\ Top(g) \in Frame
  BY <1>1, Held, Zenon
<1>3. frames' = [frames EXCEPT ![g] = <<>>]
  BY <1>1, <1>2, HandledEmpty, Zenon
<1>4. mode' = [mode EXCEPT ![g] = m] /\ verdict' = [frame |-> Top(g), passed |-> b]
  BY Zenon DEF Caught, Decide
<1>5. m \in Modes /\ b \in BOOLEAN
  BY DEF Modes
<1>6. verdict' \in [frame : Frame, passed : BOOLEAN] \cup {None}
  <2> HIDE DEF b
  <2> QED BY <1>2, <1>4, <1>5
<1> HIDE DEF m, b
<1> QED BY <1>1, <1>3, <1>4, <1>5, <1>6, LeftKeeps, Zenon

LEMMA ThroughKeeps == ASSUME IInv, NEW g \in Goroutine, Through(g) PROVE IInv'
<1>1. /\ Inside(g) /\ Leave(g) /\ frames' = [frames EXCEPT ![g] = Below(g)]
      /\ mode' = mode /\ verdict' = verdict
  BY Zenon DEF Through
<1>2. frames' = [frames EXCEPT ![g] = <<>>] /\ mode[g] \in Modes
  BY <1>1, Held, Zenon
<1>3. mode' = [mode EXCEPT ![g] = mode[g]]
  BY <1>1 DEF IInv, TypeOK
<1>4. verdict' \in [frame : Frame, passed : BOOLEAN] \cup {None}
  BY <1>1 DEF IInv, TypeOK
<1> QED BY <1>1, <1>2, <1>3, <1>4, LeftKeeps, Zenon

LEMMA OtherPanicKeeps == ASSUME IInv, NEW g \in Goroutine, OtherPanic(g) PROVE IInv'
<1>1. /\ mode' = [mode EXCEPT ![g] = Other] /\ frames' = frames
      /\ enabled' = enabled /\ verdict' = verdict
  BY Zenon DEF OtherPanic
<1>2. frames' = [frames EXCEPT ![g] = frames[g]]
  BY <1>1 DEF IInv, TypeOK
<1>3. Other \in Modes /\ Other # "run" /\ Other \notin Pred
  BY HelperAssumption DEF Modes
<1>4. Left(frames[g], Other)
  BY <1>3, Held, Zenon DEF Left
<1>5. verdict' \in [frame : Frame, passed : BOOLEAN] \cup {None}
  BY <1>1 DEF IInv, TypeOK
<1>6. enabled \in BOOLEAN /\ (enabled <=> \E h \in Goroutine : Inside(h))
  BY Zenon DEF IInv, TypeOK, ScopedFlag
<1>7. CASE Inside(g)
  <2>1. enabled' = TRUE /\ \A h \in Goroutine \ {g} : ~Inside(h)
    BY <1>1, <1>6, <1>7, Held, Zenon
  <2> QED BY <1>1, <1>2, <1>4, <1>5, <1>7, <2>1, StepOf, Zenon DEF Inside
<1>8. CASE ~Inside(g)
  <2>1. enabled' = (\E h \in Goroutine \ {g} : Inside(h))
    BY <1>1, <1>6, <1>8, Zenon
  <2> QED BY <1>1, <1>2, <1>4, <1>5, <1>8, <2>1, StepOf, Zenon DEF Inside
<1> QED BY <1>7, <1>8, Zenon

LEMMA HandledOne ==
  ASSUME NEW s \in Seq(Frame), Len(s) = 1
  PROVE  Handled(s)[1].first = None
<1>1. DOMAIN s = 1..1 /\ 1 \in 1..1 /\ s[1] \in Frame
  OBVIOUS
<1>2. Handled(s)[1] = [s[1] EXCEPT !.first = None]
  BY <1>1, Zenon DEF Handled
<1>3. \A f \in Frame : [f EXCEPT !.first = None].first = None
  BY DEF Frame
<1> QED BY <1>1, <1>2, <1>3, Zenon

LEMMA RecoverKeeps == ASSUME IInv, NEW g \in Goroutine, Recover(g) PROVE IInv'
<1>1. /\ mode' = [mode EXCEPT ![g] = "run"]
      /\ frames' = [frames EXCEPT ![g] = Handled(frames[g])]
      /\ enabled' = enabled /\ verdict' = verdict
  BY DEF Recover
<1>2. /\ frames[g] \in Seq(Frame) /\ Left(frames[g], mode[g])
      /\ Inside(g) => enabled /\ \A h \in Goroutine \ {g} : ~Inside(h)
  BY Held, Zenon
<1>3. verdict' \in [frame : Frame, passed : BOOLEAN] \cup {None}
  BY <1>1 DEF IInv, TypeOK
<1>4. enabled \in BOOLEAN /\ (enabled <=> \E h \in Goroutine : Inside(h))
  BY Zenon DEF IInv, TypeOK, ScopedFlag
<1>5. "run" \in Modes /\ "run" \notin Pred
  BY HelperAssumption DEF Modes
<1>6. CASE Inside(g)
  <2>1. Len(frames[g]) = 1
    BY <1>2, <1>6, Zenon DEF Left, Inside
  <2>2. /\ Handled(frames[g]) \in Seq(Frame) /\ Len(Handled(frames[g])) = 1
        /\ Handled(frames[g])[1].first = None
    BY <1>2, <2>1, HandledSeq, HandledOne, Zenon
  <2>3. Len(<<>>) = 0 /\ 0 # 1
    OBVIOUS
  <2>4. Handled(frames[g]) # <<>>
    BY <2>2, <2>3, Zenon
  <2>5. Left(Handled(frames[g]), "run")
    BY <1>5, <2>2, <2>4, Zenon DEF Left
  <2>6. enabled' = TRUE
    BY <1>1, <1>2, <1>4, <1>6, Zenon
  <2> QED BY <1>1, <1>2, <1>3, <1>6, <2>4, <2>5, <2>6, StepOf, Zenon
<1>7. CASE ~Inside(g)
  <2>1. frames' = [frames EXCEPT ![g] = <<>>]
    BY <1>1, <1>7, HandledEmpty, Zenon DEF Inside
  <2>2. Left(<<>>, "run")
    BY <1>5 DEF Left
  <2>3. enabled' = (\E h \in Goroutine \ {g} : Inside(h))
    BY <1>1, <1>4, <1>7, Zenon
  <2> QED BY <1>1, <1>3, <2>1, <2>2, <2>3, StepOf, Zenon
<1> QED BY <1>6, <1>7, Zenon

LEMMA NextTestKeeps == ASSUME IInv, NEW g \in Goroutine, NextTest(g) PROVE IInv'
<1>1. /\ ~Inside(g) /\ mode' = [mode EXCEPT ![g] = "run"] /\ frames' = frames
      /\ enabled' = enabled /\ verdict' = verdict
  BY Zenon DEF NextTest
<1>2. frames' = [frames EXCEPT ![g] = <<>>]
  BY <1>1 DEF IInv, TypeOK, Inside
<1>3. Left(<<>>, "run")
  BY DEF Left, Modes
<1>4. enabled' = (\E h \in Goroutine \ {g} : Inside(h))
  BY <1>1, Zenon DEF IInv, TypeOK, ScopedFlag
<1>5. verdict' \in [frame : Frame, passed : BOOLEAN] \cup {None}
  BY <1>1 DEF IInv, TypeOK
<1> QED BY <1>1, <1>2, <1>3, <1>4, <1>5, StepOf, Zenon
------------------------------------------------------------------------------
(* The invariant. *)

LEMMA InitIInv == Init => IInv
<1> SUFFICES ASSUME Init PROVE IInv
  OBVIOUS
<1>1. \A g \in Goroutine : frames[g] = <<>> /\ mode[g] = "run"
  BY DEF Init
<1>2. \A g \in Goroutine : ~Inside(g)
  BY <1>1, Zenon DEF Inside
<1>3. TypeOK
  <2>1. <<>> \in Seq(Frame)
    OBVIOUS
  <2> QED BY <2>1 DEF Init, TypeOK
<1>4. ScopedFlag
  BY <1>2, Zenon DEF Init, ScopedFlag
<1>5. \A g \in Goroutine : Aware(g)
  <2>1. Len(<<>>) <= 1
    OBVIOUS
  <2> QED BY <1>1, <1>2, <2>1, Zenon DEF Aware
<1> QED BY <1>2, <1>3, <1>4, <1>5, Zenon DEF IInv, OneInside

LEMMA NextIInv == ASSUME Alone, MaxDepth = 1, IInv, [Next]_vars PROVE IInv'
<1>1. CASE Next
  <2>1. PICK g \in Goroutine :
          \/ Enter(g) \/ FailingBlock(g) \/ OtherPanic(g) \/ Recover(g)
          \/ Return(g) \/ Caught(g) \/ Through(g) \/ NextTest(g)
    BY <1>1, Zenon DEF Next
  <2> QED BY <2>1, EnterKeeps, FailingBlockKeeps, OtherPanicKeeps, RecoverKeeps, ReturnKeeps,
             CaughtKeeps, ThroughKeeps, NextTestKeeps, Zenon
<1>2. CASE UNCHANGED vars
  BY <1>2 DEF vars, IInv, TypeOK, ScopedFlag, OneInside, Aware, Inside, Top
<1> QED BY <1>1, <1>2, Zenon

LEMMA AlwaysIInv == ASSUME Alone, MaxDepth = 1 PROVE Spec => []IInv
  BY InitIInv, NextIInv, PTL DEF Spec

\* The flag, the open helpers and the goroutines' modes keep their types under
\* WithChecks, the assertions, panics and recoveries.
THEOREM HelpersTyped == ASSUME Alone, MaxDepth = 1 PROVE Spec => []TypeOK
<1>1. IInv => TypeOK
  BY Zenon DEF IInv
<1> QED BY <1>1, AlwaysIInv, PTL

\* WithChecks sets the flag for its function and no longer: checks are on
\* exactly while some helper runs, whichever way the earlier ones were left
\* (a return, a violation caught or not, another panic, t.Fatal).
THEOREM FlagScoped == ASSUME Alone, MaxDepth = 1 PROVE Spec => []ScopedFlag
<1>1. IInv => ScopedFlag
  BY Zenon DEF IInv
<1> QED BY <1>1, AlwaysIInv, PTL
------------------------------------------------------------------------------
\* No two predicates share a code pointer, as two closures of one literal do.
DistinctCodes == \A p, q \in Pred : Code[p] = Code[q] => p = q

LEMMA VerdictSame == ASSUME VerdictsTrue, verdict' = verdict PROVE VerdictsTrue'
  BY DEF VerdictsTrue

LEMMA VerdictOf ==
  ASSUME NEW f \in Frame, f.helper # "WithChecks", NEW b \in BOOLEAN,
         verdict' = [frame |-> f, passed |-> b],
         f.helper = "AssertPasses" => (b <=> f.first = None),
         f.helper = "AssertFails" => (b <=> f.first = f.want),
         f.helper = "AssertAnyFailure" => (b <=> f.first # None)
  PROVE  VerdictsTrue'
<1>1. verdict'.frame = f /\ verdict'.passed = b
  OBVIOUS
<1>2. f.helper \in {"AssertFails", "AssertAnyFailure", "AssertPasses"}
  BY DEF Frame, Helper
<1> QED BY <1>1, <1>2 DEF VerdictsTrue

LEMMA NextVerdict ==
  ASSUME DistinctCodes, IInv, VerdictsTrue, [Next]_vars
  PROVE  VerdictsTrue'
<1>1. CASE UNCHANGED vars
  BY <1>1, VerdictSame DEF vars
<1>2. ASSUME NEW g \in Goroutine, Return(g) PROVE VerdictsTrue'
  <2>1. mode[g] = "run" /\ Inside(g)
    BY <1>2, Zenon DEF Return
  <2>2. Top(g) \in Frame /\ Top(g).first = None
    BY <2>1, Held, Zenon DEF IInv, Aware
  <2>3. CASE Top(g).helper = "WithChecks"
    BY <1>2, <2>3, VerdictSame, Zenon DEF Return
  <2>4. CASE Top(g).helper # "WithChecks"
    <3>1. verdict' = [frame |-> Top(g), passed |-> Top(g).helper = "AssertPasses"]
      BY <1>2, <2>4, Zenon DEF Return, Decide
    <3>2. Top(g).first # Top(g).want
      BY <2>2, HelperAssumption DEF Frame
    <3>3. "AssertPasses" # "AssertFails" /\ "AssertPasses" # "AssertAnyFailure"
      OBVIOUS
    <3>4. (Top(g).helper = "AssertPasses") \in BOOLEAN
      BY Zenon
    <3> DEFINE b == Top(g).helper = "AssertPasses"
    <3>5. Top(g).helper = "AssertPasses" => (b <=> Top(g).first = None)
      BY <2>2, Zenon
    <3>6. Top(g).helper = "AssertFails" => (b <=> Top(g).first = Top(g).want)
      BY <3>2, <3>3, Zenon
    <3>7. Top(g).helper = "AssertAnyFailure" => (b <=> Top(g).first # None)
      BY <2>2, <3>3, Zenon
    <3> HIDE DEF b
    <3> QED BY <2>2, <2>4, <3>1, <3>4, <3>5, <3>6, <3>7, VerdictOf, Zenon DEF b
  <2> QED BY <2>3, <2>4, Zenon
<1>3. ASSUME NEW g \in Goroutine, Caught(g) PROVE VerdictsTrue'
  <2> DEFINE b == \/ Top(g).helper = "AssertAnyFailure"
                  \/ Top(g).helper = "AssertFails" /\ Code[Top(g).want] = Code[mode[g]]
  <2>1. mode[g] \in Pred /\ Inside(g) /\ Top(g).helper # "WithChecks"
    BY <1>3, Zenon DEF Caught
  <2>2. Top(g) \in Frame /\ Top(g).first = mode[g]
    BY <2>1, Held, Zenon DEF IInv, Aware
  <2>3. verdict' = [frame |-> Top(g), passed |-> b]
    BY <1>3, Zenon DEF Caught, Decide
  <2>4. Top(g).want \in Pred /\ Top(g).first # None
    BY <2>1, <2>2, HelperAssumption DEF Frame
  <2>5. Code[Top(g).want] = Code[mode[g]] <=> mode[g] = Top(g).want
    BY <2>1, <2>4, Zenon DEF DistinctCodes
  <2>6. "AssertPasses" # "AssertFails" /\ "AssertPasses" # "AssertAnyFailure" /\ "AssertFails" # "AssertAnyFailure"
    OBVIOUS
  <2>7. b \in BOOLEAN
    BY Zenon
  <2>8. Top(g).helper = "AssertPasses" => (b <=> Top(g).first = None)
    BY <2>4, <2>6, Zenon
  <2>9. Top(g).helper = "AssertFails" => (b <=> Top(g).first = Top(g).want)
    BY <2>2, <2>5, <2>6, Zenon
  <2>10. Top(g).helper = "AssertAnyFailure" => (b <=> Top(g).first # None)
    BY <2>4, Zenon
  <2> HIDE DEF b
  <2> QED BY <2>1, <2>2, <2>3, <2>7, <2>8, <2>9, <2>10, VerdictOf, Zenon
<1>4. CASE Next
  <2>1. PICK g \in Goroutine :
          \/ Enter(g) \/ FailingBlock(g) \/ OtherPanic(g) \/ Recover(g)
          \/ Return(g) \/ Caught(g) \/ Through(g) \/ NextTest(g)
    BY <1>4, Zenon DEF Next
  <2>2. CASE Return(g) \/ Caught(g)
    BY <1>2, <1>3, <2>2, Zenon
  <2>3. CASE ~Return(g) /\ ~Caught(g)
    <3>1. verdict' = verdict
      BY <2>1, <2>3, Zenon DEF Enter, FailingBlock, OtherPanic, Recover, Through, NextTest
    <3> QED BY <3>1, VerdictSame, Zenon
  <2> QED BY <2>2, <2>3, Zenon
<1> QED BY <1>1, <1>4, Zenon

\* AssertFails, AssertAnyFailure and AssertPasses pass exactly when the blocks
\* run during the call did what is asserted, provided that predicates are told
\* apart by their code pointers.
THEOREM AssertionsTrue ==
  ASSUME Alone, MaxDepth = 1, DistinctCodes
  PROVE  Spec => []VerdictsTrue
<1>1. Init => VerdictsTrue
  BY DEF Init, VerdictsTrue
<1> QED BY <1>1, AlwaysIInv, NextVerdict, PTL DEF Spec
------------------------------------------------------------------------------
\* The step that SilentOutside speaks of.
Silent == \A g \in Goroutine : mode[g] = "run" /\ ~Inside(g) => mode'[g] \notin Pred

LEMMA NextSilent == ASSUME Alone, IInv, Next PROVE Silent
<1> SUFFICES ASSUME NEW g \in Goroutine, mode[g] = "run", ~Inside(g) PROVE mode'[g] \notin Pred
  BY Zenon DEF Silent
<1>1. "run" \notin Pred /\ Other \notin Pred
  BY HelperAssumption
<1>2. PICK h \in Goroutine :
        \/ Enter(h) \/ FailingBlock(h) \/ OtherPanic(h) \/ Recover(h)
        \/ Return(h) \/ Caught(h) \/ Through(h) \/ NextTest(h)
  BY Zenon DEF Next
<1>3. \A m : mode' = [mode EXCEPT ![h] = m] => mode'[h] = m /\ (h # g => mode'[g] = "run")
  BY DEF IInv, TypeOK
<1>4. CASE h # g
  <2>1. mode' = mode \/ \E m : mode' = [mode EXCEPT ![h] = m]
    <3>1. CASE Enter(h) \/ Through(h)
      BY <3>1, Zenon DEF Enter, Through
    <3>2. CASE FailingBlock(h)
      BY <3>2, Zenon DEF FailingBlock
    <3>3. CASE OtherPanic(h) \/ Recover(h) \/ NextTest(h)
      BY <3>3, Zenon DEF OtherPanic, Recover, NextTest
    <3>4. CASE Return(h)
      BY <3>4, Zenon DEF Return, Decide
    <3>5. CASE Caught(h)
      BY <3>5, Zenon DEF Caught, Decide
    <3> QED BY <1>2, <3>1, <3>2, <3>3, <3>4, <3>5, Zenon
  <2> QED BY <1>1, <1>3, <1>4, <2>1, Zenon
<1>5. CASE h = g
  <2>1. CASE Enter(g) \/ Through(g)
    BY <1>1, <2>1, Zenon DEF Enter, Through
  <2>2. CASE FailingBlock(g)
    <3>1. \A k \in Goroutine : ~Inside(k)
      BY <2>2, Zenon DEF FailingBlock, Permitted
    <3>2. ~enabled
      BY <3>1, Zenon DEF IInv, ScopedFlag
    <3>3. mode' = [mode EXCEPT ![g] = "run"]
      BY <2>2, <3>2, Zenon DEF FailingBlock
    <3> QED BY <1>1, <1>3, <1>5, <3>3, Zenon
  <2>3. CASE OtherPanic(g)
    BY <1>1, <1>3, <1>5, <2>3, Zenon DEF OtherPanic
  <2>4. CASE Recover(g) \/ NextTest(g)
    BY <1>1, <1>3, <1>5, <2>4, Zenon DEF Recover, NextTest
  <2>5. ~Return(g) /\ ~Caught(g)
    BY Zenon DEF Return, Caught
  <2> QED BY <1>2, <1>5, <2>1, <2>2, <2>3, <2>4, <2>5, Zenon
<1> QED BY <1>4, <1>5, Zenon

\* Outside WithChecks and the assertions no block of proven.That or
\* proven.Returns panics, whatever tests have run before.
THEOREM ProductionSilent == ASSUME Alone, MaxDepth = 1 PROVE Spec => SilentOutside
<1>1. IInv /\ [Next]_vars => [Silent]_vars
  BY NextSilent, Zenon
<1>2. Spec => [][Silent]_vars
  BY <1>1, AlwaysIInv, PTL DEF Spec
<1> QED BY <1>2 DEF SilentOutside, Silent
=============================================================================
