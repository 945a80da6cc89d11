---------------------------- MODULE ProvenTest ----------------------------
(***************************************************************************)
(* pkg/proventest: one global flag decides whether the blocks of           *)
(* proven.That and proven.Returns run.  WithChecks sets it for the         *)
(* duration of a function, and three assertions are built on it.           *)
(*                                                                         *)
(* Goroutines run any code: it enters a helper, reaches a block whose      *)
(* predicate fails, panics for a reason of its own, recovers, returns.  A  *)
(* block whose predicate holds changes nothing and is not a step.          *)
(***************************************************************************)
EXTENDS Naturals, Sequences

CONSTANTS Goroutine,  \* the goroutines of the test binary
          Pred,       \* predicates
          Code,       \* the code pointer of each predicate's function value
          Other,      \* a panic that is no Violation
          None,
          MaxDepth,   \* bound on the helpers open in one goroutine
          Alone       \* whether tests keep to themselves, as documented

ASSUME HelperAssumption ==
  /\ {Other, None, "run", "fatal"} \cap Pred = {}
  /\ Other \notin {None, "run", "fatal"}
  /\ MaxDepth \in Nat
  /\ Alone \in BOOLEAN

VARIABLES enabled,  \* the flag
          frames,   \* per goroutine, the open calls of helpers, innermost last
          mode,     \* "run", a panic's value, or "fatal" (t.Fatal's Goexit)
          verdict   \* ghost: the last assertion that ended, and how

vars == <<enabled, frames, mode, verdict>>

Helper == {"WithChecks", "AssertFails", "AssertAnyFailure", "AssertPasses"}

\* A call of a helper.  first (ghost) is the predicate of the first block that
\* failed during the call and whose failure nobody has handled.
Frame == [helper : Helper, want : Pred, first : Pred \cup {None}]

Inside(g) == frames[g] # <<>>
Top(g)    == frames[g][Len(frames[g])]
Below(g)  == SubSeq(frames[g], 1, Len(frames[g]) - 1)

\* What the package comment of WithChecks asks of tests.
Permitted(g) == Alone => \A h \in Goroutine \ {g} : ~Inside(h)

Handled(fs) == [i \in DOMAIN fs |-> [fs[i] EXCEPT !.first = None]]

Init ==
  /\ enabled = FALSE
  /\ frames = [g \in Goroutine |-> <<>>]
  /\ mode = [g \in Goroutine |-> "run"]
  /\ verdict = None
------------------------------------------------------------------------------
(* The steps of a goroutine. *)

\* A helper is called: WithChecks sets the flag, at once or under an assertion.
Enter(g) ==
  /\ mode[g] = "run" /\ Permitted(g)
  /\ Len(frames[g]) < MaxDepth
  /\ \E h \in Helper, p \in Pred :
       frames' = [frames EXCEPT ![g] = Append(@, [helper |-> h, want |-> p, first |-> None])]
  /\ enabled' = TRUE
  /\ UNCHANGED <<mode, verdict>>

\* Faulty: blocks run whatever the flag says.
FailingBlockAlways(g) ==
  /\ mode[g] = "run" /\ Permitted(g)
  /\ \E p \in Pred : mode' = [mode EXCEPT ![g] = p]
  /\ UNCHANGED <<enabled, frames, verdict>>

\* A block whose predicate p fails on the value is reached.
FailingBlock(g) ==
  /\ mode[g] = "run" /\ Permitted(g)
  /\ \E p \in Pred :
       /\ frames' = [frames EXCEPT ![g] =
            [i \in DOMAIN @ |-> IF @[i].first = None THEN [@[i] EXCEPT !.first = p] ELSE @[i]]]
       /\ mode' = [mode EXCEPT ![g] = IF enabled THEN p ELSE "run"]
  /\ UNCHANGED <<enabled, verdict>>

OtherPanic(g) ==
  /\ mode[g] = "run"
  /\ mode' = [mode EXCEPT ![g] = Other]
  /\ UNCHANGED <<enabled, frames, verdict>>

\* Faulty: the panic's value is cleared but the goroutine does not go on.
RecoverMidway(g) ==
  /\ mode[g] \in Pred \cup {Other}
  /\ mode' = [mode EXCEPT ![g] = None]
  /\ frames' = [frames EXCEPT ![g] = Handled(@)]
  /\ UNCHANGED <<enabled, verdict>>

\* The code under test, or the test, recovers a panic.
Recover(g) ==
  /\ mode[g] \in Pred \cup {Other}
  /\ mode' = [mode EXCEPT ![g] = "run"]
  /\ frames' = [frames EXCEPT ![g] = Handled(@)]
  /\ UNCHANGED <<enabled, verdict>>

\* Faulty: the flag stays set.
LeaveSet(g) == UNCHANGED enabled

\* The innermost helper is left: its deferred function clears the flag.
Leave(g) == enabled' = FALSE

\* An assertion of goroutine g ends, with the test going on or not.
Decide(g, passed) ==
  /\ mode' = [mode EXCEPT ![g] = IF passed THEN "run" ELSE "fatal"]
  /\ verdict' = [frame |-> Top(g), passed |-> passed]

\* fn returns.
Return(g) ==
  /\ mode[g] = "run" /\ Inside(g)
  /\ Leave(g)
  /\ frames' = [frames EXCEPT ![g] = Below(g)]
  /\ IF Top(g).helper = "WithChecks" THEN UNCHANGED <<mode, verdict>>
     ELSE Decide(g, Top(g).helper = "AssertPasses")

\* Faulty: AssertFails does not compare the predicate.
CaughtAny(g) ==
  /\ mode[g] \in Pred /\ Inside(g) /\ Top(g).helper # "WithChecks"
  /\ Leave(g)
  /\ frames' = [frames EXCEPT ![g] = Handled(Below(g))]
  /\ Decide(g, Top(g).helper # "AssertPasses")

\* A Violation reaches an assertion, which recovers it.
Caught(g) ==
  /\ mode[g] \in Pred /\ Inside(g) /\ Top(g).helper # "WithChecks"
  /\ Leave(g)
  /\ frames' = [frames EXCEPT ![g] = Handled(Below(g))]
  /\ Decide(g, \/ Top(g).helper = "AssertAnyFailure"
               \/ Top(g).helper = "AssertFails" /\ Code[Top(g).want] = Code[mode[g]])

\* Anything else that unwinds the stack goes through, and clears the flag.
Through(g) ==
  /\ mode[g] # "run" /\ Inside(g)
  /\ mode[g] \in Pred => Top(g).helper = "WithChecks"
  /\ Leave(g)
  /\ frames' = [frames EXCEPT ![g] = Below(g)]
  /\ UNCHANGED <<mode, verdict>>

\* The goroutine of a failed test has ended, and the next test starts.
NextTest(g) ==
  /\ mode[g] = "fatal" /\ ~Inside(g)
  /\ mode' = [mode EXCEPT ![g] = "run"]
  /\ UNCHANGED <<enabled, frames, verdict>>

Next ==
  \E g \in Goroutine :
    \/ Enter(g) \/ FailingBlock(g) \/ OtherPanic(g) \/ Recover(g)
    \/ Return(g) \/ Caught(g) \/ Through(g) \/ NextTest(g)

Spec == Init /\ [][Next]_vars
------------------------------------------------------------------------------
TypeOK ==
  /\ enabled \in BOOLEAN
  /\ frames \in [Goroutine -> Seq(Frame)]
  /\ mode \in [Goroutine -> Pred \cup {Other, "run", "fatal"}]
  /\ verdict \in [frame : Frame, passed : BOOLEAN] \cup {None}

\* The flag is scoped to the call of fn: checks are on while a helper runs and
\* off when none does, whatever way the helpers before were left.
ScopedFlag == enabled <=> \E g \in Goroutine : Inside(g)

\* An assertion passes exactly when what it asserts is what the blocks did:
\* AssertPasses when none failed, AssertFails when the first to fail was of the
\* given predicate, AssertAnyFailure when one failed.
VerdictsTrue ==
  verdict # None =>
    LET f == verdict.frame
    IN  verdict.passed <=> CASE f.helper = "AssertPasses"     -> f.first = None
                             [] f.helper = "AssertFails"      -> f.first = f.want
                             [] f.helper = "AssertAnyFailure" -> f.first # None

\* Code that is in no helper runs as in production: no contract of it fires.
SilentOutside ==
  [][\A g \in Goroutine : mode[g] = "run" /\ ~Inside(g) => mode'[g] \notin Pred]_vars
=============================================================================
