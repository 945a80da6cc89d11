------------------------------ MODULE Literals ------------------------------
(***************************************************************************)
(* The library's predicates on literal arguments, decided at build time    *)
(* (litconst.go), against what the predicate answers at run time on the    *)
(* value the compiler passes.                                              *)
(*                                                                         *)
(* An argument is [shape, mag, neg]: a number has mag of size (an INT in   *)
(* units, a FLOAT in fractions of one) under neg minus signs, a string has *)
(* mag bytes.                                                              *)
(***************************************************************************)
EXTENDS Integers, Sequences, SequencesExt

CONSTANTS MaxInt,   \* the greatest int64
          Fraction  \* how many of the smallest differences of a FLOAT make 1

ASSUME FractionAssumption == Fraction \in Nat \ {0}

LiteralPreds ==
  {"NonNil", "Nil", "NonEmpty", "Empty", "Positive", "Negative", "NonNegative", "NonPositive",
   "Zero", "NonZero", "Even", "Odd"}

Compare(p, v) ==
  CASE p = "Positive"    -> v > 0
    [] p = "Negative"    -> v < 0
    [] p = "NonNegative" -> v >= 0
    [] p = "NonPositive" -> v <= 0
    [] p = "Zero"        -> v = 0
    [] p = "NonZero"     -> v # 0
    [] p = "Even"        -> v % 2 = 0
    [] p = "Odd"         -> v % 2 # 0
    [] p = "Empty"       -> v = 0
    [] p = "NonEmpty"    -> v > 0

Signed(a) == IF a.neg % 2 = 0 THEN a.mag ELSE -a.mag
------------------------------------------------------------------------------
(* The evaluator. *)

\* ParseInt fails beyond int64, with or without a minus before it.
AsIntLit(a)   == a.shape = "INT" /\ a.mag <= MaxInt
AsFloatLit(a) == a.shape = "FLOAT"
AsString(a)   == a.shape = "STRING"
NeverNil(a)   == a.shape \in {"&X{}", "new", "make"}

Verdict(b) == IF b THEN "holds" ELSE "fails"

\* Faulty: the sign is lost.
EvalNumericUnsigned(p, a) ==
  IF AsIntLit(a) \/ AsFloatLit(a) THEN Verdict(Compare(p, a.mag)) ELSE "skip"
EvalNumeric(p, a) ==
  IF AsIntLit(a) \/ AsFloatLit(a) THEN Verdict(Compare(p, Signed(a))) ELSE "skip"

EvalInteger(p, a) == IF AsIntLit(a) THEN Verdict(Compare(p, Signed(a))) ELSE "skip"

EvalStringLen(p, a) == IF AsString(a) THEN Verdict(Compare(p, a.mag)) ELSE "skip"

EvalPointerIsNil(p, a) ==
  CASE a.shape = "nil" -> Verdict(p = "Nil")
    [] NeverNil(a)     -> Verdict(p = "NonNil")
    [] OTHER           -> "skip"

\* The zero value of whatever type: 0, "", false, nil.
EvalZeroValue(p, a) ==
  CASE AsIntLit(a) \/ AsFloatLit(a) -> Verdict(Compare(p, Signed(a)))
    [] AsString(a)                  -> Verdict(Compare(p, a.mag))
    [] a.shape \in {"false", "nil"} -> Verdict(p = "Zero")
    [] a.shape = "true" \/ NeverNil(a) -> Verdict(p = "NonZero")
    [] OTHER                        -> "skip"

EvalLibraryPredicate(p, a) ==
  CASE p \in {"NonNil", "Nil"}     -> EvalPointerIsNil(p, a)
    [] p \in {"NonEmpty", "Empty"} -> EvalStringLen(p, a)
    [] p \in {"Positive", "Negative", "NonNegative", "NonPositive"} -> EvalNumeric(p, a)
    [] p \in {"Zero", "NonZero"}   -> EvalZeroValue(p, a)
    [] p \in {"Even", "Odd"}       -> EvalInteger(p, a)
    [] OTHER                       -> "skip"

\* evalLiterals: the facts added for an argument that must satisfy all of
\* required and, of each sequence in requiredOrs, one.
EvalLiterals(a, required, requiredOrs) ==
  LET Holds(p) == EvalLibraryPredicate(p, a) = "holds"
      First(alts) == SelectInSeq(alts, Holds)
  IN  {p \in required : Holds(p)}
      \cup {alts[First(alts)] : alts \in {o \in requiredOrs : First(o) # 0}}
------------------------------------------------------------------------------
(* The value at run time.  A type is [kind, max, step]: numbers up to max in  *)
(* multiples of step.                                                         *)

IsNumber(a) == a.shape \in {"INT", "FLOAT"}

Kinds == {"int", "uint", "float", "string", "bool", "pointer", "chan", "any"}

\* In fractions of one, so that both shapes compare.
Exact(a) == IF a.shape = "INT" THEN Signed(a) * Fraction ELSE Signed(a)

\* A constant becomes the nearest value of a floating-point type.
Rounded(v, step) ==
  LET down == (v \div step) * step
  IN  IF 2 * (v - down) > step \/ (2 * (v - down) = step /\ (v \div step) % 2 = 1)
      THEN down + step ELSE down

\* Whether the compiler accepts the argument for a parameter of the type.
Assignable(a, T) ==
  CASE T.kind \in {"int", "uint"} ->
         /\ IsNumber(a) /\ Exact(a) % Fraction = 0
         /\ Exact(a) \in (IF T.kind = "uint" THEN 0 ELSE -T.max - Fraction)..T.max
    [] T.kind = "float"  -> IsNumber(a)
    [] T.kind = "string" -> a.shape = "STRING"
    [] T.kind = "bool"   -> a.shape \in {"true", "false"}
    [] T.kind = "pointer" -> a.shape \in {"nil", "&X{}", "new"}
    [] T.kind = "chan"   -> a.shape \in {"nil", "make"}
    [] T.kind = "any"    -> TRUE

\* Whether the predicate's type parameter can be the type.
Applicable(p, T) ==
  CASE p \in {"Positive", "Negative", "NonNegative", "NonPositive"} -> T.kind \in {"int", "uint", "float"}
    [] p \in {"Even", "Odd"}       -> T.kind \in {"int", "uint"}
    [] p \in {"Empty", "NonEmpty"} -> T.kind = "string"
    [] p \in {"Nil", "NonNil"}     -> T.kind = "pointer"
    [] OTHER                       -> TRUE

\* The predicate on the value that the function receives.
HoldsOnValue(p, a, T) ==
  IF p \in {"Nil", "NonNil"} THEN (a.shape = "nil") = (p = "Nil")
  ELSE CASE T.kind = "string" -> Compare(p, a.mag)
         [] T.kind = "bool"   -> (a.shape = "false") = (p = "Zero")
         [] T.kind \in {"pointer", "chan", "any"} -> (a.shape = "nil") = (p = "Zero")
         [] T.kind = "float"  -> Compare(p, Rounded(Exact(a), T.step))
         [] T.kind \in {"int", "uint"} -> Compare(p, Exact(a) \div Fraction)

\* A literal discharges only what is true of the value the callee gets, for
\* every type of the parameter that compiles; and it is refused (rather than
\* left to other evidence) only what is false of it.
LiteralFactsTrue(a, T, required, requiredOrs, planted) ==
  LET P == required \cup UNION {ToSet(o) : o \in requiredOrs}
  IN  (Assignable(a, T) /\ \A p \in P : Applicable(p, T)) =>
        /\ \A p \in planted : HoldsOnValue(p, a, T)
        /\ \A p \in P : EvalLibraryPredicate(p, a) = "fails" => ~HoldsOnValue(p, a, T)
        /\ \A o \in requiredOrs :
             (\E p \in ToSet(o) : EvalLibraryPredicate(p, a) = "holds") => ToSet(o) \cap planted # {}

\* A type that is no interface, and no narrower than the evaluator's numbers.
PlainType(T) == T.kind # "any" /\ (T.kind = "float" => T.step = 1)
=============================================================================
