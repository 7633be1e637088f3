------------------------------ MODULE Doubles ------------------------------
(***************************************************************************)
(* The values of the machine: the C++ type double and the operations the   *)
(* virtual machine performs on it.  The compiler and the processor supply  *)
(* them, so every definition here is external to the repository.           *)
(*                                                                         *)
(* A small floating-point format stands for binary64.  Its finite values   *)
(* are the integers -MaxFin .. MaxFin; a result beyond them overflows to   *)
(* an infinity, and NaN is a value of its own that compares false with     *)
(* everything.  The infinities are Inf and -Inf with Inf = MaxFin + 1, so  *)
(* that values other than NaN are ordered as integers are.  Negative zero  *)
(* and fractions are not represented: a quotient is rounded towards 0.     *)
(***************************************************************************)
EXTENDS Integers

CONSTANTS
  MaxFin,   \* the largest finite value
  NaN       \* not-a-number

ASSUME DoublesAssumption == MaxFin \in Nat \ {0} /\ NaN \notin Int

Inf == MaxFin + 1
Double == (-Inf .. Inf) \cup {NaN}

-----------------------------------------------------------------------------
(* The nearest value of the format, used by every arithmetic result. *)
Round(n) == IF n > Inf THEN Inf ELSE IF n < -Inf THEN -Inf ELSE n

IsInf(a) == a \in {Inf, -Inf}
Negate(a) == IF a = NaN THEN NaN ELSE -a

Plus(a, b) ==
  IF a = NaN \/ b = NaN THEN NaN
  ELSE IF IsInf(a) /\ IsInf(b) THEN (IF a = b THEN a ELSE NaN)
  ELSE IF IsInf(a) THEN a
  ELSE IF IsInf(b) THEN b
  ELSE Round(a + b)

Minus(a, b) == Plus(a, Negate(b))

Times(a, b) ==
  IF a = NaN \/ b = NaN THEN NaN
  ELSE IF (IsInf(a) /\ b = 0) \/ (a = 0 /\ IsInf(b)) THEN NaN
  ELSE Round(a * b)

Magnitude(a) == IF a < 0 THEN -a ELSE a

Divide(a, b) ==
  IF a = NaN \/ b = NaN THEN NaN
  ELSE IF (a = 0 /\ b = 0) \/ (IsInf(a) /\ IsInf(b)) THEN NaN
  ELSE LET negative == (a < 0) # (b < 0)
           size     == CASE IsInf(a) \/ b = 0 -> Inf
                         [] IsInf(b)          -> 0
                         [] OTHER             -> Magnitude(a) \div Magnitude(b)
       IN  IF negative THEN -size ELSE size

-----------------------------------------------------------------------------
(* The comparisons <, <= and == of the language: false when a NaN takes part. *)
Less(a, b)      == a # NaN /\ b # NaN /\ a < b
LessEqual(a, b) == a # NaN /\ b # NaN /\ a <= b
Same(a, b)      == a # NaN /\ b # NaN /\ a = b

(* Conversion of a bool and of an unsigned integer to double. *)
OfBool(p) == IF p THEN 1 ELSE 0
OfNat(n)  == Round(n)
=============================================================================
