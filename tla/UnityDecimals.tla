--------------------------- MODULE UnityDecimals ----------------------------
(***************************************************************************)
(* What Unity's output is compared with: powers of ten, and the number     *)
(* that a sequence of digits stands for.  They are recursive functions,    *)
(* so that what they compute can be proved.                                *)
(***************************************************************************)
EXTENDS Integers, Sequences

\* 10^p
TenTo[p \in Nat] == IF p = 0 THEN 1 ELSE 10 * TenTo[p - 1]

\* The number that digits stand for, the first of which is printed first.
ReadBack(digits, base) ==
  LET first[k \in 0 .. Len(digits)] ==
        IF k = 0 THEN 0 ELSE base * first[k - 1] + digits[k]
  IN  first[Len(digits)]
=============================================================================
