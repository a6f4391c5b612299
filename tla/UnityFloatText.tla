--------------------------- MODULE UnityFloatText ---------------------------
(***************************************************************************)
(* UnityPrintFloat, loop by loop: how it finds the significant digits,     *)
(* rounds to them, places the decimal point and prints the exponent.       *)
(* Numbers are c * 10^q.  The products of the scaling loops are rounded to *)
(* the machine's numbers; comparisons, the split into integer and fraction *)
(* and all that follows the scaling is exact in the machine too, but that  *)
(* the thresholds of the loops by Jump are the floats next to these powers *)
(* of ten there.  One behaviour prints one number other than zero, which   *)
(* has its own branch.                                                     *)
(***************************************************************************)
EXTENDS UnityDecimals, SequencesExt

CONSTANTS
  SigDigits,      \* sig_digits (7); min_scaled and max_scaled follow from it
  Jump,           \* the power of ten that the first loops scale by (10)
  MaxPower,       \* comparisons need no larger power of ten: a bound of the model
  Representable,  \* the machine's numbers above zero, as [c, q]
  Rounded(_)      \* what the machine makes of an exact product or quotient

VARIABLES
  input,    \* the number to print
  pc,       \* the loop the function is in
  number,   \* the C variable, as [c, q]
  factor,   \* the power of ten in the C variable of that name, or in 1 / divisor
  kept,     \* what the roundings so far have left of the input: a history variable
  exponent, n_int, n, decimals,
  buf,      \* digits, the last one first
  left,     \* what is left of exponent, without its sign
  ebuf      \* buf again: the digits of the exponent

scaling == <<number, factor, kept, n_int>>
figures == <<n, decimals, buf>>
powers  == <<left, ebuf>>
vars    == <<input, pc, exponent, scaling, figures, powers>>

min_scaled == TenTo[SigDigits - 1]
max_scaled == TenTo[SigDigits]

\* Powers of ten up to one that no mantissa reaches, nor its double.
PowerOfTen(p) == TenTo[Min({p, MaxPower})]

\* x < 10^p and x > 10^p
Below(x, p) == x.q < p /\ x.c < PowerOfTen(p - x.q)
Above(x, p) == IF x.q < p THEN x.c > PowerOfTen(p - x.q) ELSE x.q > p \/ x.c > 1

\* x * 10^p: exactly, and as the machine computes it.
Shifted(x, p) == [x EXCEPT !.q = @ + p]
Times(x, p)   == IF x.c = 0 THEN Shifted(x, p) ELSE Rounded(Shifted(x, p))

\* x rounded down to an integer, and what is left.
Whole(x) == IF x.q < 0 THEN x.c \div PowerOfTen(-x.q) ELSE x.c * TenTo[x.q]
Fraction(x) == IF x.q < 0 THEN [x EXCEPT !.c = @ % PowerOfTen(-x.q)] ELSE [c |-> 0, q |-> 0]

\* (whole + x) * 10^e
Standing(whole, x, e) ==
  IF whole = 0 THEN Shifted(x, e)
  ELSE LET least == Min({x.q, 0})
       IN  [c |-> whole * TenTo[-least] + x.c * TenTo[x.q - least], q |-> least + e]

\* The products that the loops compute: none goes beyond the digits wanted.
Computed(x, p) ==
  \/ p >= 0 /\ ~Above(Shifted(x, p), SigDigits)
  \/ p <= 0 /\ ~Below(Shifted(x, p), SigDigits - 1)

\* x is rounded to y, which is not beyond a power of ten that x does not reach:
\* rounding is monotone, and these powers of ten are numbers of the machine.
KeepsOrder(x, y) ==
  \A p \in 0 .. SigDigits : (Below(y, p) => Below(x, p)) /\ (Above(y, p) => Above(x, p))

\* Assumed of the constants, as floats have it: fractions are numbers again, and
\* products are rounded to numbers.
FloatTextAssumption ==
  /\ SigDigits \in Nat \ {0} /\ Jump \in Nat /\ Jump > SigDigits /\ MaxPower \in Nat
  /\ Representable \subseteq [c : Nat \ {0}, q : Int]
  /\ \A x \in Representable :
       /\ 2 * x.c < TenTo[MaxPower]
       /\ Fraction(x) \in Representable \/ Fraction(x).c = 0
       /\ \A p \in -Jump .. Jump :
            Computed(x, p) => /\ Rounded(Shifted(x, p)) \in Representable
                              /\ KeepsOrder(Shifted(x, p), Rounded(Shifted(x, p)))

Init ==
  /\ input \in Representable
  /\ pc = "start"
  /\ number = input /\ kept = input
  /\ factor = 0 /\ exponent = 0 /\ n_int = 0
  /\ n = 0 /\ decimals = 0 /\ buf = << >>
  /\ left = 0 /\ ebuf = << >>

\* Numbers below 1 are scaled up, those above max_scaled down, others split.
Start ==
  /\ pc = "start"
  /\ IF Below(number, 0)
       THEN pc' = "up" /\ UNCHANGED <<number, n_int>>
     ELSE IF Above(number, SigDigits)
       THEN pc' = "down" /\ UNCHANGED <<number, n_int>>
     ELSE pc' = "split" /\ n_int' = Whole(number) /\ number' = Fraction(number)
  /\ UNCHANGED <<input, factor, kept, exponent, figures, powers>>

\* The product with 10^p takes the place of the number.
Take(p) ==
  /\ number' = Times(number, p)
  /\ kept' = IF number' = Shifted(number, p) THEN kept
                                             ELSE Standing(n_int, number', exponent')
  /\ UNCHANGED <<input, factor, n_int, figures, powers>>

\* A turn of the first loops, which multiply or divide the number,
Scale(p) == exponent' = exponent - p /\ Take(p) /\ UNCHANGED pc

\* Mutant of Count: the power of ten is not added to the exponent.
CountForgotten(p) ==
  /\ factor' = factor + p
  /\ UNCHANGED <<input, pc, number, kept, exponent, figures, powers>>

\* and of the others, which multiply the factor or the divisor.
Count(p) ==
  /\ factor' = factor + p
  /\ exponent' = exponent - p
  /\ UNCHANGED <<input, pc, number, kept, figures, powers>>

Apply == pc' = "round" /\ UNCHANGED exponent /\ Take(factor)

Goto(label) == pc' = label /\ UNCHANGED <<input, exponent, scaling, figures, powers>>

ScaleUp ==
  /\ pc = "up"
  /\ IF Below(number, SigDigits - Jump) THEN Scale(Jump) ELSE Goto("multiply")

Multiply ==
  /\ pc = "multiply"
  /\ IF Below(Times(number, factor), SigDigits - 1) THEN Count(1) /\ UNCHANGED n_int
                                                    ELSE Apply

ScaleDown ==
  /\ pc = "down"
  /\ IF Above(number, SigDigits - 1 + Jump) THEN Scale(-Jump) ELSE Goto("divide")

Divide ==
  /\ pc = "divide"
  /\ IF Above(Times(number, factor), SigDigits) THEN Count(-1) /\ UNCHANGED n_int
                                                ELSE Apply

Split ==
  /\ pc = "split"
  /\ IF n_int < min_scaled THEN Count(1) /\ n_int' = 10 * n_int ELSE Apply

-----------------------------------------------------------------------------
\* Mutant of Nearest: the number is rounded down.
NearestBelow(x) == Whole(x)

\* ((UNITY_INT32)(number + number) + 1) / 2, one less if odd and a tie.
Nearest(x) ==
  LET up  == (Whole([x EXCEPT !.c = 2 * @]) + 1) \div 2
      tie == x.q < 0 /\ 2 * (up * PowerOfTen(-x.q) - x.c) = PowerOfTen(-x.q)
  IN  IF up % 2 = 1 /\ tie THEN up - 1 ELSE up

Round ==
  /\ pc = "round"
  /\ pc' = "place"
  /\ LET rounded == Nearest(number) + n_int
     IN  IF rounded >= max_scaled THEN n' = min_scaled /\ exponent' = exponent + 1
                                  ELSE n' = rounded /\ UNCHANGED exponent
  /\ UNCHANGED <<input, scaling, decimals, buf, powers>>

\* Mutants of Decimals: one small power of ten less, or all, without an exponent.
DecimalsOneLess(e) == IF e <= 0 /\ e >= -(SigDigits + 2) THEN -e ELSE SigDigits - 1
DecimalsOfAllSmall(e) == IF e <= 0 THEN -e ELSE SigDigits - 1

Decimals(e) == IF e <= 0 /\ e >= -(SigDigits + 3) THEN -e ELSE SigDigits - 1

Place ==
  /\ pc = "place"
  /\ pc' = "trim"
  /\ decimals' = Decimals(exponent)
  /\ exponent' = exponent + decimals'
  /\ UNCHANGED <<input, scaling, n, buf, powers>>

Trim ==
  /\ pc = "trim"
  /\ IF decimals > 0 /\ n % 10 = 0
       THEN /\ n' = n \div 10
            /\ decimals' = decimals - 1
            /\ UNCHANGED <<input, pc, exponent, scaling, buf, powers>>
       ELSE Goto("digits")

\* The digits, which are then printed backwards, and the sign of the exponent.
Digits ==
  /\ pc = "digits"
  /\ IF n # 0 \/ Len(buf) <= decimals
       THEN /\ buf' = Append(buf, n % 10)
            /\ n' = n \div 10
            /\ UNCHANGED <<input, pc, exponent, scaling, decimals, powers>>
       ELSE /\ pc' = IF exponent # 0 THEN "exponent" ELSE "printed"
            /\ left' = Max({exponent, -exponent})
            /\ UNCHANGED <<input, exponent, scaling, figures, ebuf>>

\* Mutant of ExponentDigits: at least three digits, as some libraries print.
ThreeDigits == left # 0 \/ Len(ebuf) < 3

MoreDigits == left # 0 \/ Len(ebuf) < 2

ExponentDigits ==
  /\ pc = "exponent"
  /\ IF MoreDigits
       THEN /\ ebuf' = Append(ebuf, left % 10)
            /\ left' = left \div 10
            /\ UNCHANGED <<input, pc, exponent, scaling, figures>>
       ELSE Goto("printed")

Next == \/ Start \/ ScaleUp \/ Multiply \/ ScaleDown \/ Divide \/ Split
        \/ Round \/ Place \/ Trim \/ Digits \/ ExponentDigits

Spec == Init /\ [][Next]_vars

-----------------------------------------------------------------------------
\* What is printed stands for Figures * 10^Power.
Figures == ReadBack(Reverse(buf), 10)
Power   == exponent - decimals

DigitsOf(x) == CHOOSE d \in 1 .. x : TenTo[d - 1] <= x /\ x < TenTo[d]

\* The power of ten of the last significant digit of x.
LastPlace(x) == DigitsOf(x.c) + x.q - SigDigits

\* Twice the distance of what is printed from x, in units of 10^least.
TwiceError(x, least) ==
  LET printed == Figures * TenTo[Power - least]
      exact   == x.c * TenTo[x.q - least]
  IN  2 * Max({printed - exact, exact - printed})

\* No number with SigDigits digits is closer to x than the one printed.
IsNearestTo(x) ==
  LET least == Min({Power, x.q, LastPlace(x)})
  IN  TwiceError(x, least) <= TenTo[LastPlace(x) - least]

(***************************************************************************)
(* What is printed is what the scaling has left of the number, rounded to  *)
(* the nearest of SigDigits significant digits: no loop but for the        *)
(* machine's rounding loses a digit, no carry is forgotten, and where no   *)
(* product had to be rounded it is the number itself that is nearest.  Of  *)
(* the number as it was passed, IsNearestTo(input), this does not hold:    *)
(* "The 7th digit won't always be totally correct".                        *)
(***************************************************************************)
PrintedIsNearest == pc = "printed" => IsNearestTo(kept)

\* The power of ten of the first digit printed.
Magnitude == DigitsOf(Figures) - 1 + Power

(***************************************************************************)
(* The format is that of printf's %g: an exponent if the first digit stands *)
(* for less than 10^-4 or more than SigDigits digits are needed before the *)
(* point, then with one digit before the point; and no zero at the end of  *)
(* the decimals.                                                           *)
(***************************************************************************)
LooksLikeG ==
  pc = "printed" =>
    /\ IF Magnitude < -4 \/ Magnitude >= SigDigits
         THEN exponent = Magnitude /\ Len(buf) = decimals + 1
         ELSE exponent = 0 /\ (Len(buf) > decimals + 1 => buf[Len(buf)] # 0)
    /\ decimals > 0 => buf[1] # 0

(***************************************************************************)
(* The exponent reads back as it is, with at least two digits and no zero  *)
(* in front of more.                                                       *)
(***************************************************************************)
ExponentReadsBack ==
  pc = "printed" =>
    IF exponent = 0 THEN ebuf = << >>
    ELSE /\ ReadBack(Reverse(ebuf), 10) = Max({exponent, -exponent})
         /\ Len(ebuf) >= 2 /\ (Len(ebuf) > 2 => ebuf[Len(ebuf)] # 0)

(***************************************************************************)
(* buf has 16 bytes for 7 significant digits; the loop writes at most four *)
(* more digits than are significant.                                       *)
(***************************************************************************)
BufferHolds == Len(buf) <= SigDigits + 4

(***************************************************************************)
(* "round to even if exactly between two integers": of two nearest numbers *)
(* the one with the even last digit is printed.  The code tests the digit  *)
(* of the fraction it rounds, not of the sum with n_int, so this does not  *)
(* hold where all significant digits are in n_int.                         *)
(***************************************************************************)
TiesToEven ==
  pc = "printed" =>
    LET least == Min({Power, kept.q, LastPlace(kept)})
    IN  TwiceError(kept, least) = TenTo[LastPlace(kept) - least] =>
          Power > LastPlace(kept) \/ Figures % 2 = 0
=============================================================================
