--------------------------- MODULE MCUnityChecks ----------------------------
(***************************************************************************)
(* The small instance of UnityChecks: what tests pass, and what memory     *)
(* holds.  Bytes have 2 bits, so a UNITY_INT has 16.                       *)
(***************************************************************************)
EXTENDS UnityChecks

\* The corners of the deltas of 64 bits, from the corners of the patterns.
CornerDeltas == Corners(8)

\* The types of the macros: INT and UINT pass 8 bytes and show 4.
TypesAll ==
  {[bytes |-> s.length, style |-> s] : s \in UNITY_DISPLAY_STYLE_T}
    \cup {[bytes |-> 8, style |-> [length |-> 4, range |-> r]] : r \in {"INT", "UINT"}}

\* Corners of every width, as unsigned and as signed numbers of 64 bits.
ValuesCorners ==
  (UNION {Corners(w) : w \in {1, 2, 4, 8}}) \cup {UNITY_INT(v) : v \in Corners(8)}
    \cup {-2^(ByteBits * w - 1) : w \in {1, 2, 4}}

DeltasCorners == {0, 1, 2, 4, 2^(8 * ByteBits - 1), 2^(8 * ByteBits) - 1}

MasksCorners == {0, 1, 2^(4 * ByteBits) - 1, 2^(4 * ByteBits), 2^(8 * ByteBits) - 1}

\* 0, a control character, line feed, \, n, and a character above 127 that
\* shares its low digit with the control character.
Chars == {0, 8, 10, 92, 110, -56}

BuffersSmall == [0 .. 1 -> Chars] \cup [0 .. 2 -> {0, 110}]

ElementsSmall == {[c \in 0 .. 1 |-> IF c = 0 THEN first ELSE 0] : first \in {0, 110}}
                 \cup {[c \in 0 .. 2 |-> IF c < 2 THEN 110 ELSE 0], NullPtr}

\* MaxFinite is 9 and Precision 4: zero, values on both sides of a unit of
\* Precision, the largest, and the special ones (10 is infinity, 11 NaN);
\* differences of the largest overflow.
FloatsSmall == {-10, -9, -4, -1, 0, 3, 4, 5, 9, 10, 11}
FloatElementsSmall == {-9, -4, -1, 4, 5, 9, 10, 11}
FloatDeltasSmall == {-1, 0, 9, 10, 11}

\* All numbers of 8 bits.
PatternsAll == 0 .. 255

\* A machine whose last place counts now in halves, now in ones or twos of the
\* third digit, as the last bit of a float does in decimals, so that products
\* with powers of ten are rounded; two digits are significant.  Exponents lead
\* beyond all jumps of the scaling loops, on both sides.
LastUnit(c, place) == IF place % 2 = 0 THEN 10 ELSE IF c < 5000 THEN 5 ELSE 20

RoundedTo4(x) ==
  IF x.c > 9999 THEN x
  ELSE LET missing == CHOOSE m \in 0 .. 3 : x.c * 10^m \in 1000 .. 9999
           c       == x.c * 10^missing
           unit    == LastUnit(c, x.q - missing)
       IN  IF c % unit = 0 THEN x
           ELSE [c |-> unit * ((c + unit \div 2) \div unit), q |-> x.q - missing]

NumbersOf4 == {x \in [c : 1 .. 10000, q : -12 .. 5] : RoundedTo4(x) = x}
=============================================================================
