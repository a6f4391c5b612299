----------------------------- MODULE UnityWords -----------------------------
(***************************************************************************)
(* Numbers as Unity's assertions see them: bit patterns in memory,         *)
(* UNITY_INT and UNITY_UINT of 8 bytes, and a display style that says how  *)
(* many bytes of a number count and whether they have a sign.              *)
(***************************************************************************)
EXTENDS Integers

CONSTANT ByteBits  \* bits of a byte (8)

ASSUME WordAssumption == ByteBits \in Nat \ {0}

UNITY_DISPLAY_STYLE_T ==
  [length : {1, 2, 4, 8}, range : {"INT", "UINT", "HEX"}]
    \cup [length : {1}, range : {"CHAR"}]

\* UNITY_DISPLAY_STYLE_CHAR has the flag of the signed range as well.
IsSigned(style) == style.range \in {"INT", "CHAR"}

Low(v, n) == v % 2^(ByteBits * n)

\* A pattern of n bytes, read as a signed number.
Signed(pattern, n) ==
  IF pattern < 2^(ByteBits * n - 1) THEN pattern ELSE pattern - 2^(ByteBits * n)

\* The casts (UNITY_UINT) and (UNITY_INT).
UNITY_UINT(v) == Low(v, 8)
UNITY_INT(v)  == Signed(UNITY_UINT(v), 8)

\* Mutant of Differs: the difference is taken as a UNITY_INT.
DiffersSigned(style, delta, e, a) ==
  IF IsSigned(style)
    THEN UNITY_INT(IF a > e THEN a - e ELSE e - a) > delta
    ELSE UNITY_INT(UNITY_UINT(a) - UNITY_UINT(e)) > delta

\* The test of the two assertions with a delta.
Differs(style, delta, e, a) ==
  LET larger == IF IsSigned(style) THEN a > e ELSE UNITY_UINT(a) > UNITY_UINT(e)
  IN  IF larger THEN UNITY_UINT(UNITY_UINT(a) - UNITY_UINT(e)) > delta
                ELSE UNITY_UINT(UNITY_UINT(e) - UNITY_UINT(a)) > delta

\* What UnityPrintNumberByStyle shows of a UNITY_INT: a number with or without
\* its sign, a character or its code, or two hexadecimal digits per byte.
Shown(style, v) ==
  CASE style.range = "HEX" -> Low(v, style.length)
    [] style.range = "CHAR" -> Low(v, 1)
    [] style.range = "UINT" -> UNITY_UINT(v)
    [] style.range = "INT" -> v

-----------------------------------------------------------------------------
\* The number a pattern of the style's length stands for.
NumberOf(style, pattern) ==
  IF IsSigned(style) THEN Signed(pattern, style.length) ELSE pattern

\* The corners of the patterns of n bytes: where signs change and words end.
Corners(n) ==
  {0, 1, 2^(ByteBits * n - 1) - 1, 2^(ByteBits * n - 1), 2^(ByteBits * n) - 1}
=============================================================================
