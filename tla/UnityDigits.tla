----------------------------- MODULE UnityDigits -----------------------------
(***************************************************************************)
(* UnityPrintNumberByStyle and the loops it calls to print an integer:     *)
(* UnityPrintNumber, UnityPrintNumberUnsigned and UnityPrintNumberHex, on  *)
(* numbers of Bits bits.  One behaviour prints one number.                 *)
(***************************************************************************)
EXTENDS UnityDecimals, FiniteSetsExt

CONSTANTS
  Bits,    \* UNITY_INT and UNITY_UINT have so many bits: 64
  Patterns \* the numbers printed, as bit patterns

\* Assumed of the constants.
DigitsAssumption ==
  /\ Bits \in Nat \ {0} /\ Bits % 4 = 0
  /\ Patterns \subseteq 0 .. 2^Bits - 1

VARIABLES
  input,   \* the number to print and its style
  pc,      \* the loop
  number, divisor, nibbles,
  out      \* what is printed: digits, and Minus

vars == <<input, pc, number, divisor, nibbles, out>>

UNITY_MAX_NIBBLES == Bits \div 4

Minus == -1

\* HEX with the number of digits that UnityPrintNumberByStyle passes.
Init ==
  /\ input \in [pattern : Patterns, range : {"INT", "UINT"}]
               \cup [pattern : Patterns, range : {"HEX"}, nibbles : 2 .. 2 * UNITY_MAX_NIBBLES]
  /\ pc = "start"
  /\ number = input.pattern
  /\ divisor = 1 /\ nibbles = 0
  /\ out = << >>

IsNegative == input.pattern >= 2^(Bits - 1)

\* Mutant of Negated: the complement, without the one.
Complement(x) == (2^Bits - 1 - x) % 2^Bits

\* (~number) + 1
Negated(x) == (2^Bits - 1 - x + 1) % 2^Bits

UnityPrintNumberByStyle ==
  /\ pc = "start"
  /\ \/ input.range = "HEX"  /\ pc' = "hex"
     \/ input.range = "UINT" /\ pc' = "unsigned"
     \/ input.range = "INT"  /\ pc' = "signed"
  /\ UNCHANGED <<input, number, divisor, nibbles, out>>

UnityPrintNumber ==
  /\ pc = "signed"
  /\ pc' = "unsigned"
  /\ IF IsNegative THEN out' = <<Minus>> /\ number' = Negated(number)
                   ELSE UNCHANGED <<out, number>>
  /\ UNCHANGED <<input, divisor, nibbles>>

\* Mutant of MoreDigits: the divisor is multiplied once more.
MoreDigitsOnce == number \div divisor >= 1

MoreDigits == number \div divisor > 9

\* First the divisor, then a digit for each power of ten down to 1.
UnityPrintNumberUnsigned ==
  \/ /\ pc = "unsigned"
     /\ IF MoreDigits THEN divisor' = (divisor * 10) % 2^Bits /\ UNCHANGED pc
                      ELSE pc' = "digits" /\ UNCHANGED divisor
     /\ UNCHANGED <<input, number, nibbles, out>>
  \/ /\ pc = "digits"
     /\ out' = Append(out, (number \div divisor) % 10)
     /\ divisor' = divisor \div 10
     /\ pc' = IF divisor' > 0 THEN "digits" ELSE "printed"
     /\ UNCHANGED <<input, number, nibbles>>

UnityPrintNumberHex ==
  \/ /\ pc = "hex"
     /\ nibbles' = Min({input.nibbles, UNITY_MAX_NIBBLES})
     /\ pc' = "nibbles"
     /\ UNCHANGED <<input, number, divisor, out>>
  \/ /\ pc = "nibbles"
     /\ IF nibbles > 0
          THEN /\ nibbles' = nibbles - 1
               /\ out' = Append(out, (number \div 2^(4 * nibbles')) % 16)
               /\ UNCHANGED pc
          ELSE pc' = "printed" /\ UNCHANGED <<nibbles, out>>
     /\ UNCHANGED <<input, number, divisor>>

Next ==
  \/ UnityPrintNumberByStyle \/ UnityPrintNumber
  \/ UnityPrintNumberUnsigned \/ UnityPrintNumberHex

Spec == Init /\ [][Next]_vars

-----------------------------------------------------------------------------
Figures == IF Head(out) = Minus THEN Tail(out) ELSE out

(***************************************************************************)
(* What is printed reads back as the number: with its sign, the smallest   *)
(* UNITY_INT included, which has no negative; without leading zeros; and   *)
(* in HEX the lowest digits, as many as asked for or a number has.         *)
(***************************************************************************)
ReadsBack ==
  pc = "printed" =>
    IF input.range = "HEX"
      THEN ReadBack(out, 16) = input.pattern % 2^(4 * Min({input.nibbles, UNITY_MAX_NIBBLES}))
      ELSE /\ (IF Head(out) = Minus THEN -1 ELSE 1) * ReadBack(Figures, 10)
                = IF input.range = "INT" /\ IsNegative THEN input.pattern - 2^Bits ELSE input.pattern
           /\ Len(Figures) > 1 => Figures[1] # 0

(***************************************************************************)
(* The divisor never wraps around: it is a power of ten, not larger than   *)
(* the number, which for 2^64 - 1 leaves no room for one factor more.      *)
(***************************************************************************)
DivisorFits ==
  /\ pc = "unsigned" => \E p \in 0 .. Bits : divisor = TenTo[p]
  /\ divisor <= Max({number, 1})
=============================================================================
