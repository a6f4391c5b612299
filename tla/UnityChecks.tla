---------------------------- MODULE UnityChecks -----------------------------
(***************************************************************************)
(* One assertion of Unity, or one number that it prints: the test program  *)
(* makes one call at a time, of one of the parts below.  The variables of  *)
(* the other parts hold Unused.                                            *)
(***************************************************************************)
EXTENDS UnityWords

CONSTANTS
  \* What each part takes as its constants of the same names.
  ArrayStyles, ArrayLengths, ArrayPatterns(_), ArrayDeltas,
  NumberTypes, NumberValues, NumberDeltas, NumberMasks,
  TextBuffers, TextElements, TextSizes, TextLimits,
  MaxFinite, Precision, FloatValues, FloatElements, FloatDeltas, FloatSizes,
  MemoryBytes, MemoryLengths, MemorySizes,
  DigitBits, DigitPatterns,
  SigDigits, Jump, MaxPower, FloatNumbers, FloatRounded(_),
  NullPtr,
  Unused  \* not a value of any variable

VARIABLES
  part,                          \* the part that is called
  call, outcome, report,         \* assertions
  memory, expected, actual, elements, ptr_exp, ptr_act, bytes, i, j, k,
  input, pc, number,             \* output
  divisor, nibbles, out, exponent, n_int, n, decimals, buf,
  factor, kept, left, ebuf

\* Of the variables above, by who uses them.
pointers   == <<memory, expected, actual>>
blocks     == <<ptr_exp, ptr_act, bytes>>
indices    == <<i, j>>
assertions == <<call, outcome, report, pointers, elements, blocks, indices, k>>
integers   == <<divisor, nibbles, out>>
scaled     == <<factor, kept, exponent, n_int>>
figures    == <<n, decimals, buf, left, ebuf>>
printing   == <<input, pc, number, integers, scaled, figures>>

checksVars == <<part, assertions, printing>>

-----------------------------------------------------------------------------
Arrays == INSTANCE UnityIntArrays WITH
  Styles <- ArrayStyles, Lengths <- ArrayLengths,
  Patterns <- ArrayPatterns, Deltas <- ArrayDeltas

Numbers == INSTANCE UnityNumbers WITH
  Types <- NumberTypes, Values <- NumberValues, Deltas <- NumberDeltas, Masks <- NumberMasks

Texts == INSTANCE UnityText WITH
  Buffers <- TextBuffers, Elements <- TextElements, Sizes <- TextSizes, Limits <- TextLimits

Floats == INSTANCE UnityFloats WITH
  Floats <- FloatValues, ArrayFloats <- FloatElements, Deltas <- FloatDeltas,
  Sizes <- FloatSizes

Memory == INSTANCE UnityMemory WITH
  Bytes <- MemoryBytes, Lengths <- MemoryLengths, Sizes <- MemorySizes

Digits == INSTANCE UnityDigits WITH Bits <- DigitBits, Patterns <- DigitPatterns

Fraction == INSTANCE UnityFloatText WITH
  Representable <- FloatNumbers, Rounded <- FloatRounded

ASSUME ChecksAssumption ==
  /\ Arrays!ArrayAssumption /\ Numbers!TypesAssumption /\ Texts!TextAssumption
  /\ Floats!FloatAssumption /\ Memory!MemoryAssumption
  /\ Digits!DigitsAssumption /\ Fraction!FloatTextAssumption

-----------------------------------------------------------------------------
NoPointers  == memory = Unused /\ expected = Unused /\ actual = Unused
NoElements  == elements = Unused
NoBlocks    == ptr_exp = Unused /\ ptr_act = Unused /\ bytes = Unused
NoIndices   == i = Unused /\ j = Unused
NoFloats    == k = Unused
NoAssertion == /\ call = Unused /\ outcome = Unused /\ report = Unused
               /\ NoPointers /\ NoElements /\ NoBlocks /\ NoIndices /\ NoFloats
NoIntegers  == divisor = Unused /\ nibbles = Unused /\ out = Unused
NoScaled    == factor = Unused /\ kept = Unused /\ exponent = Unused /\ n_int = Unused
NoFigures   == /\ n = Unused /\ decimals = Unused /\ buf = Unused
               /\ left = Unused /\ ebuf = Unused
NoPrinting  == /\ input = Unused /\ pc = Unused /\ number = Unused
               /\ NoIntegers /\ NoScaled /\ NoFigures

ChecksInit ==
  \/ /\ part = "arrays" /\ Arrays!Init
     /\ NoBlocks /\ NoIndices /\ NoFloats /\ NoPrinting
  \/ /\ part = "numbers" /\ Numbers!Init
     /\ NoPointers /\ NoElements /\ NoBlocks /\ NoIndices /\ NoFloats /\ NoPrinting
  \/ /\ part = "text" /\ Texts!Init
     /\ NoPointers /\ NoElements /\ NoBlocks /\ NoFloats /\ NoPrinting
  \/ /\ part = "floats" /\ Floats!Init /\ report = Unused
     /\ NoPointers /\ NoElements /\ NoBlocks /\ NoIndices /\ NoPrinting
  \/ /\ part = "memory" /\ Memory!Init
     /\ NoPointers /\ NoIndices /\ NoFloats /\ NoPrinting
  \/ part = "digits" /\ Digits!Init /\ NoScaled /\ NoFigures /\ NoAssertion
  \/ part = "fraction" /\ Fraction!Init /\ NoIntegers /\ NoAssertion

ChecksNext ==
  \/ part = "arrays" /\ Arrays!Next /\ UNCHANGED <<part, blocks, indices, k, printing>>
  \/ /\ part = "numbers" /\ Numbers!Next
     /\ UNCHANGED <<part, pointers, elements, blocks, indices, k, printing>>
  \/ /\ part = "text" /\ Texts!Next
     /\ UNCHANGED <<part, pointers, elements, blocks, k, printing>>
  \/ /\ part = "floats" /\ Floats!Next
     /\ UNCHANGED <<part, report, pointers, elements, blocks, indices, printing>>
  \/ /\ part = "memory" /\ Memory!Next
     /\ UNCHANGED <<part, pointers, indices, k, printing>>
  \/ part = "digits" /\ Digits!Next /\ UNCHANGED <<part, assertions, scaled, figures>>
  \/ part = "fraction" /\ Fraction!Next /\ UNCHANGED <<part, assertions, integers>>

ChecksSpec == ChecksInit /\ [][ChecksNext]_checksVars

-----------------------------------------------------------------------------
(***************************************************************************)
(* Assertions on integers, bits, strings and memory, and on arrays of      *)
(* them, fail exactly when the mathematical relation does not hold or      *)
(* there is nothing to compare (no element, a block of no bytes, one array *)
(* of two), whatever wraps around or is sign-extended on the way; and they *)
(* name the first difference.                                              *)
(***************************************************************************)
AssertsAsStated ==
  /\ part = "arrays"  => Arrays!ComparesNumbers
  /\ part = "numbers" => Numbers!JudgesNumbers
  /\ part = "text"    => Texts!ComparesText
  /\ part = "memory"  => Memory!NamesFirstDifference

(***************************************************************************)
(* Assertions on floats and arrays of floats judge as the relation on real *)
(* numbers, infinities and NaN does, though differences overflow.          *)
(***************************************************************************)
FloatsAsStated ==
  part = "floats" =>
    /\ Floats!WithinIsNear /\ Floats!OrderOfNumbers /\ Floats!ArraysAreNear

(***************************************************************************)
(* No comparison reads in front of or behind what it was given: arrays, a  *)
(* value compared with an array, strings with and without a terminator,    *)
(* blocks.  Printing a string of a given length reads one character too    *)
(* many at most.                                                           *)
(***************************************************************************)
ReadsInside ==
  /\ part = "arrays" => Arrays!ReadsWhatIsThere
  /\ part = "text"   => Texts!ReadsInside
  /\ part = "memory" => Memory!StaysInBuffers

(***************************************************************************)
(* What is printed of a failure shows the difference, in every style.      *)
(***************************************************************************)
FailuresVisible ==
  /\ part = "arrays"  => Arrays!FailureIsVisible
  /\ part = "numbers" => Numbers!FailureIsVisible
  /\ part = "text"    => Texts!FailureIsVisible

(***************************************************************************)
(* Integers read back as themselves from what is printed.  Floats read     *)
(* back as the number with the significant digits there are that is        *)
(* nearest to what the machine's rounding has left of them when they are   *)
(* scaled, in the form of %g, with their exponent; and neither the divisor *)
(* nor the buffer overflows on the way.                                    *)
(***************************************************************************)
NumbersPrintedRight ==
  /\ part = "digits"   => Digits!ReadsBack /\ Digits!DivisorFits
  /\ part = "fraction" =>
       /\ Fraction!PrintedIsNearest /\ Fraction!LooksLikeG
       /\ Fraction!ExponentReadsBack /\ Fraction!BufferHolds
=============================================================================
