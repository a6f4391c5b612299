SPECIFICATION ChecksSpec
CONSTANTS
  ByteBits = 2
  ArrayStyles <- UNITY_DISPLAY_STYLE_T
  ArrayLengths = {0, 1, 2}
  ArrayPatterns <- Corners
  ArrayDeltas <- CornerDeltas
  NumberTypes <- TypesAll
  NumberValues <- ValuesCorners
  NumberDeltas <- DeltasCorners
  NumberMasks <- MasksCorners
  TextBuffers <- BuffersSmall
  TextElements <- ElementsSmall
  TextSizes = {0, 1, 2}
  TextLimits = {0, 1, 2}
  MaxFinite = 9
  Precision = 4
  FloatValues <- FloatsSmall
  FloatElements <- FloatElementsSmall
  FloatDeltas <- FloatDeltasSmall
  FloatSizes = {0, 1, 2}
  MemoryBytes = {0, 1}
  MemoryLengths = {0, 1, 2}
  MemorySizes = {0, 1, 3}
  DigitBits = 8
  DigitPatterns <- PatternsAll
  SigDigits = 2
  Jump = 3
  MaxPower = 5
  FloatNumbers <- NumbersOf4
  FloatRounded <- RoundedTo4
  NullPtr = NullPtr
  Unused = Unused
INVARIANTS AssertsAsStated FloatsAsStated ReadsInside FailuresVisible NumbersPrintedRight
\* One call, then the behaviour ends.
CHECK_DEADLOCK FALSE
