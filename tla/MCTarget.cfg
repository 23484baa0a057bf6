\* Exponents to past the topmost byte, every difficulty of the reduced width.
SPECIFICATION Spec
CONSTANTS
  LimbBits = 6
  ByteBits = 2
  DigitBits = 1
  OctBits = 2
  Decimal = 3
  Exponents <- MCExponents
  Coefficients <- MCCoefficients
  Difficulties <- MCDifficulties
  Digests <- MCDigests
INVARIANTS
  CompactExact
  TargetExact
  HexExact
  TextExact
