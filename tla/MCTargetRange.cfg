\* The upper half of the supported range of difficulties.
SPECIFICATION Spec
CONSTANTS
  LimbBits = 6
  ByteBits = 2
  DigitBits = 1
  OctBits = 2
  Decimal = 3
  Exponents <- MCExponents
  Coefficients <- MCCoefficients
  Difficulties <- MCDifficulties
  Digests <- MCDigests
INVARIANTS
  TargetFollowsDifficulty
