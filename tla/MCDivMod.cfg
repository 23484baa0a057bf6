\* Limbs of two one-bit bytes: 256 numbers, all 65,536 pairs.
SPECIFICATION Spec
CONSTANTS
  LimbBits = 2
  ByteBits = 1
  Operands <- MCOperands
INVARIANTS
  LoopInv
  DivisionExact
  OperatorsExact
