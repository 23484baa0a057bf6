\* Every kind of output, each transaction also cut, continued and altered.
SPECIFICATION Spec
CONSTANTS
  ByteBits = 3
  GroupBits = 2
  AccBits = 5
  U16Size = 1
  U32Size = 2
  U64Size = 3
  HashSize = 1
  KeyHashSize = 1
  ScriptHashSize = 2
  Op <- MCOp
  Gen <- MCGen
  Hrp <- MCHrp
  ReserveLimit = 40
  Inputs <- MCInputs
  ValidTransactions <- MCValidTransactions
INVARIANTS
  DecodeExact
  AddressExact
