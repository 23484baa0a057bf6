\* Three chunks to a nonce range, the last one shorter.
SPECIFICATION Spec
CONSTANTS
  Jobs <- MCJobs
  Extranonce1 <- MCExtranonce1
  extranonce2_size = 2
  SizeLimit = 3
  Byte = 2
  ChunkSize = 6
INVARIANTS
  SubmissionReproduces
  InStep
  ModelIsMiner
