\* The whole miner with a pool that answers.
SPECIFICATION MiningFairSpec
CONSTANTS
  good = good
  Jobs <- MCJobs
  NoJob = NoJob
  CleanJobs <- MCJobs
  BadJobs = {}
  Difficulties <- MCDifficulties
  InitialDifficulty = 1
  BadDifficulties <- MCBadDifficulties
  Hash <- MCHash
  ShareTarget <- MCShareTarget
  MaxExtranonce2 = 0
  MaxNonce = 0
  ChunkSize = 1
  CheckInterval = 1
  MaxGeneration = 2
  MaxFound = 1
  PiecesPerLine = 1
  MaxSubmits = 2
  MaxPushes = 2
  IntMax = 7
  Noise = {}
  Unrestricted = FALSE
INVARIANTS
  OnlySubmitsSwallow
  CountsArePools
PROPERTIES
  PipelineSpec
  SocketDrains
  SubmitReturns
  QueueDrains
  NewWorkAdopted
  StopCompletes
