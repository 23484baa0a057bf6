\* Safety and refinement: two jobs, two difficulties, two publications.
SPECIFICATION Spec
CONSTANTS
  j1 = j1
  j2 = j2
  Jobs <- MCJobs
  NoJob = NoJob
  CleanJobs <- MCCleanJobs
  BadJobs <- MCBadJobs
  Difficulties <- MCDifficulties
  InitialDifficulty = 1
  BadDifficulties <- MCBadDifficulties
  Hash <- MCHash
  ShareTarget <- MCShareTarget
  MaxExtranonce2 = 1
  MaxNonce = 1
  ChunkSize = 2
  CheckInterval = 2
  MaxGeneration = 2
  MaxFound = 2
INVARIANTS
  PipelineInv
  UniqueSubmissions
  ShareProvenance
  SubmissionsInOrder
  SharesAccountedFor
PROPERTY
  DeliverySpec
