\* A clean_jobs notify that arrives while submit_share awaits its answer.
SPECIFICATION Spec
CONSTANTS
  j1 = j1
  j2 = j2
  Jobs <- MCJobs
  NoJob = NoJob
  CleanJobs <- MCCleanJobs
  BadJobs <- MCBadJobs
  Difficulties <- MCDifficulties
  InitialDifficulty = 1
  BadDifficulties <- MCBadDifficulties
  Hash <- MCHash
  ShareTarget <- MCShareTarget
  MaxExtranonce2 = 1
  MaxNonce = 1
  ChunkSize = 2
  CheckInterval = 2
  MaxGeneration = 2
  MaxFound = 2
PROPERTY
  DiscardedJobsNotSubmitted
