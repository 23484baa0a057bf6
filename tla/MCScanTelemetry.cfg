\* Three publications, so that superseded work is re-adopted and left twice.
SPECIFICATION Spec
CONSTANTS
  MaxNonce = 7
  ChunkSize = 4
  CheckInterval = 2
  ShareNonces <- MCShareNonces
  BlockNonces <- MCBlockNonces
  MaxGeneration = 3
  MaxScans = 6
INVARIANTS
  ScanInv
  StatusAccurate
  FinalTotalsExact
  ResultExact
  StaleWorkBounded
