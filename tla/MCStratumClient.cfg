CONSTANTS
  Jobs = {j1, j2}
  NoJob = none
  Difficulties = {d1, d2}
  InitialDifficulty = d1
  PiecesPerLine = 2
  MaxSubmits = 2
  MaxPushes = 2
  IntMax = 7
  Noise = {"text", "short_notify", "wide_id"}
SYMMETRY JobSymmetry
SPECIFICATION Spec
INVARIANTS
  ClientInv
  StreamConserved
  WorkIsLatest
  VerdictsMatch
