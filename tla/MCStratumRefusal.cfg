CONSTANTS
  Jobs = {j1}
  NoJob = none
  Difficulties = {d1}
  InitialDifficulty = d1
  PiecesPerLine = 2
  MaxSubmits = 1
  MaxPushes = 1
  IntMax = 7
  Noise = {}
SPECIFICATION Spec
PROPERTIES
  RefusalStopsSubmissions
