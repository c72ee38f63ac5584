SPECIFICATION PlaySpec
CONSTANTS
  Full = 6
  Tiers <- TwoTiers
  LaneCount = 1
  Notes <- DenseNotes
  Mines <- NoMines
  PG = 0
  GR = 1
  GD = 1
  BD = 2
  Miss = 2
  Early = 3
  HoldBreak = 1
  Mask = 1
  MissGrade = "BD"
  NoFail = FALSE
  LastSample = 9
  KeysPerLane = 2
  StartKeys = {}
  Late = 0
  MaxEdges = 3
  MaxPauses = 0
  MaxStale = 0
INVARIANT TailsSettle
