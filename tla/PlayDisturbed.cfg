SPECIFICATION PlayFair
CONSTANTS
  Full = 2
  Tiers <- TwoTiers
  LaneCount = 1
  Notes <- DenseNotes
  Mines <- NoMines
  PG = 0
  GR = 1
  GD = 1
  BD = 2
  Miss = 2
  Early = 3
  HoldBreak = 1
  Mask = 1
  MissGrade = "BD"
  NoFail = FALSE
  LastSample = 7
  KeysPerLane = 1
  StartKeys = {}
  Late = 2
  MaxEdges = 3
  MaxPauses = 1
  MaxStale = 1
INVARIANTS
  TailsSettle
  ReplayInOrder
PROPERTIES
  FailureIsFinal
  GaugeOnlyFalls
  PlayEnds
