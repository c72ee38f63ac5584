SPECIFICATION PlaySpec
CONSTANTS
  Full = 4
  Tiers <- TwoTiers
  LaneCount = 2
  Notes <- MixedNotes
  Mines <- MixedMines
  PG = 0
  GR = 0
  GD = 0
  BD = 1
  Miss = 1
  Early = 2
  HoldBreak = 1
  Mask = 1
  MissGrade = "BD"
  NoFail = FALSE
  LastSample = 8
  KeysPerLane = 1
  StartKeys <- FirstKey
  Late = 0
  MaxEdges = 4
  MaxPauses = 0
  MaxStale = 0
INVARIANTS
  PlayType
  VerifierAgrees
  JudgedInOrder
  JudgedOnce
