SPECIFICATION SpecTrio
CONSTANTS
  Host = host
  Joiners = {j1, j2}
  Charts = {x}
  NoChart = none
  Rates = {100}
  DefaultRate = 100
  MaxPlayers = 3
  Calls = {"leave", "timeout", "unready"}
  MaxRounds = 2
  MaxExtras = 2
  UpBound = 2
  DownBound = 1
INVARIANT SeatsAgree
INVARIANT BarrierHolds
INVARIANT RoundOutlivesPlay
INVARIANT RoundFramesAccepted
INVARIANT RoundKnown
PROPERTY KeepsTurnsOrSkips
PROPERTY ClosedInFull
\* A room may close, and a behaviour may use up its rounds.
CHECK_DEADLOCK FALSE
