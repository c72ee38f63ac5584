SPECIFICATION SpecReady
CONSTANTS
  Host = host
  Joiners = {j1, j2}
  Charts = {x}
  NoChart = none
  Rates = {100}
  DefaultRate = 100
  MaxPlayers = 3
  Calls = {"leave"}
  MaxRounds = 2
  MaxExtras = 1
  UpBound = 2
  DownBound = 1
PROPERTY KeepsTurns
\* A room may close, and a behaviour may use up its rounds.
CHECK_DEADLOCK FALSE
