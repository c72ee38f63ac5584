SPECIFICATION Spec
CONSTANTS
  Host = host
  Joiners = {j1}
  Charts = {x}
  NoChart = none
  Rates = {100}
  DefaultRate = 100
  MaxPlayers = 2
  Calls = {}
  MaxRounds = 1
  MaxExtras = 0
  UpBound = 2
  DownBound = 1
INVARIANT FoundIsAnnounced
\* A room may close, and a behaviour may use up its rounds.
CHECK_DEADLOCK FALSE
