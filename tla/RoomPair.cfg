SPECIFICATION SpecPair
CONSTANTS
  Host = host
  Joiners = {j1, j2}
  Charts = {x, y}
  NoChart = none
  Rates = {100, 150}
  DefaultRate = 100
  MaxPlayers = 2
  Calls = {"choose", "rate", "unready", "live", "chat", "leave", "timeout", "close"}
  MaxRounds = 2
  MaxExtras = 1
  UpBound = 2
  DownBound = 1
INVARIANT TypeOK
INVARIANT VotesFresh
INVARIANT SameRate
PROPERTY KeepsTurns
PROPERTY EverybodyReturns
\* A room may close, and a behaviour may use up its rounds.
CHECK_DEADLOCK FALSE
