SPECIFICATION FairSpec
CONSTANTS
  Worker = {w1, w2}
  Assets = 4
  piano = piano
  drum = drum
  Pcm = {piano, drum}
  Broken = broken
  Sound <- MCSound
  Bytes <- MCBytes
  Bgm <- MCBgm
  Notes <- MCNotes
  Duration <- MCDuration
  Offset = 1
  StartupWindow = 2
  Prefetch = 4
  ServiceStep = 2
  Budget = 1
  Frames = 2
  Latency = 2
  Window = 2
  Lookahead = 1
  ResultTail = 0
  PlayToEnd = TRUE
  LoadedBy = 8
  LastSample = 18
INVARIANTS
  TypeOK
  HeardOnce
  DroppedForATwin
  StartsLoaded
  HeardToTheEnd
PROPERTIES
  PlayEnds
CHECK_DEADLOCK FALSE
