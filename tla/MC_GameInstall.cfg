CONSTANTS
  Game = {g1}
  Worker = {w1, w2}
  MaxVersion = 2
  MaxChange = 2
  Nothing = Nothing
SPECIFICATION MCSpec
INVARIANT GameTypeOK
INVARIANT OneDownloadPerGame
PROPERTY DownloadAnswered
PROPERTY StartupResumed
CHECK_DEADLOCK FALSE
