CONSTANTS
  Game = {g1}
  Worker = {w1, w2}
  MaxVersion = 1
  MaxChange = 2
  Nothing = Nothing
SPECIFICATION MCReadySpec
PROPERTY UpToDateAnswered
CHECK_DEADLOCK FALSE
