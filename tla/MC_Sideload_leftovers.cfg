SPECIFICATION SideloadSpec
CONSTANTS
  h1 = h1
  h2 = h2
  Handler = {h1, h2}
  MaxSession = 2
  MaxGen = 1
INVARIANTS NothingLeftBehind
CHECK_DEADLOCK FALSE
