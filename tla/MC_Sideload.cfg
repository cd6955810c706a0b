SPECIFICATION FairSideloadSpec
CONSTANTS
  h1 = h1
  h2 = h2
  Handler = {h1, h2}
  MaxSession = 2
  MaxGen = 1
INVARIANTS SideloadTypeOK OneOpenSession EndsOnce
PROPERTIES DeadAppEndsSession
CHECK_DEADLOCK FALSE
