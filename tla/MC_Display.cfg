SPECIFICATION DisplaySpec
CONSTANTS
  App = {"a"}
  PageConf <- MCPageConf
  BootConf <- MCBootConf
  PageRequester = {"w"}
  MaxWidgetEvent = 2
  Ssid = {s1, s2}
  NoSsid = NoSsid
  Sweep = {k1, k2}
  NoSweep = NoSweep
  MaxPress = 7
  Resetter = {r1, r2}
  Network = {n1}
  Item = {i1}
  Nowhere = Nowhere
  Unknown = Unknown
  MaxReset = 2
INVARIANT DisplayTypeOK
INVARIANT DefaultPageKept
PROPERTY ShownRuns
PROPERTY SnapshotShown
PROPERTY UserIsAnswered
PROPERTY NetworkShown
CHECK_DEADLOCK FALSE
