SPECIFICATION ServiceSpec
CONSTANTS
  g1 = g1
  a1 = a1
  a2 = a2
  f1 = f1
  Downloader = {t1, t2}
  Canceler = {t3}
  Download = {g1}
  Archive = {a1, a2}
  File = {f1}
  FileOf <- MCFileOf
  Offered <- MCOffered
  NoDownload = NoDownload
  NoArchive = NoArchive
  BrightnessSetter = {1, 2}
  Levels = 2
  Mac = {m1}
  MaxControllerEvent = 2
  MaxFirmwareEvent = 3
  Author = {1, 2}
  Field = {"brightness", "name"}
  MaxJsonEvent = 3
  MaxSession = 2
INVARIANT ServiceTypeOK
INVARIANT ActiveHasWorker
INVARIANT VerifiedOnDisk
INVARIANT ScanEnds
INVARIANT UpgradeShown
INVARIANT HalfInstalledIsMarked
INVARIANT BannerHasUpdate
INVARIANT SerialKept
INVARIANT SettingsKept
INVARIANT PatchesHaveOutbox
INVARIANT ConnectedIsServed
PROPERTY DownloadEnds
PROPERTY DimEnds
PROPERTY StatusFollows
PROPERTY RequestCleared
PROPERTY DeadBridgeReplaced
CHECK_DEADLOCK FALSE
