SPECIFICATION Spec
CONSTANTS
  s1 = s1  s2 = s2
  Services <- TwoServices
  Modes <- BothModes
  Backups = 1
  ServerPeriod = 1
  Expiry = 2
  LoopTimeout = 2
  MaxDelay = 1
  BlockTimes <- ShortAndLong
  MaxUnread = 1
  MaxRequests = 2
SYMMETRY Symmetry
INVARIANTS TypeOK OnlyDelayMisjudges NoticedInTime OneBackupPerRequest TableIsExact
CHECK_DEADLOCK FALSE
