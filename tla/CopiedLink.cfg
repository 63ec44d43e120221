SPECIFICATION FairSpec
CONSTANTS
  f = f  b = b  d = d  n = n  e = e  q = q  x = x
  Brokers <- FourBrokers
  Names <- ThreeNames
  Registering <- OneBroker
  StableBrokers <- AllButFailing
  Backup <- BackupValue
  Objects <- wired
  FirstObjects <- atTheStart
  Changing <- onlyBridge
  Ignored <- NoName
  PipeSize = 12
PROPERTY CopiedLinkIsRerouted
CHECK_DEADLOCK FALSE
