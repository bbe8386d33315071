SPECIFICATION FairSpec
CONSTANTS
  None = None
  Live = Live
  Slots = {s1}
  Templates = {t1}
  Commands <- EnrollMsgs
  EarlyCommands <- QuietBoot
  FeatureCount = 2
  MaxAttempts = 1
  LedPeriod = 1
  SensorReadyFirst = TRUE
  SensorFaults = FALSE
  SensorDrops = TRUE
  SensorReturns = FALSE
  MessagesLost = FALSE
  PowerLoss = FALSE
PROPERTY MainLoops
CHECK_DEADLOCK FALSE
