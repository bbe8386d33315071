SPECIFICATION FairSpec
CONSTANTS
  None = None
  Live = Live
  Slots = {s1}
  Templates = {t1}
  Commands <- EnrollOrPush
  EarlyCommands <- QuietBoot
  FeatureCount = 1
  MaxAttempts = 1
  LedPeriod = 1
  SensorReadyFirst = TRUE
  SensorFaults = FALSE
  SensorDrops = FALSE
  SensorReturns = FALSE
  MessagesLost = FALSE
  PowerLoss = FALSE
PROPERTIES ThreadListens MainLoops
