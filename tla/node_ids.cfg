SPECIFICATION Spec
CONSTANTS
  None = None
  Live = Live
  Slots = {s1}
  Templates = {t1, t2}
  Commands <- LibraryCommands
  EarlyCommands <- QuietBoot
  FeatureCount = 1
  MaxAttempts = 1
  LedPeriod = 1
  SensorReadyFirst = TRUE
  SensorFaults = TRUE
  SensorDrops = TRUE
  SensorReturns = TRUE
  MessagesLost = TRUE
  PowerLoss = TRUE
INVARIANTS IdNamesTemplate CountIsFresh
SYMMETRY TemplateSymmetry
