SPECIFICATION Spec
CONSTANTS
  None = None
  Live = Live
  Slots = {s1}
  Templates = {t1, t2}
  Commands <- AllCommands
  EarlyCommands <- QuietBoot
  FeatureCount = 2
  MaxAttempts = 1
  LedPeriod = 1
  SensorReadyFirst = TRUE
  SensorFaults = TRUE
  SensorDrops = FALSE
  SensorReturns = FALSE
  MessagesLost = FALSE
  PowerLoss = TRUE
INVARIANTS TypeOK SensorExclusive EnrollModeIffServing ModeIsCommanded EnrollmentUndisturbed SendsWhatIsStored
PROPERTY LibraryRefined
SYMMETRY TemplateSymmetry
VIEW NoReports
