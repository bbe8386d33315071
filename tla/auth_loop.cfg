SPECIFICATION FairSpec
CONSTANTS
  None = None
  NoMode = NoMode
  Slots = {s1, s2}
  NodeModesUsed <- ThreeModes
  LedPeriod = 1
  FINGER_PASSED = 1
  FINGER_PASSED_COOLDOWN <- Cooldown
  MaxFaults = 1
  SensorLoss = TRUE
INVARIANTS TypeOK ReportsAMatch WaitsUnlessArmed
PROPERTIES HoldIsReported LossIsFlagged RecoveryIsSeen
