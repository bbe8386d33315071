SPECIFICATION Spec
CONSTANTS
  Commanded <- FewCommanded
  Holds = {18}
  Delays <- OneDelay
  RetrySecs = 1
  HoldTicks = 1
  Probes = 2
INVARIANTS TypeOK NoResidue
PROPERTIES HomeArmDrawsNothing AlarmIsShown
