SPECIFICATION Spec
CONSTANTS
  LastYear = 2026
  GW_TIMEOUT_SECS = 7
  KEEPALIVE_SECS = 3
  OFFLINE_RETRY_SECS = 1
  MaxBusy = 1
  Starts <- FewStarts
  Span = 19
  Steps <- FewSteps
INVARIANTS ConnectedIsHeard RegainsContact RetriesWhileLost DatesAgree
CHECK_DEADLOCK FALSE
