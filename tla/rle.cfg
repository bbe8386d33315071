SPECIFICATION Spec
CONSTANTS
  Low = 6
  High = 2
  Bytes = {0, 1}
  MaxLen = 15
INVARIANTS RoundTrip FitsBehindHeader
CHECK_DEADLOCK FALSE
