SPECIFICATION Spec
CONSTANTS
  None = None
  Other = Other
  c2 = c2
  d2 = d2
  d3 = d3
  Senders = {gw, peer}
  Contents <- MCContents
  Chunks <- MCChunks
  MP_TIMEOUT = 1
  Wrap = 4
  MaxBusy = 3
  MaxIdle = 1
  OtherTraffic = TRUE
INVARIANTS MessageIsWhole FromOneSender NeverStale
SYMMETRY SameKinds
VIEW WhatMatters
