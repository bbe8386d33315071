SPECIFICATION Spec
CONSTANTS
  Commands <- ScanCommands
  Packets = 2
  PacketSize = 2
  QueueSize = 256
  MaxFaults = 1
INVARIANT OkMeansDone
