SPECIFICATION Spec
CONSTANTS
  Commands <- MCCommands
  Packets = 2
  PacketSize = 2
  QueueSize = 24
  MaxFaults = 1
INVARIANTS TypeOK StaleOnlyAfterBadPacket AnswerIsOwn TransferIsWhole
PROPERTY SilenceResyncs
