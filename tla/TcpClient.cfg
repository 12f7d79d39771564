SPECIFICATION Spec
CONSTANTS
  TcpApps <- AllApps
  BufferSize = 4
  CopySize = 8
  Packets <- MCPackets
  Reads = {0, 2}
  MaxBytes = 5
INVARIANTS
  NothingLostUnreported
CHECK_DEADLOCK FALSE
