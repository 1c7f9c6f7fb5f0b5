SPECIFICATION PacketFairSpec
CONSTANTS
  ByteBase = 32
  IntLen = 1
  CheckLen = 0
  LittleEndian = TRUE
  HEAD = 1
  TAIL = 2
  BUFFER_SIZE = 9
  Streams <- AllStreams
  MaxConnections = 2
CHECK_DEADLOCK FALSE
INVARIANTS TypeOK DeliveredAtOnce NoFrameLost CodecsInvert
PROPERTIES ImplementsFrameStream RecvdataProgresses RecvdataReturns
