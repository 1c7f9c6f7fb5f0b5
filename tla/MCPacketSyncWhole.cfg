SPECIFICATION PacketSpec
CONSTANTS
  ByteBase = 32
  IntLen = 1
  CheckLen = 0
  LittleEndian = TRUE
  HEAD = 1
  TAIL = 2
  BUFFER_SIZE = 9
  Streams <- GoodStreams
  MaxConnections = 2
CHECK_DEADLOCK FALSE
INVARIANTS FramesAreWhole
