SPECIFICATION FairSpec
CONSTANTS
  main = main
  worker = worker
  Callers <- TwoCallers
  Owner = main
  Capacity = 2
  MaxList = 0
  MsgLen = 2
  MaxSends = 2
  MaxConnects = 1
  MaxDrops = 1
  MaxRefusals = 1
CHECK_DEADLOCK FALSE
PROPERTIES SendTerminates BufferDrains CloseCompletes ReconnectResolves
