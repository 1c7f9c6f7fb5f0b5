SPECIFICATION FairSpec
CONSTANTS
  main = main
  worker = worker
  Callers <- OneCaller
  Owner = main
  Capacity = 2
  MaxList = 0
  MsgLen = 3
  MaxSends = 1
  MaxConnects = 1
  MaxDrops = 0
  MaxRefusals = 0
CHECK_DEADLOCK FALSE
PROPERTIES LongSendTerminates
