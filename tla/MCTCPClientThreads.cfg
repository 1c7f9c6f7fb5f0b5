SPECIFICATION Spec
CONSTANTS
  main = main
  worker = worker
  Callers <- TwoCallers
  Owner = main
  Capacity = 2
  MaxList = 0
  MsgLen = 2
  MaxSends = 1
  MaxConnects = 1
  MaxDrops = 0
  MaxRefusals = 0
CHECK_DEADLOCK FALSE
INVARIANTS AnyThreadMayCall
