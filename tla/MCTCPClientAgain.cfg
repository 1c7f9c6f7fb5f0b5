SPECIFICATION Spec
CONSTANTS
  main = main
  worker = worker
  Callers <- TwoCallers
  Owner = main
  Capacity = 2
  MaxList = 0
  MsgLen = 2
  MaxSends = 1
  MaxConnects = 3
  MaxDrops = 1
  MaxRefusals = 2
CHECK_DEADLOCK FALSE
INVARIANTS ClosedMeansDead ReconnectHasNextStep
PROPERTY ClosingProgresses
