SPECIFICATION FairSpec
CONSTANTS
  main = main
  worker = worker
  c1 = c1
  c2 = c2
  Callers <- TwoCallers
  Owner = main
  Contexts <- OneContext
  MaxList = 0
  MaxStarts = 1
  MaxConns = 0
  MaxAnswers = 0
  MaxFailures = 0
CHECK_DEADLOCK FALSE
PROPERTY CallsReturn
