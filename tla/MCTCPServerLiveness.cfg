SPECIFICATION FairSpec
CONSTANTS
  main = main
  worker = worker
  c1 = c1
  c2 = c2
  Callers <- OneCaller
  Owner = main
  Contexts <- TwoContexts
  MaxList = 0
  MaxStarts = 2
  MaxConns = 2
  MaxAnswers = 1
  MaxFailures = 1
CHECK_DEADLOCK FALSE
PROPERTIES CloseCompletes GoneClientsReported
