SPECIFICATION Spec
CONSTANTS
  main = main
  worker = worker
  c1 = c1
  c2 = c2
  Callers <- TwoCallers
  Owner = main
  Contexts <- TwoContexts
  MaxList = 0
  MaxStarts = 2
  MaxConns = 2
  MaxAnswers = 2
  MaxFailures = 1
CHECK_DEADLOCK FALSE
INVARIANTS TypeOK ContextsAccounted FreeMeansQuiet HandlesHaveClient ClosedMeansDead ListsBounded StartHonest
PROPERTY ImplementsSessions
