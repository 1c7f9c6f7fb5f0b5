SPECIFICATION FairSpec
CONSTANTS
  MaxClients = 3
  MaxSends = 1
  Handles = {0, 1, 2, 3}
CHECK_DEADLOCK FALSE
INVARIANTS TypeOK CallbacksFindContext TableHoldsContexts QueueLivesUntilFailure
PROPERTIES ImplementsRegistry GoneClientsLeave
