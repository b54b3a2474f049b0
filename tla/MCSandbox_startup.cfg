SPECIFICATION FairSpec
CONSTANTS
  n1 = n1  n2 = n2
  NoReport = NoReport
  Nodes = {n1, n2}
  Master = n1
  NumWorkers = 2
  Base = 1
  Increment = 2
  MaxRetries = 2
  Foreign <- FirstTwo
  Answering <- FirstTwo
  Prompt = TRUE
  Block = FALSE
  StackDepth = 1
  MaxDeaths = 1
  Requeued = FALSE
INVARIANTS UpstreamIsWorkers
PROPERTIES ReadyIsListening StartupEnds DeadWorkerReturns
CHECK_DEADLOCK FALSE
