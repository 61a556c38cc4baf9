SPECIFICATION FairSupervisorSpec
CONSTANTS
  MaxGeneration = 3
  MaxLevel = 0
  TerminationOutcomes <- Confirmed
  SpawnOutcomes <- AnySpawn
  Requests <- FaultyClient
  Cancellable <- ModernCancellable
  BrokenPipes = FALSE
  Reinitializes = FALSE
  Unwritable <- ShortUnwritable
  None = None
PROPERTY EveryRequestAnswered
CHECK_DEADLOCK FALSE
