SPECIFICATION SupervisorSpec
CONSTANTS
  MaxGeneration = 3
  MaxLevel = 0
  TerminationOutcomes <- Confirmed
  SpawnOutcomes <- Running
  Requests <- LegacyClient
  Cancellable <- NoneCancellable
  BrokenPipes = FALSE
  Reinitializes = FALSE
  Unwritable = {}
  None = None
INVARIANT HandshakeTracked
CHECK_DEADLOCK FALSE
