SPECIFICATION SupervisorSpec
CONSTANTS
  MaxGeneration = 3
  MaxLevel = 0
  TerminationOutcomes <- WindowsTermination
  SpawnOutcomes <- Running
  Requests <- RetryingClient
  Cancellable <- LegacyCancellable
  BrokenPipes = TRUE
  Reinitializes = FALSE
  Unwritable = {}
  None = None
INVARIANTS
  RepliesRight
  HandshakeInOrder
CHECK_DEADLOCK FALSE
