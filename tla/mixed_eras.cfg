SPECIFICATION SupervisorSpec
CONSTANTS
  MaxGeneration = 3
  MaxLevel = 0
  TerminationOutcomes <- Confirmed
  SpawnOutcomes <- AnySpawn
  Requests <- Mixing
  Cancellable <- MixingCancellable
  BrokenPipes = FALSE
  Reinitializes = TRUE
  Unwritable = {}
  None = None
INVARIANTS
  ReinitializeOrdered
PROPERTY OnlyRejectionStrands
CHECK_DEADLOCK FALSE
