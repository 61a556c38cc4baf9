SPECIFICATION SupervisorSpec
CONSTANTS
  MaxGeneration = 3
  MaxLevel = 0
  TerminationOutcomes <- PosixTermination
  SpawnOutcomes <- OrThrow
  Requests <- ModernClient
  Cancellable <- ModernCancellable
  BrokenPipes = FALSE
  Reinitializes = FALSE
  Unwritable <- ModernUnwritable
  None = None
INVARIANTS
  SupervisorTypeOK
  RepliesRight
  NothingLeftBehind
  QueueMoves
PROPERTIES
  ValidateExclusive
  NotOvertaken
CHECK_DEADLOCK FALSE
