\* Every termination and spawn outcome, four worker generations.
SPECIFICATION FairSpec
CONSTANTS
  MaxGeneration = 4
  MaxLevel = 2
  TerminationOutcomes <- AnyTermination
  SpawnOutcomes <- AnySpawn
INVARIANTS
  TypeOK
  LiveCapRespected
  NoLostRestart
  TimersArmed
  ShutdownQuiet
PROPERTIES
  StandDownsBackOff
  SlotFreedOnlyWhenGone
  SlotsSpec
  PoolRecovers
CHECK_DEADLOCK FALSE
