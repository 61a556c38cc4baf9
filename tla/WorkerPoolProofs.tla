-------------------------- MODULE WorkerPoolProofs --------------------------
(* Proofs about WorkerPool, for every number of generations and every set  *)
(* of termination and spawn outcomes.                                      *)
EXTENDS WorkerPool, FiniteSetTheorems, TLAPS

(* The inductive invariant: type correctness, how the sets of the pool fit *)
(* together, and the safety properties, which need each other.             *)
IInv == /\ TypeOK
        /\ PoolShape
        /\ LiveCapRespected
        /\ NoLostRestart
        /\ StartupWatched
        /\ CleanupRetryArmed
        /\ ShutdownQuiet

(* Sets of generations are finite, so their cardinalities are numbers that *)
(* change by one with an element.                                          *)
LEMMA FiniteGenerations ==
  ASSUME NEW S, S \subseteq Generations
  PROVE  /\ IsFiniteSet(S) /\ Cardinality(S) \in Nat
         /\ \A g : IsFiniteSet(S \cup {g}) /\ IsFiniteSet(S \ {g})
         /\ \A g : Cardinality(S \cup {g}) =
                     IF g \in S THEN Cardinality(S) ELSE Cardinality(S) + 1
         /\ \A g : Cardinality(S \ {g}) =
                     IF g \in S THEN Cardinality(S) - 1 ELSE Cardinality(S)
<1>1. IsFiniteSet(Generations)
  BY PoolAssumption, FS_Interval DEF PoolAssumption, Generations
<1>2. IsFiniteSet(S)
  BY <1>1, FS_Subset
<1>3. Cardinality(S) \in Nat
  BY <1>2, FS_CardinalityType
<1>4. \A g : /\ IsFiniteSet(S \cup {g})
             /\ Cardinality(S \cup {g}) =
                  IF g \in S THEN Cardinality(S) ELSE Cardinality(S) + 1
  BY <1>2, FS_AddElement
<1>5. \A g : /\ IsFiniteSet(S \ {g})
             /\ Cardinality(S \ {g}) =
                  IF g \in S THEN Cardinality(S) - 1 ELSE Cardinality(S)
  BY <1>2, FS_RemoveElement
<1> QED
  BY <1>2, <1>3, <1>4, <1>5

LEMMA InitEstablishes == Init => IInv
<1> SUFFICES ASSUME Init PROVE IInv
  OBVIOUS
<1> USE PoolAssumption
    DEF PoolAssumption, Init, Generations, NoChild, NoReservation
<1>1. FlagsOK
  BY DEF FlagsOK
<1>2. CountsOK
  BY DEF CountsOK
<1>3. ProcessesOK
  BY DEF ProcessesOK
<1>4. TreesOK
  BY DEF TreesOK
<1>5. RetriesOK
  BY DEF RetriesOK
<1>6. PoolShape
  BY DEF PoolShape
<1>7. LiveCapRespected
  <2>1. Cardinality({1}) = 1
    BY FS_Singleton
  <2>2. Cardinality({}) = 0
    BY FS_EmptySet
  <2> QED
    BY <2>1, <2>2 DEF LiveCapRespected, LiveCap
<1> QED
  BY <1>1, <1>2, <1>3, <1>4, <1>5, <1>6, <1>7
     DEF IInv, TypeOK, NoLostRestart, StartupWatched, CleanupRetryArmed,
         ShutdownQuiet

(* A re-sent initialize may adopt a worker again: nothing else is touched. *)
LEMMA AdoptPreserves == IInv /\ AdoptActiveChild => IInv'
<1> SUFFICES ASSUME IInv, AdoptActiveChild PROVE IInv'
  OBVIOUS
<1> USE PoolAssumption
    DEF PoolAssumption, IInv, TypeOK, AdoptActiveChild, processVars, treeVars,
        retryVars
<1>1. FlagsOK'
  BY DEF FlagsOK
<1>2. CountsOK'
  BY DEF CountsOK
<1>3. ProcessesOK'
  BY DEF ProcessesOK
<1>4. TreesOK'
  BY DEF TreesOK
<1>5. RetriesOK'
  BY DEF RetriesOK
<1>6. PoolShape'
  BY DEF PoolShape
<1> QED
  BY <1>1, <1>2, <1>3, <1>4, <1>5, <1>6
     DEF LiveCapRespected, NoLostRestart, StartupWatched, CleanupRetryArmed,
         ShutdownQuiet

(* The saturating levels stay in their range.                              *)
LEMMA LevelsInRange ==
  ASSUME CountsOK
  PROVE  \A level \in 0 .. MaxLevel : /\ NextLevel(level) \in 0 .. MaxLevel
                                      /\ EscalateTo(level) \in 0 .. MaxLevel
BY PoolAssumption DEF PoolAssumption, CountsOK, NextLevel, EscalateTo

(* A restart scheduled when the current worker is lost is armed, or paused *)
(* on a full cap: nothing was pending beside the worker.                   *)
LEMMA LostChildRestarts ==
  ASSUME IInv, child # NoChild, NEW level \in 0 .. MaxLevel,
         RestartLostChild(level)
  PROVE  /\ restartTimer' \in BOOLEAN /\ retryPaused' \in BOOLEAN
         /\ currentRetryReservation' = level
         /\ retryIndex' \in 0 .. MaxLevel
         /\ restartTimer' \/ (retryPaused' /\ Occupancy' >= LiveCap)
<1>1. /\ ~shuttingDown /\ ~restartTimer /\ retryPaused = FALSE
      /\ currentRetryReservation = NoReservation
  BY DEF IInv, TypeOK, FlagsOK, PoolShape, ShutdownQuiet
<1>2. NextLevel(level) \in 0 .. MaxLevel
  BY LevelsInRange DEF IInv, TypeOK
<1>3. CASE Occupancy' >= LiveCap
  BY <1>1, <1>2, <1>3 DEF RestartLostChild, ScheduleRestart
<1>4. CASE ~(Occupancy' >= LiveCap)
  BY <1>1, <1>2, <1>4 DEF RestartLostChild, ScheduleRestart
<1> QED
  BY <1>3, <1>4

(* The slots taken are a number, and what spawning and exiting does to it. *)
LEMMA OccupancyInNat ==
  ASSUME TypeOK
  PROVE  Occupancy \in Nat
<1>1. liveChildren \subseteq Generations /\ unresolvedTreeTokens \subseteq Generations
  BY PoolAssumption
     DEF PoolAssumption, TypeOK, CountsOK, ProcessesOK, TreesOK, Generations
<1>2. Cardinality(liveChildren) \in Nat /\ Cardinality(unresolvedTreeTokens) \in Nat
  BY <1>1, FiniteGenerations
<1> QED
  BY <1>2 DEF Occupancy

(* Giving up the current worker, whatever made the supervisor do it.       *)
LEMMA AbandonPreserves ==
  ASSUME IInv, child # NoChild,
         NEW outcome \in TerminationOutcomes,
         AbandonTree(outcome), NoCurrentChild,
         UNCHANGED <<workerGeneration, liveChildren, unspawned, shuttingDown>>,
         RestartLostChild(retryIndex),
         consecutiveImmediateStandDowns' \in 0 .. MaxLevel
  PROVE  IInv'
<1> USE PoolAssumption
    DEF PoolAssumption, IInv, TypeOK, AbandonTree, NoCurrentChild, retryVars
<1>1. retryIndex \in 0 .. MaxLevel
  BY DEF CountsOK
<1>2. /\ restartTimer' \in BOOLEAN /\ retryPaused' \in BOOLEAN
      /\ currentRetryReservation' \in 0 .. MaxLevel
      /\ retryIndex' \in 0 .. MaxLevel
      /\ restartTimer' \/ (retryPaused' /\ Occupancy' >= LiveCap)
  BY <1>1, LostChildRestarts
<1>3. FlagsOK'
  BY <1>2 DEF FlagsOK
<1>4. CountsOK'
  BY <1>2 DEF CountsOK
<1>5. ProcessesOK'
  BY DEF ProcessesOK, CountsOK, PoolShape, NoChild
<1>6. TreesOK'
  BY DEF TreesOK, BeginTreeTermination
<1>7. RetriesOK'
  BY DEF RetriesOK
<1>8. PoolShape'
  <2>1. \A g \in Generations : cleanupStates'[g] # "none" =>
          cleanupStates[g] # "none" \/ g \in {child} \ unspawned
    BY DEF BeginTreeTermination, TreesOK
  <2> QED
    BY <1>2, <2>1 DEF PoolShape, BeginTreeTermination, NoReservation
<1>9. LiveCapRespected'
  BY DEF LiveCapRespected, BeginTreeTermination
<1>10. NoLostRestart'
  BY <1>2 DEF NoLostRestart, NoReservation
<1> QED
  BY <1>3, <1>4, <1>5, <1>6, <1>7, <1>8, <1>9, <1>10
     DEF StartupWatched, CleanupRetryArmed, ShutdownQuiet, BeginTreeTermination,
         PoolShape

LEMMA StartupFailsPreserves ==
  ASSUME IInv, NEW outcome \in TerminationOutcomes, StartupFails(outcome)
  PROVE  IInv'
<1>1. consecutiveImmediateStandDowns' \in 0 .. MaxLevel
  BY DEF IInv, TypeOK, CountsOK, StartupFails
<1> QED
  BY <1>1, AbandonPreserves DEF StartupFails

LEMMA WorkerFaultsPreserves ==
  ASSUME IInv, NEW outcome \in TerminationOutcomes, WorkerFaults(outcome)
  PROVE  IInv'
<1>1. consecutiveImmediateStandDowns' \in 0 .. MaxLevel
  BY PoolAssumption DEF PoolAssumption, IInv, TypeOK, CountsOK, WorkerFaults
<1> QED
  BY <1>1, AbandonPreserves DEF WorkerFaults

(* A step that keeps the pending restart, or the absence of one.           *)
RestartKept ==
  /\ restartTimer' \in BOOLEAN /\ retryPaused' \in BOOLEAN
  /\ currentRetryReservation' \in 0 .. MaxLevel \cup {NoReservation}
  /\ retryIndex' \in 0 .. MaxLevel
  /\ restartTimer' => currentRetryReservation' # NoReservation
  /\ child # NoChild \/ shuttingDown => UNCHANGED restartVars
  /\ child = NoChild /\ ~shuttingDown =>
       \/ restartTimer' /\ currentRetryReservation' # NoReservation
       \/ retryPaused' /\ Occupancy' >= LiveCap

(* resumePausedRestart keeps a restart pending, and touches nothing beside *)
(* a current worker or during shutdown.                                    *)
LEMMA ResumeKeepsRestart ==
  ASSUME IInv, ResumePausedRestart
  PROVE  RestartKept
<1> DEFINE stays == \/ ~retryPaused \/ shuttingDown \/ child # NoChild
                    \/ Occupancy' >= LiveCap
<1>1. /\ retryIndex \in 0 .. MaxLevel /\ NextLevel(retryIndex) \in 0 .. MaxLevel
      /\ retryIndex # NoReservation
  BY LevelsInRange, PoolAssumption
     DEF PoolAssumption, IInv, TypeOK, CountsOK, NoReservation
<1>2. CASE stays
  <2>1. UNCHANGED restartVars
    BY <1>2 DEF ResumePausedRestart
  <2> QED
    BY <1>2, <2>1
       DEF RestartKept, IInv, TypeOK, FlagsOK, CountsOK, PoolShape, NoLostRestart,
           restartVars
<1>3. CASE ~stays
  BY <1>1, <1>3
     DEF RestartKept, ResumePausedRestart, IInv, TypeOK, FlagsOK, CountsOK,
         PoolShape, restartVars
<1> QED
  BY <1>2, <1>3

(* An exit that gives the slot of g to its token, or frees it, never takes *)
(* another slot.                                                           *)
LEMMA SlotNotTaken ==
  ASSUME IInv, NEW g \in Generations,
         liveChildren' = liveChildren \ {g},
         \/ unresolvedTreeTokens' = unresolvedTreeTokens
         \/ unresolvedTreeTokens' = unresolvedTreeTokens \ {g}
         \/ unresolvedTreeTokens' = unresolvedTreeTokens \cup {g}
              /\ g \in liveChildren \cup unresolvedTreeTokens
  PROVE  LiveCapRespected'
<1>1. liveChildren \subseteq Generations /\ unresolvedTreeTokens \subseteq Generations
  BY PoolAssumption
     DEF PoolAssumption, IInv, TypeOK, CountsOK, ProcessesOK, TreesOK, Generations
<1>2. /\ Cardinality(liveChildren) \in Nat
      /\ Cardinality(unresolvedTreeTokens) \in Nat
      /\ Cardinality(liveChildren \ {g}) =
           IF g \in liveChildren THEN Cardinality(liveChildren) - 1
           ELSE Cardinality(liveChildren)
      /\ Cardinality(unresolvedTreeTokens \ {g}) =
           IF g \in unresolvedTreeTokens THEN Cardinality(unresolvedTreeTokens) - 1
           ELSE Cardinality(unresolvedTreeTokens)
      /\ Cardinality(unresolvedTreeTokens \cup {g}) =
           IF g \in unresolvedTreeTokens THEN Cardinality(unresolvedTreeTokens)
           ELSE Cardinality(unresolvedTreeTokens) + 1
  BY <1>1, FiniteGenerations
<1>3. Cardinality(liveChildren) + Cardinality(unresolvedTreeTokens) <= 2
  BY DEF IInv, LiveCapRespected, LiveCap
<1>4. CASE unresolvedTreeTokens' = unresolvedTreeTokens
  BY <1>2, <1>3, <1>4 DEF LiveCapRespected, LiveCap
<1>5. CASE unresolvedTreeTokens' = unresolvedTreeTokens \ {g}
  BY <1>2, <1>3, <1>5 DEF LiveCapRespected, LiveCap
<1>6. CASE unresolvedTreeTokens' = unresolvedTreeTokens \cup {g}
           /\ g \in liveChildren \cup unresolvedTreeTokens
  BY <1>2, <1>3, <1>6 DEF LiveCapRespected, LiveCap
<1> QED
  BY <1>4, <1>5, <1>6

LEMMA TerminatedExitPreserves ==
  ASSUME IInv, NEW g \in Generations, TerminatedWorkerExits(g)
  PROVE  IInv'
<1> USE PoolAssumption
    DEF PoolAssumption, IInv, TypeOK, TerminatedWorkerExits, ForgetExited,
        currentVars
<1>1. RestartKept
  BY ResumeKeepsRestart
<1>2. cleanupRetryTimer' \in BOOLEAN
  BY DEF ScheduleCleanupTokenRetry, FlagsOK
<1>3. FlagsOK'
  BY <1>1, <1>2 DEF FlagsOK, RestartKept
<1>4. CountsOK'
  BY <1>1 DEF CountsOK, RestartKept
<1>5. ProcessesOK'
  BY DEF ProcessesOK, CountsOK, PoolShape, NoChild
<1>6. \/ /\ unresolvedTreeTokens' = unresolvedTreeTokens \cup {g}
         /\ cleanupStates' = cleanupStates
      \/ /\ unresolvedTreeTokens' = unresolvedTreeTokens
         /\ cleanupStates' = [cleanupStates EXCEPT ![g] = "none"]
  <2>1. CASE TreeUnconfirmed(g)
    BY <2>1
  <2>2. CASE ~TreeUnconfirmed(g)
    BY <2>2
  <2> QED
    BY <2>1, <2>2
<1>7. TreesOK'
  BY <1>6 DEF TreesOK, ProcessesOK
<1>8. RetriesOK'
  BY DEF RetriesOK
<1>9. PoolShape'
  <2>1. child # NoChild => child # g /\ UNCHANGED restartVars
    BY <1>1 DEF PoolShape, RestartKept
  <2>2. \A h \in Generations : cleanupStates'[h] # "none" =>
          h \in (liveChildren' \cup unresolvedTreeTokens') \ unspawned
    BY <1>6 DEF PoolShape, TreesOK
  <2>3. liveChildren' \cap unresolvedTreeTokens' = {}
    BY <1>6 DEF PoolShape
  <2>4. child' # NoChild => cleanupStates'[child] = "none"
    BY <1>6, <2>1
       DEF PoolShape, TreesOK, ProcessesOK, CountsOK, Generations, NoChild
  <2> QED
    BY <1>1, <2>1, <2>2, <2>3, <2>4 DEF PoolShape, RestartKept, restartVars
<1>10. LiveCapRespected'
  BY <1>6, SlotNotTaken
<1>11. NoLostRestart'
  BY <1>1 DEF NoLostRestart, RestartKept
<1>12. CleanupRetryArmed'
  BY DEF CleanupRetryArmed, ScheduleCleanupTokenRetry, FlagsOK
<1>13. ShutdownQuiet'
  BY <1>1 DEF ShutdownQuiet, RestartKept, ScheduleCleanupTokenRetry, restartVars
<1> QED
  BY <1>3, <1>4, <1>5, <1>7, <1>8, <1>9, <1>10, <1>11, <1>12, <1>13
     DEF StartupWatched

LEMMA UnspawnedClosesPreserves ==
  ASSUME IInv, NEW g \in Generations, UnspawnedChildCloses(g)
  PROVE  IInv'
<1> USE PoolAssumption
    DEF PoolAssumption, IInv, TypeOK, UnspawnedChildCloses, ForgetExited,
        currentVars, treeVars, retryVars
<1>1. RestartKept
  BY ResumeKeepsRestart
<1>2. FlagsOK'
  BY <1>1 DEF FlagsOK, RestartKept
<1>3. CountsOK'
  BY <1>1 DEF CountsOK, RestartKept
<1>4. ProcessesOK'
  BY DEF ProcessesOK
<1>5. TreesOK' /\ RetriesOK'
  BY DEF TreesOK, RetriesOK
<1>6. PoolShape'
  BY <1>1 DEF PoolShape, RestartKept, restartVars
<1>7. LiveCapRespected'
  BY SlotNotTaken
<1>8. NoLostRestart' /\ ShutdownQuiet'
  BY <1>1 DEF NoLostRestart, ShutdownQuiet, RestartKept, restartVars
<1> QED
  BY <1>2, <1>3, <1>4, <1>5, <1>6, <1>7, <1>8 DEF StartupWatched, CleanupRetryArmed

LEMMA CurrentExitPreserves ==
  ASSUME IInv, NEW stoodDown \in BOOLEAN, CurrentWorkerExits(stoodDown)
  PROVE  IInv'
<1> USE PoolAssumption
    DEF PoolAssumption, IInv, TypeOK, CurrentWorkerExits, ForgetExited,
        NoCurrentChild, treeVars, retryVars
<1>1. consecutiveImmediateStandDowns' \in 0 .. MaxLevel
  BY LevelsInRange DEF CountsOK
<1>2. PICK level \in 0 .. MaxLevel : RestartLostChild(level)
  <2>1. CASE stoodDown
    BY <1>1, <2>1, LevelsInRange
  <2>2. CASE ~stoodDown
    BY <2>2 DEF CountsOK
  <2> QED
    BY <2>1, <2>2
<1>3. /\ restartTimer' \in BOOLEAN /\ retryPaused' \in BOOLEAN
      /\ currentRetryReservation' \in 0 .. MaxLevel
      /\ retryIndex' \in 0 .. MaxLevel
      /\ restartTimer' \/ (retryPaused' /\ Occupancy' >= LiveCap)
  BY <1>2, LostChildRestarts
<1>4. FlagsOK' /\ CountsOK'
  BY <1>1, <1>3 DEF FlagsOK, CountsOK
<1>5. ProcessesOK'
  BY DEF ProcessesOK, CountsOK, NoChild
<1>6. TreesOK' /\ RetriesOK'
  BY DEF TreesOK, RetriesOK
<1>7. PoolShape'
  BY <1>3 DEF PoolShape, NoReservation
<1>8. LiveCapRespected'
  <2>1. child \in Generations
    BY DEF PoolShape, ProcessesOK, CountsOK, Generations
  <2> QED
    BY <2>1, SlotNotTaken
<1>9. NoLostRestart'
  BY <1>3 DEF NoLostRestart, NoReservation
<1> QED
  BY <1>4, <1>5, <1>6, <1>7, <1>8, <1>9
     DEF StartupWatched, CleanupRetryArmed, ShutdownQuiet, PoolShape

(* A new worker takes a slot that was free.                                *)
LEMMA NewWorkerTakesSlot ==
  ASSUME IInv, Occupancy < LiveCap, NEW spawned, NewWorker(spawned),
         UNCHANGED unresolvedTreeTokens
  PROVE  LiveCapRespected'
<1>1. /\ liveChildren \subseteq Generations
      /\ unresolvedTreeTokens \subseteq Generations
      /\ workerGeneration + 1 \notin liveChildren
  BY PoolAssumption
     DEF PoolAssumption, IInv, TypeOK, CountsOK, ProcessesOK, TreesOK, Generations
<1>2. /\ Cardinality(liveChildren) \in Nat
      /\ Cardinality(unresolvedTreeTokens) \in Nat
      /\ Cardinality(liveChildren \cup {workerGeneration + 1})
           = Cardinality(liveChildren) + 1
  BY <1>1, FiniteGenerations
<1> QED
  BY <1>2 DEF NewWorker, Occupancy, LiveCapRespected, LiveCap

(* A token retry round starts: only the retry bookkeeping changes.         *)
LEMMA CleanupTimerPreserves ==
  ASSUME IInv, CleanupRetryTimerFires
  PROVE  IInv'
<1> USE PoolAssumption
    DEF PoolAssumption, IInv, TypeOK, CleanupRetryTimerFires, currentVars,
        processVars, treeVars, restartVars
<1>1. FlagsOK' /\ CountsOK'
  BY DEF FlagsOK, CountsOK
<1>2. ProcessesOK' /\ TreesOK'
  BY DEF ProcessesOK, TreesOK
<1>3. RetriesOK'
  BY DEF RetriesOK, TreesOK, CountsOK, Generations
<1>4. PoolShape'
  BY DEF PoolShape
<1>5. CleanupRetryArmed'
  BY DEF CleanupRetryArmed
<1> QED
  BY <1>1, <1>2, <1>3, <1>4, <1>5
     DEF LiveCapRespected, NoLostRestart, StartupWatched, ShutdownQuiet, Occupancy

(* A new worker has a watchdog and a slot, and no restart is pending.      *)
LEMMA NewWorkerPreserves ==
  ASSUME IInv, ~shuttingDown, NEW spawned, Occupancy < LiveCap, NewWorker(spawned),
         restartTimer' = FALSE, retryPaused' = FALSE,
         currentRetryReservation' = NoReservation,
         TreesOK',
         \A g \in Generations : cleanupStates'[g] # "none" =>
           cleanupStates[g] # "none" \/ g \in {child} \ unspawned,
         staleChildren' = staleChildren \/ staleChildren' = staleChildren \cup {child},
         child = NoChild => staleChildren' = staleChildren,
         UNCHANGED <<unresolvedTreeTokens, retryVars, retryIndex,
                     consecutiveImmediateStandDowns, shuttingDown>>
  PROVE  IInv'
<1> USE PoolAssumption
    DEF PoolAssumption, IInv, TypeOK, NewWorker, retryVars
<1>1. FlagsOK' /\ CountsOK'
  <2>1. FlagsOK'
    BY DEF FlagsOK
  <2>2. CountsOK'
    BY DEF CountsOK
  <2> QED
    BY <2>1, <2>2
<1>2. ProcessesOK'
  <2>1. child # NoChild => child \in liveChildren
    BY DEF PoolShape
  <2>2. staleChildren' \subseteq liveChildren'
    BY <2>1 DEF ProcessesOK
  <2>3. unspawned' \subseteq 1 .. workerGeneration'
    BY DEF ProcessesOK, CountsOK
  <2>4. liveChildren' \subseteq 1 .. workerGeneration'
    BY DEF ProcessesOK, CountsOK
  <2>5. child' \in 0 .. workerGeneration'
    BY DEF CountsOK
  <2> QED
    BY <2>2, <2>3, <2>4, <2>5 DEF ProcessesOK
<1>3. RetriesOK'
  BY DEF RetriesOK
<1>4. workerGeneration + 1 \in Generations /\ workerGeneration + 1 # NoChild
  BY DEF CountsOK, Generations, NoChild
<1>5. /\ workerGeneration + 1 \notin liveChildren \cup unresolvedTreeTokens
      /\ workerGeneration + 1 \notin staleChildren \cup unspawned
      /\ workerGeneration + 1 # child
  BY DEF CountsOK, ProcessesOK, TreesOK
<1>6. PoolShape'
  <2>1. cleanupStates'[workerGeneration + 1] = "none"
    BY <1>4, <1>5 DEF PoolShape
  <2>2. child' \in liveChildren' \ staleChildren'
    BY <1>5
  <2>3. liveChildren' \cap unresolvedTreeTokens' = {}
    BY <1>5 DEF PoolShape
  <2>4. ASSUME NEW g \in Generations, cleanupStates'[g] # "none"
        PROVE  g \in (liveChildren' \cup unresolvedTreeTokens') \ unspawned'
    <3>1. g # workerGeneration + 1
      BY <2>1, <2>4
    <3>2. g \in (liveChildren \cup unresolvedTreeTokens) \ unspawned
      BY <2>4, <1>4 DEF PoolShape, Generations, NoChild
    <3> QED
      BY <3>1, <3>2
  <2> QED
    BY <2>1, <2>2, <2>3, <2>4 DEF PoolShape
<1>7. LiveCapRespected'
  BY NewWorkerTakesSlot
<1>8. CleanupRetryArmed'
  BY DEF CleanupRetryArmed
<1> QED
  BY <1>1, <1>2, <1>3, <1>4, <1>6, <1>7, <1>8
     DEF NoLostRestart, StartupWatched, ShutdownQuiet

LEMMA RestartTimerPreserves ==
  ASSUME IInv, NEW spawned \in SpawnOutcomes, RestartTimerFires(spawned)
  PROVE  IInv'
<1> DEFINE blocked == \/ shuttingDown \/ currentRetryReservation = NoReservation
                      \/ child # NoChild \/ Occupancy >= LiveCap
<1> USE PoolAssumption
    DEF PoolAssumption, IInv, TypeOK, RestartTimerFires, treeVars, retryVars
<1>1. /\ ~shuttingDown /\ child = NoChild
      /\ currentRetryReservation # NoReservation
  BY DEF PoolShape, ShutdownQuiet
<1>2. Occupancy \in Nat
  BY OccupancyInNat
<1>3. CASE blocked
  <2>1. /\ restartTimer' = FALSE /\ retryPaused' = TRUE /\ Occupancy >= LiveCap
        /\ UNCHANGED <<currentVars, workerGeneration, liveChildren, unspawned,
                       currentRetryReservation, retryIndex>>
    BY <1>1, <1>3
  <2>2. FlagsOK' /\ CountsOK'
    BY <2>1 DEF FlagsOK, CountsOK, currentVars
  <2>3. ProcessesOK' /\ TreesOK' /\ RetriesOK'
    BY <2>1 DEF ProcessesOK, TreesOK, RetriesOK, currentVars
  <2>4. PoolShape'
    BY <1>1, <2>1 DEF PoolShape, currentVars
  <2>5. NoLostRestart'
    BY <2>1 DEF NoLostRestart, Occupancy
  <2> QED
    BY <2>1, <2>2, <2>3, <2>4, <2>5
       DEF LiveCapRespected, StartupWatched, CleanupRetryArmed, ShutdownQuiet,
           currentVars
<1>4. CASE ~blocked /\ spawned = "throw"
  <2>1. /\ restartTimer' = TRUE /\ currentRetryReservation' = retryIndex
        /\ retryPaused' = FALSE /\ retryIndex' = NextLevel(retryIndex)
        /\ UNCHANGED <<currentVars, workerGeneration, liveChildren, unspawned>>
    BY <1>1, <1>2, <1>4 DEF ScheduleRestart, LiveCap, Occupancy
  <2>2. retryIndex' \in 0 .. MaxLevel /\ retryIndex # NoReservation
    BY <2>1, LevelsInRange DEF CountsOK, NoReservation
  <2>3. FlagsOK' /\ CountsOK'
    BY <2>1, <2>2 DEF FlagsOK, CountsOK, currentVars
  <2>4. ProcessesOK' /\ TreesOK' /\ RetriesOK'
    BY <2>1 DEF ProcessesOK, TreesOK, RetriesOK, currentVars
  <2>5. PoolShape'
    BY <1>1, <2>1, <2>2 DEF PoolShape, currentVars
  <2> QED
    BY <2>1, <2>2, <2>3, <2>4, <2>5
       DEF LiveCapRespected, NoLostRestart, StartupWatched, CleanupRetryArmed,
           ShutdownQuiet, currentVars
<1>5. CASE ~blocked /\ spawned # "throw"
  <2>1. /\ NewWorker(spawned) /\ restartTimer' = FALSE /\ retryPaused' = FALSE
        /\ currentRetryReservation' = NoReservation
        /\ Occupancy < LiveCap
    BY <1>2, <1>5 DEF LiveCap
  <2>2. TreesOK'
    BY <2>1 DEF TreesOK, NewWorker, CountsOK
  <2> QED
    BY <1>1, <1>5, <2>1, <2>2, NewWorkerPreserves
<1> QED
  BY <1>3, <1>4, <1>5


(* The effect of giving up the current worker's tree on the cleanup states. *)
LEMMA AbandonTreeFacts ==
  ASSUME IInv, child # NoChild, NEW outcome \in TerminationOutcomes,
         AbandonTree(outcome)
  PROVE  /\ TreesOK' <=> unresolvedTreeTokens' \subseteq 1 .. workerGeneration'
         /\ \A g \in Generations : cleanupStates'[g] # "none" =>
              cleanupStates[g] # "none" \/ g \in {child} \ unspawned
         /\ staleChildren' = staleChildren \cup {child}
         /\ UNCHANGED <<unresolvedTreeTokens, retryVars>>
<1> USE PoolAssumption DEF PoolAssumption, IInv, TypeOK, AbandonTree
<1>1. /\ cleanupStates' \in
           [Generations -> {"none", "pending", "accepted", "unresolved"}]
      /\ terminating' \in [Generations -> Nat]
  BY DEF BeginTreeTermination, TreesOK
<1>2. \A g \in Generations : cleanupStates'[g] # "none" =>
        cleanupStates[g] # "none" \/ g \in {child} \ unspawned
  BY DEF BeginTreeTermination, TreesOK
<1>3. TreesOK' <=> unresolvedTreeTokens' \subseteq 1 .. workerGeneration'
  BY <1>1 DEF TreesOK
<1> QED
  BY <1>2, <1>3 DEF BeginTreeTermination

LEMMA RecoverPreserves ==
  ASSUME IInv, NEW outcome \in TerminationOutcomes, NEW spawned \in SpawnOutcomes,
         RecoverTimedOutWorker(outcome, spawned)
  PROVE  IInv'
<1> USE PoolAssumption DEF PoolAssumption, IInv, TypeOK, RecoverTimedOutWorker
<1>1. Occupancy \in Nat
  BY OccupancyInNat
<1>2. CASE child = NoChild
  <2>1. /\ retryIndex \in 0 .. MaxLevel /\ NextLevel(retryIndex) \in 0 .. MaxLevel
        /\ retryIndex # NoReservation
    BY LevelsInRange DEF CountsOK, NoReservation
  <2>2. /\ UNCHANGED <<currentVars, processVars, treeVars, retryVars>>
        /\ UNCHANGED <<consecutiveImmediateStandDowns, shuttingDown>>
        /\ RestartLostChild(retryIndex) /\ ~shuttingDown
    BY <1>2
  <2>3. Occupancy' = Occupancy
    BY <2>2 DEF Occupancy, processVars, treeVars
  <2>4. CASE restartTimer \/ currentRetryReservation # NoReservation
    <3>1. UNCHANGED restartVars
      BY <2>4, <2>2 DEF RestartLostChild, ScheduleRestart, restartVars
    <3> QED
      BY <1>2, <2>2, <2>3, <3>1
         DEF FlagsOK, CountsOK, ProcessesOK, TreesOK, RetriesOK, PoolShape,
             LiveCapRespected, NoLostRestart, StartupWatched, CleanupRetryArmed,
             ShutdownQuiet, currentVars, processVars, treeVars, retryVars,
             restartVars
  <2>5. CASE ~restartTimer /\ currentRetryReservation = NoReservation
    <3>1. /\ currentRetryReservation' = retryIndex
          /\ retryIndex' = NextLevel(retryIndex)
          /\ retryPaused' = TRUE /\ restartTimer' = FALSE
          /\ Occupancy' >= LiveCap
      BY <1>2, <2>2, <2>3, <2>5
         DEF RestartLostChild, ScheduleRestart, NoLostRestart
    <3>2. FlagsOK'
      BY <2>2, <3>1 DEF FlagsOK, currentVars, retryVars
    <3>3. CountsOK'
      BY <2>1, <2>2, <3>1 DEF CountsOK, processVars
    <3>4. ProcessesOK' /\ TreesOK' /\ RetriesOK'
      BY <2>2 DEF ProcessesOK, TreesOK, RetriesOK, currentVars, processVars,
                  treeVars, retryVars
    <3> QED
      BY <1>2, <2>1, <2>2, <3>1, <3>2, <3>3, <3>4
         DEF PoolShape, LiveCapRespected, NoLostRestart, StartupWatched,
             CleanupRetryArmed, ShutdownQuiet, currentVars, processVars, treeVars,
             retryVars
  <2> QED
    BY <2>4, <2>5
<1>3. CASE child # NoChild /\ Occupancy >= LiveCap
  <2>1. /\ NoCurrentChild /\ retryPaused' = TRUE
        /\ AbandonTree(outcome)
        /\ UNCHANGED <<workerGeneration, liveChildren, unspawned, restartTimer,
                       currentRetryReservation, retryIndex>>
    BY <1>3
  <2>2. /\ TreesOK' <=> unresolvedTreeTokens' \subseteq 1 .. workerGeneration'
        /\ \A g \in Generations : cleanupStates'[g] # "none" =>
             cleanupStates[g] # "none" \/ g \in {child} \ unspawned
        /\ staleChildren' = staleChildren \cup {child}
        /\ UNCHANGED <<unresolvedTreeTokens, retryVars>>
    BY <1>3, <2>1, AbandonTreeFacts
  <2>3. FlagsOK'
    BY <2>1, <2>2 DEF FlagsOK, NoCurrentChild, retryVars
  <2>4. CountsOK'
    BY <2>1 DEF CountsOK
  <2>5. ProcessesOK' /\ TreesOK' /\ RetriesOK'
    BY <1>3, <2>1, <2>2
       DEF ProcessesOK, TreesOK, RetriesOK, NoCurrentChild, NoChild, PoolShape,
           CountsOK, retryVars
  <2>6. PoolShape'
    BY <1>3, <2>1, <2>2 DEF PoolShape, NoCurrentChild, retryVars
  <2>7. LiveCapRespected' /\ NoLostRestart'
    BY <1>3, <2>1, <2>2 DEF LiveCapRespected, NoLostRestart, Occupancy
  <2> QED
    BY <2>1, <2>2, <2>3, <2>4, <2>5, <2>6, <2>7
       DEF StartupWatched, CleanupRetryArmed, ShutdownQuiet, NoCurrentChild, retryVars
<1>4. CASE child # NoChild /\ Occupancy < LiveCap /\ spawned = "throw"
  <2>1. /\ NoCurrentChild /\ AbandonTree(outcome)
        /\ UNCHANGED <<workerGeneration, liveChildren, unspawned, shuttingDown>>
        /\ ScheduleRestart(restartTimer, NoReservation, FALSE, retryIndex)
    <3>1. ~(Occupancy >= LiveCap)
      BY <1>1, <1>4 DEF LiveCap
    <3> QED
      BY <1>4, <3>1
  <2>2. retryPaused = FALSE /\ currentRetryReservation = NoReservation
    BY <1>4 DEF PoolShape, FlagsOK
  <2>3. RestartLostChild(retryIndex)
    BY <2>1, <2>2 DEF RestartLostChild
  <2>4. consecutiveImmediateStandDowns' \in 0 .. MaxLevel
    BY DEF CountsOK
  <2> QED
    BY <1>4, <2>1, <2>3, <2>4, AbandonPreserves
<1>5. CASE child # NoChild /\ Occupancy < LiveCap /\ spawned # "throw"
  <2>1. /\ NewWorker(spawned) /\ AbandonTree(outcome)
        /\ currentRetryReservation' = NoReservation /\ retryPaused' = FALSE
        /\ UNCHANGED <<restartTimer, retryIndex>>
    BY <1>1, <1>5 DEF LiveCap
  <2>2. restartTimer' = FALSE
    BY <1>5, <2>1 DEF PoolShape, FlagsOK
  <2>3. /\ TreesOK' <=> unresolvedTreeTokens' \subseteq 1 .. workerGeneration'
        /\ \A g \in Generations : cleanupStates'[g] # "none" =>
             cleanupStates[g] # "none" \/ g \in {child} \ unspawned
        /\ staleChildren' = staleChildren \cup {child}
        /\ UNCHANGED <<unresolvedTreeTokens, retryVars>>
    BY <1>5, <2>1, AbandonTreeFacts
  <2>4. TreesOK'
    BY <2>1, <2>3 DEF TreesOK, NewWorker, CountsOK
  <2> QED
    BY <1>5, <2>1, <2>2, <2>3, <2>4, NewWorkerPreserves
<1> QED
  BY <1>1, <1>2, <1>3, <1>4, <1>5 DEF LiveCap

(* Shutdown ends every timer; what runs on can arm none of them again.     *)
LEMMA ShutdownPreserves ==
  ASSUME IInv, NEW outcome \in [liveChildren -> TerminationOutcomes],
         Shutdown(outcome)
  PROVE  IInv'
<1> USE PoolAssumption
    DEF PoolAssumption, IInv, TypeOK, Shutdown, NoCurrentChild, processVars
<1>1. FlagsOK'
  BY DEF FlagsOK
<1>2. CountsOK'
  BY DEF CountsOK
<1>3. ProcessesOK'
  BY DEF ProcessesOK, NoChild, CountsOK
<1>4. TreesOK'
  <2>1. \A g \in liveChildren :
          outcome[g] \in {"accepted", "unresolved", "pending"}
    OBVIOUS
  <2>2. cleanupStates' \in
          [Generations -> {"none", "pending", "accepted", "unresolved"}]
    BY <2>1 DEF TreesOK, BeginTreeTermination
  <2>3. terminating' \in [Generations -> Nat]
    BY DEF TreesOK, BeginTreeTermination
  <2> QED
    BY <2>2, <2>3 DEF TreesOK, BeginTreeTermination
<1>5. RetriesOK'
  BY DEF RetriesOK, TreesOK, CountsOK, Generations
<1>6. PoolShape'
  <2>1. \A g \in Generations : cleanupStates'[g] # "none" =>
          cleanupStates[g] # "none" \/ g \in liveChildren \ unspawned
    BY DEF BeginTreeTermination, TreesOK
  <2> QED
    BY <2>1 DEF PoolShape, BeginTreeTermination
<1> QED
  BY <1>1, <1>2, <1>3, <1>4, <1>5, <1>6
     DEF LiveCapRespected, NoLostRestart, StartupWatched, CleanupRetryArmed,
         ShutdownQuiet, BeginTreeTermination


(* A termination settles, before or after its worker exited.               *)
LEMMA FinishTerminationPreserves ==
  ASSUME IInv, NEW g \in Generations, NEW success \in BOOLEAN,
         FinishTreeTermination(g, success)
  PROVE  IInv'
<1> USE PoolAssumption
    DEF PoolAssumption, IInv, TypeOK, FinishTreeTermination
<1>1. /\ UNCHANGED <<currentVars, processVars, cleanupRetriesInFlight,
                     cleanupSweeps, consecutiveImmediateStandDowns, shuttingDown>>
      /\ terminating' \in [Generations -> Nat]
  BY DEF TreesOK
<1>2. CASE CleanupOver(g) \/ g \in liveChildren
  <2>1. /\ UNCHANGED <<unresolvedTreeTokens, cleanupRetryTimer, restartVars>>
        /\ \/ cleanupStates' = cleanupStates
           \/ /\ g \in liveChildren /\ cleanupStates[g] # "none"
              /\ \E status \in {"accepted", "unresolved"} :
                   cleanupStates' = [cleanupStates EXCEPT ![g] = status]
    BY <1>2 DEF CleanupOver
  <2>2. TreesOK'
    BY <1>1, <2>1 DEF TreesOK, processVars
  <2>3. PoolShape'
    <3>1. \A h \in Generations : cleanupStates'[h] # "none" =>
            h \in (liveChildren \cup unresolvedTreeTokens) \ unspawned
      BY <2>1 DEF PoolShape, TreesOK
    <3>2. child # NoChild => cleanupStates'[child] = "none"
      BY <2>1 DEF PoolShape, TreesOK, ProcessesOK, CountsOK, Generations, NoChild
    <3> QED
      BY <1>1, <2>1, <3>1, <3>2
         DEF PoolShape, currentVars, processVars, restartVars
  <2> QED
    BY <1>1, <2>1, <2>2, <2>3
       DEF FlagsOK, CountsOK, ProcessesOK, RetriesOK, LiveCapRespected,
           NoLostRestart, StartupWatched, CleanupRetryArmed, ShutdownQuiet,
           Occupancy, currentVars, processVars, restartVars
<1>3. CASE ~CleanupOver(g) /\ g \notin liveChildren
  <2>1. g \in unresolvedTreeTokens
    BY <1>3 DEF CleanupOver, PoolShape
  <2>2. /\ ResumePausedRestart
        /\ \/ /\ unresolvedTreeTokens' = unresolvedTreeTokens \ {g}
              /\ cleanupStates' = [cleanupStates EXCEPT ![g] = "none"]
              /\ StopCleanupTokenRetryIfIdle
           \/ /\ unresolvedTreeTokens' = unresolvedTreeTokens
              /\ cleanupStates' = [cleanupStates EXCEPT ![g] = "unresolved"]
              /\ ScheduleCleanupTokenRetry
    BY <1>3, <2>1
  <2>3. RestartKept
    BY <2>2, ResumeKeepsRestart
  <2>4. cleanupRetryTimer' \in BOOLEAN
    BY <2>2 DEF StopCleanupTokenRetryIfIdle, ScheduleCleanupTokenRetry, FlagsOK
  <2>5. FlagsOK' /\ CountsOK'
    BY <1>1, <2>3, <2>4 DEF FlagsOK, CountsOK, RestartKept, currentVars, processVars
  <2>6. ProcessesOK' /\ RetriesOK'
    BY <1>1 DEF ProcessesOK, RetriesOK, currentVars, processVars
  <2>7. TreesOK'
    BY <1>1, <2>2 DEF TreesOK, processVars
  <2>8. PoolShape'
    <3>1. \A h \in Generations : cleanupStates'[h] # "none" =>
            h \in (liveChildren' \cup unresolvedTreeTokens') \ unspawned
      BY <1>1, <1>3, <2>1, <2>2
         DEF PoolShape, TreesOK, CleanupOver, processVars
    <3>2. child # NoChild => child # g /\ UNCHANGED restartVars
      BY <1>3, <2>3 DEF PoolShape, RestartKept
    <3>3. liveChildren' \cap unresolvedTreeTokens' = {}
      BY <1>1, <2>2 DEF PoolShape, processVars
    <3>4. child # NoChild => cleanupStates'[child] = "none"
      BY <2>2, <3>2
         DEF PoolShape, TreesOK, ProcessesOK, CountsOK, Generations, NoChild
    <3> QED
      BY <1>1, <2>3, <3>1, <3>2, <3>3, <3>4
         DEF PoolShape, RestartKept, restartVars, currentVars, processVars
  <2>9. LiveCapRespected'
    <3>1. liveChildren' = liveChildren \ {g}
      BY <1>1, <1>3 DEF processVars
    <3> QED
      BY <2>2, <3>1, SlotNotTaken
  <2>10. NoLostRestart'
    BY <1>1, <2>3 DEF NoLostRestart, RestartKept, currentVars
  <2>11. CleanupRetryArmed'
    BY <1>1, <2>2
       DEF CleanupRetryArmed, StopCleanupTokenRetryIfIdle,
           ScheduleCleanupTokenRetry, FlagsOK
  <2>12. ShutdownQuiet'
    BY <1>1, <2>2, <2>3
       DEF ShutdownQuiet, RestartKept, StopCleanupTokenRetryIfIdle,
           ScheduleCleanupTokenRetry, restartVars, currentVars
  <2> QED
    BY <1>1, <2>5, <2>6, <2>7, <2>8, <2>9, <2>10, <2>11, <2>12
       DEF StartupWatched, currentVars
<1> QED
  BY <1>2, <1>3

(* A retry settles: the sweeps that awaited nothing else end with it.      *)
LEMMA FinishRetryPreserves ==
  ASSUME IInv, NEW g \in Generations, NEW success \in BOOLEAN,
         FinishTokenRetry(g, success)
  PROVE  IInv'
<1> DEFINE gone == success /\ g \in unresolvedTreeTokens
<1> USE PoolAssumption DEF PoolAssumption, IInv, TypeOK, FinishTokenRetry
<1>1. /\ UNCHANGED <<currentVars, processVars, terminating,
                     consecutiveImmediateStandDowns, shuttingDown>>
      /\ cleanupRetriesInFlight' = cleanupRetriesInFlight \ {g}
      /\ cleanupSweeps' = {sweep \ {g} : sweep \in cleanupSweeps} \ {{}}
  OBVIOUS
<1>2. /\ RestartKept
      /\ liveChildren' = liveChildren \/ (gone /\ liveChildren' = liveChildren \ {g})
      /\ \/ ~gone /\ UNCHANGED <<unresolvedTreeTokens, cleanupStates, restartVars>>
         \/ /\ gone /\ g \notin liveChildren
            /\ unresolvedTreeTokens' = unresolvedTreeTokens \ {g}
            /\ cleanupStates' = [cleanupStates EXCEPT ![g] = "none"]
  <2>1. CASE gone
    <3>1. g \notin liveChildren
      BY <2>1 DEF PoolShape
    <3>2. RestartKept
      BY <2>1, ResumeKeepsRestart
    <3> QED
      BY <1>1, <2>1, <3>1, <3>2 DEF processVars
  <2>2. CASE ~gone
    <3>1. UNCHANGED <<unresolvedTreeTokens, cleanupStates, restartVars>>
      BY <2>2
    <3>2. Occupancy' = Occupancy
      BY <1>1, <3>1 DEF Occupancy, processVars
    <3>3. RestartKept
      BY <3>1, <3>2
         DEF RestartKept, restartVars, FlagsOK, CountsOK, PoolShape, NoLostRestart
    <3> QED
      BY <1>1, <2>2, <3>1, <3>3 DEF processVars
  <2> QED
    BY <2>1, <2>2
<1>3. FlagsOK' /\ CountsOK'
  <2>1. cleanupRetryTimer' \in BOOLEAN
    OBVIOUS
  <2> QED
    BY <1>1, <1>2, <2>1 DEF FlagsOK, CountsOK, RestartKept, currentVars, processVars
<1>4. ProcessesOK'
  BY <1>1 DEF ProcessesOK, currentVars, processVars
<1>5. TreesOK'
  BY <1>1, <1>2 DEF TreesOK, processVars
<1>6. RetriesOK'
  BY <1>1 DEF RetriesOK
<1>7. PoolShape'
  <2>1. \A h \in Generations : cleanupStates'[h] # "none" =>
          h \in (liveChildren' \cup unresolvedTreeTokens') \ unspawned
    BY <1>1, <1>2 DEF PoolShape, TreesOK, processVars
  <2>2. child # NoChild => UNCHANGED restartVars
    BY <1>2 DEF RestartKept
  <2>3. child # NoChild => cleanupStates'[child] = "none"
    BY <1>2 DEF PoolShape, TreesOK, ProcessesOK, CountsOK, Generations, NoChild
  <2>4. liveChildren' \cap unresolvedTreeTokens' = {} /\ {} \notin cleanupSweeps'
    BY <1>1, <1>2 DEF PoolShape, processVars
  <2> QED
    BY <1>1, <1>2, <2>1, <2>2, <2>3, <2>4
       DEF PoolShape, RestartKept, restartVars, currentVars, processVars
<1>8. LiveCapRespected'
  <2>1. CASE gone
    <3>1. liveChildren' = liveChildren \ {g}
      BY <1>1, <1>2, <2>1 DEF processVars
    <3> QED
      BY <1>2, <2>1, <3>1, SlotNotTaken
  <2>2. CASE ~gone
    BY <1>1, <1>2, <2>2 DEF LiveCapRespected, processVars
  <2> QED
    BY <2>1, <2>2
<1>9. NoLostRestart'
  BY <1>1, <1>2 DEF NoLostRestart, RestartKept, currentVars
<1>10. CleanupRetryArmed'
  <2> SUFFICES ASSUME unresolvedTreeTokens' # {}, ~shuttingDown
               PROVE  cleanupRetryTimer' \/ cleanupSweeps' # {}
    BY <1>1 DEF CleanupRetryArmed
  <2>1. cleanupRetryTimer \/ cleanupSweeps # {}
    BY <1>2 DEF CleanupRetryArmed
  <2>2. CASE cleanupRetryTimer
    BY <2>2
  <2>3. ASSUME NEW sweep \in cleanupSweeps
        PROVE  cleanupRetryTimer' \/ cleanupSweeps' # {}
    <3>1. sweep # {}
      BY DEF PoolShape
    <3>2. CASE sweep = {g}
      BY <3>2 DEF SweepEnds
    <3>3. CASE sweep # {g}
      <4>1. PICK h \in sweep : h # g
        BY <3>1, <3>3
      <4>2. sweep \ {g} # {}
        BY <4>1
      <4>3. sweep \ {g} \in cleanupSweeps'
        BY <1>1, <4>2
      <4> QED
        BY <4>3
    <3> QED
      BY <3>2, <3>3
  <2> QED
    BY <2>1, <2>2, <2>3
<1>11. ShutdownQuiet'
  BY <1>1, <1>2
     DEF ShutdownQuiet, RestartKept, restartVars, currentVars, FlagsOK
<1> QED
  BY <1>1, <1>3, <1>4, <1>5, <1>6, <1>7, <1>8, <1>9, <1>10, <1>11
     DEF StartupWatched, currentVars

(* Every step preserves the inductive invariant.                           *)
LEMMA NextPreserves == IInv /\ [Next]_poolVars => IInv'
<1> SUFFICES ASSUME IInv, [Next]_poolVars PROVE IInv'
  OBVIOUS
<1>1. CASE AdoptActiveChild
  BY <1>1, AdoptPreserves
<1>2. ASSUME NEW outcome \in TerminationOutcomes,
             \/ WatchdogFires(outcome) \/ InitializeRejected(outcome)
             \/ WorkerFaults(outcome)
      PROVE  IInv'
  BY <1>2, StartupFailsPreserves, WorkerFaultsPreserves
     DEF WatchdogFires, InitializeRejected
<1>3. ASSUME NEW outcome \in TerminationOutcomes, NEW spawned \in SpawnOutcomes,
             RecoverTimedOutWorker(outcome, spawned)
      PROVE  IInv'
  BY <1>3, RecoverPreserves
<1>4. ASSUME NEW g \in Generations, TerminatedWorkerExits(g) \/ UnspawnedChildCloses(g)
      PROVE  IInv'
  BY <1>4, TerminatedExitPreserves, UnspawnedClosesPreserves
<1>5. ASSUME NEW stoodDown \in BOOLEAN, CurrentWorkerExits(stoodDown)
      PROVE  IInv'
  BY <1>5, CurrentExitPreserves
<1>6. ASSUME NEW spawned \in SpawnOutcomes, RestartTimerFires(spawned)
      PROVE  IInv'
  BY <1>6, RestartTimerPreserves
<1>7. ASSUME NEW g \in Generations, NEW success \in BOOLEAN,
             FinishTreeTermination(g, success) \/ FinishTokenRetry(g, success)
      PROVE  IInv'
  BY <1>7, FinishTerminationPreserves, FinishRetryPreserves
<1>8. CASE CleanupRetryTimerFires
  BY <1>8, CleanupTimerPreserves
<1>9. ASSUME NEW outcome \in [liveChildren -> TerminationOutcomes], Shutdown(outcome)
      PROVE  IInv'
  BY <1>9, ShutdownPreserves
<1>10. CASE UNCHANGED poolVars
  BY <1>10
     DEF poolVars, currentVars, processVars, treeVars, retryVars, restartVars,
         IInv, TypeOK, FlagsOK, CountsOK, ProcessesOK, TreesOK, RetriesOK,
         PoolShape, LiveCapRespected, NoLostRestart, StartupWatched,
         CleanupRetryArmed, ShutdownQuiet, Occupancy
<1> QED
  BY <1>1, <1>2, <1>3, <1>4, <1>5, <1>6, <1>7, <1>8, <1>9, <1>10 DEF Next

LEMMA Inductive == Spec => []IInv
BY InitEstablishes, NextPreserves, PTL DEF Spec

(* The variables keep their types in every behaviour of the pool.          *)
THEOREM PoolTypeCorrect == Spec => []TypeOK
<1>1. IInv => TypeOK
  BY DEF IInv
<1> QED
  BY <1>1, Inductive, PTL

(* Never more than two worker process trees, whatever the order of exits,  *)
(* terminations, retries and restarts (liveCapOccupancy and its guards).   *)
THEOREM LiveCapHolds == Spec => []LiveCapRespected
<1>1. IInv => LiveCapRespected
  BY DEF IInv
<1> QED
  BY <1>1, Inductive, PTL

(* A supervisor without a worker always has a restart armed, or paused on  *)
(* a full cap (scheduleRestart, resumePausedRestart).                      *)
THEOREM RestartNeverLost == Spec => []NoLostRestart
<1>1. IInv => NoLostRestart
  BY DEF IInv
<1> QED
  BY <1>1, Inductive, PTL

(* A worker that has not become ready is always watched.                   *)
THEOREM StartupAlwaysWatched == Spec => []StartupWatched
<1>1. IInv => StartupWatched
  BY DEF IInv
<1> QED
  BY <1>1, Inductive, PTL

(* An unconfirmed process tree always has a retry on its way.              *)
THEOREM CleanupAlwaysArmed == Spec => []CleanupRetryArmed
<1>1. IInv => CleanupRetryArmed
  BY DEF IInv
<1> QED
  BY <1>1, Inductive, PTL

(* Whatever the pool waits for, a timer ends the wait.                     *)
THEOREM TimersAlwaysArmed == Spec => []TimersArmed
<1>1. StartupWatched /\ CleanupRetryArmed => TimersArmed
  BY DEF TimersArmed
<1> QED
  BY <1>1, StartupAlwaysWatched, CleanupAlwaysArmed, PTL

(* Nothing restarts after shutdown.                                        *)
THEOREM ShutdownFinal == Spec => []ShutdownQuiet
<1>1. IInv => ShutdownQuiet
  BY DEF IInv
<1> QED
  BY <1>1, Inductive, PTL


(* The sets of the pool fit together in every behaviour.                   *)
THEOREM PoolShapeHolds == Spec => []PoolShape
<1>1. IInv => PoolShape
  BY DEF IInv
<1> QED
  BY <1>1, Inductive, PTL

(* The restart after a stand-down is delayed by at least the length of the *)
(* run of stand-downs, although the adoption in between reset the backoff. *)
THEOREM StandDownsAlwaysBackOff == Spec => StandDownsBackOff
<1> DEFINE grows == consecutiveImmediateStandDowns' > consecutiveImmediateStandDowns
           delayed == currentRetryReservation' >= consecutiveImmediateStandDowns'
<1>1. IInv /\ [Next]_poolVars => (grows => delayed)
  <2> SUFFICES ASSUME IInv, [Next]_poolVars, grows PROVE delayed
    OBVIOUS
  <2>1. consecutiveImmediateStandDowns \in Nat
    BY PoolAssumption DEF PoolAssumption, IInv, TypeOK, CountsOK
  <2>2. PICK stoodDown \in BOOLEAN : CurrentWorkerExits(stoodDown)
    <3> DEFINE same == consecutiveImmediateStandDowns' = consecutiveImmediateStandDowns
    <3> DEFINE reset == consecutiveImmediateStandDowns' = 0
    <3>1. ~same /\ ~reset
      BY <2>1
    <3>2. AdoptActiveChild \/ CleanupRetryTimerFires => same
      BY DEF AdoptActiveChild, CleanupRetryTimerFires
    <3>3. \A outcome : WatchdogFires(outcome) \/ InitializeRejected(outcome) => same
      BY DEF WatchdogFires, InitializeRejected, StartupFails
    <3>4. \A outcome : WorkerFaults(outcome) => same \/ reset
      BY DEF WorkerFaults
    <3>5. \A outcome, spawned : RecoverTimedOutWorker(outcome, spawned) => same
      BY DEF RecoverTimedOutWorker
    <3>6. \A g : TerminatedWorkerExits(g) \/ UnspawnedChildCloses(g) => same
      BY DEF TerminatedWorkerExits, UnspawnedChildCloses
    <3>7. \A spawned : RestartTimerFires(spawned) => same
      BY DEF RestartTimerFires
    <3>8. \A g, success :
            FinishTreeTermination(g, success) \/ FinishTokenRetry(g, success) => same
      BY DEF FinishTreeTermination, FinishTokenRetry
    <3>9. \A outcome : Shutdown(outcome) => same
      BY DEF Shutdown
    <3>10. UNCHANGED poolVars => same
      BY DEF poolVars
    <3> HIDE DEF same, reset
    <3> QED
      BY <3>1, <3>2, <3>3, <3>4, <3>5, <3>6, <3>7, <3>8, <3>9, <3>10 DEF Next
  <2>3. stoodDown
    BY <2>1, <2>2 DEF CurrentWorkerExits
  <2>4. consecutiveImmediateStandDowns' \in 0 .. MaxLevel
    BY <2>2, <2>3, LevelsInRange, PoolAssumption
       DEF PoolAssumption, IInv, TypeOK, CountsOK, CurrentWorkerExits
  <2>5. currentRetryReservation' = EscalateTo(consecutiveImmediateStandDowns')
    <3>1. /\ child # NoChild
          /\ RestartLostChild(EscalateTo(consecutiveImmediateStandDowns'))
      BY <2>2, <2>3 DEF CurrentWorkerExits
    <3>2. EscalateTo(consecutiveImmediateStandDowns') \in 0 .. MaxLevel
      BY <2>4, LevelsInRange DEF IInv, TypeOK
    <3> QED
      BY <3>1, <3>2, LostChildRestarts
  <2> QED
    BY <2>4, <2>5, PoolAssumption
       DEF PoolAssumption, EscalateTo, IInv, TypeOK, CountsOK
<1>2. IInv /\ [Next]_poolVars => [grows => delayed]_poolVars
  BY <1>1
<1> QED
  BY <1>2, Inductive, PTL DEF Spec, StandDownsBackOff

(* A slot is freed only by what shows that nothing is left in it.          *)
THEOREM SlotsFreedOnlyWhenGone == Spec => SlotFreedOnlyWhenGone
<1> DEFINE freed ==
      \A g \in liveChildren \cup unresolvedTreeTokens :
        g \notin liveChildren' \cup unresolvedTreeTokens' =>
          \/ cleanupStates[g] \in {"none", "accepted"}
          \/ g \notin liveChildren /\ terminating'[g] < terminating[g]
          \/ g \in cleanupRetriesInFlight \ cleanupRetriesInFlight'
<1>1. IInv /\ [Next]_poolVars => freed
  <2> SUFFICES ASSUME IInv, [Next]_poolVars PROVE freed
    OBVIOUS
  <2> USE DEF processVars, treeVars
  <2>1. CASE /\ liveChildren \subseteq liveChildren'
             /\ unresolvedTreeTokens' = unresolvedTreeTokens
    BY <2>1
  <2>2. ASSUME NEW g \in Generations, TerminatedWorkerExits(g)
        PROVE  freed
    <3>1. cleanupStates[g] \in {"none", "pending", "accepted", "unresolved"}
      BY DEF IInv, TypeOK, TreesOK
    <3> QED
      BY <2>2, <3>1 DEF TerminatedWorkerExits, ForgetExited, TreeUnconfirmed
  <2>3. ASSUME NEW g \in Generations, UnspawnedChildCloses(g)
        PROVE  freed
    BY <2>3 DEF UnspawnedChildCloses, ForgetExited
  <2>4. ASSUME NEW stoodDown \in BOOLEAN, CurrentWorkerExits(stoodDown)
        PROVE  freed
    <3>1. /\ child # NoChild
          /\ liveChildren' = liveChildren \ {child}
          /\ unresolvedTreeTokens' = unresolvedTreeTokens
      BY <2>4 DEF CurrentWorkerExits, ForgetExited
    <3>2. cleanupStates[child] = "none"
      BY <3>1 DEF IInv, PoolShape
    <3> QED
      BY <3>1, <3>2
  <2>5. ASSUME NEW g \in Generations, NEW success \in BOOLEAN,
               FinishTreeTermination(g, success)
        PROVE  freed
    <3>1. terminating'[g] < terminating[g]
      BY <2>5 DEF FinishTreeTermination, IInv, TypeOK, TreesOK
    <3>2. liveChildren' = liveChildren
      BY <2>5 DEF FinishTreeTermination
    <3>3. unresolvedTreeTokens \ {g} \subseteq unresolvedTreeTokens'
      BY <2>5 DEF FinishTreeTermination
    <3> QED
      BY <3>1, <3>2, <3>3
  <2>6. ASSUME NEW g \in Generations, NEW success \in BOOLEAN,
               FinishTokenRetry(g, success)
        PROVE  freed
    BY <2>6 DEF FinishTokenRetry
  <2>7. ASSUME NEW outcome \in TerminationOutcomes, NEW spawned \in SpawnOutcomes,
               RecoverTimedOutWorker(outcome, spawned)
        PROVE  freed
    BY <2>1, <2>7
       DEF RecoverTimedOutWorker, AbandonTree, BeginTreeTermination, NewWorker
  <2>8. ASSUME NEW spawned \in SpawnOutcomes, RestartTimerFires(spawned)
        PROVE  freed
    BY <2>1, <2>8 DEF RestartTimerFires, NewWorker
  <2>9. CASE UNCHANGED poolVars
    BY <2>1, <2>9 DEF poolVars
  <2>10. CASE AdoptActiveChild \/ CleanupRetryTimerFires
    BY <2>1, <2>10 DEF AdoptActiveChild, CleanupRetryTimerFires
  <2>11. ASSUME NEW outcome \in TerminationOutcomes,
                \/ WatchdogFires(outcome) \/ InitializeRejected(outcome)
                \/ WorkerFaults(outcome)
         PROVE  freed
    BY <2>1, <2>11
       DEF WatchdogFires, InitializeRejected, StartupFails, WorkerFaults,
           AbandonTree, BeginTreeTermination
  <2>12. ASSUME NEW outcome \in [liveChildren -> TerminationOutcomes],
                Shutdown(outcome)
         PROVE  freed
    BY <2>1, <2>12 DEF Shutdown, BeginTreeTermination
  <2> HIDE DEF freed
  <2> QED
    BY <2>2, <2>3, <2>4, <2>5, <2>6, <2>7, <2>8, <2>9, <2>10, <2>11, <2>12 DEF Next
<1>2. IInv /\ [Next]_poolVars => [freed]_poolVars
  BY <1>1
<1> QED
  BY <1>2, Inductive, PTL DEF Spec, SlotFreedOnlyWhenGone

-----------------------------------------------------------------------------
(* The pool implements the slots that WorkerSlots describes.                *)

(* The sets of the pool that decide where a generation is in its life, and
   what the types say of them. *)
LEMMA PhaseTypes ==
  ASSUME IInv
  PROVE  /\ workerGeneration \in 0 .. MaxGeneration
         /\ child \in 0 .. workerGeneration
         /\ liveChildren \subseteq 1 .. workerGeneration
         /\ unresolvedTreeTokens \subseteq 1 .. workerGeneration
         /\ liveChildren \cap unresolvedTreeTokens = {}
         /\ child # NoChild => child \in liveChildren
         /\ NoChild \notin Generations
BY PoolAssumption DEF PoolAssumption, IInv, TypeOK, CountsOK, ProcessesOK, TreesOK, PoolShape,
       NoChild, Generations

(* The slots that are taken are those of the workers that may be alive and of
   the trees that may be. *)
LEMMA SlotsTaken ==
  ASSUME IInv
  PROVE  /\ Slots!Occupied = liveChildren \cup unresolvedTreeTokens
         /\ Slots!Cardinality(Slots!Occupied) = Occupancy
         /\ Slots!Serving = {g \in Generations : g = child}
<1>1. /\ liveChildren \subseteq Generations /\ unresolvedTreeTokens \subseteq Generations
      /\ liveChildren \cap unresolvedTreeTokens = {}
      /\ \A g \in Generations : g = child => g \in liveChildren
  BY PhaseTypes, PoolAssumption DEF PoolAssumption, Generations
<1>2. Slots!Occupied = liveChildren \cup unresolvedTreeTokens
  BY <1>1 DEF Slots!Occupied, PhaseOf
<1>3. Slots!Serving = {g \in Generations : g = child}
  BY DEF Slots!Serving, PhaseOf
<1>4. /\ IsFiniteSet(liveChildren) /\ IsFiniteSet(unresolvedTreeTokens)
      /\ Cardinality(liveChildren) \in Nat /\ Cardinality(unresolvedTreeTokens) \in Nat
  BY <1>1, FiniteGenerations
<1>5. Cardinality(liveChildren \cup unresolvedTreeTokens) =
        Cardinality(liveChildren) + Cardinality(unresolvedTreeTokens)
  <2>1. Cardinality(liveChildren \cup unresolvedTreeTokens) =
          Cardinality(liveChildren) + Cardinality(unresolvedTreeTokens)
            - Cardinality(liveChildren \cap unresolvedTreeTokens)
    BY <1>4, FS_Union
  <2>2. Cardinality(liveChildren \cap unresolvedTreeTokens) = 0
    BY <1>1, FS_EmptySet
  <2> QED
    BY <1>4, <2>1, <2>2
<1>6. Slots!Cardinality(Slots!Occupied) = Cardinality(Slots!Occupied)
  BY DEF Slots!Cardinality, Cardinality
<1> QED
  BY <1>2, <1>3, <1>5, <1>6 DEF Occupancy

(* Where a generation is after the step. *)
Moved(g, now) ==
  \A h \in Generations : PhaseOf(h)' = IF h = g THEN now ELSE PhaseOf(h)

(* The supervisor starts with its first worker in a slot. *)
LEMMA SlotsInit == Init => Slots!Init
<1> SUFFICES ASSUME Init PROVE Slots!Init
  OBVIOUS
<1>1. 1 \in Generations
  BY PoolAssumption DEF PoolAssumption, Generations
<1>2. \A h \in Generations : PhaseOf(h) = IF h = 1 THEN "serving" ELSE "unused"
  BY DEF Init, PhaseOf, Generations
<1>3. [g \in Generations |-> PhaseOf(g)]
        = [h \in Generations |-> IF h = 1 THEN "serving" ELSE "unused"]
  BY <1>2
<1>4. ~shuttingDown = TRUE
  BY DEF Init
<1> QED
  BY <1>1, <1>3, <1>4 DEF Slots!Init

(* A worker that is given up, exits or is confirmed gone moves its generation
   on; ... *)
LEMMA SlotMoves ==
  ASSUME NEW g \in Generations, NEW now, Moved(g, now), shuttingDown' = shuttingDown,
         \/ PhaseOf(g) = "serving" /\ now = "ending"
         \/ PhaseOf(g) = "ending" /\ now = "orphaned"
         \/ PhaseOf(g) \in {"serving", "ending", "orphaned"} /\ now = "gone"
  PROVE  Slots!Next
<1> DEFINE P == [h \in Generations |-> PhaseOf(h)]
<1>1. P' = [P EXCEPT ![g] = now] /\ P[g] = PhaseOf(g)
  BY DEF Moved
<1>2. (~shuttingDown)' = ~shuttingDown
  OBVIOUS
<1> QED
  BY <1>1, <1>2 DEF Slots!Next, Slots!Abandon, Slots!Orphan, Slots!Release

(* ... and what changes none of the sets moves nothing. *)
LEMMA SlotsStay ==
  ASSUME \A h \in Generations : PhaseOf(h)' = PhaseOf(h), shuttingDown' = shuttingDown
  PROVE  UNCHANGED Slots!slotVars
BY DEF Slots!slotVars

(* Where the generations are after the current worker was given up. *)
LEMMA AbandonMoves ==
  ASSUME IInv, child # NoChild, child' = NoChild, liveChildren' = liveChildren,
         unresolvedTreeTokens' = unresolvedTreeTokens, workerGeneration' = workerGeneration
  PROVE  child \in Generations /\ Moved(child, "ending") /\ PhaseOf(child) = "serving"
<1>1. child \in Generations
  BY PhaseTypes, PoolAssumption DEF PoolAssumption, Generations, NoChild
<1>2. Moved(child, "ending")
  BY PhaseTypes DEF Moved, PhaseOf
<1> QED
  BY <1>1, <1>2 DEF PhaseOf

(* Where they are after a new worker was started, with or without giving up
   the one before it. *)
LEMMA StartMoves ==
  ASSUME IInv, NEW spawned, NewWorker(spawned), unresolvedTreeTokens' = unresolvedTreeTokens,
         ~shuttingDown, shuttingDown' = shuttingDown, Occupancy < LiveCap
  PROVE  Slots!Next
<1> DEFINE P == [h \in Generations |-> PhaseOf(h)]
<1> PICK new : new = workerGeneration + 1
  OBVIOUS
<1>1. /\ MaxGeneration \in Nat /\ workerGeneration \in 0 .. MaxGeneration
      /\ workerGeneration < MaxGeneration
  BY PhaseTypes, PoolAssumption DEF PoolAssumption, NewWorker
<1>2. new \in Generations /\ new # NoChild /\ \A h \in 0 .. workerGeneration : h # new
  BY <1>1 DEF Generations, NoChild
<1>3. child' = new /\ liveChildren' = liveChildren \cup {new} /\ workerGeneration' = new
  BY DEF NewWorker
<1>4. /\ \A h \in 1 .. workerGeneration : h \in 0 .. workerGeneration
      /\ \A h \in Generations \ {new} : h <= workerGeneration' <=> h <= workerGeneration
      /\ new <= workerGeneration' /\ ~(new <= workerGeneration)
  BY <1>1, <1>3 DEF Generations
<1>5. /\ new # child /\ new \notin liveChildren /\ new \notin unresolvedTreeTokens
      /\ child # NoChild => child \in liveChildren
      /\ NoChild \notin Generations /\ liveChildren \subseteq Generations
  <2>1. /\ child \in 0 .. workerGeneration
        /\ liveChildren \subseteq 1 .. workerGeneration
        /\ unresolvedTreeTokens \subseteq 1 .. workerGeneration
        /\ child # NoChild => child \in liveChildren
        /\ NoChild \notin Generations
    BY PhaseTypes
  <2>2. 1 .. workerGeneration \subseteq Generations
    BY <1>1 DEF Generations
  <2> QED
    BY <1>2, <1>4, <2>1, <2>2
<1>6. PhaseOf(new) = "unused" /\ PhaseOf(new)' = "serving"
  BY <1>3, <1>4, <1>5 DEF PhaseOf
<1>7. \A h \in Generations \ {new} :
        PhaseOf(h)' = IF h = child THEN "ending" ELSE PhaseOf(h)
  BY <1>3, <1>4, <1>5 DEF PhaseOf
<1>8. (~shuttingDown) /\ (~shuttingDown)' = ~shuttingDown
  OBVIOUS
<1>9. Slots!Cardinality(Slots!Occupied) < LiveCap /\ P[new] = "unused"
  BY <1>2, <1>6, SlotsTaken
<1>10. CASE child = NoChild
  <2>1. Slots!Serving = {}
    BY <1>5, <1>10, SlotsTaken
  <2>2. P' = [h \in Generations |-> IF h = new THEN "serving" ELSE P[h]]
    BY <1>5, <1>6, <1>7, <1>10
  <2>3. P' = [P EXCEPT ![new] = "serving"]
    BY <2>2
  <2>4. Slots!Start(new)
    BY <1>8, <1>9, <2>1, <2>3 DEF Slots!Start
  <2> QED
    BY <1>2, <2>4 DEF Slots!Next
<1>11. CASE child # NoChild
  <2> PICK old : old = child
    OBVIOUS
  <2>1. old \in Generations /\ P[old] = "serving"
    BY <1>5, <1>11 DEF PhaseOf
  <2>2. P' = [h \in Generations |->
                IF h = new THEN "serving" ELSE IF h = old THEN "ending" ELSE P[h]]
    BY <1>6, <1>7
  <2>3. P' = [P EXCEPT ![old] = "ending", ![new] = "serving"]
    BY <1>5, <2>2
  <2>4. Slots!Replace(old, new)
    BY <1>8, <1>9, <2>1, <2>3 DEF Slots!Replace
  <2> QED
    BY <1>2, <2>1, <2>4 DEF Slots!Next
<1> QED
  BY <1>10, <1>11

(* Every step of the pool is a step of the slots, or leaves them alone. *)
LEMMA SlotsStep ==
  ASSUME IInv, [Next]_poolVars
  PROVE  [Slots!Next]_(Slots!slotVars)
<1> USE PhaseTypes
<1>1. ASSUME NEW outcome \in TerminationOutcomes,
             WatchdogFires(outcome) \/ InitializeRejected(outcome) \/ WorkerFaults(outcome)
      PROVE  Slots!Next
  <2>1. /\ child # NoChild /\ child' = NoChild /\ liveChildren' = liveChildren
        /\ unresolvedTreeTokens' = unresolvedTreeTokens
        /\ workerGeneration' = workerGeneration /\ shuttingDown' = shuttingDown
    BY <1>1 DEF WatchdogFires, InitializeRejected, StartupFails, WorkerFaults, NoCurrentChild,
                AbandonTree, BeginTreeTermination
  <2> QED
    BY <2>1, AbandonMoves, SlotMoves
<1>2. ASSUME NEW outcome \in TerminationOutcomes, NEW spawned \in SpawnOutcomes,
             RecoverTimedOutWorker(outcome, spawned)
      PROVE  [Slots!Next]_(Slots!slotVars)
  <2>1. CASE child = NoChild
    <3>1. UNCHANGED <<child, liveChildren, unresolvedTreeTokens, workerGeneration, shuttingDown>>
      BY <1>2, <2>1 DEF RecoverTimedOutWorker, currentVars, processVars, treeVars
    <3> QED
      BY <3>1, SlotsStay DEF PhaseOf
  <2>2. CASE child # NoChild /\ (Occupancy >= LiveCap \/ spawned = "throw")
    <3>1. /\ child' = NoChild /\ liveChildren' = liveChildren
          /\ unresolvedTreeTokens' = unresolvedTreeTokens
          /\ workerGeneration' = workerGeneration /\ shuttingDown' = shuttingDown
      BY <1>2, <2>2 DEF RecoverTimedOutWorker, NoCurrentChild, AbandonTree, BeginTreeTermination
    <3> QED
      BY <2>2, <3>1, AbandonMoves, SlotMoves
  <2>3. CASE child # NoChild /\ ~(Occupancy >= LiveCap) /\ spawned # "throw"
    <3>1. /\ NewWorker(spawned) /\ unresolvedTreeTokens' = unresolvedTreeTokens
          /\ ~shuttingDown /\ shuttingDown' = shuttingDown
      BY <1>2, <2>3 DEF RecoverTimedOutWorker, AbandonTree, BeginTreeTermination
    <3>2. Occupancy < LiveCap
      BY <2>3, OccupancyInNat DEF IInv, LiveCap
    <3> QED
      BY <3>1, <3>2, StartMoves
  <2> QED
    BY <2>1, <2>2, <2>3
<1>3. ASSUME NEW g \in Generations, TerminatedWorkerExits(g)
      PROVE  Slots!Next
  <2>1. g # child /\ g \in liveChildren /\ g \notin unresolvedTreeTokens
    BY <1>3 DEF TerminatedWorkerExits, IInv, PoolShape, Generations, NoChild
  <2>2. /\ child' = child /\ liveChildren' = liveChildren \ {g}
        /\ workerGeneration' = workerGeneration /\ shuttingDown' = shuttingDown
        /\ \/ unresolvedTreeTokens' = unresolvedTreeTokens \cup {g}
           \/ unresolvedTreeTokens' = unresolvedTreeTokens
    BY <1>3 DEF TerminatedWorkerExits, ForgetExited, currentVars
  <2>3. PhaseOf(g) = "ending"
    BY <2>1 DEF PhaseOf
  <2>4. CASE unresolvedTreeTokens' = unresolvedTreeTokens \cup {g}
    <3>1. Moved(g, "orphaned")
      BY <2>1, <2>2, <2>4 DEF Moved, PhaseOf
    <3> QED
      BY <2>2, <2>3, <3>1, SlotMoves
  <2>5. CASE unresolvedTreeTokens' = unresolvedTreeTokens
    <3>1. Moved(g, "gone")
      BY <2>1, <2>2, <2>5 DEF Moved, PhaseOf
    <3> QED
      BY <2>2, <2>3, <3>1, SlotMoves
  <2> QED
    BY <2>2, <2>4, <2>5
<1>4. ASSUME NEW g \in Generations, UnspawnedChildCloses(g)
      PROVE  Slots!Next
  <2>1. g # child /\ g \in liveChildren /\ g \notin unresolvedTreeTokens
    BY <1>4 DEF UnspawnedChildCloses
  <2>2. /\ child' = child /\ liveChildren' = liveChildren \ {g}
        /\ workerGeneration' = workerGeneration /\ shuttingDown' = shuttingDown
        /\ unresolvedTreeTokens' = unresolvedTreeTokens
    BY <1>4 DEF UnspawnedChildCloses, ForgetExited, currentVars, treeVars
  <2>3. PhaseOf(g) = "ending" /\ Moved(g, "gone")
    BY <2>1, <2>2 DEF PhaseOf, Moved
  <2> QED
    BY <2>2, <2>3, SlotMoves
<1>5. ASSUME NEW stoodDown \in BOOLEAN, CurrentWorkerExits(stoodDown)
      PROVE  Slots!Next
  <2>1. /\ child # NoChild /\ child' = NoChild /\ liveChildren' = liveChildren \ {child}
        /\ workerGeneration' = workerGeneration /\ shuttingDown' = shuttingDown
        /\ unresolvedTreeTokens' = unresolvedTreeTokens
    BY <1>5 DEF CurrentWorkerExits, ForgetExited, NoCurrentChild, treeVars
  <2>2. child \in Generations /\ PhaseOf(child) = "serving"
    BY <2>1, PoolAssumption DEF PoolAssumption, Generations, NoChild, PhaseOf
  <2>3. Moved(child, "gone")
    BY <2>1 DEF PhaseOf, Moved
  <2> QED
    BY <2>1, <2>2, <2>3, SlotMoves
<1>6. ASSUME NEW spawned \in SpawnOutcomes, RestartTimerFires(spawned)
      PROVE  [Slots!Next]_(Slots!slotVars)
  <2>1. /\ unresolvedTreeTokens' = unresolvedTreeTokens /\ shuttingDown' = shuttingDown
        /\ \/ UNCHANGED <<child, workerGeneration, liveChildren>>
           \/ NewWorker(spawned) /\ ~shuttingDown /\ ~(Occupancy >= LiveCap)
    BY <1>6 DEF RestartTimerFires, currentVars, treeVars
  <2>2. CASE UNCHANGED <<child, workerGeneration, liveChildren>>
    BY <2>1, <2>2, SlotsStay DEF PhaseOf
  <2>3. CASE NewWorker(spawned) /\ ~shuttingDown /\ ~(Occupancy >= LiveCap)
    <3>1. Occupancy < LiveCap
      BY <2>3, OccupancyInNat DEF IInv, LiveCap
    <3> QED
      BY <2>1, <2>3, <3>1, StartMoves
  <2> QED
    BY <2>1, <2>2, <2>3
<1>7. ASSUME NEW g \in Generations, unresolvedTreeTokens' = unresolvedTreeTokens \ {g},
             g \in unresolvedTreeTokens,
             UNCHANGED <<child, workerGeneration, liveChildren, shuttingDown>>
      PROVE  Slots!Next
  <2>1. PhaseOf(g) = "orphaned" /\ Moved(g, "gone")
    BY <1>7 DEF PhaseOf, Moved, NoChild
  <2> QED
    BY <1>7, <2>1, SlotMoves
<1>8. ASSUME UNCHANGED <<child, workerGeneration, liveChildren, unresolvedTreeTokens,
                         shuttingDown>>
      PROVE  UNCHANGED Slots!slotVars
  BY <1>8, SlotsStay DEF PhaseOf
<1>9. ASSUME NEW g \in Generations, NEW success \in BOOLEAN, FinishTreeTermination(g, success)
      PROVE  [Slots!Next]_(Slots!slotVars)
  <2>1. UNCHANGED <<child, workerGeneration, liveChildren, shuttingDown>>
    BY <1>9 DEF FinishTreeTermination, currentVars, processVars
  <2>2. \/ unresolvedTreeTokens' = unresolvedTreeTokens
        \/ /\ g \in unresolvedTreeTokens
           /\ unresolvedTreeTokens' \in {unresolvedTreeTokens \ {g}, unresolvedTreeTokens \cup {g}}
    BY <1>9 DEF FinishTreeTermination, CleanupOver, IInv, PoolShape
  <2> QED
    BY <1>7, <1>8, <2>1, <2>2
<1>10. ASSUME NEW g \in Generations, NEW success \in BOOLEAN, FinishTokenRetry(g, success)
       PROVE  [Slots!Next]_(Slots!slotVars)
  <2>1. UNCHANGED <<child, workerGeneration, liveChildren, shuttingDown>>
    BY <1>10 DEF FinishTokenRetry, currentVars, processVars
  <2>2. \/ unresolvedTreeTokens' = unresolvedTreeTokens
        \/ g \in unresolvedTreeTokens /\ unresolvedTreeTokens' = unresolvedTreeTokens \ {g}
    BY <1>10 DEF FinishTokenRetry
  <2> QED
    BY <1>7, <1>8, <2>1, <2>2
<1>11. ASSUME AdoptActiveChild \/ CleanupRetryTimerFires \/ UNCHANGED poolVars
       PROVE  UNCHANGED Slots!slotVars
  BY <1>8, <1>11 DEF AdoptActiveChild, CleanupRetryTimerFires, poolVars, currentVars, processVars,
                     treeVars
<1>12. ASSUME NEW outcome \in [liveChildren -> TerminationOutcomes], Shutdown(outcome)
       PROVE  Slots!Next
  <2> DEFINE P == [h \in Generations |-> PhaseOf(h)]
  <2>1. /\ ~shuttingDown /\ shuttingDown' = TRUE /\ child' = NoChild
        /\ UNCHANGED <<workerGeneration, liveChildren, unresolvedTreeTokens>>
    BY <1>12 DEF Shutdown, NoCurrentChild, BeginTreeTermination, processVars
  <2>2. \A h \in Generations :
          PhaseOf(h)' = IF PhaseOf(h) = "serving" THEN "ending" ELSE PhaseOf(h)
    BY <2>1 DEF PhaseOf, NoChild, Generations
  <2>3. P' = [h \in Generations |-> IF P[h] = "serving" THEN "ending" ELSE P[h]]
    BY <2>2
  <2>4. ~shuttingDown /\ (~shuttingDown)' = FALSE
    BY <2>1
  <2>5. Slots!Close
    BY <2>3, <2>4 DEF Slots!Close
  <2> QED
    BY <2>5 DEF Slots!Next
<1> QED
  BY <1>1, <1>2, <1>3, <1>4, <1>5, <1>6, <1>9, <1>10, <1>11, <1>12 DEF Next

(* The pool implements WorkerSlots: whatever the order of faults, exits, late
   terminations and retries, a generation goes through its life once and only
   forwards, one serves at a time, and a worker is started only into a free
   slot. *)
THEOREM PoolImplementsSlots == Spec => SlotsSpec
<1>1. Init => Slots!Init
  BY SlotsInit
<1>2. IInv /\ [Next]_poolVars => [Slots!Next]_(Slots!slotVars)
  BY SlotsStep
<1> QED
  BY <1>1, <1>2, Inductive, PTL DEF Spec, SlotsSpec, Slots!Spec
=============================================================================
