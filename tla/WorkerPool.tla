----------------------------- MODULE WorkerPool -----------------------------
(***************************************************************************)
(* The worker lifecycle of the stdio supervisor (src/stdio-supervisor.ts): *)
(* one current worker process, the replaced ones that have not ended yet,  *)
(* the termination of their process trees, the pids whose tree could not   *)
(* be confirmed gone ("unresolved tree tokens"), and the restart and       *)
(* cleanup timers.  Every callback of the Node event loop that changes     *)
(* this state is one action; a callback runs to completion, so it is one   *)
(* step.                                                                   *)
(*                                                                         *)
(* A generation number stands for a child process and for its pid, which   *)
(* the code uses to name the child once its handle is gone.                *)
(***************************************************************************)
EXTENDS Integers, FiniteSets

CONSTANTS MaxGeneration,        \* bound: workers spawned in a behaviour
          MaxLevel,             \* bound: the backoff level saturates here
          TerminationOutcomes,  \* what beginTreeTermination can come to
          SpawnOutcomes         \* what workerSpawner can come to

ASSUME PoolAssumption ==
  /\ MaxGeneration \in Nat \ {0}
  /\ MaxLevel \in Nat
  /\ TerminationOutcomes \subseteq {"accepted", "unresolved", "pending"}
  /\ SpawnOutcomes \subseteq {"running", "no_pid", "throw"}

Generations == 1 .. MaxGeneration
NoChild == 0
NoReservation == -1
LiveCap == 2

VARIABLES
  child,                  \* the current worker, or NoChild
  childReady,             \* it signalled ready and was adopted
  startupWatchdog,        \* its startup timer is armed
  workerGeneration,       \* workers spawned so far
  liveChildren,           \* spawned and not seen to exit
  staleChildren,          \* live, and replaced
  unspawned,              \* child objects whose process never got a pid
  cleanupStates,          \* per generation: "none" or CleanupState.status
  terminating,            \* asynchronous tree terminations not settled
  unresolvedTreeTokens,   \* exited, but the process tree may be alive
  cleanupRetryTimer,      \* the token retry timer is armed
  cleanupRetriesInFlight, \* tokens a retry is running for
  cleanupSweeps,          \* per running sweep: the retries it still awaits
  restartTimer,           \* the restart timer is armed
  currentRetryReservation,\* the backoff level reserved, or NoReservation
  retryPaused,            \* the restart waits for a free slot
  retryIndex,             \* RestartBackoffState.retryIndex
  consecutiveImmediateStandDowns,
  shuttingDown

currentVars == <<child, childReady, startupWatchdog>>
processVars == <<workerGeneration, liveChildren, staleChildren, unspawned>>
treeVars    == <<cleanupStates, terminating, unresolvedTreeTokens>>
retryVars   == <<cleanupRetryTimer, cleanupRetriesInFlight, cleanupSweeps>>
restartVars == <<restartTimer, currentRetryReservation, retryPaused, retryIndex>>
poolVars == <<currentVars, processVars, treeVars, retryVars, restartVars,
              consecutiveImmediateStandDowns, shuttingDown>>

FlagsOK ==
  /\ childReady \in BOOLEAN
  /\ startupWatchdog \in BOOLEAN
  /\ cleanupRetryTimer \in BOOLEAN
  /\ restartTimer \in BOOLEAN
  /\ retryPaused \in BOOLEAN
  /\ shuttingDown \in BOOLEAN

CountsOK ==
  /\ workerGeneration \in 0 .. MaxGeneration
  /\ currentRetryReservation \in 0 .. MaxLevel \cup {NoReservation}
  /\ retryIndex \in 0 .. MaxLevel
  /\ consecutiveImmediateStandDowns \in 0 .. MaxLevel

ProcessesOK ==
  /\ child \in 0 .. workerGeneration
  /\ liveChildren \subseteq 1 .. workerGeneration
  /\ staleChildren \subseteq liveChildren
  /\ unspawned \subseteq 1 .. workerGeneration

TreesOK ==
  /\ cleanupStates \in
       [Generations -> {"none", "pending", "accepted", "unresolved"}]
  /\ terminating \in [Generations -> Nat]
  /\ unresolvedTreeTokens \subseteq 1 .. workerGeneration

RetriesOK ==
  /\ cleanupRetriesInFlight \subseteq Generations
  /\ cleanupSweeps \subseteq SUBSET Generations

TypeOK == FlagsOK /\ CountsOK /\ ProcessesOK /\ TreesOK /\ RetriesOK

-----------------------------------------------------------------------------
(* Helpers, one per helper of the code.  They constrain primed variables    *)
(* and read the primed ones their caller changed before calling them.       *)

\* Mutant: tokens do not take a slot.
MutOccupancy == Cardinality(liveChildren)

\* liveCapOccupancy: slots of the live-generation cap that are taken.
Occupancy == Cardinality(liveChildren) + Cardinality(unresolvedTreeTokens)

\* The bound on faults: the last generation of a behaviour stays up.
MayFault == workerGeneration < MaxGeneration

\* RestartBackoffState.reserve moves one level up (saturating at the bound).
NextLevel(level) == IF level < MaxLevel THEN level + 1 ELSE level

\* Mutant: the level that adoption reset is not restored.
MutEscalateTo(level) == retryIndex

\* RestartBackoffState.escalateTo.
EscalateTo(level) == IF level > retryIndex THEN level ELSE retryIndex

(* scheduleRestart without a current child, from the values its caller left *)
(* in the timer, the reservation, retryPaused and the backoff level.        *)
ScheduleRestart(timer, reservation, paused, level) ==
  IF timer \/ shuttingDown \/ reservation # NoReservation
  THEN /\ restartTimer' = timer
       /\ currentRetryReservation' = reservation
       /\ retryPaused' = paused
       /\ retryIndex' = level
  ELSE /\ currentRetryReservation' = level
       /\ retryIndex' = NextLevel(level)
       /\ IF Occupancy' >= LiveCap
          THEN retryPaused' = TRUE /\ restartTimer' = FALSE
          ELSE retryPaused' = paused /\ restartTimer' = TRUE

\* scheduleRestart after the current child was lost.
RestartLostChild(level) ==
  ScheduleRestart(restartTimer, currentRetryReservation, retryPaused, level)

\* Mutant: a pause without a reservation is dropped.
MutResumePausedRestart ==
  IF ~retryPaused \/ shuttingDown \/ child # NoChild \/ Occupancy' >= LiveCap
  THEN UNCHANGED restartVars
  ELSE /\ retryPaused' = FALSE
       /\ restartTimer' = (restartTimer \/ currentRetryReservation # NoReservation)
       /\ UNCHANGED <<currentRetryReservation, retryIndex>>

(* resumePausedRestart: a slot may have come free.                          *)
ResumePausedRestart ==
  IF ~retryPaused \/ shuttingDown \/ child # NoChild \/ Occupancy' >= LiveCap
  THEN UNCHANGED restartVars
  ELSE /\ retryPaused' = FALSE
       /\ restartTimer' = TRUE
       /\ IF currentRetryReservation = NoReservation /\ ~restartTimer
          THEN /\ currentRetryReservation' = retryIndex
               /\ retryIndex' = NextLevel(retryIndex)
          ELSE UNCHANGED <<currentRetryReservation, retryIndex>>

\* Mutants: no timer is armed; it is armed during shutdown too.
MutNoTokenRetry == UNCHANGED cleanupRetryTimer
MutTokenRetryAfterShutdown ==
  cleanupRetryTimer' = (cleanupRetryTimer \/ unresolvedTreeTokens' # {})

(* scheduleCleanupTokenRetry.                                               *)
ScheduleCleanupTokenRetry ==
  cleanupRetryTimer' =
    (cleanupRetryTimer \/ (~shuttingDown /\ unresolvedTreeTokens' # {}))

(* stopCleanupTokenRetryIfIdle.                                             *)
StopCleanupTokenRetryIfIdle ==
  cleanupRetryTimer' = (cleanupRetryTimer /\ unresolvedTreeTokens' # {})

(* beginTreeTermination of every child in S.  A child without a pid is      *)
(* only sent a signal.  A synchronous terminator settles the status at      *)
(* once, an asynchronous one leaves it for FinishTreeTermination.           *)
BeginTreeTermination(S, outcome) ==
  /\ cleanupStates' = [g \in Generations |->
       IF g \in S \ unspawned
       THEN IF outcome[g] = "pending" /\ cleanupStates[g] # "none"
            THEN cleanupStates[g] ELSE outcome[g]
       ELSE cleanupStates[g]]
  /\ terminating' = [g \in Generations |->
       IF g \in S \ unspawned /\ outcome[g] = "pending"
       THEN terminating[g] + 1 ELSE terminating[g]]
  /\ UNCHANGED unresolvedTreeTokens

(* invalidateCurrentChild and beginTreeTermination of the current child.    *)
AbandonTree(outcome) ==
  /\ staleChildren' = staleChildren \cup {child}
  /\ BeginTreeTermination({child}, [g \in {child} |-> outcome])
  /\ UNCHANGED retryVars

\* Mutants: an exited worker stays among the stale, or the live, ones.
MutStaleKept(g) == liveChildren' = liveChildren \ {g} /\ UNCHANGED staleChildren
MutLiveKept(g) == staleChildren' = staleChildren \ {g} /\ UNCHANGED liveChildren

\* handleWorkerExit takes the child out of both sets, once per child.
ForgetExited(g) ==
  /\ liveChildren' = liveChildren \ {g}
  /\ staleChildren' = staleChildren \ {g}

\* Mutant: the tree of a worker whose termination is still running is forgotten.
MutTreeUnconfirmed(g) == cleanupStates[g] = "unresolved"

\* A supervised exit leaves a token behind unless the termination was accepted.
TreeUnconfirmed(g) == cleanupStates[g] \in {"pending", "unresolved"}

\* Mutant: a late result is applied to a child whose cleanup is over.
MutCleanupOver(g) == FALSE

\* finishTreeTermination finds no cleanup state: a retry settled it before.
CleanupOver(g) == cleanupStates[g] = "none"

\* Mutant: a sweep that ends leaves the next one to somebody else.
MutSweepEnds(g) == FALSE

\* The retry of g is the last one that some sweep awaits.
SweepEnds(g) == {g} \in cleanupSweeps

\* Mutant: the watchdog is cleared after the new worker armed it.
MutNewWorker(spawned) ==
  /\ workerGeneration < MaxGeneration
  /\ spawned = "no_pid" => workerGeneration + 1 < MaxGeneration
  /\ workerGeneration' = workerGeneration + 1
  /\ child' = workerGeneration + 1
  /\ childReady' = FALSE
  /\ startupWatchdog' = FALSE
  /\ liveChildren' = liveChildren \cup {workerGeneration + 1}
  /\ unspawned' = IF spawned = "no_pid"
                  THEN unspawned \cup {workerGeneration + 1} ELSE unspawned

(* spawnWorker, past its guard, with a worker that started.                 *)
NewWorker(spawned) ==
  /\ workerGeneration < MaxGeneration
  /\ spawned = "no_pid" => workerGeneration + 1 < MaxGeneration
  /\ workerGeneration' = workerGeneration + 1
  /\ child' = workerGeneration + 1
  /\ childReady' = FALSE
  /\ startupWatchdog' = TRUE
  /\ liveChildren' = liveChildren \cup {workerGeneration + 1}
  /\ unspawned' = IF spawned = "no_pid"
                  THEN unspawned \cup {workerGeneration + 1} ELSE unspawned

NoCurrentChild ==
  /\ child' = NoChild
  /\ childReady' = FALSE
  /\ startupWatchdog' = FALSE

-----------------------------------------------------------------------------
(* The state after start(): the first worker has been spawned.              *)
Init ==
  /\ child = 1 /\ childReady = FALSE /\ startupWatchdog = TRUE
  /\ workerGeneration = 1 /\ liveChildren = {1} /\ staleChildren = {}
  /\ unspawned = {}
  /\ cleanupStates = [g \in Generations |-> "none"]
  /\ terminating = [g \in Generations |-> 0]
  /\ unresolvedTreeTokens = {}
  /\ cleanupRetryTimer = FALSE
  /\ cleanupRetriesInFlight = {}
  /\ cleanupSweeps = {}
  /\ restartTimer = FALSE /\ currentRetryReservation = NoReservation
  /\ retryPaused = FALSE /\ retryIndex = 0
  /\ consecutiveImmediateStandDowns = 0
  /\ shuttingDown = FALSE

(* adoptActiveChild: the worker signalled ready and, in the legacy era, has *)
(* answered initialize.  A re-sent initialize adopts the same child again.  *)
AdoptActiveChild ==
  /\ child # NoChild /\ child \notin unspawned
  /\ childReady' = TRUE /\ startupWatchdog' = FALSE
  /\ retryIndex' = 0
  /\ currentRetryReservation' = NoReservation
  /\ retryPaused' = FALSE
  /\ UNCHANGED <<child, processVars, treeVars, retryVars, restartTimer,
                 consecutiveImmediateStandDowns, shuttingDown>>

(* The current worker is given up before it was ready (startup watchdog),   *)
(* or after it answered initialize with an error, and handleStartupFailure  *)
(* schedules the next one.                                                  *)
StartupFails(outcome) ==
  /\ child # NoChild /\ MayFault
  /\ AbandonTree(outcome)
  /\ NoCurrentChild
  /\ UNCHANGED <<workerGeneration, liveChildren, unspawned>>
  /\ RestartLostChild(retryIndex)
  /\ UNCHANGED <<consecutiveImmediateStandDowns, shuttingDown>>

WatchdogFires(outcome) == startupWatchdog /\ ~childReady /\ StartupFails(outcome)

InitializeRejected(outcome) == child \notin unspawned /\ StartupFails(outcome)

(* handleWorkerProcessError, handleWorkerStdinError and a fatal framing     *)
(* error of the current worker.                                             *)
WorkerFaults(outcome) ==
  /\ child # NoChild /\ MayFault
  /\ AbandonTree(outcome)
  /\ NoCurrentChild
  /\ UNCHANGED <<workerGeneration, liveChildren, unspawned>>
  /\ RestartLostChild(retryIndex)
  /\ consecutiveImmediateStandDowns' =
       IF childReady THEN 0 ELSE consecutiveImmediateStandDowns
  /\ UNCHANGED shuttingDown

(* handleWorkerExit of a child the supervisor terminated itself.            *)
TerminatedWorkerExits(g) ==
  /\ g \in liveChildren /\ cleanupStates[g] # "none"
  /\ ForgetExited(g)
  /\ IF TreeUnconfirmed(g)
     THEN /\ unresolvedTreeTokens' = unresolvedTreeTokens \cup {g}
          /\ ScheduleCleanupTokenRetry
          /\ UNCHANGED cleanupStates
     ELSE /\ cleanupStates' = [cleanupStates EXCEPT ![g] = "none"]
          /\ UNCHANGED <<unresolvedTreeTokens, cleanupRetryTimer>>
  /\ ResumePausedRestart
  /\ UNCHANGED <<currentVars, workerGeneration, unspawned, terminating,
                 cleanupRetriesInFlight, cleanupSweeps,
                 consecutiveImmediateStandDowns, shuttingDown>>

(* handleWorkerExit ("close") of a child that never got a pid; its "error"  *)
(* comes first and has replaced it.                                         *)
UnspawnedChildCloses(g) ==
  /\ g \in liveChildren /\ cleanupStates[g] = "none" /\ g # child
  /\ ForgetExited(g)
  /\ UNCHANGED treeVars
  /\ ResumePausedRestart
  /\ UNCHANGED <<currentVars, workerGeneration, unspawned, retryVars,
                 consecutiveImmediateStandDowns, shuttingDown>>

(* handleWorkerExit of the current child: it crashed, or it stood down      *)
(* cleanly; stoodDown says that a ready child exited with code 0 within     *)
(* MIN_HEALTHY_WORKER_READY_MS (accountForReadyGenerationExit).             *)
CurrentWorkerExits(stoodDown) ==
  /\ child # NoChild /\ child \notin unspawned /\ MayFault
  /\ stoodDown => childReady
  /\ ForgetExited(child)
  /\ NoCurrentChild
  /\ consecutiveImmediateStandDowns' =
       IF stoodDown THEN NextLevel(consecutiveImmediateStandDowns)
       ELSE IF childReady THEN 0 ELSE consecutiveImmediateStandDowns
  /\ UNCHANGED <<workerGeneration, unspawned, treeVars, retryVars, shuttingDown>>
  /\ RestartLostChild(IF stoodDown
                      THEN EscalateTo(consecutiveImmediateStandDowns')
                      ELSE retryIndex)

(* recoverTimedOutWorker: a running validate-project passed its deadline.   *)
(* The replacement is spawned at once when the cap allows it.               *)
RecoverTimedOutWorker(outcome, spawned) ==
  /\ ~shuttingDown
  /\ IF child = NoChild
     THEN /\ UNCHANGED <<currentVars, processVars, treeVars, retryVars>>
          /\ RestartLostChild(retryIndex)
     ELSE /\ MayFault
          /\ AbandonTree(outcome)
          /\ IF Occupancy >= LiveCap
             THEN /\ NoCurrentChild
                  /\ retryPaused' = TRUE
                  /\ UNCHANGED <<workerGeneration, liveChildren, unspawned,
                                 restartTimer, currentRetryReservation, retryIndex>>
             ELSE IF spawned = "throw"
             THEN /\ NoCurrentChild
                  /\ UNCHANGED <<workerGeneration, liveChildren, unspawned>>
                  /\ ScheduleRestart(restartTimer, NoReservation, FALSE, retryIndex)
             ELSE /\ NewWorker(spawned)
                  /\ currentRetryReservation' = NoReservation
                  /\ retryPaused' = FALSE
                  /\ UNCHANGED <<restartTimer, retryIndex>>
  /\ UNCHANGED <<consecutiveImmediateStandDowns, shuttingDown>>

(* The restart timer (armRestartReservation) and spawnWorker.               *)
RestartTimerFires(spawned) ==
  /\ restartTimer
  /\ UNCHANGED <<staleChildren, treeVars, retryVars,
                 consecutiveImmediateStandDowns, shuttingDown>>
  /\ IF \/ shuttingDown \/ currentRetryReservation = NoReservation
        \/ child # NoChild \/ Occupancy >= LiveCap
     THEN /\ restartTimer' = FALSE
          /\ retryPaused' =
               (\/ retryPaused
                \/ /\ ~shuttingDown /\ currentRetryReservation # NoReservation
                   /\ Occupancy >= LiveCap)
          /\ UNCHANGED <<currentVars, workerGeneration, liveChildren, unspawned,
                         currentRetryReservation, retryIndex>>
     ELSE IF spawned = "throw"
     THEN /\ UNCHANGED <<currentVars, workerGeneration, liveChildren, unspawned>>
          /\ ScheduleRestart(FALSE, NoReservation, FALSE, retryIndex)
     ELSE /\ NewWorker(spawned)
          /\ restartTimer' = FALSE
          /\ currentRetryReservation' = NoReservation
          /\ retryPaused' = FALSE
          /\ UNCHANGED retryIndex

(* finishTreeTermination of an asynchronous termination, settled with       *)
(* success or, on failure or on its timeout, with a signal to the child.    *)
FinishTreeTermination(g, success) ==
  /\ terminating[g] > 0
  /\ terminating' = [terminating EXCEPT ![g] = @ - 1]
  /\ UNCHANGED <<currentVars, processVars, cleanupRetriesInFlight, cleanupSweeps,
                 consecutiveImmediateStandDowns, shuttingDown>>
  /\ IF CleanupOver(g)
     THEN UNCHANGED <<cleanupStates, unresolvedTreeTokens, cleanupRetryTimer,
                      restartVars>>
     ELSE IF g \in liveChildren
     THEN /\ cleanupStates' = [cleanupStates EXCEPT
                ![g] = IF success THEN "accepted" ELSE "unresolved"]
          /\ UNCHANGED <<unresolvedTreeTokens, cleanupRetryTimer, restartVars>>
     ELSE IF success
     THEN /\ cleanupStates' = [cleanupStates EXCEPT ![g] = "none"]
          /\ unresolvedTreeTokens' = unresolvedTreeTokens \ {g}
          /\ StopCleanupTokenRetryIfIdle
          /\ ResumePausedRestart
     ELSE /\ cleanupStates' = [cleanupStates EXCEPT ![g] = "unresolved"]
          /\ unresolvedTreeTokens' = unresolvedTreeTokens \cup {g}
          /\ ScheduleCleanupTokenRetry
          /\ ResumePausedRestart

(* The token retry timer: runCleanupTokenRetries starts one retry per token *)
(* and shares a retry that is already running.                              *)
CleanupRetryTimerFires ==
  /\ cleanupRetryTimer
  /\ cleanupRetryTimer' = FALSE
  /\ cleanupSweeps' = cleanupSweeps \cup ({unresolvedTreeTokens} \ {{}})
  /\ cleanupRetriesInFlight' = cleanupRetriesInFlight \cup unresolvedTreeTokens
  /\ UNCHANGED <<currentVars, processVars, treeVars, restartVars,
                 consecutiveImmediateStandDowns, shuttingDown>>

(* performUnresolvedTreeTokenRetry settles, and so do the sweeps that       *)
(* awaited nothing else: a sweep that ends schedules the next one.          *)
FinishTokenRetry(g, success) ==
  /\ g \in cleanupRetriesInFlight
  /\ cleanupRetriesInFlight' = cleanupRetriesInFlight \ {g}
  /\ cleanupSweeps' = {sweep \ {g} : sweep \in cleanupSweeps} \ {{}}
  /\ UNCHANGED <<currentVars, processVars, terminating,
                 consecutiveImmediateStandDowns, shuttingDown>>
  /\ IF success /\ g \in unresolvedTreeTokens
     THEN /\ unresolvedTreeTokens' = unresolvedTreeTokens \ {g}
          /\ cleanupStates' = [cleanupStates EXCEPT
                ![g] = IF g \in liveChildren THEN @ ELSE "none"]
          /\ ResumePausedRestart
     ELSE UNCHANGED <<unresolvedTreeTokens, cleanupStates, restartVars>>
  /\ cleanupRetryTimer' =
       (\/ /\ cleanupRetryTimer
           /\ ~(success /\ g \in unresolvedTreeTokens /\ unresolvedTreeTokens' = {})
        \/ SweepEnds(g) /\ ~shuttingDown /\ unresolvedTreeTokens' # {})

(* runShutdown: the timers are cleared, every live child is terminated and  *)
(* every token is retried once more.                                        *)
Shutdown(outcome) ==
  /\ ~shuttingDown
  /\ shuttingDown' = TRUE
  /\ NoCurrentChild
  /\ cleanupRetryTimer' = FALSE
  /\ restartTimer' = FALSE
  /\ currentRetryReservation' = NoReservation
  /\ retryPaused' = FALSE
  /\ BeginTreeTermination(liveChildren, outcome)
  /\ cleanupRetriesInFlight' = cleanupRetriesInFlight \cup unresolvedTreeTokens
  /\ UNCHANGED <<processVars, cleanupSweeps, retryIndex,
                 consecutiveImmediateStandDowns>>

Next ==
  \/ AdoptActiveChild
  \/ \E outcome \in TerminationOutcomes :
       \/ WatchdogFires(outcome)
       \/ InitializeRejected(outcome)
       \/ WorkerFaults(outcome)
       \/ \E spawned \in SpawnOutcomes : RecoverTimedOutWorker(outcome, spawned)
  \/ \E g \in Generations : TerminatedWorkerExits(g) \/ UnspawnedChildCloses(g)
  \/ \E stoodDown \in BOOLEAN : CurrentWorkerExits(stoodDown)
  \/ \E spawned \in SpawnOutcomes : RestartTimerFires(spawned)
  \/ \E g \in Generations, success \in BOOLEAN :
       FinishTreeTermination(g, success) \/ FinishTokenRetry(g, success)
  \/ CleanupRetryTimerFires
  \/ \E outcome \in [liveChildren -> TerminationOutcomes] : Shutdown(outcome)

Spec == Init /\ [][Next]_poolVars

(***************************************************************************)
(* Fairness.  Node fires armed timers and settles promises: a restart or   *)
(* retry timer, an asynchronous termination (settleTreeCleanupWithin ends  *)
(* it within its time limit) and a token retry (likewise).  A child sent   *)
(* SIGKILL exits, and a child object without a process reports "error" and *)
(* then "close".  Two things are asked of the environment: a worker can be *)
(* started again and again until it starts, and a process tree that is     *)
(* signalled again and again goes away.                                    *)
(***************************************************************************)
Fairness ==
  /\ WF_poolVars(\E spawned \in SpawnOutcomes : RestartTimerFires(spawned))
  /\ SF_poolVars(RestartTimerFires("running"))
  /\ WF_poolVars(CleanupRetryTimerFires)
  /\ WF_poolVars(child \in unspawned /\ \E o \in TerminationOutcomes : WorkerFaults(o))
  /\ \A g \in Generations :
       /\ WF_poolVars(TerminatedWorkerExits(g))
       /\ WF_poolVars(UnspawnedChildCloses(g))
       /\ WF_poolVars(\E success \in BOOLEAN : FinishTreeTermination(g, success))
       /\ WF_poolVars(\E success \in BOOLEAN : FinishTokenRetry(g, success))
       /\ SF_poolVars(FinishTokenRetry(g, TRUE))

FairSpec == Spec /\ Fairness

-----------------------------------------------------------------------------
(* Safety.                                                                  *)

(* Worker generations are capped: the workers not seen to exit and the pids *)
(* whose process tree may be alive never exceed the two slots, whatever the *)
(* order of exits, terminations and retries (liveCapOccupancy, spawnWorker).*)
LiveCapRespected ==
  Cardinality(liveChildren) + Cardinality(unresolvedTreeTokens) <= LiveCap

(* No restart is lost: without a current worker, either the restart timer   *)
(* is armed for the current reservation, or the restart is paused on a full *)
(* cap and the event that frees a slot will resume it (scheduleRestart,     *)
(* armRestartReservation, resumePausedRestart).                             *)
NoLostRestart ==
  child = NoChild /\ ~shuttingDown =>
    \/ restartTimer /\ currentRetryReservation # NoReservation
    \/ retryPaused /\ Occupancy >= LiveCap

(* The sets of the pool fit together: the current worker is live, not stale *)
(* and not being terminated, and no restart is pending beside it; a pid is  *)
(* a token only after its worker exited; every cleanup state belongs to a   *)
(* live worker or a token; an armed restart timer has a reservation, and a  *)
(* running sweep has something to await.                                    *)
PoolShape ==
  /\ child # NoChild =>
       /\ child \in liveChildren \ staleChildren
       /\ cleanupStates[child] = "none"
       /\ ~restartTimer /\ ~retryPaused
       /\ currentRetryReservation = NoReservation
  /\ liveChildren \cap unresolvedTreeTokens = {}
  /\ \A g \in Generations : cleanupStates[g] # "none" =>
       g \in (liveChildren \cup unresolvedTreeTokens) \ unspawned
  /\ restartTimer => currentRetryReservation # NoReservation
  /\ {} \notin cleanupSweeps

(* A worker that never becomes ready is not waited for forever: until it is *)
(* adopted its watchdog is armed, across every path that clears the         *)
(* watchdog of an earlier worker (clearStartupWatchdog).                    *)
StartupWatched == child # NoChild /\ ~childReady => startupWatchdog

(* A token is always on its way to a retry: the timer is armed, or a sweep  *)
(* is running whose end arms it (scheduleCleanupTokenRetry).                *)
CleanupRetryArmed ==
  unresolvedTreeTokens # {} /\ ~shuttingDown =>
    cleanupRetryTimer \/ cleanupSweeps # {}

(* Nothing is waited for without a timer that ends the wait: neither a      *)
(* worker that does not get ready nor a tree that does not go away.         *)
TimersArmed == StartupWatched /\ CleanupRetryArmed

(* Shutdown is final: no timer that could start a worker or a retry is      *)
(* armed after it, even by a sweep or a termination that was in flight.     *)
ShutdownQuiet ==
  shuttingDown => /\ ~restartTimer /\ ~cleanupRetryTimer /\ ~startupWatchdog
                  /\ child = NoChild

(* A worker that stands down as soon as it is ready cannot turn restarts    *)
(* into a hot loop: although its adoption reset the backoff, the restart it *)
(* causes is delayed by at least the length of the run of such stand-downs  *)
(* (accountForReadyGenerationExit, escalateTo).                             *)
StandDownsBackOff ==
  [][consecutiveImmediateStandDowns' > consecutiveImmediateStandDowns
       => currentRetryReservation' >= consecutiveImmediateStandDowns']_poolVars

(* A process tree that may have outlived its worker keeps its slot: a slot  *)
(* is freed by an exit only if the tree was never signalled or its          *)
(* termination was accepted, and otherwise by a retry or a late termination *)
(* result, in whatever order those three come (handleWorkerExit,            *)
(* finishTreeTermination, performUnresolvedTreeTokenRetry).                 *)
SlotFreedOnlyWhenGone ==
  [][\A g \in liveChildren \cup unresolvedTreeTokens :
       g \notin liveChildren' \cup unresolvedTreeTokens' =>
         \/ cleanupStates[g] \in {"none", "accepted"}
         \/ g \notin liveChildren /\ terminating'[g] < terminating[g]
         \/ g \in cleanupRetriesInFlight \ cleanupRetriesInFlight']_poolVars

-----------------------------------------------------------------------------
(* Refinement: the phase of a generation, read off the supervisor's sets.   *)
PhaseOf(g) ==
  IF g = child THEN "serving"
  ELSE IF g \in liveChildren THEN "ending"
  ELSE IF g \in unresolvedTreeTokens THEN "orphaned"
  ELSE IF g <= workerGeneration THEN "gone" ELSE "unused"

Slots == INSTANCE WorkerSlots WITH
  Generation <- Generations, Cap <- LiveCap,
  phase <- [g \in Generations |-> PhaseOf(g)], open <- ~shuttingDown

(* The supervisor implements WorkerSlots: a generation's life only moves    *)
(* forwards, at most one generation serves, and a new one is started only   *)
(* into a free slot.                                                        *)
SlotsSpec == Slots!Spec

-----------------------------------------------------------------------------
(* Liveness, under Fairness.                                                *)

(* A lost worker is replaced: a supervisor without a worker eventually has  *)
(* one again, or is shutting down.                                          *)
WorkerReturns == child = NoChild ~> child # NoChild \/ shuttingDown

(* Every process tree that outlived its worker is eventually confirmed gone *)
(* and its slot freed.                                                      *)
TreesReleased ==
  \A g \in Generations :
    g \in unresolvedTreeTokens ~> g \notin unresolvedTreeTokens \/ shuttingDown

(* The pool recovers from whatever happens to its workers and their trees.  *)
PoolRecovers == WorkerReturns /\ TreesReleased
=============================================================================
