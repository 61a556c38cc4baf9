----------------------------- MODULE Supervisor -----------------------------
(***************************************************************************)
(* The request side of the stdio supervisor (src/stdio-supervisor.ts) on   *)
(* top of WorkerPool: admission by era, the two-request queue, the         *)
(* validate-project barrier and deadlines, response finality, the legacy   *)
(* handshake and its replay, and what each event of the worker's life does *)
(* to the requests.  Every action is one callback of the event loop: one   *)
(* action of WorkerPool (or none) together with the whole change of the    *)
(* request state s, computed by the operators below in the order of the    *)
(* code's calls.                                                           *)
(*                                                                         *)
(* A request is a record: id, method, signal (its era claim: "modern",     *)
(* "unsupported" for a modern claim of another version, "none"), waits     *)
(* (the client sends it only after the handshake) and n, which tells       *)
(* requests apart that use the same id.                                    *)
(***************************************************************************)
EXTENDS WorkerPool, Sequences

CONSTANTS Requests,      \* what the client may send, each once
          Cancellable,   \* the requests the client may cancel
          BrokenPipes,   \* whether the worker's stdin may break (EPIPE)
          Reinitializes, \* whether the client initializes a running session
          Unwritable,    \* the requests whose write to a worker throws
          None

Methods == {"initialize", "bad_initialize", "discover", "listen", "call",
            "bad_call", "validate"}

ASSUME SupervisorAssumption ==
  /\ \A r \in Requests : r.id # None /\ r.method \in Methods
  /\ \A r \in Requests : r.signal \in {"modern", "unsupported", "none"}
  /\ Cancellable \subseteq Requests
  /\ Unwritable \subseteq {r \in Requests : r.method \in {"call", "validate"}}
  /\ {BrokenPipes, Reinitializes} \subseteq BOOLEAN
  /\ None \notin Requests

MAX_SUPERVISOR_QUEUE == 2
Ids == {r.id : r \in Requests}
Initialize(r) == r.method = "initialize"
Validate(r) == r.method = "validate"

VARIABLES
  s,            \* the supervisor's request state and the current worker's
  sent,         \* the requests the client sent
  cancelled,    \* the requests the client cancelled before an answer
  streamsOpen   \* the generations that have not emitted "close"

clientVars == <<sent, cancelled>>
vars == <<poolVars, s, sent, cancelled, streamsOpen>>

InitialState ==
  [ queue |-> << >>,              \* queuedRequests
    pending |-> {},               \* pendingRequests, one per id
    barrier |-> None,             \* validateBarrierKey
    running |-> None,             \* runningValidateKey
    armed |-> {},                 \* the requests whose deadlineTimer is armed
    tombstones |-> [id \in Ids |-> 0],  \* a generation, or 0 for none
    era |-> "unselected",
    initializeRequest |-> None,
    parked |-> None,              \* the initialize in queuedNotifications
    predecessors |-> 0,           \* initializePredecessorCount
    clientInitialized |-> FALSE,
    replaying |-> FALSE,          \* replayingInitialization
    initializeSent |-> FALSE,     \* initializeSentToWorker
    initialized |-> FALSE,        \* initializedNotification is captured
    \* The current worker, as seen through its pipes:
    marked |-> FALSE,             \* it wrote its ready marker
    stdin |-> "fresh",            \* or "written", or "destroyed"
    held |-> {},                  \* requests it got and has not answered
    told |-> FALSE,               \* it got notifications/initialized
    \* The client's view:
    answers |-> [r \in Requests |-> 0] ]  \* responses (2 stands for more)

-----------------------------------------------------------------------------
(* The request state after one call.  Operators that look at the pool read  *)
(* the primed values its action has set.                                    *)

Queued(st) == {st.queue[i] : i \in DOMAIN st.queue}

\* The queue without r: the entry at its index is spliced out.
Without(queue, r) ==
  LET index == CHOOSE i \in DOMAIN queue : queue[i] = r
  IN [i \in 1 .. Len(queue) - 1 |-> queue[IF i < index THEN i ELSE i + 1]]

\* this.child exists and its stdin is not destroyed.
Writable(st) == child' # NoChild /\ st.stdin # "destroyed"
CapBlocked == child' = NoChild /\ Occupancy' >= LiveCap
NothingElseAlive == staleChildren' = {} /\ unresolvedTreeTokens' = {}

\* writeToClient: one response for every request in R.
AnswerAll(st, R) ==
  [st EXCEPT !.answers = [r \in Requests |->
     IF r \in R /\ @[r] < 2 THEN @[r] + 1 ELSE @[r]]]
Answer(st, r) == AnswerAll(st, {r})

\* Mutant: a settled request leaves its timer running.
MutDisarm(st, R) == st

\* The deadline timers of R are cleared.
Disarm(st, R) == [st EXCEPT !.armed = @ \ R]

\* Mutant: no tombstone is recorded.
MutEntomb(st, R) == st

\* recordFinalityTombstone, for forwarded requests.
Entomb(st, R) ==
  [st EXCEPT !.tombstones = [id \in Ids |->
     IF \E r \in R : r.id = id THEN workerGeneration ELSE @[id]]]

\* The end of forwarded requests: their deadlines, entries, tombstones, and
\* the validate slot if one of them had it.
Release(st, R) ==
  Entomb([Disarm(st, R) EXCEPT !.pending = @ \ R,
            !.running = IF \E r \in R : r.id = @ THEN None ELSE @,
            !.barrier = IF \E r \in R : r.id = @ THEN None ELSE @], R)

\* A request that was never forwarded gives back the barrier it took.
ReleaseBarrier(st, id) ==
  [st EXCEPT !.barrier = IF @ = id /\ st.running # id THEN None ELSE @]

\* Mutant: the entry of a request that could not be written is kept.
MutUnwritten(st, r) == Answer(st, r)

(* The rollback of an admission or of a dispatch whose write threw; the     *)
(* worker may have got the request all the same.                            *)
Unwritten(st, r) == Answer(Release(st, {r}), r)

(* forwardRequest, with what its callers do when the write throws.  The     *)
(* restart its fallback schedules is never needed: it is called with a      *)
(* current child.                                                           *)
Forward(st, r) ==
  IF ~Writable(st)
  THEN IF Len(st.queue) < MAX_SUPERVISOR_QUEUE
       THEN [st EXCEPT !.queue = Append(@, r)]
       ELSE Answer(ReleaseBarrier(Disarm(st, {r}), r.id), r)
  ELSE LET written ==
             [st EXCEPT
                !.tombstones[r.id] = 0,
                !.pending = {q \in @ : q.id # r.id} \cup {r},
                !.running = IF Validate(r) THEN r.id ELSE @,
                !.barrier = IF Validate(r) THEN r.id ELSE @,
                !.initializeSent = @ \/ Initialize(r),
                !.stdin = "written", !.held = @ \cup {r}]
       IN IF r \in Unwritable THEN Unwritten(written, r) ELSE written

\* Mutant: requests in flight do not hold a validate-project back.
MutMayValidateBeside(st) == NothingElseAlive

\* Mutant: unresolved trees do not hold a validate-project back.
MutMayValidate(st) == st.pending = {} /\ staleChildren' = {}

\* What a validate-project at the head of the queue waits for.
MayValidate(st) == st.pending = {} /\ NothingElseAlive

(* drainQueue: one round of its loop, and the loop.  (The barrier check for *)
(* other requests at the head never holds them back: its index is that of   *)
(* a request behind the head.)                                              *)
DrainStep(st) ==
  IF ~childReady' \/ ~Writable(st) \/ st.queue = << >> \/ st.running # None
  THEN st
  ELSE LET next == Head(st.queue)
           taken == [st EXCEPT !.queue = Tail(@)]
       IN IF ~Validate(next) THEN Forward(taken, next)
          ELSE IF MayValidate(st) THEN Forward(taken, next)
          ELSE [st EXCEPT !.barrier = next.id]

\* Mutant: a request that ends does not drain the queue.
MutDrain(st) == st

Drain(st) == DrainStep(DrainStep(st))

\* Mutant: an ordinary request overtakes a waiting validate-project.
MutCanDispatch(st, r) ==
  /\ childReady' /\ Writable(st)
  /\ IF Validate(r)
     THEN st.running = None /\ st.queue = << >> /\ MayValidate(st)
     ELSE st.running = None

\* canDispatchImmediately.
CanDispatch(st, r) ==
  /\ childReady' /\ Writable(st)
  /\ IF Validate(r)
     THEN st.running = None /\ st.queue = << >> /\ MayValidate(st)
     ELSE st.barrier = None

\* The entry of an initialize that a replay will be matched with.
Retained(st, r) ==
  /\ Initialize(r) /\ st.initializeRequest # None
  /\ r.id = st.initializeRequest.id

\* clearInitialInitializationState.
ClearHandshake(st) ==
  IF st.clientInitialized THEN st
  ELSE [st EXCEPT !.pending = {r \in @ : ~Retained(st, r)},
          !.initializeRequest = None, !.initialized = FALSE, !.predecessors = 0,
          !.replaying = FALSE, !.initializeSent = FALSE]

\* Mutant: the barrier is left to the queued requests that ended.
MutFailQueued(st) ==
  LET answered == AnswerAll(AnswerAll(st, Queued(st)), {st.parked} \cap Requests)
  IN ClearHandshake([Disarm(answered, Queued(st)) EXCEPT
                       !.queue = << >>, !.parked = None])

\* failQueuedRequestsOnStartupFailure.
FailQueued(st) ==
  LET answered == AnswerAll(AnswerAll(st, Queued(st)), {st.parked} \cap Requests)
      cleared == ClearHandshake(
        [Disarm(answered, Queued(st)) EXCEPT !.queue = << >>, !.parked = None])
  IN [cleared EXCEPT !.barrier = None, !.running = None]

\* Mutant: the requests of a lost worker are forgotten, not answered.
MutFailPending(st) == Release(st, {r \in st.pending : ~Retained(st, r)})

\* failPendingRequestsOnWorkerExit: the initialize stays for its replay.
FailPending(st) ==
  LET lost == {r \in st.pending : ~Retained(st, r)}
  IN AnswerAll(Release(st, lost), lost)

\* Mutant: the frames of a replaced worker are still read.
MutLoseWorker(st) ==
  [st EXCEPT !.replaying = FALSE, !.initializeSent = FALSE, !.marked = FALSE,
             !.stdin = "fresh", !.told = FALSE]

\* invalidateCurrentChild and detachCurrentChild.
LoseWorker(st) ==
  [st EXCEPT !.replaying = FALSE, !.initializeSent = FALSE, !.marked = FALSE,
             !.stdin = "fresh", !.held = {}, !.told = FALSE]

\* Mutant: a worker lost after it was adopted fails the queue instead.
MutAfterLoss(st) == FailQueued(LoseWorker(st))

\* The current worker is lost; requests wait for the next one if it was ready.
AfterLoss(st) ==
  IF childReady THEN FailPending(LoseWorker(st)) ELSE FailQueued(LoseWorker(st))

\* flushQueue, after adoption: a parked initialize that was not sent, the queue.
FlushQueue(st) ==
  LET sentBefore == st.initializeSent /\ Retained(st, st.parked)
      flushed == [st EXCEPT !.parked = None]
  IN Drain(IF st.parked = None \/ sentBefore THEN flushed
           ELSE Forward(flushed, st.parked))

\* One predecessor of the initialize, in handleWorkerReady.
ForwardPredecessor(st) ==
  IF st.predecessors = 0 \/ st.queue = << >> THEN st
  ELSE Forward([st EXCEPT !.queue = Tail(@), !.predecessors = @ - 1],
               Head(st.queue))

\* Mutant: the whole queue is released before the handshake.
MutSendHandshake(st) ==
  LET released == ForwardPredecessor(ForwardPredecessor(
                    [st EXCEPT !.predecessors = Len(st.queue)]))
  IN Forward([released EXCEPT !.predecessors = 0,
                              !.replaying = st.clientInitialized],
             st.initializeRequest)

\* handleWorkerReady in the legacy era: the handshake comes before the queue.
SendHandshake(st) ==
  LET released == ForwardPredecessor(ForwardPredecessor(st))
  IN Forward([released EXCEPT !.predecessors = 0,
                              !.replaying = st.clientInitialized],
             st.initializeRequest)

-----------------------------------------------------------------------------
(* Admission (routeClientMessage).                                          *)

ModernClaim(r) == r.signal \in {"modern", "unsupported"}

\* lockModernEra, by the first modern request that is not a discover.
LockEra(st, r) ==
  IF st.era = "unselected" /\ ModernClaim(r) /\ r.method # "discover"
  THEN [st EXCEPT !.era = "modern", !.initializeRequest = None,
          !.initialized = FALSE, !.predecessors = 0, !.clientInitialized = FALSE,
          !.replaying = FALSE, !.initializeSent = FALSE]
  ELSE st

\* admitEraRequest rejects the request (the era is locked already).
EraRejects(st, r) ==
  IF st.era = "legacy"
  THEN r.method # "discover" /\ ModernClaim(r)
  ELSE r.signal # "modern"

\* The validate-project arms its deadline and raises the barrier.
Install(st, r) ==
  IF Validate(r)
  THEN [st EXCEPT !.armed = @ \cup {r},
                  !.barrier = IF @ = None THEN r.id ELSE @]
  ELSE st

\* A request that is forwarded at once; what a rollback releases may have held the queue.
Admit(st, r) ==
  IF r \in Unwritable THEN Drain(Forward(st, r)) ELSE Forward(st, r)

\* A request other than initialize.
RouteRequest(client, r) ==
  LET st == LockEra(client, r)
  IN IF \/ EraRejects(st, r) \/ CapBlocked
        \/ st.era # "legacy" /\ r.method = "listen"
     THEN Answer(st, r)
     ELSE IF ~CanDispatch(st, r) /\ Len(st.queue) >= MAX_SUPERVISOR_QUEUE
     THEN Drain(Answer(st, r))
     ELSE IF st.era = "legacy" /\ r.method = "bad_call"
     THEN Answer(st, r)
     ELSE IF CanDispatch(st, r) THEN Admit(Install(st, r), r)
     ELSE [Install(st, r) EXCEPT !.queue = Append(@, r)]

\* Mutant: whatever is queued comes before an initialize, also one that is sent again.
MutRouteInitialize(st, r) ==
  LET captured == [st EXCEPT !.era = "legacy", !.initializeRequest = r,
                             !.clientInitialized = FALSE]
  IN IF st.era = "modern" \/ CapBlocked THEN Answer(st, r)
     ELSE IF childReady' THEN Forward([captured EXCEPT !.predecessors = 0], r)
     ELSE [captured EXCEPT !.parked = r, !.predecessors = Len(st.queue)]

\* initialize: rejected, forwarded at once, or parked until a worker is ready.
RouteInitialize(st, r) ==
  LET legacy == [st EXCEPT !.era = "legacy"]
      captured == [legacy EXCEPT !.initializeRequest = r, !.clientInitialized = FALSE]
  IN IF st.era = "modern" THEN Answer(st, r)
     ELSE IF CapBlocked THEN Answer(ClearHandshake(legacy), r)
     ELSE IF childReady' THEN Forward([captured EXCEPT !.predecessors = 0], r)
     ELSE [captured EXCEPT !.parked = r,
             !.predecessors = IF st.era = "unselected" THEN Len(st.queue) ELSE 0]

Route(st, r) ==
  IF Initialize(r) THEN RouteInitialize(st, r)
  ELSE IF r.method = "bad_initialize" THEN Answer(st, r)
  ELSE RouteRequest(st, r)

Closed(r) == s.answers[r] > 0 \/ r \in cancelled

(* The client sends a request: an id again only when the request that used  *)
(* it is over, one initialize at a time, and waits for the handshake where     *)
(* it has to.                                                               *)
ClientSends(r) ==
  /\ ~shuttingDown /\ r \notin sent
  /\ \A q \in sent : q.id = r.id \/ (Initialize(q) /\ Initialize(r)) => Closed(q)
  /\ r.waits => s.clientInitialized
  /\ Initialize(r) => ~s.clientInitialized \/ Reinitializes
  /\ sent' = sent \cup {r}
  /\ UNCHANGED <<poolVars, cancelled, streamsOpen>>
  /\ s' = Route(s, r)

(* notifications/initialized, after the result of initialize.               *)
ClientInitialized ==
  /\ ~shuttingDown /\ s.clientInitialized /\ ~s.initialized
  /\ s.era = "legacy" /\ s.initializeRequest # None
  /\ UNCHANGED <<poolVars, clientVars, streamsOpen>>
  /\ s' = IF childReady /\ Writable(s)
          THEN [s EXCEPT !.initialized = TRUE, !.told = TRUE, !.stdin = "written"]
          ELSE [s EXCEPT !.initialized = TRUE]

\* Mutant: every cancelled request counts as a predecessor of initialize.
MutCancel(st, r) ==
  IF r \in Queued(st)
  THEN Drain(ReleaseBarrier([Disarm(st, {r}) EXCEPT !.queue = Without(@, r),
                               !.predecessors = @ - 1], r.id))
  ELSE IF r \in st.pending THEN Drain(Release(st, {r})) ELSE st

\* handleCancellation of a request that is queued, or was forwarded; an
\* initialize is not released.
Cancel(st, r) ==
  IF r \in Queued(st)
  THEN LET prefix == {st.queue[i] : i \in 1 .. st.predecessors}
       IN Drain(ReleaseBarrier(
            [Disarm(st, {r}) EXCEPT !.queue = Without(@, r),
               !.predecessors = IF r \in prefix THEN @ - 1 ELSE @], r.id))
  ELSE IF r \in st.pending THEN Drain(Release(st, {r}))
  ELSE st

(* notifications/cancelled of a request the client still waits for.         *)
ClientCancels(r) ==
  /\ ~shuttingDown /\ r \in Cancellable /\ r \in sent /\ ~Closed(r)
  /\ ~Initialize(r)
  /\ cancelled' = cancelled \cup {r}
  /\ UNCHANGED <<poolVars, sent, streamsOpen>>
  /\ s' = Cancel(s, r)

-----------------------------------------------------------------------------
(* Messages of the current worker.                                          *)

(* handleWorkerReady: the worker is adopted at once, or after the handshake *)
(* has been sent to it and answered.                                        *)
WorkerSignalsReady ==
  /\ child # NoChild /\ child \notin unspawned /\ ~s.marked
  /\ LET st == [s EXCEPT !.marked = TRUE]
     IN IF s.era # "legacy" \/ s.initializeRequest = None
        THEN AdoptActiveChild /\ s' = FlushQueue(st)
        ELSE UNCHANGED poolVars /\ s' = SendHandshake(st)
  /\ UNCHANGED <<clientVars, streamsOpen>>

\* isInitializationResponse of the response to r.
AnswersHandshake(r) ==
  /\ s.initializeRequest # None /\ r.id = s.initializeRequest.id
  /\ \E q \in s.pending : Retained(s, q)

\* A worker frame that is not part of the handshake: discarded when its id
\* has a tombstone, else delivered for the entry with its id, if any.
Deliver(st, r) ==
  IF st.tombstones[r.id] # 0 THEN st
  ELSE LET owners == {q \in st.pending : q.id = r.id}
           settled == [Disarm(st, owners) EXCEPT !.pending = @ \ owners,
             !.running = IF \E q \in owners : Validate(q) THEN None ELSE @,
             !.barrier = IF @ = r.id /\ \E q \in owners : Validate(q)
                         THEN None ELSE @]
       IN Drain(AnswerAll(settled, IF owners = {} THEN {r} ELSE owners))

\* Mutant: the replay leaves out notifications/initialized.
MutFinishHandshake(st) ==
  LET done == [st EXCEPT !.pending = {q \in @ : ~Retained(st, q)}]
  IN FlushQueue(
       IF st.replaying THEN [done EXCEPT !.replaying = FALSE]
       ELSE Answer([done EXCEPT !.clientInitialized = TRUE], st.initializeRequest))

\* The result of an initialize: a replay ends silently, the client's own
\* initialize is answered; then the queue is free to move.
FinishHandshake(st) ==
  LET done == [st EXCEPT !.pending = {q \in @ : ~Retained(st, q)}]
  IN FlushQueue(
       IF st.replaying
       THEN [done EXCEPT !.replaying = FALSE, !.told = st.initialized]
       ELSE Answer([done EXCEPT !.clientInitialized = TRUE], st.initializeRequest))

(* handleWorkerMessage with the response to r.                              *)
WorkerAnswers(r) ==
  /\ child # NoChild /\ r \in s.held
  /\ LET st == [s EXCEPT !.held = @ \ {r}]
     IN IF AnswersHandshake(r)
        THEN AdoptActiveChild /\ s' = FinishHandshake(st)
        ELSE UNCHANGED poolVars /\ s' = Deliver(st, r)
  /\ UNCHANGED <<clientVars, streamsOpen>>

\* Mutant: the rejected initialize stays parked.
MutRejectHandshake(st) ==
  LET done == [st EXCEPT !.pending = {q \in @ : ~Retained(st, q)}]
  IN IF st.replaying THEN done ELSE Answer(done, st.initializeRequest)

\* The client's own initialize failed: it is answered, and not sent again.
RejectHandshake(st) ==
  LET done == [st EXCEPT !.pending = {q \in @ : ~Retained(st, q)}]
  IN IF st.replaying THEN done
     ELSE Answer([done EXCEPT
            !.parked = IF @ # None /\ Retained(st, @) THEN None ELSE @],
            st.initializeRequest)

(* handleWorkerMessage with an error for initialize: the worker is given up.*)
WorkerRejectsInitialize(r, outcome) ==
  /\ r \in s.held /\ Initialize(r) /\ AnswersHandshake(r)
  /\ InitializeRejected(outcome)
  /\ s' = FailQueued(LoseWorker(RejectHandshake(s)))
  /\ UNCHANGED <<clientVars, streamsOpen>>

(* The worker closed its stdin: a write failed with EPIPE, which is ignored.*)
StdinBreaks ==
  /\ BrokenPipes /\ child # NoChild /\ s.stdin = "written"
  /\ s' = [s EXCEPT !.stdin = "destroyed"]
  /\ UNCHANGED <<poolVars, clientVars, streamsOpen>>

-----------------------------------------------------------------------------
(* The worker's life, with what it does to the requests.                    *)

StartupTimesOut(outcome) ==
  /\ WatchdogFires(outcome)
  /\ s' = FailQueued(LoseWorker(s))
  /\ UNCHANGED <<clientVars, streamsOpen>>

WorkerBreaks(outcome) ==
  /\ WorkerFaults(outcome)
  /\ s' = AfterLoss(s)
  /\ UNCHANGED <<clientVars, streamsOpen>>

WorkerCrashes(stoodDown) ==
  /\ CurrentWorkerExits(stoodDown)
  /\ s' = AfterLoss(s)
  /\ UNCHANGED <<clientVars, streamsOpen>>

ReplacedWorkerExits(g) ==
  /\ TerminatedWorkerExits(g)
  /\ s' = Drain(s)
  /\ UNCHANGED <<clientVars, streamsOpen>>

\* purgeTombstonesThroughGeneration.
Purge(st, g) ==
  [st EXCEPT !.tombstones = [id \in Ids |-> IF @[id] <= g THEN 0 ELSE @[id]]]

\* "close" is the only exit event of a child that was never spawned ...
UnspawnedCloses(g) ==
  /\ UnspawnedChildCloses(g)
  /\ s' = Drain(Purge(s, g))
  /\ streamsOpen' = streamsOpen \ {g}
  /\ UNCHANGED clientVars

\* ... and follows the exit of the others.
StreamsClose(g) ==
  /\ g \in streamsOpen \ liveChildren
  /\ streamsOpen' = streamsOpen \ {g}
  /\ s' = Purge(s, g)
  /\ UNCHANGED <<poolVars, clientVars>>

\* A worker spawned in this step has open streams.
StreamsOfNewWorker ==
  streamsOpen' = streamsOpen \cup (workerGeneration + 1) .. workerGeneration'

\* A replacement that cannot be spawned (handleStartupFailure) is the one case
\* in which the timer is armed again at once.
RestartFires(spawned) ==
  /\ RestartTimerFires(spawned)
  /\ s' = IF restartTimer' THEN FailQueued(s) ELSE s
  /\ StreamsOfNewWorker
  /\ UNCHANGED clientVars

(* handleValidateProjectDeadline of a queued request ...                    *)
QueuedDeadline(r) ==
  /\ r \in s.armed /\ r \in Queued(s)
  /\ UNCHANGED <<poolVars, clientVars, streamsOpen>>
  /\ s' = Drain(Answer(ReleaseBarrier(
            [Disarm(s, {r}) EXCEPT !.queue = Without(@, r)], r.id), r))

\* ... and of a running one, whose worker is replaced.
RunningDeadline(r, outcome, spawned) ==
  /\ r \in s.armed /\ r \in s.pending
  /\ RecoverTimedOutWorker(outcome, spawned)
  /\ LET settled == Answer([Release(s, {r}) EXCEPT !.running = None,
                                                   !.barrier = None], r)
         lost == IF child = NoChild THEN settled ELSE LoseWorker(settled)
         thrown == child # NoChild /\ Occupancy < LiveCap /\ spawned = "throw"
     IN s' = IF thrown THEN FailQueued(lost) ELSE lost
  /\ StreamsOfNewWorker
  /\ UNCHANGED clientVars

TreeSettles(g, success) ==
  /\ FinishTreeTermination(g, success)
  /\ s' = IF CleanupOver(g) \/ g \in liveChildren THEN s ELSE Drain(s)
  /\ UNCHANGED <<clientVars, streamsOpen>>

TokenRetrySettles(g, success) ==
  /\ FinishTokenRetry(g, success)
  /\ s' = IF success /\ g \in unresolvedTreeTokens THEN Drain(s) ELSE s
  /\ UNCHANGED <<clientVars, streamsOpen>>

CleanupTimer ==
  /\ CleanupRetryTimerFires
  /\ UNCHANGED <<s, clientVars, streamsOpen>>

(* runShutdown drops what is left unanswered.                               *)
ShutsDown(outcome) ==
  /\ Shutdown(outcome)
  /\ s' = [LoseWorker(s) EXCEPT !.pending = {}, !.queue = << >>, !.armed = {},
             !.tombstones = [id \in Ids |-> 0]]
  /\ UNCHANGED <<clientVars, streamsOpen>>

SupervisorInit ==
  Init /\ s = InitialState /\ sent = {} /\ cancelled = {} /\ streamsOpen = {1}

SupervisorNext ==
  \/ \E r \in Requests : \/ ClientSends(r) \/ ClientCancels(r)
                         \/ WorkerAnswers(r) \/ QueuedDeadline(r)
  \/ ClientInitialized \/ WorkerSignalsReady \/ StdinBreaks \/ CleanupTimer
  \/ \E outcome \in TerminationOutcomes :
       \/ StartupTimesOut(outcome) \/ WorkerBreaks(outcome)
       \/ \E r \in Requests : WorkerRejectsInitialize(r, outcome)
       \/ \E r \in Requests, spawned \in SpawnOutcomes :
            RunningDeadline(r, outcome, spawned)
  \/ \E stoodDown \in BOOLEAN : WorkerCrashes(stoodDown)
  \/ \E g \in Generations :
       ReplacedWorkerExits(g) \/ UnspawnedCloses(g) \/ StreamsClose(g)
  \/ \E spawned \in SpawnOutcomes : RestartFires(spawned)
  \/ \E g \in Generations, success \in BOOLEAN :
       TreeSettles(g, success) \/ TokenRetrySettles(g, success)
  \/ \E outcome \in [liveChildren -> TerminationOutcomes] : ShutsDown(outcome)

SupervisorSpec == SupervisorInit /\ [][SupervisorNext]_vars

(***************************************************************************)
(* Fairness: a spawned worker signals ready and answers what it holds,     *)
(* except a request it was told to cancel.                                 *)
(***************************************************************************)
WorkerServes ==
  /\ WF_vars(WorkerSignalsReady)
  /\ \A r \in Requests : WF_vars(r \notin cancelled /\ WorkerAnswers(r))

PoolServes ==
  /\ WF_vars(\E spawned \in SpawnOutcomes : RestartFires(spawned))
  /\ SF_vars(RestartFires("running"))
  /\ WF_vars(CleanupTimer)
  /\ WF_vars(child \in unspawned /\ \E o \in TerminationOutcomes : WorkerBreaks(o))
  /\ \A g \in Generations :
       /\ WF_vars(ReplacedWorkerExits(g))
       /\ WF_vars(UnspawnedCloses(g))
       /\ WF_vars(\E success \in BOOLEAN : TreeSettles(g, success))
       /\ WF_vars(\E success \in BOOLEAN : TokenRetrySettles(g, success))
       /\ SF_vars(TokenRetrySettles(g, TRUE))

FairSupervisorSpec == SupervisorSpec /\ WorkerServes /\ PoolServes

-----------------------------------------------------------------------------
(* Safety.                                                                  *)

(* Types, and at most one entry per id in pendingRequests.                  *)
SupervisorTypeOK ==
  /\ Queued(s) \subseteq Requests /\ Len(s.queue) <= MAX_SUPERVISOR_QUEUE
  /\ s.pending \subseteq Requests
  /\ \A q, r \in s.pending : q.id = r.id => q = r
  /\ {s.barrier, s.running} \subseteq Ids \cup {None}
  /\ {s.initializeRequest, s.parked} \subseteq Requests \cup {None}
  /\ s.era \in {"unselected", "legacy", "modern"}
  /\ s.tombstones \in [Ids -> 0 .. workerGeneration]
  /\ s.predecessors \in 0 .. MAX_SUPERVISOR_QUEUE
  /\ s.stdin \in {"fresh", "written", "destroyed"}
  /\ s.held \subseteq sent /\ cancelled \subseteq sent
  /\ streamsOpen \subseteq 1 .. workerGeneration

(* Exactly one response reaches the client per request and none for a       *)
(* cancelled one, across replays, crashes, timeouts and late answers of the *)
(* worker (writeSyntheticReply, syntheticTombstones).                       *)
AnsweredOnce ==
  \A r \in Requests : s.answers[r] <= IF r \in cancelled \/ r \notin sent THEN 0 ELSE 1

(* No request gets lost between the queue, the worker and a reply: while    *)
(* the client waits for it, it is queued, forwarded or parked.              *)
Tracked(r) == r \in Queued(s) \cup s.pending \/ r = s.parked
RequestsTracked ==
  \A r \in sent : ~Initialize(r) /\ ~Closed(r) /\ ~shuttingDown => Tracked(r)

(* The replies are right: one for each request, and none too many.          *)
RepliesRight == AnsweredOnce /\ RequestsTracked

(* The same of initialize, which the two properties above leave out.        *)
HandshakeTracked ==
  \A r \in sent : Initialize(r) /\ ~Closed(r) /\ ~shuttingDown => Tracked(r)

(* A forwarded request never outlives the worker that could answer it:      *)
(* unless it is the initialize kept for its replay, the current worker      *)
(* holds it.  What nobody holds would never be answered, and would block    *)
(* every later validate-project (failPendingRequestsOnWorkerExit).          *)
PendingOwned ==
  \A r \in s.pending : r \in s.held \/ Retained(s, r)

(* The validate-project barrier belongs to a live validate-project: a       *)
(* barrier that outlived its request would stop everything behind it        *)
(* (every release site clears it under the same guard).                     *)
BarrierOwned ==
  s.barrier # None /\ ~shuttingDown =>
    \E r \in Queued(s) \cup s.pending : Validate(r) /\ r.id = s.barrier

(* A running validate-project is alone: nothing else is forwarded beside    *)
(* it, and it has the slot and the barrier (drainQueue, the admission).     *)
ValidateAlone ==
  \A r \in s.pending : Validate(r) =>
    s.pending = {r} /\ s.running = r.id /\ s.barrier = r.id

(* A validate-project starts only when every replaced worker is gone and no *)
(* process tree is unresolved, whichever path dispatches it.                *)
ValidateStartsAlone ==
  [][\A r \in s'.pending \ s.pending :
       Validate(r) => staleChildren' = {} /\ unresolvedTreeTokens' = {}]_vars

(* A validate-project has the worker, and the machine, to itself.           *)
ValidateExclusive == []ValidateAlone /\ ValidateStartsAlone

(* No wakeup is lost: with a ready worker the queue stands still only       *)
(* behind a running validate-project, or behind one at its head that has    *)
(* raised the barrier and waits for requests, workers or trees that are     *)
(* still there (every event that ends one of these drains the queue).       *)
QueueMoves ==
  childReady /\ s.stdin # "destroyed" /\ s.queue # << >> =>
    \/ s.running # None
    \/ /\ Validate(Head(s.queue)) /\ s.barrier = Head(s.queue).id
       /\ s.pending # {} \/ staleChildren # {} \/ unresolvedTreeTokens # {}

(* A deadline is armed exactly for the validate-projects that are queued or *)
(* forwarded: none waits without one, and none fires for a settled one.     *)
DeadlinesOwned ==
  s.armed = {r \in Queued(s) \cup s.pending : Validate(r)}

(* Nothing is left behind: what the supervisor keeps of a request, its      *)
(* entry, its barrier and its deadline, goes when the request goes.         *)
NothingLeftBehind == PendingOwned /\ BarrierOwned /\ DeadlinesOwned

(* A validate-project that waits is not overtaken: while it stays queued,   *)
(* only what is ahead of it and the handshake are forwarded (the barrier:   *)
(* without it a stream of calls could starve it).                           *)
Ahead(r, v) ==
  \E i, j \in DOMAIN s.queue : s.queue[i] = r /\ s.queue[j] = v /\ i < j
NotOvertaken ==
  [][\A v \in Queued(s) \cap Queued(s'), r \in s'.pending \ s.pending :
       Validate(v) => Initialize(r) \/ Ahead(r, v)]_vars

(* The modern lock is for good: from then on no initialize is cached,       *)
(* parked, queued or forwarded, by no route and no replay (lockModernEra,   *)
(* routeClientMessage, handleWorkerReady).                                  *)
NoInitialize(st) ==
  /\ st.initializeRequest = None /\ st.parked = None
  /\ ~\E r \in Queued(st) \cup st.pending \cup st.held : Initialize(r)
ModernLockHolds ==
  [][s.era = "modern" => s'.era = "modern" /\ NoInitialize(s')]_vars

(* Nothing overtakes the legacy handshake: until it is adopted, a worker is *)
(* given only initialize and the discovers that came before it              *)
(* (initializePredecessorCount, handleWorkerReady).                         *)
HandshakeFirst ==
  ~childReady => \A r \in s.held : Initialize(r) \/ r.method = "discover"

(* A replacement is handed the whole handshake: once the client has sent    *)
(* notifications/initialized, every adopted worker has got it too, whether  *)
(* it came before, during or after the replay.                              *)
HandshakeReplayed ==
  childReady /\ s.initialized /\ s.stdin # "destroyed" => s.told

(* A worker gets the legacy handshake whole, and before anything else.      *)
HandshakeInOrder == HandshakeFirst /\ HandshakeReplayed

(* A client may initialize again in whatever state its session is: a worker *)
(* that was not adopted yet is then given none of the calls that wait for   *)
(* it, and no call drops out of the supervisor's books unanswered. (That a  *)
(* worker still has a call in the books is another matter: see below.)      *)
ReinitializeOrdered == HandshakeFirst /\ RequestsTracked

(* A call in the books which no worker has any more is answered by none.    *)
(* This happens only when an adopted worker rejects an initialize that was  *)
(* sent again: no other loss of a worker, no replay, no timeout and no      *)
(* order of handshakes strands a call (failPendingRequestsOnWorkerExit,     *)
(* against handleWorkerMessage).  Left out is the discover that was sent    *)
(* before a legacy handshake: a worker lost before adoption takes it along. *)
Stranded ==
  {r \in s.pending : ~Initialize(r) /\ r.method # "discover" /\ r \notin s.held}
OnlyRejectionStrands ==
  [][\/ Stranded' \subseteq Stranded
     \/ childReady /\ \E r \in Requests, o \in TerminationOutcomes :
                         WorkerRejectsInitialize(r, o)]_vars

(* Every request is answered or cancelled in the end, whatever workers      *)
(* crash, hang at startup or are replaced, while the session lasts.         *)
EveryRequestAnswered ==
  \A r \in Requests : r \in sent ~> Closed(r) \/ shuttingDown
=============================================================================
