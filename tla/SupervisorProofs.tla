---------------------------- MODULE SupervisorProofs ----------------------------
(***************************************************************************)
(* What the supervisor promises its client and keeps of the worker pool.   *)
(* The eras and the legacy handshake: the modern era is for good, nothing  *)
(* overtakes the handshake, and a replacement is handed the whole of it.   *)
(* The answers: each call is answered once and for good; and a client of   *)
(* the modern era is served in order, with every validate-project alone.   *)
(***************************************************************************)
EXTENDS SupervisorTracking

-----------------------------------------------------------------------------
(* The eras. *)

(* The requests that wait, are forwarded or are with a worker. *)
Handled(st) == Queued(st) \cup st.pending \cup st.held

(* Nothing is kept of a legacy session. *)
NoSession(st) ==
  /\ st.predecessors = 0 /\ ~st.clientInitialized /\ ~st.initialized
  /\ ~st.replaying /\ ~st.initializeSent

(* Before an era is selected only discovers are let through; and only the
   legacy era has an initialize and a session. *)
Eras(st) ==
  /\ st.era = "unselected" => \A r \in Handled(st) : r.method = "discover"
  /\ st.era # "legacy" => NoInitialize(st) /\ NoSession(st)

(* From st to t nothing legacy came in. *)
Narrows(st, t) ==
  /\ t.era = st.era
  /\ st.era # "legacy" =>
       /\ Handled(t) \subseteq Handled(st)
       /\ NoInitialize(st) /\ NoSession(st) =>
            NoSession(t) /\ t.initializeRequest = None /\ t.parked = None

(* What brings in nothing legacy keeps the eras apart. *)
LEMMA ErasNarrow ==
  ASSUME NEW st, NEW t, Eras(st), Narrows(st, t)
  PROVE  Eras(t)
<1>1. /\ Handled(st) = Queued(st) \cup st.pending \cup st.held
      /\ Handled(t) = Queued(t) \cup t.pending \cup t.held
  BY DEF Handled
<1> QED
  BY <1>1 DEF Eras, Narrows, NoInitialize

(* What leaves the session and the worker alone and adds no request brings in
   nothing legacy. *)
LEMMA NarrowSame ==
  ASSUME NEW st, NEW t, SameSession(st, t), SamePipes(st, t),
         Queued(t) \cup t.pending \subseteq Queued(st) \cup st.pending
  PROVE  Narrows(st, t)
BY DEF SameSession, SamePipes, Narrows, NoSession, NoInitialize, Handled

(* Responses keep the eras apart, *)
LEMMA ErasAnswer ==
  ASSUME NEW st, Eras(st), Is(st), NEW R
  PROVE  Eras(AnswerAll(st, R)) /\ AnswerAll(st, R).era = st.era
<1> DEFINE t == AnswerAll(st, R)
<1>1. AnswerEffect(st, t, R)
  BY AnswerFields
<1> HIDE DEF t
<1>2. Narrows(st, t)
  BY <1>1, NarrowSame DEF AnswerEffect, SameTracking, Queued
<1> QED
  BY <1>2, ErasNarrow DEF t, Narrows

(* so does the end of forwarded requests, *)
LEMMA ErasRelease ==
  ASSUME NEW st, Eras(st), Is(st), NEW R
  PROVE  Eras(Release(st, R)) /\ Release(st, R).era = st.era
<1> DEFINE t == Release(st, R)
<1>1. ReleaseEffect(st, t, R)
  BY ReleaseFields
<1> HIDE DEF t
<1>2. Narrows(st, t)
  BY <1>1, NarrowSame DEF ReleaseEffect, Queued
<1> QED
  BY <1>2, ErasNarrow DEF t, Narrows

(* giving back a barrier, *)
LEMMA ErasReleaseBarrier ==
  ASSUME NEW st, Eras(st), Is(st), NEW id
  PROVE  Eras(ReleaseBarrier(st, id)) /\ ReleaseBarrier(st, id).era = st.era
<1> DEFINE t == ReleaseBarrier(st, id)
<1>1. BarrierEffect(st, t, id)
  BY ReleaseBarrierFields
<1> HIDE DEF t
<1>2. Narrows(st, t)
  BY <1>1, NarrowSame DEF BarrierEffect, Queued
<1> QED
  BY <1>2, ErasNarrow DEF t, Narrows

(* arming a validate-project, *)
LEMMA ErasInstall ==
  ASSUME NEW st, Eras(st), Is(st), NEW r
  PROVE  Eras(Install(st, r)) /\ Install(st, r).era = st.era
<1> DEFINE t == Install(st, r)
<1>1. InstallEffect(st, t, r)
  BY InstallFields
<1> HIDE DEF t
<1>2. Narrows(st, t)
  BY <1>1, NarrowSame DEF InstallEffect, Queued
<1> QED
  BY <1>2, ErasNarrow DEF t, Narrows

(* purging tombstones, *)
LEMMA ErasPurge ==
  ASSUME NEW st, Eras(st), Is(st), NEW g
  PROVE  Eras(Purge(st, g)) /\ Purge(st, g).era = st.era
<1> DEFINE t == Purge(st, g)
<1>1. PurgeEffect(st, t, g)
  BY PurgeFields
<1> HIDE DEF t
<1>2. Narrows(st, t)
  BY <1>1, NarrowSame DEF PurgeEffect, SameTracking, Queued
<1> QED
  BY <1>2, ErasNarrow DEF t, Narrows

(* forgetting an unfinished handshake, *)
LEMMA ErasClear ==
  ASSUME NEW st, Eras(st), Is(st)
  PROVE  Eras(ClearHandshake(st)) /\ ClearHandshake(st).era = st.era
<1> DEFINE t == ClearHandshake(st)
<1>1. ClearEffect(st, t)
  BY ClearFields
<1> HIDE DEF t
<1>2. t.pending \subseteq st.pending /\ Queued(t) = Queued(st) /\ t.held = st.held /\ t.era = st.era
      /\ t.parked = st.parked /\ t.clientInitialized = st.clientInitialized
  BY <1>1 DEF ClearEffect, Queued
<1>3. Narrows(st, t)
  BY <1>1, <1>2 DEF ClearEffect, Narrows, NoSession, NoInitialize, Handled
<1> QED
  BY <1>3, ErasNarrow DEF t, Narrows

(* losing the worker, *)
LEMMA ErasLose ==
  ASSUME NEW st, Eras(st), Is(st)
  PROVE  Eras(LoseWorker(st)) /\ LoseWorker(st).era = st.era
<1> DEFINE t == LoseWorker(st)
<1>1. LoseEffect(st, t)
  BY LoseFields
<1> HIDE DEF t
<1>2. Narrows(st, t)
  BY <1>1 DEF LoseEffect, SameTracking, Narrows, NoSession, NoInitialize, Handled, Queued
<1> QED
  BY <1>2, ErasNarrow DEF t, Narrows

(* failing the requests that wait, *)
LEMMA ErasFailQueued ==
  ASSUME NEW st, Eras(st), Is(st)
  PROVE  Eras(FailQueued(st)) /\ FailQueued(st).era = st.era
<1> DEFINE t == FailQueued(st)
<1>1. FailQueuedEffect(st, t)
  BY FailQueuedFields
<1> HIDE DEF t
<1>2. t.pending \subseteq st.pending /\ Queued(t) = {} /\ t.held = st.held /\ t.era = st.era
      /\ t.parked = None
  BY <1>1 DEF FailQueuedEffect, Queued
<1>3. Narrows(st, t)
  BY <1>1, <1>2 DEF FailQueuedEffect, Narrows, NoSession, NoInitialize, Handled
<1> QED
  BY <1>3, ErasNarrow DEF t, Narrows

(* failing those that were forwarded, *)
LEMMA ErasFailPending ==
  ASSUME NEW st, Eras(st), Is(st)
  PROVE  Eras(FailPending(st)) /\ FailPending(st).era = st.era
<1> DEFINE lost == {r \in st.pending : ~Retained(st, r)}
           u == Release(st, lost)
<1> HIDE DEF lost
<1>1. Eras(u) /\ u.era = st.era /\ Is(u)
  BY ErasRelease, ReleaseFields DEF ReleaseEffect
<1> HIDE DEF u
<1>2. Eras(AnswerAll(u, lost)) /\ AnswerAll(u, lost).era = st.era
  BY <1>1, ErasAnswer
<1> QED
  BY <1>2 DEF FailPending, u, lost

(* and so what a lost worker does to the requests. *)
LEMMA ErasAfterLoss ==
  ASSUME NEW st, Eras(st), Is(st)
  PROVE  Eras(AfterLoss(st)) /\ AfterLoss(st).era = st.era
<1> DEFINE t == LoseWorker(st)
<1>1. Eras(t) /\ t.era = st.era /\ Is(t)
  BY ErasLose, LoseFields DEF LoseEffect
<1> HIDE DEF t
<1> QED
  BY <1>1, ErasFailQueued, ErasFailPending DEF AfterLoss, t

(* forwardRequest keeps the eras apart, given a request its era lets through, *)
LEMMA ErasForward ==
  ASSUME NEW st, Eras(st), Typed(st, Requests), NEW r \in Requests,
         st.era = "unselected" => r.method = "discover",
         st.era # "legacy" => ~Initialize(r)
  PROVE  Eras(Forward(st, r)) /\ Forward(st, r).era = st.era
<1> DEFINE t == Forward(st, r)
<1>1. Is(st)
  BY DEF Typed
<1>2. /\ ~Writable(st) /\ Len(st.queue) < MAX_SUPERVISOR_QUEUE => QueueEffect(st, t, r)
      /\ ~Writable(st) /\ ~(Len(st.queue) < MAX_SUPERVISOR_QUEUE) => RefuseEffect(st, t, r)
      /\ Writable(st) /\ r \notin Unwritable => WriteEffect(st, t, r)
      /\ Writable(st) /\ r \in Unwritable => UnwriteEffect(st, t, r)
  BY <1>1, ForwardQueues, ForwardRefuses, ForwardWrites, ForwardUnwritten
<1> HIDE DEF t
<1>3. Handled(t) \subseteq Handled(st) \cup {r}
  <2>1. st.queue \in Seq(Requests)
    BY DEF Typed
  <2>2. CASE QueueEffect(st, t, r)
    <3>1. Entries(t.queue) = Entries(st.queue) \cup {r}
      BY <2>1, <2>2, AppendQueue DEF QueueEffect
    <3> QED
      BY <2>2, <3>1, QueuedEntries DEF QueueEffect, SamePipes, Handled
  <2>3. CASE RefuseEffect(st, t, r)
    BY <2>3 DEF RefuseEffect, SamePipes, Handled, Queued
  <2>4. CASE WriteEffect(st, t, r)
    BY <2>4 DEF WriteEffect, Written, Handled, Queued
  <2>5. CASE UnwriteEffect(st, t, r)
    BY <2>5 DEF UnwriteEffect, Written, Handled, Queued
  <2> QED
    BY <1>2, <2>2, <2>3, <2>4, <2>5
<1>4. /\ SameSession(st, t)
      /\ \/ t.initializeSent = st.initializeSent
         \/ t.initializeSent = (st.initializeSent \/ Initialize(r))
  BY <1>2 DEF QueueEffect, RefuseEffect, WriteEffect, UnwriteEffect, SameSession, SamePipes, Written
<1>5. Eras(t) /\ t.era = st.era
  <2>1. t.era = st.era
    BY <1>4 DEF SameSession
  <2>2. ASSUME st.era # "legacy"
        PROVE  NoSession(t) /\ NoInitialize(t)
    <3>1. NoSession(st) /\ NoInitialize(st) /\ ~Initialize(r)
      BY <2>2 DEF Eras
    <3>2. NoSession(t) /\ t.initializeRequest = None /\ t.parked = None
      BY <1>4, <3>1 DEF SameSession, NoSession, NoInitialize
    <3>3. \A q \in Handled(st) : ~Initialize(q)
      BY <3>1 DEF NoInitialize, Handled
    <3>4. \A q \in Handled(t) : ~Initialize(q)
      BY <1>3, <3>1, <3>3
    <3> QED
      BY <3>2, <3>4 DEF NoInitialize, Handled
  <2>3. ASSUME st.era = "unselected"
        PROVE  \A q \in Handled(t) : q.method = "discover"
    BY <1>3, <2>3 DEF Eras
  <2> QED
    BY <2>1, <2>2, <2>3 DEF Eras
<1> QED
  BY <1>5 DEF t

(* and so does drainQueue. *)
LEMMA ErasDrain ==
  ASSUME NEW st, Eras(st), Typed(st, Requests), workerGeneration \in Nat
  PROVE  Eras(Drain(st)) /\ Drain(st).era = st.era
<1>1. ASSUME NEW u, Eras(u), Typed(u, Requests)
      PROVE  Eras(DrainStep(u)) /\ DrainStep(u).era = u.era /\ Typed(DrainStep(u), Requests)
  <2>1. CASE ~childReady' \/ ~Writable(u) \/ u.queue = << >> \/ u.running # None
    BY <1>1, <2>1 DEF DrainStep
  <2>2. CASE u.queue # << >>
    <3> DEFINE next == Head(u.queue)
               taken == [u EXCEPT !.queue = Tail(@)]
               raised == [u EXCEPT !.barrier = next.id]
    <3>1. DrainStep(u) \in {u, Forward(taken, next), raised}
      BY DEF DrainStep
    <3>2. Typed(taken, Requests) /\ next \in Requests
      BY <1>1, <2>2, TypedTake
    <3>3. TakeEffect(u, taken) /\ RaiseEffect(u, raised, next.id)
      BY <1>1, TakeFields, RaiseFields DEF Typed
    <3>4. Entries(u.queue) = Entries(Tail(u.queue)) \cup {next}
      <4>1. u.queue \in Seq(Requests)
        BY <1>1 DEF Typed
      <4> QED
        BY <2>2, <4>1, TailQueue
    <3>5. next.id \in Ids
      BY <3>2 DEF Ids
    <3> HIDE DEF next, taken, raised
    <3>6. Queued(u) = Queued(taken) \cup {next}
      BY <3>3, <3>4, QueuedEntries DEF TakeEffect
    <3>7. Narrows(u, taken) /\ Narrows(u, raised)
      <4>1. Narrows(u, taken)
        BY <3>3, <3>6, NarrowSame DEF TakeEffect
      <4>2. Narrows(u, raised)
        BY <3>3, NarrowSame DEF RaiseEffect, Queued
      <4> QED
        BY <4>1, <4>2
    <3>8. Eras(taken) /\ Eras(raised) /\ taken.era = u.era /\ raised.era = u.era
      BY <1>1, <3>7, ErasNarrow DEF Narrows
    <3>9. /\ u.era = "unselected" => next.method = "discover"
          /\ u.era # "legacy" => ~Initialize(next)
      BY <1>1, <3>6 DEF Eras, Handled, NoInitialize
    <3>10. Eras(Forward(taken, next)) /\ Forward(taken, next).era = u.era
      BY <3>2, <3>8, <3>9, ErasForward
    <3>11. Typed(Forward(taken, next), Requests)
      BY <3>2, TypedForward
    <3>12. Typed(raised, Requests)
      BY <1>1, <3>3, <3>5 DEF Typed, RaiseEffect, SameSession, SamePipes, SameReplies
    <3> QED
      BY <1>1, <3>1, <3>8, <3>10, <3>11, <3>12
  <2> QED
    BY <2>1, <2>2
<1> QED
  BY <1>1 DEF Drain

(* The legacy era may have everything. *)
LEMMA LegacyEras == \A st : st.era = "legacy" => Eras(st)
BY DEF Eras

(* flushQueue keeps the eras apart, for nothing is parked outside the legacy
   era. *)
LEMMA ErasFlush ==
  ASSUME NEW st, Eras(st), Typed(st, Requests), workerGeneration \in Nat
  PROVE  Eras(FlushQueue(st)) /\ FlushQueue(st).era = st.era
<1> DEFINE flushed == [st EXCEPT !.parked = None]
<1>1. Typed(flushed, Requests) /\ flushed.era = st.era /\ Narrows(st, flushed)
  BY DEF Typed, Is, StateFields, Handshakes, Narrows, NoSession, NoInitialize, Handled, Queued
<1>2. st.parked = None \/ st.parked \in Requests
  BY DEF Typed, Handshakes
<1>3. st.era # "legacy" => st.parked = None
  BY DEF Eras, NoInitialize
<1>4. \/ FlushQueue(st) = Drain(flushed)
      \/ st.parked # None /\ FlushQueue(st) = Drain(Forward(flushed, st.parked))
  BY DEF FlushQueue
<1> HIDE DEF flushed
<1>5. Eras(flushed)
  BY <1>1, ErasNarrow
<1>6. Eras(Drain(flushed)) /\ Drain(flushed).era = st.era
  BY <1>1, <1>5, ErasDrain
<1>7. ASSUME st.parked # None
      PROVE  /\ Eras(Drain(Forward(flushed, st.parked)))
             /\ Drain(Forward(flushed, st.parked)).era = st.era
  <2> DEFINE x == Forward(flushed, st.parked)
  <2>1. Eras(x) /\ x.era = st.era /\ Typed(x, Requests)
    BY <1>1, <1>2, <1>3, <1>5, <1>7, ErasForward, TypedForward
  <2> HIDE DEF x
  <2>2. Eras(Drain(x)) /\ Drain(x).era = st.era
    BY <2>1, ErasDrain
  <2> QED
    BY <2>2 DEF x
<1> QED
  BY <1>4, <1>6, <1>7

(* The handshake of a replacement stays in the legacy era, *)
LEMMA LegacyPredecessor ==
  ASSUME NEW st, st.era = "legacy", Typed(st, Requests)
  PROVE  ForwardPredecessor(st).era = "legacy"
<1>1. ASSUME st.predecessors # 0, st.queue # << >>
      PROVE  ForwardPredecessor(st).era = "legacy"
  <2> DEFINE u == [st EXCEPT !.queue = Tail(@)]
             v == [st EXCEPT !.queue = Tail(@), !.predecessors = @ - 1]
  <2>1. Typed(u, Requests) /\ Head(st.queue) \in Requests
    BY <1>1, TypedTake
  <2>2. v = [u EXCEPT !.predecessors = @ - 1] /\ u.predecessors = st.predecessors
        /\ u.era = st.era
    BY DEF Typed, Is, StateFields
  <2> HIDE DEF u, v
  <2>3. Typed(v, Requests) /\ v.era = "legacy"
    BY <1>1, <2>1, <2>2 DEF Typed, Is, StateFields, MAX_SUPERVISOR_QUEUE
  <2>4. Forward(v, Head(st.queue)).era = "legacy"
    BY <2>1, <2>3, LegacyEras, ErasForward
  <2> QED
    BY <1>1, <2>4 DEF ForwardPredecessor, v
<1> QED
  BY <1>1 DEF ForwardPredecessor

(* from its first predecessor to the initialize. *)
LEMMA LegacySendHandshake ==
  ASSUME NEW st, st.era = "legacy", Typed(st, Requests), workerGeneration \in Nat,
         st.initializeRequest # None
  PROVE  SendHandshake(st).era = "legacy"
<1> DEFINE first == ForwardPredecessor(st)
           released == ForwardPredecessor(first)
           ready == [released EXCEPT !.predecessors = 0, !.replaying = st.clientInitialized]
           request == st.initializeRequest
<1>1. Typed(first, Requests) /\ first.era = "legacy"
  BY TypedPredecessor, LegacyPredecessor
<1> HIDE DEF first
<1>2. Typed(released, Requests) /\ released.era = "legacy"
  BY <1>1, TypedPredecessor, LegacyPredecessor
<1> HIDE DEF released
<1>3. Typed(ready, Requests) /\ ready.era = "legacy"
  BY <1>2 DEF Typed, Is, StateFields, MAX_SUPERVISOR_QUEUE
<1>4. SendHandshake(st) = Forward(ready, request)
  BY DEF SendHandshake, released, first
<1>5. request \in Requests
  BY DEF Typed, Handshakes
<1> HIDE DEF ready, request
<1> QED
  BY <1>3, <1>4, <1>5, LegacyEras, ErasForward

(* lockModernEra leaves nothing legacy behind, *)
LEMMA ErasLock ==
  ASSUME NEW st, Eras(st), Is(st), NEW r
  PROVE  /\ Eras(LockEra(st, r))
         /\ st.era = "modern" => LockEra(st, r).era = "modern"
<1> DEFINE t == LockEra(st, r)
<1>1. LockEffect(st, t, r)
  BY LockFields
<1> HIDE DEF t
<1>2. Handled(t) = Handled(st)
  BY <1>1 DEF LockEffect, SameTracking, Handled, Queued
<1>3. ASSUME t # st
      PROVE  Eras(t)
  <2>1. /\ st.era = "unselected" /\ t.era = "modern" /\ NoSession(t)
        /\ t.initializeRequest = None /\ t.parked = st.parked
    BY <1>1, <1>3 DEF LockEffect, NoSession
  <2>2. \A q \in Handled(st) : ~Initialize(q)
    BY <2>1 DEF Eras, NoInitialize, Handled
  <2> QED
    BY <1>2, <2>1, <2>2 DEF Eras, NoInitialize, Handled
<1>4. st.era = "modern" => t.era = "modern"
  BY <1>1 DEF LockEffect
<1> QED
  BY <1>3, <1>4 DEF t

(* nor does the admission of a request, *)
LEMMA ErasRouteRequest ==
  ASSUME NEW st, Eras(st), Typed(st, Requests), NEW r \in Requests,
         ~Initialize(r), workerGeneration \in Nat
  PROVE  /\ Eras(RouteRequest(st, r))
         /\ st.era = "modern" => RouteRequest(st, r).era = "modern"
<1> DEFINE u == LockEra(st, r)
           v == Install(u, r)
           queued == [v EXCEPT !.queue = Append(@, r)]
<1>1. Typed(u, Requests) /\ Eras(u) /\ Is(u) /\ LockEffect(st, u, r)
      /\ (st.era = "modern" => u.era = "modern")
  BY TypedLock, ErasLock, LockFields DEF Typed
<1>2. ~EraRejects(u, r) /\ u.era = "unselected" => r.method = "discover"
  BY <1>1 DEF LockEffect, EraRejects, ModernClaim
<1>3. RouteRequest(st, r) \in {Answer(u, r), Drain(Answer(u, r))} \cup
        {t \in {Admit(v, r), queued} : ~EraRejects(u, r)}
  BY DEF RouteRequest
<1> HIDE DEF u
<1>4. Typed(v, Requests) /\ Eras(v) /\ v.era = u.era /\ Is(v)
  <2>1. Typed(v, Requests)
    BY <1>1, TypedInstall
  <2>2. Eras(v) /\ v.era = u.era
    BY <1>1, ErasInstall
  <2> QED
    BY <2>1, <2>2 DEF Typed
<1> HIDE DEF v
<1>5. Eras(Answer(u, r)) /\ Answer(u, r).era = u.era /\ Typed(Answer(u, r), Requests)
  <2>1. Typed(Answer(u, r), Requests)
    BY <1>1, TypedAnswer DEF Answer
  <2> QED
    BY <1>1, <2>1, ErasAnswer DEF Answer
<1>6. Eras(Drain(Answer(u, r))) /\ Drain(Answer(u, r)).era = u.era
  BY <1>5, ErasDrain
<1>7. ASSUME ~EraRejects(u, r)
      PROVE  Eras(Admit(v, r)) /\ Admit(v, r).era = u.era
  <2> DEFINE x == Forward(v, r)
  <2>1. Eras(x) /\ x.era = u.era
    BY <1>2, <1>4, <1>7, ErasForward
  <2>2. Typed(x, Requests)
    BY <1>4, TypedForward
  <2>3. Admit(v, r) \in {x, Drain(x)}
    BY DEF Admit
  <2> HIDE DEF x
  <2> QED
    BY <2>1, <2>2, <2>3, ErasDrain
<1>8. ASSUME ~EraRejects(u, r)
      PROVE  Eras(queued) /\ queued.era = u.era
  <2>1. QueueEffect(v, queued, r)
    BY <1>4, EnqueueFields
  <2>2. v.queue \in Seq(Requests)
    BY <1>4 DEF Typed
  <2> HIDE DEF queued
  <2>3. Entries(queued.queue) = Entries(v.queue) \cup {r}
    BY <2>1, <2>2, AppendQueue DEF QueueEffect
  <2>4. Handled(queued) = Handled(v) \cup {r}
    BY <2>1, <2>3, QueuedEntries DEF QueueEffect, SamePipes, Handled
  <2>5. queued.era = v.era /\ (NoSession(v) => NoSession(queued))
        /\ queued.initializeRequest = v.initializeRequest /\ queued.parked = v.parked
    BY <2>1 DEF QueueEffect, SameSession, SamePipes, NoSession
  <2>6. NoInitialize(v) => NoInitialize(queued)
    BY <2>4, <2>5 DEF NoInitialize, Handled
  <2> QED
    BY <1>2, <1>4, <1>8, <2>4, <2>5, <2>6 DEF Eras
<1> QED
  BY <1>1, <1>3, <1>5, <1>6, <1>7, <1>8

(* nor of an initialize, which is refused once the modern era is locked, *)
LEMMA ErasRouteInitialize ==
  ASSUME NEW st, Eras(st), Typed(st, Requests), NEW r \in Requests,
         Initialize(r), workerGeneration \in Nat
  PROVE  /\ Eras(RouteInitialize(st, r))
         /\ st.era = "modern" => RouteInitialize(st, r).era = "modern"
<1> DEFINE legacy == [st EXCEPT !.era = "legacy"]
           captured == [legacy EXCEPT !.initializeRequest = r, !.clientInitialized = FALSE]
           now == [captured EXCEPT !.predecessors = 0]
           cleared == ClearHandshake(legacy)
           count == IF st.era = "unselected" THEN Len(st.queue) ELSE 0
           held == [captured EXCEPT !.parked = r, !.predecessors = count]
<1>1. Typed(legacy, Requests) /\ legacy.era = "legacy"
  BY DEF Typed, Is, StateFields
<1>2. \/ RouteInitialize(st, r) = Answer(st, r)
      \/ /\ st.era # "modern"
         /\ RouteInitialize(st, r) \in {Answer(cleared, r), Forward(now, r), held}
  BY DEF RouteInitialize
<1> HIDE DEF legacy
<1>3. Typed(captured, Requests) /\ captured.era = "legacy"
  BY <1>1 DEF Typed, Is, StateFields, Handshakes
<1> HIDE DEF captured
<1>4. Typed(now, Requests) /\ now.era = "legacy" /\ held.era = "legacy"
  BY <1>3 DEF Typed, Is, StateFields, MAX_SUPERVISOR_QUEUE
<1> HIDE DEF now, held
<1>5. Forward(now, r).era = "legacy"
  BY <1>4, LegacyEras, ErasForward
<1>6. Is(cleared) /\ cleared.era = "legacy"
  BY <1>1, LegacyEras, ErasClear, ClearFields DEF Typed, ClearEffect
<1> HIDE DEF cleared
<1>7. Answer(cleared, r).era = "legacy"
  BY <1>6, LegacyEras, ErasAnswer DEF Answer
<1>8. Eras(Answer(st, r)) /\ Answer(st, r).era = st.era
  BY ErasAnswer DEF Answer, Typed
<1> QED
  BY <1>2, <1>4, <1>5, <1>7, <1>8, LegacyEras

(* so that admission keeps the eras apart and the modern lock. *)
LEMMA ErasRoute ==
  ASSUME NEW st, Eras(st), Typed(st, Requests), NEW r \in Requests, workerGeneration \in Nat
  PROVE  /\ Eras(Route(st, r))
         /\ st.era = "modern" => Route(st, r).era = "modern"
<1>1. Eras(Answer(st, r)) /\ Answer(st, r).era = st.era
  BY ErasAnswer DEF Answer, Typed
<1> QED
  BY <1>1, ErasRouteRequest, ErasRouteInitialize DEF Route

(* Taking a request out of the queue keeps the eras apart, *)
LEMMA ErasUnqueued ==
  ASSUME NEW st, Eras(st), Typed(st, Requests), NEW r \in Queued(st), workerGeneration \in Nat,
         NEW t, Typed(t, Requests), t.queue = Without(st.queue, r), t.pending = st.pending,
         SamePipes(st, t), t.era = st.era, t.initializeRequest = st.initializeRequest,
         t.parked = st.parked, t.clientInitialized = st.clientInitialized,
         t.initialized = st.initialized, t.replaying = st.replaying,
         st.predecessors = 0 => t.predecessors = 0
  PROVE  Eras(t)
<1>1. st.queue \in Seq(Requests) /\ r \in Entries(st.queue)
  BY QueuedEntries DEF Typed
<1>2. Queued(t) \subseteq Queued(st)
  BY <1>1, WithoutQueue, QueuedEntries
<1>3. Narrows(st, t)
  BY <1>2 DEF Narrows, Handled, NoSession, NoInitialize, SamePipes
<1> QED
  BY <1>3, ErasNarrow

(* so does a cancellation, *)
LEMMA ErasCancel ==
  ASSUME NEW st, Eras(st), Typed(st, Requests), NEW r \in Requests, workerGeneration \in Nat
  PROVE  Eras(Cancel(st, r)) /\ Cancel(st, r).era = st.era
<1>1. ASSUME r \in Queued(st)
      PROVE  Eras(Cancel(st, r)) /\ Cancel(st, r).era = st.era
  <2> DEFINE prefix == {st.queue[i] : i \in 1 .. st.predecessors}
             u == [Disarm(st, {r}) EXCEPT !.queue = Without(@, r)]
             v == [Disarm(st, {r}) EXCEPT !.queue = Without(@, r),
               !.predecessors = IF r \in prefix THEN @ - 1 ELSE @]
             w == ReleaseBarrier(v, r.id)
  <2>1. Typed(u, Requests) /\ UnqueueEffect(st, u, r)
    BY <1>1, TypedUnqueue, UnqueueFields DEF Typed
  <2>2. v = [u EXCEPT !.predecessors = IF r \in prefix THEN @ - 1 ELSE @]
    BY UnqueueTwice DEF Typed
  <2>3. u.predecessors = st.predecessors
    BY <2>1 DEF UnqueueEffect, SameSession
  <2>4. r \in prefix => st.predecessors > 0
    BY DEF Typed
  <2>5. Cancel(st, r) = Drain(w)
    BY <1>1 DEF Cancel
  <2> HIDE DEF u, v, prefix
  <2>6. Typed(v, Requests) /\ (st.predecessors = 0 => v.predecessors = 0)
    BY <2>1, <2>2, <2>3, <2>4 DEF Typed, Is, StateFields, MAX_SUPERVISOR_QUEUE
  <2>7. /\ v.queue = u.queue /\ v.pending = u.pending /\ SamePipes(u, v)
        /\ v.era = u.era /\ v.initializeRequest = u.initializeRequest
        /\ v.parked = u.parked /\ v.clientInitialized = u.clientInitialized
        /\ v.initialized = u.initialized /\ v.replaying = u.replaying
    BY <2>1, <2>2 DEF Typed, Is, StateFields, SamePipes
  <2>8. /\ v.queue = Without(st.queue, r) /\ v.pending = st.pending /\ SamePipes(st, v)
        /\ v.era = st.era /\ v.initializeRequest = st.initializeRequest
        /\ v.parked = st.parked /\ v.clientInitialized = st.clientInitialized
        /\ v.initialized = st.initialized /\ v.replaying = st.replaying
    BY <2>1, <2>7 DEF UnqueueEffect, SamePipes, SameSession
  <2>9. Eras(v)
    BY <1>1, <2>6, <2>8, ErasUnqueued
  <2>10. Typed(w, Requests)
    BY <2>6, TypedReleaseBarrier
  <2>11. Eras(w) /\ w.era = st.era
    BY <2>6, <2>8, <2>9, ErasReleaseBarrier DEF Typed
  <2> HIDE DEF w
  <2> QED
    BY <2>5, <2>10, <2>11, ErasDrain
<1>2. Eras(Drain(Release(st, {r}))) /\ Drain(Release(st, {r})).era = st.era
  <2> DEFINE x == Release(st, {r})
  <2>3. Is(st)
    BY DEF Typed
  <2>4. Eras(x) /\ x.era = st.era
    BY <2>3, ErasRelease
  <2>1. Eras(x) /\ x.era = st.era /\ Typed(x, Requests)
    BY <2>4, TypedRelease
  <2> HIDE DEF x
  <2>2. Eras(Drain(x)) /\ Drain(x).era = st.era
    BY <2>1, ErasDrain
  <2> QED
    BY <2>2 DEF x
<1> QED
  BY <1>1, <1>2 DEF Cancel

(* the deadline of a queued validate-project, *)
LEMMA ErasQueuedDeadline ==
  ASSUME NEW st, Eras(st), Typed(st, Requests), NEW r \in Queued(st), workerGeneration \in Nat
  PROVE  LET t == Drain(Answer(ReleaseBarrier(
                    [Disarm(st, {r}) EXCEPT !.queue = Without(@, r)], r.id), r))
         IN Eras(t) /\ t.era = st.era
<1> DEFINE a == [Disarm(st, {r}) EXCEPT !.queue = Without(@, r)]
           b == ReleaseBarrier(a, r.id)
           c == AnswerAll(b, {r})
<1>1. UnqueueEffect(st, a, r) /\ Typed(a, Requests)
  BY UnqueueFields, TypedUnqueue DEF Typed
<1> HIDE DEF a
<1>2. Eras(a) /\ a.era = st.era /\ Is(a)
  <2>1. /\ a.queue = Without(st.queue, r) /\ a.pending = st.pending /\ SamePipes(st, a)
        /\ a.era = st.era /\ a.initializeRequest = st.initializeRequest
        /\ a.parked = st.parked /\ a.clientInitialized = st.clientInitialized
        /\ a.initialized = st.initialized /\ a.replaying = st.replaying
        /\ a.predecessors = st.predecessors
    BY <1>1 DEF UnqueueEffect, SameSession
  <2> QED
    BY <1>1, <2>1, ErasUnqueued DEF Typed
<1>3. Eras(b) /\ b.era = st.era
  BY <1>2, ErasReleaseBarrier
<1>4. Typed(b, Requests) /\ Is(b)
  <2>1. Typed(b, Requests)
    BY <1>1, TypedReleaseBarrier
  <2> QED
    BY <2>1 DEF Typed
<1> HIDE DEF b
<1>5. Eras(c) /\ c.era = st.era
  BY <1>3, <1>4, ErasAnswer
<1>6. Typed(c, Requests)
  BY <1>4, TypedAnswer
<1> HIDE DEF c
<1>7. Eras(Drain(c)) /\ Drain(c).era = st.era
  BY <1>5, <1>6, ErasDrain
<1> QED
  BY <1>7 DEF c, b, a, Answer

(* and an answer of the worker. *)
LEMMA ErasDeliver ==
  ASSUME NEW st, Eras(st), Typed(st, Requests), NEW r, workerGeneration \in Nat
  PROVE  Eras(Deliver(st, r)) /\ Deliver(st, r).era = st.era
<1> DEFINE owners == {q \in st.pending : q.id = r.id}
           ends == \E q \in owners : Validate(q)
           a == Disarm(st, owners)
           settled == [Disarm(st, owners) EXCEPT !.pending = @ \ owners,
             !.running = IF ends THEN None ELSE @,
             !.barrier = IF @ = r.id /\ ends THEN None ELSE @]
           told == IF owners = {} THEN {r} ELSE owners
           t == AnswerAll(settled, told)
<1>1. Deliver(st, r) \in {st, Drain(t)}
  BY DEF Deliver
<1>2. settled = [a EXCEPT !.pending = @ \ owners,
             !.running = IF ends THEN None ELSE @,
             !.barrier = IF @ = r.id /\ ends THEN None ELSE @]
  OBVIOUS
<1> HIDE DEF settled, owners, ends, told
<1>3. DisarmEffect(st, a, owners)
  BY DisarmFields DEF Typed
<1>4. Typed(a, Requests)
  BY TypedDisarm
<1> HIDE DEF a
<1>5. /\ Typed(settled, Requests) /\ settled.queue = st.queue
      /\ settled.pending \subseteq st.pending
      /\ SameSession(st, settled) /\ SamePipes(st, settled)
  BY <1>2, <1>3, <1>4 DEF DisarmEffect, SamePipes, SameSession, Typed, Is, StateFields
<1>6. Narrows(st, settled)
  BY <1>5, NarrowSame DEF Queued
<1>7. Eras(settled) /\ settled.era = st.era /\ Is(settled)
  BY <1>5, <1>6, ErasNarrow DEF Typed, SameSession
<1>8. Eras(t) /\ t.era = st.era
  BY <1>7, ErasAnswer
<1>9. Typed(t, Requests)
  BY <1>5, TypedAnswer
<1> HIDE DEF t
<1> QED
  BY <1>1, <1>8, <1>9, ErasDrain

(* A handshake ends in the legacy era, with a result *)
LEMMA LegacyFinish ==
  ASSUME NEW st, st.era = "legacy", Typed(st, Requests), workerGeneration \in Nat
  PROVE  FinishHandshake(st).era = "legacy"
<1> DEFINE done == [st EXCEPT !.pending = {q \in @ : ~Retained(st, q)}]
           replayed == [done EXCEPT !.replaying = FALSE, !.told = st.initialized]
           first == [done EXCEPT !.clientInitialized = TRUE]
           answered == AnswerAll(first, {st.initializeRequest})
<1>1. FinishHandshake(st) \in {FlushQueue(replayed), FlushQueue(answered)}
  BY DEF FinishHandshake, Answer
<1>2. Typed(done, Requests) /\ done.era = "legacy"
  BY DEF Typed, Is, StateFields
<1> HIDE DEF done
<1>3. Typed(replayed, Requests) /\ Typed(first, Requests)
      /\ replayed.era = "legacy" /\ first.era = "legacy" /\ Is(first)
  BY <1>2 DEF Typed, Is, StateFields
<1> HIDE DEF replayed, first
<1>4. Typed(answered, Requests)
  BY <1>3, TypedAnswer
<1>5. answered.era = "legacy"
  BY <1>3, LegacyEras, ErasAnswer
<1> HIDE DEF answered
<1> QED
  BY <1>1, <1>3, <1>4, <1>5, LegacyEras, ErasFlush

(* or with an error. *)
LEMMA LegacyReject ==
  ASSUME NEW st, st.era = "legacy", Typed(st, Requests)
  PROVE  RejectHandshake(st).era = "legacy"
<1> DEFINE done == [st EXCEPT !.pending = {q \in @ : ~Retained(st, q)}]
           unparked == [done EXCEPT
            !.parked = IF @ # None /\ Retained(st, @) THEN None ELSE @]
<1>1. RejectHandshake(st) \in {done, AnswerAll(unparked, {st.initializeRequest})}
  BY DEF RejectHandshake, Answer
<1>2. Is(done) /\ done.era = "legacy"
  BY DEF Typed, Is, StateFields
<1> HIDE DEF done
<1>3. Is(unparked) /\ unparked.era = "legacy"
  BY <1>2 DEF Is, StateFields
<1> HIDE DEF unparked
<1> QED
  BY <1>1, <1>2, <1>3, LegacyEras, ErasAnswer

(* Every callback keeps the eras apart, and the modern era is for good. *)
LEMMA ErasStep ==
  ASSUME SupervisorTyped, Eras(s), workerGeneration \in Nat, SupervisorNext
  PROVE  Eras(s') /\ (s.era = "modern" => s'.era = "modern")
<1>1. Typed(s, Requests) /\ Is(s)
  BY TypedMore DEF SupervisorTyped, Typed
<1> DEFINE Right(t) == Eras(t) /\ t.era = s.era
<1>2. ASSUME NEW t, Right(t)
      PROVE  Eras(t) /\ (s.era = "modern" => t.era = "modern")
  BY <1>2
<1>3. s.initializeRequest # None => s.era = "legacy"
  BY DEF Eras, NoInitialize
<1>4. ASSUME NEW t, t.era = "legacy", s.era = "legacy"
      PROVE  Right(t)
  BY <1>4, LegacyEras
<1>5. Right(Drain(s))
  BY <1>1, ErasDrain
<1>6. Right(LoseWorker(s)) /\ Is(LoseWorker(s))
  BY <1>1, ErasLose, LoseFields DEF LoseEffect
<1>7. ASSUME NEW r \in Requests, ClientSends(r)
      PROVE  Eras(s') /\ (s.era = "modern" => s'.era = "modern")
  BY <1>1, <1>7, ErasRoute DEF ClientSends
<1>8. ASSUME NEW r \in Requests, ClientCancels(r)
      PROVE  Right(s')
  BY <1>1, <1>8, ErasCancel DEF ClientCancels
<1>9. ASSUME NEW r \in Requests, WorkerAnswers(r)
      PROVE  Right(s')
  <2> DEFINE st == [s EXCEPT !.held = @ \ {r}]
  <2>1. \/ s.initializeRequest # None /\ s' = FinishHandshake(st)
        \/ s' = Deliver(st, r)
    BY <1>9 DEF WorkerAnswers, AnswersHandshake
  <2>2. Typed(st, Requests) /\ Narrows(s, st) /\ st.era = s.era
    BY <1>1 DEF Typed, Is, StateFields, Narrows, NoSession, NoInitialize, Handled, Queued
  <2> HIDE DEF st
  <2>3. Eras(st)
    BY <2>2, ErasNarrow
  <2>4. Right(Deliver(st, r))
    BY <2>2, <2>3, ErasDeliver
  <2>5. s.initializeRequest # None => Right(FinishHandshake(st))
    BY <1>3, <1>4, <2>2, LegacyFinish
  <2> QED
    BY <2>1, <2>4, <2>5
<1>10. ASSUME NEW r \in Requests, QueuedDeadline(r)
       PROVE  Right(s')
  BY <1>1, <1>10, ErasQueuedDeadline DEF QueuedDeadline
<1>11. ASSUME ClientInitialized
       PROVE  Right(s')
  <2>1. s.era = "legacy" /\ s'.era = "legacy"
    BY <1>1, <1>11 DEF ClientInitialized, Is, StateFields
  <2> QED
    BY <1>4, <2>1
<1>12. ASSUME StdinBreaks \/ CleanupTimer
       PROVE  Right(s')
  <2>1. \/ s' = s
        \/ /\ s'.era = s.era /\ s'.queue = s.queue /\ s'.pending = s.pending
           /\ s'.held = s.held /\ SameSession(s, s') /\ s'.initializeSent = s.initializeSent
    BY <1>1, <1>12 DEF StdinBreaks, CleanupTimer, Is, StateFields, SameSession
  <2>2. Narrows(s, s')
    BY <2>1 DEF Narrows, NoSession, NoInitialize, Handled, Queued, SameSession
  <2> QED
    BY <2>2, ErasNarrow DEF Narrows
<1>13. ASSUME WorkerSignalsReady
       PROVE  Right(s')
  <2> DEFINE st == [s EXCEPT !.marked = TRUE]
  <2>1. \/ s' = FlushQueue(st)
        \/ s' = SendHandshake(st) /\ s.era = "legacy" /\ s.initializeRequest # None
    BY <1>13 DEF WorkerSignalsReady
  <2>2. Typed(st, Requests) /\ Narrows(s, st) /\ st.era = s.era
        /\ st.initializeRequest = s.initializeRequest
    BY <1>1 DEF Typed, Is, StateFields, Narrows, NoSession, NoInitialize, Handled, Queued
  <2> HIDE DEF st
  <2>3. Eras(st)
    BY <2>2, ErasNarrow
  <2>4. Right(FlushQueue(st))
    BY <2>2, <2>3, ErasFlush
  <2>5. s.era = "legacy" /\ s.initializeRequest # None => Right(SendHandshake(st))
    BY <1>4, <2>2, LegacySendHandshake
  <2> QED
    BY <2>1, <2>4, <2>5
<1>14. ASSUME NEW outcome \in TerminationOutcomes,
               \/ StartupTimesOut(outcome) \/ WorkerBreaks(outcome)
               \/ \E r \in Requests : WorkerRejectsInitialize(r, outcome)
       PROVE  Right(s')
  <2>1. Right(AfterLoss(s))
    BY <1>1, ErasAfterLoss
  <2>2. Right(FailQueued(LoseWorker(s)))
    BY <1>6, ErasFailQueued
  <2>3. ASSUME NEW r \in Requests, WorkerRejectsInitialize(r, outcome)
        PROVE  Right(FailQueued(LoseWorker(RejectHandshake(s))))
    <3> DEFINE x == RejectHandshake(s)
    <3>1. s.era = "legacy"
      BY <1>3, <2>3 DEF WorkerRejectsInitialize, AnswersHandshake
    <3>2. x.era = "legacy" /\ Typed(x, Requests)
      BY <1>1, <3>1, LegacyReject, TypedReject
    <3> HIDE DEF x
    <3>3. Eras(LoseWorker(x)) /\ LoseWorker(x).era = "legacy" /\ Is(LoseWorker(x))
      BY <3>2, LegacyEras, ErasLose, LoseFields DEF Typed, LoseEffect
    <3>4. FailQueued(LoseWorker(x)).era = "legacy"
      BY <3>3, ErasFailQueued
    <3> QED
      BY <1>4, <3>1, <3>4 DEF x
  <2> QED
    BY <1>14, <2>1, <2>2, <2>3 DEF StartupTimesOut, WorkerBreaks, WorkerRejectsInitialize
<1>15. ASSUME NEW outcome \in TerminationOutcomes, NEW spawned \in SpawnOutcomes,
              NEW r \in Requests, RunningDeadline(r, outcome, spawned)
       PROVE  Right(s')
  <2> DEFINE a == Release(s, {r})
             b == [a EXCEPT !.running = None, !.barrier = None]
             settled == AnswerAll(b, {r})
             lost == IF child = NoChild THEN settled ELSE LoseWorker(settled)
  <2>1. s' \in {lost, FailQueued(lost)}
    BY <1>15 DEF RunningDeadline, Answer
  <2>2. Right(a) /\ Is(a)
    BY <1>1, ErasRelease, ReleaseFields DEF ReleaseEffect
  <2> HIDE DEF a
  <2>3. Narrows(a, b) /\ Is(b)
    BY <2>2 DEF Is, StateFields, Narrows, NoSession, NoInitialize, Handled, Queued
  <2> HIDE DEF b
  <2>4. Right(b)
    BY <2>2, <2>3, ErasNarrow DEF Narrows
  <2>5. Right(settled) /\ Is(settled)
    BY <2>3, <2>4, ErasAnswer, AnswerFields DEF AnswerEffect
  <2> HIDE DEF settled
  <2>6. Right(LoseWorker(settled)) /\ Is(LoseWorker(settled))
    BY <2>5, ErasLose, LoseFields DEF LoseEffect
  <2>7. Right(lost) /\ Is(lost)
    BY <2>5, <2>6
  <2> HIDE DEF lost
  <2>8. Right(FailQueued(lost))
    BY <2>7, ErasFailQueued
  <2> QED
    BY <2>1, <2>7, <2>8
<1>16. ASSUME NEW stoodDown \in BOOLEAN, WorkerCrashes(stoodDown)
       PROVE  Right(s')
  BY <1>1, <1>16, ErasAfterLoss DEF WorkerCrashes
<1>17. ASSUME NEW g \in Generations,
              ReplacedWorkerExits(g) \/ UnspawnedCloses(g) \/ StreamsClose(g)
       PROVE  Right(s')
  <2> DEFINE x == Purge(s, g)
  <2>1. g \in Nat
    BY DEF Generations
  <2>2. s' \in {Drain(s), Drain(x), x}
    BY <1>17 DEF ReplacedWorkerExits, UnspawnedCloses, StreamsClose
  <2>3. Typed(x, Requests)
    BY <1>1, <2>1, TypedPurge
  <2>4. Right(x)
    BY <1>1, ErasPurge
  <2> HIDE DEF x
  <2>5. Right(Drain(x))
    BY <2>3, <2>4, ErasDrain
  <2> QED
    BY <1>5, <2>2, <2>4, <2>5
<1>18. ASSUME NEW spawned \in SpawnOutcomes, RestartFires(spawned)
       PROVE  Right(s')
  BY <1>1, <1>18, ErasFailQueued DEF RestartFires
<1>19. ASSUME NEW g \in Generations, NEW success \in BOOLEAN,
              TreeSettles(g, success) \/ TokenRetrySettles(g, success)
       PROVE  Right(s')
  BY <1>5, <1>19 DEF TreeSettles, TokenRetrySettles
<1>20. ASSUME NEW outcome \in [liveChildren -> TerminationOutcomes], ShutsDown(outcome)
       PROVE  Right(s')
  <2> DEFINE x == LoseWorker(s)
             y == [x EXCEPT !.pending = {}, !.queue = << >>, !.armed = {},
                            !.tombstones = [id \in Ids |-> 0]]
  <2>1. s' = y
    BY <1>20 DEF ShutsDown
  <2> HIDE DEF x
  <2>2. Right(x) /\ Is(x)
    BY <1>6 DEF x
  <2>3. Queued(y) = {}
    BY <2>2 DEF Queued, Is, StateFields
  <2>4. Narrows(x, y)
    BY <2>2, <2>3 DEF Is, StateFields, Narrows, NoSession, NoInitialize, Handled
  <2> HIDE DEF y
  <2>5. Right(y)
    BY <2>2, <2>4, ErasNarrow DEF Narrows
  <2> QED
    BY <2>1, <2>5
<1> HIDE DEF Right
<1> QED
  BY <1>2, <1>7, <1>8, <1>9, <1>10, <1>11, <1>12, <1>13, <1>14, <1>15, <1>16, <1>17, <1>18,
     <1>19, <1>20 DEF SupervisorNext

(* The eras are apart in every behaviour: an initialize is cached, parked,
   queued or forwarded in the legacy era only, and before an era is selected a
   worker sees nothing but discovers (admitEraRequest). *)
THEOREM ErasRight == SupervisorSpec => []Eras(s)
<1>1. SupervisorInit => Eras(s)
  BY DEF SupervisorInit, InitialState, Eras, NoInitialize, NoSession, Handled, Queued
<1>2. SupervisorInv /\ Eras(s) /\ [SupervisorNext]_vars => Eras(s)'
  <2> SUFFICES ASSUME SupervisorInv, Eras(s), [SupervisorNext]_vars PROVE Eras(s')
    BY DEF Eras, Handled, NoInitialize, NoSession, Queued
  <2>1. workerGeneration \in Nat
    BY PoolAssumption DEF SupervisorInv, IInv, TypeOK, CountsOK, PoolAssumption
  <2>2. SupervisorNext => Eras(s')
    BY <2>1, ErasStep DEF SupervisorInv
  <2> QED
    BY <2>2 DEF vars
<1> QED
  BY <1>1, <1>2, SupervisorInvariant, PTL DEF SupervisorSpec

(* The modern lock is for good: from the first modern request on no initialize
   is cached, parked, queued, forwarded or replayed, by no route and by no
   crash (lockModernEra, handleWorkerReady). *)
THEOREM ModernLockForGood == SupervisorSpec => ModernLockHolds
<1>1. SupervisorInv /\ Eras(s) /\ [SupervisorNext]_vars =>
        [s.era = "modern" => s'.era = "modern" /\ NoInitialize(s')]_vars
  <2> SUFFICES ASSUME SupervisorInv, Eras(s), SupervisorNext, s.era = "modern"
               PROVE  s'.era = "modern" /\ NoInitialize(s')
    OBVIOUS
  <2>1. workerGeneration \in Nat
    BY PoolAssumption DEF SupervisorInv, IInv, TypeOK, CountsOK, PoolAssumption
  <2> QED
    BY <2>1, ErasStep DEF SupervisorInv, Eras
<1> QED
  BY <1>1, SupervisorInvariant, ErasRight, PTL DEF SupervisorSpec, ModernLockHolds

-----------------------------------------------------------------------------
(* Nothing overtakes the handshake. *)

(* The worker has got nothing but the handshake and the discovers before it. *)
HandshakeOnly(st) == \A r \in st.held : Initialize(r) \/ r.method = "discover"

(* What the supervisor knows of its worker agrees with the pool: a worker that
   is adopted (ready) has written its ready marker; one that has is up, and
   its predecessors are released; one that has not was given nothing; and
   before its adoption a worker is given the handshake only. *)
Attached(st, ready, up) ==
  /\ ready => st.marked
  /\ st.marked => up /\ st.predecessors = 0
  /\ st.marked /\ ~ready => st.era = "legacy"
  /\ ~st.marked => /\ st.held = {} /\ st.stdin = "fresh" /\ ~st.told
                   /\ ~st.replaying /\ ~st.initializeSent
  /\ ~ready => HandshakeOnly(st)

(* The predecessors of a parked initialize are the discovers at the front of
   the queue (initializePredecessorCount), in an unfinished handshake. *)
Front(st) ==
  /\ st.predecessors <= Len(st.queue)
  /\ \A i \in 1 .. st.predecessors : st.queue[i].method = "discover"
  /\ st.predecessors > 0 => st.initializeRequest # None /\ ~st.clientInitialized

(* Without predecessors there is nothing to say. *)
LEMMA FrontNone ==
  ASSUME NEW st, Typed(st, Requests), st.predecessors = 0
  PROVE  Front(st)
BY DEF Typed, Front

(* What leaves the session and the worker alone stays attached, *)
LEMMA AttachedSame ==
  ASSUME NEW st, NEW t, NEW ready, NEW up, Attached(st, ready, up),
         SameSession(st, t), SamePipes(st, t)
  PROVE  Attached(t, ready, up)
BY DEF Attached, SameSession, SamePipes, HandshakeOnly

(* and keeps the front of the queue, *)
LEMMA FrontSame ==
  ASSUME NEW st, NEW t, Front(st), SameSession(st, t), t.queue = st.queue
  PROVE  Front(t)
BY DEF Front, SameSession

(* as does a request at its end. *)
LEMMA FrontAppend ==
  ASSUME NEW st, NEW t, NEW r \in Requests, Front(st), Typed(st, Requests), QueueEffect(st, t, r)
  PROVE  Front(t)
<1>1. st.queue \in Seq(Requests) /\ t.queue = Append(st.queue, r)
      /\ t.predecessors = st.predecessors /\ st.predecessors \in Nat
      /\ t.initializeRequest = st.initializeRequest /\ t.clientInitialized = st.clientInitialized
  BY DEF QueueEffect, SameSession, Typed
<1>2. /\ Len(t.queue) = Len(st.queue) + 1 /\ Len(st.queue) \in Nat
      /\ \A i \in 1 .. Len(st.queue) : t.queue[i] = st.queue[i]
  BY <1>1, AppendQueue
<1> QED
  BY <1>1, <1>2 DEF Front

(* forwardRequest gives a worker that is not adopted what belongs to the
   handshake only. *)
LEMMA AttachedForward ==
  ASSUME NEW st, NEW ready, NEW up, Attached(st, ready, up), Front(st),
         Typed(st, Requests), NEW r \in Requests, st.marked,
         ready \/ Initialize(r) \/ r.method = "discover"
  PROVE  /\ Attached(Forward(st, r), ready, up) /\ Front(Forward(st, r))
         /\ Forward(st, r).marked /\ Forward(st, r).predecessors = st.predecessors
         /\ SameSession(st, Forward(st, r))
<1> DEFINE t == Forward(st, r)
<1>1. Is(st)
  BY DEF Typed
<1>2. /\ ~Writable(st) /\ Len(st.queue) < MAX_SUPERVISOR_QUEUE => QueueEffect(st, t, r)
      /\ ~Writable(st) /\ ~(Len(st.queue) < MAX_SUPERVISOR_QUEUE) => RefuseEffect(st, t, r)
      /\ Writable(st) /\ r \notin Unwritable => WriteEffect(st, t, r)
      /\ Writable(st) /\ r \in Unwritable => UnwriteEffect(st, t, r)
  BY <1>1, ForwardQueues, ForwardRefuses, ForwardWrites, ForwardUnwritten
<1> HIDE DEF t
<1>3. SameSession(st, t) /\ t.marked = st.marked
      /\ (t.held = st.held \/ t.held = st.held \cup {r})
  BY <1>2 DEF QueueEffect, RefuseEffect, WriteEffect, UnwriteEffect, Written, SameSession, SamePipes
<1>4. Attached(t, ready, up)
  BY <1>3 DEF Attached, HandshakeOnly, SameSession
<1>5. Front(t)
  <2>1. CASE QueueEffect(st, t, r)
    BY <2>1, FrontAppend
  <2>2. CASE t.queue = st.queue
    BY <1>3, <2>2, FrontSame
  <2> QED
    BY <1>2, <2>1, <2>2 DEF RefuseEffect, WriteEffect, UnwriteEffect, Written
<1> QED
  BY <1>3, <1>4, <1>5 DEF t, SameSession

(* drainQueue writes to an adopted worker only. *)
LEMMA AttachedDrain ==
  ASSUME NEW st, NEW up, Attached(st, childReady', up), Front(st),
         Typed(st, Requests), workerGeneration \in Nat
  PROVE  Attached(Drain(st), childReady', up) /\ Front(Drain(st))
<1>1. ASSUME NEW u, Attached(u, childReady', up), Front(u), Typed(u, Requests)
      PROVE  /\ Attached(DrainStep(u), childReady', up) /\ Front(DrainStep(u))
             /\ Typed(DrainStep(u), Requests)
  <2>1. CASE ~childReady' \/ ~Writable(u) \/ u.queue = << >> \/ u.running # None
    BY <1>1, <2>1 DEF DrainStep
  <2>2. CASE u.queue # << >> /\ childReady'
    <3> DEFINE next == Head(u.queue)
               taken == [u EXCEPT !.queue = Tail(@)]
               raised == [u EXCEPT !.barrier = next.id]
    <3>1. DrainStep(u) \in {u, Forward(taken, next), raised}
      BY DEF DrainStep
    <3>2. Typed(taken, Requests) /\ next \in Requests
      BY <1>1, <2>2, TypedTake
    <3>3. TakeEffect(u, taken) /\ RaiseEffect(u, raised, next.id)
      BY <1>1, TakeFields, RaiseFields DEF Typed
    <3>4. next.id \in Ids
      BY <3>2 DEF Ids
    <3> HIDE DEF next, taken, raised
    <3>5. Attached(taken, childReady', up) /\ Attached(raised, childReady', up)
      BY <1>1, <3>3, AttachedSame DEF TakeEffect, RaiseEffect
    <3>6. u.marked /\ taken.marked /\ taken.predecessors = 0
      BY <1>1, <2>2, <3>5 DEF Attached
    <3>7. Front(taken)
      BY <3>2, <3>6, FrontNone
    <3>8. Front(raised)
      BY <1>1, <3>3, FrontSame DEF RaiseEffect
    <3>9. Attached(Forward(taken, next), childReady', up) /\ Front(Forward(taken, next))
      BY <2>2, <3>2, <3>5, <3>6, <3>7, AttachedForward
    <3>10. Typed(Forward(taken, next), Requests)
      BY <3>2, TypedForward
    <3>11. Typed(raised, Requests)
      BY <1>1, <3>3, <3>4 DEF Typed, RaiseEffect, SameSession, SamePipes, SameReplies
    <3> QED
      BY <1>1, <3>1, <3>5, <3>8, <3>9, <3>10, <3>11
  <2> QED
    BY <2>1, <2>2
<1> QED
  BY <1>1 DEF Drain

(* flushQueue does so after the adoption. *)
LEMMA AttachedFlush ==
  ASSUME NEW st, NEW up, Attached(st, TRUE, up), childReady' = TRUE, Front(st),
         Typed(st, Requests), workerGeneration \in Nat
  PROVE  Attached(FlushQueue(st), TRUE, up) /\ Front(FlushQueue(st))
<1> DEFINE flushed == [st EXCEPT !.parked = None]
<1>1. Typed(flushed, Requests) /\ Attached(flushed, TRUE, up) /\ Front(flushed)
  BY DEF Typed, Is, StateFields, Handshakes, Attached, HandshakeOnly, Front
<1>2. st.parked = None \/ st.parked \in Requests
  BY DEF Typed, Handshakes
<1>3. \/ FlushQueue(st) = Drain(flushed)
      \/ st.parked # None /\ FlushQueue(st) = Drain(Forward(flushed, st.parked))
  BY DEF FlushQueue
<1> HIDE DEF flushed
<1>4. Attached(Drain(flushed), TRUE, up) /\ Front(Drain(flushed))
  BY <1>1, AttachedDrain
<1>5. ASSUME st.parked # None
      PROVE  /\ Attached(Drain(Forward(flushed, st.parked)), TRUE, up)
             /\ Front(Drain(Forward(flushed, st.parked)))
  <2> DEFINE x == Forward(flushed, st.parked)
  <2>1. flushed.marked
    BY <1>1 DEF Attached
  <2>2. Attached(x, TRUE, up) /\ Front(x)
    BY <1>1, <1>2, <1>5, <2>1, AttachedForward
  <2>3. Typed(x, Requests)
    BY <1>1, <1>2, <1>5, TypedForward
  <2> HIDE DEF x
  <2>4. Attached(Drain(x), TRUE, up) /\ Front(Drain(x))
    BY <2>2, <2>3, AttachedDrain
  <2> QED
    BY <2>4 DEF x
<1> QED
  BY <1>3, <1>4, <1>5

(* The worker has written its ready marker in the legacy era, and the
   handshake is being sent to it. *)
Handshaking(st, ready, up) ==
  /\ st.marked /\ up /\ ~ready /\ st.era = "legacy" /\ HandshakeOnly(st)
  /\ Front(st) /\ Typed(st, Requests)

(* Sending a part of the handshake is a part of it, *)
LEMMA HandshakingForward ==
  ASSUME NEW st, NEW ready, NEW up, Handshaking(st, ready, up), NEW r \in Requests,
         Initialize(r) \/ r.method = "discover", workerGeneration \in Nat
  PROVE  Handshaking(Forward(st, r), ready, up) /\ SameSession(st, Forward(st, r))
<1> DEFINE t == Forward(st, r)
<1>1. Is(st) /\ Typed(t, Requests)
  BY TypedForward DEF Typed, Handshaking
<1>2. /\ ~Writable(st) /\ Len(st.queue) < MAX_SUPERVISOR_QUEUE => QueueEffect(st, t, r)
      /\ ~Writable(st) /\ ~(Len(st.queue) < MAX_SUPERVISOR_QUEUE) => RefuseEffect(st, t, r)
      /\ Writable(st) /\ r \notin Unwritable => WriteEffect(st, t, r)
      /\ Writable(st) /\ r \in Unwritable => UnwriteEffect(st, t, r)
  BY <1>1, ForwardQueues, ForwardRefuses, ForwardWrites, ForwardUnwritten
<1> HIDE DEF t
<1>3. SameSession(st, t) /\ t.marked = st.marked
      /\ (t.held = st.held \/ t.held = st.held \cup {r})
  BY <1>2 DEF QueueEffect, RefuseEffect, WriteEffect, UnwriteEffect, Written, SameSession, SamePipes
<1>4. Front(t)
  <2>1. CASE QueueEffect(st, t, r)
    BY <2>1, FrontAppend DEF Handshaking
  <2>2. CASE t.queue = st.queue
    BY <1>3, <2>2, FrontSame DEF Handshaking
  <2> QED
    BY <1>2, <2>1, <2>2 DEF RefuseEffect, WriteEffect, UnwriteEffect, Written
<1> QED
  BY <1>1, <1>3, <1>4 DEF t, Handshaking, HandshakeOnly, SameSession

(* a discover that came before the initialize too, *)
LEMMA HandshakingPredecessor ==
  ASSUME NEW st, NEW ready, NEW up, Handshaking(st, ready, up), workerGeneration \in Nat
  PROVE  /\ Handshaking(ForwardPredecessor(st), ready, up)
         /\ ForwardPredecessor(st).initializeRequest = st.initializeRequest
         /\ ForwardPredecessor(st).clientInitialized = st.clientInitialized
         /\ ForwardPredecessor(st).initialized = st.initialized
<1>1. ASSUME st.predecessors # 0, st.queue # << >>
      PROVE  /\ Handshaking(ForwardPredecessor(st), ready, up)
             /\ ForwardPredecessor(st).initializeRequest = st.initializeRequest
             /\ ForwardPredecessor(st).clientInitialized = st.clientInitialized
             /\ ForwardPredecessor(st).initialized = st.initialized
  <2> DEFINE next == Head(st.queue)
             u == [st EXCEPT !.queue = Tail(@)]
             v == [st EXCEPT !.queue = Tail(@), !.predecessors = @ - 1]
  <2>a. Typed(st, Requests) /\ Is(st) /\ Front(st)
    BY DEF Handshaking, Typed
  <2>b. Typed(u, Requests) /\ next \in Requests
    BY <1>1, <2>a, TypedTake
  <2>1. st.queue \in Seq(Requests) /\ st.predecessors \in Nat
        /\ st.predecessors <= MAX_SUPERVISOR_QUEUE
    BY <2>a DEF Typed
  <2>2. v = [u EXCEPT !.predecessors = @ - 1] /\ u.predecessors = st.predecessors
        /\ u.queue = Tail(st.queue) /\ u.marked = st.marked /\ u.era = st.era /\ u.held = st.held
        /\ u.initializeRequest = st.initializeRequest
        /\ u.clientInitialized = st.clientInitialized /\ u.initialized = st.initialized
    BY DEF Handshaking, Typed, Is, StateFields
  <2>3. ForwardPredecessor(st) = Forward(v, next)
    BY <1>1 DEF ForwardPredecessor
  <2>4. /\ Len(Tail(st.queue)) = Len(st.queue) - 1 /\ next = st.queue[1]
        /\ Len(st.queue) \in Nat \ {0}
        /\ \A i \in 1 .. Len(st.queue) - 1 : Tail(st.queue)[i] = st.queue[i + 1]
    BY <1>1, <2>1, TailQueue
  <2>c. next \in Requests
    BY <2>b
  <2> HIDE DEF u, v, next
  <2>d. SameTracking(u, v) /\ SamePipes(u, v) /\ SameReplies(u, v) /\ Is(v)
        /\ v.era = u.era /\ v.initializeRequest = u.initializeRequest /\ v.parked = u.parked
        /\ v.predecessors = st.predecessors - 1
    BY <2>b, <2>2 DEF Typed, Is, StateFields, SameTracking, SamePipes, SameReplies
  <2>e. v.predecessors \in 0 .. MAX_SUPERVISOR_QUEUE
    BY <1>1, <2>1, <2>d DEF MAX_SUPERVISOR_QUEUE
  <2>5. Typed(v, Requests)
    BY <2>b, <2>d, <2>e DEF Typed, SameTracking, SamePipes, SameReplies
  <2>6. /\ v.predecessors = st.predecessors - 1 /\ v.queue = Tail(st.queue)
        /\ v.marked = st.marked /\ v.era = st.era /\ v.held = st.held
        /\ v.initializeRequest = st.initializeRequest
        /\ v.clientInitialized = st.clientInitialized /\ v.initialized = st.initialized
    BY <2>1, <2>b, <2>2 DEF Typed, Is, StateFields
  <2>7. Front(v) /\ next.method = "discover"
    BY <1>1, <2>1, <2>4, <2>6 DEF Handshaking, Front
  <2>8. Handshaking(v, ready, up)
    BY <2>5, <2>6, <2>7 DEF Handshaking, HandshakeOnly
  <2>9. Handshaking(Forward(v, next), ready, up) /\ SameSession(v, Forward(v, next))
    BY <2>b, <2>7, <2>8, HandshakingForward
  <2> QED
    BY <2>3, <2>6, <2>9 DEF SameSession
<1> QED
  BY <1>1 DEF ForwardPredecessor

(* and so is all that handleWorkerReady sends. *)
LEMMA AttachedSendHandshake ==
  ASSUME NEW st, NEW ready, NEW up, Handshaking(st, ready, up), workerGeneration \in Nat,
         st.initializeRequest # None
  PROVE  /\ Attached(SendHandshake(st), ready, up) /\ Front(SendHandshake(st))
<1> DEFINE first == ForwardPredecessor(st)
           released == ForwardPredecessor(first)
           opened == [released EXCEPT !.predecessors = 0, !.replaying = st.clientInitialized]
           request == st.initializeRequest
<1>1. Handshaking(first, ready, up)
  BY HandshakingPredecessor
<1> HIDE DEF first
<1>2. Handshaking(released, ready, up)
  BY <1>1, HandshakingPredecessor
<1>3. SendHandshake(st) = Forward(opened, request)
  BY DEF SendHandshake, first
<1> HIDE DEF released
<1>4. Typed(opened, Requests) /\ opened.predecessors = 0 /\ opened.marked
      /\ opened.era = "legacy" /\ opened.held = released.held
  BY <1>2 DEF Handshaking, Typed, Is, StateFields, MAX_SUPERVISOR_QUEUE
<1>5. request \in Requests /\ Initialize(request)
  BY DEF Handshaking, Typed, Handshakes
<1> HIDE DEF opened, request
<1>6. Front(opened)
  BY <1>4, FrontNone
<1>7. Handshaking(opened, ready, up)
  BY <1>2, <1>4, <1>6 DEF Handshaking, HandshakeOnly
<1>8. Attached(opened, ready, up)
  BY <1>4, <1>7 DEF Attached, Handshaking
<1> QED
  BY <1>3, <1>4, <1>5, <1>6, <1>8, AttachedForward

(* The invariant of the handshake and the types of the request state. *)
Good(st, up) == Attached(st, childReady', up) /\ Front(st) /\ Typed(st, Requests)

(* It holds on after what leaves the session, the worker and the queue alone, *)
LEMMA GoodSame ==
  ASSUME NEW st, NEW t, NEW up, Good(st, up), SameSession(st, t), SamePipes(st, t),
         t.queue = st.queue, Typed(t, Requests)
  PROVE  Good(t, up)
BY AttachedSame, FrontSame DEF Good

(* such as a response, *)
LEMMA GoodAnswer ==
  ASSUME NEW st, NEW up, Good(st, up), NEW R
  PROVE  Good(AnswerAll(st, R), up)
<1> DEFINE t == AnswerAll(st, R)
<1>1. Typed(t, Requests)
  BY TypedAnswer DEF Good
<1>2. AnswerEffect(st, t, R)
  BY AnswerFields DEF Good, Typed
<1> HIDE DEF t
<1>3. Good(t, up)
  BY <1>1, <1>2, GoodSame DEF AnswerEffect, SameTracking
<1> QED
  BY <1>3 DEF t

(* the end of forwarded requests, *)
LEMMA GoodRelease ==
  ASSUME NEW st, NEW up, Good(st, up), NEW R, workerGeneration \in Nat
  PROVE  Good(Release(st, R), up)
<1> DEFINE t == Release(st, R)
<1>1. Typed(t, Requests)
  BY TypedRelease DEF Good
<1>2. ReleaseEffect(st, t, R)
  BY ReleaseFields DEF Good, Typed
<1> HIDE DEF t
<1>3. Good(t, up)
  BY <1>1, <1>2, GoodSame DEF ReleaseEffect
<1> QED
  BY <1>3 DEF t

(* giving back a barrier, *)
LEMMA GoodReleaseBarrier ==
  ASSUME NEW st, NEW up, Good(st, up), NEW id
  PROVE  Good(ReleaseBarrier(st, id), up)
<1> DEFINE t == ReleaseBarrier(st, id)
<1>1. Typed(t, Requests)
  BY TypedReleaseBarrier DEF Good
<1>2. BarrierEffect(st, t, id)
  BY ReleaseBarrierFields DEF Good, Typed
<1> HIDE DEF t
<1>3. Good(t, up)
  BY <1>1, <1>2, GoodSame DEF BarrierEffect
<1> QED
  BY <1>3 DEF t

(* and arming a validate-project; *)
LEMMA GoodInstall ==
  ASSUME NEW st, NEW up, Good(st, up), NEW r \in Requests
  PROVE  Good(Install(st, r), up)
<1> DEFINE t == Install(st, r)
<1>1. Typed(t, Requests)
  BY TypedInstall DEF Good
<1>2. InstallEffect(st, t, r)
  BY InstallFields DEF Good, Typed
<1> HIDE DEF t
<1>3. Good(t, up)
  BY <1>1, <1>2, GoodSame DEF InstallEffect
<1> QED
  BY <1>3 DEF t

(* after forwardRequest to an adopted worker, *)
LEMMA GoodForward ==
  ASSUME NEW st, NEW up, Good(st, up), NEW r \in Requests, workerGeneration \in Nat,
         childReady'
  PROVE  Good(Forward(st, r), up)
<1>1. st.marked
  BY DEF Good, Attached
<1>2. Typed(Forward(st, r), Requests)
  BY TypedForward DEF Good
<1> QED
  BY <1>1, <1>2, AttachedForward DEF Good

(* after drainQueue, *)
LEMMA GoodDrain ==
  ASSUME NEW st, NEW up, Good(st, up), workerGeneration \in Nat
  PROVE  Good(Drain(st), up)
BY AttachedDrain, TypedDrain DEF Good

(* after the modern lock, *)
LEMMA GoodLock ==
  ASSUME NEW st, NEW up, Good(st, up), Eras(st), NEW r
  PROVE  Good(LockEra(st, r), up)
<1> DEFINE t == LockEra(st, r)
<1>1. Typed(t, Requests)
  BY TypedLock DEF Good
<1>2. LockEffect(st, t, r)
  BY LockFields DEF Good, Typed
<1> HIDE DEF t
<1>3. ASSUME t # st
      PROVE  Good(t, up)
  <2>1. st.era = "unselected" /\ t.predecessors = 0
    BY <1>2, <1>3 DEF LockEffect
  <2>2. Attached(t, childReady', up)
    BY <1>2, <1>3, <2>1 DEF LockEffect, Good, Attached, HandshakeOnly
  <2> QED
    BY <1>1, <2>1, <2>2, FrontNone DEF Good
<1> QED
  BY <1>3 DEF t

(* after the admission of a request, *)
LEMMA GoodRouteRequest ==
  ASSUME NEW st, NEW up, Good(st, up), Eras(st), NEW r \in Requests,
         workerGeneration \in Nat
  PROVE  Good(RouteRequest(st, r), up)
<1> DEFINE u == LockEra(st, r)
           v == Install(u, r)
           queued == [v EXCEPT !.queue = Append(@, r)]
<1>1. Good(u, up)
  BY GoodLock
<1>2. RouteRequest(st, r) \in {Answer(u, r), Drain(Answer(u, r))} \cup
        {t \in {Admit(v, r)} : CanDispatch(u, r)} \cup
        {t \in {queued} : ~(Len(u.queue) >= MAX_SUPERVISOR_QUEUE)}
  BY DEF RouteRequest
<1> HIDE DEF u
<1>3. Good(v, up)
  BY <1>1, GoodInstall
<1>4. InstallEffect(u, v, r)
  BY <1>1, InstallFields DEF Good, Typed
<1> HIDE DEF v
<1>5. Good(Answer(u, r), up)
  BY <1>1, GoodAnswer DEF Answer
<1>6. Good(Drain(Answer(u, r)), up)
  BY <1>5, GoodDrain
<1>7. ASSUME CanDispatch(u, r)
      PROVE  Good(Admit(v, r), up)
  <2>1. childReady'
    BY <1>7 DEF CanDispatch
  <2>2. Good(Forward(v, r), up)
    BY <1>3, <2>1, GoodForward
  <2>3. Good(Drain(Forward(v, r)), up)
    BY <2>2, GoodDrain
  <2> QED
    BY <2>2, <2>3 DEF Admit
<1>8. ASSUME ~(Len(u.queue) >= MAX_SUPERVISOR_QUEUE)
      PROVE  Good(queued, up)
  <2>1. Len(v.queue) < MAX_SUPERVISOR_QUEUE
    BY <1>1, <1>4, <1>8 DEF InstallEffect, Good, Typed, MAX_SUPERVISOR_QUEUE
  <2>2. Typed(queued, Requests)
    BY <1>3, <2>1, TypedEnqueue DEF Good
  <2>3. QueueEffect(v, queued, r)
    BY <1>3, EnqueueFields DEF Good, Typed
  <2> HIDE DEF queued
  <2>4. Attached(queued, childReady', up)
    BY <1>3, <2>3, AttachedSame DEF Good, QueueEffect
  <2>5. Front(queued)
    BY <1>3, <2>3, FrontAppend DEF Good
  <2> QED
    BY <2>2, <2>4, <2>5 DEF Good
<1> QED
  BY <1>2, <1>5, <1>6, <1>7, <1>8

(* of an initialize, whose predecessors are the discovers in the queue, *)
LEMMA GoodRouteInitialize ==
  ASSUME NEW st, NEW up, Good(st, up), Eras(st), NEW r \in Requests, Initialize(r),
         workerGeneration \in Nat, up => child' # NoChild
  PROVE  Good(RouteInitialize(st, r), up)
<1> DEFINE legacy == [st EXCEPT !.era = "legacy"]
           captured == [legacy EXCEPT !.initializeRequest = r, !.clientInitialized = FALSE]
           now == [captured EXCEPT !.predecessors = 0]
           cleared == ClearHandshake(legacy)
           count == IF st.era = "unselected" THEN Len(st.queue) ELSE 0
           held == [captured EXCEPT !.parked = r, !.predecessors = count]
<1>1. \/ RouteInitialize(st, r) = Answer(st, r)
      \/ CapBlocked /\ RouteInitialize(st, r) = Answer(cleared, r)
      \/ childReady' /\ RouteInitialize(st, r) = Forward(now, r)
      \/ st.era # "modern" /\ ~childReady' /\ RouteInitialize(st, r) = held
  BY DEF RouteInitialize
<1>2. Good(legacy, up)
  <2>1. Typed(legacy, Requests) /\ SamePipes(st, legacy) /\ legacy.queue = st.queue
        /\ legacy.predecessors = st.predecessors /\ legacy.replaying = st.replaying
        /\ legacy.initializeRequest = st.initializeRequest
        /\ legacy.clientInitialized = st.clientInitialized /\ legacy.era = "legacy"
    BY DEF Good, Typed, Is, StateFields, SamePipes
  <2> HIDE DEF legacy
  <2> QED
    BY <2>1 DEF Good, Attached, Front, HandshakeOnly, SamePipes
<1>3. legacy.queue = st.queue /\ Is(legacy) /\ legacy.marked = st.marked
  BY DEF Good, Typed, Is, StateFields
<1> HIDE DEF legacy
<1>4. Good(Answer(st, r), up)
  BY GoodAnswer DEF Answer
<1>5. ASSUME CapBlocked
      PROVE  Good(Answer(cleared, r), up)
  <2>1. ClearEffect(legacy, cleared) /\ Typed(cleared, Requests)
    BY <1>2, <1>3, ClearFields, TypedClear DEF Good
  <2> HIDE DEF cleared
  <2>2. Good(cleared, up)
    <3>1. CASE cleared = legacy
      BY <1>2, <3>1
    <3>2. CASE cleared # legacy
      <4>1. cleared.predecessors = 0 /\ cleared.replaying = FALSE /\ cleared.initializeSent = FALSE
        BY <2>1, <3>2 DEF ClearEffect
      <4>2. Attached(cleared, childReady', up)
        BY <1>2, <2>1, <4>1 DEF ClearEffect, Good, Attached, HandshakeOnly
      <4> QED
        BY <2>1, <4>1, <4>2, FrontNone DEF Good
    <3> QED
      BY <3>1, <3>2
  <2> QED
    BY <2>2, GoodAnswer DEF Answer
<1>6. Typed(captured, Requests) /\ SamePipes(legacy, captured)
      /\ captured.queue = legacy.queue /\ captured.replaying = legacy.replaying
      /\ captured.predecessors = legacy.predecessors
      /\ captured.initializeRequest = r /\ captured.clientInitialized = FALSE
      /\ captured.era = legacy.era
  BY <1>2 DEF Good, Typed, Is, StateFields, Handshakes, SamePipes
<1> HIDE DEF captured
<1>7. ASSUME childReady'
      PROVE  Good(Forward(now, r), up)
  <2>1. Typed(now, Requests) /\ SamePipes(captured, now) /\ now.queue = captured.queue
        /\ now.replaying = captured.replaying /\ now.predecessors = 0
        /\ now.era = captured.era
    BY <1>6 DEF Typed, Is, StateFields, MAX_SUPERVISOR_QUEUE, SamePipes
  <2> HIDE DEF now
  <2>2. Attached(now, childReady', up)
    BY <1>2, <1>6, <2>1 DEF Good, Attached, HandshakeOnly, SamePipes
  <2>3. Good(now, up)
    BY <2>1, <2>2, FrontNone DEF Good
  <2> QED
    BY <1>7, <2>3, GoodForward
<1>8. ASSUME st.era # "modern", ~childReady'
      PROVE  Good(held, up)
  <2>1. count \in 0 .. MAX_SUPERVISOR_QUEUE /\ Len(captured.queue) \in Nat
        /\ (count # 0 => count = Len(captured.queue) /\ st.era = "unselected")
    <3>1. captured.queue = st.queue /\ Len(st.queue) \in Nat /\ Len(st.queue) <= 2
      BY <1>3, <1>6 DEF Good, Typed, MAX_SUPERVISOR_QUEUE
    <3>2. count = IF st.era = "unselected" THEN Len(st.queue) ELSE 0
      OBVIOUS
    <3> HIDE DEF count
    <3>3. count # 0 => count = Len(captured.queue) /\ st.era = "unselected"
      BY <3>1, <3>2
    <3>4. count = 0 \/ count = Len(st.queue)
      BY <3>2
    <3>5. count \in 0 .. MAX_SUPERVISOR_QUEUE
      BY <3>1, <3>4 DEF MAX_SUPERVISOR_QUEUE
    <3>6. Len(captured.queue) \in Nat
      BY <3>1
    <3> QED
      BY <3>3, <3>5, <3>6
  <2>2. count # 0 => \A i \in DOMAIN captured.queue : captured.queue[i].method = "discover"
    BY <1>3, <1>6, <2>1 DEF Eras, Handled, Queued
  <2> HIDE DEF count
  <2>3. /\ Is(held) /\ SameTracking(captured, held) /\ SamePipes(captured, held)
        /\ SameReplies(captured, held)
        /\ held.queue = captured.queue /\ held.replaying = captured.replaying
        /\ held.predecessors = count /\ held.initializeRequest = r
        /\ held.clientInitialized = FALSE /\ held.era = captured.era /\ held.parked = r
    BY <1>6 DEF Typed, Is, StateFields, SameTracking, SamePipes, SameReplies
  <2> HIDE DEF held
  <2>4. Typed(held, Requests)
    BY <1>6, <2>1, <2>3 DEF Typed, Handshakes, SameTracking, SamePipes, SameReplies
  <2>5. st.marked => count = 0
    BY <1>8, <2>1 DEF Good, Attached
  <2>6. Attached(held, childReady', up)
    BY <1>2, <1>3, <1>6, <1>8, <2>3, <2>5 DEF Good, Attached, HandshakeOnly, SamePipes
  <2>7. r # None
    BY SupervisorAssumption DEF SupervisorAssumption
  <2>8. DOMAIN captured.queue = 1 .. Len(captured.queue)
    BY <1>6 DEF Typed
  <2>9. Front(held)
    BY <2>1, <2>2, <2>3, <2>7, <2>8 DEF Front
  <2> QED
    BY <2>4, <2>6, <2>9 DEF Good
<1> QED
  BY <1>1, <1>4, <1>5, <1>7, <1>8

(* and so of every request. *)
LEMMA GoodRoute ==
  ASSUME NEW st, NEW up, Good(st, up), Eras(st), NEW r \in Requests,
         workerGeneration \in Nat, up => child' # NoChild
  PROVE  Good(Route(st, r), up)
<1>1. Good(Answer(st, r), up)
  BY GoodAnswer DEF Answer
<1> QED
  BY <1>1, GoodRouteRequest, GoodRouteInitialize DEF Route

(* Taking a request out of the queue keeps its front when the count follows:
   it goes down by one for a predecessor only. *)
LEMMA FrontWithout ==
  ASSUME NEW st, NEW t, NEW r \in Queued(st), Front(st), Typed(st, Requests),
         t.queue = Without(st.queue, r), t.initializeRequest = st.initializeRequest,
         t.clientInitialized = st.clientInitialized,
         \/ t.predecessors = st.predecessors - 1
         \/ /\ t.predecessors = st.predecessors
            /\ r \notin {st.queue[i] : i \in 1 .. st.predecessors},
         t.predecessors \in Nat
  PROVE  Front(t)
<1>1. st.queue \in Seq(Requests) /\ r \in Entries(st.queue) /\ st.predecessors \in Nat
      /\ Len(st.queue) \in Nat
  BY QueuedEntries DEF Typed
<1>2. Len(t.queue) = Len(st.queue) - 1
  BY <1>1, WithoutQueue
<1>3. PICK index \in 1 .. Len(st.queue) :
        /\ st.queue[index] = r
        /\ \A i \in 1 .. Len(st.queue) - 1 :
             t.queue[i] = st.queue[IF i < index THEN i ELSE i + 1]
  <2> DEFINE q == st.queue
  <2>1. q \in Seq(Requests) /\ r \in Entries(q)
    BY <1>1
  <2>2. t.queue = Without(q, r)
    OBVIOUS
  <2> HIDE DEF q
  <2>3. \E index \in 1 .. Len(q) :
          /\ q[index] = r
          /\ \A i \in 1 .. Len(q) - 1 :
               Without(q, r)[i] = q[IF i < index THEN i ELSE i + 1]
    BY <2>1, WithoutQueue
  <2> QED
    BY <2>2, <2>3 DEF q
<1>4. t.predecessors = st.predecessors => index > st.predecessors
  BY <1>1, <1>3
<1>5. t.predecessors <= Len(t.queue)
  BY <1>1, <1>2, <1>3, <1>4 DEF Front
<1>6. ASSUME NEW i \in 1 .. t.predecessors
      PROVE  t.queue[i].method = "discover"
  <2>1. i \in 1 .. Len(st.queue) - 1 /\ i \in 1 .. st.predecessors
        /\ (i >= index => i + 1 \in 1 .. st.predecessors)
    BY <1>1, <1>2, <1>3, <1>4, <1>5
  <2> QED
    BY <1>3, <2>1 DEF Front
<1> QED
  BY <1>1, <1>5, <1>6 DEF Front

(* The handshake stays right after a cancellation, *)
LEMMA GoodCancel ==
  ASSUME NEW st, NEW up, Good(st, up), NEW r \in Requests, workerGeneration \in Nat
  PROVE  Good(Cancel(st, r), up)
<1>1. ASSUME r \in Queued(st)
      PROVE  Good(Cancel(st, r), up)
  <2> DEFINE prefix == {st.queue[i] : i \in 1 .. st.predecessors}
             u == [Disarm(st, {r}) EXCEPT !.queue = Without(@, r)]
             v == [Disarm(st, {r}) EXCEPT !.queue = Without(@, r),
               !.predecessors = IF r \in prefix THEN @ - 1 ELSE @]
             w == ReleaseBarrier(v, r.id)
  <2>1. Typed(u, Requests) /\ UnqueueEffect(st, u, r)
    BY <1>1, TypedUnqueue, UnqueueFields DEF Good, Typed
  <2>2. v = [u EXCEPT !.predecessors = IF r \in prefix THEN @ - 1 ELSE @]
    BY UnqueueTwice DEF Good, Typed
  <2>3. u.predecessors = st.predecessors /\ st.predecessors \in Nat
    BY <2>1 DEF UnqueueEffect, SameSession, Good, Typed
  <2>4. r \in prefix => st.predecessors > 0
    BY <2>3
  <2>5. Cancel(st, r) = Drain(w)
    BY <1>1 DEF Cancel
  <2>6. /\ r \in prefix => v.predecessors = st.predecessors - 1
        /\ r \notin prefix => v.predecessors = st.predecessors
    BY <2>1, <2>2, <2>3 DEF Typed, Is, StateFields
  <2> HIDE DEF prefix
  <2>7. v.predecessors \in Nat /\ (st.predecessors = 0 => v.predecessors = 0)
    BY <2>3, <2>4, <2>6
  <2> HIDE DEF u, v
  <2>8. Typed(v, Requests)
    BY <2>1, <2>2, <2>3, <2>4, TypedFewer
  <2>9. /\ v.queue = u.queue /\ SamePipes(u, v) /\ v.era = u.era
        /\ v.initializeRequest = u.initializeRequest
        /\ v.clientInitialized = u.clientInitialized /\ v.replaying = u.replaying
    BY <2>1, <2>2 DEF Typed, Is, StateFields, SamePipes
  <2>10. /\ v.queue = Without(st.queue, r) /\ SamePipes(st, v) /\ v.era = st.era
         /\ v.initializeRequest = st.initializeRequest
         /\ v.clientInitialized = st.clientInitialized /\ v.replaying = st.replaying
    BY <2>1, <2>9 DEF UnqueueEffect, SamePipes, SameSession
  <2>11. Front(v)
    BY <1>1, <2>6, <2>7, <2>10, FrontWithout DEF Good, prefix
  <2>13. Attached(v, childReady', up)
    BY <2>7, <2>10 DEF Good, Attached, HandshakeOnly, SamePipes
  <2>14. Good(w, up)
    BY <2>8, <2>11, <2>13, GoodReleaseBarrier DEF Good
  <2> QED
    BY <2>5, <2>14, GoodDrain
<1>2. Good(Drain(Release(st, {r})), up)
  BY GoodRelease, GoodDrain
<1> QED
  BY <1>1, <1>2 DEF Cancel

(* the deadline of a queued validate-project, *)
LEMMA GoodQueuedDeadline ==
  ASSUME NEW st, NEW up, Good(st, up), NEW r \in Queued(st), Validate(r),
         workerGeneration \in Nat
  PROVE  Good(Drain(Answer(ReleaseBarrier(
                [Disarm(st, {r}) EXCEPT !.queue = Without(@, r)], r.id), r)), up)
<1> DEFINE a == [Disarm(st, {r}) EXCEPT !.queue = Without(@, r)]
           b == ReleaseBarrier(a, r.id)
           c == AnswerAll(b, {r})
<1>1. UnqueueEffect(st, a, r) /\ Typed(a, Requests)
  BY UnqueueFields, TypedUnqueue DEF Good, Typed
<1> HIDE DEF a
<1>2. \A i \in 1 .. st.predecessors : st.queue[i] # r
  BY DEF Good, Front, Validate
<1>3. a.predecessors = st.predecessors /\ st.predecessors \in Nat
  BY <1>1 DEF UnqueueEffect, SameSession, Good, Typed
<1>4. Front(a)
  BY <1>1, <1>2, <1>3, FrontWithout DEF UnqueueEffect, SameSession, Good
<1>5. Good(a, up)
  BY <1>1, <1>4, AttachedSame DEF Good, UnqueueEffect
<1>6. Good(b, up)
  BY <1>5, GoodReleaseBarrier
<1> HIDE DEF b
<1>7. Good(c, up)
  BY <1>6, GoodAnswer
<1> HIDE DEF c
<1>8. Good(Drain(c), up)
  BY <1>7, GoodDrain
<1> QED
  BY <1>8 DEF c, b, a, Answer

(* an answer of the worker, *)
LEMMA GoodDeliver ==
  ASSUME NEW st, NEW up, Good(st, up), NEW r, workerGeneration \in Nat
  PROVE  Good(Deliver(st, r), up)
<1> DEFINE owners == {q \in st.pending : q.id = r.id}
           ends == \E q \in owners : Validate(q)
           a == Disarm(st, owners)
           settled == [Disarm(st, owners) EXCEPT !.pending = @ \ owners,
             !.running = IF ends THEN None ELSE @,
             !.barrier = IF @ = r.id /\ ends THEN None ELSE @]
           told == IF owners = {} THEN {r} ELSE owners
           t == AnswerAll(settled, told)
<1>1. Deliver(st, r) \in {st, Drain(t)}
  BY DEF Deliver
<1>2. settled = [a EXCEPT !.pending = @ \ owners,
             !.running = IF ends THEN None ELSE @,
             !.barrier = IF @ = r.id /\ ends THEN None ELSE @]
  OBVIOUS
<1> HIDE DEF settled, owners, ends, told
<1>3. DisarmEffect(st, a, owners) /\ Typed(a, Requests)
  BY DisarmFields, TypedDisarm DEF Good, Typed
<1> HIDE DEF a
<1>4. /\ Typed(settled, Requests) /\ settled.queue = st.queue
      /\ SameSession(st, settled) /\ SamePipes(st, settled)
  BY <1>2, <1>3 DEF DisarmEffect, SamePipes, SameSession, Typed, Is, StateFields
<1>5. Good(settled, up)
  BY <1>4, GoodSame
<1>6. Good(t, up)
  BY <1>5, GoodAnswer
<1> HIDE DEF t
<1> QED
  BY <1>1, <1>6, GoodDrain

(* flushQueue after an adoption, *)
LEMMA GoodFlush ==
  ASSUME NEW st, NEW up, Good(st, up), childReady' = TRUE, workerGeneration \in Nat
  PROVE  Good(FlushQueue(st), up)
BY AttachedFlush, TypedFlush DEF Good

(* and the result of initialize. *)
LEMMA GoodFinish ==
  ASSUME NEW st, NEW up, Good(st, up), childReady' = TRUE, workerGeneration \in Nat
  PROVE  Good(FinishHandshake(st), up)
<1> DEFINE done == [st EXCEPT !.pending = {q \in @ : ~Retained(st, q)}]
           replayed == [done EXCEPT !.replaying = FALSE, !.told = st.initialized]
           first == [done EXCEPT !.clientInitialized = TRUE]
           answered == AnswerAll(first, {st.initializeRequest})
<1>1. FinishHandshake(st) \in {FlushQueue(replayed), FlushQueue(answered)}
  BY DEF FinishHandshake, Answer
<1>2. st.marked /\ st.predecessors = 0
  BY DEF Good, Attached
<1>3. /\ Typed(done, Requests) /\ done.marked = st.marked /\ done.era = st.era
      /\ done.predecessors = st.predecessors
  BY DEF Good, Typed, Is, StateFields
<1> HIDE DEF done
<1>4. /\ Typed(replayed, Requests) /\ Typed(first, Requests)
      /\ replayed.marked = done.marked /\ first.marked = done.marked
      /\ replayed.predecessors = done.predecessors
      /\ first.predecessors = done.predecessors
  BY <1>3 DEF Typed, Is, StateFields
<1> HIDE DEF replayed, first
<1>5. Good(replayed, up) /\ Good(first, up)
  BY <1>2, <1>3, <1>4, FrontNone DEF Good, Attached
<1>6. Good(answered, up)
  BY <1>5, GoodAnswer
<1> HIDE DEF answered
<1> QED
  BY <1>1, <1>5, <1>6, GoodFlush

(* The request state once the current worker is gone. *)
Gone(st) ==
  /\ Front(st) /\ Typed(st, Requests)
  /\ ~st.marked /\ st.held = {} /\ st.stdin = "fresh"
  /\ ~st.told /\ ~st.replaying /\ ~st.initializeSent

(* A worker that is gone has nothing. *)
LEMMA GoneGood ==
  ASSUME NEW st, Gone(st), NEW up, ~childReady'
  PROVE  Good(st, up)
BY DEF Gone, Good, Attached, HandshakeOnly

(* The loss of the worker leaves nothing of it, *)
LEMMA GoneLose ==
  ASSUME NEW st, Front(st), Typed(st, Requests)
  PROVE  Gone(LoseWorker(st))
<1> DEFINE t == LoseWorker(st)
<1>1. Typed(t, Requests) /\ LoseEffect(st, t)
  BY TypedLose, LoseFields DEF Typed
<1> HIDE DEF t
<1>2. Gone(t)
  BY <1>1 DEF Gone, LoseEffect, SameTracking, Front
<1> QED
  BY <1>2 DEF t

(* failing the requests that wait brings nothing back, *)
LEMMA GoneFailQueued ==
  ASSUME NEW st, Gone(st)
  PROVE  Gone(FailQueued(st))
<1> DEFINE t == FailQueued(st)
<1>1. Typed(t, Requests) /\ FailQueuedEffect(st, t)
  BY TypedFailQueued, FailQueuedFields DEF Typed, Gone
<1> HIDE DEF t
<1>2. t.predecessors = 0
  <2>1. st.clientInitialized => st.predecessors = 0 /\ t.predecessors = st.predecessors
    BY <1>1 DEF Gone, Front, FailQueuedEffect, Typed
  <2> QED
    BY <1>1, <2>1 DEF FailQueuedEffect
<1>3. Front(t)
  BY <1>1, <1>2, FrontNone
<1>4. ~t.replaying /\ ~t.initializeSent
  BY <1>1 DEF Gone, FailQueuedEffect
<1>5. Gone(t)
  BY <1>1, <1>3, <1>4 DEF Gone, FailQueuedEffect
<1> QED
  BY <1>5 DEF t

(* nor does failing those that were forwarded, *)
LEMMA GoneFailPending ==
  ASSUME NEW st, Gone(st), workerGeneration \in Nat
  PROVE  Gone(FailPending(st))
<1> DEFINE lost == {r \in st.pending : ~Retained(st, r)}
           u == Release(st, lost)
           t == AnswerAll(u, lost)
<1>1. FailPending(st) = t
  BY DEF FailPending
<1> HIDE DEF lost
<1>2. Typed(u, Requests) /\ ReleaseEffect(st, u, lost)
  BY TypedRelease, ReleaseFields DEF Typed, Gone
<1> HIDE DEF u
<1>3. Typed(t, Requests) /\ AnswerEffect(u, t, lost)
  BY <1>2, TypedAnswer, AnswerFields DEF Typed
<1> HIDE DEF t
<1>4. SameSession(st, u) /\ SameSession(u, t) /\ t.queue = u.queue /\ u.queue = st.queue
      /\ SamePipes(st, u) /\ SamePipes(u, t)
  BY <1>2, <1>3 DEF ReleaseEffect, AnswerEffect, SameTracking
<1>5. Front(u)
  BY <1>4, FrontSame DEF Gone
<1>6. Front(t)
  BY <1>4, <1>5, FrontSame
<1> QED
  BY <1>1, <1>3, <1>4, <1>6 DEF Gone, SamePipes, SameSession

(* so that after a loss nothing is known of the next worker. *)
LEMMA GoneAfterLoss ==
  ASSUME NEW st, Front(st), Typed(st, Requests), workerGeneration \in Nat
  PROVE  Gone(AfterLoss(st))
BY GoneLose, GoneFailPending, GoneFailQueued DEF AfterLoss

(* An initialize answered with an error leaves the front of the queue. *)
LEMMA FrontReject ==
  ASSUME NEW st, Front(st), Typed(st, Requests)
  PROVE  Front(RejectHandshake(st))
<1> DEFINE done == [st EXCEPT !.pending = {q \in @ : ~Retained(st, q)}]
           unparked == [done EXCEPT
            !.parked = IF @ # None /\ Retained(st, @) THEN None ELSE @]
           t == AnswerAll(unparked, {st.initializeRequest})
<1>1. RejectHandshake(st) \in {done, t}
  BY DEF RejectHandshake, Answer
<1>2. Is(done) /\ Front(done)
  BY DEF Typed, Is, StateFields, Front
<1> HIDE DEF done
<1>3. Is(unparked) /\ Front(unparked)
  BY <1>2 DEF Is, StateFields, Front
<1> HIDE DEF unparked
<1>4. AnswerEffect(unparked, t, {st.initializeRequest})
  BY <1>3, AnswerFields
<1> HIDE DEF t
<1>5. Front(t)
  BY <1>3, <1>4, FrontSame DEF AnswerEffect, SameTracking
<1> QED
  BY <1>1, <1>2, <1>5

-----------------------------------------------------------------------------
(* Nothing of it is left out of a replay. *)

(* From st to t the session and the worker stay the same; its stdin may have
   been written to, but a destroyed one stays so; only validate-projects have
   been armed. *)
Follows(st, t) ==
  /\ t.era = st.era /\ t.initializeRequest = st.initializeRequest
  /\ t.clientInitialized = st.clientInitialized
  /\ t.replaying = st.replaying /\ t.initialized = st.initialized
  /\ t.marked = st.marked /\ t.told = st.told
  /\ st.stdin = "destroyed" => t.stdin = "destroyed"
  /\ \A q \in t.armed : q \in st.armed \/ Validate(q)

(* What follows twice follows. *)
LEMMA FollowsTwice ==
  ASSUME NEW st, NEW t, NEW u, Follows(st, t), Follows(t, u)
  PROVE  Follows(st, u)
BY DEF Follows

(* What leaves the session and the worker alone follows. *)
LEMMA FollowsSame ==
  ASSUME NEW st, NEW t, SameSession(st, t), SamePipes(st, t), t.armed \subseteq st.armed
  PROVE  Follows(st, t)
BY DEF Follows, SameSession, SamePipes

(* So do responses, the end of requests, giving back a barrier and clearing
   timers, *)
LEMMA FollowsSmall ==
  ASSUME NEW st, Is(st), NEW R, NEW id
  PROVE  /\ Follows(st, st)
         /\ Follows(st, AnswerAll(st, R)) /\ Follows(st, Release(st, R))
         /\ Follows(st, ReleaseBarrier(st, id)) /\ Follows(st, Disarm(st, R))
<1>1. Follows(st, st)
  BY DEF Follows
<1>2. AnswerEffect(st, AnswerAll(st, R), R) /\ ReleaseEffect(st, Release(st, R), R)
  BY AnswerFields, ReleaseFields
<1>3. BarrierEffect(st, ReleaseBarrier(st, id), id) /\ DisarmEffect(st, Disarm(st, R), R)
  BY ReleaseBarrierFields, DisarmFields
<1>4. Follows(st, AnswerAll(st, R))
  <2> DEFINE t == AnswerAll(st, R)
  <2> HIDE DEF t
  <2>1. AnswerEffect(st, t, R)
    BY <1>2 DEF t
  <2> QED
    BY <2>1, FollowsSame DEF AnswerEffect, SameTracking, t
<1>5. Follows(st, Release(st, R))
  <2> DEFINE t == Release(st, R)
  <2> HIDE DEF t
  <2>1. ReleaseEffect(st, t, R)
    BY <1>2 DEF t
  <2> QED
    BY <2>1, FollowsSame DEF ReleaseEffect, t
<1>6. Follows(st, ReleaseBarrier(st, id))
  <2> DEFINE t == ReleaseBarrier(st, id)
  <2> HIDE DEF t
  <2>1. BarrierEffect(st, t, id)
    BY <1>3 DEF t
  <2> QED
    BY <2>1, FollowsSame DEF BarrierEffect, t
<1>7. Follows(st, Disarm(st, R))
  <2> DEFINE t == Disarm(st, R)
  <2> HIDE DEF t
  <2>1. DisarmEffect(st, t, R)
    BY <1>3 DEF t
  <2> QED
    BY <2>1, FollowsSame DEF DisarmEffect, t
<1> QED
  BY <1>1, <1>4, <1>5, <1>6, <1>7

(* forwardRequest, *)
LEMMA FollowsForward ==
  ASSUME NEW st, Is(st), NEW r
  PROVE  Follows(st, Forward(st, r))
<1> DEFINE t == Forward(st, r)
<1>1. /\ ~Writable(st) /\ Len(st.queue) < MAX_SUPERVISOR_QUEUE => QueueEffect(st, t, r)
      /\ ~Writable(st) /\ ~(Len(st.queue) < MAX_SUPERVISOR_QUEUE) => RefuseEffect(st, t, r)
      /\ Writable(st) /\ r \notin Unwritable => WriteEffect(st, t, r)
      /\ Writable(st) /\ r \in Unwritable => UnwriteEffect(st, t, r)
  BY ForwardQueues, ForwardRefuses, ForwardWrites, ForwardUnwritten
<1> HIDE DEF t
<1>2. CASE ~Writable(st)
  BY <1>1, <1>2, FollowsSame DEF QueueEffect, RefuseEffect, t
<1>3. CASE Writable(st)
  <2>1. st.stdin # "destroyed"
    BY <1>3 DEF Writable
  <2> QED
    BY <1>1, <1>3, <2>1 DEF WriteEffect, UnwriteEffect, Written, Follows, t
<1> QED
  BY <1>2, <1>3

(* drainQueue, *)
LEMMA FollowsDrain ==
  ASSUME NEW st, Typed(st, Requests), workerGeneration \in Nat
  PROVE  Follows(st, Drain(st))
<1>1. ASSUME NEW u, Typed(u, Requests)
      PROVE  Follows(u, DrainStep(u)) /\ Typed(DrainStep(u), Requests)
  <2>1. Is(u)
    BY <1>1 DEF Typed
  <2>2. CASE ~childReady' \/ ~Writable(u) \/ u.queue = << >> \/ u.running # None
    BY <1>1, <2>1, <2>2, FollowsSmall DEF DrainStep
  <2>3. CASE u.queue # << >>
    <3> DEFINE next == Head(u.queue)
               taken == [u EXCEPT !.queue = Tail(@)]
               raised == [u EXCEPT !.barrier = next.id]
    <3>1. DrainStep(u) \in {u, Forward(taken, next), raised}
      BY DEF DrainStep
    <3>2. Typed(taken, Requests) /\ next \in Requests
      BY <1>1, <2>3, TypedTake
    <3>3. TakeEffect(u, taken) /\ RaiseEffect(u, raised, next.id)
      BY <2>1, TakeFields, RaiseFields
    <3>4. next.id \in Ids
      BY <3>2 DEF Ids
    <3> HIDE DEF next, taken, raised
    <3>5. Follows(u, taken) /\ Follows(u, raised) /\ Is(taken) /\ Follows(u, u)
      BY <2>1, <3>3, FollowsSame, FollowsSmall DEF TakeEffect, RaiseEffect
    <3>6. Follows(taken, Forward(taken, next))
      BY <3>5, FollowsForward
    <3>7. Follows(u, Forward(taken, next))
      BY <3>5, <3>6, FollowsTwice
    <3>8. Typed(Forward(taken, next), Requests)
      BY <3>2, TypedForward
    <3>9. Typed(raised, Requests)
      BY <1>1, <3>3, <3>4 DEF Typed, RaiseEffect, SameSession, SamePipes, SameReplies
    <3> QED
      BY <1>1, <3>1, <3>5, <3>7, <3>8, <3>9
  <2> QED
    BY <2>2, <2>3
<1>2. Follows(st, DrainStep(st)) /\ Typed(DrainStep(st), Requests)
  BY <1>1
<1>3. Follows(DrainStep(st), DrainStep(DrainStep(st)))
  BY <1>1, <1>2
<1> QED
  BY <1>2, <1>3, FollowsTwice DEF Drain

(* flushQueue, *)
LEMMA FollowsFlush ==
  ASSUME NEW st, Typed(st, Requests), workerGeneration \in Nat
  PROVE  Follows(st, FlushQueue(st))
<1> DEFINE flushed == [st EXCEPT !.parked = None]
<1>1. Typed(flushed, Requests) /\ Follows(st, flushed)
  BY DEF Typed, Is, StateFields, Handshakes, Follows
<1>2. st.parked = None \/ st.parked \in Requests
  BY DEF Typed, Handshakes
<1>3. \/ FlushQueue(st) = Drain(flushed)
      \/ st.parked # None /\ FlushQueue(st) = Drain(Forward(flushed, st.parked))
  BY DEF FlushQueue
<1> HIDE DEF flushed
<1>4. Follows(st, Drain(flushed))
  BY <1>1, FollowsDrain, FollowsTwice
<1>5. ASSUME st.parked # None
      PROVE  Follows(st, Drain(Forward(flushed, st.parked)))
  <2> DEFINE x == Forward(flushed, st.parked)
  <2>1. Typed(x, Requests)
    BY <1>1, <1>2, <1>5, TypedForward
  <2>2. Follows(flushed, x)
    BY <1>1, FollowsForward DEF Typed
  <2> HIDE DEF x
  <2>3. Follows(x, Drain(x))
    BY <2>1, FollowsDrain
  <2>4. Follows(st, x)
    BY <1>1, <2>2, FollowsTwice
  <2>5. Follows(st, Drain(x))
    BY <2>3, <2>4, FollowsTwice
  <2> QED
    BY <2>5 DEF x
<1> QED
  BY <1>3, <1>4, <1>5

(* forwarding a predecessor of the handshake, *)
LEMMA FollowsPredecessor ==
  ASSUME NEW st, Typed(st, Requests), workerGeneration \in Nat
  PROVE  Follows(st, ForwardPredecessor(st))
<1>1. ASSUME st.predecessors # 0, st.queue # << >>
      PROVE  Follows(st, ForwardPredecessor(st))
  <2> DEFINE v == [st EXCEPT !.queue = Tail(@), !.predecessors = @ - 1]
  <2>1. Is(v) /\ Follows(st, v)
    BY DEF Typed, Is, StateFields, Follows
  <2>2. ForwardPredecessor(st) = Forward(v, Head(st.queue))
    BY <1>1 DEF ForwardPredecessor
  <2> HIDE DEF v
  <2>3. Follows(v, Forward(v, Head(st.queue)))
    BY <2>1, FollowsForward
  <2> QED
    BY <2>1, <2>2, <2>3, FollowsTwice
<1>2. Follows(st, st)
  BY FollowsSmall DEF Typed
<1> QED
  BY <1>1, <1>2 DEF ForwardPredecessor

(* a cancellation, *)
LEMMA FollowsCancel ==
  ASSUME NEW st, Typed(st, Requests), NEW r \in Requests, workerGeneration \in Nat
  PROVE  Follows(st, Cancel(st, r))
<1>0. Is(st)
  BY DEF Typed
<1>1. ASSUME r \in Queued(st)
      PROVE  Follows(st, Cancel(st, r))
  <2> DEFINE prefix == {st.queue[i] : i \in 1 .. st.predecessors}
             u == [Disarm(st, {r}) EXCEPT !.queue = Without(@, r)]
             v == [Disarm(st, {r}) EXCEPT !.queue = Without(@, r),
               !.predecessors = IF r \in prefix THEN @ - 1 ELSE @]
             w == ReleaseBarrier(v, r.id)
  <2>1. Typed(u, Requests) /\ UnqueueEffect(st, u, r)
    BY <1>1, TypedUnqueue, UnqueueFields DEF Typed
  <2>2. v = [u EXCEPT !.predecessors = IF r \in prefix THEN @ - 1 ELSE @]
    BY <1>0, UnqueueTwice
  <2>3. u.predecessors = st.predecessors /\ st.predecessors \in Nat
        /\ st.predecessors <= MAX_SUPERVISOR_QUEUE
    BY <2>1 DEF UnqueueEffect, SameSession, Typed
  <2>4. r \in prefix => st.predecessors > 0
    BY <2>3
  <2>5. Cancel(st, r) = Drain(w)
    BY <1>1 DEF Cancel
  <2> HIDE DEF u, v, prefix
  <2>6. Typed(v, Requests)
    BY <2>1, <2>2, <2>3, <2>4, TypedFewer
  <2>7. Follows(u, v)
    BY <2>1, <2>2 DEF Typed, Is, StateFields, Follows
  <2>8. Follows(st, u)
    BY <2>1, FollowsSame DEF UnqueueEffect
  <2>9. Typed(w, Requests)
    BY <2>6, TypedReleaseBarrier
  <2>10. Follows(v, w)
    BY <2>6, FollowsSmall DEF Typed
  <2> HIDE DEF w
  <2>11. Follows(w, Drain(w))
    BY <2>9, FollowsDrain
  <2>12. Follows(st, w)
    BY <2>7, <2>8, <2>10, FollowsTwice
  <2> QED
    BY <2>5, <2>11, <2>12, FollowsTwice
<1>2. Follows(st, Drain(Release(st, {r})))
  <2> DEFINE x == Release(st, {r})
  <2>1. Typed(x, Requests)
    BY TypedRelease
  <2>2. Follows(st, x)
    BY <1>0, FollowsSmall
  <2> HIDE DEF x
  <2>3. Follows(x, Drain(x))
    BY <2>1, FollowsDrain
  <2>4. Follows(st, Drain(x))
    BY <2>2, <2>3, FollowsTwice
  <2> QED
    BY <2>4 DEF x
<1>3. Follows(st, st)
  BY <1>0, FollowsSmall
<1> QED
  BY <1>1, <1>2, <1>3 DEF Cancel

(* the deadline of a queued validate-project, *)
LEMMA FollowsQueuedDeadline ==
  ASSUME NEW st, Typed(st, Requests), NEW r \in Queued(st), workerGeneration \in Nat
  PROVE  Follows(st, Drain(Answer(ReleaseBarrier(
                [Disarm(st, {r}) EXCEPT !.queue = Without(@, r)], r.id), r)))
<1> DEFINE a == [Disarm(st, {r}) EXCEPT !.queue = Without(@, r)]
           b == ReleaseBarrier(a, r.id)
           c == AnswerAll(b, {r})
<1>1. UnqueueEffect(st, a, r) /\ Typed(a, Requests)
  BY UnqueueFields, TypedUnqueue DEF Typed
<1> HIDE DEF a
<1>2. Follows(st, a) /\ Is(a)
  BY <1>1, FollowsSame DEF UnqueueEffect
<1>3. Follows(a, b)
  BY <1>2, FollowsSmall
<1>4. Typed(b, Requests)
  BY <1>1, TypedReleaseBarrier
<1> HIDE DEF b
<1>5. Follows(b, c)
  BY <1>4, FollowsSmall DEF Typed
<1>6. Typed(c, Requests)
  BY <1>4, TypedAnswer
<1> HIDE DEF c
<1>7. Follows(c, Drain(c))
  BY <1>6, FollowsDrain
<1>8. Follows(st, b)
  BY <1>2, <1>3, FollowsTwice
<1>9. Follows(st, c)
  BY <1>5, <1>8, FollowsTwice
<1>10. Follows(st, Drain(c))
  BY <1>7, <1>9, FollowsTwice
<1> QED
  BY <1>10 DEF c, b, a, Answer

(* and an answer of the worker. *)
LEMMA FollowsDeliver ==
  ASSUME NEW st, Typed(st, Requests), NEW r, workerGeneration \in Nat
  PROVE  Follows(st, Deliver(st, r))
<1> DEFINE owners == {q \in st.pending : q.id = r.id}
           ends == \E q \in owners : Validate(q)
           a == Disarm(st, owners)
           settled == [Disarm(st, owners) EXCEPT !.pending = @ \ owners,
             !.running = IF ends THEN None ELSE @,
             !.barrier = IF @ = r.id /\ ends THEN None ELSE @]
           told == IF owners = {} THEN {r} ELSE owners
           t == AnswerAll(settled, told)
<1>1. Deliver(st, r) \in {st, Drain(t)}
  BY DEF Deliver
<1>2. settled = [a EXCEPT !.pending = @ \ owners,
             !.running = IF ends THEN None ELSE @,
             !.barrier = IF @ = r.id /\ ends THEN None ELSE @]
  OBVIOUS
<1> HIDE DEF settled, owners, ends, told
<1>3. DisarmEffect(st, a, owners) /\ Typed(a, Requests)
  BY DisarmFields, TypedDisarm DEF Typed
<1> HIDE DEF a
<1>4. /\ Typed(settled, Requests) /\ settled.armed = a.armed
      /\ SameSession(st, settled) /\ SamePipes(st, settled)
  BY <1>2, <1>3 DEF DisarmEffect, SamePipes, SameSession, Typed, Is, StateFields
<1>5. Follows(st, settled)
  BY <1>3, <1>4, FollowsSame DEF DisarmEffect
<1>6. Follows(settled, t)
  BY <1>4, FollowsSmall DEF Typed
<1>7. Typed(t, Requests)
  BY <1>4, TypedAnswer
<1> HIDE DEF t
<1>8. Follows(t, Drain(t))
  BY <1>7, FollowsDrain
<1>9. Follows(st, t)
  BY <1>5, <1>6, FollowsTwice
<1>10. Follows(st, Drain(t))
  BY <1>8, <1>9, FollowsTwice
<1>11. Follows(st, st)
  BY FollowsSmall DEF Typed
<1> QED
  BY <1>1, <1>10, <1>11

(* Only validate-projects have deadlines; and while the client does not
   initialize again: notifications/initialized is kept only in a finished
   handshake, a replacement that gets the handshake of a finished session is
   being replayed to, and an adopted worker has been told. *)
Replays(st, ready) ==
  /\ \A q \in st.armed : Validate(q)
  /\ ~Reinitializes =>
       /\ st.initialized =>
            st.clientInitialized /\ st.era = "legacy" /\ st.initializeRequest # None
       /\ st.marked /\ ~ready /\ st.clientInitialized => st.replaying
       /\ ready /\ st.initialized /\ st.stdin # "destroyed" => st.told

(* What leaves the session and the worker alone keeps this. *)
LEMMA ReplaysFollow ==
  ASSUME NEW st, NEW t, NEW ready, Replays(st, ready), Follows(st, t)
  PROVE  Replays(t, ready)
BY DEF Replays, Follows

(* So does the admission of a request, *)
LEMMA ReplaysRouteRequest ==
  ASSUME NEW st, NEW ready, Replays(st, ready), Eras(st), Typed(st, Requests),
         NEW r \in Requests, workerGeneration \in Nat
  PROVE  Replays(RouteRequest(st, r), ready)
<1> DEFINE u == LockEra(st, r)
           v == Install(u, r)
           queued == [v EXCEPT !.queue = Append(@, r)]
<1>1. Typed(u, Requests) /\ LockEffect(st, u, r)
  BY TypedLock, LockFields DEF Typed
<1>2. RouteRequest(st, r) \in {Answer(u, r), Drain(Answer(u, r)), Admit(v, r), queued}
  BY DEF RouteRequest
<1> HIDE DEF u
<1>3. Replays(u, ready)
  <2>1. CASE u = st
    BY <2>1
  <2>2. CASE u # st
    <3>1. ~u.initialized /\ ~u.clientInitialized /\ u.armed = st.armed
      BY <1>1, <2>2 DEF LockEffect, SameTracking
    <3> QED
      BY <3>1 DEF Replays
  <2> QED
    BY <2>1, <2>2
<1>4. Typed(v, Requests) /\ InstallEffect(u, v, r)
  <2>1. Typed(v, Requests)
    BY <1>1, TypedInstall
  <2>2. Is(u)
    BY <1>1 DEF Typed
  <2> QED
    BY <2>1, <2>2, InstallFields
<1> HIDE DEF v
<1>5. Follows(u, v)
  <2>1. \A q \in v.armed : q \in u.armed \/ Validate(q)
    BY <1>4 DEF InstallEffect
  <2> QED
    BY <1>4, <2>1 DEF InstallEffect, SameSession, SamePipes, Follows
<1>6. Replays(v, ready)
  BY <1>3, <1>5, ReplaysFollow
<1>7. Typed(Answer(u, r), Requests) /\ Follows(u, Answer(u, r))
  <2>1. Typed(Answer(u, r), Requests)
    BY <1>1, TypedAnswer DEF Answer
  <2>2. Is(u)
    BY <1>1 DEF Typed
  <2> QED
    BY <2>1, <2>2, FollowsSmall DEF Answer
<1>8. Follows(Answer(u, r), Drain(Answer(u, r)))
  BY <1>7, FollowsDrain
<1>9. Replays(Answer(u, r), ready)
  BY <1>3, <1>7, ReplaysFollow
<1>10. Replays(Drain(Answer(u, r)), ready)
  BY <1>8, <1>9, ReplaysFollow
<1>11. Replays(Admit(v, r), ready)
  <2> DEFINE x == Forward(v, r)
  <2>1. Typed(x, Requests)
    BY <1>4, TypedForward
  <2>2. Follows(v, x)
    BY <1>4, FollowsForward DEF Typed
  <2>3. Admit(v, r) \in {x, Drain(x)}
    BY DEF Admit
  <2> HIDE DEF x
  <2>4. Follows(x, Drain(x))
    BY <2>1, FollowsDrain
  <2>5. Replays(x, ready)
    BY <1>6, <2>2, ReplaysFollow
  <2>6. Replays(Drain(x), ready)
    BY <2>4, <2>5, ReplaysFollow
  <2> QED
    BY <2>3, <2>5, <2>6
<1>12. Replays(queued, ready)
  <2>1. QueueEffect(v, queued, r)
    BY <1>4, EnqueueFields DEF Typed
  <2> HIDE DEF queued
  <2>2. Follows(v, queued)
    BY <2>1, FollowsSame DEF QueueEffect
  <2> QED
    BY <1>6, <2>2, ReplaysFollow
<1> QED
  BY <1>2, <1>9, <1>10, <1>11, <1>12

(* of an initialize, *)
LEMMA ReplaysRouteInitialize ==
  ASSUME NEW st, Replays(st, childReady'), Typed(st, Requests), NEW r \in Requests, Initialize(r),
         ~st.clientInitialized \/ Reinitializes, workerGeneration \in Nat
  PROVE  Replays(RouteInitialize(st, r), childReady')
<1> DEFINE legacy == [st EXCEPT !.era = "legacy"]
           captured == [legacy EXCEPT !.initializeRequest = r, !.clientInitialized = FALSE]
           now == [captured EXCEPT !.predecessors = 0]
           cleared == ClearHandshake(legacy)
           count == IF st.era = "unselected" THEN Len(st.queue) ELSE 0
           held == [captured EXCEPT !.parked = r, !.predecessors = count]
<1>1. RouteInitialize(st, r) \in {Answer(st, r), Answer(cleared, r), Forward(now, r), held}
  BY DEF RouteInitialize
<1>2. /\ Is(legacy) /\ legacy.initialized = st.initialized /\ legacy.armed = st.armed
      /\ legacy.clientInitialized = st.clientInitialized /\ legacy.era = "legacy"
      /\ legacy.initializeRequest = st.initializeRequest /\ SamePipes(st, legacy)
      /\ legacy.replaying = st.replaying
  BY DEF Typed, Is, StateFields, SamePipes
<1> HIDE DEF legacy
<1>3. Replays(legacy, childReady')
  BY <1>2 DEF Replays, SamePipes
<1>4. Replays(Answer(st, r), childReady')
  BY ReplaysFollow, FollowsSmall DEF Answer, Typed
<1>5. Replays(Answer(cleared, r), childReady')
  <2>1. ClearEffect(legacy, cleared)
    BY <1>2, ClearFields
  <2> HIDE DEF cleared
  <2>2. Replays(cleared, childReady')
    <3>1. CASE cleared = legacy
      BY <1>3, <3>1
    <3>2. CASE cleared # legacy
      <4>1. ~cleared.initialized /\ ~cleared.clientInitialized /\ cleared.armed = legacy.armed
        BY <2>1, <3>2 DEF ClearEffect
      <4> QED
        BY <1>3, <4>1 DEF Replays
    <3> QED
      BY <3>1, <3>2
  <2>3. Is(cleared)
    BY <2>1 DEF ClearEffect
  <2> QED
    BY <2>2, <2>3, ReplaysFollow, FollowsSmall DEF Answer
<1>6. /\ Is(captured) /\ captured.initialized = st.initialized
      /\ ~captured.clientInitialized /\ captured.armed = st.armed
  BY <1>2 DEF Is, StateFields
<1> HIDE DEF captured
<1>7. ~Reinitializes => ~st.initialized
  BY DEF Replays
<1>8. /\ Is(now) /\ now.initialized = st.initialized
      /\ ~now.clientInitialized /\ now.armed = st.armed
      /\ held.initialized = st.initialized
      /\ ~held.clientInitialized /\ held.armed = st.armed
  BY <1>6 DEF Is, StateFields
<1> HIDE DEF now, held
<1>9. Replays(now, childReady') /\ Replays(held, childReady')
  BY <1>7, <1>8 DEF Replays
<1>10. Replays(Forward(now, r), childReady')
  BY <1>8, <1>9, FollowsForward, ReplaysFollow
<1> QED
  BY <1>1, <1>4, <1>5, <1>9, <1>10

(* and so of every request, *)
LEMMA ReplaysRoute ==
  ASSUME NEW st, Replays(st, childReady'), Eras(st), Typed(st, Requests), NEW r \in Requests,
         Initialize(r) => ~st.clientInitialized \/ Reinitializes, workerGeneration \in Nat
  PROVE  Replays(Route(st, r), childReady')
<1>1. Replays(Answer(st, r), childReady')
  BY ReplaysFollow, FollowsSmall DEF Answer, Typed
<1> QED
  BY <1>1, ReplaysRouteRequest, ReplaysRouteInitialize DEF Route

(* the handshake, which is a replay in a finished session, *)
LEMMA ReplaysSendHandshake ==
  ASSUME NEW st, Typed(st, Requests), workerGeneration \in Nat,
         \A q \in st.armed : Validate(q),
         ~Reinitializes /\ st.initialized =>
           st.clientInitialized /\ st.era = "legacy" /\ st.initializeRequest # None
  PROVE  Replays(SendHandshake(st), FALSE)
<1> DEFINE first == ForwardPredecessor(st)
           released == ForwardPredecessor(first)
           opened == [released EXCEPT !.predecessors = 0, !.replaying = st.clientInitialized]
<1>1. Typed(first, Requests) /\ Follows(st, first)
  BY TypedPredecessor, FollowsPredecessor
<1>2. SendHandshake(st) = Forward(opened, st.initializeRequest)
  BY DEF SendHandshake
<1> HIDE DEF first
<1>3. Typed(released, Requests) /\ Follows(first, released)
  BY <1>1, TypedPredecessor, FollowsPredecessor
<1> HIDE DEF released
<1>4. Follows(st, released)
  BY <1>1, <1>3, FollowsTwice
<1>5. /\ Is(opened) /\ opened.initialized = released.initialized
      /\ opened.clientInitialized = released.clientInitialized
      /\ opened.era = released.era /\ opened.initializeRequest = released.initializeRequest
      /\ opened.replaying = st.clientInitialized /\ opened.armed = released.armed
  BY <1>3 DEF Typed, Is, StateFields
<1> HIDE DEF opened
<1>6. Replays(opened, FALSE)
  BY <1>4, <1>5 DEF Replays, Follows
<1> QED
  BY <1>2, <1>5, <1>6, FollowsForward, ReplaysFollow

(* its result: a replay tells the worker notifications/initialized, *)
LEMMA ReplaysFinish ==
  ASSUME NEW st, NEW ready, Replays(st, ready), Typed(st, Requests), st.marked,
         workerGeneration \in Nat
  PROVE  Replays(FinishHandshake(st), TRUE)
<1> DEFINE done == [st EXCEPT !.pending = {q \in @ : ~Retained(st, q)}]
           replayed == [done EXCEPT !.replaying = FALSE, !.told = st.initialized]
           first == [done EXCEPT !.clientInitialized = TRUE]
           answered == AnswerAll(first, {st.initializeRequest})
<1>1. \/ FinishHandshake(st) = FlushQueue(replayed)
      \/ ~st.replaying /\ FinishHandshake(st) = FlushQueue(answered)
  BY DEF FinishHandshake, Answer
<1>2. Typed(done, Requests) /\ Follows(st, done) /\ done.stdin = st.stdin
  BY DEF Typed, Is, StateFields, Follows
<1> HIDE DEF done
<1>3. /\ Typed(replayed, Requests) /\ Typed(first, Requests)
      /\ replayed.told = st.initialized /\ replayed.initialized = done.initialized
      /\ replayed.clientInitialized = done.clientInitialized
      /\ replayed.era = done.era /\ replayed.initializeRequest = done.initializeRequest
      /\ replayed.armed = done.armed
      /\ first.told = done.told /\ first.initialized = done.initialized
      /\ first.clientInitialized = TRUE /\ first.stdin = done.stdin
      /\ first.era = done.era /\ first.initializeRequest = done.initializeRequest
      /\ first.armed = done.armed
  BY <1>2 DEF Typed, Is, StateFields
<1> HIDE DEF replayed, first
<1>4. Replays(replayed, TRUE)
  BY <1>2, <1>3 DEF Replays, Follows
<1>5. ASSUME ~st.replaying
      PROVE  Replays(FlushQueue(answered), TRUE)
  <2>1. Replays(first, TRUE)
    BY <1>2, <1>3, <1>5 DEF Replays, Follows
  <2>2. Typed(answered, Requests) /\ Follows(first, answered)
    <3>1. Typed(answered, Requests)
      BY <1>3, TypedAnswer
    <3>2. Is(first)
      BY <1>3 DEF Typed
    <3> QED
      BY <3>1, <3>2, FollowsSmall
  <2> HIDE DEF answered
  <2>3. Follows(answered, FlushQueue(answered))
    BY <2>2, FollowsFlush
  <2>4. Replays(answered, TRUE)
    BY <2>1, <2>2, ReplaysFollow
  <2> QED
    BY <2>3, <2>4, ReplaysFollow
<1>6. Replays(FlushQueue(replayed), TRUE)
  BY <1>3, <1>4, FollowsFlush, ReplaysFollow
<1> QED
  BY <1>1, <1>5, <1>6

(* the loss of the worker, *)
LEMMA ReplaysLose ==
  ASSUME NEW st, NEW ready, Replays(st, ready), Is(st)
  PROVE  Replays(LoseWorker(st), FALSE)
<1> DEFINE t == LoseWorker(st)
<1>1. LoseEffect(st, t)
  BY LoseFields
<1> HIDE DEF t
<1>2. Replays(t, FALSE)
  BY <1>1 DEF Replays, LoseEffect, SameTracking
<1> QED
  BY <1>2 DEF t

(* failing the requests that wait, *)
LEMMA ReplaysFailQueued ==
  ASSUME NEW st, Replays(st, FALSE), Is(st)
  PROVE  Replays(FailQueued(st), FALSE)
<1> DEFINE t == FailQueued(st)
<1>1. FailQueuedEffect(st, t)
  BY FailQueuedFields
<1> HIDE DEF t
<1>2. \A q \in t.armed : Validate(q)
  BY <1>1 DEF FailQueuedEffect, Replays
<1>3. CASE st.clientInitialized
  BY <1>1, <1>2, <1>3 DEF Replays, FailQueuedEffect, t
<1>4. CASE ~st.clientInitialized
  BY <1>1, <1>2, <1>4 DEF Replays, FailQueuedEffect, t
<1> QED
  BY <1>3, <1>4

(* and what a loss does to the requests, *)
LEMMA ReplaysAfterLoss ==
  ASSUME NEW st, NEW ready, Replays(st, ready), Typed(st, Requests), workerGeneration \in Nat
  PROVE  Replays(AfterLoss(st), FALSE)
<1> DEFINE x == LoseWorker(st)
<1>1. Typed(x, Requests) /\ Replays(x, FALSE)
  BY TypedLose, ReplaysLose DEF Typed
<1>2. AfterLoss(st) \in {FailPending(x), FailQueued(x)}
  BY DEF AfterLoss
<1> HIDE DEF x
<1>3. Replays(FailQueued(x), FALSE)
  BY <1>1, ReplaysFailQueued DEF Typed
<1>4. Replays(FailPending(x), FALSE)
  <2> DEFINE lost == {r \in x.pending : ~Retained(x, r)}
             u == Release(x, lost)
  <2>1. FailPending(x) = AnswerAll(u, lost)
    BY DEF FailPending
  <2> HIDE DEF lost
  <2>2. Typed(u, Requests) /\ Follows(x, u)
    <3>1. Typed(u, Requests)
      BY <1>1, TypedRelease
    <3>2. Is(x)
      BY <1>1 DEF Typed
    <3> QED
      BY <3>1, <3>2, FollowsSmall
  <2> HIDE DEF u
  <2>3. Follows(u, AnswerAll(u, lost))
    BY <2>2, FollowsSmall DEF Typed
  <2>4. Replays(u, FALSE)
    BY <1>1, <2>2, ReplaysFollow
  <2> QED
    BY <2>1, <2>3, <2>4, ReplaysFollow
<1> QED
  BY <1>2, <1>3, <1>4

(* and the error of an initialize. *)
LEMMA ReplaysReject ==
  ASSUME NEW st, NEW ready, Replays(st, ready), Typed(st, Requests)
  PROVE  Replays(RejectHandshake(st), ready)
<1> DEFINE done == [st EXCEPT !.pending = {q \in @ : ~Retained(st, q)}]
           unparked == [done EXCEPT
            !.parked = IF @ # None /\ Retained(st, @) THEN None ELSE @]
           t == AnswerAll(unparked, {st.initializeRequest})
<1>1. RejectHandshake(st) \in {done, t}
  BY DEF RejectHandshake, Answer
<1>2. Is(done) /\ Follows(st, done)
  BY DEF Typed, Is, StateFields, Follows
<1> HIDE DEF done
<1>3. Is(unparked) /\ Follows(done, unparked)
  BY <1>2 DEF Is, StateFields, Follows
<1> HIDE DEF unparked
<1>4. Follows(unparked, t)
  BY <1>3, FollowsSmall
<1> HIDE DEF t
<1>5. Replays(done, ready)
  BY <1>2, ReplaysFollow
<1>6. Replays(unparked, ready)
  BY <1>3, <1>5, ReplaysFollow
<1>7. Replays(t, ready)
  BY <1>4, <1>6, ReplaysFollow
<1> QED
  BY <1>1, <1>5, <1>7

-----------------------------------------------------------------------------
(* Every callback keeps the handshake right. *)

(* The current worker has a process. *)
Up == child # NoChild /\ child \notin unspawned

(* The invariant of the handshake, of the supervisor's state. *)
Session == Attached(s, childReady, Up) /\ Front(s) /\ Replays(s, childReady)

(* Every callback before the shutdown keeps the handshake right. *)
LEMMA SessionStep ==
  ASSUME SupervisorTyped, Eras(s), Session, workerGeneration \in Nat, SupervisorNext,
         ~shuttingDown'
  PROVE  Session'
<1> DEFINE Holds(t) == Good(t, Up') /\ Replays(t, childReady')
<1>1. Typed(s, Requests) /\ Is(s)
  BY TypedMore DEF SupervisorTyped, Typed
<1>2. ASSUME Holds(s')
      PROVE  Session'
  BY <1>2 DEF Good, Session
<1>3. ASSUME childReady' = childReady, child' = child, unspawned' = unspawned
      PROVE  Holds(s) /\ Holds(Drain(s))
  <2>1. Good(s, Up')
    BY <1>1, <1>3 DEF Session, Good, Up
  <2>2. Replays(s, childReady')
    BY <1>3 DEF Session
  <2>3. Good(Drain(s), Up')
    BY <2>1, GoodDrain
  <2>4. Replays(Drain(s), childReady')
    BY <1>1, <2>2, FollowsDrain, ReplaysFollow
  <2> QED
    BY <2>1, <2>2, <2>3, <2>4
<1>4. ASSUME NEW t, Gone(t), Replays(t, FALSE), ~childReady'
      PROVE  Holds(t)
  <2>1. Replays(t, childReady')
    BY <1>4 DEF Replays
  <2> QED
    BY <1>4, <2>1, GoneGood
<1>5. child = NoChild => Gone(s) /\ Replays(s, FALSE) /\ ~childReady
  <2>1. ~childReady => Replays(s, FALSE)
    BY DEF Session, Replays
  <2> QED
    BY <1>1, <2>1 DEF Session, Attached, Up, Gone
<1>6. Front(s) /\ Attached(s, childReady, Up) /\ Replays(s, childReady)
  BY DEF Session
<1>7. ASSUME NEW r \in Requests, ClientSends(r)
      PROVE  Holds(s')
  <2>1. childReady' = childReady /\ child' = child /\ unspawned' = unspawned
        /\ s' = Route(s, r) /\ (Initialize(r) => ~s.clientInitialized \/ Reinitializes)
    BY <1>7 DEF ClientSends, poolVars, currentVars, processVars
  <2>2. Holds(s)
    BY <1>3, <2>1
  <2>3. Up' => child' # NoChild
    BY DEF Up
  <2>4. Good(Route(s, r), Up')
    BY <2>2, <2>3, GoodRoute
  <2>5. Replays(Route(s, r), childReady')
    BY <1>1, <2>1, <2>2, ReplaysRoute
  <2> QED
    BY <2>1, <2>4, <2>5
<1>8. ASSUME NEW r \in Requests, ClientCancels(r)
      PROVE  Holds(s')
  <2>1. childReady' = childReady /\ child' = child /\ unspawned' = unspawned
        /\ s' = Cancel(s, r)
    BY <1>8 DEF ClientCancels, poolVars, currentVars, processVars
  <2>2. Holds(s)
    BY <1>3, <2>1
  <2>3. Good(Cancel(s, r), Up')
    BY <2>2, GoodCancel
  <2>4. Replays(Cancel(s, r), childReady')
    BY <1>1, <2>2, FollowsCancel, ReplaysFollow
  <2> QED
    BY <2>1, <2>3, <2>4
<1>9. ASSUME NEW r \in Requests, WorkerAnswers(r)
      PROVE  Holds(s')
  <2> DEFINE st == [s EXCEPT !.held = @ \ {r}]
  <2>1. \/ AdoptActiveChild /\ s' = FinishHandshake(st)
        \/ UNCHANGED poolVars /\ s' = Deliver(st, r)
    BY <1>9 DEF WorkerAnswers
  <2>2. s.marked /\ Up /\ s.predecessors = 0
    BY <1>6, <1>9 DEF WorkerAnswers, Attached
  <2>3. /\ Typed(st, Requests) /\ Follows(s, st) /\ SameSession(s, st)
        /\ st.queue = s.queue /\ st.held \subseteq s.held /\ st.marked = s.marked
    BY <1>1 DEF Typed, Is, StateFields, Follows, SameSession
  <2> HIDE DEF st
  <2>4. Front(st) /\ Attached(st, childReady, Up) /\ Replays(st, childReady)
    <3>1. Attached(st, childReady, Up)
      BY <1>6, <2>2, <2>3 DEF Attached, HandshakeOnly, SameSession
    <3>2. Front(st)
      BY <1>6, <2>3, FrontSame
    <3> QED
      BY <1>6, <2>3, <3>1, <3>2, ReplaysFollow
  <2>5. ASSUME UNCHANGED poolVars, s' = Deliver(st, r)
        PROVE  Holds(s')
    <3>1. childReady' = childReady /\ child' = child /\ unspawned' = unspawned
      BY <2>5 DEF poolVars, currentVars, processVars
    <3>2. Good(st, Up')
      BY <2>3, <2>4, <3>1 DEF Good, Up
    <3>3. Good(Deliver(st, r), Up')
      BY <3>2, GoodDeliver
    <3>4. Replays(Deliver(st, r), childReady)
      BY <2>3, <2>4, FollowsDeliver, ReplaysFollow
    <3> QED
      BY <2>5, <3>1, <3>3, <3>4
  <2>6. ASSUME AdoptActiveChild, s' = FinishHandshake(st)
        PROVE  Holds(s')
    <3>1. childReady' = TRUE /\ child' = child /\ unspawned' = unspawned
      BY <2>6 DEF AdoptActiveChild, processVars
    <3>2. Attached(st, TRUE, Up)
      BY <2>2, <2>3, <2>4 DEF Attached
    <3>3. Up' = Up
      BY <3>1 DEF Up
    <3>4. Good(st, Up')
      BY <2>3, <2>4, <3>1, <3>2, <3>3 DEF Good
    <3>5. Good(FinishHandshake(st), Up')
      BY <3>1, <3>4, GoodFinish
    <3>6. Replays(FinishHandshake(st), TRUE)
      BY <2>2, <2>3, <2>4, ReplaysFinish
    <3> QED
      BY <2>6, <3>1, <3>5, <3>6
  <2> QED
    BY <2>1, <2>5, <2>6
<1>10. ASSUME NEW r \in Requests, QueuedDeadline(r)
       PROVE  Holds(s')
  <2> DEFINE t == Drain(Answer(ReleaseBarrier(
                [Disarm(s, {r}) EXCEPT !.queue = Without(@, r)], r.id), r))
  <2>1. childReady' = childReady /\ child' = child /\ unspawned' = unspawned
        /\ r \in Queued(s) /\ r \in s.armed /\ s' = t
    BY <1>10 DEF QueuedDeadline, poolVars, currentVars, processVars
  <2>2. Holds(s) /\ Validate(r)
    BY <1>3, <1>6, <2>1 DEF Replays
  <2>3. Good(t, Up')
    BY <2>1, <2>2, GoodQueuedDeadline
  <2>4. Follows(s, t)
    BY <1>1, <2>1, FollowsQueuedDeadline
  <2> HIDE DEF t
  <2>5. Replays(t, childReady')
    BY <2>2, <2>4, ReplaysFollow
  <2> QED
    BY <2>1, <2>3, <2>5
<1>11. ASSUME ClientInitialized \/ StdinBreaks \/ CleanupTimer
       PROVE  Holds(s')
  <2>1. childReady' = childReady /\ child' = child /\ unspawned' = unspawned
    BY <1>11 DEF ClientInitialized, StdinBreaks, CleanupTimer, CleanupRetryTimerFires, poolVars,
                 currentVars, processVars
  <2>2. Holds(s)
    BY <1>3, <2>1
  <2>3. CASE CleanupTimer
    BY <2>2, <2>3 DEF CleanupTimer
  <2>4. CASE StdinBreaks
    <3>1. /\ Typed(s', Requests) /\ Follows(s, s') /\ s'.queue = s.queue
          /\ SameSession(s, s') /\ s'.marked = s.marked /\ s'.held = s.held
          /\ s'.told = s.told /\ s'.initializeSent = s.initializeSent /\ s.stdin = "written"
      BY <1>1, <2>4 DEF StdinBreaks, Typed, Is, StateFields, Follows, SameSession
    <3>2. Front(s') /\ Replays(s', childReady')
      BY <1>6, <2>2, <3>1, FrontSame, ReplaysFollow
    <3>3. Attached(s', childReady', Up')
      BY <2>2, <3>1 DEF Good, Attached, HandshakeOnly, SameSession
    <3> QED
      BY <3>1, <3>2, <3>3 DEF Good
  <2>5. CASE ClientInitialized
    <3>1. /\ s.clientInitialized /\ s.era = "legacy" /\ s.initializeRequest # None
          /\ s' = IF childReady /\ Writable(s)
               THEN [s EXCEPT !.initialized = TRUE, !.told = TRUE, !.stdin = "written"]
               ELSE [s EXCEPT !.initialized = TRUE]
      BY <2>5 DEF ClientInitialized
    <3>2. /\ Typed(s', Requests) /\ s'.queue = s.queue /\ s'.armed = s.armed
          /\ s'.marked = s.marked /\ s'.held = s.held /\ s'.era = s.era
          /\ s'.initializeRequest = s.initializeRequest /\ s'.predecessors = s.predecessors
          /\ s'.clientInitialized = s.clientInitialized /\ s'.replaying = s.replaying
          /\ s'.initializeSent = s.initializeSent
      BY <1>1, <3>1 DEF Typed, Is, StateFields
    <3>3. (childReady /\ Writable(s)) \/ (s'.stdin = s.stdin /\ s'.told = s.told)
      BY <1>1, <3>1 DEF Is, StateFields
    <3>4. childReady /\ Writable(s) => s'.told = TRUE
      BY <1>1, <3>1 DEF Is, StateFields
    <3>5. Front(s')
      BY <1>6, <3>2 DEF Front
    <3>6. Attached(s', childReady', Up')
      BY <2>1, <2>2, <3>2, <3>3 DEF Good, Attached, HandshakeOnly
    <3>7. childReady /\ s.stdin # "destroyed" => Writable(s)
      BY <1>6, <2>1 DEF Attached, Up, Writable
    <3>8. Replays(s', childReady')
      BY <1>6, <2>1, <3>1, <3>2, <3>3, <3>4, <3>7 DEF Replays
    <3> QED
      BY <3>2, <3>5, <3>6, <3>8 DEF Good
  <2> QED
    BY <1>11, <2>3, <2>4, <2>5
<1>12. ASSUME WorkerSignalsReady
       PROVE  Holds(s')
  <2> DEFINE st == [s EXCEPT !.marked = TRUE]
  <2>1. /\ ~s.marked /\ Up
        /\ \/ /\ s.era # "legacy" \/ s.initializeRequest = None
              /\ AdoptActiveChild /\ s' = FlushQueue(st)
           \/ /\ s.era = "legacy" /\ s.initializeRequest # None
              /\ UNCHANGED poolVars /\ s' = SendHandshake(st)
    BY <1>12 DEF WorkerSignalsReady, Up
  <2>2. ~childReady /\ s.held = {}
    BY <1>6, <2>1 DEF Attached
  <2>3. /\ Typed(st, Requests) /\ SameSession(s, st) /\ st.queue = s.queue
        /\ st.marked = TRUE /\ st.held = s.held /\ st.armed = s.armed
        /\ st.stdin = s.stdin /\ st.told = s.told
    BY <1>1 DEF Typed, Is, StateFields, SameSession
  <2> HIDE DEF st
  <2>4. Front(st)
    BY <1>6, <2>3, FrontSame
  <2>5. ASSUME s.era # "legacy" \/ s.initializeRequest = None, AdoptActiveChild, s' = FlushQueue(st)
        PROVE  Holds(s')
    <3>1. childReady' = TRUE /\ child' = child /\ unspawned' = unspawned
      BY <2>5 DEF AdoptActiveChild, processVars
    <3>2. Up' = Up
      BY <3>1 DEF Up
    <3>3. st.predecessors = 0
      <4>1. s.predecessors = 0
        BY <1>1, <1>6, <2>5 DEF Front, Eras, NoSession, Typed
      <4> QED
        BY <2>3, <4>1 DEF SameSession
    <3>4. Attached(st, TRUE, Up)
      BY <2>1, <2>3, <3>3 DEF Attached
    <3>5. Good(st, Up')
      BY <2>3, <2>4, <3>1, <3>2, <3>4 DEF Good
    <3>6. Good(FlushQueue(st), Up')
      BY <3>1, <3>5, GoodFlush
    <3>7. Replays(st, TRUE)
      BY <1>6, <2>3, <2>5 DEF Replays, SameSession
    <3>8. Replays(FlushQueue(st), TRUE)
      BY <2>3, <3>7, FollowsFlush, ReplaysFollow
    <3> QED
      BY <2>5, <3>1, <3>6, <3>8
  <2>6. ASSUME s.era = "legacy", s.initializeRequest # None, UNCHANGED poolVars,
               s' = SendHandshake(st)
        PROVE  Holds(s')
    <3>1. childReady' = childReady /\ child' = child /\ unspawned' = unspawned
      BY <2>6 DEF poolVars, currentVars, processVars
    <3>2. Up' = Up
      BY <3>1 DEF Up
    <3>3. st.initializeRequest # None /\ st.era = "legacy"
      BY <2>3, <2>6 DEF SameSession
    <3>4. Handshaking(st, childReady', Up')
      BY <2>1, <2>2, <2>3, <2>4, <3>1, <3>2, <3>3 DEF Handshaking, HandshakeOnly
    <3>5. Attached(SendHandshake(st), childReady', Up') /\ Front(SendHandshake(st))
      BY <3>3, <3>4, AttachedSendHandshake
    <3>6. Typed(SendHandshake(st), Requests)
      BY <2>3, <3>3, TypedSendHandshake
    <3>7. /\ \A q \in st.armed : Validate(q)
          /\ ~Reinitializes /\ st.initialized =>
               st.clientInitialized /\ st.era = "legacy" /\ st.initializeRequest # None
      BY <1>6, <2>3 DEF Replays, SameSession
    <3>8. Replays(SendHandshake(st), FALSE)
      BY <2>3, <3>7, ReplaysSendHandshake
    <3>9. Replays(SendHandshake(st), childReady')
      BY <2>2, <3>1, <3>8 DEF Replays
    <3>10. Good(SendHandshake(st), Up')
      BY <3>5, <3>6 DEF Good
    <3> QED
      BY <2>6, <3>9, <3>10
  <2> QED
    BY <2>1, <2>5, <2>6
<1>13. Gone(LoseWorker(s)) /\ Replays(LoseWorker(s), FALSE)
  BY <1>1, <1>6, GoneLose, ReplaysLose
<1>14. ASSUME NEW outcome \in TerminationOutcomes,
               \/ StartupTimesOut(outcome) \/ WorkerBreaks(outcome)
               \/ \E r \in Requests : WorkerRejectsInitialize(r, outcome)
       PROVE  Holds(s')
  <2>1. ~childReady'
    BY <1>14 DEF StartupTimesOut, WatchdogFires, StartupFails, WorkerBreaks, WorkerFaults,
                 WorkerRejectsInitialize, InitializeRejected, NoCurrentChild
  <2>2. CASE StartupTimesOut(outcome)
    <3> DEFINE x == LoseWorker(s)
    <3>1. Is(x) /\ s' = FailQueued(x)
      BY <1>1, <2>2, LoseFields DEF LoseEffect, StartupTimesOut
    <3>2. Gone(x) /\ Replays(x, FALSE)
      BY <1>13
    <3> HIDE DEF x
    <3>3. Gone(FailQueued(x)) /\ Replays(FailQueued(x), FALSE)
      BY <3>1, <3>2, GoneFailQueued, ReplaysFailQueued
    <3> QED
      BY <1>4, <2>1, <3>1, <3>3
  <2>3. CASE WorkerBreaks(outcome)
    <3>1. Gone(AfterLoss(s)) /\ Replays(AfterLoss(s), FALSE)
      BY <1>1, <1>6, GoneAfterLoss, ReplaysAfterLoss
    <3>2. s' = AfterLoss(s)
      BY <2>3 DEF WorkerBreaks
    <3> QED
      BY <1>4, <2>1, <3>1, <3>2
  <2>4. ASSUME NEW r \in Requests, WorkerRejectsInitialize(r, outcome)
        PROVE  Holds(s')
    <3> DEFINE x == RejectHandshake(s)
               y == LoseWorker(x)
    <3>1. s' = FailQueued(y)
      BY <2>4 DEF WorkerRejectsInitialize
    <3>2. Front(x) /\ Replays(x, childReady) /\ Typed(x, Requests)
      BY <1>1, <1>6, FrontReject, ReplaysReject, TypedReject
    <3>3. Is(x)
      BY <3>2 DEF Typed
    <3> HIDE DEF x
    <3>4. Gone(y) /\ Replays(y, FALSE)
      BY <3>2, <3>3, GoneLose, ReplaysLose
    <3>5. Is(y)
      BY <3>3, LoseFields DEF LoseEffect
    <3> HIDE DEF y
    <3>6. Gone(FailQueued(y)) /\ Replays(FailQueued(y), FALSE)
      BY <3>4, <3>5, GoneFailQueued, ReplaysFailQueued
    <3> QED
      BY <1>4, <2>1, <3>1, <3>6
  <2> QED
    BY <1>14, <2>2, <2>3, <2>4
<1>15. ASSUME NEW outcome \in TerminationOutcomes, NEW spawned \in SpawnOutcomes,
              NEW r \in Requests, RunningDeadline(r, outcome, spawned)
       PROVE  Holds(s')
  <2> DEFINE a == Release(s, {r})
             b == [a EXCEPT !.running = None, !.barrier = None]
             settled == AnswerAll(b, {r})
             lost == IF child = NoChild THEN settled ELSE LoseWorker(settled)
  <2>1. s' \in {lost, FailQueued(lost)}
    BY <1>15 DEF RunningDeadline, Answer
  <2>2. ~childReady'
    BY <1>5, <1>15 DEF RunningDeadline, RecoverTimedOutWorker, NewWorker, NoCurrentChild,
           currentVars
  <2>3. Typed(a, Requests) /\ ReleaseEffect(s, a, {r})
    BY <1>1, TypedRelease, ReleaseFields
  <2>4. Follows(s, a)
    BY <1>1, FollowsSmall
  <2> HIDE DEF a
  <2>5. Typed(b, Requests) /\ SameSession(a, b) /\ SamePipes(a, b) /\ b.queue = a.queue
        /\ b.armed = a.armed
    BY <2>3 DEF Typed, Is, StateFields, SameSession, SamePipes
  <2> HIDE DEF b
  <2>6. Typed(settled, Requests)
    BY <2>5, TypedAnswer
  <2>7. Is(b)
    BY <2>5 DEF Typed
  <2>8. AnswerEffect(b, settled, {r}) /\ Follows(b, settled)
    BY <2>7, AnswerFields, FollowsSmall
  <2> HIDE DEF settled
  <2>9. /\ SameSession(s, settled) /\ SamePipes(s, settled) /\ settled.queue = s.queue
    BY <2>3, <2>5, <2>8 DEF ReleaseEffect, AnswerEffect, SameTracking, SameSession, SamePipes
  <2>10. Follows(a, b)
    BY <2>5, FollowsSame
  <2>11. Follows(a, settled)
    BY <2>8, <2>10, FollowsTwice
  <2>12. Follows(s, settled)
    BY <2>4, <2>11, FollowsTwice
  <2>13. Front(settled)
    BY <1>6, <2>9, FrontSame
  <2>14. Gone(lost) /\ Replays(lost, FALSE) /\ Is(lost)
    <3>1. CASE child = NoChild
      <4>1. lost = settled
        BY <3>1
      <4>2. Gone(settled)
        BY <1>5, <2>6, <2>9, <2>13, <3>1 DEF Gone, SameSession, SamePipes
      <4>3. Replays(settled, FALSE)
        BY <1>5, <2>12, <3>1, ReplaysFollow
      <4>4. Is(settled)
        BY <2>6 DEF Typed
      <4> QED
        BY <4>1, <4>2, <4>3, <4>4
    <3>2. CASE child # NoChild
      <4>1. lost = LoseWorker(settled)
        BY <3>2
      <4>2. Is(settled)
        BY <2>6 DEF Typed
      <4>3. Gone(LoseWorker(settled)) /\ Is(LoseWorker(settled))
        BY <2>6, <2>13, <4>2, GoneLose, LoseFields DEF LoseEffect
      <4>4. Replays(settled, childReady)
        BY <1>6, <2>12, ReplaysFollow
      <4>5. Replays(LoseWorker(settled), FALSE)
        BY <4>2, <4>4, ReplaysLose
      <4> QED
        BY <4>1, <4>3, <4>5
    <3> QED
      BY <3>1, <3>2
  <2> HIDE DEF lost
  <2>15. Gone(FailQueued(lost)) /\ Replays(FailQueued(lost), FALSE)
    BY <2>14, GoneFailQueued, ReplaysFailQueued
  <2> QED
    BY <1>4, <2>1, <2>2, <2>14, <2>15
<1>16. ASSUME NEW stoodDown \in BOOLEAN, WorkerCrashes(stoodDown)
       PROVE  Holds(s')
  <2>1. ~childReady' /\ s' = AfterLoss(s)
    BY <1>16 DEF WorkerCrashes, CurrentWorkerExits, NoCurrentChild
  <2>2. Gone(AfterLoss(s)) /\ Replays(AfterLoss(s), FALSE)
    BY <1>1, <1>6, GoneAfterLoss, ReplaysAfterLoss
  <2> QED
    BY <1>4, <2>1, <2>2
<1>17. ASSUME NEW g \in Generations,
              ReplacedWorkerExits(g) \/ UnspawnedCloses(g) \/ StreamsClose(g)
       PROVE  Holds(s')
  <2> DEFINE x == Purge(s, g)
  <2>1. childReady' = childReady /\ child' = child /\ unspawned' = unspawned
    BY <1>17 DEF ReplacedWorkerExits, UnspawnedCloses, StreamsClose, TerminatedWorkerExits,
                 UnspawnedChildCloses, poolVars, currentVars, processVars
  <2>2. g \in Nat
    BY DEF Generations
  <2>3. s' \in {Drain(s), Drain(x), x}
    BY <1>17 DEF ReplacedWorkerExits, UnspawnedCloses, StreamsClose
  <2>4. Typed(x, Requests) /\ PurgeEffect(s, x, g)
    BY <1>1, <2>2, TypedPurge, PurgeFields
  <2> HIDE DEF x
  <2>5. Follows(s, x)
    BY <2>4, FollowsSame DEF PurgeEffect, SameTracking
  <2>6. Holds(s)
    BY <1>3, <2>1
  <2>7. Good(x, Up')
    BY <2>4, <2>6, GoodSame DEF PurgeEffect, SameTracking
  <2>8. Replays(x, childReady')
    BY <2>5, <2>6, ReplaysFollow
  <2>9. Good(Drain(x), Up')
    BY <2>7, GoodDrain
  <2>10. Replays(Drain(x), childReady')
    BY <2>4, <2>8, FollowsDrain, ReplaysFollow
  <2> QED
    BY <1>3, <2>1, <2>3, <2>7, <2>8, <2>9, <2>10
<1>18. ASSUME NEW spawned \in SpawnOutcomes, RestartFires(spawned)
       PROVE  Holds(s')
  <2>1. s' = IF restartTimer' THEN FailQueued(s) ELSE s
    BY <1>18 DEF RestartFires
  <2>2. \/ childReady' = childReady /\ child' = child /\ unspawned' = unspawned /\ ~restartTimer'
        \/ child = NoChild /\ (childReady' = childReady \/ ~childReady')
    BY <1>18 DEF RestartFires, RestartTimerFires, NewWorker, currentVars
  <2>3. CASE childReady' = childReady /\ child' = child /\ unspawned' = unspawned /\ ~restartTimer'
    BY <1>3, <2>1, <2>3
  <2>4. CASE child = NoChild /\ (childReady' = childReady \/ ~childReady')
    <3>1. Gone(s) /\ Replays(s, FALSE)
      BY <1>5, <2>4
    <3>3. ~childReady
      BY <1>5, <2>4
    <3>4. ~childReady'
      BY <2>4, <3>3
    <3>2. Gone(FailQueued(s)) /\ Replays(FailQueued(s), FALSE)
      BY <1>1, <3>1, GoneFailQueued, ReplaysFailQueued
    <3> QED
      BY <1>4, <2>1, <3>1, <3>2, <3>4
  <2> QED
    BY <2>2, <2>3, <2>4
<1>19. ASSUME NEW g \in Generations, NEW success \in BOOLEAN,
              TreeSettles(g, success) \/ TokenRetrySettles(g, success)
       PROVE  Holds(s')
  <2>1. childReady' = childReady /\ child' = child /\ unspawned' = unspawned
    BY <1>19 DEF TreeSettles, TokenRetrySettles, FinishTreeTermination, FinishTokenRetry,
                 currentVars, processVars
  <2>2. s' \in {s, Drain(s)}
    BY <1>19 DEF TreeSettles, TokenRetrySettles
  <2> QED
    BY <1>3, <2>1, <2>2
<1>20. \A outcome \in [liveChildren -> TerminationOutcomes] : ~ShutsDown(outcome)
  BY DEF ShutsDown, Shutdown
<1>21. Holds(s')
  BY <1>7, <1>8, <1>9, <1>10, <1>11, <1>12, <1>14, <1>15, <1>16, <1>17, <1>18, <1>19, <1>20
     DEF SupervisorNext
<1> QED
  BY <1>2, <1>21

-----------------------------------------------------------------------------
(* The pool under the supervisor. *)

(* Whatever the requests do, the supervisor drives its workers as WorkerPool
   says. So what is proved of the pool alone holds of the whole supervisor. *)
THEOREM SupervisorDrivesPool == SupervisorSpec => Spec
<1>1. SupervisorInit => Init
  BY DEF SupervisorInit
<1>2. UNCHANGED vars => UNCHANGED poolVars
  BY DEF vars
<1> QED
  BY <1>1, <1>2, SupervisorStep, PTL DEF SupervisorSpec, Spec

(* At most two worker generations are alive at any time, whatever clients send
   and cancel and however workers fail (liveCapOccupancy). *)
THEOREM SupervisorRespectsCap == SupervisorSpec => []LiveCapRespected
  BY SupervisorDrivesPool, LiveCapHolds

(* A supervisor without a worker always has a restart under way, or waits for
   a slot that a live worker or tree will free (NoLostRestart). *)
THEOREM SupervisorAlwaysRestarts == SupervisorSpec => []NoLostRestart
  BY SupervisorDrivesPool, RestartNeverLost

-----------------------------------------------------------------------------
(* The handshake. *)

(* After the shutdown nothing is kept. *)
QuietAfterShutdown == shuttingDown => Quiet(s)

(* The handshake is right until the shutdown. *)
HandshakeRight == shuttingDown \/ Session

(* Nothing outlives the shutdown: no request is queued, forwarded or with a
   worker, and no deadline is armed, whatever callback comes late
   (runShutdown). *)
THEOREM NothingAfterShutdown == SupervisorSpec => []QuietAfterShutdown
<1>1. SupervisorInit => QuietAfterShutdown
  BY DEF SupervisorInit, Init, QuietAfterShutdown
<1>2. SupervisorInv /\ QuietAfterShutdown /\ [SupervisorNext]_vars => QuietAfterShutdown'
  <2> SUFFICES ASSUME SupervisorInv, QuietAfterShutdown, [SupervisorNext]_vars
               PROVE  QuietAfterShutdown'
    OBVIOUS
  <2>1. CASE SupervisorNext
    BY <2>1, QuietStep DEF SupervisorInv, IInv, QuietAfterShutdown
  <2>2. CASE UNCHANGED vars
    BY <2>2 DEF vars, poolVars, QuietAfterShutdown, Quiet
  <2> QED
    BY <2>1, <2>2
<1> QED
  BY <1>1, <1>2, SupervisorInvariant, PTL DEF SupervisorSpec

(* The handshake is right in every behaviour. *)
THEOREM SessionInvariant == SupervisorSpec => []HandshakeRight
<1>1. SupervisorInit => HandshakeRight
  <2> SUFFICES ASSUME SupervisorInit PROVE HandshakeRight
    OBVIOUS
  <2>1. s = InitialState /\ ~childReady
    BY DEF SupervisorInit, Init
  <2>2. Attached(s, childReady, Up)
    BY <2>1 DEF InitialState, Attached, HandshakeOnly
  <2>3. Front(s) /\ Replays(s, childReady)
    BY <2>1 DEF InitialState, Front, Replays
  <2> QED
    BY <2>2, <2>3 DEF HandshakeRight, Session
<1>2. SupervisorInv /\ Eras(s) /\ HandshakeRight /\ [SupervisorNext]_vars => HandshakeRight'
  <2> SUFFICES ASSUME SupervisorInv, Eras(s), HandshakeRight, [SupervisorNext]_vars
               PROVE  HandshakeRight'
    OBVIOUS
  <2>1. CASE SupervisorNext
    <3>1. workerGeneration \in Nat
      BY PoolAssumption DEF SupervisorInv, IInv, TypeOK, CountsOK, PoolAssumption
    <3>2. ~shuttingDown' => Session
      BY <2>1, ShutdownStays DEF HandshakeRight
    <3> QED
      BY <2>1, <3>1, <3>2, SessionStep DEF SupervisorInv, HandshakeRight
  <2>2. CASE UNCHANGED vars
    BY <2>2 DEF vars, poolVars, currentVars, processVars, HandshakeRight, Session, Up, Attached,
                Front, Replays, HandshakeOnly
  <2> QED
    BY <2>1, <2>2
<1> QED
  BY <1>1, <1>2, SupervisorInvariant, ErasRight, PTL DEF SupervisorSpec

(* A worker that is lost is not ready: a step of the pool that leaves no
   worker clears childReady. *)
LEMMA ReadyWorkerStep ==
  ASSUME childReady => child # NoChild, [Next]_poolVars
  PROVE  childReady' => child' # NoChild
<1>1. ASSUME NEW outcome \in TerminationOutcomes,
             \/ WatchdogFires(outcome) \/ InitializeRejected(outcome) \/ WorkerFaults(outcome)
      PROVE  childReady' => child' # NoChild
  BY <1>1 DEF WatchdogFires, InitializeRejected, WorkerFaults, StartupFails, NoCurrentChild
<1>2. ASSUME NEW outcome \in TerminationOutcomes, NEW spawned \in SpawnOutcomes,
             RecoverTimedOutWorker(outcome, spawned)
      PROVE  childReady' => child' # NoChild
  BY <1>2 DEF RecoverTimedOutWorker, NoCurrentChild, NewWorker, currentVars
<1>3. ASSUME NEW g \in Generations,
             \/ TerminatedWorkerExits(g) \/ UnspawnedChildCloses(g)
             \/ \E success \in BOOLEAN :
                  FinishTreeTermination(g, success) \/ FinishTokenRetry(g, success)
      PROVE  childReady' => child' # NoChild
  BY <1>3 DEF TerminatedWorkerExits, UnspawnedChildCloses, FinishTreeTermination, FinishTokenRetry,
              currentVars
<1>4. ASSUME \/ AdoptActiveChild \/ CleanupRetryTimerFires \/ UNCHANGED poolVars
             \/ \E stoodDown \in BOOLEAN : CurrentWorkerExits(stoodDown)
             \/ \E spawned \in SpawnOutcomes : RestartTimerFires(spawned)
             \/ \E outcome \in [liveChildren -> TerminationOutcomes] : Shutdown(outcome)
      PROVE  childReady' => child' # NoChild
  BY <1>4 DEF AdoptActiveChild, CleanupRetryTimerFires, poolVars, currentVars, CurrentWorkerExits,
              RestartTimerFires, NewWorker, NoCurrentChild, Shutdown
<1> QED
  BY <1>1, <1>2, <1>3, <1>4 DEF Next

(* Only a current worker is ready. *)
ReadyWorker == childReady => child # NoChild

(* childReady always speaks of the current worker. *)
THEOREM ReadyWorkerCurrent == SupervisorSpec => []ReadyWorker
<1>1. SupervisorInit => ReadyWorker
  BY DEF SupervisorInit, Init, ReadyWorker
<1>2. ReadyWorker /\ [SupervisorNext]_vars => ReadyWorker'
  BY SupervisorStep, ReadyWorkerStep DEF ReadyWorker, vars
<1> QED
  BY <1>1, <1>2, PTL DEF SupervisorSpec

(* Nothing overtakes the legacy handshake: until it is adopted a worker is
   given only initialize and the discovers that came before it
   (initializePredecessorCount, handleWorkerReady). Any client, any failure. *)
THEOREM HandshakeNotOvertaken == SupervisorSpec => []HandshakeFirst
<1>1. QuietAfterShutdown /\ HandshakeRight => HandshakeFirst
  BY DEF QuietAfterShutdown, Quiet, HandshakeRight, Session, Attached, HandshakeOnly, HandshakeFirst
<1> QED
  BY <1>1, NothingAfterShutdown, SessionInvariant, PTL

(* A replacement is handed the whole handshake: once the client has sent
   notifications/initialized, every adopted worker has got it too (the replay
   of handleWorkerReady). For clients that initialize a session once. *)
THEOREM HandshakeWhole ==
  ASSUME ~Reinitializes
  PROVE  SupervisorSpec => []HandshakeInOrder
<1>1. SupervisorInv /\ ReadyWorker /\ QuietAfterShutdown /\ HandshakeRight => HandshakeInOrder
  <2> SUFFICES ASSUME SupervisorInv, ReadyWorker, QuietAfterShutdown, HandshakeRight
               PROVE  HandshakeInOrder
    OBVIOUS
  <2>1. HandshakeFirst
    BY DEF QuietAfterShutdown, Quiet, HandshakeRight, Session, Attached, HandshakeOnly,
       HandshakeFirst
  <2>2. shuttingDown => ~childReady
    BY DEF SupervisorInv, IInv, ShutdownQuiet, ReadyWorker
  <2>3. HandshakeReplayed
    BY <2>2 DEF HandshakeRight, Session, Replays, HandshakeReplayed
  <2> QED
    BY <2>1, <2>3 DEF HandshakeInOrder
<1> QED
  BY <1>1, SupervisorInvariant, ReadyWorkerCurrent, NothingAfterShutdown, SessionInvariant, PTL

(* A client may initialize again in whatever state its session is: until it is
   adopted a worker is given none of the calls that wait for it, and no call
   drops out of the supervisor's books unanswered (routeClientMessage,
   handleWorkerReady, failPendingRequestsOnWorkerExit). It does not say that a
   worker still has a call that is in the books: an adopted worker that rejects
   the second initialize takes its calls along (OnlyRejectionStrands). *)
THEOREM ReinitializingKeepsOrder ==
  ASSUME OwnHandshakeIds
  PROVE  SupervisorSpec => []ReinitializeOrdered
<1>1. SupervisorInv /\ Tracking /\ HandshakeFirst => ReinitializeOrdered
  BY TrackedBarrier DEF ReinitializeOrdered
<1> QED
  BY <1>1, SupervisorInvariant, TrackingInvariant, HandshakeNotOvertaken, PTL

-----------------------------------------------------------------------------
(* Answers are final. *)

(* No request is sent again under the id of one that was cancelled or could
   not be written (MCP forbids to use an id twice in a session). The code needs
   it: the late answer of the first one would be taken for the second's. *)
FreshIds ==
  \A q, r \in Requests : q.id = r.id /\ q # r => q \notin Cancellable \cup Unwritable

(* The answer of a request that was cancelled or rolled back will be dropped:
   it has a tombstone of this worker (g). *)
Dropped(st, r, g) == r \in Cancellable \cup Unwritable /\ st.tombstones[r.id] = g

(* A worker that has not answered a request is still expected to, or its
   answer will be dropped. *)
Awaited(st, g) == \A r \in st.held : Initialize(r) \/ r \in st.pending \/ Dropped(st, r, g)

(* No call has two answers, and none an answer after it was cancelled. *)
Once(st, C) ==
  \A r \in Requests : ~Initialize(r) => st.answers[r] <= 1 /\ (r \in C => st.answers[r] = 0)

(* Both: what was answered stays as it is, whatever the worker g sends. *)
Final(st, C) == Awaited(st, workerGeneration) /\ Once(st, C)

(* From st to t the worker got nothing, forwarded requests ended only where
   their answers will be dropped or the worker is gone, and only requests
   without an answer were answered. *)
Ends(st, t, C) ==
  /\ t.held \subseteq st.held
  /\ t.held = {} \/ \A id \in Ids : t.tombstones[id] \in {st.tombstones[id], workerGeneration}
  /\ \A q \in t.held \cap st.pending :
       Initialize(q) \/ q \in t.pending \/ Dropped(t, q, workerGeneration)
  /\ \A q \in Requests : \/ Initialize(q) \/ t.answers[q] = st.answers[q]
                         \/ t.answers[q] <= 1 /\ st.answers[q] = 0 /\ q \notin C

(* Where only that happens the answers stay final. *)
LEMMA FinalEnds ==
  ASSUME NEW C, NEW st, Final(st, C), Typed(st, Requests), NEW t, Ends(st, t, C)
  PROVE  Final(t, C)
<1>1. Awaited(t, workerGeneration)
  <2>1. ASSUME NEW r \in t.held, ~Initialize(r), r \notin t.pending
        PROVE  Dropped(t, r, workerGeneration)
    <3>1. r \in st.held /\ r.id \in Ids
      BY <2>1 DEF Ends, Typed, Ids
    <3>2. CASE r \in st.pending
      BY <2>1, <3>1, <3>2 DEF Ends
    <3>3. CASE r \notin st.pending
      <4>1. Dropped(st, r, workerGeneration)
        BY <2>1, <3>1, <3>3 DEF Final, Awaited
      <4> QED
        BY <3>1, <4>1 DEF Ends, Dropped
    <3> QED
      BY <3>2, <3>3
  <2> QED
    BY <2>1 DEF Awaited
<1>2. Once(t, C)
  BY DEF Ends, Final, Once
<1> QED
  BY <1>1, <1>2 DEF Final

(* A response to a request that had none is its first. *)
LEMMA AnsweredNew ==
  ASSUME NEW st, st.answers \in [Requests -> 0 .. 2], NEW R
  PROVE  \A q \in Requests :
           /\ q \notin R => Answered(st, R)[q] = st.answers[q]
           /\ st.answers[q] = 0 => Answered(st, R)[q] <= 1
BY DEF Answered

(* forwardRequest keeps the answers final: a request that is written is the
   only one with its id, and one that is rolled back has its tombstone. *)
LEMMA FinalForward ==
  ASSUME NEW S \in SUBSET Requests, NEW C, NEW st, NEW r \in S, Sound(st, S, C, {r}),
         OwnHandshakeIds, FreshIds, Typed(st, Requests), Final(st, C), workerGeneration \in Nat
  PROVE  Final(Forward(st, r), C)
<1> DEFINE t == Forward(st, r)
<1>1. Is(st) /\ st.pending \subseteq Requests /\ st.held \subseteq Requests
      /\ st.answers \in [Requests -> 0 .. 2] /\ st.tombstones \in [Ids -> 0 .. workerGeneration]
  BY DEF Typed
<1>2. /\ ~Writable(st) /\ Len(st.queue) < MAX_SUPERVISOR_QUEUE => QueueEffect(st, t, r)
      /\ ~Writable(st) /\ ~(Len(st.queue) < MAX_SUPERVISOR_QUEUE) => RefuseEffect(st, t, r)
      /\ Writable(st) /\ r \notin Unwritable => WriteEffect(st, t, r)
      /\ Writable(st) /\ r \in Unwritable => UnwriteEffect(st, t, r)
  BY <1>1, ForwardQueues, ForwardRefuses, ForwardWrites, ForwardUnwritten
<1> HIDE DEF t
<1>3. Initialize(r) \/ (st.answers[r] = 0 /\ r \notin C)
  BY DEF Sound, Tracks, Live
<1>4. \A q \in st.pending : q.id = r.id => q = r
  BY DEF Sound, OneId, Live
<1>5. \A q \in st.held : q # r /\ q.id = r.id => Initialize(q)
  BY <1>1, <1>4 DEF Final, Awaited, Dropped, FreshIds
<1>6. r.id \in Ids /\ \A q \in st.held : q.id \in Ids
  BY <1>1 DEF Ids
<1>7. ASSUME QueueEffect(st, t, r)
      PROVE  Final(t, C)
  <2>1. Ends(st, t, C)
    BY <1>1, <1>7 DEF QueueEffect, SamePipes, SameReplies, Ends
  <2> QED
    BY <2>1, FinalEnds
<1>8. ASSUME RefuseEffect(st, t, r)
      PROVE  Final(t, C)
  <2>1. Ends(st, t, C)
    BY <1>1, <1>3, <1>8, AnsweredNew DEF RefuseEffect, SamePipes, Ends
  <2> QED
    BY <2>1, FinalEnds
<1>9. ASSUME WriteEffect(st, t, r)
      PROVE  Final(t, C)
  <2>1. /\ t.held = st.held \cup {r} /\ t.pending = {q \in st.pending : q.id # r.id} \cup {r}
        /\ t.answers = st.answers /\ t.tombstones = [st.tombstones EXCEPT ![r.id] = 0]
    BY <1>9 DEF WriteEffect, Written
  <2>2. ASSUME NEW q \in t.held, ~Initialize(q), q \notin t.pending
        PROVE  Dropped(t, q, workerGeneration)
    <3>1. q \in st.held /\ q.id # r.id /\ q \notin st.pending
      BY <1>5, <2>1, <2>2
    <3>2. Dropped(st, q, workerGeneration)
      BY <2>2, <3>1 DEF Final, Awaited
    <3> QED
      BY <1>1, <1>6, <2>1, <3>1, <3>2 DEF Dropped
  <2>3. Once(t, C)
    BY <2>1 DEF Final, Once
  <2> QED
    BY <2>2, <2>3 DEF Final, Awaited
<1>10. ASSUME UnwriteEffect(st, t, r), r \in Unwritable
       PROVE  Final(t, C)
  <2>1. /\ t.held = st.held \cup {r} /\ t.pending = {q \in st.pending : q.id # r.id} \ {r}
        /\ t.answers = Answered(st, {r})
        /\ t.tombstones = [id \in Ids |-> IF id = r.id THEN workerGeneration
                             ELSE [st.tombstones EXCEPT ![r.id] = 0][id]]
    BY <1>10 DEF UnwriteEffect, Written
  <2>2. ASSUME NEW q \in t.held, ~Initialize(q), q \notin t.pending
        PROVE  Dropped(t, q, workerGeneration)
    <3>1. CASE q = r
      BY <1>6, <1>10, <2>1, <3>1 DEF Dropped
    <3>2. CASE q # r
      <4>1. q \in st.held /\ q.id # r.id /\ q \notin st.pending
        BY <1>5, <2>1, <2>2, <3>2
      <4>2. Dropped(st, q, workerGeneration)
        BY <2>2, <4>1 DEF Final, Awaited
      <4> QED
        BY <1>1, <1>6, <2>1, <4>1, <4>2 DEF Dropped
    <3> QED
      BY <3>1, <3>2
  <2>3. Once(t, C)
    BY <1>1, <1>3, <2>1, AnsweredNew DEF Final, Once
  <2> QED
    BY <2>2, <2>3 DEF Final, Awaited
<1> QED
  BY <1>2, <1>7, <1>8, <1>9, <1>10 DEF t

(* So does what touches neither the worker, the entries nor the responses, *)
LEMMA FinalSame ==
  ASSUME NEW C, NEW st, Final(st, C), Typed(st, Requests), NEW t,
         SamePipes(st, t), SameReplies(st, t), t.pending = st.pending
  PROVE  Final(t, C)
<1>1. Ends(st, t, C)
  BY DEF SamePipes, SameReplies, Ends
<1> QED
  BY <1>1, FinalEnds

(* a round of drainQueue, *)
LEMMA FinalDrainStep ==
  ASSUME NEW S \in SUBSET Requests, NEW C, NEW st, Sound(st, S, C, {}), Final(st, C),
         OwnHandshakeIds, FreshIds, Typed(st, S), workerGeneration \in Nat
  PROVE  Final(DrainStep(st), C)
<1>1. CASE ~childReady' \/ ~Writable(st) \/ st.queue = << >> \/ st.running # None
  BY <1>1 DEF DrainStep
<1>2. CASE st.queue # << >> /\ Writable(st) /\ st.running = None
  <2> DEFINE next == Head(st.queue)
             taken == [st EXCEPT !.queue = Tail(@)]
             raised == [st EXCEPT !.barrier = next.id]
  <2>1. DrainStep(st) \in {st, Forward(taken, next), raised}
    BY DEF DrainStep
  <2>2. Typed(taken, S) /\ next \in S /\ TakeEffect(st, taken) /\ Sound(taken, S, C, {next})
    BY <1>2, SoundTake
  <2>3. RaiseEffect(st, raised, next.id) /\ Typed(st, Requests)
    BY RaiseFields, TypedMore DEF Typed
  <2> HIDE DEF next, taken, raised
  <2>4. Typed(taken, Requests)
    BY <2>2, TypedMore
  <2>5. Final(taken, C)
    BY <2>2, <2>3, FinalSame DEF TakeEffect
  <2>6. Final(Forward(taken, next), C)
    BY <2>2, <2>4, <2>5, FinalForward
  <2>7. Final(raised, C)
    BY <2>3, FinalSame DEF RaiseEffect
  <2> QED
    BY <2>1, <2>6, <2>7
<1> QED
  BY <1>1, <1>2

(* drainQueue, *)
LEMMA FinalDrain ==
  ASSUME NEW S \in SUBSET Requests, NEW C, NEW st, Sound(st, S, C, {}), Final(st, C),
         OwnHandshakeIds, FreshIds, Typed(st, S), workerGeneration \in Nat
  PROVE  Final(Drain(st), C)
BY SoundDrainStep, FinalDrainStep DEF Drain

(* flushQueue, *)
LEMMA FinalFlush ==
  ASSUME NEW S \in SUBSET Requests, NEW C, NEW st, Sound(st, S, C, {}), Final(st, C),
         OwnHandshakeIds, FreshIds, Typed(st, S), workerGeneration \in Nat
  PROVE  Final(FlushQueue(st), C)
<1> DEFINE flushed == [st EXCEPT !.parked = None]
<1>1. Typed(flushed, S) /\ Settles(st, flushed, S) /\ Ends(st, flushed, C)
  BY DEF Typed, Is, StateFields, Handshakes, Settles, Ends
<1> HIDE DEF flushed
<1>2. Typed(flushed, Requests) /\ Typed(st, Requests)
  BY <1>1, TypedMore
<1>3. Sound(flushed, S, C, {}) /\ Final(flushed, C)
  BY <1>1, <1>2, SoundSettles, FinalEnds
<1>4. Final(Drain(flushed), C)
  BY <1>1, <1>3, FinalDrain
<1>5. ASSUME st.parked # None
      PROVE  Final(Drain(Forward(flushed, st.parked)), C)
  <2>1. st.parked \in S /\ Initialize(st.parked)
    BY <1>5 DEF Typed, Handshakes
  <2>2. Sound(flushed, S, C, {st.parked})
    BY <1>2, <1>3, <2>1, SoundHand
  <2>3. Sound(Forward(flushed, st.parked), S, C, {}) /\ Final(Forward(flushed, st.parked), C)
    BY <1>2, <1>3, <2>1, <2>2, SoundForward, FinalForward
  <2>4. Typed(Forward(flushed, st.parked), S)
    BY <1>1, <2>1, TypedForward
  <2> QED
    BY <2>3, <2>4, FinalDrain
<1> QED
  BY <1>4, <1>5 DEF FlushQueue, flushed

(* forwarding a predecessor of the handshake, *)
LEMMA FinalPredecessor ==
  ASSUME NEW S \in SUBSET Requests, NEW C, NEW st, Sound(st, S, C, {}), Final(st, C),
         OwnHandshakeIds, FreshIds, Typed(st, S), workerGeneration \in Nat
  PROVE  Final(ForwardPredecessor(st), C)
<1>1. ASSUME st.predecessors # 0, st.queue # << >>
      PROVE  Final(ForwardPredecessor(st), C)
  <2> DEFINE next == Head(st.queue)
             u == [st EXCEPT !.queue = Tail(@)]
             v == [st EXCEPT !.queue = Tail(@), !.predecessors = @ - 1]
  <2>1. Typed(u, S) /\ next \in S /\ TakeEffect(st, u) /\ Sound(u, S, C, {next})
    BY <1>1, SoundTake
  <2>2. v = [u EXCEPT !.predecessors = @ - 1] /\ u.predecessors = st.predecessors
    BY DEF Typed, Is, StateFields
  <2>3. ForwardPredecessor(st) = Forward(v, next)
    BY <1>1 DEF ForwardPredecessor
  <2> HIDE DEF u, v, next
  <2>4. Typed(v, S) /\ Settles(u, v, S)
    BY <1>1, <2>1, <2>2 DEF Typed, Is, StateFields, MAX_SUPERVISOR_QUEUE, Settles
  <2>5. SamePipes(u, v) /\ SameReplies(u, v) /\ v.pending = u.pending
    BY <2>1, <2>2 DEF Typed, Is, StateFields, SamePipes, SameReplies
  <2>6. SamePipes(st, v) /\ SameReplies(st, v) /\ v.pending = st.pending
    BY <2>1, <2>5 DEF TakeEffect, SamePipes, SameReplies
  <2>7. Typed(v, Requests) /\ Typed(u, Requests) /\ Typed(st, Requests)
    BY <2>1, <2>4, TypedMore
  <2>8. Sound(v, S, C, {next})
    BY <2>1, <2>4, <2>7, SoundSettles
  <2>9. Final(v, C)
    BY <2>6, <2>7, FinalSame
  <2> QED
    BY <2>1, <2>3, <2>7, <2>8, <2>9, FinalForward
<1> QED
  BY <1>1 DEF ForwardPredecessor

(* and the handshake sent to a worker that is ready. *)
LEMMA FinalSendHandshake ==
  ASSUME NEW S \in SUBSET Requests, NEW C, NEW st, Sound(st, S, C, {}), Final(st, C),
         OwnHandshakeIds, FreshIds, Typed(st, S), workerGeneration \in Nat,
         st.initializeRequest # None
  PROVE  Final(SendHandshake(st), C)
<1> DEFINE first == ForwardPredecessor(st)
           released == ForwardPredecessor(first)
           ready == [released EXCEPT !.predecessors = 0, !.replaying = st.clientInitialized]
           request == st.initializeRequest
<1>1. Typed(first, S) /\ Sound(first, S, C, {}) /\ Final(first, C)
  BY TypedPredecessor, SoundPredecessor, FinalPredecessor
<1> HIDE DEF first
<1>2. Typed(released, S) /\ Sound(released, S, C, {}) /\ Final(released, C)
  BY <1>1, TypedPredecessor, SoundPredecessor, FinalPredecessor
<1> HIDE DEF released
<1>3. Typed(ready, S) /\ Settles(released, ready, S) /\ Ends(released, ready, C)
  BY <1>2 DEF Typed, Is, StateFields, Settles, Ends, MAX_SUPERVISOR_QUEUE
<1>4. SendHandshake(st) = Forward(ready, request)
  BY DEF SendHandshake, released, first
<1>5. request \in S /\ Initialize(request)
  BY DEF Typed, Handshakes
<1> HIDE DEF ready, request
<1>6. Typed(ready, Requests) /\ Typed(released, Requests)
  BY <1>2, <1>3, TypedMore
<1>7. Sound(ready, S, C, {}) /\ Final(ready, C)
  BY <1>2, <1>3, <1>6, SoundSettles, FinalEnds
<1>8. Sound(ready, S, C, {request})
  BY <1>5, <1>6, <1>7, SoundHand
<1> QED
  BY <1>4, <1>5, <1>6, <1>7, <1>8, FinalForward

(* The requests that wait have no answer yet when startup fails, *)
LEMMA FinalFailQueued ==
  ASSUME NEW S \in SUBSET Requests, NEW C, NEW st, Sound(st, S, C, {}), Typed(st, S),
         Final(st, C)
  PROVE  Final(FailQueued(st), C)
<1> DEFINE t == FailQueued(st)
           f == Answered(st, Queued(st))
<1>1. FailQueuedEffect(st, t) /\ Typed(st, Requests)
  BY FailQueuedFields, TypedMore DEF Typed
<1> HIDE DEF t
<1>2. \A q \in Queued(st) : Initialize(q) \/ (st.answers[q] = 0 /\ q \notin C)
  <2>1. st.queue \in Seq(S)
    BY DEF Typed
  <2> QED
    BY <2>1 DEF Sound, Tracks, Live, Queued
<1>3. \A q \in {st.parked} \cap Requests : Initialize(q)
  BY SupervisorAssumption DEF Typed, Handshakes, SupervisorAssumption
<1>4. st.answers \in [Requests -> 0 .. 2] /\ f \in [Requests -> 0 .. 2]
  BY AnsweredType DEF Typed
<1>5. \A q \in Requests : /\ q \notin Queued(st) => f[q] = st.answers[q]
                          /\ st.answers[q] = 0 => f[q] <= 1
  BY <1>4, AnsweredNew
<1> HIDE DEF f
<1>6. \A q \in Requests : q # st.parked => t.answers[q] = f[q]
  <2>1. t.answers = Answered([answers |-> f], {st.parked} \cap Requests)
    BY <1>1 DEF FailQueuedEffect, f
  <2> QED
    BY <1>4, <2>1 DEF Answered
<1>7. t.held = st.held /\ t.tombstones = st.tombstones
      /\ \A q \in st.pending : Initialize(q) \/ q \in t.pending
  BY <1>1, RetainedInitializes DEF FailQueuedEffect
<1>8. Ends(st, t, C)
  BY <1>2, <1>3, <1>5, <1>6, <1>7 DEF Ends
<1>9. Final(t, C)
  BY <1>1, <1>8, FinalEnds
<1> QED
  BY <1>9 DEF t

(* nor have those that were forwarded when their worker is lost, *)
LEMMA FinalFailPending ==
  ASSUME NEW S \in SUBSET Requests, NEW C, NEW st, Sound(st, S, C, {}), Typed(st, S),
         Final(st, C), st.held = {}
  PROVE  Final(FailPending(st), C)
<1> DEFINE lost == {r \in st.pending : ~Retained(st, r)}
           u == Release(st, lost)
           t == AnswerAll(u, lost)
<1>1. FailPending(st) = t /\ lost \subseteq st.pending
  BY DEF FailPending
<1> HIDE DEF lost, t
<1>2. ReleaseEffect(st, u, lost) /\ Typed(st, Requests)
  BY ReleaseFields, TypedMore DEF Typed
<1> HIDE DEF u
<1>3. AnswerEffect(u, t, lost)
  BY <1>2, AnswerFields DEF ReleaseEffect, t
<1>4. t.held = {} /\ t.answers = Answered(st, lost)
  BY <1>2, <1>3 DEF ReleaseEffect, AnswerEffect, Answered, SamePipes
<1>5. \A q \in lost : Initialize(q) \/ (st.answers[q] = 0 /\ q \notin C)
  BY <1>1 DEF Sound, Tracks, Live, Typed
<1>6. Ends(st, t, C)
  BY <1>2, <1>4, <1>5, AnsweredNew DEF Ends, Typed
<1> QED
  BY <1>1, <1>2, <1>6, FinalEnds

(* and the worker that is lost answers nothing any more; *)
LEMMA FinalLose ==
  ASSUME NEW C, NEW st, Typed(st, Requests), Final(st, C)
  PROVE  Final(LoseWorker(st), C) /\ LoseWorker(st).held = {}
<1> DEFINE t == LoseWorker(st)
<1>1. LoseEffect(st, t)
  BY LoseFields DEF Typed
<1> HIDE DEF t
<1>2. Ends(st, t, C) /\ t.held = {}
  BY <1>1 DEF LoseEffect, Ends, SameReplies
<1>3. Final(t, C) /\ t.held = {}
  BY <1>2, FinalEnds
<1> QED
  BY <1>3 DEF t

(* so the loss of a worker keeps the answers final. *)
LEMMA FinalAfterLoss ==
  ASSUME NEW S \in SUBSET Requests, NEW C, NEW st, Sound(st, S, C, {}), Typed(st, S),
         Final(st, C)
  PROVE  Final(AfterLoss(st), C)
<1>1. Typed(st, Requests) /\ Settles(st, LoseWorker(st), S) /\ Typed(LoseWorker(st), S)
  BY TypedMore, SettlesLose, TypedLose DEF Typed
<1>2. /\ Sound(LoseWorker(st), S, C, {}) /\ Final(LoseWorker(st), C)
      /\ LoseWorker(st).held = {}
  BY <1>1, SoundSettles, FinalLose
<1> QED
  BY <1>1, <1>2, FinalFailQueued, FinalFailPending DEF AfterLoss

(* The result of initialize does, *)
LEMMA FinalFinish ==
  ASSUME NEW S \in SUBSET Requests, NEW C, NEW st, Sound(st, S, C, {}), Final(st, C),
         OwnHandshakeIds, FreshIds, Typed(st, S), workerGeneration \in Nat,
         st.initializeRequest # None
  PROVE  Final(FinishHandshake(st), C)
<1> DEFINE request == st.initializeRequest
           done == [st EXCEPT !.pending = {q \in @ : ~Retained(st, q)}]
           replayed == [done EXCEPT !.replaying = FALSE, !.told = st.initialized]
           first == [done EXCEPT !.clientInitialized = TRUE]
           answered == Answer(first, request)
<1>1. Typed(done, S) /\ Settles(st, done, S) /\ Ends(st, done, C)
  BY RetainedInitializes DEF Typed, Is, StateFields, Settles, Ends
<1>2. request \in S /\ Initialize(request) /\ Typed(st, Requests)
  BY TypedMore DEF Typed, Handshakes
<1>3. FinishHandshake(st) \in {FlushQueue(replayed), FlushQueue(answered)}
  BY DEF FinishHandshake
<1> HIDE DEF done, request
<1>4. Sound(done, S, C, {}) /\ Typed(done, Requests) /\ Final(done, C)
  BY <1>1, <1>2, SoundSettles, FinalEnds, TypedMore
<1>5. Typed(replayed, S) /\ Settles(done, replayed, S) /\ Ends(done, replayed, C)
  BY <1>1 DEF Typed, Is, StateFields, Settles, Ends
<1>6. Typed(first, S) /\ Settles(done, first, S) /\ Ends(done, first, C)
  BY <1>1 DEF Typed, Is, StateFields, Settles, Ends
<1> HIDE DEF replayed, first
<1>7. Typed(answered, S) /\ AnswerEffect(first, answered, {request})
  BY <1>6, TypedAnswer, AnswerFields DEF Answer, Typed
<1> HIDE DEF answered
<1>8. Settles(done, answered, S)
  BY <1>2, <1>6, <1>7 DEF Settles, AnswerEffect, SameTracking, SamePipes, Answered
<1>9. Sound(replayed, S, C, {}) /\ Sound(answered, S, C, {})
  BY <1>4, <1>5, <1>8, SoundSettles
<1>10. Final(replayed, C) /\ Final(first, C) /\ Typed(first, Requests)
  BY <1>4, <1>5, <1>6, FinalEnds, TypedMore
<1>11. Ends(first, answered, C)
  BY <1>2, <1>7, AnsweredNew DEF AnswerEffect, SameTracking, SamePipes, Ends, Answered
<1>12. Final(answered, C)
  BY <1>10, <1>11, FinalEnds
<1> QED
  BY <1>3, <1>5, <1>7, <1>9, <1>10, <1>12, FinalFlush

(* its error, *)
LEMMA FinalReject ==
  ASSUME NEW S \in SUBSET Requests, NEW C, NEW st, Final(st, C), Typed(st, S),
         st.initializeRequest # None
  PROVE  Final(RejectHandshake(st), C)
<1> DEFINE request == st.initializeRequest
           done == [st EXCEPT !.pending = {q \in @ : ~Retained(st, q)}]
           unparked == [done EXCEPT
            !.parked = IF @ # None /\ Retained(st, @) THEN None ELSE @]
           answered == Answer(unparked, request)
<1>1. Typed(done, S) /\ Ends(st, done, C)
  BY RetainedInitializes DEF Typed, Is, StateFields, Ends
<1>2. request \in S /\ Initialize(request) /\ Typed(st, Requests)
  BY TypedMore DEF Typed, Handshakes
<1>3. RejectHandshake(st) \in {done, answered}
  BY DEF RejectHandshake
<1> HIDE DEF done, request
<1>4. Is(unparked) /\ SamePipes(done, unparked) /\ SameReplies(done, unparked)
      /\ unparked.pending = done.pending
  BY <1>1 DEF Typed, Is, StateFields, SamePipes, SameReplies
<1> HIDE DEF unparked
<1>5. AnswerEffect(unparked, answered, {request})
  BY <1>4, AnswerFields DEF Answer
<1> HIDE DEF answered
<1>6. Ends(done, answered, C)
  BY <1>2, <1>4, <1>5 DEF Ends, AnswerEffect, SameTracking, SamePipes, SameReplies, Answered
<1>7. Final(done, C) /\ Typed(done, Requests)
  BY <1>1, <1>2, FinalEnds, TypedMore
<1> QED
  BY <1>3, <1>6, <1>7, FinalEnds

(* a response to a request that had none, *)
LEMMA FinalAnswer ==
  ASSUME NEW C, NEW st, Final(st, C), Typed(st, Requests), NEW r,
         r \in Requests => Initialize(r) \/ (st.answers[r] = 0 /\ r \notin C)
  PROVE  Final(Answer(st, r), C)
<1> DEFINE t == AnswerAll(st, {r})
<1>1. AnswerEffect(st, t, {r})
  BY AnswerFields DEF Typed
<1> HIDE DEF t
<1>2. Ends(st, t, C)
  BY <1>1, AnsweredNew DEF AnswerEffect, SameTracking, SamePipes, Ends, Typed
<1>3. Final(t, C)
  BY <1>2, FinalEnds
<1> QED
  BY <1>3 DEF t, Answer

(* the admission of a request, *)
LEMMA FinalRouteRequest ==
  ASSUME NEW S \in SUBSET Requests, NEW C, NEW st, Sound(st, S, C, {}), Typed(st, S),
         OwnHandshakeIds, FreshIds, NEW r \in Requests, ~Initialize(r), New(st, S, C, r),
         workerGeneration \in Nat, Final(st, C)
  PROVE  Final(RouteRequest(st, r), C)
<1> DEFINE u == LockEra(st, r)
           T == S \cup {r}
<1>1. Typed(u, S) /\ Settles(st, u, S) /\ LockEffect(st, u, r) /\ Typed(st, Requests)
  BY TypedLock, SettlesLock, LockFields, TypedMore DEF Typed
<1> HIDE DEF u
<1>3. RouteRequest(st, r) \in
        {Answer(u, r), Drain(Answer(u, r)), Admit(Install(u, r), r),
         [Install(u, r) EXCEPT !.queue = Append(@, r)]}
  BY DEF RouteRequest, u
<1>4. Sound(u, S, C, {}) /\ New(u, S, C, r) /\ Final(u, C) /\ Typed(u, Requests)
  <2>1. Sound(u, S, C, {}) /\ Typed(u, Requests)
    BY <1>1, TypedMore, SoundSettles
  <2>2. u.answers = st.answers /\ Ends(st, u, C)
    BY <1>1 DEF LockEffect, SameReplies, SameTracking, Ends
  <2> QED
    BY <1>1, <2>1, <2>2, FinalEnds DEF New
<1>5. r \in T /\ T \in SUBSET Requests /\ r \notin S /\ r \notin C /\ u.answers[r] = 0
  BY <1>4 DEF New, Sound, Tracks
<1> HIDE DEF T
<1>6. Typed(u, T)
  BY <1>1, <1>5, TypedMore DEF T
<1>7. Sound(Answer(u, r), T, C, {}) /\ Typed(Answer(u, r), T) /\ Final(Answer(u, r), C)
  <2>1. Sound(Answer(u, r), T, C, {}) /\ Typed(Answer(u, r), T)
    BY <1>1, <1>4, <1>5, <1>6, SoundAnswerNew, TypedAnswer DEF Answer, T
  <2> QED
    BY <1>4, <1>5, <2>1, FinalAnswer
<1>8. Final(Drain(Answer(u, r)), C)
  BY <1>5, <1>7, FinalDrain
<1> DEFINE v == Install(u, r)
<1>9. Sound(v, T, C, {r}) /\ Typed(v, T) /\ Typed(v, Requests) /\ Final(v, C)
  <2>1. Sound(v, T, C, {r}) /\ Typed(v, T) /\ Typed(v, Requests)
    BY <1>1, <1>4, <1>5, <1>6, SoundInstallNew, TypedInstall, TypedMore DEF T
  <2>2. InstallEffect(u, v, r)
    BY <1>1, InstallFields DEF Typed
  <2> QED
    BY <1>4, <2>1, <2>2, FinalSame DEF InstallEffect
<1> HIDE DEF v
<1>10. Sound(Forward(v, r), T, C, {}) /\ Typed(Forward(v, r), T) /\ Final(Forward(v, r), C)
  BY <1>5, <1>9, SoundForward, TypedForward, FinalForward
<1>11. Final(Admit(v, r), C)
  BY <1>5, <1>10, FinalDrain DEF Admit
<1>12. Final([v EXCEPT !.queue = Append(@, r)], C)
  <2>1. QueueEffect(v, [v EXCEPT !.queue = Append(@, r)], r)
    BY <1>9, EnqueueFields DEF Typed
  <2> QED
    BY <1>9, <2>1, FinalSame DEF QueueEffect
<1> QED
  BY <1>3, <1>7, <1>8, <1>11, <1>12 DEF v

(* of an initialize, *)
LEMMA FinalRouteInitialize ==
  ASSUME NEW S \in SUBSET Requests, NEW C, NEW st, Sound(st, S, C, {}), Typed(st, S),
         OwnHandshakeIds, FreshIds, NEW r \in S, Initialize(r), Final(st, C),
         workerGeneration \in Nat
  PROVE  Final(RouteInitialize(st, r), C)
<1> DEFINE legacy == [st EXCEPT !.era = "legacy"]
           captured == [legacy EXCEPT !.initializeRequest = r, !.clientInitialized = FALSE]
           now == [captured EXCEPT !.predecessors = 0]
           cleared == ClearHandshake(legacy)
           count == IF st.era = "unselected" THEN Len(st.queue) ELSE 0
           held == [captured EXCEPT !.parked = r, !.predecessors = count]
<1>1. Typed(legacy, S) /\ Settles(st, legacy, S) /\ Ends(st, legacy, C) /\ Typed(st, Requests)
  BY TypedMore DEF Typed, Is, StateFields, Settles, Ends
<1>2. RouteInitialize(st, r) \in {Answer(st, r), Answer(cleared, r), Forward(now, r), held}
  BY DEF RouteInitialize
<1> HIDE DEF legacy
<1>3. Typed(captured, S) /\ Settles(legacy, captured, S) /\ Ends(legacy, captured, C)
  BY <1>1 DEF Typed, Is, StateFields, Handshakes, Settles, Ends
<1> HIDE DEF captured
<1>4. /\ Typed(now, S) /\ Settles(captured, now, S)
      /\ Ends(captured, now, C) /\ Ends(captured, held, C)
  BY <1>3 DEF Typed, Is, StateFields, Settles, Ends, MAX_SUPERVISOR_QUEUE
<1> HIDE DEF now, held
<1>5. /\ Sound(legacy, S, C, {}) /\ Typed(legacy, Requests) /\ Typed(captured, Requests)
      /\ Final(legacy, C)
  BY <1>1, <1>3, SoundSettles, FinalEnds, TypedMore
<1>6. Sound(captured, S, C, {}) /\ Final(captured, C)
  BY <1>3, <1>5, SoundSettles, FinalEnds
<1>7. Sound(now, S, C, {}) /\ Typed(now, Requests) /\ Final(now, C) /\ Final(held, C)
  BY <1>4, <1>5, <1>6, SoundSettles, FinalEnds, TypedMore
<1>8. Final(Forward(now, r), C)
  BY <1>7, SoundHand, FinalForward
<1>9. Typed(cleared, Requests) /\ Final(cleared, C)
  <2>1. ClearEffect(legacy, cleared) /\ Typed(cleared, Requests)
    <3>1. Is(legacy) /\ Requests \in SUBSET Requests
      BY <1>5 DEF Typed
    <3>2. ClearEffect(legacy, cleared)
      BY <3>1, ClearFields
    <3>3. Typed(cleared, Requests)
      BY <1>5, <3>1, TypedClear
    <3> QED
      BY <3>2, <3>3
  <2> HIDE DEF cleared
  <2>2. \A q \in legacy.pending : Initialize(q) \/ q \in cleared.pending
    BY <2>1, RetainedInitializes DEF ClearEffect
  <2>3. Ends(legacy, cleared, C)
    BY <2>1, <2>2 DEF ClearEffect, SameReplies, Ends
  <2> QED
    BY <1>5, <2>1, <2>3, FinalEnds
<1> QED
  BY <1>1, <1>2, <1>7, <1>8, <1>9, FinalAnswer

(* and so of every request. *)
LEMMA FinalRoute ==
  ASSUME NEW S \in SUBSET Requests, NEW C, NEW st, Sound(st, S, C, {}), Typed(st, S),
         OwnHandshakeIds, FreshIds, NEW r \in Requests, New(st, S, C, r), Final(st, C),
         workerGeneration \in Nat
  PROVE  Final(Route(st, r), C)
<1>1. CASE Initialize(r)
  <2>1. Typed(st, S \cup {r}) /\ Sound(st, S \cup {r}, C, {})
    BY <1>1, TypedMore, SoundMoreInitialize
  <2> QED
    BY <1>1, <2>1, FinalRouteInitialize DEF Route
<1>2. CASE ~Initialize(r)
  <2>1. Final(Answer(st, r), C)
    BY TypedMore, FinalAnswer DEF New, Sound, Tracks
  <2> QED
    BY <1>2, <2>1, FinalRouteRequest DEF Route
<1> QED
  BY <1>1, <1>2

(* A request without an answer may be cancelled. *)
LEMMA FinalMore ==
  ASSUME NEW st, NEW C, Final(st, C), NEW r, r \in Requests => st.answers[r] = 0
  PROVE  Final(st, C \cup {r})
BY DEF Final, Once

(* The deadline of a queued validate-project keeps the answers final, *)
LEMMA FinalQueuedDeadline ==
  ASSUME NEW S \in SUBSET Requests, NEW C, NEW st, Sound(st, S, C, {}), Typed(st, S),
         OwnHandshakeIds, FreshIds, NEW r \in Queued(st), ~Initialize(r),
         workerGeneration \in Nat, Final(st, C)
  PROVE  Final(Drain(TimedOut(st, r)), C)
<1> DEFINE t == TimedOut(st, r)
<1>1. Sound(t, S, C, {}) /\ Typed(t, S) /\ TimedOutEffect(st, t, r)
  BY SoundTimedOut
<1> HIDE DEF t
<1>2. st.answers \in [Requests -> 0 .. 2] /\ Typed(st, Requests)
  BY TypedMore DEF Typed
<1>3. r \in Requests /\ st.answers[r] = 0 /\ r \notin C
  <2>1. r \in Requests
    BY DEF Typed, Queued
  <2> QED
    BY <2>1 DEF Sound, Tracks, Live
<1>4. Ends(st, t, C)
  BY <1>1, <1>2, <1>3, AnsweredNew DEF Ends, TimedOutEffect
<1>5. Final(t, C)
  BY <1>2, <1>4, FinalEnds
<1>6. Final(Drain(t), C)
  BY <1>1, <1>5, FinalDrain
<1> QED
  BY <1>6 DEF t

(* so does a cancellation, whose tombstone will drop the worker's answer, *)
LEMMA FinalCancel ==
  ASSUME NEW S \in SUBSET Requests, NEW C, NEW st, Sound(st, S, C, {}), Typed(st, S),
         OwnHandshakeIds, FreshIds, NEW r \in S, ~Initialize(r), r \in Live(st, {}),
         r \in Cancellable, workerGeneration \in Nat, Final(st, C)
  PROVE  Final(Cancel(st, r), C \cup {r})
<1> DEFINE t == Cancelled(st, r)
<1>1. /\ Sound(t, S, C \cup {r}, {}) /\ Typed(t, S)
      /\ IF r \in Queued(st) THEN UnqueuedEffect(st, t, r) ELSE ReleaseEffect(st, t, {r})
  BY SoundCancelled
<1> HIDE DEF t
<1>2. Typed(st, Requests) /\ r.id \in Ids
  BY TypedMore DEF Ids
<1>3. st.answers[r] = 0
  BY DEF Sound, Tracks
<1>4. Final(st, C \cup {r})
  BY <1>3, FinalMore
<1>5. ASSUME UnqueuedEffect(st, t, r)
      PROVE  Ends(st, t, C \cup {r})
  BY <1>5 DEF UnqueuedEffect, SamePipes, SameReplies, Ends
<1>6. ASSUME ReleaseEffect(st, t, {r})
      PROVE  Ends(st, t, C \cup {r})
  <2>1. /\ t.held = st.held /\ t.pending = st.pending \ {r} /\ t.answers = st.answers
        /\ t.tombstones = Entombed(st, {r})
    BY <1>6 DEF ReleaseEffect, SamePipes
  <2>2. \A id \in Ids : t.tombstones[id] \in {st.tombstones[id], workerGeneration}
    BY <2>1 DEF Entombed
  <2>3. Dropped(t, r, workerGeneration)
    BY <1>2, <2>1 DEF Entombed, Dropped
  <2> QED
    BY <2>1, <2>2, <2>3 DEF Ends
<1>7. Final(t, C \cup {r})
  BY <1>1, <1>2, <1>4, <1>5, <1>6, FinalEnds
<1>8. Final(Drain(t), C \cup {r})
  BY <1>1, <1>7, FinalDrain
<1> QED
  BY <1>8, CancelDrains DEF t

(* and an answer of the worker: it is dropped, or the first of its request. *)
LEMMA FinalDeliver ==
  ASSUME NEW S \in SUBSET Requests, NEW C, NEW st, Sound(st, S, C, {}), Typed(st, S),
         OwnHandshakeIds, FreshIds, NEW r \in S, r \notin st.held,
         Initialize(r) \/ r \notin Queued(st),
         Initialize(r) \/ r \in st.pending \/ Dropped(st, r, workerGeneration),
         workerGeneration \in Nat \ {0}, Final(st, C)
  PROVE  Final(Deliver(st, r), C)
<1> DEFINE t == Delivered(st, r)
           owners == Owners(st, r)
           told == Told(st, r)
<1>1. /\ Sound(t, S, C, {}) /\ Typed(t, S)
      /\ t.pending = st.pending \ owners /\ t.held = st.held
      /\ t.tombstones = st.tombstones /\ t.answers = Answered(st, told)
  <2>1. Sound(t, S, C, {}) /\ Typed(t, S)
    BY SoundDelivered
  <2>2. DeliveredEffect(st, t, r)
    BY SoundDelivered
  <2> QED
    BY <2>1, <2>2 DEF DeliveredEffect
<1> HIDE DEF t
<1>2. /\ Typed(st, Requests) /\ st.answers \in [Requests -> 0 .. 2]
      /\ st.pending \subseteq Requests
  BY TypedMore DEF Typed
<1>3. ASSUME ~Dropped(st, r, workerGeneration)
      PROVE  Final(Drain(t), C)
  <2>1. owners \subseteq {r} /\ \A q \in told : q = r
    BY <1>3 DEF Sound, OneId, Live, Told, Owners, OwnHandshakeIds, Typed
  <2>2. Initialize(r) \/ (st.answers[r] = 0 /\ r \notin C)
    BY <1>3 DEF Sound, Tracks, Live
  <2> HIDE DEF told, owners
  <2>3. \A q \in Requests : \/ Initialize(q) \/ t.answers[q] = st.answers[q]
                            \/ t.answers[q] <= 1 /\ st.answers[q] = 0 /\ q \notin C
    BY <1>1, <1>2, <2>1, <2>2, AnsweredNew
  <2>4. Ends(st, t, C)
    BY <1>1, <2>1, <2>3 DEF Ends
  <2>5. Final(t, C)
    BY <1>2, <2>4, FinalEnds
  <2> QED
    BY <1>1, <2>5, FinalDrain
<1>4. ASSUME Dropped(st, r, workerGeneration)
      PROVE  Deliver(st, r) = st
  BY <1>4, DeliverDrains DEF Dropped
<1> QED
  BY <1>3, <1>4, DeliverDrains DEF t

(* Tombstones are purged when the generation that could still answer is gone. *)
LEMMA FinalPurge ==
  ASSUME NEW C, NEW st, Typed(st, Requests), Final(st, C), workerGeneration \in Nat,
         NEW g \in Nat, st.held = {} \/ g < workerGeneration
  PROVE  Final(Purge(st, g), C)
<1> DEFINE t == Purge(st, g)
<1>1. PurgeEffect(st, t, g)
  BY PurgeFields DEF Typed
<1> HIDE DEF t
<1>2. ASSUME NEW r \in t.held, ~Initialize(r), r \notin t.pending
      PROVE  Dropped(t, r, workerGeneration)
  <2>1. r \in st.held /\ r \notin st.pending /\ r.id \in Ids
    BY <1>1, <1>2 DEF PurgeEffect, SamePipes, SameTracking, Typed, Ids
  <2>2. Dropped(st, r, workerGeneration)
    BY <1>2, <2>1 DEF Final, Awaited
  <2> QED
    BY <1>1, <2>1, <2>2 DEF PurgeEffect, Dropped
<1>3. Once(t, C)
  BY <1>1 DEF PurgeEffect, Final, Once
<1>4. Final(t, C)
  BY <1>2, <1>3 DEF Final, Awaited
<1> QED
  BY <1>4 DEF t

(* The current worker is the latest that was spawned. *)
LatestWorker == child # NoChild => child = workerGeneration

(* Whatever replaces a worker is newer. *)
LEMMA LatestWorkerStep ==
  ASSUME LatestWorker, [Next]_poolVars
  PROVE  LatestWorker'
<1>1. ASSUME NEW outcome \in TerminationOutcomes,
             \/ WatchdogFires(outcome) \/ InitializeRejected(outcome) \/ WorkerFaults(outcome)
      PROVE  LatestWorker'
  BY <1>1 DEF LatestWorker, WatchdogFires, InitializeRejected, WorkerFaults, StartupFails,
              NoCurrentChild
<1>2. ASSUME NEW outcome \in TerminationOutcomes, NEW spawned \in SpawnOutcomes,
             RecoverTimedOutWorker(outcome, spawned)
      PROVE  LatestWorker'
  BY <1>2 DEF LatestWorker, RecoverTimedOutWorker, NoCurrentChild, NewWorker, currentVars,
              processVars
<1>3. ASSUME NEW g \in Generations,
             \/ TerminatedWorkerExits(g) \/ UnspawnedChildCloses(g)
             \/ \E success \in BOOLEAN :
                  FinishTreeTermination(g, success) \/ FinishTokenRetry(g, success)
      PROVE  LatestWorker'
  BY <1>3 DEF LatestWorker, TerminatedWorkerExits, UnspawnedChildCloses, FinishTreeTermination,
              FinishTokenRetry, currentVars, processVars
<1>4. ASSUME \/ AdoptActiveChild \/ CleanupRetryTimerFires \/ UNCHANGED poolVars
             \/ \E stoodDown \in BOOLEAN : CurrentWorkerExits(stoodDown)
             \/ \E spawned \in SpawnOutcomes : RestartTimerFires(spawned)
             \/ \E outcome \in [liveChildren -> TerminationOutcomes] : Shutdown(outcome)
      PROVE  LatestWorker'
  BY <1>4 DEF LatestWorker, AdoptActiveChild, CleanupRetryTimerFires, poolVars, currentVars,
               processVars, CurrentWorkerExits, RestartTimerFires, NewWorker, NoCurrentChild,
               Shutdown
<1> QED
  BY <1>1, <1>2, <1>3, <1>4 DEF Next

(* Before the shutdown every callback keeps the answers final. *)
LEMMA FinalStep ==
  ASSUME SupervisorTyped, OwnHandshakeIds, FreshIds, Sound(s, sent, cancelled, {}),
         Attached(s, childReady, Up), LatestWorker, IInv, Final(s, cancelled),
         workerGeneration \in Nat, SupervisorNext, ~shuttingDown'
  PROVE  Awaited(s', workerGeneration') /\ Once(s', cancelled')
<1>1. /\ Typed(s, sent) /\ sent \in SUBSET Requests /\ cancelled \subseteq sent
      /\ Typed(s, Requests) /\ Is(s)
  BY TypedMore DEF SupervisorTyped, Typed
<1>2. child = NoChild => s.held = {}
  BY DEF Attached, Up
<1>3. child # NoChild => child \in liveChildren /\ child = workerGeneration /\ child \in Nat \ {0}
  BY DEF LatestWorker, IInv, PoolShape, TypeOK, ProcessesOK, NoChild
<1>4. Final(Drain(s), cancelled)
  BY <1>1, FinalDrain
<1>5. /\ Sound(LoseWorker(s), sent, cancelled, {}) /\ Typed(LoseWorker(s), sent)
      /\ Final(LoseWorker(s), cancelled)
  <2>1. Sound(LoseWorker(s), sent, cancelled, {}) /\ Typed(LoseWorker(s), sent)
    BY <1>1, SettlesLose, SoundSettles, TypedLose
  <2>2. Final(LoseWorker(s), cancelled)
    BY <1>1, FinalLose
  <2> QED
    BY <2>1, <2>2
<1>6. ASSUME Final(s', cancelled'), workerGeneration' = workerGeneration \/ s'.held = {}
      PROVE  Awaited(s', workerGeneration') /\ Once(s', cancelled')
  BY <1>6 DEF Final, Awaited
<1>7. ASSUME NEW r \in Requests, ClientSends(r)
      PROVE  Final(s', cancelled') /\ workerGeneration' = workerGeneration
  <2>1. New(s, sent, cancelled, r)
    <3>1. ASSUME NEW q \in sent, q.id = r.id
          PROVE  s.answers[q] # 0 \/ q \in cancelled
      <4>1. Closed(q)
        BY <1>7, <3>1 DEF ClientSends
      <4> QED
        BY <4>1, <1>1 DEF Closed, Typed
    <3> QED
      BY <1>1, <1>7, <3>1 DEF New, ClientSends
  <2>2. Final(Route(s, r), cancelled)
    BY <1>1, <2>1, FinalRoute
  <2> QED
    BY <1>7, <2>2 DEF ClientSends, poolVars, processVars
<1>8. ASSUME NEW r \in Requests, ClientCancels(r)
      PROVE  Final(s', cancelled') /\ workerGeneration' = workerGeneration
  <2>1. r \in sent /\ ~Initialize(r) /\ ~Closed(r) /\ r \in Cancellable
    BY <1>8 DEF ClientCancels
  <2>2. s.answers[r] = 0 /\ r \notin cancelled
    BY <2>1, <1>1 DEF Closed, Typed
  <2>3. r \in Live(s, {})
    BY <2>1, <2>2 DEF Sound, Tracks
  <2>4. Final(Cancel(s, r), cancelled \cup {r})
    BY <1>1, <2>1, <2>3, FinalCancel
  <2> QED
    BY <1>8, <2>4 DEF ClientCancels, poolVars, processVars
<1>9. ASSUME NEW r \in Requests, WorkerAnswers(r)
      PROVE  Final(s', cancelled) /\ workerGeneration' = workerGeneration
  <2> DEFINE st == [s EXCEPT !.held = @ \ {r}]
  <2>1. r \in sent /\ r \in s.held /\ child # NoChild /\ workerGeneration' = workerGeneration
    BY <1>1, <1>9 DEF WorkerAnswers, Typed, AdoptActiveChild, poolVars, processVars
  <2>2. /\ Typed(st, sent) /\ Settles(s, st, sent) /\ Ends(s, st, cancelled)
        /\ st.initializeRequest = s.initializeRequest /\ st.queue = s.queue
        /\ st.held = s.held \ {r} /\ st.pending = s.pending /\ st.tombstones = s.tombstones
    BY <1>1 DEF Typed, Is, StateFields, Settles, Ends
  <2>3. \/ s.initializeRequest # None /\ s' = FinishHandshake(st)
        \/ s' = Deliver(st, r)
    BY <1>9 DEF WorkerAnswers, AnswersHandshake
  <2> HIDE DEF st
  <2>4. Sound(st, sent, cancelled, {}) /\ Final(st, cancelled)
    BY <1>1, <2>2, SoundSettles, FinalEnds
  <2>5. Initialize(r) \/ r \notin Queued(st)
    BY <2>1, <2>2 DEF Sound, OnePlace, Queued
  <2>6. Initialize(r) \/ r \in st.pending \/ Dropped(st, r, workerGeneration)
    BY <2>1, <2>2 DEF Final, Awaited, Dropped
  <2>7. Final(Deliver(st, r), cancelled)
    BY <1>1, <1>3, <2>1, <2>2, <2>4, <2>5, <2>6, FinalDeliver
  <2>8. s.initializeRequest # None => Final(FinishHandshake(st), cancelled)
    BY <1>1, <2>2, <2>4, FinalFinish
  <2> QED
    BY <2>1, <2>3, <2>7, <2>8
<1>10. \A r \in s.armed : ~Initialize(r)
  BY Kinds DEF Sound, Deadlines
<1>11. ASSUME NEW r \in Requests, QueuedDeadline(r)
       PROVE  Final(s', cancelled) /\ workerGeneration' = workerGeneration
  <2>1. s' = Drain(TimedOut(s, r)) /\ r \in Queued(s) /\ ~Initialize(r)
    BY <1>10, <1>11 DEF QueuedDeadline, TimedOut
  <2>2. workerGeneration' = workerGeneration
    BY <1>11 DEF QueuedDeadline, poolVars, processVars
  <2> QED
    BY <1>1, <2>1, <2>2, FinalQueuedDeadline
<1>12. ASSUME ClientInitialized \/ StdinBreaks \/ CleanupTimer
       PROVE  Final(s', cancelled) /\ workerGeneration' = workerGeneration
  <2>1. Ends(s, s', cancelled)
    <3>1. ASSUME ClientInitialized
          PROVE  Ends(s, s', cancelled)
      BY <1>1, <3>1 DEF ClientInitialized, Ends, Is, StateFields
    <3>2. ASSUME StdinBreaks \/ CleanupTimer
          PROVE  Ends(s, s', cancelled)
      BY <1>1, <3>2 DEF StdinBreaks, CleanupTimer, Ends, Is, StateFields
    <3> QED
      BY <1>12, <3>1, <3>2
  <2>2. workerGeneration' = workerGeneration
    BY <1>12 DEF ClientInitialized, StdinBreaks, CleanupTimer, CleanupRetryTimerFires, poolVars,
                 processVars
  <2> QED
    BY <1>1, <2>1, <2>2, FinalEnds
<1>13. ASSUME WorkerSignalsReady
       PROVE  Final(s', cancelled) /\ workerGeneration' = workerGeneration
  <2> DEFINE st == [s EXCEPT !.marked = TRUE]
  <2>1. /\ Typed(st, sent) /\ st.initializeRequest = s.initializeRequest
        /\ Settles(s, st, sent) /\ Ends(s, st, cancelled)
    BY <1>1 DEF Typed, Is, StateFields, Settles, Ends
  <2>2. /\ s' = FlushQueue(st) \/ (s' = SendHandshake(st) /\ s.initializeRequest # None)
        /\ workerGeneration' = workerGeneration
    BY <1>13 DEF WorkerSignalsReady, AdoptActiveChild, poolVars, processVars
  <2> HIDE DEF st
  <2>3. Sound(st, sent, cancelled, {}) /\ Final(st, cancelled)
    BY <1>1, <2>1, SoundSettles, FinalEnds
  <2> QED
    BY <1>1, <2>1, <2>2, <2>3, FinalFlush, FinalSendHandshake
<1>14. ASSUME NEW outcome \in TerminationOutcomes,
               \/ StartupTimesOut(outcome) \/ WorkerBreaks(outcome)
               \/ \E r \in Requests : WorkerRejectsInitialize(r, outcome)
       PROVE  Final(s', cancelled) /\ workerGeneration' = workerGeneration
  <2>1. Final(AfterLoss(s), cancelled)
    BY <1>1, FinalAfterLoss
  <2>2. Final(FailQueued(LoseWorker(s)), cancelled)
    BY <1>1, <1>5, FinalFailQueued
  <2>3. ASSUME NEW r \in Requests, WorkerRejectsInitialize(r, outcome)
        PROVE  Final(FailQueued(LoseWorker(RejectHandshake(s))), cancelled)
    <3> DEFINE x == RejectHandshake(s)
    <3>1. s.initializeRequest # None
      BY <2>3 DEF WorkerRejectsInitialize, AnswersHandshake
    <3>2. Sound(x, sent, cancelled, {}) /\ Typed(x, sent) /\ Final(x, cancelled)
      BY <1>1, <3>1, SoundReject, TypedReject, FinalReject
    <3> HIDE DEF x
    <3>3. Typed(x, Requests) /\ Is(x)
      BY <1>1, <3>2, TypedMore DEF Typed
    <3>4. Sound(LoseWorker(x), sent, cancelled, {}) /\ Typed(LoseWorker(x), sent)
      BY <1>1, <3>2, <3>3, SettlesLose, SoundSettles, TypedLose
    <3>5. Final(LoseWorker(x), cancelled)
      BY <3>2, <3>3, FinalLose
    <3>6. Final(FailQueued(LoseWorker(x)), cancelled)
      BY <1>1, <3>4, <3>5, FinalFailQueued
    <3> QED
      BY <3>6 DEF x
  <2>4. workerGeneration' = workerGeneration
    BY <1>14 DEF StartupTimesOut, WorkerBreaks, WorkerRejectsInitialize, WatchdogFires,
                 WorkerFaults, InitializeRejected, StartupFails, processVars
  <2> QED
    BY <1>14, <2>1, <2>2, <2>3, <2>4 DEF StartupTimesOut, WorkerBreaks, WorkerRejectsInitialize
<1>15. ASSUME NEW outcome \in TerminationOutcomes, NEW spawned \in SpawnOutcomes,
              NEW r \in Requests, RunningDeadline(r, outcome, spawned)
       PROVE  Final(s', cancelled) /\ s'.held = {}
  <2> DEFINE a == Release(s, {r})
             b == [a EXCEPT !.running = None, !.barrier = None]
             settled == AnswerAll(b, {r})
             lost == IF child = NoChild THEN settled ELSE LoseWorker(settled)
  <2>1. r \in s.pending /\ ~Initialize(r) /\ r \in Requests
    BY <1>1, <1>10, <1>15 DEF RunningDeadline, Typed
  <2>2. Sound(settled, sent, cancelled, {}) /\ Typed(settled, sent)
    BY <1>1, <2>1, SoundRunningDeadline DEF Answer
  <2>3. s' \in {lost, FailQueued(lost)}
    BY <1>15 DEF RunningDeadline, Answer
  <2>4. ReleaseEffect(s, a, {r})
    BY <1>1, ReleaseFields
  <2> HIDE DEF a
  <2>5. Is(b) /\ SamePipes(a, b) /\ SameReplies(a, b)
    BY <2>4 DEF ReleaseEffect, Is, StateFields, SamePipes, SameReplies
  <2> HIDE DEF b
  <2>6. AnswerEffect(b, settled, {r})
    BY <2>5, AnswerFields
  <2>7. settled.held = s.held /\ settled.answers = Answered(s, {r})
    BY <2>4, <2>5, <2>6 DEF ReleaseEffect, AnswerEffect, SamePipes, SameReplies, Answered
  <2> HIDE DEF settled
  <2>8. Typed(settled, Requests) /\ Is(settled)
    BY <1>1, <2>2, TypedMore DEF Typed
  <2>9. /\ Sound(LoseWorker(settled), sent, cancelled, {}) /\ Typed(LoseWorker(settled), sent)
        /\ LoseEffect(settled, LoseWorker(settled))
    BY <1>1, <2>2, <2>8, SettlesLose, SoundSettles, TypedLose, LoseFields
  <2>10. /\ Sound(lost, sent, cancelled, {}) /\ Typed(lost, sent)
         /\ lost.held = {} /\ lost.answers = Answered(s, {r})
    BY <1>2, <2>2, <2>7, <2>9 DEF LoseEffect, SameReplies
  <2> HIDE DEF lost
  <2>11. s.answers[r] = 0 /\ r \notin cancelled
    BY <2>1 DEF Sound, Tracks, Live
  <2>12. Once(lost, cancelled)
    <3>1. s.answers \in [Requests -> 0 .. 2]
      BY <1>1 DEF Typed
    <3>2. \A q \in Requests :
            /\ q # r => lost.answers[q] = s.answers[q]
            /\ q = r => lost.answers[q] <= 1
      BY <2>1, <2>10, <2>11, <3>1, AnsweredNew
    <3>3. \A q \in Requests : ~Initialize(q) =>
            s.answers[q] <= 1 /\ (q \in cancelled => s.answers[q] = 0)
      BY DEF Final, Once
    <3>4. ASSUME NEW q \in Requests, ~Initialize(q)
          PROVE  lost.answers[q] <= 1 /\ (q \in cancelled => lost.answers[q] = 0)
      <4>1. CASE q = r
        BY <2>11, <3>2, <4>1
      <4>2. CASE q # r
        BY <3>2, <3>3, <3>4, <4>2
      <4> QED
        BY <4>1, <4>2
    <3> QED
      BY <3>4 DEF Once
  <2>13. Final(lost, cancelled)
    BY <2>10, <2>12 DEF Final, Awaited
  <2>14. Final(FailQueued(lost), cancelled) /\ FailQueuedEffect(lost, FailQueued(lost))
    BY <1>1, <2>10, <2>13, FinalFailQueued, FailQueuedFields DEF Typed
  <2> QED
    BY <2>3, <2>10, <2>13, <2>14 DEF FailQueuedEffect
<1>16. ASSUME NEW stoodDown \in BOOLEAN, WorkerCrashes(stoodDown)
       PROVE  Final(s', cancelled) /\ workerGeneration' = workerGeneration
  BY <1>1, <1>16, FinalAfterLoss DEF WorkerCrashes, CurrentWorkerExits
<1>17. ASSUME NEW g \in Generations,
              ReplacedWorkerExits(g) \/ UnspawnedCloses(g) \/ StreamsClose(g)
       PROVE  Final(s', cancelled) /\ workerGeneration' = workerGeneration
  <2> DEFINE x == Purge(s, g)
  <2>1. g \in Nat /\ workerGeneration' = workerGeneration
    BY <1>17 DEF Generations, ReplacedWorkerExits, UnspawnedCloses, StreamsClose,
                 TerminatedWorkerExits, UnspawnedChildCloses, poolVars, processVars
  <2>2. \/ s' = Drain(s)
        \/ s' \in {x, Drain(x)} /\ (s.held = {} \/ g < workerGeneration)
    <3>1. CASE ReplacedWorkerExits(g)
      BY <3>1 DEF ReplacedWorkerExits
    <3>2. CASE UnspawnedCloses(g)
      <4>1. g # child /\ g \in liveChildren
        BY <3>2 DEF UnspawnedCloses, UnspawnedChildCloses
      <4>2. g \in 1 .. workerGeneration
        BY <4>1 DEF IInv, TypeOK, ProcessesOK
      <4>3. s' = Drain(x)
        BY <3>2 DEF UnspawnedCloses
      <4> QED
        BY <1>2, <1>3, <4>1, <4>2, <4>3
    <3>3. CASE StreamsClose(g)
      <4>1. g # child \/ child = NoChild
        BY <1>3, <3>3 DEF StreamsClose
      <4>2. g \in 1 .. workerGeneration
        BY <3>3 DEF StreamsClose, SupervisorTyped
      <4>3. s' = x
        BY <3>3 DEF StreamsClose
      <4> QED
        BY <1>2, <1>3, <4>1, <4>2, <4>3
    <3> QED
      BY <1>17, <3>1, <3>2, <3>3
  <2>3. Typed(x, sent) /\ Settles(s, x, sent)
    BY <1>1, <2>1, TypedPurge, SettlesPurge
  <2>4. s.held = {} \/ g < workerGeneration => Final(x, cancelled)
    BY <1>1, <2>1, FinalPurge
  <2> HIDE DEF x
  <2>5. Sound(x, sent, cancelled, {})
    BY <1>1, <2>3, SoundSettles
  <2>6. s.held = {} \/ g < workerGeneration => Final(Drain(x), cancelled)
    BY <1>1, <2>3, <2>4, <2>5, FinalDrain
  <2> QED
    BY <1>4, <2>1, <2>2, <2>4, <2>6
<1>18. ASSUME NEW spawned \in SpawnOutcomes, RestartFires(spawned)
       PROVE  Final(s', cancelled) /\ (workerGeneration' = workerGeneration \/ s'.held = {})
  <2>1. s' \in {s, FailQueued(s)}
    BY <1>18 DEF RestartFires
  <2>2. Final(FailQueued(s), cancelled) /\ FailQueuedEffect(s, FailQueued(s))
    BY <1>1, FinalFailQueued, FailQueuedFields
  <2>3. workerGeneration' = workerGeneration \/ child = NoChild
    BY <1>18 DEF RestartFires, RestartTimerFires
  <2> QED
    BY <1>2, <2>1, <2>2, <2>3 DEF FailQueuedEffect
<1>19. ASSUME NEW g \in Generations, NEW success \in BOOLEAN,
              TreeSettles(g, success) \/ TokenRetrySettles(g, success)
       PROVE  Final(s', cancelled) /\ workerGeneration' = workerGeneration
  <2>1. workerGeneration' = workerGeneration
    BY <1>19 DEF TreeSettles, TokenRetrySettles, FinishTreeTermination, FinishTokenRetry,
                 processVars
  <2> QED
    BY <1>4, <1>19, <2>1 DEF TreeSettles, TokenRetrySettles
<1>20. \A outcome \in [liveChildren -> TerminationOutcomes] : ~ShutsDown(outcome)
  BY DEF ShutsDown, Shutdown
<1>21. ASSUME ~(\E r \in Requests : ClientSends(r) \/ ClientCancels(r))
       PROVE  cancelled' = cancelled
  BY <1>21, ClientStep DEF clientVars
<1>22. ASSUME ~(\E r \in Requests : ClientSends(r) \/ ClientCancels(r))
       PROVE  Final(s', cancelled) /\ (workerGeneration' = workerGeneration \/ s'.held = {})
  BY <1>22, <1>9, <1>11, <1>12, <1>13, <1>14, <1>15, <1>16, <1>17, <1>18, <1>19, <1>20
     DEF SupervisorNext
<1> QED
  BY <1>6, <1>7, <1>8, <1>21, <1>22

(* The answers are final: once per request, never after its cancellation, and
   none before it was sent; until the shutdown, what a worker has not answered
   yet is forwarded or will be dropped. *)
Finality ==
  /\ Once(s, cancelled) /\ \A r \in Requests \ sent : s.answers[r] = 0
  /\ shuttingDown \/ Awaited(s, workerGeneration)

(* Every callback keeps the answers final, and a shutdown adds none. *)
LEMMA FinalityStep ==
  ASSUME OwnHandshakeIds, FreshIds, SupervisorInv, Tracking, HandshakeRight, LatestWorker,
         Finality, SupervisorNext
  PROVE  Finality'
<1>1. Typed(s, Requests) /\ Is(s) /\ sent \subseteq Requests
  BY TypedMore DEF SupervisorInv, SupervisorTyped, Typed
<1>2. CASE ~shuttingDown'
  <2>1. ~shuttingDown /\ workerGeneration \in Nat
    BY <1>2, ShutdownStays, PoolAssumption
       DEF SupervisorInv, IInv, TypeOK, CountsOK, PoolAssumption
  <2>2. Sound(s, sent, cancelled, {}) /\ Final(s, cancelled) /\ Attached(s, childReady, Up)
    BY <2>1 DEF Tracking, Finality, Final, HandshakeRight, Session
  <2>3. Awaited(s', workerGeneration') /\ Once(s', cancelled')
    BY <1>2, <2>1, <2>2, FinalStep DEF SupervisorInv
  <2>4. Sound(s', sent', cancelled', {})
    BY <1>2, <2>1, <2>2, SoundStep DEF SupervisorInv
  <2> QED
    BY <2>3, <2>4 DEF Finality, Once, Awaited, Dropped, Sound, Tracks
<1>3. CASE shuttingDown' /\ ~shuttingDown
  <2>1. PICK outcome \in [liveChildren -> TerminationOutcomes] : ShutsDown(outcome)
    BY <1>3, ShutdownBegins
  <2> DEFINE x == LoseWorker(s)
  <2>2. LoseEffect(s, x)
    BY <1>1, LoseFields
  <2>3. s' = [x EXCEPT !.pending = {}, !.queue = << >>, !.armed = {},
                       !.tombstones = [id \in Ids |-> 0]]
        /\ sent' = sent /\ cancelled' = cancelled
    BY <2>1 DEF ShutsDown, clientVars
  <2> HIDE DEF x
  <2>4. s'.answers = s.answers
    BY <2>2, <2>3 DEF LoseEffect, SameReplies, Is, StateFields
  <2> QED
    BY <1>3, <2>3, <2>4 DEF Finality, Once
<1>4. CASE shuttingDown
  <2>1. s' \in {s} \cup {Purge(s, g) : g \in Generations} /\ sent' = sent
        /\ cancelled' = cancelled
    BY <1>4, LateStep DEF SupervisorInv, IInv, Tracking, clientVars
  <2>2. ASSUME NEW g
        PROVE  Purge(s, g).answers = s.answers
    BY <1>1, PurgeFields DEF PurgeEffect
  <2>3. s'.answers = s.answers /\ shuttingDown'
    BY <1>4, <2>1, <2>2, ShutdownStays
  <2> QED
    BY <2>1, <2>3 DEF Finality, Once
<1> QED
  BY <1>2, <1>3, <1>4

(* Every call is answered at most once, and not after it was cancelled or
   before it was sent. *)
CallsAnsweredOnce ==
  \A r \in Requests : ~Initialize(r) =>
    s.answers[r] <= IF r \in cancelled \/ r \notin sent THEN 0 ELSE 1

(* childGeneration always is the newest one (spawnWorker). *)
THEOREM LatestWorkerCurrent == SupervisorSpec => []LatestWorker
<1>1. SupervisorInit => LatestWorker
  BY DEF SupervisorInit, Init, LatestWorker
<1>2. LatestWorker /\ [SupervisorNext]_vars => LatestWorker'
  BY SupervisorStep, LatestWorkerStep DEF vars
<1> QED
  BY <1>1, <1>2, PTL DEF SupervisorSpec

(* Every call, of a client of any era, is answered at most once, never after it
   was cancelled and never before it was sent, across replays, crashes,
   timeouts and the late answers of workers (recordFinalityTombstone,
   handleWorkerMessage, purgeTombstonesThroughGeneration). Assumes that no
   request borrows the id of an initialize, or of one that may be cancelled or
   fail to be written. *)
THEOREM AnsweredForGood ==
  ASSUME OwnHandshakeIds, FreshIds
  PROVE  SupervisorSpec => []CallsAnsweredOnce
<1>1. SupervisorInit => Finality
  BY DEF SupervisorInit, InitialState, Finality, Once, Awaited
<1>2. SupervisorInv /\ Tracking /\ HandshakeRight /\ LatestWorker /\ Finality
      /\ [SupervisorNext]_vars => Finality'
  <2> SUFFICES ASSUME SupervisorInv, Tracking, HandshakeRight, LatestWorker, Finality,
                      [SupervisorNext]_vars
               PROVE  Finality'
    OBVIOUS
  <2>1. CASE SupervisorNext
    BY <2>1, FinalityStep
  <2>2. CASE UNCHANGED vars
    BY <2>2 DEF vars, poolVars, processVars, clientVars, Finality, Once, Awaited, Dropped
  <2> QED
    BY <2>1, <2>2
<1>3. SupervisorInv /\ Finality => CallsAnsweredOnce
  BY DEF Finality, Once, CallsAnsweredOnce, SupervisorInv, SupervisorTyped, Typed
<1> QED
  BY <1>1, <1>2, <1>3, SupervisorInvariant, TrackingInvariant, SessionInvariant,
     LatestWorkerCurrent, PTL DEF SupervisorSpec

-----------------------------------------------------------------------------
(* A client of the modern era is served. *)

(* The client initializes nothing: one of the modern era of the protocol. *)
NeverInitializes == \A r \in Requests : ~Initialize(r)

(* What was forwarded is with the worker, and its answer will be taken: no
   tombstone has its id. A validate-project is forwarded alone. *)
Owned(st) ==
  /\ st.pending \subseteq st.held
  /\ \A r \in st.pending : st.tombstones[r.id] = 0
  /\ \A r \in st.pending : Validate(r) =>
       st.pending = {r} /\ st.running = r.id /\ st.barrier = r.id

(* Without a validate slot in use, no validate-project was forwarded. *)
LEMMA NoneRunning ==
  ASSUME NEW st, Owned(st), st.pending \subseteq Requests,
         st.running = None \/ st.barrier = None
  PROVE  \A q \in st.pending : ~Validate(q)
BY IdsAreNot DEF Owned

(* A request may be forwarded to a writable worker where a validate-project
   stays alone. *)
LEMMA OwnedForward ==
  ASSUME NEW st, Typed(st, Requests), Owned(st), NEW r \in Requests, Writable(st),
         IF Validate(r) THEN st.pending = {} ELSE \A q \in st.pending : ~Validate(q)
  PROVE  LET t == Forward(st, r)
         IN /\ Owned(t) /\ t.queue = st.queue /\ t.pending \subseteq st.pending \cup {r}
            /\ t.running = None \/ Validate(r) \/ t.running = st.running
<1> DEFINE t == Forward(st, r)
<1>1. Is(st) /\ r.id \in Ids /\ st.tombstones \in [Ids -> 0 .. workerGeneration]
      /\ \A q \in st.pending : q.id \in Ids
  BY DEF Typed, Ids
<1>2. IF r \in Unwritable THEN UnwriteEffect(st, t, r) ELSE WriteEffect(st, t, r)
  BY <1>1, ForwardWrites, ForwardUnwritten
<1> HIDE DEF t
<1>3. ASSUME WriteEffect(st, t, r)
      PROVE  /\ Owned(t) /\ t.queue = st.queue /\ t.pending \subseteq st.pending \cup {r}
             /\ Validate(r) \/ t.running = st.running
  <2>1. /\ t.held = st.held \cup {r} /\ t.pending = {q \in st.pending : q.id # r.id} \cup {r}
        /\ t.tombstones = [st.tombstones EXCEPT ![r.id] = 0]
        /\ t.running = IF Validate(r) THEN r.id ELSE st.running
        /\ t.barrier = IF Validate(r) THEN r.id ELSE st.barrier
        /\ t.queue = st.queue
    BY <1>3 DEF WriteEffect, Written
  <2>2. \A q \in t.pending : t.tombstones[q.id] = 0
    BY <1>1, <2>1 DEF Owned
  <2>3. t.pending \subseteq t.held
    BY <2>1 DEF Owned
  <2>4. \A q \in t.pending : Validate(q) =>
          t.pending = {q} /\ t.running = q.id /\ t.barrier = q.id
    BY <2>1 DEF Owned
  <2> QED
    BY <2>1, <2>2, <2>3, <2>4 DEF Owned
<1>4. ASSUME UnwriteEffect(st, t, r)
      PROVE  /\ Owned(t) /\ t.queue = st.queue /\ t.pending \subseteq st.pending \cup {r}
             /\ t.running = None \/ t.running = st.running
  <2>1. /\ t.held = st.held \cup {r} /\ t.pending = {q \in st.pending : q.id # r.id} \ {r}
        /\ t.tombstones = [id \in Ids |-> IF id = r.id THEN workerGeneration
                             ELSE [st.tombstones EXCEPT ![r.id] = 0][id]]
        /\ t.running = IF Validate(r) \/ st.running = r.id THEN None ELSE st.running
        /\ t.queue = st.queue
    BY <1>4 DEF UnwriteEffect, Written
  <2>2. \A q \in t.pending : t.tombstones[q.id] = 0
    BY <1>1, <2>1 DEF Owned
  <2>3. t.pending \subseteq t.held /\ \A q \in t.pending : ~Validate(q)
    BY <2>1 DEF Owned
  <2> QED
    BY <2>1, <2>2, <2>3 DEF Owned
<1>5. /\ Owned(t) /\ t.queue = st.queue /\ t.pending \subseteq st.pending \cup {r}
      /\ t.running = None \/ Validate(r) \/ t.running = st.running
  BY <1>2, <1>3, <1>4
<1> QED
  BY <1>5 DEF t

(* A round of drainQueue forwards nothing (it may raise the barrier), *)
Stands(st, t) == t.queue = st.queue /\ t.pending = st.pending

(* or the head of the queue - a validate-project only when nothing else is alive. *)
Takes(st, t) ==
  /\ st.queue # << >> /\ t.queue = Tail(st.queue)
  /\ t.pending \subseteq st.pending \cup {Head(st.queue)}
  /\ Validate(Head(st.queue)) => NothingElseAlive

(* The queue moves, or it waits for something that will drain it. *)
Moves(st) ==
  childReady' /\ st.stdin # "destroyed" /\ st.queue # << >> =>
    \/ st.running # None
    \/ /\ Validate(Head(st.queue)) /\ st.barrier = Head(st.queue).id
       /\ st.pending # {} \/ staleChildren' # {} \/ unresolvedTreeTokens' # {}

(* A round of drainQueue stops where the queue has something to wait for, and
   takes its head where it has not. *)
LEMMA DrainStepRight ==
  ASSUME NEW S \in SUBSET Requests, NEW st, Typed(st, S), Owned(st), workerGeneration \in Nat,
         childReady' => child' # NoChild
  PROVE  LET t == DrainStep(st)
         IN /\ Owned(t) /\ Typed(t, S)
            /\ (Stands(st, t) /\ Moves(t)) \/ (Takes(st, t) /\ ~Moves(st))
<1> DEFINE next == Head(st.queue)
           taken == [st EXCEPT !.queue = Tail(@)]
           raised == [st EXCEPT !.barrier = next.id]
           Right(t) == /\ Owned(t) /\ Typed(t, S)
                       /\ (Stands(st, t) /\ Moves(t)) \/ (Takes(st, t) /\ ~Moves(st))
<1>1. CASE ~childReady' \/ ~Writable(st) \/ st.queue = << >> \/ st.running # None
  <2>1. DrainStep(st) = st
    BY <1>1 DEF DrainStep
  <2>2. Stands(st, st) /\ Moves(st)
    BY <1>1 DEF Stands, Moves, Writable
  <2>3. Right(DrainStep(st))
    BY <2>1, <2>2
  <2> QED
    BY <2>3
<1>2. CASE childReady' /\ Writable(st) /\ st.queue # << >> /\ st.running = None
  <2>1. /\ Typed(taken, S) /\ next \in S /\ TakeEffect(st, taken)
    BY <1>2, TypedTake, TakeFields DEF Typed
  <2>2. RaiseEffect(st, raised, next.id) /\ next.id \in Ids
    BY <2>1, RaiseFields DEF Typed, Ids
  <2>3. \A q \in st.pending : ~Validate(q)
    BY <1>2, NoneRunning DEF Typed
  <2>4. DrainStep(st) = IF ~Validate(next) THEN Forward(taken, next)
                        ELSE IF MayValidate(st) THEN Forward(taken, next) ELSE raised
    BY <1>2 DEF DrainStep
  <2>5. next = Head(st.queue)
    OBVIOUS
  <2> HIDE DEF taken, raised, next
  <2>6. Owned(taken) /\ taken.pending = st.pending /\ taken.queue = Tail(st.queue)
        /\ Writable(taken) /\ Typed(taken, Requests)
    BY <1>2, <2>1, TypedMore DEF TakeEffect, SamePipes, SameReplies, Owned, Writable
  <2>7. ASSUME ~Validate(next) \/ MayValidate(st)
        PROVE  Right(Forward(taken, next))
    <3> DEFINE t == Forward(taken, next)
    <3>1. IF Validate(next) THEN taken.pending = {} ELSE \A q \in taken.pending : ~Validate(q)
      BY <2>3, <2>6, <2>7 DEF MayValidate
    <3>2. next \in Requests
      BY <2>1
    <3>3. Owned(t) /\ t.queue = taken.queue /\ t.pending \subseteq taken.pending \cup {next}
      BY <2>6, <3>1, <3>2, OwnedForward
    <3>4. Typed(t, S)
      BY <2>1, TypedForward
    <3> HIDE DEF t
    <3>5. Takes(st, t)
      BY <1>2, <2>5, <2>6, <2>7, <3>3 DEF Takes, MayValidate
    <3>6. ~Moves(st)
      BY <1>2, <2>5, <2>7 DEF Moves, MayValidate, NothingElseAlive, Writable
    <3>7. Right(t)
      BY <3>3, <3>4, <3>5, <3>6
    <3> QED
      BY <3>7 DEF t
  <2>8. ASSUME Validate(next), ~MayValidate(st)
        PROVE  Right(raised)
    <3>1. Typed(raised, S) /\ Owned(raised)
      BY <2>2, <2>3 DEF RaiseEffect, SameSession, SamePipes, SameReplies, Typed, Owned
    <3>2. Stands(st, raised) /\ Moves(raised)
      BY <2>2, <2>5, <2>8 DEF RaiseEffect, Stands, Moves, MayValidate, NothingElseAlive
    <3> QED
      BY <3>1, <3>2
  <2>9. Right(DrainStep(st))
    BY <2>4, <2>7, <2>8
  <2> QED
    BY <2>9
<1> QED
  BY <1>1, <1>2

(* r is ahead of v in a queue. *)
Before(q, r, v) == \E i, j \in DOMAIN q : q[i] = r /\ q[j] = v /\ i < j

(* From st to t, what was forwarded came from the queue in its order: it was
   ahead of all that still waits, and a validate-project found nothing else
   alive. *)
Feeds(st, t) ==
  \A r \in t.pending \ st.pending :
    /\ Validate(r) => NothingElseAlive
    /\ \A v \in Entries(t.queue) : Before(st.queue, r, v)

(* The requests that are forwarded are with the worker, none is with a worker
   that is not ready, and the queue moves. *)
Serves(t) == Owned(t) /\ (childReady' \/ t.held = {}) /\ Moves(t)

(* The order of the others is that of the queue, once its head was taken. *)
LEMMA BeforeTail ==
  ASSUME NEW S, NEW q \in Seq(S), q # << >>
  PROVE  /\ \A r, v : Before(Tail(q), r, v) => Before(q, r, v)
         /\ \A v \in Entries(Tail(q)) : Before(q, Head(q), v)
         /\ Entries(Tail(q)) \subseteq Entries(q)
<1>1. /\ Tail(q) \in Seq(S) /\ Len(Tail(q)) = Len(q) - 1 /\ Len(q) \in Nat \ {0}
      /\ Head(q) = q[1] /\ \A i \in 1 .. Len(q) - 1 : Tail(q)[i] = q[i + 1]
      /\ DOMAIN q = 1 .. Len(q)
  BY TailQueue, LenProperties
<1>2. DOMAIN Tail(q) = 1 .. Len(q) - 1
  BY <1>1, LenProperties
<1>3. ASSUME NEW r, NEW v, Before(Tail(q), r, v)
      PROVE  Before(q, r, v)
  <2>1. PICK i, j \in DOMAIN Tail(q) : Tail(q)[i] = r /\ Tail(q)[j] = v /\ i < j
    BY <1>3 DEF Before
  <2>2. i + 1 \in DOMAIN q /\ j + 1 \in DOMAIN q /\ i + 1 < j + 1
    BY <1>1, <1>2, <2>1
  <2> QED
    BY <1>1, <1>2, <2>1, <2>2 DEF Before
<1>4. ASSUME NEW v \in Entries(Tail(q))
      PROVE  Before(q, Head(q), v) /\ v \in Entries(q)
  <2>1. PICK j \in DOMAIN Tail(q) : Tail(q)[j] = v
    BY <1>4 DEF Entries
  <2>2. 1 \in DOMAIN q /\ j + 1 \in DOMAIN q /\ 1 < j + 1 /\ q[j + 1] = v
    BY <1>1, <1>2, <2>1
  <2> QED
    BY <1>1, <2>2 DEF Before, Entries
<1> QED
  BY <1>3, <1>4

(* A round of drainQueue forwards at most the head of the queue. *)
LEMMA StepFeeds ==
  ASSUME NEW S, NEW st, st.queue \in Seq(S), NEW t, Stands(st, t) \/ Takes(st, t)
  PROVE  /\ Feeds(st, t) /\ Entries(t.queue) \subseteq Entries(st.queue)
         /\ \A r, v : Before(t.queue, r, v) => Before(st.queue, r, v)
<1>1. CASE Stands(st, t)
  BY <1>1 DEF Stands, Feeds
<1>2. CASE Takes(st, t)
  BY <1>2, BeforeTail DEF Takes, Feeds
<1> QED
  BY <1>1, <1>2

(* What is fed in two steps is fed in one. *)
LEMMA FeedsTwice ==
  ASSUME NEW st, NEW t, NEW u, Feeds(st, t), Feeds(t, u),
         Entries(u.queue) \subseteq Entries(t.queue),
         \A r, v : Before(t.queue, r, v) => Before(st.queue, r, v)
  PROVE  Feeds(st, u)
BY DEF Feeds

(* drainQueue leaves a queue that moves, and feeds the worker in its order. *)
LEMMA DrainServes ==
  ASSUME NEW S \in SUBSET Requests, NEW st, Typed(st, S), Owned(st), workerGeneration \in Nat,
         childReady' => child' # NoChild, childReady' \/ st.held = {}
  PROVE  Serves(Drain(st)) /\ Feeds(st, Drain(st))
<1> DEFINE t == DrainStep(st)
           u == DrainStep(t)
<1>1. /\ Owned(t) /\ Typed(t, S)
      /\ (Stands(st, t) /\ Moves(t)) \/ (Takes(st, t) /\ ~Moves(st))
  BY DrainStepRight
<1>2. /\ Owned(u) /\ Typed(u, S)
      /\ (Stands(t, u) /\ Moves(u)) \/ (Takes(t, u) /\ ~Moves(t))
  <2> HIDE DEF t
  <2> QED
    BY <1>1, DrainStepRight
<1>3. ~childReady' => t = st /\ u = st
  BY DEF DrainStep
<1>4. Drain(st) = u
  BY DEF Drain
<1> HIDE DEF t, u
<1>5. Moves(u)
  <2>1. CASE Takes(st, t) /\ Takes(t, u)
    <3>1. Len(t.queue) = Len(st.queue) - 1 /\ Len(u.queue) = Len(t.queue) - 1
          /\ Len(st.queue) \in Nat /\ Len(st.queue) <= 2 /\ Len(u.queue) \in Nat
      BY <1>1, <1>2, <2>1, TailQueue, LenProperties DEF Takes, Typed, MAX_SUPERVISOR_QUEUE
    <3>2. u.queue = << >>
      BY <1>2, <3>1, EmptySeq DEF Typed
    <3> QED
      BY <3>2 DEF Moves
  <2> QED
    BY <1>1, <1>2, <2>1
<1>6. Feeds(st, t) /\ Feeds(t, u) /\ Entries(u.queue) \subseteq Entries(t.queue)
      /\ \A r, v : Before(t.queue, r, v) => Before(st.queue, r, v)
  BY <1>1, <1>2, StepFeeds DEF Typed
<1>7. Feeds(st, u)
  BY <1>6, FeedsTwice
<1> QED
  BY <1>2, <1>3, <1>4, <1>5, <1>7 DEF Serves

(* Nothing is fed where nothing is forwarded. *)
LEMMA FeedsNothing ==
  ASSUME NEW st, NEW t, t.pending \subseteq st.pending
  PROVE  Feeds(st, t)
BY DEF Feeds

(* A drained state serves, whatever ended before without changing the order
   of the queue. *)
LEMMA EndsThenDrains ==
  ASSUME NEW S \in SUBSET Requests, NEW st, NEW t, Typed(t, S), Owned(t),
         workerGeneration \in Nat, childReady' => child' # NoChild,
         childReady' \/ t.held = {}, t.pending \subseteq st.pending,
         \A r, v : Before(t.queue, r, v) => Before(st.queue, r, v)
  PROVE  Serves(Drain(t)) /\ Feeds(st, Drain(t))
<1>1. Serves(Drain(t)) /\ Feeds(t, Drain(t))
  BY DrainServes
<1> QED
  BY <1>1 DEF Feeds

(* The order of the others is that of the queue, once one was spliced out. *)
LEMMA BeforeWithout ==
  ASSUME NEW S, NEW q \in Seq(S), NEW x \in Entries(q)
  PROVE  \A r, v : Before(Without(q, x), r, v) => Before(q, r, v)
<1> DEFINE w == Without(q, x)
<1>1. PICK index \in 1 .. Len(q) :
        \A i \in 1 .. Len(q) - 1 : w[i] = q[IF i < index THEN i ELSE i + 1]
  BY WithoutQueue
<1>2. w \in Seq(S) /\ Len(w) = Len(q) - 1 /\ Len(q) \in Nat /\ DOMAIN q = 1 .. Len(q)
  BY WithoutQueue, LenProperties
<1> HIDE DEF w
<1>3. DOMAIN w = 1 .. Len(q) - 1
  BY <1>2, LenProperties
<1>4. ASSUME NEW r, NEW v, Before(w, r, v)
      PROVE  Before(q, r, v)
  <2>1. PICK i, j \in DOMAIN w : w[i] = r /\ w[j] = v /\ i < j
    BY <1>4 DEF Before
  <2> DEFINE At(k) == IF k < index THEN k ELSE k + 1
  <2>2. At(i) \in DOMAIN q /\ At(j) \in DOMAIN q /\ At(i) < At(j)
    BY <1>2, <1>3, <2>1
  <2>3. q[At(i)] = r /\ q[At(j)] = v
    BY <1>1, <1>3, <2>1
  <2> HIDE DEF At
  <2> QED
    BY <2>2, <2>3 DEF Before
<1> QED
  BY <1>4 DEF w

(* A modern client has no handshake. *)
LEMMA ModernNone ==
  ASSUME NeverInitializes, NEW S \in SUBSET Requests, NEW st, Typed(st, S)
  PROVE  /\ st.initializeRequest = None /\ st.parked = None
         /\ \A r : ~Retained(st, r)
<1>1. st.initializeRequest = None /\ st.parked = None
  BY DEF NeverInitializes, Typed, Handshakes
<1> QED
  BY <1>1 DEF Retained

(* What Serves speaks of is the same. *)
LEMMA ServesSame ==
  ASSUME NEW st, Serves(st), NEW t, SameTracking(st, t), t.held = st.held,
         t.tombstones = st.tombstones, t.stdin = st.stdin
  PROVE  Serves(t) /\ Feeds(st, t) /\ Owned(t)
<1>1. Owned(t)
  BY DEF SameTracking, Serves, Owned
<1>2. Moves(t)
  BY DEF SameTracking, Serves, Moves
<1> QED
  BY <1>1, <1>2, FeedsNothing DEF Serves, SameTracking

(* A request that may be forwarded at once finds the queue empty. *)
LEMMA NoQueue ==
  ASSUME NEW st, Serves(st), Typed(st, Requests), SlotsHeld(st, {}), NEW r, CanDispatch(st, r)
  PROVE  /\ st.queue = << >>
         /\ IF Validate(r) THEN st.pending = {} ELSE \A q \in st.pending : ~Validate(q)
<1>1. CASE Validate(r)
  BY <1>1 DEF CanDispatch, MayValidate
<1>2. CASE ~Validate(r)
  <2>1. st.barrier = None /\ childReady' /\ st.stdin # "destroyed"
    BY <1>2 DEF CanDispatch, Writable
  <2>2. \A q \in st.pending : ~Validate(q)
    BY <2>1, NoneRunning DEF Serves, Typed
  <2>3. st.running = None
    BY <2>2 DEF SlotsHeld
  <2>4. st.queue # << >> => Head(st.queue) \in Requests
    BY TailQueue DEF Typed
  <2> QED
    BY <1>2, <2>1, <2>2, <2>3, <2>4, IdsAreNot DEF Serves, Moves
<1> QED
  BY <1>1, <1>2

(* An admitted request is served at once or put into a queue that moves. *)
LEMMA ServesAdmit ==
  ASSUME NEW S \in SUBSET Requests, NEW st, Typed(st, S), Serves(st), SlotsHeld(st, {}),
         NEW r \in S, CanDispatch(st, r), workerGeneration \in Nat
  PROVE  LET t == Admit(Install(st, r), r) IN Serves(t) /\ Feeds(st, t)
<1> DEFINE x == Install(st, r)
           t == Forward(x, r)
<1>1. InstallEffect(st, x, r)
  BY InstallFields DEF Typed
<1>2. Typed(x, S)
  BY TypedInstall
<1>3. Typed(st, Requests) /\ r \in Requests
  BY TypedMore
<1>4. /\ st.queue = << >>
      /\ IF Validate(r) THEN st.pending = {} ELSE \A q \in st.pending : ~Validate(q)
  BY <1>3, NoQueue
<1>5. Admit(x, r) = IF r \in Unwritable THEN Drain(t) ELSE t
  BY DEF Admit
<1> HIDE DEF x
<1>6. Owned(x) /\ Writable(x) /\ x.queue = << >> /\ x.pending = st.pending
  BY <1>1, <1>4 DEF InstallEffect, SamePipes, SameReplies, Serves, Owned, Writable, CanDispatch
<1>7. Typed(x, Requests)
  BY <1>2, TypedMore
<1>8. IF Validate(r) THEN x.pending = {} ELSE \A q \in x.pending : ~Validate(q)
  BY <1>4, <1>6
<1>9. Owned(t) /\ t.queue = x.queue /\ t.pending \subseteq x.pending \cup {r}
  BY <1>3, <1>6, <1>7, <1>8, OwnedForward
<1> HIDE DEF t
<1>10. Drain(t) = t
  BY <1>6, <1>9, QuietDrain
<1>11. Serves(t)
  BY <1>6, <1>9 DEF Serves, Moves, CanDispatch
<1>12. Feeds(st, t)
  BY <1>6, <1>9 DEF Feeds, CanDispatch, MayValidate, Entries
<1> QED
  BY <1>5, <1>10, <1>11, <1>12 DEF x

(* or put into a queue that waits for something. *)
LEMMA ServesEnqueue ==
  ASSUME NEW S \in SUBSET Requests, NEW st, Typed(st, S), Serves(st), SlotsHeld(st, {}),
         NEW r \in S, ~CanDispatch(st, r), childReady' => child' # NoChild
  PROVE  LET t == [Install(st, r) EXCEPT !.queue = Append(@, r)]
         IN Serves(t) /\ Feeds(st, t)
<1> DEFINE x == Install(st, r)
           t == [x EXCEPT !.queue = Append(@, r)]
<1>1. InstallEffect(st, x, r)
  BY InstallFields DEF Typed
<1> HIDE DEF x
<1>2. QueueEffect(x, t, r)
  BY <1>1, EnqueueFields DEF InstallEffect
<1> HIDE DEF t
<1>3. /\ t.queue = Append(st.queue, r) /\ t.pending = st.pending /\ t.held = st.held
      /\ t.tombstones = st.tombstones /\ t.running = st.running /\ t.stdin = st.stdin
      /\ t.barrier = IF Validate(r) /\ st.barrier = None THEN r.id ELSE st.barrier
  BY <1>1, <1>2 DEF InstallEffect, QueueEffect, SamePipes, SameReplies
<1>4. \A q \in Requests : q.id # None
  BY IdsAreNot
<1>5. Owned(st) /\ st.pending \subseteq Requests /\ r \in Requests
  BY DEF Serves, Typed
<1>6. Owned(t)
  BY <1>3, <1>4, <1>5 DEF Owned
<1>7. ASSUME childReady', st.stdin # "destroyed", st.running = None
      PROVE  /\ Validate(Head(t.queue)) /\ t.barrier = Head(t.queue).id
             /\ t.pending # {} \/ ~NothingElseAlive
  <2>1. \A q \in st.pending : ~Validate(q)
    BY <1>5, <1>7, NoneRunning
  <2>2. CASE st.queue = << >>
    <3>1. Head(t.queue) = r
      BY <1>3, <2>2
    <3>2. st.barrier = None
      BY <2>1, <2>2 DEF SlotsHeld, Live, Queued
    <3>3. Validate(r) /\ ~MayValidate(st)
      BY <1>7, <2>2, <3>2 DEF CanDispatch, Writable
    <3> QED
      BY <1>3, <3>1, <3>2, <3>3 DEF MayValidate
  <2>3. CASE st.queue # << >>
    <3>1. Head(t.queue) = Head(st.queue) /\ Head(st.queue) \in Requests
      <4>1. st.queue \in Seq(S)
        BY DEF Typed
      <4>2. Head(st.queue) = st.queue[1] /\ Len(st.queue) \in Nat \ {0} /\ Head(st.queue) \in S
        BY <2>3, <4>1, TailQueue
      <4>3. t.queue \in Seq(S) /\ t.queue[1] = st.queue[1] /\ Len(t.queue) # 0
        BY <1>3, <4>1, <4>2, AppendQueue
      <4>4. t.queue # << >>
        BY <4>3
      <4>5. Head(t.queue) = t.queue[1]
        BY <4>3, <4>4, TailQueue
      <4> QED
        BY <4>2, <4>3, <4>5
    <3>2. /\ Validate(Head(st.queue)) /\ st.barrier = Head(st.queue).id
          /\ st.pending # {} \/ ~NothingElseAlive
      BY <1>7, <2>3 DEF Serves, Moves, NothingElseAlive
    <3> QED
      BY <1>3, <1>4, <3>1, <3>2
  <2> QED
    BY <2>2, <2>3
<1>8. Moves(t)
  BY <1>3, <1>7 DEF Moves, NothingElseAlive
<1>9. Feeds(st, t)
  BY <1>3, FeedsNothing
<1>10. Serves(t)
  BY <1>3, <1>6, <1>8 DEF Serves
<1> QED
  BY <1>9, <1>10 DEF t, x

(* So is every request the client sends. *)
LEMMA ServesRouteRequest ==
  ASSUME NEW S \in SUBSET Requests, NEW C, NEW st, Sound(st, S, C, {}), Typed(st, S),
         Serves(st), NEW r \in Requests, ~Initialize(r), New(st, S, C, r),
         workerGeneration \in Nat, childReady' => child' # NoChild
  PROVE  Serves(RouteRequest(st, r)) /\ Feeds(st, RouteRequest(st, r))
<1> DEFINE u == LockEra(st, r)
           T == S \cup {r}
<1>1. Typed(u, S) /\ Settles(st, u, S) /\ LockEffect(st, u, r) /\ Typed(st, Requests)
  BY TypedLock, SettlesLock, LockFields, TypedMore DEF Typed
<1> HIDE DEF u
<1>2. RouteRequest(st, r) = Answer(u, r) \/ RouteRequest(st, r) = Drain(Answer(u, r))
      \/ (CanDispatch(u, r) /\ RouteRequest(st, r) = Admit(Install(u, r), r))
      \/ (~CanDispatch(u, r) /\ RouteRequest(st, r) = [Install(u, r) EXCEPT !.queue = Append(@, r)])
  BY DEF RouteRequest, u
<1>3. Sound(u, S, C, {})
  BY <1>1, SoundSettles
<1>4. Serves(u) /\ u.pending = st.pending /\ u.queue = st.queue
  BY <1>1, ServesSame DEF LockEffect, SameReplies, SameTracking
<1>5. r \in T /\ T \in SUBSET Requests /\ Typed(u, T)
  BY <1>1, TypedMore DEF T
<1>6. SlotsHeld(u, {})
  BY <1>3 DEF Sound
<1> HIDE DEF T
<1> DEFINE a == Answer(u, r)
<1>7. AnswerEffect(u, a, {r}) /\ Typed(a, T)
  BY <1>5, AnswerFields, TypedAnswer DEF Typed, Answer
<1> HIDE DEF a
<1>8. Serves(a) /\ Owned(a) /\ a.pending = st.pending /\ a.queue = st.queue
  BY <1>4, <1>7, ServesSame DEF AnswerEffect, SamePipes, SameTracking
<1>9. Feeds(st, a)
  BY <1>8, FeedsNothing
<1>10. Serves(Drain(a)) /\ Feeds(st, Drain(a))
  BY <1>5, <1>7, <1>8, EndsThenDrains DEF Serves
<1>11. CanDispatch(u, r) =>
         Serves(Admit(Install(u, r), r)) /\ Feeds(u, Admit(Install(u, r), r))
  BY <1>4, <1>5, <1>6, ServesAdmit
<1>12. ~CanDispatch(u, r) =>
         /\ Serves([Install(u, r) EXCEPT !.queue = Append(@, r)])
         /\ Feeds(u, [Install(u, r) EXCEPT !.queue = Append(@, r)])
  BY <1>4, <1>5, <1>6, ServesEnqueue
<1>13. \A t : Feeds(u, t) => Feeds(st, t)
  BY <1>4 DEF Feeds
<1> QED
  BY <1>2, <1>8, <1>9, <1>10, <1>11, <1>12, <1>13 DEF a

(* A request that leaves the queue lets the others be served, *)
LEMMA ServesUnqueued ==
  ASSUME NEW S \in SUBSET Requests, NEW st, Typed(st, S), Owned(st), NEW r \in Queued(st),
         NEW t, Typed(t, S), t.queue = Without(st.queue, r), t.pending = st.pending,
         t.held = st.held, t.tombstones = st.tombstones, t.running = st.running,
         t.barrier = IF st.barrier = r.id /\ st.running # r.id THEN None ELSE st.barrier,
         workerGeneration \in Nat, childReady' => child' # NoChild, childReady' \/ st.held = {}
  PROVE  Serves(Drain(t)) /\ Feeds(st, Drain(t))
<1>1. Owned(t)
  BY DEF Owned
<1>2. \A q, v : Before(t.queue, q, v) => Before(st.queue, q, v)
  BY BeforeWithout, QueuedEntries DEF Typed
<1> QED
  BY <1>1, <1>2, EndsThenDrains

(* such as one whose deadline passed. *)
LEMMA ServesTimedOut ==
  ASSUME NEW S \in SUBSET Requests, NEW C, NEW st, Sound(st, S, C, {}), Typed(st, S),
         OwnHandshakeIds, NEW r \in Queued(st), ~Initialize(r), Owned(st),
         workerGeneration \in Nat, childReady' => child' # NoChild, childReady' \/ st.held = {}
  PROVE  Serves(Drain(TimedOut(st, r))) /\ Feeds(st, Drain(TimedOut(st, r)))
<1> DEFINE t == TimedOut(st, r)
<1>1. Sound(t, S, C, {}) /\ Typed(t, S) /\ TimedOutEffect(st, t, r)
  BY SoundTimedOut
<1> HIDE DEF t
<1>2. Serves(Drain(t)) /\ Feeds(st, Drain(t))
  BY <1>1, ServesUnqueued DEF TimedOutEffect
<1> QED
  BY <1>2 DEF t

(* So does a cancellation, *)
LEMMA ServesCancel ==
  ASSUME NEW S \in SUBSET Requests, NEW C, NEW st, Sound(st, S, C, {}), Typed(st, S),
         OwnHandshakeIds, NEW r \in S, ~Initialize(r), r \in Live(st, {}), Owned(st),
         workerGeneration \in Nat, childReady' => child' # NoChild, childReady' \/ st.held = {}
  PROVE  Serves(Cancel(st, r)) /\ Feeds(st, Cancel(st, r))
<1> DEFINE t == Cancelled(st, r)
<1>1. /\ Typed(t, S)
      /\ IF r \in Queued(st) THEN UnqueuedEffect(st, t, r) ELSE ReleaseEffect(st, t, {r})
  BY SoundCancelled
<1>2. Cancel(st, r) = Drain(t)
  BY CancelDrains
<1> HIDE DEF t
<1>3. ASSUME r \in Queued(st)
      PROVE  Serves(Drain(t)) /\ Feeds(st, Drain(t))
  <2>1. UnqueuedEffect(st, t, r)
    BY <1>1, <1>3
  <2>2. /\ t.queue = Without(st.queue, r) /\ t.pending = st.pending /\ t.held = st.held
        /\ t.tombstones = st.tombstones /\ t.running = st.running
        /\ t.barrier = IF st.barrier = r.id /\ st.running # r.id THEN None ELSE st.barrier
    BY <2>1 DEF UnqueuedEffect, SamePipes, SameReplies
  <2> QED
    BY <1>1, <1>3, <2>2, ServesUnqueued
<1>4. ASSUME r \notin Queued(st)
      PROVE  Serves(Drain(t)) /\ Feeds(st, Drain(t))
  <2>1. ReleaseEffect(st, t, {r}) /\ r \in st.pending
    BY <1>1, <1>4 DEF Live
  <2>2. /\ t.queue = st.queue /\ t.pending = st.pending \ {r} /\ t.held = st.held
        /\ t.tombstones = [id \in Ids |-> IF r.id = id THEN workerGeneration
                                                       ELSE st.tombstones[id]]
    BY <2>1 DEF ReleaseEffect, SamePipes, Entombed
  <2>3. \A q \in t.pending : t.tombstones[q.id] = 0
    BY <2>1, <2>2 DEF Owned, Typed, Ids
  <2>4. Owned(t)
    BY <2>1, <2>2, <2>3 DEF Owned
  <2> QED
    BY <1>1, <2>2, <2>4, EndsThenDrains
<1> QED
  BY <1>2, <1>3, <1>4

(* and an answer of the worker: x is st without the request in its hands. *)
LEMMA ServesDeliver ==
  ASSUME NEW S \in SUBSET Requests, NEW C, NEW x, Sound(x, S, C, {}), Typed(x, S),
         OwnHandshakeIds, NEW r \in S, Initialize(r) \/ r \notin Queued(x),
         NEW st, Serves(st), SameTracking(st, x), x.held = st.held \ {r},
         x.stdin = st.stdin, x.tombstones = st.tombstones,
         workerGeneration \in Nat, childReady' => child' # NoChild
  PROVE  Serves(Deliver(x, r)) /\ Feeds(st, Deliver(x, r))
<1>1. x.queue = st.queue /\ x.pending = st.pending /\ x.barrier = st.barrier
      /\ x.running = st.running
  BY DEF SameTracking
<1>2. ASSUME x.tombstones[r.id] # 0
      PROVE  Serves(x) /\ Feeds(st, x)
  <2>1. r \notin x.pending
    BY <1>1, <1>2 DEF Serves, Owned
  <2>2. Owned(x)
    BY <1>1, <2>1 DEF Serves, Owned
  <2>3. Moves(x)
    BY <1>1 DEF Serves, Moves
  <2> QED
    BY <1>1, <2>2, <2>3, FeedsNothing DEF Serves
<1>3. ASSUME x.tombstones[r.id] = 0
      PROVE  Serves(Drain(Delivered(x, r))) /\ Feeds(st, Drain(Delivered(x, r)))
  <2> DEFINE t == Delivered(x, r)
  <2>1. Typed(t, S)
    BY SoundDelivered
  <2>2. DeliveredEffect(x, t, r)
    BY SoundDelivered
  <2> HIDE DEF t
  <2>6. t.pending \subseteq t.held
    BY <1>1, <2>2 DEF DeliveredEffect, Serves, Owned, Owners
  <2>7. \A q \in t.pending : t.tombstones[q.id] = 0
    BY <1>1, <2>2 DEF DeliveredEffect, Serves, Owned
  <2>8. \A q \in t.pending : Validate(q) =>
          t.pending = {q} /\ t.running = q.id /\ t.barrier = q.id
    BY <1>1, <2>2 DEF DeliveredEffect, Serves, Owned, Owners
  <2>9. Owned(t)
    BY <2>6, <2>7, <2>8 DEF Owned
  <2>10. \A q, v : Before(t.queue, q, v) => Before(st.queue, q, v)
    BY <1>1, <2>2 DEF DeliveredEffect
  <2>11. t.pending \subseteq st.pending /\ (childReady' \/ t.held = {})
    BY <1>1, <2>2 DEF DeliveredEffect, Serves
  <2>12. Serves(Drain(t)) /\ Feeds(st, Drain(t))
    BY <2>1, <2>9, <2>10, <2>11, EndsThenDrains
  <2> QED
    BY <2>12 DEF t
<1> QED
  BY <1>2, <1>3, DeliverDrains

(* The same of the supervisor's state: what is forwarded is with the current,
   ready worker, and the queue moves. *)
Serving == Owned(s) /\ (childReady \/ s.held = {}) /\ QueueMoves

(* A callback that touches nothing of this leaves it so. *)
LEMMA ServesOn ==
  ASSUME Serving, NEW t, SameTracking(s, t), t.held = s.held, t.stdin = s.stdin,
         \A r \in s.pending : s.tombstones[r.id] = 0 => t.tombstones[r.id] = 0,
         childReady' = childReady,
         staleChildren' = {} => staleChildren = {},
         unresolvedTreeTokens' = {} => unresolvedTreeTokens = {}
  PROVE  Serves(t) /\ Feeds(s, t)
<1>1. Owned(t)
  BY DEF Serving, Owned, SameTracking
<1>2. Moves(t)
  BY DEF Serving, QueueMoves, Moves, SameTracking
<1> QED
  BY <1>1, <1>2, FeedsNothing DEF Serving, Serves, SameTracking

(* Where nothing is forwarded and no worker is ready there is nothing to ask. *)
LEMMA ServesNone ==
  ASSUME NEW st, NEW t, t.pending = {}, t.held = {}, ~childReady'
  PROVE  Serves(t) /\ Feeds(st, t)
BY DEF Serves, Owned, Moves, Feeds

(* Nothing forwarded is left when the requests that wait are failed. *)
LEMMA FailQueuedNone ==
  ASSUME NEW st, Is(st), st.pending = {}, st.held = {}
  PROVE  FailQueued(st).pending = {} /\ FailQueued(st).held = {}
<1> DEFINE t == FailQueued(st)
<1>1. FailQueuedEffect(st, t)
  BY FailQueuedFields
<1> HIDE DEF t
<1>2. t.pending = {} /\ t.held = {}
  BY <1>1 DEF FailQueuedEffect
<1> QED
  BY <1>2 DEF t

(* A worker that is lost leaves nothing forwarded. *)
LEMMA LossServes ==
  ASSUME NeverInitializes, NEW S \in SUBSET Requests, Typed(s, S), Serving, ~childReady'
  PROVE  /\ Serves(AfterLoss(s)) /\ Feeds(s, AfterLoss(s))
         /\ ~childReady => Serves(FailQueued(LoseWorker(s))) /\ Feeds(s, FailQueued(LoseWorker(s)))
<1> DEFINE x == LoseWorker(s)
<1>1. LoseEffect(s, x) /\ Typed(x, S)
  BY LoseFields, TypedLose DEF Typed
<1>2. AfterLoss(s) = IF childReady THEN FailPending(x) ELSE FailQueued(x)
  BY DEF AfterLoss
<1> HIDE DEF x
<1>3. x.held = {} /\ x.pending = s.pending /\ Is(x)
  BY <1>1 DEF LoseEffect, SameTracking
<1>4. ASSUME ~childReady
      PROVE  Serves(FailQueued(x)) /\ Feeds(s, FailQueued(x))
  <2>1. x.pending = {}
    BY <1>3, <1>4 DEF Serving, Owned
  <2>2. FailQueued(x).pending = {} /\ FailQueued(x).held = {}
    BY <1>3, <2>1, FailQueuedNone
  <2> QED
    BY <2>2, ServesNone
<1>5. Serves(FailPending(x)) /\ Feeds(s, FailPending(x))
  <2> DEFINE lost == {r \in x.pending : ~Retained(x, r)}
             a == Release(x, lost)
             t == AnswerAll(a, lost)
  <2>1. lost = x.pending
    BY <1>1, ModernNone
  <2>2. FailPending(x) = t
    BY DEF FailPending
  <2> HIDE DEF lost
  <2>3. ReleaseEffect(x, a, lost)
    BY <1>3, ReleaseFields
  <2> HIDE DEF a
  <2>4. AnswerEffect(a, t, lost)
    BY <2>3, AnswerFields DEF ReleaseEffect
  <2>5. t.pending = {} /\ t.held = {}
    BY <1>3, <2>1, <2>3, <2>4 DEF ReleaseEffect, AnswerEffect, SameTracking, SamePipes
  <2> QED
    BY <2>2, <2>5, ServesNone
<1> QED
  BY <1>2, <1>4, <1>5 DEF x

(* A running validate-project that times out leaves nothing forwarded: it was
   alone. *)
LEMMA DeadlineServes ==
  ASSUME NEW S \in SUBSET Requests, Typed(s, S), Serving, ReadyWorker,
         NEW r \in s.pending, Validate(r), NEW outcome, NEW spawned,
         RunningDeadline(r, outcome, spawned)
  PROVE  Serves(s') /\ Feeds(s, s')
<1>1. s.pending = {r} /\ child # NoChild
  BY DEF Serving, Owned, ReadyWorker
<1>2. ~childReady'
  BY <1>1 DEF RunningDeadline, RecoverTimedOutWorker, NoCurrentChild, NewWorker
<1> DEFINE a == Release(s, {r})
           b == [a EXCEPT !.running = None, !.barrier = None]
           c == Answer(b, r)
           x == LoseWorker(c)
<1>3. s' = x \/ s' = FailQueued(x)
  BY <1>1 DEF RunningDeadline
<1>4. ReleaseEffect(s, a, {r})
  BY ReleaseFields DEF Typed
<1> HIDE DEF a
<1>5. Is(b) /\ b.pending = {}
  BY <1>1, <1>4 DEF ReleaseEffect, Is, StateFields
<1> HIDE DEF b
<1>6. AnswerEffect(b, c, {r})
  BY <1>5, AnswerFields DEF Answer
<1> HIDE DEF c
<1>7. LoseEffect(c, x)
  BY <1>6, LoseFields DEF AnswerEffect
<1> HIDE DEF x
<1>8. x.pending = {} /\ x.held = {} /\ Is(x)
  BY <1>5, <1>6, <1>7 DEF AnswerEffect, LoseEffect, SameTracking
<1>9. s'.pending = {} /\ s'.held = {}
  BY <1>3, <1>8, FailQueuedNone
<1> QED
  BY <1>2, <1>9, ServesNone

(* A replacement is started where none is ready, or not at all. *)
LEMMA RestartServes ==
  ASSUME NEW S \in SUBSET Requests, Typed(s, S), Serving, ReadyWorker, NEW spawned,
         RestartFires(spawned)
  PROVE  Serves(s') /\ Feeds(s, s')
<1>1. CASE childReady
  <2>1. child # NoChild
    BY <1>1 DEF ReadyWorker
  <2>2. /\ s' = s /\ childReady' = childReady /\ staleChildren' = staleChildren
        /\ unresolvedTreeTokens' = unresolvedTreeTokens
    BY <2>1 DEF RestartFires, RestartTimerFires, currentVars, treeVars
  <2>3. Serves(s) /\ Feeds(s, s)
    BY <2>2, ServesOn DEF SameTracking
  <2> QED
    BY <2>2, <2>3
<1>2. CASE ~childReady
  <2>1. s.pending = {} /\ s.held = {} /\ Is(s)
    BY <1>2 DEF Serving, Owned, Typed
  <2>2. ~childReady'
    BY <1>2 DEF RestartFires, RestartTimerFires, NewWorker, currentVars
  <2>3. s' = s \/ s' = FailQueued(s)
    BY DEF RestartFires
  <2>4. s'.pending = {} /\ s'.held = {}
    BY <2>1, <2>3, FailQueuedNone
  <2> QED
    BY <2>2, <2>4, ServesNone
<1> QED
  BY <1>1, <1>2

(* The first worker, and each that replaced another, is fed when it is ready. *)
LEMMA ReadyServes ==
  ASSUME NeverInitializes, NEW S \in SUBSET Requests, Typed(s, S), Serving,
         workerGeneration \in Nat,
         WorkerSignalsReady
  PROVE  Serves(s') /\ Feeds(s, s')
<1> DEFINE a == [s EXCEPT !.marked = TRUE]
           b == [a EXCEPT !.parked = None]
<1>1. s.initializeRequest = None /\ s.parked = None /\ Is(s)
  BY ModernNone DEF Typed
<1>2. childReady' = TRUE /\ child' = child /\ child # NoChild /\ s' = FlushQueue(a)
      /\ workerGeneration' = workerGeneration
  BY <1>1 DEF WorkerSignalsReady, AdoptActiveChild, processVars
<1>3. Typed(b, S) /\ SameTracking(s, b) /\ b.held = s.held /\ b.tombstones = s.tombstones
  BY DEF Typed, Is, StateFields, SameTracking, Handshakes
<1>4. a.parked = None
  BY <1>1 DEF Is, StateFields
<1>5. FlushQueue(a) = Drain(b)
  BY <1>4 DEF FlushQueue
<1> HIDE DEF b, a
<1>6. Owned(b)
  BY <1>3 DEF SameTracking, Serving, Owned
<1>7. Serves(Drain(b)) /\ Feeds(s, Drain(b))
  BY <1>2, <1>3, <1>6, EndsThenDrains DEF SameTracking
<1> QED
  BY <1>2, <1>5, <1>7

(* A request the client sends is new: the requests with its id are over. *)
LEMMA SentIsNew ==
  ASSUME Typed(s, sent), sent \subseteq Requests, cancelled \subseteq sent,
         NEW r \in Requests, ClientSends(r)
  PROVE  New(s, sent, cancelled, r)
<1>1. ASSUME NEW q \in sent, q.id = r.id
      PROVE  s.answers[q] # 0 \/ q \in cancelled
  <2>1. Closed(q)
    BY <1>1 DEF ClientSends
  <2> QED
    BY <2>1 DEF Closed, Typed
<1> QED
  BY <1>1 DEF New, ClientSends

(* Every callback before the shutdown keeps it so, for a modern client, and
   feeds the worker from the queue in its order. *)
LEMMA ServesStep ==
  ASSUME NeverInitializes, SupervisorTyped, Sound(s, sent, cancelled, {}), Serving, ReadyWorker,
         ReadyWorker', workerGeneration \in Nat, SupervisorNext, ~shuttingDown'
  PROVE  Serves(s') /\ Feeds(s, s')
<1>1. /\ Typed(s, sent) /\ sent \in SUBSET Requests /\ sent \subseteq Requests
      /\ cancelled \subseteq sent /\ Is(s) /\ OwnHandshakeIds
  BY DEF SupervisorTyped, Typed, NeverInitializes, OwnHandshakeIds
<1>0. Typed(s, Requests)
  BY <1>1, TypedMore
<1>2. childReady' => child' # NoChild
  BY DEF ReadyWorker
<1>3. Owned(s) /\ (childReady \/ s.held = {}) /\ s.initializeRequest = None
  BY <1>1, ModernNone DEF Serving
<1>4. ASSUME childReady' = childReady
      PROVE  Serves(Drain(s)) /\ Feeds(s, Drain(s))
  BY <1>1, <1>2, <1>3, <1>4, DrainServes
<1>5. ASSUME UNCHANGED poolVars
      PROVE  /\ Serves(s) /\ childReady' = childReady /\ child' = child
             /\ staleChildren' = staleChildren /\ unresolvedTreeTokens' = unresolvedTreeTokens
  BY <1>5, ServesOn DEF SameTracking, poolVars, currentVars, processVars, treeVars
<1>6. ASSUME NEW r \in Requests, ClientSends(r)
      PROVE  Serves(s') /\ Feeds(s, s')
  <2>1. New(s, sent, cancelled, r)
    BY <1>1, <1>6, SentIsNew
  <2>2. ~Initialize(r) /\ Serves(s)
    BY <1>5, <1>6 DEF NeverInitializes, ClientSends
  <2>3. Serves(RouteRequest(s, r)) /\ Feeds(s, RouteRequest(s, r))
    BY <1>1, <1>2, <2>1, <2>2, ServesRouteRequest
  <2>4. Serves(Answer(s, r)) /\ Feeds(s, Answer(s, r))
    <3> DEFINE t == Answer(s, r)
    <3>1. AnswerEffect(s, t, {r})
      BY <1>1, AnswerFields DEF Answer
    <3> HIDE DEF t
    <3>2. Serves(t) /\ Feeds(s, t)
      BY <2>2, <3>1, ServesSame DEF AnswerEffect, SamePipes
    <3> QED
      BY <3>2 DEF t
  <2> QED
    BY <1>6, <2>2, <2>3, <2>4 DEF ClientSends, Route
<1>7. ASSUME NEW r \in Requests, ClientCancels(r)
      PROVE  Serves(s') /\ Feeds(s, s')
  <2>1. r \in sent /\ ~Initialize(r) /\ ~Closed(r) /\ s' = Cancel(s, r)
        /\ childReady' = childReady
    BY <1>5, <1>7 DEF ClientCancels
  <2>2. s.answers[r] = 0 /\ r \notin cancelled
    BY <2>1, <1>1 DEF Closed, Typed
  <2>3. r \in Live(s, {})
    BY <2>1, <2>2 DEF Sound, Tracks
  <2> QED
    BY <1>1, <1>2, <1>3, <2>1, <2>3, ServesCancel
<1>8. ASSUME NEW r \in Requests, WorkerAnswers(r)
      PROVE  Serves(s') /\ Feeds(s, s')
  <2> DEFINE x == [s EXCEPT !.held = @ \ {r}]
  <2>1. r \in sent /\ r \in s.held
    BY <1>1, <1>8 DEF WorkerAnswers, Typed
  <2>2. /\ Typed(x, sent) /\ Settles(s, x, sent) /\ SameTracking(s, x)
        /\ x.held = s.held \ {r} /\ x.tombstones = s.tombstones /\ x.stdin = s.stdin
    BY <1>1 DEF Typed, Is, StateFields, Settles, SameTracking
  <2>3. s' = Deliver(x, r) /\ UNCHANGED poolVars
    BY <1>3, <1>8 DEF WorkerAnswers, AnswersHandshake
  <2> HIDE DEF x
  <2>4. Sound(x, sent, cancelled, {})
    BY <1>0, <2>2, SoundSettles
  <2>5. Initialize(r) \/ r \notin Queued(x)
    BY <2>1, <2>2 DEF Sound, OnePlace, Queued, SameTracking
  <2>6. Serves(s)
    BY <1>5, <2>3
  <2>7. Serves(Deliver(x, r)) /\ Feeds(s, Deliver(x, r))
    BY <1>1, <1>2, <2>1, <2>2, <2>4, <2>5, <2>6, ServesDeliver
  <2> QED
    BY <2>3, <2>7
<1>9. \A r \in s.armed : Validate(r)
  BY DEF Sound, Deadlines
<1>10. ASSUME NEW r \in Requests, QueuedDeadline(r)
       PROVE  Serves(s') /\ Feeds(s, s')
  <2>1. s' = Drain(TimedOut(s, r)) /\ r \in Queued(s) /\ ~Initialize(r) /\ childReady' = childReady
    BY <1>5, <1>9, <1>10, Kinds DEF QueuedDeadline, TimedOut
  <2> QED
    BY <1>1, <1>2, <1>3, <2>1, ServesTimedOut
<1>11. ~ClientInitialized
  BY <1>3 DEF ClientInitialized
<1>12. ASSUME StdinBreaks
       PROVE  Serves(s') /\ Feeds(s, s')
  <2>1. /\ s'.stdin = "destroyed" /\ s'.held = s.held /\ s'.tombstones = s.tombstones
        /\ SameTracking(s, s') /\ childReady' = childReady
    BY <1>1, <1>5, <1>12 DEF StdinBreaks, Is, StateFields, SameTracking
  <2>2. Owned(s') /\ Moves(s') /\ s'.pending = s.pending
    BY <1>3, <2>1 DEF Owned, Moves, SameTracking
  <2> QED
    BY <1>3, <2>1, <2>2, FeedsNothing DEF Serves
<1>13. ASSUME CleanupTimer
       PROVE  Serves(s') /\ Feeds(s, s')
  <2>1. /\ s' = s /\ childReady' = childReady /\ staleChildren' = staleChildren
        /\ unresolvedTreeTokens' = unresolvedTreeTokens
    BY <1>13 DEF CleanupTimer, CleanupRetryTimerFires, currentVars, processVars, treeVars
  <2>2. Serves(s) /\ Feeds(s, s)
    BY <2>1, ServesOn DEF SameTracking
  <2> QED
    BY <2>1, <2>2
<1>14. WorkerSignalsReady => Serves(s') /\ Feeds(s, s')
  BY <1>1, ReadyServes
<1>15. ASSUME NEW outcome \in TerminationOutcomes,
               \/ StartupTimesOut(outcome) \/ WorkerBreaks(outcome)
               \/ \E r \in Requests : WorkerRejectsInitialize(r, outcome)
       PROVE  Serves(s') /\ Feeds(s, s')
  <2>1. ~(\E r \in Requests : WorkerRejectsInitialize(r, outcome))
    BY DEF WorkerRejectsInitialize, NeverInitializes
  <2>2. ~childReady'
    BY <1>15, <2>1 DEF StartupTimesOut, WorkerBreaks, WatchdogFires, WorkerFaults, StartupFails,
                       NoCurrentChild
  <2>3. s' = AfterLoss(s) \/ (~childReady /\ s' = FailQueued(LoseWorker(s)))
    BY <1>15, <2>1 DEF StartupTimesOut, WorkerBreaks, WatchdogFires
  <2> QED
    BY <1>1, <2>2, <2>3, LossServes
<1>16. ASSUME NEW outcome \in TerminationOutcomes, NEW spawned \in SpawnOutcomes,
              NEW r \in Requests, RunningDeadline(r, outcome, spawned)
       PROVE  Serves(s') /\ Feeds(s, s')
  <2>1. r \in s.pending /\ Validate(r)
    BY <1>9, <1>16 DEF RunningDeadline
  <2> QED
    BY <1>1, <1>16, <2>1, DeadlineServes
<1>17. ASSUME NEW stoodDown \in BOOLEAN, WorkerCrashes(stoodDown)
       PROVE  Serves(s') /\ Feeds(s, s')
  <2>1. s' = AfterLoss(s) /\ ~childReady'
    BY <1>17 DEF WorkerCrashes, CurrentWorkerExits, NoCurrentChild
  <2> QED
    BY <1>1, <2>1, LossServes
<1>18. ASSUME NEW g \in Generations, ReplacedWorkerExits(g)
       PROVE  Serves(s') /\ Feeds(s, s')
  BY <1>4, <1>18 DEF ReplacedWorkerExits, TerminatedWorkerExits, currentVars
<1>19. ASSUME NEW g \in Generations, UnspawnedCloses(g) \/ StreamsClose(g)
       PROVE  Serves(s') /\ Feeds(s, s')
  <2> DEFINE x == Purge(s, g)
  <2>1. PurgeEffect(s, x, g) /\ Typed(x, sent)
    BY <1>1, PurgeFields, TypedPurge DEF Generations
  <2>2. (s' = Drain(x) \/ (UNCHANGED poolVars /\ s' = x)) /\ childReady' = childReady
    BY <1>5, <1>19 DEF UnspawnedCloses, StreamsClose, UnspawnedChildCloses, currentVars
  <2> HIDE DEF x
  <2>3. SameTracking(s, x) /\ x.held = s.held /\ x.stdin = s.stdin
    BY <2>1 DEF PurgeEffect, SamePipes
  <2>4. \A r \in s.pending : s.tombstones[r.id] = 0 => x.tombstones[r.id] = 0
    BY <1>1, <2>1 DEF PurgeEffect, Typed, Ids
  <2>5. Owned(x)
    BY <1>3, <2>3, <2>4 DEF Owned, SameTracking
  <2>6. Serves(Drain(x)) /\ Feeds(s, Drain(x))
    BY <1>1, <1>2, <1>3, <2>1, <2>2, <2>3, <2>5, EndsThenDrains DEF SameTracking
  <2>7. UNCHANGED poolVars => Serves(x) /\ Feeds(s, x)
    BY <1>5, <2>3, <2>4, ServesOn
  <2> QED
    BY <2>2, <2>6, <2>7
<1>20. ASSUME NEW spawned \in SpawnOutcomes, RestartFires(spawned)
       PROVE  Serves(s') /\ Feeds(s, s')
  BY <1>1, <1>20, RestartServes
<1>21. ASSUME NEW g \in Generations, NEW success \in BOOLEAN,
              TreeSettles(g, success) \/ TokenRetrySettles(g, success)
       PROVE  Serves(s') /\ Feeds(s, s')
  <2>1. childReady' = childReady /\ staleChildren' = staleChildren
    BY <1>21 DEF TreeSettles, TokenRetrySettles, FinishTreeTermination, FinishTokenRetry,
                 currentVars, processVars
  <2>2. s' = Drain(s) \/ (s' = s /\ unresolvedTreeTokens' = unresolvedTreeTokens)
    BY <1>21 DEF TreeSettles, TokenRetrySettles, FinishTreeTermination, FinishTokenRetry
  <2>3. unresolvedTreeTokens' = unresolvedTreeTokens => Serves(s) /\ Feeds(s, s)
    BY <2>1, ServesOn DEF SameTracking
  <2> QED
    BY <1>4, <2>1, <2>2, <2>3
<1>22. \A outcome \in [liveChildren -> TerminationOutcomes] : ~ShutsDown(outcome)
  BY DEF ShutsDown, Shutdown
<1> QED
  BY <1>6, <1>7, <1>8, <1>10, <1>11, <1>12, <1>13, <1>14, <1>15, <1>16, <1>17, <1>18, <1>19,
     <1>20, <1>21, <1>22 DEF SupervisorNext

(* It is so until the shutdown. *)
ServingRight == shuttingDown \/ Serving

(* It is so in every behaviour of a modern client. *)
THEOREM ModernServes ==
  ASSUME NeverInitializes
  PROVE  SupervisorSpec => []ServingRight
<1>0. OwnHandshakeIds
  BY DEF NeverInitializes, OwnHandshakeIds
<1>1. SupervisorInit => ServingRight
  BY DEF SupervisorInit, Init, InitialState, ServingRight, Serving, Owned, QueueMoves
<1>2. SupervisorInv /\ Tracking /\ ReadyWorker /\ ReadyWorker' /\ ServingRight
      /\ [SupervisorNext]_vars => ServingRight'
  <2> SUFFICES ASSUME SupervisorInv, Tracking, ReadyWorker, ReadyWorker', ServingRight,
                      [SupervisorNext]_vars
               PROVE  ServingRight'
    OBVIOUS
  <2>1. CASE SupervisorNext /\ ~shuttingDown'
    <3>1. ~shuttingDown /\ workerGeneration \in Nat
      BY <2>1, ShutdownStays, PoolAssumption
         DEF SupervisorInv, IInv, TypeOK, CountsOK, PoolAssumption
    <3>2. Serves(s')
      BY <2>1, <3>1, ServesStep DEF SupervisorInv, Tracking, ServingRight
    <3> QED
      BY <3>2 DEF ServingRight, Serving, Serves, Moves, QueueMoves
  <2>2. CASE shuttingDown'
    BY <2>2 DEF ServingRight
  <2>3. CASE UNCHANGED vars
    BY <2>3 DEF vars, poolVars, currentVars, processVars, treeVars, ServingRight, Serving,
                QueueMoves
  <2> QED
    BY <2>1, <2>2, <2>3
<1> QED
  BY <1>0, <1>1, <1>2, SupervisorInvariant, TrackingInvariant, ReadyWorkerCurrent, PTL
     DEF SupervisorSpec

(* Exactly one response reaches a modern client per request, and none for a
   cancelled one; until it comes, the request is queued or forwarded. Assumes
   that the client takes a fresh id for every request it may cancel. *)
THEOREM ModernRepliesRight ==
  ASSUME NeverInitializes, FreshIds
  PROVE  SupervisorSpec => []RepliesRight
<1>1. OwnHandshakeIds
  BY DEF NeverInitializes, OwnHandshakeIds
<1>2. SupervisorInv /\ Tracking /\ CallsAnsweredOnce => RepliesRight
  BY TrackedBarrier DEF RepliesRight, CallsAnsweredOnce, AnsweredOnce, NeverInitializes
<1> QED
  BY <1>1, <1>2, SupervisorInvariant, TrackingInvariant, AnsweredForGood, PTL

(* Nothing is left behind of a modern client's requests: a forwarded request
   never outlives the worker that holds it, and the barrier and the deadlines
   go with their requests. *)
THEOREM ModernLeavesNothing ==
  ASSUME NeverInitializes
  PROVE  SupervisorSpec => []NothingLeftBehind
<1>1. OwnHandshakeIds
  BY DEF NeverInitializes, OwnHandshakeIds
<1>2. SupervisorInv /\ Tracking /\ ServingRight => NothingLeftBehind
  <2> SUFFICES ASSUME SupervisorInv, Tracking, ServingRight
               PROVE  NothingLeftBehind
    OBVIOUS
  <2>1. PendingOwned
    BY DEF PendingOwned, Tracking, Quiet, ServingRight, Serving, Owned
  <2> QED
    BY <2>1, TrackedBarrier DEF NothingLeftBehind
<1> QED
  BY <1>1, <1>2, SupervisorInvariant, TrackingInvariant, ModernServes, PTL

(* No wakeup is lost to a modern client: with a ready worker its queue stands
   still only behind a validate-project that runs, or that waits for something
   whose end drains the queue. *)
THEOREM ModernQueueMoves ==
  ASSUME NeverInitializes
  PROVE  SupervisorSpec => []QueueMoves
<1>1. OwnHandshakeIds
  BY DEF NeverInitializes, OwnHandshakeIds
<1>2. Tracking /\ ServingRight => QueueMoves
  BY DEF Tracking, Quiet, ServingRight, Serving, QueueMoves
<1> QED
  BY <1>1, <1>2, TrackingInvariant, ModernServes, PTL

(* What every step of the supervisor forwards for a modern client. *)
LEMMA FeedsEach ==
  ASSUME NeverInitializes, SupervisorInv, Tracking, Tracking', ReadyWorker, ReadyWorker',
         ServingRight,
         SupervisorNext
  PROVE  Feeds(s, s')
<1>1. CASE ~shuttingDown'
  <2>1. ~shuttingDown /\ workerGeneration \in Nat
    BY <1>1, ShutdownStays, PoolAssumption
       DEF SupervisorInv, IInv, TypeOK, CountsOK, PoolAssumption
  <2> QED
    BY <1>1, <2>1, ServesStep DEF SupervisorInv, Tracking, ServingRight
<1>2. CASE shuttingDown'
  BY <1>2 DEF Tracking, Quiet, Feeds
<1> QED
  BY <1>1, <1>2

(* A modern client's validate-project has the worker, and the machine, to
   itself: nothing else is forwarded beside it, and it starts only when every
   replaced worker is gone and no process tree is unresolved, whichever path
   dispatches it. *)
THEOREM ModernValidatesAlone ==
  ASSUME NeverInitializes
  PROVE  SupervisorSpec => ValidateExclusive
<1>1. OwnHandshakeIds
  BY DEF NeverInitializes, OwnHandshakeIds
<1>2. Tracking /\ ServingRight => ValidateAlone
  BY DEF Tracking, Quiet, ServingRight, Serving, Owned, ValidateAlone
<1>3. SupervisorInv /\ Tracking /\ Tracking' /\ ReadyWorker /\ ReadyWorker' /\ ServingRight
      /\ [SupervisorNext]_vars
      => [\A r \in s'.pending \ s.pending :
            Validate(r) => staleChildren' = {} /\ unresolvedTreeTokens' = {}]_vars
  BY FeedsEach DEF Feeds, NothingElseAlive
<1> QED
  BY <1>1, <1>2, <1>3, SupervisorInvariant, TrackingInvariant, ReadyWorkerCurrent, ModernServes,
     PTL DEF SupervisorSpec, ValidateExclusive, ValidateStartsAlone

(* A modern client's validate-project that waits is not overtaken: while it
   stays queued, only what is ahead of it is forwarded. *)
THEOREM ModernNotOvertaken ==
  ASSUME NeverInitializes
  PROVE  SupervisorSpec => NotOvertaken
<1>1. OwnHandshakeIds
  BY DEF NeverInitializes, OwnHandshakeIds
<1>2. SupervisorInv /\ Tracking /\ Tracking' /\ ReadyWorker /\ ReadyWorker' /\ ServingRight
      /\ [SupervisorNext]_vars
      => [\A v \in Queued(s) \cap Queued(s'), r \in s'.pending \ s.pending :
            Validate(v) => Initialize(r) \/ Ahead(r, v)]_vars
  BY FeedsEach, QueuedEntries DEF Feeds, Before, Ahead
<1> QED
  BY <1>1, <1>2, SupervisorInvariant, TrackingInvariant, ReadyWorkerCurrent, ModernServes,
     PTL DEF SupervisorSpec, NotOvertaken
=============================================================================
