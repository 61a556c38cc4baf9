-------------------------- MODULE SupervisorTracking --------------------------
(***************************************************************************)
(* What the supervisor keeps of the requests: each is kept while the       *)
(* client waits for it, at one place, with its deadline and its barrier,   *)
(* and nothing is kept of the others. First the operators of Supervisor:   *)
(* which fields of the request state each of them changes, and that each   *)
(* of them keeps the types.                                                *)
(***************************************************************************)
EXTENDS Supervisor, SequenceTheorems, WorkerPoolProofs

-----------------------------------------------------------------------------
(* Queues. *)

(* What a queue holds. *)
Entries(q) == {q[i] : i \in DOMAIN q}

(* No request waits at two places of the queue. (An initialize is never asked
   for by its place.) *)
Single(q) ==
  \A i, j \in DOMAIN q : q[i] = q[j] => i = j \/ Initialize(q[i])

(* A request put at the end (queuedRequests.push) is behind the others, which
   stay where they are. *)
LEMMA AppendQueue ==
  ASSUME NEW S, NEW q \in Seq(S), NEW r \in S
  PROVE  /\ Append(q, r) \in Seq(S)
         /\ Len(Append(q, r)) = Len(q) + 1
         /\ \A i \in 1 .. Len(q) : Append(q, r)[i] = q[i]
         /\ Entries(Append(q, r)) = Entries(q) \cup {r}
         /\ Single(q) /\ (Initialize(r) \/ r \notin Entries(q)) => Single(Append(q, r))
<1>1. /\ Append(q, r) \in Seq(S) /\ Len(Append(q, r)) = Len(q) + 1
      /\ Append(q, r)[Len(q) + 1] = r
      /\ \A i \in 1 .. Len(q) : Append(q, r)[i] = q[i]
  OBVIOUS
<1>2. DOMAIN Append(q, r) = DOMAIN q \cup {Len(q) + 1} /\ DOMAIN q = 1 .. Len(q)
  BY <1>1
<1>3. Entries(Append(q, r)) = Entries(q) \cup {r}
  BY <1>1, <1>2 DEF Entries
<1>4. ASSUME Single(q), Initialize(r) \/ r \notin Entries(q)
      PROVE  Single(Append(q, r))
  BY <1>1, <1>2, <1>4 DEF Single, Entries
<1> QED
  BY <1>1, <1>3, <1>4

(* The head is taken off the queue (queuedRequests.shift): the others move up
   by one place. *)
LEMMA TailQueue ==
  ASSUME NEW S, NEW q \in Seq(S), q # << >>
  PROVE  /\ Tail(q) \in Seq(S) /\ Head(q) \in S
         /\ Len(Tail(q)) = Len(q) - 1 /\ Len(q) \in Nat \ {0}
         /\ Head(q) = q[1]
         /\ \A i \in 1 .. Len(q) - 1 : Tail(q)[i] = q[i + 1]
         /\ Entries(q) = Entries(Tail(q)) \cup {Head(q)}
         /\ Single(q) => /\ Single(Tail(q))
                         /\ Initialize(Head(q)) \/ Head(q) \notin Entries(Tail(q))
<1>1. /\ Tail(q) \in Seq(S) /\ Head(q) \in S
      /\ Len(Tail(q)) = Len(q) - 1 /\ Len(q) \in Nat \ {0}
      /\ Head(q) = q[1]
      /\ \A i \in 1 .. Len(q) - 1 : Tail(q)[i] = q[i + 1]
  OBVIOUS
<1>2. DOMAIN Tail(q) = 1 .. Len(q) - 1 /\ DOMAIN q = 1 .. Len(q)
  BY <1>1
<1>3. Entries(q) = Entries(Tail(q)) \cup {Head(q)}
  <2>1. \A i \in DOMAIN q : q[i] = Head(q) \/ \E j \in DOMAIN Tail(q) : q[i] = Tail(q)[j]
    <3> TAKE i \in DOMAIN q
    <3>1. i = 1 \/ (i - 1 \in DOMAIN Tail(q) /\ Tail(q)[i - 1] = q[i])
      BY <1>1, <1>2
    <3> QED
      BY <1>1, <3>1
  <2>2. 1 \in DOMAIN q
        /\ \A j \in DOMAIN Tail(q) : \E i \in DOMAIN q : Tail(q)[j] = q[i]
    BY <1>1, <1>2
  <2>3. Entries(q) \subseteq Entries(Tail(q)) \cup {Head(q)}
    BY <2>1 DEF Entries
  <2>4. Entries(Tail(q)) \subseteq Entries(q)
    BY <2>2 DEF Entries
  <2>5. Head(q) \in Entries(q)
    BY <1>1, <2>2 DEF Entries
  <2> QED
    BY <2>3, <2>4, <2>5
<1>4. ASSUME Single(q)
      PROVE  /\ Single(Tail(q))
             /\ Initialize(Head(q)) \/ Head(q) \notin Entries(Tail(q))
  BY <1>1, <1>2, <1>4 DEF Single, Entries
<1> QED
  BY <1>1, <1>3, <1>4

(* An entry spliced out of the queue (queuedRequests.splice): the ones before
   it stay, the ones behind it move up. *)
LEMMA WithoutQueue ==
  ASSUME NEW S, NEW q \in Seq(S), NEW r \in Entries(q)
  PROVE  /\ Without(q, r) \in Seq(S)
         /\ Len(Without(q, r)) = Len(q) - 1
         /\ \E index \in 1 .. Len(q) :
              /\ q[index] = r
              /\ \A i \in 1 .. Len(q) - 1 :
                   Without(q, r)[i] = q[IF i < index THEN i ELSE i + 1]
         /\ Entries(q) = Entries(Without(q, r)) \cup {r}
         /\ Single(q) => /\ Single(Without(q, r))
                         /\ Initialize(r) \/ r \notin Entries(Without(q, r))
<1> DEFINE index == CHOOSE i \in DOMAIN q : q[i] = r
           w == Without(q, r)
<1>1. index \in DOMAIN q /\ q[index] = r
  BY DEF Entries
<1>2. w = [i \in 1 .. Len(q) - 1 |-> q[IF i < index THEN i ELSE i + 1]]
  BY DEF Without
<1> HIDE DEF index, w
<1>3. DOMAIN q = 1 .. Len(q) /\ Len(q) \in Nat \ {0} /\ index \in 1 .. Len(q)
      /\ DOMAIN w = 1 .. Len(q) - 1 /\ Len(q) - 1 \in Nat
  BY <1>1, <1>2
<1>4. \A i \in 1 .. Len(q) - 1 : w[i] = q[IF i < index THEN i ELSE i + 1] /\ w[i] \in S
  BY <1>2, <1>3
<1>5. w \in Seq(S) /\ Len(w) = Len(q) - 1
  BY <1>2, <1>3, <1>4, IsASeq
<1>6. Entries(q) = Entries(w) \cup {r}
  <2>1. ASSUME NEW i \in DOMAIN q, i # index
        PROVE  \E j \in DOMAIN w : w[j] = q[i]
    <3>1. CASE i < index
      BY <1>3, <1>4, <2>1, <3>1
    <3>2. CASE i > index
      <4>1. i - 1 \in DOMAIN w /\ w[i - 1] = q[i]
        BY <1>3, <1>4, <3>2
      <4> QED
        BY <4>1
    <3> QED
      BY <1>3, <2>1, <3>1, <3>2
  <2>2. \A j \in DOMAIN w : \E i \in DOMAIN q : w[j] = q[i]
    BY <1>3, <1>4
  <2> QED
    BY <1>1, <2>1, <2>2 DEF Entries
<1>7. ASSUME Single(q)
      PROVE  Single(w) /\ (Initialize(r) \/ r \notin Entries(w))
  <2> DEFINE at(i) == IF i < index THEN i ELSE i + 1
  <2>1. /\ \A i \in DOMAIN w : at(i) \in DOMAIN q /\ at(i) # index /\ w[i] = q[at(i)]
        /\ \A i, j \in DOMAIN w : at(i) = at(j) => i = j
    BY <1>3, <1>4
  <2> HIDE DEF at
  <2>2. Single(w)
    BY <1>7, <2>1 DEF Single
  <2>3. \A i \in DOMAIN w : w[i] = r => Initialize(r)
    BY <1>1, <1>7, <2>1 DEF Single
  <2> QED
    BY <2>2, <2>3 DEF Entries
<1> QED
  BY <1>1, <1>3, <1>4, <1>5, <1>6, <1>7 DEF w

-----------------------------------------------------------------------------
(* What each operator changes, and that it changes nothing else. *)

(* The fields of the request state. *)
StateFields ==
  {"queue", "pending", "barrier", "running", "armed", "tombstones", "era",
   "initializeRequest", "parked", "predecessors", "clientInitialized",
   "replaying", "initializeSent", "initialized", "marked", "stdin", "held",
   "told", "answers"}

(* st is a request state. *)
Is(st) == DOMAIN st = StateFields

(* What is kept of the requests has not changed: the queue, the entries, the
   validate slot and its barrier, and the deadlines. *)
SameTracking(st, t) ==
  /\ t.queue = st.queue /\ t.pending = st.pending /\ t.barrier = st.barrier
  /\ t.running = st.running /\ t.armed = st.armed

(* What is kept of the client's session has not changed. *)
SameSession(st, t) ==
  /\ t.era = st.era /\ t.initializeRequest = st.initializeRequest
  /\ t.parked = st.parked /\ t.predecessors = st.predecessors
  /\ t.clientInitialized = st.clientInitialized
  /\ t.replaying = st.replaying /\ t.initialized = st.initialized

(* What is known of the current worker through its pipes has not changed. *)
SamePipes(st, t) ==
  /\ t.marked = st.marked /\ t.stdin = st.stdin /\ t.held = st.held
  /\ t.told = st.told /\ t.initializeSent = st.initializeSent

(* No tombstone and no response was added. *)
SameReplies(st, t) == t.tombstones = st.tombstones /\ t.answers = st.answers

(* The responses after one more to each request of R. *)
Answered(st, R) ==
  [r \in Requests |-> IF r \in R /\ st.answers[r] < 2 THEN st.answers[r] + 1
                                                      ELSE st.answers[r]]

(* The tombstones after those of the forwarded requests R. *)
Entombed(st, R) ==
  [id \in Ids |-> IF \E r \in R : r.id = id THEN workerGeneration
                                            ELSE st.tombstones[id]]

(* t is st with one response to each request of R. *)
AnswerEffect(st, t, R) ==
  /\ Is(t) /\ SameTracking(st, t) /\ SameSession(st, t) /\ SamePipes(st, t)
  /\ t.tombstones = st.tombstones /\ t.answers = Answered(st, R)

(* writeToClient changes nothing but the count of responses. *)
LEMMA AnswerFields ==
  ASSUME NEW st, Is(st), NEW R
  PROVE  AnswerEffect(st, AnswerAll(st, R), R)
BY DEF AnswerEffect, Is, StateFields, AnswerAll, Answered, SameTracking, SameSession, SamePipes

(* t is st once the forwarded requests R are over. *)
ReleaseEffect(st, t, R) ==
  /\ Is(t) /\ SameSession(st, t) /\ SamePipes(st, t)
  /\ t.queue = st.queue /\ t.pending = st.pending \ R
  /\ t.armed = st.armed \ R
  /\ t.running = IF \E r \in R : r.id = st.running THEN None ELSE st.running
  /\ t.barrier = IF \E r \in R : r.id = st.barrier THEN None ELSE st.barrier
  /\ t.answers = st.answers /\ t.tombstones = Entombed(st, R)

(* The end of forwarded requests takes their entries, deadlines and the
   validate slot, and leaves tombstones. *)
LEMMA ReleaseFields ==
  ASSUME NEW st, Is(st), NEW R
  PROVE  ReleaseEffect(st, Release(st, R), R)
BY DEF ReleaseEffect, Is, StateFields, Release, Entomb, Entombed, Disarm, SameSession, SamePipes

(* t is st with the deadline timers of R cleared. *)
DisarmEffect(st, t, R) ==
  /\ Is(t) /\ SameSession(st, t) /\ SamePipes(st, t) /\ SameReplies(st, t)
  /\ t.queue = st.queue /\ t.pending = st.pending
  /\ t.running = st.running /\ t.barrier = st.barrier
  /\ t.armed = st.armed \ R

(* Clearing deadline timers changes nothing else. *)
LEMMA DisarmFields ==
  ASSUME NEW st, Is(st), NEW R
  PROVE  DisarmEffect(st, Disarm(st, R), R)
BY DEF DisarmEffect, Is, StateFields, Disarm, SameSession, SamePipes, SameReplies

(* t is st once the request with the id, never forwarded, has given back the
   barrier it took. *)
BarrierEffect(st, t, id) ==
  /\ Is(t) /\ SameSession(st, t) /\ SamePipes(st, t) /\ SameReplies(st, t)
  /\ t.queue = st.queue /\ t.pending = st.pending
  /\ t.running = st.running /\ t.armed = st.armed
  /\ t.barrier = IF st.barrier = id /\ st.running # id THEN None ELSE st.barrier

(* Giving back a barrier changes nothing else. *)
LEMMA ReleaseBarrierFields ==
  ASSUME NEW st, Is(st), NEW id
  PROVE  BarrierEffect(st, ReleaseBarrier(st, id), id)
BY DEF BarrierEffect, Is, StateFields, ReleaseBarrier, SameSession, SamePipes, SameReplies

(* t is st with r at the end of the queue. *)
QueueEffect(st, t, r) ==
  /\ Is(t) /\ SameSession(st, t) /\ SamePipes(st, t) /\ SameReplies(st, t)
  /\ t.pending = st.pending /\ t.barrier = st.barrier
  /\ t.running = st.running /\ t.armed = st.armed
  /\ t.queue = Append(st.queue, r)

(* forwardRequest without a writable worker puts the request at the end of the
   queue, when it has room ... *)
LEMMA ForwardQueues ==
  ASSUME NEW st, Is(st), NEW r, ~Writable(st), Len(st.queue) < MAX_SUPERVISOR_QUEUE
  PROVE  QueueEffect(st, Forward(st, r), r)
BY DEF QueueEffect, Is, StateFields, Forward, SameSession, SamePipes, SameReplies

(* t is st with r turned away: answered, its deadline and barrier given back. *)
RefuseEffect(st, t, r) ==
  /\ Is(t) /\ SameSession(st, t) /\ SamePipes(st, t)
  /\ t.queue = st.queue /\ t.pending = st.pending
  /\ t.running = st.running /\ t.armed = st.armed \ {r}
  /\ t.barrier = IF st.barrier = r.id /\ st.running # r.id THEN None ELSE st.barrier
  /\ t.tombstones = st.tombstones /\ t.answers = Answered(st, {r})

(* ... and turns it away when it has not. *)
LEMMA ForwardRefuses ==
  ASSUME NEW st, Is(st), NEW r, ~Writable(st), ~(Len(st.queue) < MAX_SUPERVISOR_QUEUE)
  PROVE  RefuseEffect(st, Forward(st, r), r)
<1> DEFINE a == Disarm(st, {r})
           b == ReleaseBarrier(a, r.id)
           t == AnswerAll(b, {r})
<1>1. Forward(st, r) = t
  BY DEF Forward, Answer
<1> HIDE DEF a, b, t
<1>2. DisarmEffect(st, a, {r})
  BY DisarmFields DEF a
<1>3. BarrierEffect(a, b, r.id)
  BY <1>2, ReleaseBarrierFields DEF b, DisarmEffect
<1>4. AnswerEffect(b, t, {r})
  BY <1>3, AnswerFields DEF t, BarrierEffect
<1>5. t.answers = Answered(st, {r})
  BY <1>2, <1>3, <1>4 DEF DisarmEffect, BarrierEffect, AnswerEffect, SameReplies, Answered
<1> QED
  BY <1>1, <1>2, <1>3, <1>4, <1>5
     DEF RefuseEffect, DisarmEffect, BarrierEffect, AnswerEffect,
         SameSession, SamePipes, SameReplies, SameTracking

(* What the write of r to the worker changes besides the entries, whether or
   not it throws. *)
Written(st, t, r) ==
  /\ Is(t) /\ t.queue = st.queue
  /\ t.era = st.era /\ t.initializeRequest = st.initializeRequest
  /\ t.parked = st.parked /\ t.predecessors = st.predecessors
  /\ t.clientInitialized = st.clientInitialized
  /\ t.replaying = st.replaying /\ t.initialized = st.initialized
  /\ t.marked = st.marked /\ t.told = st.told
  /\ t.stdin = "written" /\ t.held = st.held \cup {r}
  /\ t.initializeSent = (st.initializeSent \/ Initialize(r))

(* t is st with r forwarded: it has the entry of its id and, if it is a
   validate-project, the slot and the barrier. *)
WriteEffect(st, t, r) ==
  /\ Written(st, t, r)
  /\ t.pending = {q \in st.pending : q.id # r.id} \cup {r}
  /\ t.running = IF Validate(r) THEN r.id ELSE st.running
  /\ t.barrier = IF Validate(r) THEN r.id ELSE st.barrier
  /\ t.armed = st.armed /\ t.answers = st.answers
  /\ t.tombstones = [st.tombstones EXCEPT ![r.id] = 0]

(* forwardRequest writes a request to a writable worker. *)
LEMMA ForwardWrites ==
  ASSUME NEW st, Is(st), NEW r, Writable(st), r \notin Unwritable
  PROVE  WriteEffect(st, Forward(st, r), r)
BY DEF WriteEffect, Is, StateFields, Forward, Written

(* t is st with the forwarding of r rolled back and r answered. *)
UnwriteEffect(st, t, r) ==
  /\ Written(st, t, r)
  /\ t.pending = {q \in st.pending : q.id # r.id} \ {r}
  /\ t.running = IF Validate(r) \/ st.running = r.id THEN None ELSE st.running
  /\ t.barrier = IF Validate(r) \/ st.barrier = r.id THEN None ELSE st.barrier
  /\ t.armed = st.armed \ {r} /\ t.answers = Answered(st, {r})
  /\ t.tombstones = [id \in Ids |-> IF id = r.id THEN workerGeneration
                       ELSE [st.tombstones EXCEPT ![r.id] = 0][id]]

(* A write that throws is rolled back: no entry, deadline or slot is left. *)
LEMMA ForwardUnwritten ==
  ASSUME NEW st, Is(st), NEW r, Writable(st), r \in Unwritable
  PROVE  UnwriteEffect(st, Forward(st, r), r)
<1> DEFINE w == [st EXCEPT
                !.tombstones[r.id] = 0,
                !.pending = {q \in @ : q.id # r.id} \cup {r},
                !.running = IF Validate(r) THEN r.id ELSE @,
                !.barrier = IF Validate(r) THEN r.id ELSE @,
                !.initializeSent = @ \/ Initialize(r),
                !.stdin = "written", !.held = @ \cup {r}]
           u == Release(w, {r})
           t == AnswerAll(u, {r})
<1>1. Forward(st, r) = t
  BY DEF Forward, Answer, Unwritten
<1>2. WriteEffect(st, w, r)
  BY DEF WriteEffect, Is, StateFields, Written
<1> HIDE DEF w, u, t
<1>3. ReleaseEffect(w, u, {r})
  BY <1>2, ReleaseFields DEF u, WriteEffect, Written
<1>4. AnswerEffect(u, t, {r})
  BY <1>3, AnswerFields DEF t, ReleaseEffect
<1>5. Written(st, t, r)
  BY <1>2, <1>3, <1>4 DEF WriteEffect, ReleaseEffect, AnswerEffect, Written,
                          SameSession, SamePipes, SameTracking
<1>6. /\ t.pending = {q \in st.pending : q.id # r.id} \ {r}
      /\ t.running = IF Validate(r) \/ st.running = r.id THEN None ELSE st.running
      /\ t.barrier = IF Validate(r) \/ st.barrier = r.id THEN None ELSE st.barrier
      /\ t.armed = st.armed \ {r}
  BY <1>2, <1>3, <1>4 DEF WriteEffect, ReleaseEffect, AnswerEffect, SameTracking
<1>7. t.answers = Answered(st, {r})
  BY <1>2, <1>3, <1>4 DEF WriteEffect, ReleaseEffect, AnswerEffect, Answered
<1>8. t.tombstones = [id \in Ids |-> IF id = r.id THEN workerGeneration
                                 ELSE [st.tombstones EXCEPT ![r.id] = 0][id]]
  BY <1>2, <1>3, <1>4 DEF WriteEffect, ReleaseEffect, AnswerEffect, Entombed
<1> QED
  BY <1>1, <1>5, <1>6, <1>7, <1>8 DEF UnwriteEffect

(* t is st without the head of its queue. *)
TakeEffect(st, t) ==
  /\ Is(t) /\ SameSession(st, t) /\ SamePipes(st, t) /\ SameReplies(st, t)
  /\ t.pending = st.pending /\ t.barrier = st.barrier
  /\ t.running = st.running /\ t.armed = st.armed
  /\ t.queue = Tail(st.queue)

(* Taking the head off the queue changes nothing else. *)
LEMMA TakeFields ==
  ASSUME NEW st, Is(st)
  PROVE  TakeEffect(st, [st EXCEPT !.queue = Tail(@)])
BY DEF TakeEffect, Is, StateFields, SameSession, SamePipes, SameReplies

(* t is st with the barrier of the request with the id. *)
RaiseEffect(st, t, id) ==
  /\ Is(t) /\ SameSession(st, t) /\ SamePipes(st, t) /\ SameReplies(st, t)
  /\ t.pending = st.pending /\ t.queue = st.queue
  /\ t.running = st.running /\ t.armed = st.armed
  /\ t.barrier = id

(* Raising the barrier changes nothing else. *)
LEMMA RaiseFields ==
  ASSUME NEW st, Is(st), NEW id
  PROVE  RaiseEffect(st, [st EXCEPT !.barrier = id], id)
BY DEF RaiseEffect, Is, StateFields, SameSession, SamePipes, SameReplies

(* t is st without the handshake of a client that has not finished it. *)
ClearEffect(st, t) ==
  /\ Is(t) /\ SameReplies(st, t)
  /\ t.queue = st.queue /\ t.barrier = st.barrier
  /\ t.running = st.running /\ t.armed = st.armed
  /\ t.era = st.era /\ t.parked = st.parked
  /\ t.clientInitialized = st.clientInitialized
  /\ t.marked = st.marked /\ t.stdin = st.stdin /\ t.held = st.held
  /\ t.told = st.told
  /\ st.clientInitialized => t = st
  /\ ~st.clientInitialized =>
       /\ t.pending = {r \in st.pending : ~Retained(st, r)}
       /\ t.initializeRequest = None /\ t.initialized = FALSE
       /\ t.predecessors = 0 /\ t.replaying = FALSE
       /\ t.initializeSent = FALSE

(* clearInitialInitializationState forgets an unfinished handshake and nothing
   else. *)
LEMMA ClearFields ==
  ASSUME NEW st, Is(st)
  PROVE  ClearEffect(st, ClearHandshake(st))
BY DEF ClearEffect, Is, StateFields, SameReplies, ClearHandshake

(* t is st without what was known of the current worker. *)
LoseEffect(st, t) ==
  /\ Is(t) /\ SameTracking(st, t) /\ SameReplies(st, t)
  /\ t.era = st.era /\ t.initializeRequest = st.initializeRequest
  /\ t.parked = st.parked /\ t.predecessors = st.predecessors
  /\ t.clientInitialized = st.clientInitialized
  /\ t.initialized = st.initialized
  /\ t.replaying = FALSE /\ t.initializeSent = FALSE
  /\ t.marked = FALSE /\ t.stdin = "fresh" /\ t.held = {}
  /\ t.told = FALSE

(* Losing the worker (detachCurrentChild) touches none of the requests. *)
LEMMA LoseFields ==
  ASSUME NEW st, Is(st)
  PROVE  LoseEffect(st, LoseWorker(st))
BY DEF LoseEffect, Is, StateFields, LoseWorker, SameTracking, SameReplies

(* t is st after the era lock that r may cause. *)
LockEffect(st, t, r) ==
  /\ Is(t) /\ SameTracking(st, t) /\ SameReplies(st, t)
  /\ t.parked = st.parked /\ t.marked = st.marked
  /\ t.stdin = st.stdin /\ t.held = st.held /\ t.told = st.told
  /\ ~(st.era = "unselected" /\ ModernClaim(r) /\ r.method # "discover") => t = st
  /\ st.era = "unselected" /\ ModernClaim(r) /\ r.method # "discover" =>
       /\ t.era = "modern" /\ t.initializeRequest = None
       /\ t.initialized = FALSE /\ t.predecessors = 0
       /\ t.clientInitialized = FALSE /\ t.replaying = FALSE
       /\ t.initializeSent = FALSE

(* lockModernEra forgets the session and touches none of the requests. *)
LEMMA LockFields ==
  ASSUME NEW st, Is(st), NEW r
  PROVE  LockEffect(st, LockEra(st, r), r)
BY DEF LockEffect, Is, StateFields, LockEra, SameTracking, SameReplies

(* t is st with the deadline and the barrier of r, if it is a validate-
   project. *)
InstallEffect(st, t, r) ==
  /\ Is(t) /\ SameSession(st, t) /\ SamePipes(st, t) /\ SameReplies(st, t)
  /\ t.pending = st.pending /\ t.queue = st.queue
  /\ t.running = st.running
  /\ t.armed = IF Validate(r) THEN st.armed \cup {r} ELSE st.armed
  /\ t.barrier = IF Validate(r) /\ st.barrier = None THEN r.id ELSE st.barrier

(* Arming a validate-project's deadline and raising its barrier changes
   nothing else. *)
LEMMA InstallFields ==
  ASSUME NEW st, Is(st), NEW r
  PROVE  InstallEffect(st, Install(st, r), r)
BY DEF InstallEffect, Is, StateFields, Install, SameSession, SamePipes, SameReplies

(* t is st without the tombstones of the generations up to g. *)
PurgeEffect(st, t, g) ==
  /\ Is(t) /\ SameTracking(st, t) /\ SameSession(st, t) /\ SamePipes(st, t)
  /\ t.answers = st.answers
  /\ t.tombstones = [id \in Ids |-> IF st.tombstones[id] <= g THEN 0
                                    ELSE st.tombstones[id]]

(* purgeTombstonesThroughGeneration touches nothing but tombstones. *)
LEMMA PurgeFields ==
  ASSUME NEW st, Is(st), NEW g
  PROVE  PurgeEffect(st, Purge(st, g), g)
BY DEF PurgeEffect, Is, StateFields, Purge, SameTracking, SameSession, SamePipes

(* t is st with every request that waits answered and forgotten, and with them
   an unfinished handshake. *)
FailQueuedEffect(st, t) ==
  /\ Is(t) /\ t.tombstones = st.tombstones
  /\ t.queue = << >> /\ t.parked = None
  /\ t.barrier = None /\ t.running = None
  /\ t.armed = st.armed \ Queued(st)
  /\ t.answers = Answered([answers |-> Answered(st, Queued(st))],
                          {st.parked} \cap Requests)
  /\ t.era = st.era /\ t.clientInitialized = st.clientInitialized
  /\ t.marked = st.marked /\ t.stdin = st.stdin /\ t.held = st.held
  /\ t.told = st.told
  /\ st.clientInitialized =>
       /\ t.pending = st.pending /\ t.predecessors = st.predecessors
       /\ t.initializeRequest = st.initializeRequest
       /\ t.initialized = st.initialized /\ t.replaying = st.replaying
       /\ t.initializeSent = st.initializeSent
  /\ ~st.clientInitialized =>
       /\ t.pending = {r \in st.pending : ~Retained(st, r)}
       /\ t.initializeRequest = None /\ t.initialized = FALSE
       /\ t.predecessors = 0 /\ t.replaying = FALSE
       /\ t.initializeSent = FALSE

(* failQueuedRequestsOnStartupFailure ends the requests that wait, and leaves
   those that were forwarded. *)
LEMMA FailQueuedFields ==
  ASSUME NEW st, Is(st)
  PROVE  FailQueuedEffect(st, FailQueued(st))
<1> DEFINE a == AnswerAll(st, Queued(st))
           b == AnswerAll(a, {st.parked} \cap Requests)
           c == Disarm(b, Queued(st))
           d == [c EXCEPT !.queue = << >>, !.parked = None]
           e == ClearHandshake(d)
           t == FailQueued(st)
<1>1. t = [e EXCEPT !.barrier = None, !.running = None]
  BY DEF FailQueued
<1> HIDE DEF t
<1>2. AnswerEffect(st, a, Queued(st))
  BY AnswerFields
<1> HIDE DEF a
<1>3. AnswerEffect(a, b, {st.parked} \cap Requests)
  BY <1>2, AnswerFields DEF AnswerEffect
<1> HIDE DEF b
<1>4. DisarmEffect(b, c, Queued(st))
  BY <1>3, DisarmFields DEF AnswerEffect
<1> HIDE DEF c
<1>5. /\ Is(d) /\ SamePipes(c, d) /\ SameReplies(c, d) /\ d.queue = << >>
      /\ d.pending = c.pending /\ d.armed = c.armed /\ d.parked = None
      /\ d.era = c.era /\ d.initializeRequest = c.initializeRequest
      /\ d.predecessors = c.predecessors
      /\ d.clientInitialized = c.clientInitialized
      /\ d.replaying = c.replaying /\ d.initialized = c.initialized
  BY <1>4 DEF DisarmEffect, Is, StateFields, SamePipes, SameReplies
<1> HIDE DEF d
<1>6. ClearEffect(d, e)
  BY <1>5, ClearFields
<1> HIDE DEF e
<1>7. /\ Is(t) /\ t.queue = e.queue /\ t.pending = e.pending /\ t.armed = e.armed
      /\ t.barrier = None /\ t.running = None /\ SameReplies(e, t)
      /\ SameSession(e, t) /\ SamePipes(e, t)
  BY <1>1, <1>6 DEF ClearEffect, Is, StateFields, SamePipes, SameReplies, SameSession
<1>8. t.answers = Answered([answers |-> Answered(st, Queued(st))],
                                    {st.parked} \cap Requests)
  BY <1>2, <1>3, <1>4, <1>5, <1>6, <1>7 DEF AnswerEffect, DisarmEffect, ClearEffect, SameReplies,
         Answered
<1>9. \A r : Retained(d, r) <=> Retained(st, r)
  BY <1>2, <1>3, <1>4, <1>5 DEF AnswerEffect, DisarmEffect, ClearEffect, Retained, SameSession
<1>10. d.pending = st.pending
  BY <1>2, <1>3, <1>4, <1>5 DEF AnswerEffect, DisarmEffect, ClearEffect, SameTracking
<1>11. /\ t.armed = st.armed \ Queued(st) /\ t.tombstones = st.tombstones
       /\ t.queue = << >> /\ t.parked = None
  BY <1>2, <1>3, <1>4, <1>5, <1>6, <1>7 DEF AnswerEffect, DisarmEffect, ClearEffect, SameReplies,
         SameTracking, SameSession
<1>12. /\ t.era = st.era /\ t.clientInitialized = st.clientInitialized
       /\ t.marked = st.marked /\ t.stdin = st.stdin /\ t.held = st.held
       /\ t.told = st.told
  BY <1>2, <1>3, <1>4, <1>5, <1>6, <1>7 DEF AnswerEffect, DisarmEffect, ClearEffect, SamePipes,
         SameSession
<1>13. ASSUME st.clientInitialized
       PROVE  /\ t.pending = st.pending /\ t.predecessors = st.predecessors
              /\ t.initializeRequest = st.initializeRequest
              /\ t.initialized = st.initialized /\ t.replaying = st.replaying
              /\ t.initializeSent = st.initializeSent
  <2>1. e = d
    BY <1>2, <1>3, <1>4, <1>5, <1>6, <1>13 DEF AnswerEffect, DisarmEffect, ClearEffect, SameSession
  <2> QED
    BY <2>1, <1>2, <1>3, <1>4, <1>5, <1>7, <1>10 DEF AnswerEffect, DisarmEffect, ClearEffect,
           SamePipes, SameSession
<1>14. ASSUME ~st.clientInitialized
       PROVE  /\ t.pending = {r \in st.pending : ~Retained(st, r)}
              /\ t.initializeRequest = None /\ t.initialized = FALSE
              /\ t.predecessors = 0 /\ t.replaying = FALSE
              /\ t.initializeSent = FALSE
  <2>1. ~d.clientInitialized
    BY <1>2, <1>3, <1>4, <1>5, <1>14 DEF AnswerEffect, DisarmEffect, ClearEffect, SameSession
  <2> QED
    BY <2>1, <1>6, <1>7, <1>9, <1>10 DEF ClearEffect, SamePipes, SameSession
<1> QED
  BY <1>7, <1>8, <1>11, <1>12, <1>13, <1>14 DEF t, FailQueuedEffect

-----------------------------------------------------------------------------
(* Types. *)

(* What may be kept as an initialize of the requests S. *)
Handshakes(S) == {r \in S : Initialize(r)} \cup {None}

(* Every field of the request state has its type, for a client that has sent
   S; the queue has at most two entries and pendingRequests one per id. *)
Typed(st, S) ==
  /\ Is(st)
  /\ st.queue \in Seq(S) /\ Len(st.queue) <= MAX_SUPERVISOR_QUEUE
  /\ st.pending \subseteq S /\ st.held \subseteq S /\ st.armed \subseteq S
  /\ \A q, r \in st.pending : q.id = r.id => q = r
  /\ st.barrier \in Ids \cup {None} /\ st.running \in Ids \cup {None}
  /\ st.initializeRequest \in Handshakes(S) /\ st.parked \in Handshakes(S)
  /\ st.era \in {"unselected", "legacy", "modern"}
  /\ st.tombstones \in [Ids -> 0 .. workerGeneration]
  /\ st.predecessors \in 0 .. MAX_SUPERVISOR_QUEUE
  /\ st.stdin \in {"fresh", "written", "destroyed"}
  /\ st.answers \in [Requests -> 0 .. 2]

(* Responses are counted up to two. *)
LEMMA AnsweredType ==
  ASSUME NEW st, st.answers \in [Requests -> 0 .. 2], NEW R
  PROVE  Answered(st, R) \in [Requests -> 0 .. 2]
BY DEF Answered

(* A tombstone is the number of a generation there has been. *)
LEMMA EntombedType ==
  ASSUME NEW st, st.tombstones \in [Ids -> 0 .. workerGeneration], NEW R,
         workerGeneration \in Nat
  PROVE  Entombed(st, R) \in [Ids -> 0 .. workerGeneration]
BY DEF Entombed

(* Changing one value of a function by one of its range. *)
LEMMA ExceptType ==
  ASSUME NEW A, NEW B, NEW f \in [A -> B], NEW a, NEW b \in B
  PROVE  [f EXCEPT ![a] = b] \in [A -> B]
OBVIOUS

(* Responses keep the types. *)
LEMMA TypedAnswer ==
  ASSUME NEW S \in SUBSET Requests, NEW st, Typed(st, S), NEW R
  PROVE  Typed(AnswerAll(st, R), S)
<1> DEFINE t == AnswerAll(st, R)
<1>1. AnswerEffect(st, t, R)
  BY AnswerFields DEF Typed
<1> HIDE DEF t
<1>2. t.answers \in [Requests -> 0 .. 2]
  BY <1>1, AnsweredType DEF Typed, AnswerEffect
<1>3. Typed(t, S)
  BY <1>1, <1>2 DEF Typed, AnswerEffect, SameTracking, SameSession, SamePipes
<1> QED
  BY <1>3 DEF t

(* So does the end of forwarded requests, *)
LEMMA TypedRelease ==
  ASSUME NEW S \in SUBSET Requests, NEW st, Typed(st, S), NEW R,
         workerGeneration \in Nat
  PROVE  Typed(Release(st, R), S)
<1> DEFINE t == Release(st, R)
<1>1. ReleaseEffect(st, t, R)
  BY ReleaseFields DEF Typed
<1> HIDE DEF t
<1>2. t.tombstones \in [Ids -> 0 .. workerGeneration]
  <2>1. Entombed(st, R) \in [Ids -> 0 .. workerGeneration]
    BY EntombedType DEF Typed
  <2> QED
    BY <1>1, <2>1 DEF ReleaseEffect
<1>3. Typed(t, S)
  BY <1>1, <1>2 DEF Typed, ReleaseEffect, SameSession, SamePipes
<1> QED
  BY <1>3 DEF t

(* clearing timers, *)
LEMMA TypedDisarm ==
  ASSUME NEW S \in SUBSET Requests, NEW st, Typed(st, S), NEW R
  PROVE  Typed(Disarm(st, R), S)
<1> DEFINE t == Disarm(st, R)
<1>1. DisarmEffect(st, t, R)
  BY DisarmFields DEF Typed
<1> HIDE DEF t
<1>2. Typed(t, S)
  BY <1>1 DEF Typed, DisarmEffect, SameSession, SamePipes, SameReplies
<1> QED
  BY <1>2 DEF t

(* giving back a barrier, *)
LEMMA TypedReleaseBarrier ==
  ASSUME NEW S \in SUBSET Requests, NEW st, Typed(st, S), NEW id
  PROVE  Typed(ReleaseBarrier(st, id), S)
<1> DEFINE t == ReleaseBarrier(st, id)
<1>1. BarrierEffect(st, t, id)
  BY ReleaseBarrierFields DEF Typed
<1> HIDE DEF t
<1>2. Typed(t, S)
  BY <1>1 DEF Typed, BarrierEffect, SameSession, SamePipes, SameReplies
<1> QED
  BY <1>2 DEF t

(* forwardRequest: a full queue takes no further request, and a request
   replaces the entry of its id, *)
LEMMA TypedForward ==
  ASSUME NEW S \in SUBSET Requests, NEW st, Typed(st, S), NEW r \in S,
         workerGeneration \in Nat
  PROVE  Typed(Forward(st, r), S)
<1> DEFINE t == Forward(st, r)
<1>1. Is(st) /\ r.id \in Ids
  BY DEF Typed, Ids
<1>2. [st.tombstones EXCEPT ![r.id] = 0] \in [Ids -> 0 .. workerGeneration]
  <2>1. st.tombstones \in [Ids -> 0 .. workerGeneration] /\ 0 \in 0 .. workerGeneration
    BY DEF Typed
  <2> QED
    BY <2>1, ExceptType
<1>7. /\ ~Writable(st) /\ Len(st.queue) < MAX_SUPERVISOR_QUEUE => QueueEffect(st, t, r)
      /\ ~Writable(st) /\ ~(Len(st.queue) < MAX_SUPERVISOR_QUEUE) => RefuseEffect(st, t, r)
      /\ Writable(st) /\ r \notin Unwritable => WriteEffect(st, t, r)
      /\ Writable(st) /\ r \in Unwritable => UnwriteEffect(st, t, r)
  BY <1>1, ForwardQueues, ForwardRefuses, ForwardWrites, ForwardUnwritten
<1> HIDE DEF t
<1>3. ASSUME QueueEffect(st, t, r), Len(st.queue) < MAX_SUPERVISOR_QUEUE
      PROVE  Typed(t, S)
  <2>1. t.queue \in Seq(S) /\ Len(t.queue) <= MAX_SUPERVISOR_QUEUE
    BY <1>3, AppendQueue DEF QueueEffect, Typed, MAX_SUPERVISOR_QUEUE
  <2> QED
    BY <1>3, <2>1 DEF QueueEffect, Typed, SameSession, SamePipes, SameReplies
<1>4. ASSUME RefuseEffect(st, t, r)
      PROVE  Typed(t, S)
  <2>1. t.answers \in [Requests -> 0 .. 2]
    <3>1. t.answers = Answered(st, {r})
      BY <1>4 DEF RefuseEffect
    <3>2. st.answers \in [Requests -> 0 .. 2]
      BY DEF Typed
    <3> QED
      BY <3>1, <3>2, AnsweredType
  <2> QED
    BY <1>4, <2>1 DEF RefuseEffect, Typed, SameSession, SamePipes
<1>5. ASSUME WriteEffect(st, t, r)
      PROVE  Typed(t, S)
  <2>1. t.tombstones \in [Ids -> 0 .. workerGeneration]
    BY <1>2, <1>5 DEF WriteEffect
  <2> QED
    BY <1>1, <1>5, <2>1 DEF WriteEffect, Typed, Written
<1>6. ASSUME UnwriteEffect(st, t, r)
      PROVE  Typed(t, S)
  <2>1. t.tombstones \in [Ids -> 0 .. workerGeneration]
    BY <1>2, <1>6 DEF UnwriteEffect
  <2>2. t.answers \in [Requests -> 0 .. 2]
    BY <1>6, AnsweredType DEF UnwriteEffect, Typed
  <2> QED
    BY <1>6, <2>1, <2>2 DEF UnwriteEffect, Typed, Written
<1> QED
  BY <1>3, <1>4, <1>5, <1>6, <1>7 DEF t

(* taking the head off the queue, *)
LEMMA TypedTake ==
  ASSUME NEW S \in SUBSET Requests, NEW st, Typed(st, S), st.queue # << >>
  PROVE  Typed([st EXCEPT !.queue = Tail(@)], S) /\ Head(st.queue) \in S
<1> DEFINE t == [st EXCEPT !.queue = Tail(@)]
<1>1. TakeEffect(st, t)
  BY TakeFields DEF Typed
<1> HIDE DEF t
<1>2. /\ Tail(st.queue) \in Seq(S) /\ Head(st.queue) \in S
      /\ Len(Tail(st.queue)) <= MAX_SUPERVISOR_QUEUE
  BY TailQueue DEF Typed, MAX_SUPERVISOR_QUEUE
<1>3. Typed(t, S)
  BY <1>1, <1>2 DEF Typed, TakeEffect, SameSession, SamePipes, SameReplies
<1> QED
  BY <1>2, <1>3 DEF t

(* drainQueue, *)
LEMMA TypedDrain ==
  ASSUME NEW S \in SUBSET Requests, NEW st, Typed(st, S),
         workerGeneration \in Nat
  PROVE  Typed(Drain(st), S)
<1>1. ASSUME NEW u, Typed(u, S)
      PROVE  Typed(DrainStep(u), S)
  <2>1. CASE ~childReady' \/ ~Writable(u) \/ u.queue = << >> \/ u.running # None
    BY <1>1, <2>1 DEF DrainStep
  <2>2. CASE ~(~childReady' \/ ~Writable(u) \/ u.queue = << >> \/ u.running # None)
    <3> DEFINE next == Head(u.queue)
               taken == [u EXCEPT !.queue = Tail(@)]
               raised == [u EXCEPT !.barrier = next.id]
    <3>1. Typed(taken, S) /\ next \in S
      BY <1>1, <2>2, TypedTake
    <3>2. DrainStep(u) \in {Forward(taken, next), raised}
      BY <2>2 DEF DrainStep
    <3>3. Typed(Forward(taken, next), S)
      BY <3>1, TypedForward
    <3>4. Typed(raised, S)
      <4>1. RaiseEffect(u, raised, next.id)
        BY <1>1, RaiseFields DEF Typed
      <4> HIDE DEF raised
      <4>2. next.id \in Ids
        BY <3>1 DEF Ids
      <4> QED
        BY <1>1, <4>1, <4>2 DEF Typed, RaiseEffect, SameSession, SamePipes, SameReplies
    <3> QED
      BY <3>2, <3>3, <3>4
  <2> QED
    BY <2>1, <2>2
<1> QED
  BY <1>1 DEF Drain

(* clearInitialInitializationState, *)
LEMMA TypedClear ==
  ASSUME NEW S \in SUBSET Requests, NEW st, Typed(st, S)
  PROVE  Typed(ClearHandshake(st), S)
<1> DEFINE t == ClearHandshake(st)
<1>1. ClearEffect(st, t)
  BY ClearFields DEF Typed
<1> HIDE DEF t
<1>2. Typed(t, S)
  BY <1>1 DEF Typed, ClearEffect, SameReplies, Handshakes, MAX_SUPERVISOR_QUEUE
<1> QED
  BY <1>2 DEF t

(* the loss of the current worker, *)
LEMMA TypedLose ==
  ASSUME NEW S \in SUBSET Requests, NEW st, Typed(st, S)
  PROVE  Typed(LoseWorker(st), S)
<1> DEFINE t == LoseWorker(st)
<1>1. LoseEffect(st, t)
  BY LoseFields DEF Typed
<1> HIDE DEF t
<1>2. Typed(t, S)
  BY <1>1 DEF Typed, LoseEffect, SameTracking, SameReplies
<1> QED
  BY <1>2 DEF t

(* failQueuedRequestsOnStartupFailure, *)
LEMMA TypedFailQueued ==
  ASSUME NEW S \in SUBSET Requests, NEW st, Typed(st, S)
  PROVE  Typed(FailQueued(st), S)
<1> DEFINE t == FailQueued(st)
<1>1. FailQueuedEffect(st, t)
  BY FailQueuedFields DEF Typed
<1> HIDE DEF t
<1>2. t.answers \in [Requests -> 0 .. 2]
  <2>1. Answered(st, Queued(st)) \in [Requests -> 0 .. 2]
    BY AnsweredType DEF Typed
  <2> QED
    BY <1>1, <2>1 DEF FailQueuedEffect, Answered
<1>3. << >> \in Seq(S) /\ Len(<< >>) = 0
  OBVIOUS
<1>4. /\ t.pending \subseteq S /\ \A q, r \in t.pending : q.id = r.id => q = r
      /\ t.predecessors \in 0 .. MAX_SUPERVISOR_QUEUE
      /\ t.initializeRequest \in Handshakes(S)
  BY <1>1 DEF Typed, FailQueuedEffect, Handshakes, MAX_SUPERVISOR_QUEUE
<1>5. /\ Is(t) /\ t.queue \in Seq(S) /\ Len(t.queue) <= MAX_SUPERVISOR_QUEUE
      /\ t.held \subseteq S /\ t.armed \subseteq S
  BY <1>1, <1>3 DEF Typed, FailQueuedEffect, MAX_SUPERVISOR_QUEUE
<1>6. /\ t.barrier \in Ids \cup {None} /\ t.running \in Ids \cup {None}
      /\ t.parked \in Handshakes(S)
      /\ t.era \in {"unselected", "legacy", "modern"}
      /\ t.tombstones \in [Ids -> 0 .. workerGeneration]
      /\ t.stdin \in {"fresh", "written", "destroyed"}
  BY <1>1 DEF Typed, FailQueuedEffect, Handshakes
<1>7. Typed(t, S)
  BY <1>2, <1>4, <1>5, <1>6 DEF Typed
<1> QED
  BY <1>7 DEF t

(* failPendingRequestsOnWorkerExit, *)
LEMMA TypedFailPending ==
  ASSUME NEW S \in SUBSET Requests, NEW st, Typed(st, S),
         workerGeneration \in Nat
  PROVE  Typed(FailPending(st), S)
BY TypedAnswer, TypedRelease DEF FailPending

(* and what a lost worker does to the requests. *)
LEMMA TypedAfterLoss ==
  ASSUME NEW S \in SUBSET Requests, NEW st, Typed(st, S),
         workerGeneration \in Nat
  PROVE  Typed(AfterLoss(st), S)
BY TypedLose, TypedFailPending, TypedFailQueued DEF AfterLoss

(* The length of a queue within its limit. *)
LEMMA UpToLimit ==
  ASSUME NEW n \in Nat, n <= MAX_SUPERVISOR_QUEUE
  PROVE  n \in 0 .. MAX_SUPERVISOR_QUEUE
BY DEF MAX_SUPERVISOR_QUEUE

(* The types stay right for a client that sends more. *)
LEMMA TypedMore ==
  ASSUME NEW S \in SUBSET Requests, NEW T \in SUBSET Requests, S \subseteq T,
         NEW st, Typed(st, S)
  PROVE  Typed(st, T)
<1>1. st.queue \in Seq(T)
  BY SeqMonotonic DEF Typed
<1> QED
  BY <1>1 DEF Typed, Handshakes

(* Purging tombstones keeps the types. *)
LEMMA TypedPurge ==
  ASSUME NEW S \in SUBSET Requests, NEW st, Typed(st, S), NEW g \in Nat,
         workerGeneration \in Nat
  PROVE  Typed(Purge(st, g), S)
<1> DEFINE t == Purge(st, g)
<1>1. PurgeEffect(st, t, g)
  BY PurgeFields DEF Typed
<1> HIDE DEF t
<1>2. t.tombstones \in [Ids -> 0 .. workerGeneration]
  BY <1>1 DEF PurgeEffect, Typed
<1>3. Typed(t, S)
  BY <1>1, <1>2 DEF Typed, PurgeEffect, SameTracking, SameSession, SamePipes
<1> QED
  BY <1>3 DEF t

(* So does arming a validate-project, *)
LEMMA TypedInstall ==
  ASSUME NEW S \in SUBSET Requests, NEW st, Typed(st, S), NEW r \in S
  PROVE  Typed(Install(st, r), S)
<1> DEFINE t == Install(st, r)
<1>1. InstallEffect(st, t, r)
  BY InstallFields DEF Typed
<1> HIDE DEF t
<1>2. r.id \in Ids
  BY DEF Ids
<1>3. Typed(t, S)
  BY <1>1, <1>2 DEF Typed, InstallEffect, SameSession, SamePipes, SameReplies
<1> QED
  BY <1>3 DEF t

(* the modern lock, *)
LEMMA TypedLock ==
  ASSUME NEW S \in SUBSET Requests, NEW st, Typed(st, S), NEW r
  PROVE  Typed(LockEra(st, r), S)
<1> DEFINE t == LockEra(st, r)
<1>1. LockEffect(st, t, r)
  BY LockFields DEF Typed
<1> HIDE DEF t
<1>2. Typed(t, S)
  BY <1>1 DEF Typed, LockEffect, SameTracking, SameReplies, Handshakes, MAX_SUPERVISOR_QUEUE
<1> QED
  BY <1>2 DEF t

(* A request that has to wait goes to the end of the queue, and nothing else
   changes. *)
LEMMA EnqueueFields ==
  ASSUME NEW st, Is(st), NEW r
  PROVE  QueueEffect(st, [st EXCEPT !.queue = Append(@, r)], r)
BY DEF QueueEffect, Is, StateFields, SameSession, SamePipes, SameReplies

(* Queueing keeps the types while the queue has room. *)
LEMMA TypedEnqueue ==
  ASSUME NEW S \in SUBSET Requests, NEW st, Typed(st, S), NEW r \in S,
         Len(st.queue) < MAX_SUPERVISOR_QUEUE
  PROVE  Typed([st EXCEPT !.queue = Append(@, r)], S)
<1> DEFINE t == [st EXCEPT !.queue = Append(@, r)]
<1>1. QueueEffect(st, t, r)
  BY EnqueueFields DEF Typed
<1> HIDE DEF t
<1>2. t.queue \in Seq(S) /\ Len(t.queue) <= MAX_SUPERVISOR_QUEUE
  BY <1>1, AppendQueue DEF QueueEffect, Typed, MAX_SUPERVISOR_QUEUE
<1>3. Typed(t, S)
  BY <1>1, <1>2 DEF QueueEffect, Typed, SameSession, SamePipes, SameReplies
<1> QED
  BY <1>3 DEF t

(* Admission keeps the types (routeClientMessage): of a request that is
   forwarded at once, *)
LEMMA TypedAdmit ==
  ASSUME NEW S \in SUBSET Requests, NEW st, Typed(st, S), NEW r \in S,
         workerGeneration \in Nat
  PROVE  Typed(Admit(st, r), S)
BY TypedForward, TypedDrain DEF Admit

(* of any request but initialize, *)
LEMMA TypedRouteRequest ==
  ASSUME NEW S \in SUBSET Requests, NEW st, Typed(st, S), NEW r \in S,
         workerGeneration \in Nat
  PROVE  Typed(RouteRequest(st, r), S)
<1> DEFINE u == LockEra(st, r)
<1>1. Typed(u, S)
  BY TypedLock
<1>2. Len(u.queue) \in Nat
  BY <1>1 DEF Typed
<1> HIDE DEF u
<1>3. RouteRequest(st, r) \in
        {Answer(u, r), Drain(Answer(u, r)), Admit(Install(u, r), r)} \cup
        {t \in {[Install(u, r) EXCEPT !.queue = Append(@, r)]} :
           Len(u.queue) < MAX_SUPERVISOR_QUEUE}
  BY <1>2 DEF RouteRequest, u, MAX_SUPERVISOR_QUEUE
<1>4. Typed(Answer(u, r), S)
  BY <1>1, TypedAnswer DEF Answer
<1>5. Typed(Drain(Answer(u, r)), S)
  BY <1>4, TypedDrain
<1>6. Typed(Install(u, r), S)
  BY <1>1, TypedInstall
<1>7. Typed(Admit(Install(u, r), r), S)
  BY <1>6, TypedAdmit
<1>8. ASSUME Len(u.queue) < MAX_SUPERVISOR_QUEUE
      PROVE  Typed([Install(u, r) EXCEPT !.queue = Append(@, r)], S)
  <2>1. Install(u, r).queue = u.queue
    BY <1>1, InstallFields DEF Typed, InstallEffect
  <2> QED
    BY <1>6, <1>8, <2>1, TypedEnqueue
<1> QED
  BY <1>3, <1>4, <1>5, <1>7, <1>8

(* of initialize, *)
LEMMA TypedRouteInitialize ==
  ASSUME NEW S \in SUBSET Requests, NEW st, Typed(st, S), NEW r \in S,
         Initialize(r), workerGeneration \in Nat
  PROVE  Typed(RouteInitialize(st, r), S)
<1> DEFINE legacy == [st EXCEPT !.era = "legacy"]
           captured == [legacy EXCEPT !.initializeRequest = r, !.clientInitialized = FALSE]
           now == [captured EXCEPT !.predecessors = 0]
           count == IF st.era = "unselected" THEN Len(st.queue) ELSE 0
           held == [captured EXCEPT !.parked = r, !.predecessors = count]
<1>1. Typed(legacy, S)
  BY DEF Typed, Is, StateFields
<1> HIDE DEF legacy
<1>2. Typed(captured, S)
  BY <1>1 DEF Typed, Is, StateFields, Handshakes
<1> HIDE DEF captured
<1>3. Typed(now, S)
  BY <1>2 DEF Typed, Is, StateFields, Handshakes, MAX_SUPERVISOR_QUEUE
<1>4. count \in 0 .. MAX_SUPERVISOR_QUEUE
  <2>1. Len(st.queue) \in Nat /\ Len(st.queue) <= MAX_SUPERVISOR_QUEUE
    BY LenProperties DEF Typed
  <2>2. Len(st.queue) \in 0 .. MAX_SUPERVISOR_QUEUE
    BY <2>1, UpToLimit
  <2>3. 0 \in 0 .. MAX_SUPERVISOR_QUEUE
    BY DEF MAX_SUPERVISOR_QUEUE
  <2> QED
    BY <2>2, <2>3
<1> HIDE DEF count
<1>5. Typed(held, S)
  BY <1>2, <1>4 DEF Typed, Is, StateFields, Handshakes
<1>6. RouteInitialize(st, r) \in {Answer(st, r), Answer(ClearHandshake(legacy), r),
                                   Forward(now, r), held}
  BY DEF RouteInitialize, legacy, captured, count
<1> HIDE DEF now, held
<1>7. Typed(Answer(st, r), S)
  BY TypedAnswer DEF Answer
<1>8. Typed(Answer(ClearHandshake(legacy), r), S)
  BY <1>1, TypedClear, TypedAnswer DEF Answer
<1>9. Typed(Forward(now, r), S)
  BY <1>3, TypedForward
<1> QED
  BY <1>5, <1>6, <1>7, <1>8, <1>9

(* and so of every request. *)
LEMMA TypedRoute ==
  ASSUME NEW S \in SUBSET Requests, NEW st, Typed(st, S), NEW r \in S,
         workerGeneration \in Nat
  PROVE  Typed(Route(st, r), S)
BY TypedRouteRequest, TypedRouteInitialize, TypedAnswer DEF Route, Answer

(* t is st without the queued request r and its deadline. *)
UnqueueEffect(st, t, r) ==
  /\ Is(t) /\ SameSession(st, t) /\ SamePipes(st, t) /\ SameReplies(st, t)
  /\ t.pending = st.pending /\ t.barrier = st.barrier
  /\ t.running = st.running /\ t.armed = st.armed \ {r}
  /\ t.queue = Without(st.queue, r)

(* Splicing a request out of the queue changes nothing but the queue and the
   deadline. *)
LEMMA UnqueueFields ==
  ASSUME NEW st, Is(st), NEW r
  PROVE  UnqueueEffect(st, [Disarm(st, {r}) EXCEPT !.queue = Without(@, r)], r)
<1> DEFINE a == Disarm(st, {r})
<1>1. DisarmEffect(st, a, {r})
  BY DisarmFields
<1> HIDE DEF a
<1>2. UnqueueEffect(st, [a EXCEPT !.queue = Without(@, r)], r)
  BY <1>1 DEF DisarmEffect, UnqueueEffect, Is, StateFields, SameSession, SamePipes, SameReplies
<1> QED
  BY <1>2 DEF a

(* Taking a queued request out keeps the types, *)
LEMMA TypedUnqueue ==
  ASSUME NEW S \in SUBSET Requests, NEW st, Typed(st, S), NEW r \in Queued(st)
  PROVE  Typed([Disarm(st, {r}) EXCEPT !.queue = Without(@, r)], S)
<1> DEFINE t == [Disarm(st, {r}) EXCEPT !.queue = Without(@, r)]
<1>1. UnqueueEffect(st, t, r)
  BY UnqueueFields DEF Typed
<1> HIDE DEF t
<1>2. r \in Entries(st.queue) /\ st.queue \in Seq(S)
  BY DEF Queued, Entries, Typed
<1>3. Without(st.queue, r) \in Seq(S) /\ Len(Without(st.queue, r)) = Len(st.queue) - 1
  BY <1>2, WithoutQueue
<1>4. t.queue \in Seq(S) /\ Len(t.queue) <= MAX_SUPERVISOR_QUEUE
  BY <1>1, <1>2, <1>3 DEF UnqueueEffect, Typed, MAX_SUPERVISOR_QUEUE
<1>5. Typed(t, S)
  BY <1>1, <1>4 DEF UnqueueEffect, Typed, SameSession, SamePipes, SameReplies
<1> QED
  BY <1>5 DEF t

(* The count of the handshake's predecessors may be taken down after the
   splice. *)
LEMMA UnqueueTwice ==
  ASSUME NEW st, Is(st), NEW r, NEW prefix
  PROVE  LET u == [Disarm(st, {r}) EXCEPT !.queue = Without(@, r)]
         IN [Disarm(st, {r}) EXCEPT !.queue = Without(@, r),
               !.predecessors = IF r \in prefix THEN @ - 1 ELSE @]
            = [u EXCEPT !.predecessors = IF r \in prefix THEN @ - 1 ELSE @]
<1> DEFINE f == Disarm(st, {r})
<1>1. Is(f)
  BY DisarmFields DEF DisarmEffect
<1> HIDE DEF f
<1>2. [f EXCEPT !.queue = Without(@, r),
         !.predecessors = IF r \in prefix THEN @ - 1 ELSE @]
        = [[f EXCEPT !.queue = Without(@, r)]
             EXCEPT !.predecessors = IF r \in prefix THEN @ - 1 ELSE @]
  BY <1>1 DEF Is, StateFields
<1> QED
  BY <1>2 DEF f

(* and so does taking down that count; *)
LEMMA TypedFewer ==
  ASSUME NEW S, NEW u, Typed(u, S), NEW r, NEW prefix, r \in prefix => u.predecessors > 0
  PROVE  Typed([u EXCEPT !.predecessors = IF r \in prefix THEN @ - 1 ELSE @], S)
<1> DEFINE v == [u EXCEPT !.predecessors = IF r \in prefix THEN @ - 1 ELSE @]
<1>1. u.predecessors \in 0 .. MAX_SUPERVISOR_QUEUE /\ Is(u)
  BY DEF Typed
<1>2. v.predecessors \in 0 .. MAX_SUPERVISOR_QUEUE
  BY <1>1 DEF Is, StateFields, MAX_SUPERVISOR_QUEUE
<1>3. /\ Is(v) /\ SameTracking(u, v) /\ SamePipes(u, v) /\ SameReplies(u, v) /\ v.era = u.era
      /\ v.initializeRequest = u.initializeRequest /\ v.parked = u.parked
  BY <1>1 DEF Is, StateFields, SameTracking, SamePipes, SameReplies
<1> HIDE DEF v
<1>4. Typed(v, S)
  BY <1>2, <1>3 DEF Typed, SameTracking, SamePipes, SameReplies
<1> QED
  BY <1>4 DEF v

(* and so does a cancellation. *)
LEMMA TypedCancel ==
  ASSUME NEW S \in SUBSET Requests, NEW st, Typed(st, S), NEW r,
         workerGeneration \in Nat
  PROVE  Typed(Cancel(st, r), S)
<1>1. ASSUME r \in Queued(st)
      PROVE  Typed(Cancel(st, r), S)
  <2> DEFINE prefix == {st.queue[i] : i \in 1 .. st.predecessors}
             u == [Disarm(st, {r}) EXCEPT !.queue = Without(@, r)]
             v == [Disarm(st, {r}) EXCEPT !.queue = Without(@, r),
               !.predecessors = IF r \in prefix THEN @ - 1 ELSE @]
  <2>1. Typed(u, S)
    BY <1>1, TypedUnqueue
  <2>0. Is(st) /\ UnqueueEffect(st, u, r)
    BY UnqueueFields DEF Typed
  <2>2. v = [u EXCEPT !.predecessors = IF r \in prefix THEN @ - 1 ELSE @]
    BY <2>0, UnqueueTwice
  <2>3. u.predecessors = st.predecessors
    BY <2>0 DEF UnqueueEffect, SameSession
  <2>4. r \in prefix => st.predecessors > 0
    BY DEF Typed
  <2> HIDE DEF u, v, prefix
  <2>5. Typed(v, S)
    BY <2>1, <2>2, <2>3, <2>4, TypedFewer
  <2>6. Typed(Drain(ReleaseBarrier(v, r.id)), S)
    BY <2>5, TypedReleaseBarrier, TypedDrain
  <2> QED
    BY <1>1, <2>6 DEF Cancel, v, prefix
<1>2. Typed(Drain(Release(st, {r})), S)
  BY TypedRelease, TypedDrain
<1> QED
  BY <1>1, <1>2 DEF Cancel

(* flushQueue keeps the types, *)
LEMMA TypedFlush ==
  ASSUME NEW S \in SUBSET Requests, NEW st, Typed(st, S), workerGeneration \in Nat
  PROVE  Typed(FlushQueue(st), S)
<1> DEFINE flushed == [st EXCEPT !.parked = None]
<1>1. Typed(flushed, S)
  BY DEF Typed, Is, StateFields, Handshakes
<1>2. st.parked = None \/ st.parked \in S
  BY DEF Typed, Handshakes
<1> HIDE DEF flushed
<1>3. Typed(Drain(flushed), S)
  BY <1>1, TypedDrain
<1>4. st.parked # None => Typed(Drain(Forward(flushed, st.parked)), S)
  BY <1>1, <1>2, TypedForward, TypedDrain
<1> QED
  BY <1>3, <1>4 DEF FlushQueue, flushed

(* so does forwarding a predecessor of the handshake, *)
LEMMA TypedPredecessor ==
  ASSUME NEW S \in SUBSET Requests, NEW st, Typed(st, S), workerGeneration \in Nat
  PROVE  Typed(ForwardPredecessor(st), S)
<1>1. ASSUME st.predecessors # 0, st.queue # << >>
      PROVE  Typed(ForwardPredecessor(st), S)
  <2> DEFINE u == [st EXCEPT !.queue = Tail(@)]
             v == [st EXCEPT !.queue = Tail(@), !.predecessors = @ - 1]
  <2>1. Typed(u, S) /\ Head(st.queue) \in S
    BY <1>1, TypedTake
  <2>2. v = [u EXCEPT !.predecessors = @ - 1] /\ u.predecessors = st.predecessors
    BY DEF Typed, Is, StateFields
  <2> HIDE DEF u, v
  <2>3. Typed(v, S)
    BY <1>1, <2>1, <2>2 DEF Typed, Is, StateFields, MAX_SUPERVISOR_QUEUE
  <2> QED
    BY <1>1, <2>1, <2>3, TypedForward DEF ForwardPredecessor, v
<1> QED
  BY <1>1 DEF ForwardPredecessor

(* the handshake of handleWorkerReady, *)
LEMMA TypedSendHandshake ==
  ASSUME NEW S \in SUBSET Requests, NEW st, Typed(st, S), workerGeneration \in Nat,
         st.initializeRequest # None
  PROVE  Typed(SendHandshake(st), S)
<1> DEFINE released == ForwardPredecessor(ForwardPredecessor(st))
           ready == [released EXCEPT !.predecessors = 0, !.replaying = st.clientInitialized]
<1>1. Typed(released, S)
  BY TypedPredecessor
<1> HIDE DEF released
<1>2. Typed(ready, S)
  BY <1>1 DEF Typed, Is, StateFields, MAX_SUPERVISOR_QUEUE
<1> HIDE DEF ready
<1>3. st.initializeRequest \in S
  BY DEF Typed, Handshakes
<1> QED
  BY <1>2, <1>3, TypedForward DEF SendHandshake, ready, released

(* an answer of the worker, *)
LEMMA TypedDeliver ==
  ASSUME NEW S \in SUBSET Requests, NEW st, Typed(st, S), NEW r,
         workerGeneration \in Nat
  PROVE  Typed(Deliver(st, r), S)
<1> DEFINE owners == {q \in st.pending : q.id = r.id}
           settled == [Disarm(st, owners) EXCEPT !.pending = @ \ owners,
             !.running = IF \E q \in owners : Validate(q) THEN None ELSE @,
             !.barrier = IF @ = r.id /\ \E q \in owners : Validate(q)
                         THEN None ELSE @]
           a == Disarm(st, owners)
<1>1. Typed(a, S)
  BY TypedDisarm
<1> HIDE DEF owners, a
<1>2. Typed(settled, S)
  BY <1>1 DEF Typed, Is, StateFields, a
<1> HIDE DEF settled
<1>3. \A R : Typed(Drain(AnswerAll(settled, R)), S)
  BY <1>2, TypedAnswer, TypedDrain
<1> QED
  BY <1>3 DEF Deliver, settled, owners

(* the result of initialize, *)
LEMMA TypedFinish ==
  ASSUME NEW S \in SUBSET Requests, NEW st, Typed(st, S), workerGeneration \in Nat
  PROVE  Typed(FinishHandshake(st), S)
<1> DEFINE done == [st EXCEPT !.pending = {q \in @ : ~Retained(st, q)}]
           replayed == [done EXCEPT !.replaying = FALSE, !.told = st.initialized]
           first == [done EXCEPT !.clientInitialized = TRUE]
<1>1. Typed(done, S)
  BY DEF Typed, Is, StateFields
<1> HIDE DEF done
<1>2. Typed(replayed, S) /\ Typed(first, S)
  BY <1>1 DEF Typed, Is, StateFields
<1> HIDE DEF replayed, first
<1>3. Typed(FlushQueue(replayed), S)
  BY <1>2, TypedFlush
<1>4. Typed(FlushQueue(Answer(first, st.initializeRequest)), S)
  BY <1>2, TypedAnswer, TypedFlush DEF Answer
<1> QED
  BY <1>3, <1>4 DEF FinishHandshake, done, replayed, first

(* and its error. *)
LEMMA TypedReject ==
  ASSUME NEW S \in SUBSET Requests, NEW st, Typed(st, S)
  PROVE  Typed(RejectHandshake(st), S)
<1> DEFINE done == [st EXCEPT !.pending = {q \in @ : ~Retained(st, q)}]
           unparked == [done EXCEPT
            !.parked = IF @ # None /\ Retained(st, @) THEN None ELSE @]
<1>1. Typed(done, S)
  BY DEF Typed, Is, StateFields
<1> HIDE DEF done
<1>2. Typed(unparked, S)
  BY <1>1 DEF Typed, Is, StateFields, Handshakes
<1> HIDE DEF unparked
<1> QED
  BY <1>1, <1>2, TypedAnswer DEF RejectHandshake, Answer, done, unparked

-----------------------------------------------------------------------------
(* The types of the whole state. *)

(* workerGeneration only grows. *)
LEMMA GenerationsGrow ==
  ASSUME TypeOK, [Next]_poolVars
  PROVE  workerGeneration \in Nat /\ workerGeneration' \in Nat
         /\ workerGeneration <= workerGeneration'
<1>1. workerGeneration \in Nat
  BY PoolAssumption DEF TypeOK, CountsOK, PoolAssumption
<1>2. workerGeneration' = workerGeneration \/ workerGeneration' = workerGeneration + 1
  <2>1. ASSUME NEW outcome \in TerminationOutcomes,
               \/ WatchdogFires(outcome)
               \/ InitializeRejected(outcome)
               \/ WorkerFaults(outcome)
               \/ \E spawned \in SpawnOutcomes : RecoverTimedOutWorker(outcome, spawned)
        PROVE  workerGeneration' = workerGeneration \/ workerGeneration' = workerGeneration + 1
    BY <2>1 DEF WatchdogFires, InitializeRejected, StartupFails, WorkerFaults,
                RecoverTimedOutWorker, NewWorker, processVars
  <2>2. ASSUME NEW g \in Generations,
               \/ TerminatedWorkerExits(g) \/ UnspawnedChildCloses(g)
               \/ \E success \in BOOLEAN :
                    FinishTreeTermination(g, success) \/ FinishTokenRetry(g, success)
        PROVE  workerGeneration' = workerGeneration
    BY <2>2 DEF TerminatedWorkerExits, UnspawnedChildCloses, FinishTreeTermination,
                FinishTokenRetry, processVars
  <2>3. ASSUME NEW stoodDown \in BOOLEAN, CurrentWorkerExits(stoodDown)
        PROVE  workerGeneration' = workerGeneration
    BY <2>3 DEF CurrentWorkerExits
  <2>4. ASSUME NEW spawned \in SpawnOutcomes, RestartTimerFires(spawned)
        PROVE  workerGeneration' = workerGeneration \/ workerGeneration' = workerGeneration + 1
    BY <2>4 DEF RestartTimerFires, NewWorker
  <2>5. ASSUME AdoptActiveChild \/ CleanupRetryTimerFires \/ UNCHANGED poolVars
        PROVE  workerGeneration' = workerGeneration
    BY <2>5 DEF AdoptActiveChild, CleanupRetryTimerFires, poolVars, processVars
  <2>6. ASSUME NEW outcome \in [liveChildren -> TerminationOutcomes], Shutdown(outcome)
        PROVE  workerGeneration' = workerGeneration
    BY <2>6 DEF Shutdown, processVars
  <2> QED
    BY <2>1, <2>2, <2>3, <2>4, <2>5, <2>6 DEF Next
<1> QED
  BY <1>1, <1>2

(* The types of all that the supervisor adds to the pool. *)
SupervisorTyped ==
  /\ Typed(s, sent) /\ sent \subseteq Requests /\ cancelled \subseteq sent
  /\ streamsOpen \subseteq 1 .. workerGeneration

(* The types are right after start(). *)
LEMMA SupervisorInitTyped == SupervisorInit => SupervisorTyped
<1> SUFFICES ASSUME SupervisorInit PROVE SupervisorTyped
  OBVIOUS
<1>1. Typed(s, {})
  BY DEF SupervisorInit, InitialState, Init, Typed, Is, StateFields, Handshakes,
     MAX_SUPERVISOR_QUEUE
<1> QED
  BY <1>1 DEF SupervisorTyped, SupervisorInit, Init

(* Every callback keeps the types. *)
LEMMA SupervisorNextTyped ==
  ASSUME SupervisorTyped, TypeOK, SupervisorNext, [Next]_poolVars
  PROVE  SupervisorTyped'
<1>1. /\ Typed(s, sent) /\ sent \in SUBSET Requests /\ workerGeneration \in Nat
      /\ workerGeneration' \in Nat /\ workerGeneration <= workerGeneration'
  BY GenerationsGrow DEF SupervisorTyped
<1> SUFFICES /\ Typed(s', sent') /\ sent' \subseteq Requests /\ cancelled' \subseteq sent'
             /\ streamsOpen' \subseteq 1 .. workerGeneration'
  <2> SUFFICES ASSUME Typed(s', sent') PROVE Typed(s, sent)'
    BY DEF SupervisorTyped
  <2>1. s'.tombstones \in [Ids -> 0 .. workerGeneration']
    BY <1>1 DEF Typed
  <2> QED
    BY <2>1 DEF Typed
<1>2. ASSUME NEW r \in Requests, ClientSends(r)
      PROVE  Typed(s', sent') /\ sent' = sent \cup {r}
             /\ UNCHANGED <<poolVars, cancelled, streamsOpen>>
  <2>1. Typed(s, sent')
    BY <1>1, <1>2, TypedMore DEF ClientSends
  <2>2. r \in sent' /\ sent' \in SUBSET Requests
    BY <1>1, <1>2 DEF ClientSends
  <2> QED
    BY <1>1, <1>2, <2>1, <2>2, TypedRoute DEF ClientSends
<1>3. ASSUME NEW r \in Requests, ClientCancels(r)
      PROVE  Typed(s', sent) /\ cancelled' \subseteq sent
    BY <1>1, <1>3, TypedCancel DEF ClientCancels, SupervisorTyped
<1>4. ASSUME NEW r \in Requests, WorkerAnswers(r)
      PROVE  Typed(s', sent)
  <2> DEFINE st == [s EXCEPT !.held = @ \ {r}]
  <2>1. Typed(st, sent)
    BY <1>1 DEF Typed, Is, StateFields
  <2> HIDE DEF st
  <2> QED
    BY <1>1, <1>4, <2>1, TypedFinish, TypedDeliver DEF WorkerAnswers, st
<1>5. ASSUME NEW r \in Requests, QueuedDeadline(r)
      PROVE  Typed(s', sent)
  <2> DEFINE st == [Disarm(s, {r}) EXCEPT !.queue = Without(@, r)]
  <2>1. Typed(st, sent)
    BY <1>1, <1>5, TypedUnqueue DEF QueuedDeadline
  <2> HIDE DEF st
  <2> QED
    BY <1>1, <1>5, <2>1, TypedReleaseBarrier, TypedAnswer, TypedDrain
       DEF QueuedDeadline, Answer, st
<1>6. ASSUME ClientInitialized \/ StdinBreaks \/ CleanupTimer
      PROVE  Typed(s', sent)
  <2>1. /\ Typed([s EXCEPT !.initialized = TRUE, !.told = TRUE, !.stdin = "written"], sent)
        /\ Typed([s EXCEPT !.initialized = TRUE], sent)
        /\ Typed([s EXCEPT !.stdin = "destroyed"], sent)
    BY <1>1 DEF Typed, Is, StateFields
  <2> QED
    BY <1>1, <1>6, <2>1 DEF ClientInitialized, StdinBreaks, CleanupTimer
<1>7. ASSUME WorkerSignalsReady
      PROVE  Typed(s', sent)
  <2> DEFINE st == [s EXCEPT !.marked = TRUE]
  <2>1. Typed(st, sent) /\ st.initializeRequest = s.initializeRequest
    BY <1>1 DEF Typed, Is, StateFields
  <2> HIDE DEF st
  <2> QED
    BY <1>1, <1>7, <2>1, TypedFlush, TypedSendHandshake DEF WorkerSignalsReady, st
<1>8. ASSUME NEW outcome \in TerminationOutcomes,
               \/ StartupTimesOut(outcome) \/ WorkerBreaks(outcome)
               \/ \E r \in Requests : WorkerRejectsInitialize(r, outcome)
      PROVE  Typed(s', sent)
  <2>1. Typed(AfterLoss(s), sent)
    BY <1>1, TypedAfterLoss
  <2>2. Typed(FailQueued(LoseWorker(s)), sent)
    BY <1>1, TypedLose, TypedFailQueued
  <2>3. Typed(FailQueued(LoseWorker(RejectHandshake(s))), sent)
    BY <1>1, TypedReject, TypedLose, TypedFailQueued
  <2> QED
    BY <1>8, <2>1, <2>2, <2>3
       DEF StartupTimesOut, WorkerBreaks, WorkerRejectsInitialize
<1>9. ASSUME NEW outcome \in TerminationOutcomes, NEW spawned \in SpawnOutcomes,
             NEW r \in Requests, RunningDeadline(r, outcome, spawned)
      PROVE  Typed(s', sent)
  <2> DEFINE a == [Release(s, {r}) EXCEPT !.running = None, !.barrier = None]
             settled == Answer(a, r)
             lost == IF child = NoChild THEN settled ELSE LoseWorker(settled)
  <2>1. Typed(Release(s, {r}), sent)
    BY <1>1, TypedRelease
  <2>2. Typed(a, sent)
    BY <2>1 DEF Typed, Is, StateFields
  <2> HIDE DEF a
  <2>3. Typed(settled, sent)
    BY <1>1, <2>2, TypedAnswer DEF Answer
  <2> HIDE DEF settled
  <2>4. Typed(lost, sent)
    BY <1>1, <2>3, TypedLose
  <2> HIDE DEF lost
  <2> QED
    BY <1>1, <1>9, <2>4, TypedFailQueued DEF RunningDeadline, lost, settled, a
<1>10. ASSUME NEW stoodDown \in BOOLEAN, WorkerCrashes(stoodDown)
       PROVE  Typed(s', sent)
  BY <1>1, <1>10, TypedAfterLoss DEF WorkerCrashes
<1>11. ASSUME NEW g \in Generations,
              ReplacedWorkerExits(g) \/ UnspawnedCloses(g) \/ StreamsClose(g)
       PROVE  Typed(s', sent)
  <2>1. g \in Nat
    BY <1>11 DEF Generations
  <2> QED
    BY <1>1, <1>11, <2>1, TypedDrain, TypedPurge
       DEF ReplacedWorkerExits, UnspawnedCloses, StreamsClose
<1>12. ASSUME NEW spawned \in SpawnOutcomes, RestartFires(spawned)
       PROVE  Typed(s', sent)
  BY <1>1, <1>12, TypedFailQueued DEF RestartFires
<1>13. ASSUME NEW g \in Generations, NEW success \in BOOLEAN,
              TreeSettles(g, success) \/ TokenRetrySettles(g, success)
       PROVE  Typed(s', sent)
  BY <1>1, <1>13, TypedDrain DEF TreeSettles, TokenRetrySettles
<1>14. ASSUME NEW outcome \in [liveChildren -> TerminationOutcomes], ShutsDown(outcome)
       PROVE  Typed(s', sent)
  <2> DEFINE st == LoseWorker(s)
  <2>1. Typed(st, sent)
    BY <1>1, TypedLose
  <2> HIDE DEF st
  <2>2. [st EXCEPT !.pending = {}, !.queue = << >>, !.armed = {},
             !.tombstones = [id \in Ids |-> 0]].tombstones \in [Ids -> 0 .. workerGeneration]
    BY <1>1, <2>1 DEF Typed, Is, StateFields
  <2>3. << >> \in Seq(sent) /\ Len(<< >>) = 0
    OBVIOUS
  <2> QED
    BY <1>14, <2>1, <2>2, <2>3 DEF ShutsDown, st, Typed, Is, StateFields, MAX_SUPERVISOR_QUEUE
<1>15. Typed(s', sent') /\ sent' \subseteq Requests /\ cancelled' \subseteq sent'
  <2>1. ASSUME NEW r \in Requests, ClientSends(r)
        PROVE Typed(s', sent') /\ sent' \subseteq Requests /\ cancelled' \subseteq sent'
    BY <1>1, <1>2, <2>1 DEF SupervisorTyped
  <2>2. ASSUME NEW r \in Requests, ClientCancels(r)
        PROVE Typed(s', sent') /\ sent' \subseteq Requests /\ cancelled' \subseteq sent'
    BY <1>1, <1>3, <2>2 DEF SupervisorTyped, ClientCancels
  <2>3. ASSUME ~(\E r \in Requests : ClientSends(r) \/ ClientCancels(r))
        PROVE  UNCHANGED clientVars
    BY <2>3 DEF SupervisorNext, WorkerAnswers, QueuedDeadline, ClientInitialized, StdinBreaks,
           CleanupTimer, WorkerSignalsReady, StartupTimesOut, WorkerBreaks, WorkerRejectsInitialize,
           RunningDeadline, WorkerCrashes, ReplacedWorkerExits, UnspawnedCloses, StreamsClose,
           RestartFires, TreeSettles, TokenRetrySettles, ShutsDown, clientVars
  <2>4. ASSUME ~(\E r \in Requests : ClientSends(r) \/ ClientCancels(r))
        PROVE  Typed(s', sent)
    BY <2>4, <1>4, <1>5, <1>6, <1>7, <1>8, <1>9, <1>10, <1>11, <1>12, <1>13, <1>14
       DEF SupervisorNext
  <2> QED
    BY <1>1, <2>1, <2>2, <2>3, <2>4 DEF SupervisorTyped, clientVars
<1>16. streamsOpen' \subseteq 1 .. workerGeneration'
  <2>1. streamsOpen' \subseteq streamsOpen \cup (workerGeneration + 1) .. workerGeneration'
    BY DEF SupervisorNext, ClientSends, ClientCancels, WorkerAnswers, QueuedDeadline,
       ClientInitialized, StdinBreaks, CleanupTimer, WorkerSignalsReady, StartupTimesOut,
       WorkerBreaks, WorkerRejectsInitialize, RunningDeadline, WorkerCrashes, ReplacedWorkerExits,
       UnspawnedCloses, StreamsClose, RestartFires, TreeSettles, TokenRetrySettles, ShutsDown,
       StreamsOfNewWorker
  <2> QED
    BY <1>1, <2>1 DEF SupervisorTyped
<1> QED
  BY <1>15, <1>16

-----------------------------------------------------------------------------
(* One operator after the other leaves the requests sound. *)

(* No other request uses the id of an initialize. The code needs it: a replay
   sends the initialize again under its old id, and the entry of another
   request with that id would be taken for it. *)
OwnHandshakeIds ==
  \A q, r \in Requests : Initialize(q) /\ q.id = r.id => q = r

(* The requests the supervisor keeps: queued, forwarded, or in its hands (H)
   between two calls. *)
Live(st, H) == Queued(st) \cup st.pending \cup H

(* It keeps exactly the requests (other than initialize) that were sent, not
   answered and not cancelled. *)
Tracks(st, S, C, H) ==
  /\ \A r \in Requests : ~Initialize(r) =>
       (r \in Live(st, H) <=> r \in S /\ st.answers[r] = 0 /\ r \notin C)
  /\ \A r \in Requests \ S : st.answers[r] = 0

(* A request is at one place: once in the queue, or forwarded and with the
   worker, or in hand. *)
OnePlace(st, H) ==
  /\ Single(st.queue)
  /\ \A r \in Queued(st) : Initialize(r) \/ r \notin st.pending \cup st.held \cup H
  /\ \A r \in H : Initialize(r) \/ r \notin st.pending \cup st.held

(* No two requests it keeps have the same id. *)
OneId(st, H) == \A q, r \in Live(st, H) : q.id = r.id => q = r

(* A deadline is armed exactly for the validate-projects it keeps. *)
Deadlines(st, H) == st.armed = {r \in Live(st, H) : Validate(r)}

(* The barrier belongs to a validate-project it keeps, the validate slot to
   one that was forwarded. *)
SlotsHeld(st, H) ==
  /\ st.barrier # None => \E r \in Live(st, H) : Validate(r) /\ r.id = st.barrier
  /\ st.running # None => \E r \in st.pending : Validate(r) /\ r.id = st.running

(* The invariant of the requests: nothing is lost, doubled or left behind. *)
Sound(st, S, C, H) ==
  /\ Tracks(st, S, C, H) /\ OnePlace(st, H) /\ OneId(st, H)
  /\ Deadlines(st, H) /\ SlotsHeld(st, H)

(* An id is never taken for its absence. *)
LEMMA IdsAreNot == \A r \in Requests : r.id # None
BY SupervisorAssumption DEF SupervisorAssumption

(* A validate-project is not an initialize. *)
LEMMA Kinds == \A r : ~(Initialize(r) /\ Validate(r))
BY DEF Initialize, Validate

(* An initialize that is kept beside the requests may be taken in hand at any
   time. *)
LEMMA SoundHand ==
  ASSUME NEW S, NEW C, NEW st, Sound(st, S, C, {}), OwnHandshakeIds, Typed(st, Requests),
         NEW r \in Requests, Initialize(r)
  PROVE  Sound(st, S, C, {r})
<1>1. Live(st, {r}) = Live(st, {}) \cup {r} /\ Live(st, {}) \subseteq Requests
  <2>1. Queued(st) \subseteq Requests
    BY DEF Queued, Typed
  <2> QED
    BY <2>1 DEF Live, Typed
<1>2. Tracks(st, S, C, {r})
  BY <1>1 DEF Sound, Tracks
<1>3. OnePlace(st, {r})
  BY DEF Sound, OnePlace
<1>4. OneId(st, {r})
  BY <1>1 DEF Sound, OneId, OwnHandshakeIds
<1>5. Deadlines(st, {r})
  BY <1>1, Kinds DEF Sound, Deadlines
<1>6. SlotsHeld(st, {r})
  BY <1>1 DEF Sound, SlotsHeld
<1> QED
  BY <1>2, <1>3, <1>4, <1>5, <1>6 DEF Sound

(* A request in hand may be put into the queue, *)
LEMMA SoundEnqueue ==
  ASSUME NEW S \in SUBSET Requests, NEW C, NEW st, NEW t, NEW r \in Requests,
         Typed(st, Requests), Sound(st, S, C, {r}), QueueEffect(st, t, r)
  PROVE  Sound(t, S, C, {})
<1>1. Initialize(r) \/ r \notin Queued(st) \cup st.pending \cup st.held
  BY DEF Sound, OnePlace
<1>2. t.queue = Append(st.queue, r) /\ st.queue \in Seq(Requests)
  BY DEF QueueEffect, Typed
<1>3. Queued(t) = Queued(st) \cup {r} /\ Single(t.queue)
  BY <1>1, <1>2, AppendQueue DEF Queued, Entries, Sound, OnePlace
<1>4. Live(t, {}) = Live(st, {r})
  BY <1>3 DEF QueueEffect, Live
<1> QED
  BY <1>1, <1>3, <1>4
     DEF QueueEffect, SameReplies, SamePipes, Sound, Tracks, OnePlace, OneId, Deadlines, SlotsHeld

(* and may be handed to forwardRequest, whether it is written, queued or
   turned away. *)
LEMMA SoundForward ==
  ASSUME NEW S \in SUBSET Requests, NEW C, NEW st, NEW r \in S, Sound(st, S, C, {r}),
         OwnHandshakeIds, Typed(st, Requests)
  PROVE  Sound(Forward(st, r), S, C, {})
<1> DEFINE t == Forward(st, r)
<1>1. Is(st) /\ Queued(st) = Entries(st.queue) /\ Queued(st) \subseteq Requests
      /\ st.pending \subseteq Requests
  BY DEF Typed, Queued, Entries
<1>2. /\ ~Writable(st) /\ Len(st.queue) < MAX_SUPERVISOR_QUEUE => QueueEffect(st, t, r)
      /\ ~Writable(st) /\ ~(Len(st.queue) < MAX_SUPERVISOR_QUEUE) => RefuseEffect(st, t, r)
      /\ Writable(st) /\ r \notin Unwritable => WriteEffect(st, t, r)
      /\ Writable(st) /\ r \in Unwritable => UnwriteEffect(st, t, r)
  BY <1>1, ForwardQueues, ForwardRefuses, ForwardWrites, ForwardUnwritten
<1> HIDE DEF t
<1>3. Initialize(r) \/ r \notin Queued(st) \cup st.pending \cup st.held
  BY DEF Sound, OnePlace
<1>4. Live(st, {r}) = Live(st, {}) \cup {r} /\ Live(st, {}) = Queued(st) \cup st.pending
  BY DEF Live
<1>5. \A q \in st.pending : q.id = r.id => q = r
  BY <1>4 DEF Sound, OneId
<1>6. r.id # None /\ ~(Initialize(r) /\ Validate(r))
  BY IdsAreNot, Kinds
<1>7. st.answers \in [Requests -> 0 .. 2]
  BY DEF Typed
<1>11. ASSUME QueueEffect(st, t, r)
       PROVE  Sound(t, S, C, {})
  BY <1>11, SoundEnqueue
<1>12. ASSUME RefuseEffect(st, t, r)
       PROVE  Sound(t, S, C, {})
  <2>1. Live(t, {}) = Live(st, {}) /\ Queued(t) = Queued(st)
    BY <1>12 DEF RefuseEffect, Live, Queued
  <2>2. Tracks(t, S, C, {})
    BY <1>12, <1>3, <1>4, <1>7, <2>1 DEF RefuseEffect, Sound, Tracks, Answered
  <2>3. OnePlace(t, {})
    BY <1>12, <2>1 DEF RefuseEffect, SamePipes, Sound, OnePlace
  <2>4. OneId(t, {})
    BY <1>4, <2>1 DEF Sound, OneId
  <2>5. Deadlines(t, {})
    BY <1>12, <1>3, <1>4, <1>6, <2>1 DEF RefuseEffect, Sound, Deadlines
  <2>6. SlotsHeld(t, {})
    BY <1>12, <1>3, <1>4, <1>5, <1>6, <2>1 DEF RefuseEffect, Sound, SlotsHeld
  <2> QED
    BY <2>2, <2>3, <2>4, <2>5, <2>6 DEF Sound
<1>13. ASSUME WriteEffect(st, t, r)
       PROVE  Sound(t, S, C, {})
  <2>1. t.pending = st.pending \cup {r}
    BY <1>13, <1>5 DEF WriteEffect
  <2>2. Live(t, {}) = Live(st, {r}) /\ Queued(t) = Queued(st)
    BY <1>13, <2>1 DEF WriteEffect, Written, Live, Queued
  <2>3. Tracks(t, S, C, {})
    BY <1>13, <2>2 DEF WriteEffect, Sound, Tracks
  <2>4. OnePlace(t, {})
    BY <1>13, <1>3, <2>1, <2>2 DEF WriteEffect, Written, Sound, OnePlace
  <2>5. OneId(t, {}) /\ Deadlines(t, {})
    BY <1>13, <2>2 DEF WriteEffect, Sound, OneId, Deadlines
  <2>6. SlotsHeld(t, {})
    BY <1>13, <1>4, <2>1, <2>2 DEF WriteEffect, Sound, SlotsHeld
  <2> QED
    BY <2>3, <2>4, <2>5, <2>6 DEF Sound
<1>14. ASSUME UnwriteEffect(st, t, r), r \in Unwritable
       PROVE  Sound(t, S, C, {})
  <2>1. t.pending = st.pending \ {r}
    BY <1>14, <1>5 DEF UnwriteEffect
  <2>2. Queued(t) = Queued(st) /\ ~Initialize(r)
    BY <1>14, SupervisorAssumption DEF UnwriteEffect, Written, Queued, SupervisorAssumption,
           Initialize
  <2>3. Live(t, {}) = Live(st, {r}) \ {r}
    BY <1>3, <2>1, <2>2 DEF Live
  <2>4. Tracks(t, S, C, {})
    <3>1. t.answers = Answered(st, {r})
      BY <1>14 DEF UnwriteEffect
    <3>2. t.answers[r] # 0 /\ \A q \in Requests \ {r} : t.answers[q] = st.answers[q]
      BY <1>7, <3>1 DEF Answered
    <3> QED
      BY <2>3, <3>2 DEF Sound, Tracks
  <2>5. OnePlace(t, {})
    BY <1>14, <1>3, <2>1, <2>2 DEF UnwriteEffect, Written, Sound, OnePlace
  <2>6. OneId(t, {}) /\ Deadlines(t, {})
    BY <1>14, <2>3 DEF UnwriteEffect, Sound, OneId, Deadlines
  <2>7. SlotsHeld(t, {})
    BY <1>14, <1>4, <1>5, <2>1, <2>2, <2>3 DEF UnwriteEffect, Sound, SlotsHeld, OneId
  <2> QED
    BY <2>4, <2>5, <2>6, <2>7 DEF Sound
<1> QED
  BY <1>2, <1>11, <1>12, <1>13, <1>14 DEF t

(* From st to t, only the kept initialize, tombstones and what is known of the
   worker have changed. *)
Settles(st, t, S) ==
  /\ t.queue = st.queue /\ t.pending \subseteq st.pending /\ t.held \subseteq st.held
  /\ \A q \in st.pending \ t.pending : Initialize(q)
  /\ t.armed = st.armed /\ t.barrier = st.barrier /\ t.running = st.running
  /\ \A q \in Requests :
       t.answers[q] = st.answers[q] \/ (q \in S /\ Initialize(q))

(* Such a change leaves the requests sound. *)
LEMMA SoundSettles ==
  ASSUME NEW S, NEW C, NEW H, NEW st, Sound(st, S, C, H), Typed(st, Requests),
         NEW t, Settles(st, t, S)
  PROVE  Sound(t, S, C, H)
<1>1. Queued(t) = Queued(st) /\ Queued(st) \subseteq Requests /\ st.pending \subseteq Requests
  BY DEF Settles, Queued, Typed
<1>2. /\ Live(t, H) \subseteq Live(st, H)
      /\ \A q \in Live(st, H) : ~Initialize(q) => q \in Live(t, H)
  BY <1>1 DEF Settles, Live
<1>3. Tracks(t, S, C, H)
  BY <1>2 DEF Settles, Sound, Tracks
<1>4. OnePlace(t, H) /\ OneId(t, H)
  BY <1>1, <1>2 DEF Settles, Sound, OnePlace, OneId
<1>5. Deadlines(t, H)
  BY <1>2, Kinds DEF Settles, Sound, Deadlines
<1>6. SlotsHeld(t, H)
  BY <1>1, <1>2, Kinds DEF Settles, Sound, SlotsHeld
<1> QED
  BY <1>3, <1>4, <1>5, <1>6 DEF Sound

(* What is kept for a replay is an initialize. *)
LEMMA RetainedInitializes == \A st, r : Retained(st, r) => Initialize(r)
BY DEF Retained

(* Forgetting an unfinished handshake is such a change, *)
LEMMA SettlesClear ==
  ASSUME NEW S, NEW st, Is(st)
  PROVE  Settles(st, ClearHandshake(st), S)
<1> DEFINE t == ClearHandshake(st)
<1>1. ClearEffect(st, t)
  BY ClearFields
<1> HIDE DEF t
<1>2. t.pending = st.pending \/ t.pending = {r \in st.pending : ~Retained(st, r)}
  BY <1>1 DEF ClearEffect
<1>3. Settles(st, t, S)
  BY <1>1, <1>2, RetainedInitializes DEF ClearEffect, Settles, SameReplies
<1> QED
  BY <1>3 DEF t

(* so is losing the worker, *)
LEMMA SettlesLose ==
  ASSUME NEW S, NEW st, Is(st)
  PROVE  Settles(st, LoseWorker(st), S)
<1> DEFINE t == LoseWorker(st)
<1>1. LoseEffect(st, t)
  BY LoseFields
<1> HIDE DEF t
<1>2. Settles(st, t, S)
  BY <1>1 DEF LoseEffect, Settles, SameTracking, SameReplies
<1> QED
  BY <1>2 DEF t

(* and the modern lock. *)
LEMMA SettlesLock ==
  ASSUME NEW S, NEW st, Is(st), NEW r
  PROVE  Settles(st, LockEra(st, r), S)
<1> DEFINE t == LockEra(st, r)
<1>1. LockEffect(st, t, r)
  BY LockFields
<1> HIDE DEF t
<1>2. Settles(st, t, S)
  BY <1>1 DEF LockEffect, Settles, SameTracking, SameReplies
<1> QED
  BY <1>2 DEF t

(* The requests that wait are the entries of the queue. *)
LEMMA QueuedEntries == \A st : Queued(st) = Entries(st.queue)
BY DEF Queued, Entries

(* The head of the queue may be taken in hand. *)
LEMMA SoundTake ==
  ASSUME NEW S \in SUBSET Requests, NEW C, NEW st, Sound(st, S, C, {}), Typed(st, S),
         st.queue # << >>
  PROVE  LET taken == [st EXCEPT !.queue = Tail(@)]
         IN /\ Typed(taken, S) /\ Head(st.queue) \in S /\ TakeEffect(st, taken)
            /\ Sound(taken, S, C, {Head(st.queue)})
<1> DEFINE next == Head(st.queue)
           taken == [st EXCEPT !.queue = Tail(@)]
<1>2. Typed(taken, S) /\ next \in S
  BY TypedTake
<1>3. TakeEffect(st, taken)
  BY TakeFields DEF Typed
<1>4. /\ Queued(st) = Queued(taken) \cup {next}
      /\ Single(taken.queue) /\ (Initialize(next) \/ next \notin Queued(taken))
  <2>1. st.queue \in Seq(S) /\ taken.queue = Tail(st.queue) /\ Single(st.queue)
    BY <1>3 DEF TakeEffect, Typed, Sound, OnePlace
  <2>2. /\ Entries(st.queue) = Entries(Tail(st.queue)) \cup {next}
        /\ Single(Tail(st.queue))
        /\ Initialize(next) \/ next \notin Entries(Tail(st.queue))
    BY <2>1, TailQueue
  <2> QED
    BY <2>1, <2>2, QueuedEntries
<1> HIDE DEF next, taken
<1>5. Live(taken, {next}) = Live(st, {}) /\ taken.pending = st.pending
  BY <1>3, <1>4 DEF Live, TakeEffect
<1>6. Tracks(taken, S, C, {next}) /\ OneId(taken, {next}) /\ Deadlines(taken, {next})
      /\ SlotsHeld(taken, {next})
  BY <1>3, <1>5 DEF Sound, Tracks, OneId, Deadlines, SlotsHeld, TakeEffect, SameReplies
<1>7. OnePlace(taken, {next})
  BY <1>3, <1>4 DEF Sound, OnePlace, TakeEffect, SamePipes
<1>8. Sound(taken, S, C, {next})
  BY <1>6, <1>7 DEF Sound
<1> QED
  BY <1>2, <1>3, <1>8 DEF next, taken

(* A round of drainQueue leaves the requests sound, *)
LEMMA SoundDrainStep ==
  ASSUME NEW S \in SUBSET Requests, NEW C, NEW st, Sound(st, S, C, {}),
         OwnHandshakeIds, Typed(st, S), workerGeneration \in Nat
  PROVE  Sound(DrainStep(st), S, C, {}) /\ Typed(DrainStep(st), S)
<1>1. CASE ~childReady' \/ ~Writable(st) \/ st.queue = << >> \/ st.running # None
  BY <1>1 DEF DrainStep
<1>2. CASE st.queue # << >> /\ Writable(st) /\ st.running = None
  <2> DEFINE next == Head(st.queue)
             taken == [st EXCEPT !.queue = Tail(@)]
             raised == [st EXCEPT !.barrier = next.id]
  <2>1. DrainStep(st) \in {st, Forward(taken, next)} \cup {x \in {raised} : Validate(next)}
    BY DEF DrainStep
  <2>2. Typed(taken, S) /\ next \in S /\ TakeEffect(st, taken) /\ Sound(taken, S, C, {next})
    BY <1>2, SoundTake
  <2>3. RaiseEffect(st, raised, next.id)
    BY RaiseFields DEF Typed
  <2>4. next \in Queued(st) /\ next.id \in Ids
    <3>1. st.queue \in Seq(S)
      BY DEF Typed
    <3>2. next \in Entries(st.queue)
      BY <1>2, <3>1, TailQueue
    <3> QED
      BY <2>2, <3>2, QueuedEntries DEF Ids
  <2> HIDE DEF next, taken, raised
  <2>5. Sound(Forward(taken, next), S, C, {}) /\ Typed(Forward(taken, next), S)
    <3>1. Typed(taken, Requests)
      BY <2>2, TypedMore
    <3> QED
      BY <2>2, <3>1, SoundForward, TypedForward
  <2>6. ASSUME Validate(next)
        PROVE  Sound(raised, S, C, {}) /\ Typed(raised, S)
    <3>1. Live(raised, {}) = Live(st, {}) /\ Queued(raised) = Queued(st) /\ next \in Live(st, {})
      BY <2>3, <2>4 DEF Live, Queued, RaiseEffect
    <3>2. Sound(raised, S, C, {})
      BY <2>3, <2>6, <3>1 DEF Sound, Tracks, OnePlace, OneId, Deadlines, SlotsHeld,
             RaiseEffect, SamePipes, SameReplies
    <3>3. Typed(raised, S)
      BY <2>3, <2>4 DEF Typed, RaiseEffect, SameSession, SamePipes, SameReplies
    <3> QED
      BY <3>2, <3>3
  <2> QED
    BY <2>1, <2>5, <2>6
<1> QED
  BY <1>1, <1>2

(* and so does drainQueue. *)
LEMMA SoundDrain ==
  ASSUME NEW S \in SUBSET Requests, NEW C, NEW st, Sound(st, S, C, {}),
         OwnHandshakeIds, Typed(st, S), workerGeneration \in Nat
  PROVE  Sound(Drain(st), S, C, {})
BY SoundDrainStep DEF Drain

(* flushQueue leaves the requests sound, *)
LEMMA SoundFlush ==
  ASSUME NEW S \in SUBSET Requests, NEW C, NEW st, Sound(st, S, C, {}),
         OwnHandshakeIds, Typed(st, S), workerGeneration \in Nat
  PROVE  Sound(FlushQueue(st), S, C, {})
<1> DEFINE flushed == [st EXCEPT !.parked = None]
<1>1. Typed(flushed, S) /\ Settles(st, flushed, S)
  BY DEF Typed, Is, StateFields, Handshakes, Settles
<1> HIDE DEF flushed
<1>2. Typed(flushed, Requests) /\ Typed(st, Requests)
  BY <1>1, TypedMore
<1>3. Sound(flushed, S, C, {})
  BY <1>1, <1>2, SoundSettles
<1>4. Sound(Drain(flushed), S, C, {})
  BY <1>1, <1>3, SoundDrain
<1>5. ASSUME st.parked # None
      PROVE  Sound(Drain(Forward(flushed, st.parked)), S, C, {})
  <2>1. st.parked \in S /\ Initialize(st.parked)
    BY <1>5 DEF Typed, Handshakes
  <2>2. Sound(flushed, S, C, {st.parked})
    BY <1>2, <1>3, <2>1, SoundHand
  <2>3. Sound(Forward(flushed, st.parked), S, C, {})
    BY <1>2, <2>1, <2>2, SoundForward
  <2>4. Typed(Forward(flushed, st.parked), S)
    BY <1>1, <2>1, TypedForward
  <2> QED
    BY <2>3, <2>4, SoundDrain
<1> QED
  BY <1>4, <1>5 DEF FlushQueue, flushed

(* so does forwarding a predecessor of the handshake, *)
LEMMA SoundPredecessor ==
  ASSUME NEW S \in SUBSET Requests, NEW C, NEW st, Sound(st, S, C, {}),
         OwnHandshakeIds, Typed(st, S)
  PROVE  Sound(ForwardPredecessor(st), S, C, {})
<1>1. ASSUME st.predecessors # 0, st.queue # << >>
      PROVE  Sound(ForwardPredecessor(st), S, C, {})
  <2> DEFINE next == Head(st.queue)
             u == [st EXCEPT !.queue = Tail(@)]
             v == [st EXCEPT !.queue = Tail(@), !.predecessors = @ - 1]
  <2>1. Typed(u, S) /\ next \in S /\ TakeEffect(st, u) /\ Sound(u, S, C, {next})
    BY <1>1, SoundTake
  <2>2. v = [u EXCEPT !.predecessors = @ - 1] /\ u.predecessors = st.predecessors
    BY DEF Typed, Is, StateFields
  <2>3. ForwardPredecessor(st) = Forward(v, next)
    BY <1>1 DEF ForwardPredecessor
  <2> HIDE DEF u, v, next
  <2>4. Typed(v, S) /\ Settles(u, v, S)
    BY <1>1, <2>1, <2>2 DEF Typed, Is, StateFields, MAX_SUPERVISOR_QUEUE, Settles
  <2>5. Typed(v, Requests) /\ Typed(u, Requests)
    BY <2>1, <2>4, TypedMore
  <2>6. Sound(v, S, C, {next})
    BY <2>1, <2>4, <2>5, SoundSettles
  <2> QED
    BY <2>1, <2>3, <2>5, <2>6, SoundForward
<1> QED
  BY <1>1 DEF ForwardPredecessor

(* and sending the handshake to a worker that is ready. *)
LEMMA SoundSendHandshake ==
  ASSUME NEW S \in SUBSET Requests, NEW C, NEW st, Sound(st, S, C, {}),
         OwnHandshakeIds, Typed(st, S), workerGeneration \in Nat,
         st.initializeRequest # None
  PROVE  Sound(SendHandshake(st), S, C, {})
<1> DEFINE first == ForwardPredecessor(st)
           released == ForwardPredecessor(first)
           ready == [released EXCEPT !.predecessors = 0, !.replaying = st.clientInitialized]
           request == st.initializeRequest
<1>1. Typed(first, S) /\ Sound(first, S, C, {})
  BY TypedPredecessor, SoundPredecessor
<1> HIDE DEF first
<1>2. Typed(released, S) /\ Sound(released, S, C, {})
  BY <1>1, TypedPredecessor, SoundPredecessor
<1> HIDE DEF released
<1>3. Typed(ready, S) /\ Settles(released, ready, S)
  BY <1>2 DEF Typed, Is, StateFields, Settles, MAX_SUPERVISOR_QUEUE
<1>4. SendHandshake(st) = Forward(ready, request)
  BY DEF SendHandshake, released, first
<1>5. request \in S /\ Initialize(request)
  BY DEF Typed, Handshakes
<1> HIDE DEF ready, request
<1>6. Typed(ready, Requests) /\ Typed(released, Requests)
  BY <1>2, <1>3, TypedMore
<1>7. Sound(ready, S, C, {})
  BY <1>2, <1>3, <1>6, SoundSettles
<1>8. Sound(ready, S, C, {request})
  BY <1>5, <1>6, <1>7, SoundHand
<1> QED
  BY <1>4, <1>5, <1>6, <1>8, SoundForward

(* When startup fails, the requests that waited are answered and nothing of
   them is left, *)
LEMMA SoundFailQueued ==
  ASSUME NEW S \in SUBSET Requests, NEW C, NEW st, Sound(st, S, C, {}), Typed(st, S)
  PROVE  Sound(FailQueued(st), S, C, {})
<1> DEFINE t == FailQueued(st)
<1>1. FailQueuedEffect(st, t)
  BY FailQueuedFields DEF Typed
<1> HIDE DEF t
<1>2. Queued(t) = {} /\ t.held = st.held
  BY <1>1 DEF FailQueuedEffect, Queued
<1>3. /\ t.pending \subseteq st.pending /\ st.pending \subseteq S
      /\ \A q \in st.pending \ t.pending : Initialize(q)
  BY <1>1, RetainedInitializes DEF FailQueuedEffect, Typed
<1>4. Queued(st) \subseteq S /\ \A q \in {st.parked} \cap Requests : q \in S /\ Initialize(q)
  <2>1. st.queue \in Seq(S)
    BY DEF Typed
  <2>2. \A q \in {st.parked} \cap Requests : q \in S /\ Initialize(q)
    BY SupervisorAssumption DEF Typed, Handshakes, SupervisorAssumption
  <2> QED
    BY <2>1, <2>2 DEF Queued
<1>5. Live(t, {}) = t.pending /\ Live(st, {}) = Queued(st) \cup st.pending
  BY <1>2 DEF Live
<1>6. \A q \in Requests :
        /\ q \notin Queued(st) /\ q # st.parked => t.answers[q] = st.answers[q]
        /\ q \in Queued(st) => t.answers[q] # 0
  <2>1. st.answers \in [Requests -> 0 .. 2]
    BY DEF Typed
  <2>2. Answered(st, Queued(st)) \in [Requests -> 0 .. 2]
    BY <2>1, AnsweredType
  <2>3. \A q \in Requests :
          /\ q \notin Queued(st) => Answered(st, Queued(st))[q] = st.answers[q]
          /\ q \in Queued(st) => Answered(st, Queued(st))[q] # 0
    BY <2>1 DEF Answered
  <2> DEFINE f == Answered(st, Queued(st))
  <2> HIDE DEF f
  <2>4. \A q \in Requests :
          /\ q # st.parked => t.answers[q] = f[q]
          /\ f[q] # 0 => t.answers[q] # 0
    <3>1. t.answers = Answered([answers |-> f], {st.parked} \cap Requests)
      BY <1>1 DEF FailQueuedEffect, f
    <3>2. \A q \in Requests : f[q] \in 0 .. 2
      BY <2>2 DEF f
    <3> QED
      BY <3>1, <3>2 DEF Answered
  <2> QED
    BY <2>3, <2>4 DEF f
<1>7. Tracks(t, S, C, {})
  <2>1. ASSUME NEW q \in Requests, ~Initialize(q)
        PROVE  q \in Live(t, {}) <=> q \in S /\ t.answers[q] = 0 /\ q \notin C
    <3>1. q \in Live(st, {}) <=> q \in S /\ st.answers[q] = 0 /\ q \notin C
      BY <2>1 DEF Sound, Tracks
    <3>2. q # st.parked /\ (q \in st.pending <=> q \in t.pending)
      BY <2>1, <1>3, <1>4
    <3>3. q \in Queued(st) => q \notin st.pending
      BY <2>1 DEF Sound, OnePlace
    <3> QED
      BY <3>1, <3>2, <3>3, <1>5, <1>6
  <2>2. ASSUME NEW q \in Requests \ S
        PROVE  t.answers[q] = 0
    <3>1. q \notin Queued(st) /\ q # st.parked
      BY <1>4, <2>2
    <3> QED
      BY <3>1, <1>6, <2>2 DEF Sound, Tracks
  <2> QED
    BY <2>1, <2>2 DEF Tracks
<1>8. OnePlace(t, {}) /\ OneId(t, {})
  BY <1>1, <1>2, <1>3, <1>5 DEF Sound, OnePlace, OneId, FailQueuedEffect, Single
<1>9. Deadlines(t, {})
  <2>1. \A q \in Queued(st) : Validate(q) => q \notin st.pending
    BY Kinds DEF Sound, OnePlace
  <2>2. t.armed = st.armed \ Queued(st)
    BY <1>1 DEF FailQueuedEffect
  <2> QED
    BY <1>3, <1>5, <2>1, <2>2, Kinds DEF Sound, Deadlines
<1>10. SlotsHeld(t, {})
  BY <1>1 DEF FailQueuedEffect, SlotsHeld
<1>11. Sound(t, S, C, {})
  BY <1>7, <1>8, <1>9, <1>10 DEF Sound
<1> QED
  BY <1>11 DEF t

(* and when a worker is lost, those that were forwarded, *)
LEMMA SoundFailPending ==
  ASSUME NEW S \in SUBSET Requests, NEW C, NEW st, Sound(st, S, C, {}), Typed(st, S)
  PROVE  Sound(FailPending(st), S, C, {})
<1> DEFINE lost == {r \in st.pending : ~Retained(st, r)}
           u == Release(st, lost)
           t == AnswerAll(u, lost)
<1>1. FailPending(st) = t
  BY DEF FailPending
<1>2. \A q \in st.pending \ lost : Initialize(q)
  BY RetainedInitializes
<1>3. lost \subseteq st.pending /\ st.pending \subseteq S /\ Queued(st) \subseteq S
  <2>1. st.queue \in Seq(S)
    BY DEF Typed
  <2> QED
    BY <2>1 DEF Typed, Queued
<1> HIDE DEF lost, t
<1>4. ReleaseEffect(st, u, lost)
  BY ReleaseFields DEF Typed
<1> HIDE DEF u
<1>5. AnswerEffect(u, t, lost)
  BY <1>4, AnswerFields DEF ReleaseEffect, t
<1>6. /\ t.queue = st.queue /\ t.pending = st.pending \ lost /\ t.held = st.held
      /\ t.armed = st.armed \ lost /\ t.answers = Answered(st, lost)
      /\ t.running = IF \E r \in lost : r.id = st.running THEN None ELSE st.running
      /\ t.barrier = IF \E r \in lost : r.id = st.barrier THEN None ELSE st.barrier
  <2>1. t.answers = Answered(st, lost)
    BY <1>4, <1>5 DEF ReleaseEffect, AnswerEffect, Answered
  <2> QED
    BY <1>4, <1>5, <2>1 DEF ReleaseEffect, AnswerEffect, SameTracking, SamePipes
<1>7. Queued(t) = Queued(st) /\ Live(t, {}) = Queued(st) \cup (st.pending \ lost)
  BY <1>6 DEF Queued, Live
<1>8. /\ \A q \in Requests \ lost : t.answers[q] = st.answers[q]
      /\ \A q \in lost : t.answers[q] # 0
  <2>1. st.answers \in [Requests -> 0 .. 2] /\ lost \subseteq Requests
    BY <1>3 DEF Typed
  <2> QED
    BY <1>6, <2>1 DEF Answered
<1>9. Live(st, {}) = Queued(st) \cup st.pending
  BY DEF Live
<1>10. \A q \in lost : Initialize(q) \/ q \notin Queued(st)
  BY <1>3 DEF Sound, OnePlace
<1>11. Tracks(t, S, C, {})
  BY <1>2, <1>3, <1>7, <1>8, <1>9, <1>10 DEF Sound, Tracks
<1>12. OnePlace(t, {}) /\ OneId(t, {})
  BY <1>6, <1>7, <1>9 DEF Sound, OnePlace, OneId
<1>13. Deadlines(t, {})
  BY <1>3, <1>6, <1>7, <1>9, <1>10, Kinds DEF Sound, Deadlines
<1>14. SlotsHeld(t, {})
  BY <1>2, <1>3, <1>6, <1>7, <1>9, Kinds DEF Sound, SlotsHeld
<1>15. Sound(t, S, C, {})
  BY <1>11, <1>12, <1>13, <1>14 DEF Sound
<1> QED
  BY <1>1, <1>15

(* so that the loss of a worker leaves the requests sound. *)
LEMMA SoundAfterLoss ==
  ASSUME NEW S \in SUBSET Requests, NEW C, NEW st, Sound(st, S, C, {}), Typed(st, S)
  PROVE  Sound(AfterLoss(st), S, C, {})
<1>1. Typed(st, Requests) /\ Settles(st, LoseWorker(st), S) /\ Typed(LoseWorker(st), S)
  BY TypedMore, SettlesLose, TypedLose DEF Typed
<1>2. Sound(LoseWorker(st), S, C, {})
  BY <1>1, SoundSettles
<1> QED
  BY <1>1, <1>2, SoundFailQueued, SoundFailPending DEF AfterLoss

(* The result of initialize leaves the requests sound, *)
LEMMA SoundFinish ==
  ASSUME NEW S \in SUBSET Requests, NEW C, NEW st, Sound(st, S, C, {}),
         OwnHandshakeIds, Typed(st, S), workerGeneration \in Nat,
         st.initializeRequest # None
  PROVE  Sound(FinishHandshake(st), S, C, {})
<1> DEFINE request == st.initializeRequest
           done == [st EXCEPT !.pending = {q \in @ : ~Retained(st, q)}]
           replayed == [done EXCEPT !.replaying = FALSE, !.told = st.initialized]
           first == [done EXCEPT !.clientInitialized = TRUE]
           answered == Answer(first, request)
<1>1. Typed(done, S) /\ Settles(st, done, S)
  BY RetainedInitializes DEF Typed, Is, StateFields, Settles
<1>2. request \in S /\ Initialize(request) /\ Typed(st, Requests)
  BY TypedMore DEF Typed, Handshakes
<1>3. FinishHandshake(st) \in {FlushQueue(replayed), FlushQueue(answered)}
  BY DEF FinishHandshake
<1> HIDE DEF done, request
<1>4. Sound(done, S, C, {}) /\ Typed(done, Requests)
  BY <1>1, <1>2, SoundSettles, TypedMore
<1>5. Typed(replayed, S) /\ Settles(done, replayed, S)
  BY <1>1 DEF Typed, Is, StateFields, Settles
<1>6. Typed(first, S) /\ Settles(done, first, S)
  BY <1>1 DEF Typed, Is, StateFields, Settles
<1> HIDE DEF replayed, first
<1>7. Typed(answered, S) /\ AnswerEffect(first, answered, {request})
  BY <1>6, TypedAnswer, AnswerFields DEF Answer, Typed
<1> HIDE DEF answered
<1>8. Settles(done, answered, S)
  BY <1>2, <1>6, <1>7 DEF Settles, AnswerEffect, SameTracking, SamePipes, Answered
<1>9. Sound(replayed, S, C, {}) /\ Sound(answered, S, C, {})
  BY <1>4, <1>5, <1>8, SoundSettles
<1> QED
  BY <1>3, <1>5, <1>7, <1>9, SoundFlush

(* and so does its error. *)
LEMMA SoundReject ==
  ASSUME NEW S \in SUBSET Requests, NEW C, NEW st, Sound(st, S, C, {}),
         Typed(st, S), st.initializeRequest # None
  PROVE  Sound(RejectHandshake(st), S, C, {})
<1> DEFINE request == st.initializeRequest
           done == [st EXCEPT !.pending = {q \in @ : ~Retained(st, q)}]
           unparked == [done EXCEPT
            !.parked = IF @ # None /\ Retained(st, @) THEN None ELSE @]
           answered == Answer(unparked, request)
<1>1. Typed(done, S) /\ Settles(st, done, S)
  BY RetainedInitializes DEF Typed, Is, StateFields, Settles
<1>2. request \in S /\ Initialize(request) /\ Typed(st, Requests)
  BY TypedMore DEF Typed, Handshakes
<1>3. RejectHandshake(st) \in {done, answered}
  BY DEF RejectHandshake
<1> HIDE DEF done, request
<1>4. Is(unparked) /\ Settles(done, unparked, S)
  BY <1>1 DEF Typed, Is, StateFields, Settles
<1> HIDE DEF unparked
<1>5. AnswerEffect(unparked, answered, {request})
  BY <1>4, AnswerFields DEF Answer
<1> HIDE DEF answered
<1>6. Settles(st, answered, S)
  BY <1>1, <1>2, <1>4, <1>5 DEF Settles, AnswerEffect, SameTracking, SamePipes, Answered
<1> QED
  BY <1>1, <1>2, <1>3, <1>6, SoundSettles

(* What Sound says of the requests that are kept, whatever was answered. *)
Kept(st, H) == OnePlace(st, H) /\ OneId(st, H) /\ Deadlines(st, H) /\ SlotsHeld(st, H)

(* Nothing that Kept speaks of has changed. *)
SameKept(st, t) ==
  /\ SameTracking(st, t) /\ t.held = st.held

(* What does not touch the requests keeps them, *)
LEMMA KeptSame ==
  ASSUME NEW st, NEW t, NEW H, Kept(st, H), SameKept(st, t)
  PROVE  Kept(t, H) /\ Live(t, H) = Live(st, H)
<1>1. Queued(t) = Queued(st) /\ Live(t, H) = Live(st, H)
  BY DEF SameKept, SameTracking, Queued, Live
<1> QED
  BY <1>1 DEF SameKept, SameTracking, Kept, OnePlace, OneId, Deadlines, SlotsHeld

(* and so does an answer. *)
LEMMA KeptAnswer ==
  ASSUME NEW st, NEW H, NEW R, Is(st), Kept(st, H)
  PROVE  Kept(AnswerAll(st, R), H) /\ Live(AnswerAll(st, R), H) = Live(st, H)
<1> DEFINE t == AnswerAll(st, R)
<1>1. SameKept(st, t)
  BY AnswerFields DEF AnswerEffect, SameKept, SamePipes
<1> HIDE DEF t
<1>2. Kept(t, H) /\ Live(t, H) = Live(st, H)
  BY <1>1, KeptSame
<1> QED
  BY <1>2 DEF t

(* A request that was just sent: the requests with its id are over. *)
New(st, S, C, r) ==
  /\ r \notin S /\ C \subseteq S
  /\ \A q \in S : q.id = r.id => st.answers[q] # 0 \/ q \in C

(* A new request may be answered at once, *)
LEMMA SoundAnswerNew ==
  ASSUME NEW S \in SUBSET Requests, NEW C, NEW st, Sound(st, S, C, {}), Typed(st, S),
         NEW r \in Requests, r \notin S
  PROVE  Sound(Answer(st, r), S \cup {r}, C, {})
<1> DEFINE t == AnswerAll(st, {r})
<1>1. Kept(t, {}) /\ Live(t, {}) = Live(st, {}) /\ AnswerEffect(st, t, {r})
  BY KeptAnswer, AnswerFields DEF Typed, Sound, Kept
<1>2. r \notin Live(st, {})
  <2>1. st.queue \in Seq(S)
    BY DEF Typed
  <2> QED
    BY <2>1 DEF Live, Queued, Typed
<1>3. t.answers[r] # 0 /\ \A q \in Requests \ {r} : t.answers[q] = st.answers[q]
  <2>1. st.answers \in [Requests -> 0 .. 2] /\ t.answers = Answered(st, {r})
    BY <1>1 DEF AnswerEffect, Typed
  <2> QED
    BY <2>1 DEF Answered
<1> HIDE DEF t
<1>4. Tracks(t, S \cup {r}, C, {})
  BY <1>1, <1>2, <1>3 DEF Sound, Tracks
<1> QED
  BY <1>1, <1>4 DEF Sound, Kept, Answer, t

(* or taken in hand, armed and with its barrier if it is a validate-project. *)
LEMMA SoundInstallNew ==
  ASSUME NEW S \in SUBSET Requests, NEW C, NEW st, Sound(st, S, C, {}), Typed(st, S),
         OwnHandshakeIds, NEW r \in Requests, ~Initialize(r), New(st, S, C, r)
  PROVE  Sound(Install(st, r), S \cup {r}, C, {r})
<1> DEFINE t == Install(st, r)
<1>1. InstallEffect(st, t, r)
  BY InstallFields DEF Typed
<1> HIDE DEF t
<1>2. Queued(st) \subseteq S /\ st.pending \subseteq S /\ st.held \subseteq S /\ r \notin S
  <2>1. st.queue \in Seq(S)
    BY DEF Typed
  <2> QED
    BY <2>1 DEF Queued, Typed, New
<1>3. /\ Queued(t) = Queued(st) /\ t.pending = st.pending /\ t.held = st.held
      /\ t.queue = st.queue /\ t.running = st.running /\ t.answers = st.answers
  BY <1>1 DEF InstallEffect, Queued, SamePipes, SameReplies
<1>4. Live(t, {r}) = Live(st, {}) \cup {r} /\ Live(st, {}) = Queued(st) \cup st.pending
  BY <1>3 DEF Live
<1>5. Tracks(t, S \cup {r}, C, {r})
  <2>1. st.answers[r] = 0 /\ r \notin C
    BY <1>2 DEF Sound, Tracks, New
  <2> QED
    BY <1>2, <1>3, <1>4, <2>1 DEF Sound, Tracks
<1>6. OnePlace(t, {r})
  BY <1>2, <1>3 DEF Sound, OnePlace
<1>7. \A q \in Live(st, {}) : q.id # r.id
  <2>1. \A q \in Live(st, {}) : q \in S /\ (Initialize(q) \/ (st.answers[q] = 0 /\ q \notin C))
    BY <1>2, <1>4 DEF Sound, Tracks
  <2> QED
    BY <2>1, <1>2 DEF New, OwnHandshakeIds
<1>8. OneId(t, {r})
  BY <1>4, <1>7 DEF Sound, OneId
<1>9. Deadlines(t, {r})
  <2>1. t.armed = IF Validate(r) THEN st.armed \cup {r} ELSE st.armed
    BY <1>1 DEF InstallEffect
  <2> QED
    BY <1>4, <2>1 DEF Sound, Deadlines
<1>10. SlotsHeld(t, {r})
  <2>1. t.barrier = IF Validate(r) /\ st.barrier = None THEN r.id ELSE st.barrier
    BY <1>1 DEF InstallEffect
  <2> QED
    BY <1>3, <1>4, <2>1 DEF Sound, SlotsHeld
<1>11. Sound(t, S \cup {r}, C, {r})
  BY <1>5, <1>6, <1>8, <1>9, <1>10 DEF Sound
<1> QED
  BY <1>11 DEF t

(* Admission leaves the requests sound, of a request other than initialize, *)
LEMMA SoundRouteRequest ==
  ASSUME NEW S \in SUBSET Requests, NEW C, NEW st, Sound(st, S, C, {}), Typed(st, S),
         OwnHandshakeIds, NEW r \in Requests, ~Initialize(r), New(st, S, C, r),
         workerGeneration \in Nat
  PROVE  Sound(RouteRequest(st, r), S \cup {r}, C, {})
<1> DEFINE u == LockEra(st, r)
           T == S \cup {r}
<1>1. Typed(u, S) /\ Settles(st, u, S) /\ LockEffect(st, u, r)
  BY TypedLock, SettlesLock, LockFields DEF Typed
<1>2. Len(u.queue) \in Nat
  BY <1>1 DEF Typed
<1> HIDE DEF u
<1>3. RouteRequest(st, r) \in
        {Answer(u, r), Drain(Answer(u, r)), Admit(Install(u, r), r)} \cup
        {t \in {[Install(u, r) EXCEPT !.queue = Append(@, r)]} :
           Len(u.queue) < MAX_SUPERVISOR_QUEUE}
  BY <1>2 DEF RouteRequest, u, MAX_SUPERVISOR_QUEUE
<1>4. Sound(u, S, C, {}) /\ New(u, S, C, r)
  <2>1. Sound(u, S, C, {})
    BY <1>1, TypedMore, SoundSettles
  <2>2. u.answers = st.answers
    BY <1>1 DEF LockEffect, SameReplies
  <2> QED
    BY <2>1, <2>2 DEF New
<1>5. r \in T /\ T \in SUBSET Requests /\ r \notin S
  BY DEF New
<1> HIDE DEF T
<1>6. Typed(u, T)
  BY <1>1, <1>5, TypedMore DEF T
<1>7. Sound(Answer(u, r), T, C, {}) /\ Typed(Answer(u, r), T)
  BY <1>1, <1>4, <1>5, <1>6, SoundAnswerNew, TypedAnswer DEF Answer, T
<1>8. Sound(Drain(Answer(u, r)), T, C, {})
  BY <1>5, <1>7, SoundDrain
<1> DEFINE v == Install(u, r)
<1>9. Sound(v, T, C, {r}) /\ Typed(v, T) /\ Typed(v, Requests)
  BY <1>1, <1>4, <1>5, <1>6, SoundInstallNew, TypedInstall, TypedMore DEF T
<1> HIDE DEF v
<1>10. Sound(Forward(v, r), T, C, {}) /\ Typed(Forward(v, r), T)
  BY <1>5, <1>9, SoundForward, TypedForward
<1>11. Sound(Admit(v, r), T, C, {})
  BY <1>5, <1>10, SoundDrain DEF Admit
<1>12. Sound([v EXCEPT !.queue = Append(@, r)], T, C, {})
  <2>1. QueueEffect(v, [v EXCEPT !.queue = Append(@, r)], r)
    BY <1>9, EnqueueFields DEF Typed
  <2> QED
    BY <1>5, <1>9, <2>1, SoundEnqueue
<1> QED
  BY <1>3, <1>7, <1>8, <1>11, <1>12 DEF v, T

(* (an initialize is not among the tracked ones) *)
LEMMA SoundMoreInitialize ==
  ASSUME NEW S, NEW C, NEW st, Sound(st, S, C, {}), NEW r, Initialize(r)
  PROVE  Sound(st, S \cup {r}, C, {})
BY DEF Sound, Tracks

(* of initialize, *)
LEMMA SoundRouteInitialize ==
  ASSUME NEW S \in SUBSET Requests, NEW C, NEW st, Sound(st, S, C, {}), Typed(st, S),
         OwnHandshakeIds, NEW r \in S, Initialize(r)
  PROVE  Sound(RouteInitialize(st, r), S, C, {})
<1> DEFINE legacy == [st EXCEPT !.era = "legacy"]
           captured == [legacy EXCEPT !.initializeRequest = r, !.clientInitialized = FALSE]
           now == [captured EXCEPT !.predecessors = 0]
           cleared == ClearHandshake(legacy)
           count == IF st.era = "unselected" THEN Len(st.queue) ELSE 0
           held == [captured EXCEPT !.parked = r, !.predecessors = count]
<1>1. Typed(legacy, S) /\ Settles(st, legacy, S) /\ Typed(st, Requests)
  BY TypedMore DEF Typed, Is, StateFields, Settles
<1>2. RouteInitialize(st, r) \in {Answer(st, r), Answer(cleared, r), Forward(now, r), held}
  BY DEF RouteInitialize
<1> HIDE DEF legacy
<1>3. Typed(captured, S) /\ Settles(legacy, captured, S)
  BY <1>1 DEF Typed, Is, StateFields, Handshakes, Settles
<1> HIDE DEF captured
<1>4. Typed(now, S) /\ Settles(captured, now, S) /\ Settles(captured, held, S)
  BY <1>3 DEF Typed, Is, StateFields, Settles, MAX_SUPERVISOR_QUEUE
<1> HIDE DEF now, held
<1>5. Sound(legacy, S, C, {}) /\ Typed(legacy, Requests) /\ Typed(captured, Requests)
  BY <1>1, <1>3, SoundSettles, TypedMore
<1>6. Sound(captured, S, C, {})
  BY <1>3, <1>5, SoundSettles
<1>7. Sound(now, S, C, {}) /\ Sound(held, S, C, {}) /\ Typed(now, Requests)
  BY <1>4, <1>5, <1>6, SoundSettles, TypedMore
<1>8. Sound(Forward(now, r), S, C, {})
  BY <1>7, SoundHand, SoundForward
<1>9. ASSUME NEW x, Typed(x, S), Sound(x, S, C, {})
      PROVE  Sound(Answer(x, r), S, C, {})
  <2> DEFINE y == AnswerAll(x, {r})
  <2>1. AnswerEffect(x, y, {r})
    BY <1>9, AnswerFields DEF Typed
  <2> HIDE DEF y
  <2>2. Settles(x, y, S)
    BY <2>1 DEF AnswerEffect, Settles, SameTracking, SamePipes, Answered
  <2>3. Sound(y, S, C, {})
    BY <1>9, <2>2, SoundSettles, TypedMore
  <2> QED
    BY <2>3 DEF Answer, y
<1>10. Typed(cleared, S) /\ Sound(cleared, S, C, {})
  BY <1>1, <1>5, TypedClear, SettlesClear, SoundSettles DEF Typed
<1> QED
  BY <1>2, <1>7, <1>8, <1>9, <1>10

(* and so of every request. *)
LEMMA SoundRoute ==
  ASSUME NEW S \in SUBSET Requests, NEW C, NEW st, Sound(st, S, C, {}), Typed(st, S),
         OwnHandshakeIds, NEW r \in Requests, New(st, S, C, r), workerGeneration \in Nat
  PROVE  Sound(Route(st, r), S \cup {r}, C, {})
<1>1. CASE Initialize(r)
  <2>1. Typed(st, S \cup {r}) /\ Sound(st, S \cup {r}, C, {})
    BY <1>1, TypedMore, SoundMoreInitialize
  <2> QED
    BY <1>1, <2>1, SoundRouteInitialize DEF Route
<1>2. CASE ~Initialize(r)
  <2>1. Sound(Answer(st, r), S \cup {r}, C, {})
    BY SoundAnswerNew DEF New
  <2> QED
    BY <1>2, <2>1, SoundRouteRequest DEF Route
<1> QED
  BY <1>1, <1>2

(* When the requests R are over, answered or cancelled, and nothing of them is
   kept, the rest is sound. *)
LEMMA SoundWithout ==
  ASSUME NEW S, NEW C, NEW D, NEW st, NEW t, Sound(st, S, C, {}), Kept(t, {}),
         NEW R, Live(t, {}) = Live(st, {}) \ R, C \subseteq D,
         \A q \in Requests : q \notin R => t.answers[q] = st.answers[q] /\ (q \in D => q \in C),
         \A q \in R : Initialize(q) \/ q \notin S \/ t.answers[q] # 0 \/ q \in D,
         R \subseteq S
  PROVE  Sound(t, S, D, {})
<1>1. Tracks(t, S, D, {})
  BY DEF Sound, Tracks
<1> QED
  BY <1>1 DEF Sound, Kept

(* t is st without the queued request r, its deadline and the barrier it took. *)
UnqueuedEffect(st, t, r) ==
  /\ Is(t) /\ SamePipes(st, t) /\ SameReplies(st, t)
  /\ t.queue = Without(st.queue, r) /\ t.pending = st.pending
  /\ t.running = st.running /\ t.armed = st.armed \ {r}
  /\ t.barrier = IF st.barrier = r.id /\ st.running # r.id THEN None ELSE st.barrier

(* A request that leaves the queue leaves nothing behind. *)
LEMMA KeptUnqueued ==
  ASSUME NEW S \in SUBSET Requests, NEW C, NEW st, NEW t, Sound(st, S, C, {}), Typed(st, S),
         NEW r \in Queued(st), ~Initialize(r), UnqueuedEffect(st, t, r)
  PROVE  Kept(t, {}) /\ Live(t, {}) = Live(st, {}) \ {r}
<1>1. st.queue \in Seq(S) /\ r \in Entries(st.queue) /\ Single(st.queue)
  BY QueuedEntries DEF Typed, Sound, OnePlace
<1>2. Queued(st) = Queued(t) \cup {r} /\ Single(t.queue) /\ r \notin Queued(t)
  BY <1>1, WithoutQueue, QueuedEntries DEF UnqueuedEffect
<1>3. t.pending = st.pending /\ r \notin st.pending /\ t.held = st.held
  BY DEF UnqueuedEffect, SamePipes, Sound, OnePlace
<1>4. Live(t, {}) = Live(st, {}) \ {r} /\ Live(st, {}) = Queued(st) \cup st.pending
  BY <1>2, <1>3 DEF Live
<1>5. OnePlace(t, {}) /\ OneId(t, {})
  BY <1>2, <1>3, <1>4 DEF Sound, OnePlace, OneId
<1>6. Deadlines(t, {})
  BY <1>4 DEF UnqueuedEffect, Sound, Deadlines
<1>7. SlotsHeld(t, {})
  <2>1. t.running # None => t.running # r.id
    BY <1>3, <1>4 DEF UnqueuedEffect, Sound, SlotsHeld, OneId
  <2> QED
    BY <1>3, <1>4, <2>1 DEF UnqueuedEffect, Sound, SlotsHeld
<1> QED
  BY <1>4, <1>5, <1>6, <1>7 DEF Kept

(* The requests once a queued one was taken out and answered, before the queue
   is drained (handleValidateProjectDeadline). *)
TimedOut(st, r) ==
  Answer(ReleaseBarrier([Disarm(st, {r}) EXCEPT !.queue = Without(@, r)], r.id), r)

(* t is st without the queued request r, and with its response. *)
TimedOutEffect(st, t, r) ==
  /\ t.pending = st.pending /\ t.held = st.held /\ t.tombstones = st.tombstones
  /\ t.answers = Answered(st, {r})
  /\ t.queue = Without(st.queue, r) /\ t.running = st.running
  /\ t.barrier = IF st.barrier = r.id /\ st.running # r.id THEN None ELSE st.barrier

(* They are sound: nothing of the request is left. *)
LEMMA SoundTimedOut ==
  ASSUME NEW S \in SUBSET Requests, NEW C, NEW st, Sound(st, S, C, {}), Typed(st, S),
         OwnHandshakeIds, NEW r \in Queued(st), ~Initialize(r), workerGeneration \in Nat
  PROVE  LET t == TimedOut(st, r)
         IN Sound(t, S, C, {}) /\ Typed(t, S) /\ TimedOutEffect(st, t, r)
<1> DEFINE a == [Disarm(st, {r}) EXCEPT !.queue = Without(@, r)]
           b == ReleaseBarrier(a, r.id)
           t == AnswerAll(b, {r})
<1>0. Is(st)
  BY DEF Typed
<1>1. UnqueueEffect(st, a, r) /\ Typed(a, S)
  BY <1>0, UnqueueFields, TypedUnqueue
<1> HIDE DEF a
<1>2. BarrierEffect(a, b, r.id) /\ Typed(b, S)
  <2>1. Is(a)
    BY <1>1 DEF Typed
  <2>2. BarrierEffect(a, b, r.id)
    BY <2>1, ReleaseBarrierFields
  <2>3. Typed(b, S)
    BY <1>1, TypedReleaseBarrier
  <2> QED
    BY <2>2, <2>3
<1>3. UnqueuedEffect(st, b, r)
  BY <1>1, <1>2 DEF UnqueueEffect, BarrierEffect, UnqueuedEffect, SamePipes, SameReplies
<1> HIDE DEF b
<1>4. Kept(b, {}) /\ Live(b, {}) = Live(st, {}) \ {r} /\ b.answers = st.answers
  BY <1>3, KeptUnqueued DEF UnqueuedEffect, SameReplies
<1>5. Kept(t, {}) /\ Live(t, {}) = Live(st, {}) \ {r} /\ AnswerEffect(b, t, {r}) /\ Typed(t, S)
  <2>1. Is(b)
    BY <1>2 DEF Typed
  <2>2. Kept(t, {}) /\ Live(t, {}) = Live(b, {})
    BY <1>4, <2>1, KeptAnswer
  <2>3. AnswerEffect(b, t, {r})
    BY <2>1, AnswerFields
  <2>4. Typed(t, S)
    BY <1>2, TypedAnswer
  <2> QED
    BY <1>4, <2>2, <2>3, <2>4
<1>6. r \in S
  BY DEF Typed, Queued
<1>7. t.answers[r] # 0 /\ \A q \in Requests \ {r} : t.answers[q] = st.answers[q]
  <2>1. st.answers \in [Requests -> 0 .. 2] /\ t.answers = Answered(b, {r})
    BY <1>5 DEF AnswerEffect, Typed
  <2> QED
    BY <1>4, <1>6, <2>1 DEF Answered
<1> HIDE DEF t
<1>8. Sound(t, S, C, {})
  BY <1>5, <1>6, <1>7, SoundWithout
<1>9. /\ t.pending = st.pending /\ t.held = st.held /\ t.tombstones = st.tombstones
      /\ t.answers = Answered(st, {r})
      /\ t.queue = Without(st.queue, r) /\ t.running = st.running
      /\ t.barrier = IF st.barrier = r.id /\ st.running # r.id THEN None ELSE st.barrier
  BY <1>3, <1>5 DEF UnqueuedEffect, AnswerEffect, SameTracking, SamePipes, SameReplies, Answered
<1> QED
  BY <1>5, <1>8, <1>9 DEF t, b, a, Answer, TimedOut, TimedOutEffect

(* So the deadline of a queued validate-project leaves the requests sound. *)
LEMMA SoundQueuedDeadline ==
  ASSUME NEW S \in SUBSET Requests, NEW C, NEW st, Sound(st, S, C, {}), Typed(st, S),
         OwnHandshakeIds, NEW r \in Queued(st), ~Initialize(r), workerGeneration \in Nat
  PROVE  Sound(Drain(TimedOut(st, r)), S, C, {})
BY SoundTimedOut, SoundDrain

(* Forwarded requests that are over leave nothing behind. *)
LEMMA KeptReleased ==
  ASSUME NEW S \in SUBSET Requests, NEW C, NEW st, NEW t, Sound(st, S, C, {}), Typed(st, S),
         NEW R \in SUBSET st.pending, \A q \in R : ~Initialize(q), ReleaseEffect(st, t, R)
  PROVE  Kept(t, {}) /\ Live(t, {}) = Live(st, {}) \ R
<1>1. /\ Queued(t) = Queued(st) /\ t.queue = st.queue /\ t.held = st.held
      /\ t.pending = st.pending \ R
  BY DEF ReleaseEffect, SamePipes, Queued
<1>2. \A q \in R : q \notin Queued(st)
  BY DEF Sound, OnePlace
<1>3. Live(t, {}) = Live(st, {}) \ R /\ Live(st, {}) = Queued(st) \cup st.pending
  BY <1>1, <1>2 DEF Live
<1>4. OnePlace(t, {}) /\ OneId(t, {})
  BY <1>1, <1>3 DEF Sound, OnePlace, OneId
<1>5. Deadlines(t, {})
  BY <1>3 DEF ReleaseEffect, Sound, Deadlines
<1>6. SlotsHeld(t, {})
  BY <1>1, <1>3 DEF ReleaseEffect, Sound, SlotsHeld
<1> QED
  BY <1>3, <1>4, <1>5, <1>6 DEF Kept

(* The requests once one was cancelled, before the queue is drained. *)
Cancelled(st, r) ==
  IF r \in Queued(st)
  THEN LET prefix == {st.queue[i] : i \in 1 .. st.predecessors}
       IN ReleaseBarrier(
            [Disarm(st, {r}) EXCEPT !.queue = Without(@, r),
               !.predecessors = IF r \in prefix THEN @ - 1 ELSE @], r.id)
  ELSE Release(st, {r})

(* They are sound, whether it was queued or forwarded: nothing of it is left
   but, if it was forwarded, a tombstone. *)
LEMMA SoundCancelled ==
  ASSUME NEW S \in SUBSET Requests, NEW C, NEW st, Sound(st, S, C, {}), Typed(st, S),
         OwnHandshakeIds, NEW r \in S, ~Initialize(r), r \in Live(st, {}),
         workerGeneration \in Nat
  PROVE  LET t == Cancelled(st, r)
         IN /\ Sound(t, S, C \cup {r}, {}) /\ Typed(t, S)
            /\ IF r \in Queued(st) THEN UnqueuedEffect(st, t, r) ELSE ReleaseEffect(st, t, {r})
<1> DEFINE Right(t) == Sound(t, S, C \cup {r}, {}) /\ Typed(t, S)
<1>1. ASSUME r \in Queued(st)
      PROVE  Right(Cancelled(st, r)) /\ UnqueuedEffect(st, Cancelled(st, r), r)
  <2> DEFINE prefix == {st.queue[i] : i \in 1 .. st.predecessors}
             u == [Disarm(st, {r}) EXCEPT !.queue = Without(@, r)]
             v == [Disarm(st, {r}) EXCEPT !.queue = Without(@, r),
               !.predecessors = IF r \in prefix THEN @ - 1 ELSE @]
             w == ReleaseBarrier(v, r.id)
  <2>0. Is(st)
    BY DEF Typed
  <2>1. Typed(u, S) /\ UnqueueEffect(st, u, r)
    BY <1>1, <2>0, TypedUnqueue, UnqueueFields
  <2>2. v = [u EXCEPT !.predecessors = IF r \in prefix THEN @ - 1 ELSE @]
    BY <2>0, UnqueueTwice
  <2>3. u.predecessors = st.predecessors
    BY <2>1 DEF UnqueueEffect, SameSession
  <2>4. r \in prefix => st.predecessors > 0
    BY DEF Typed
  <2>5. Cancelled(st, r) = w
    BY <1>1 DEF Cancelled
  <2> HIDE DEF u, v, prefix
  <2>6. Typed(v, S)
    BY <2>1, <2>2, <2>3, <2>4, TypedFewer
  <2>7. BarrierEffect(v, w, r.id) /\ Typed(w, S)
    <3>1. Is(v)
      BY <2>6 DEF Typed
    <3>2. BarrierEffect(v, w, r.id)
      BY <3>1, ReleaseBarrierFields
    <3>3. Typed(w, S)
      BY <2>6, TypedReleaseBarrier
    <3> QED
      BY <3>2, <3>3
  <2> HIDE DEF w
  <2>8. SameTracking(u, v) /\ SamePipes(u, v) /\ SameReplies(u, v)
    BY <2>1, <2>2 DEF Typed, Is, StateFields, SameTracking, SamePipes, SameReplies
  <2>9. UnqueuedEffect(st, w, r)
    BY <2>1, <2>7, <2>8 DEF UnqueueEffect, BarrierEffect, UnqueuedEffect, SamePipes, SameReplies,
           SameTracking
  <2>10. Kept(w, {}) /\ Live(w, {}) = Live(st, {}) \ {r} /\ w.answers = st.answers
    BY <1>1, <2>9, KeptUnqueued DEF UnqueuedEffect, SameReplies
  <2>11. Sound(w, S, C \cup {r}, {})
    BY <2>10, SoundWithout
  <2> QED
    BY <2>5, <2>7, <2>9, <2>11
<1>2. ASSUME r \in st.pending, r \notin Queued(st)
      PROVE  Right(Cancelled(st, r)) /\ ReleaseEffect(st, Cancelled(st, r), {r})
  <2> DEFINE t == Release(st, {r})
  <2>1. Typed(t, S) /\ ReleaseEffect(st, t, {r})
    BY TypedRelease, ReleaseFields DEF Typed
  <2> HIDE DEF t
  <2>2. Kept(t, {}) /\ Live(t, {}) = Live(st, {}) \ {r} /\ t.answers = st.answers
    <3>1. {r} \in SUBSET st.pending /\ \A q \in {r} : ~Initialize(q)
      BY <1>2
    <3>2. Kept(t, {}) /\ Live(t, {}) = Live(st, {}) \ {r}
      BY <2>1, <3>1, KeptReleased, SMTT(30)
    <3> QED
      BY <2>1, <3>2 DEF ReleaseEffect
  <2>3. Sound(t, S, C \cup {r}, {})
    BY <2>2, SoundWithout
  <2>4. Right(t) /\ ReleaseEffect(st, t, {r})
    BY <2>1, <2>3
  <2> QED
    BY <1>2, <2>4 DEF Cancelled, t
<1> QED
  BY <1>1, <1>2 DEF Live

(* handleCancellation is that, and then the queue is drained. *)
LEMMA CancelDrains ==
  ASSUME NEW st, NEW r \in Live(st, {})
  PROVE  Cancel(st, r) = Drain(Cancelled(st, r))
BY DEF Cancel, Cancelled, Live

(* So a cancellation leaves the requests sound, *)
LEMMA SoundCancel ==
  ASSUME NEW S \in SUBSET Requests, NEW C, NEW st, Sound(st, S, C, {}), Typed(st, S),
         OwnHandshakeIds, NEW r \in S, ~Initialize(r), r \in Live(st, {}),
         workerGeneration \in Nat
  PROVE  Sound(Cancel(st, r), S, C \cup {r}, {})
<1>1. Sound(Cancelled(st, r), S, C \cup {r}, {}) /\ Typed(Cancelled(st, r), S)
  BY SoundCancelled
<1>2. Sound(Drain(Cancelled(st, r)), S, C \cup {r}, {})
  BY <1>1, SoundDrain
<1> QED
  BY <1>2, CancelDrains

(* so does the deadline of a running validate-project, *)
LEMMA SoundRunningDeadline ==
  ASSUME NEW S \in SUBSET Requests, NEW C, NEW st, Sound(st, S, C, {}), Typed(st, S),
         NEW r \in st.pending, ~Initialize(r), workerGeneration \in Nat
  PROVE  LET settled == Answer([Release(st, {r}) EXCEPT !.running = None,
                                                   !.barrier = None], r)
         IN Sound(settled, S, C, {}) /\ Typed(settled, S)
<1> DEFINE a == Release(st, {r})
           b == [a EXCEPT !.running = None, !.barrier = None]
           t == AnswerAll(b, {r})
<1>1. Typed(a, S) /\ ReleaseEffect(st, a, {r})
  BY TypedRelease, ReleaseFields DEF Typed
<1> HIDE DEF a
<1>2. Kept(a, {}) /\ Live(a, {}) = Live(st, {}) \ {r} /\ a.answers = st.answers
  <2>1. {r} \in SUBSET st.pending /\ \A q \in {r} : ~Initialize(q)
    OBVIOUS
  <2> DEFINE R == {r}
  <2>2. R \in SUBSET st.pending /\ (\A q \in R : ~Initialize(q)) /\ ReleaseEffect(st, a, R)
    BY <1>1, <2>1
  <2> HIDE DEF R
  <2>3. Kept(a, {}) /\ Live(a, {}) = Live(st, {}) \ R
    BY <2>2, KeptReleased
  <2> QED
    BY <1>1, <2>3 DEF ReleaseEffect, R
<1>3. Typed(b, S) /\ b.running = None /\ b.barrier = None
      /\ b.queue = a.queue /\ b.pending = a.pending /\ b.held = a.held /\ b.armed = a.armed
      /\ b.answers = a.answers
  BY <1>1 DEF Typed, Is, StateFields
<1> HIDE DEF b
<1>4. Live(b, {}) = Live(a, {}) /\ Queued(b) = Queued(a)
  BY <1>3 DEF Live, Queued
<1>5. Kept(b, {})
  BY <1>2, <1>3, <1>4 DEF Kept, OnePlace, OneId, Deadlines, SlotsHeld
<1>6. Kept(t, {}) /\ Live(t, {}) = Live(st, {}) \ {r} /\ AnswerEffect(b, t, {r}) /\ Typed(t, S)
  <2>1. Is(b)
    BY <1>3 DEF Typed
  <2>2. Kept(t, {}) /\ Live(t, {}) = Live(b, {})
    BY <1>5, <2>1, KeptAnswer
  <2>3. AnswerEffect(b, t, {r})
    BY <2>1, AnswerFields
  <2>4. Typed(t, S)
    BY <1>3, TypedAnswer
  <2> QED
    BY <1>2, <1>4, <2>2, <2>3, <2>4
<1>7. r \in S
  BY DEF Typed
<1>8. t.answers[r] # 0 /\ \A q \in Requests \ {r} : t.answers[q] = st.answers[q]
  <2>1. st.answers \in [Requests -> 0 .. 2] /\ t.answers = Answered(b, {r})
    BY <1>6 DEF AnswerEffect, Typed
  <2> QED
    BY <1>2, <1>3, <1>7, <2>1 DEF Answered
<1> HIDE DEF t
<1>9. Sound(t, S, C, {})
  BY <1>6, <1>7, <1>8, SoundWithout
<1> QED
  BY <1>6, <1>9 DEF t, b, a, Answer

(* The entries that the response to r settles: those of its id. *)
Owners(st, r) == {q \in st.pending : q.id = r.id}

(* The requests that it answers: the sender of the id, if nothing is settled. *)
Told(st, r) == IF Owners(st, r) = {} THEN {r} ELSE Owners(st, r)

(* The requests once a response was delivered, before the queue is drained. *)
Delivered(st, r) ==
  LET owners == Owners(st, r)
      settled == [Disarm(st, owners) EXCEPT !.pending = @ \ owners,
             !.running = IF \E q \in owners : Validate(q) THEN None ELSE @,
             !.barrier = IF @ = r.id /\ \E q \in owners : Validate(q)
                         THEN None ELSE @]
  IN AnswerAll(settled, Told(st, r))

(* t is st without the entries of r's id, and with their response. *)
DeliveredEffect(st, t, r) ==
  /\ t.pending = st.pending \ Owners(st, r) /\ t.held = st.held
  /\ t.tombstones = st.tombstones /\ t.answers = Answered(st, Told(st, r))
  /\ t.queue = st.queue
  /\ Owners(st, r) = {} => t.running = st.running /\ t.barrier = st.barrier

(* They are sound: its entry, deadline and barrier are gone. *)
LEMMA SoundDelivered ==
  ASSUME NEW S \in SUBSET Requests, NEW C, NEW st, Sound(st, S, C, {}), Typed(st, S),
         OwnHandshakeIds, NEW r \in S, Initialize(r) \/ r \notin Queued(st),
         workerGeneration \in Nat
  PROVE  LET t == Delivered(st, r)
         IN Sound(t, S, C, {}) /\ Typed(t, S) /\ DeliveredEffect(st, t, r)
<1> DEFINE owners == Owners(st, r)
           ends == \E q \in owners : Validate(q)
           a == Disarm(st, owners)
           settled == [Disarm(st, owners) EXCEPT !.pending = @ \ owners,
             !.running = IF ends THEN None ELSE @,
             !.barrier = IF @ = r.id /\ ends THEN None ELSE @]
           told == Told(st, r)
           t == AnswerAll(settled, told)
<1>1. Delivered(st, r) = t
  BY DEF Delivered
<1>3. settled = [a EXCEPT !.pending = @ \ owners,
             !.running = IF ends THEN None ELSE @,
             !.barrier = IF @ = r.id /\ ends THEN None ELSE @]
  OBVIOUS
<1>4. owners \subseteq st.pending /\ \A q \in owners : q.id = r.id
  BY DEF Owners
<1>5. ends <=> \E q \in owners : Validate(q)
  OBVIOUS
<1>16. \A q \in st.pending : q.id = r.id => q \in owners
  BY DEF Owners
<1> HIDE DEF settled, owners, ends
<1>2. DisarmEffect(st, a, owners) /\ Typed(a, S)
  <2>1. DisarmEffect(st, a, owners)
    BY DisarmFields DEF Typed
  <2>2. Typed(a, S)
    BY TypedDisarm
  <2> QED
    BY <2>1, <2>2
<1> HIDE DEF a
<1>6. /\ Typed(settled, S) /\ settled.tombstones = st.tombstones
      /\ settled.queue = st.queue /\ settled.held = st.held
      /\ settled.pending = st.pending \ owners /\ settled.answers = st.answers
      /\ settled.armed = st.armed \ owners
      /\ settled.running = IF ends THEN None ELSE st.running
      /\ settled.barrier = IF st.barrier = r.id /\ ends THEN None ELSE st.barrier
  BY <1>2, <1>3 DEF DisarmEffect, SamePipes, SameReplies, Typed, Is, StateFields
<1>7. Queued(settled) = Queued(st)
  BY <1>6 DEF Queued
<1>8. /\ Live(st, {}) = Queued(st) \cup st.pending
      /\ Live(settled, {}) = Queued(st) \cup (st.pending \ owners)
  BY <1>6, <1>7 DEF Live
<1>9. \A q \in owners : Initialize(q) \/ q \notin Queued(st)
  BY <1>4 DEF Sound, OnePlace
<1>10. OnePlace(settled, {}) /\ OneId(settled, {})
  BY <1>6, <1>7, <1>8 DEF Sound, OnePlace, OneId
<1>11. Deadlines(settled, {})
  BY <1>6, <1>8, <1>9, Kinds DEF Sound, Deadlines
<1>12. SlotsHeld(settled, {})
  <2>1. ASSUME settled.barrier # None
        PROVE  \E v \in Live(settled, {}) : Validate(v) /\ v.id = settled.barrier
    <3>1. PICK v \in Live(st, {}) : Validate(v) /\ v.id = st.barrier
      BY <2>1, <1>6 DEF Sound, SlotsHeld
    <3>2. settled.barrier = st.barrier
      BY <2>1, <1>6
    <3>3. v \notin owners
      BY <2>1, <3>1, <1>4, <1>5, <1>6
    <3> QED
      BY <1>8, <3>1, <3>2, <3>3
  <2>2. ASSUME settled.running # None
        PROVE  \E v \in settled.pending : Validate(v) /\ v.id = settled.running
    BY <2>2, <1>5, <1>6 DEF Sound, SlotsHeld
  <2> QED
    BY <2>1, <2>2 DEF SlotsHeld
<1> HIDE DEF told
<1>13. /\ told \subseteq S
       /\ \A q \in told : Initialize(q) \/ q \notin Live(settled, {})
       /\ owners \subseteq told
  <2>1. owners \subseteq S
    BY <1>4 DEF Typed
  <2>2. owners = {} => r \notin st.pending
    BY <1>16
  <2> QED
    BY <1>8, <1>9, <2>1, <2>2 DEF told, Told, owners
<1>14. Kept(t, {}) /\ Live(t, {}) = Live(settled, {}) /\ AnswerEffect(settled, t, told)
       /\ Typed(t, S)
  <2>1. Is(settled) /\ Kept(settled, {})
    BY <1>6, <1>10, <1>11, <1>12 DEF Typed, Kept
  <2>2. Kept(t, {}) /\ Live(t, {}) = Live(settled, {})
    BY <2>1, KeptAnswer
  <2>3. AnswerEffect(settled, t, told)
    BY <2>1, AnswerFields
  <2>4. Typed(t, S)
    BY <1>6, TypedAnswer
  <2> QED
    BY <2>2, <2>3, <2>4
<1> HIDE DEF t
<1>15. /\ \A q \in Requests \ told : t.answers[q] = st.answers[q]
       /\ \A q \in told : t.answers[q] # 0
  <2>1. st.answers \in [Requests -> 0 .. 2] /\ t.answers = Answered(settled, told)
    BY <1>14 DEF AnswerEffect, Typed
  <2> QED
    BY <1>6, <1>13, <2>1 DEF Answered
<1>17. Tracks(t, S, C, {})
  <2>1. ASSUME NEW q \in Requests, ~Initialize(q)
        PROVE  q \in Live(t, {}) <=> q \in S /\ t.answers[q] = 0 /\ q \notin C
    <3>1. q \in Live(st, {}) <=> q \in S /\ st.answers[q] = 0 /\ q \notin C
      BY <2>1 DEF Sound, Tracks
    <3>2. CASE q \in told
      BY <1>13, <1>14, <1>15, <2>1, <3>2
    <3>3. CASE q \notin told
      <4>1. q \in Live(t, {}) <=> q \in Live(st, {})
        BY <1>8, <1>13, <1>14, <3>3
      <4> QED
        BY <1>15, <3>1, <3>3, <4>1
    <3> QED
      BY <3>2, <3>3
  <2>2. \A q \in Requests \ S : t.answers[q] = 0
    BY <1>13, <1>15 DEF Sound, Tracks
  <2> QED
    BY <2>1, <2>2 DEF Tracks
<1>18. Sound(t, S, C, {})
  BY <1>14, <1>17 DEF Sound, Kept
<1>19. /\ t.pending = st.pending \ owners /\ t.held = st.held
       /\ t.tombstones = st.tombstones /\ t.answers = Answered(st, told)
  BY <1>6, <1>14 DEF AnswerEffect, SameTracking, SamePipes, Answered
<1>20. /\ t.queue = st.queue
       /\ owners = {} => t.running = st.running /\ t.barrier = st.barrier
  BY <1>5, <1>6, <1>14 DEF AnswerEffect, SameTracking
<1> QED
  BY <1>1, <1>14, <1>18, <1>19, <1>20 DEF told, owners, DeliveredEffect

(* A response is discarded, or delivered and then the queue is drained. *)
LEMMA DeliverDrains ==
  ASSUME NEW st, NEW r
  PROVE  Deliver(st, r) = IF st.tombstones[r.id] # 0 THEN st ELSE Drain(Delivered(st, r))
BY DEF Deliver, Delivered, Told, Owners

(* and so does an answer of the worker: the one of a request that was
   cancelled, timed out or already answered is discarded. *)
LEMMA SoundDeliver ==
  ASSUME NEW S \in SUBSET Requests, NEW C, NEW st, Sound(st, S, C, {}), Typed(st, S),
         OwnHandshakeIds, NEW r \in S, Initialize(r) \/ r \notin Queued(st),
         workerGeneration \in Nat
  PROVE  Sound(Deliver(st, r), S, C, {})
<1>1. Sound(Delivered(st, r), S, C, {}) /\ Typed(Delivered(st, r), S)
  BY SoundDelivered
<1>2. Sound(Drain(Delivered(st, r)), S, C, {})
  BY <1>1, SoundDrain
<1> QED
  BY <1>2, DeliverDrains

(* Purging tombstones touches no request. *)
LEMMA SettlesPurge ==
  ASSUME NEW S, NEW st, Is(st), NEW g
  PROVE  Settles(st, Purge(st, g), S)
<1> DEFINE t == Purge(st, g)
<1>1. PurgeEffect(st, t, g)
  BY PurgeFields
<1> HIDE DEF t
<1>2. Settles(st, t, S)
  BY <1>1 DEF PurgeEffect, Settles, SameTracking, SamePipes
<1> QED
  BY <1>2 DEF t

-----------------------------------------------------------------------------
(* Every callback does. *)

(* Nothing is kept after the shutdown. *)
Quiet(st) ==
  /\ st.queue = << >> /\ st.pending = {} /\ st.armed = {} /\ st.held = {}

(* What was sent and cancelled changes only when the client sends or cancels. *)
LEMMA ClientStep ==
  ASSUME SupervisorNext, ~(\E r \in Requests : ClientSends(r) \/ ClientCancels(r))
  PROVE  UNCHANGED clientVars
BY DEF SupervisorNext, WorkerAnswers, QueuedDeadline, ClientInitialized, StdinBreaks,
       CleanupTimer, WorkerSignalsReady, StartupTimesOut, WorkerBreaks, WorkerRejectsInitialize,
       RunningDeadline, WorkerCrashes, ReplacedWorkerExits, UnspawnedCloses, StreamsClose,
       RestartFires, TreeSettles, TokenRetrySettles, ShutsDown, clientVars

(* Every callback before the shutdown leaves the requests sound. *)
LEMMA SoundStep ==
  ASSUME SupervisorTyped, OwnHandshakeIds, Sound(s, sent, cancelled, {}),
         workerGeneration \in Nat, SupervisorNext, ~shuttingDown'
  PROVE  Sound(s', sent', cancelled', {})
<1>1. Typed(s, sent) /\ sent \in SUBSET Requests /\ cancelled \subseteq sent
  BY DEF SupervisorTyped
<1>2. Typed(s, Requests) /\ Is(s)
  BY <1>1, TypedMore DEF Typed
<1>3. Sound(Drain(s), sent, cancelled, {})
  BY <1>1, SoundDrain
<1>4. Sound(LoseWorker(s), sent, cancelled, {}) /\ Typed(LoseWorker(s), sent)
  BY <1>1, <1>2, SettlesLose, SoundSettles, TypedLose
<1>5. ASSUME NEW r \in Requests, ClientSends(r)
      PROVE  Sound(s', sent', cancelled', {})
  <2>1. New(s, sent, cancelled, r)
    <3>1. ASSUME NEW q \in sent, q.id = r.id
          PROVE  s.answers[q] # 0 \/ q \in cancelled
      <4>1. Closed(q)
        BY <1>5, <3>1 DEF ClientSends
      <4> QED
        BY <4>1 DEF Closed
    <3> QED
      BY <1>1, <1>5, <3>1 DEF New, ClientSends
  <2>2. Sound(Route(s, r), sent \cup {r}, cancelled, {})
    BY <1>1, <2>1, SoundRoute
  <2> QED
    BY <1>5, <2>2 DEF ClientSends
<1>6. ASSUME NEW r \in Requests, ClientCancels(r)
      PROVE  Sound(s', sent', cancelled', {})
  <2>1. r \in sent /\ ~Initialize(r) /\ ~Closed(r)
    BY <1>6 DEF ClientCancels
  <2>2. s.answers[r] = 0 /\ r \notin cancelled
    BY <2>1, <1>1 DEF Closed, Typed
  <2>3. r \in Live(s, {})
    BY <2>1, <2>2 DEF Sound, Tracks
  <2>4. Sound(Cancel(s, r), sent, cancelled \cup {r}, {})
    BY <1>1, <2>1, <2>3, SoundCancel
  <2> QED
    BY <1>6, <2>4 DEF ClientCancels
<1>7. ASSUME NEW r \in Requests, WorkerAnswers(r)
      PROVE  Sound(s', sent, cancelled, {})
  <2> DEFINE st == [s EXCEPT !.held = @ \ {r}]
  <2>1. r \in s.held /\ r \in sent
    BY <1>1, <1>7 DEF WorkerAnswers, Typed
  <2>2. Typed(st, sent) /\ Settles(s, st, sent) /\ st.initializeRequest = s.initializeRequest
        /\ st.queue = s.queue
    BY <1>1 DEF Typed, Is, StateFields, Settles
  <2>3. \/ s.initializeRequest # None /\ s' = FinishHandshake(st)
        \/ s' = Deliver(st, r)
    BY <1>7 DEF WorkerAnswers, AnswersHandshake
  <2> HIDE DEF st
  <2>4. Sound(st, sent, cancelled, {})
    BY <1>2, <2>2, SoundSettles
  <2>5. Initialize(r) \/ r \notin Queued(st)
    BY <2>1, <2>2 DEF Sound, OnePlace, Queued
  <2>6. Sound(Deliver(st, r), sent, cancelled, {})
    BY <1>1, <2>1, <2>2, <2>4, <2>5, SoundDeliver
  <2>7. s.initializeRequest # None => Sound(FinishHandshake(st), sent, cancelled, {})
    BY <1>1, <2>2, <2>4, SoundFinish
  <2> QED
    BY <2>3, <2>6, <2>7
<1>8. \A r \in s.armed : ~Initialize(r)
  BY Kinds DEF Sound, Deadlines
<1>9. ASSUME NEW r \in Requests, QueuedDeadline(r)
      PROVE  Sound(s', sent, cancelled, {})
  <2>1. s' = Drain(TimedOut(s, r)) /\ r \in Queued(s) /\ ~Initialize(r)
    BY <1>8, <1>9 DEF QueuedDeadline, TimedOut
  <2> QED
    BY <1>1, <2>1, SoundQueuedDeadline
<1>10. ASSUME ClientInitialized \/ StdinBreaks \/ CleanupTimer
       PROVE  Sound(s', sent, cancelled, {})
  <2>1. ASSUME ClientInitialized
        PROVE  Settles(s, s', sent)
    BY <1>2, <2>1 DEF ClientInitialized, Settles, Is, StateFields
  <2>2. ASSUME StdinBreaks \/ CleanupTimer
        PROVE  Settles(s, s', sent)
    BY <1>2, <2>2 DEF StdinBreaks, CleanupTimer, Settles, Is, StateFields
  <2> QED
    BY <1>2, <1>10, <2>1, <2>2, SoundSettles
<1>11. ASSUME WorkerSignalsReady
       PROVE  Sound(s', sent, cancelled, {})
  <2> DEFINE st == [s EXCEPT !.marked = TRUE]
  <2>1. Typed(st, sent) /\ st.initializeRequest = s.initializeRequest /\ Settles(s, st, sent)
    BY <1>1 DEF Typed, Is, StateFields, Settles
  <2>2. s' = FlushQueue(st) \/ (s' = SendHandshake(st) /\ s.initializeRequest # None)
    BY <1>11 DEF WorkerSignalsReady
  <2> HIDE DEF st
  <2>3. Sound(st, sent, cancelled, {})
    BY <1>2, <2>1, SoundSettles
  <2> QED
    BY <1>1, <2>1, <2>2, <2>3, SoundFlush, SoundSendHandshake
<1>12. ASSUME NEW outcome \in TerminationOutcomes,
               \/ StartupTimesOut(outcome) \/ WorkerBreaks(outcome)
               \/ \E r \in Requests : WorkerRejectsInitialize(r, outcome)
       PROVE  Sound(s', sent, cancelled, {})
  <2>1. Sound(AfterLoss(s), sent, cancelled, {})
    BY <1>1, SoundAfterLoss
  <2>2. Sound(FailQueued(LoseWorker(s)), sent, cancelled, {})
    BY <1>1, <1>4, SoundFailQueued
  <2>3. ASSUME NEW r \in Requests, WorkerRejectsInitialize(r, outcome)
        PROVE  Sound(FailQueued(LoseWorker(RejectHandshake(s))), sent, cancelled, {})
    <3> DEFINE x == RejectHandshake(s)
    <3>1. s.initializeRequest # None
      BY <2>3 DEF WorkerRejectsInitialize, AnswersHandshake
    <3>2. Sound(x, sent, cancelled, {}) /\ Typed(x, sent)
      BY <1>1, <3>1, SoundReject, TypedReject
    <3> HIDE DEF x
    <3>3. Typed(x, Requests) /\ Is(x)
      BY <1>1, <3>2, TypedMore DEF Typed
    <3>4. Sound(LoseWorker(x), sent, cancelled, {}) /\ Typed(LoseWorker(x), sent)
      BY <1>1, <3>2, <3>3, SettlesLose, SoundSettles, TypedLose
    <3>5. Sound(FailQueued(LoseWorker(x)), sent, cancelled, {})
      BY <1>1, <3>4, SoundFailQueued
    <3> QED
      BY <3>5 DEF x
  <2> QED
    BY <1>12, <2>1, <2>2, <2>3 DEF StartupTimesOut, WorkerBreaks, WorkerRejectsInitialize
<1>13. ASSUME NEW outcome \in TerminationOutcomes, NEW spawned \in SpawnOutcomes,
              NEW r \in Requests, RunningDeadline(r, outcome, spawned)
       PROVE  Sound(s', sent, cancelled, {})
  <2> DEFINE settled == Answer([Release(s, {r}) EXCEPT !.running = None,
                                                       !.barrier = None], r)
             lost == IF child = NoChild THEN settled ELSE LoseWorker(settled)
  <2>1. r \in s.pending /\ ~Initialize(r)
    BY <1>8, <1>13 DEF RunningDeadline
  <2>2. Sound(settled, sent, cancelled, {}) /\ Typed(settled, sent)
    BY <1>1, <2>1, SoundRunningDeadline
  <2>3. s' \in {lost, FailQueued(lost)}
    BY <1>13 DEF RunningDeadline
  <2> HIDE DEF settled
  <2>4. Typed(settled, Requests) /\ Is(settled)
    BY <1>1, <2>2, TypedMore DEF Typed
  <2>5. Sound(LoseWorker(settled), sent, cancelled, {}) /\ Typed(LoseWorker(settled), sent)
    BY <1>1, <2>2, <2>4, SettlesLose, SoundSettles, TypedLose
  <2>6. Sound(lost, sent, cancelled, {}) /\ Typed(lost, sent)
    BY <2>2, <2>5
  <2> HIDE DEF lost
  <2>7. Sound(FailQueued(lost), sent, cancelled, {})
    BY <1>1, <2>6, SoundFailQueued
  <2> QED
    BY <2>3, <2>6, <2>7
<1>14. ASSUME NEW stoodDown \in BOOLEAN, WorkerCrashes(stoodDown)
       PROVE  Sound(s', sent, cancelled, {})
  BY <1>1, <1>14, SoundAfterLoss DEF WorkerCrashes
<1>15. ASSUME NEW g \in Generations,
              ReplacedWorkerExits(g) \/ UnspawnedCloses(g) \/ StreamsClose(g)
       PROVE  Sound(s', sent, cancelled, {})
  <2> DEFINE x == Purge(s, g)
  <2>1. g \in Nat
    BY DEF Generations
  <2>2. Typed(x, sent) /\ Settles(s, x, sent)
    BY <1>1, <1>2, <2>1, TypedPurge, SettlesPurge
  <2>3. s' \in {Drain(s), Drain(x), x}
    BY <1>15 DEF ReplacedWorkerExits, UnspawnedCloses, StreamsClose
  <2> HIDE DEF x
  <2>4. Sound(x, sent, cancelled, {})
    BY <1>2, <2>2, SoundSettles
  <2>5. Sound(Drain(x), sent, cancelled, {})
    BY <1>1, <2>2, <2>4, SoundDrain
  <2> QED
    BY <1>3, <2>3, <2>4, <2>5
<1>16. ASSUME NEW spawned \in SpawnOutcomes, RestartFires(spawned)
       PROVE  Sound(s', sent, cancelled, {})
  BY <1>1, <1>16, SoundFailQueued DEF RestartFires
<1>17. ASSUME NEW g \in Generations, NEW success \in BOOLEAN,
              TreeSettles(g, success) \/ TokenRetrySettles(g, success)
       PROVE  Sound(s', sent, cancelled, {})
  BY <1>3, <1>17 DEF TreeSettles, TokenRetrySettles
<1>18. \A outcome \in [liveChildren -> TerminationOutcomes] : ~ShutsDown(outcome)
  BY DEF ShutsDown, Shutdown
<1>19. ASSUME ~(\E r \in Requests : ClientSends(r) \/ ClientCancels(r))
       PROVE  UNCHANGED clientVars
  BY <1>19, ClientStep
<1>20. ASSUME ~(\E r \in Requests : ClientSends(r) \/ ClientCancels(r))
       PROVE  Sound(s', sent, cancelled, {})
  BY <1>20, <1>7, <1>9, <1>10, <1>11, <1>12, <1>13, <1>14, <1>15, <1>16, <1>17, <1>18
     DEF SupervisorNext
<1> QED
  BY <1>5, <1>6, <1>19, <1>20 DEF clientVars

(* Every callback of the supervisor is a step of its pool, or leaves the pool
   alone. *)
LEMMA SupervisorStep == SupervisorNext => [Next]_poolVars
<1> SUFFICES ASSUME SupervisorNext
             PROVE  Next \/ UNCHANGED poolVars
  OBVIOUS
<1>1. ASSUME NEW r \in Requests,
             ClientSends(r) \/ ClientCancels(r) \/ WorkerAnswers(r) \/ QueuedDeadline(r)
      PROVE  AdoptActiveChild \/ UNCHANGED poolVars
  BY <1>1 DEF ClientSends, ClientCancels, WorkerAnswers, QueuedDeadline
<1>2. ASSUME ClientInitialized \/ WorkerSignalsReady \/ StdinBreaks \/ CleanupTimer
      PROVE  AdoptActiveChild \/ CleanupRetryTimerFires \/ UNCHANGED poolVars
  BY <1>2 DEF ClientInitialized, WorkerSignalsReady, StdinBreaks, CleanupTimer
<1>3. ASSUME NEW outcome \in TerminationOutcomes,
             \/ StartupTimesOut(outcome) \/ WorkerBreaks(outcome)
             \/ \E r \in Requests : WorkerRejectsInitialize(r, outcome)
      PROVE  \/ WatchdogFires(outcome) \/ WorkerFaults(outcome)
             \/ InitializeRejected(outcome)
  BY <1>3 DEF StartupTimesOut, WorkerBreaks, WorkerRejectsInitialize
<1>4. ASSUME NEW outcome \in TerminationOutcomes, NEW spawned \in SpawnOutcomes,
             NEW r \in Requests, RunningDeadline(r, outcome, spawned)
      PROVE  RecoverTimedOutWorker(outcome, spawned)
  BY <1>4 DEF RunningDeadline
<1>5. ASSUME NEW stoodDown \in BOOLEAN, WorkerCrashes(stoodDown)
      PROVE  CurrentWorkerExits(stoodDown)
  BY <1>5 DEF WorkerCrashes
<1>6. ASSUME NEW g \in Generations,
             ReplacedWorkerExits(g) \/ UnspawnedCloses(g) \/ StreamsClose(g)
      PROVE  TerminatedWorkerExits(g) \/ UnspawnedChildCloses(g) \/ UNCHANGED poolVars
  BY <1>6 DEF ReplacedWorkerExits, UnspawnedCloses, StreamsClose
<1>7. ASSUME NEW spawned \in SpawnOutcomes, RestartFires(spawned)
      PROVE  RestartTimerFires(spawned)
  BY <1>7 DEF RestartFires
<1>8. ASSUME NEW g \in Generations, NEW success \in BOOLEAN,
             TreeSettles(g, success) \/ TokenRetrySettles(g, success)
      PROVE  FinishTreeTermination(g, success) \/ FinishTokenRetry(g, success)
  BY <1>8 DEF TreeSettles, TokenRetrySettles
<1>9. ASSUME NEW outcome \in [liveChildren -> TerminationOutcomes], ShutsDown(outcome)
      PROVE  Shutdown(outcome)
  BY <1>9 DEF ShutsDown
<1> QED
  BY <1>1, <1>2, <1>3, <1>4, <1>5, <1>6, <1>7, <1>8, <1>9 DEF SupervisorNext, Next

(* A shutdown is for good. *)
LEMMA ShutdownStays ==
  ASSUME shuttingDown, SupervisorNext
  PROVE  shuttingDown'
<1>1. [Next]_poolVars
  BY SupervisorStep
<1>2. shuttingDown' = shuttingDown \/ \E outcome : Shutdown(outcome)
  BY <1>1 DEF Next, poolVars, AdoptActiveChild, WatchdogFires, InitializeRejected, StartupFails,
         WorkerFaults,
       RecoverTimedOutWorker, TerminatedWorkerExits, UnspawnedChildCloses, CurrentWorkerExits,
       RestartTimerFires, FinishTreeTermination, CleanupRetryTimerFires, FinishTokenRetry
<1> QED
  BY <1>2 DEF Shutdown

(* There is nothing to drain after the shutdown. *)
LEMMA QuietDrain ==
  ASSUME NEW st, st.queue = << >>
  PROVE  Drain(st) = st
BY DEF Drain, DrainStep

(* After the shutdown, only tombstones still go. *)
LEMMA LateStep ==
  ASSUME SupervisorTyped, ShutdownQuiet, shuttingDown, Quiet(s), SupervisorNext
  PROVE  UNCHANGED clientVars /\ s' \in {s} \cup {Purge(s, g) : g \in Generations}
<1>1. child = NoChild /\ ~restartTimer /\ Drain(s) = s
  BY QuietDrain DEF ShutdownQuiet, Quiet
<1>2. ASSUME NEW g
      PROVE  Drain(Purge(s, g)) = Purge(s, g)
  <2> DEFINE x == Purge(s, g)
  <2>1. PurgeEffect(s, x, g)
    BY PurgeFields DEF SupervisorTyped, Typed
  <2> HIDE DEF x
  <2>2. Drain(x) = x
    BY <2>1, QuietDrain DEF PurgeEffect, SameTracking, Quiet
  <2> QED
    BY <2>2 DEF x
<1>3. ~\E r \in Requests : \/ ClientSends(r) \/ ClientCancels(r)
                           \/ WorkerAnswers(r) \/ QueuedDeadline(r)
  BY <1>1 DEF ClientSends, ClientCancels, WorkerAnswers, QueuedDeadline, Quiet
<1>4. ~(ClientInitialized \/ WorkerSignalsReady \/ StdinBreaks)
  BY <1>1 DEF ClientInitialized, WorkerSignalsReady, StdinBreaks
<1>5. ASSUME NEW outcome \in TerminationOutcomes
      PROVE  ~(\/ StartupTimesOut(outcome) \/ WorkerBreaks(outcome)
               \/ \E r \in Requests : WorkerRejectsInitialize(r, outcome)
               \/ \E r \in Requests, spawned \in SpawnOutcomes :
                    RunningDeadline(r, outcome, spawned))
  BY <1>1 DEF StartupTimesOut, WatchdogFires, StartupFails, WorkerBreaks, WorkerFaults,
              WorkerRejectsInitialize, InitializeRejected, RunningDeadline, Quiet
<1>6. ~(\E stoodDown \in BOOLEAN : WorkerCrashes(stoodDown))
  BY <1>1 DEF WorkerCrashes, CurrentWorkerExits
<1>7. ~(\E outcome \in [liveChildren -> TerminationOutcomes] : ShutsDown(outcome))
  BY DEF ShutsDown, Shutdown
<1>8. CleanupTimer => s' = s
  BY DEF CleanupTimer
<1>9. ASSUME NEW g \in Generations,
             ReplacedWorkerExits(g) \/ UnspawnedCloses(g) \/ StreamsClose(g)
      PROVE s' \in {s, Purge(s, g)}
  BY <1>1, <1>2, <1>9 DEF ReplacedWorkerExits, UnspawnedCloses, StreamsClose
<1>10. ASSUME NEW g \in Generations, NEW success \in BOOLEAN,
              TreeSettles(g, success) \/ TokenRetrySettles(g, success)
       PROVE s' = s
  BY <1>1, <1>10 DEF TreeSettles, TokenRetrySettles
<1>11. ~(\E spawned \in SpawnOutcomes : RestartFires(spawned))
  BY <1>1 DEF RestartFires, RestartTimerFires
<1>12. UNCHANGED clientVars
  BY <1>3, ClientStep
<1> QED
  BY <1>3, <1>4, <1>5, <1>6, <1>7, <1>8, <1>9, <1>10, <1>11, <1>12 DEF SupervisorNext

(* Nothing but a shutdown sets the flag. *)
LEMMA ShutdownBegins ==
  ASSUME SupervisorNext, ~shuttingDown, shuttingDown'
  PROVE  \E outcome \in [liveChildren -> TerminationOutcomes] : ShutsDown(outcome)
<1>1. ASSUME NEW outcome \in TerminationOutcomes,
             \/ WatchdogFires(outcome) \/ WorkerFaults(outcome) \/ InitializeRejected(outcome)
             \/ \E spawned \in SpawnOutcomes : RecoverTimedOutWorker(outcome, spawned)
      PROVE  shuttingDown' = shuttingDown
  BY <1>1 DEF WatchdogFires, InitializeRejected, StartupFails, WorkerFaults, RecoverTimedOutWorker
<1>2. ASSUME NEW g \in Generations,
             \/ TerminatedWorkerExits(g) \/ UnspawnedChildCloses(g)
             \/ \E success \in BOOLEAN :
                  FinishTreeTermination(g, success) \/ FinishTokenRetry(g, success)
      PROVE  shuttingDown' = shuttingDown
  BY <1>2 DEF TerminatedWorkerExits, UnspawnedChildCloses, FinishTreeTermination,
              FinishTokenRetry
<1>3. AdoptActiveChild \/ CleanupRetryTimerFires \/ UNCHANGED poolVars
      \/ (\E stoodDown \in BOOLEAN : CurrentWorkerExits(stoodDown))
      \/ (\E spawned \in SpawnOutcomes : RestartTimerFires(spawned))
        => shuttingDown' = shuttingDown
  BY DEF AdoptActiveChild, CleanupRetryTimerFires, poolVars, CurrentWorkerExits, RestartTimerFires
<1> QED
  BY <1>1, <1>2, <1>3 DEF SupervisorNext, ClientSends, ClientCancels, WorkerAnswers,
         QueuedDeadline, ClientInitialized, StdinBreaks, CleanupTimer, WorkerSignalsReady,
         StartupTimesOut, WorkerBreaks, WorkerRejectsInitialize, RunningDeadline, WorkerCrashes,
         ReplacedWorkerExits, UnspawnedCloses, StreamsClose, RestartFires, TreeSettles,
         TokenRetrySettles

(* The shutdown drops every request, and none is kept after it. *)
LEMMA QuietStep ==
  ASSUME SupervisorTyped, ShutdownQuiet, shuttingDown => Quiet(s),
         SupervisorNext, shuttingDown'
  PROVE  Quiet(s')
<1>1. Typed(s, sent) /\ Is(s)
  BY DEF SupervisorTyped, Typed
<1>2. ASSUME NEW outcome \in [liveChildren -> TerminationOutcomes], ShutsDown(outcome)
      PROVE  Quiet(s')
  <2> DEFINE x == LoseWorker(s)
  <2>1. LoseEffect(s, x)
    BY <1>1, LoseFields
  <2> HIDE DEF x
  <2>2. Quiet([x EXCEPT !.pending = {}, !.queue = << >>, !.armed = {},
             !.tombstones = [id \in Ids |-> 0]])
    BY <2>1 DEF LoseEffect, Quiet, Is, StateFields
  <2> QED
    BY <1>2, <2>2 DEF ShutsDown, x
<1>3. ASSUME \A outcome \in [liveChildren -> TerminationOutcomes] : ~ShutsDown(outcome)
      PROVE  shuttingDown
  BY <1>3, ShutdownBegins
<1>4. ASSUME shuttingDown
      PROVE  Quiet(s')
  <2>1. s' \in {s} \cup {Purge(s, g) : g \in Generations}
    BY <1>4, LateStep
  <2>2. ASSUME NEW g
        PROVE  Quiet(Purge(s, g))
    <3> DEFINE x == Purge(s, g)
    <3>1. PurgeEffect(s, x, g)
      BY <1>1, PurgeFields
    <3> HIDE DEF x
    <3>2. Quiet(x)
      BY <1>4, <3>1 DEF PurgeEffect, SameTracking, SamePipes, Quiet
    <3> QED
      BY <3>2 DEF x
  <2> QED
    BY <1>4, <2>1, <2>2
<1> QED
  BY <1>2, <1>3, <1>4

(* The inductive invariant of the pool, and the types of the requests. *)
SupervisorInv == IInv /\ SupervisorTyped

(* The requests are sound until the shutdown, and nothing is kept after it. *)
Tracking == IF shuttingDown THEN Quiet(s) ELSE Sound(s, sent, cancelled, {})

(* The pool's invariant and the types hold whatever the client sends and
   however workers fail, for every set of requests and every outcome. *)
THEOREM SupervisorInvariant == SupervisorSpec => []SupervisorInv
<1>1. SupervisorInit => SupervisorInv
  BY InitEstablishes, SupervisorInitTyped DEF SupervisorInv, SupervisorInit
<1>2. SupervisorInv /\ [SupervisorNext]_vars => SupervisorInv'
  <2> SUFFICES ASSUME SupervisorInv, [SupervisorNext]_vars PROVE SupervisorInv'
    OBVIOUS
  <2>1. CASE SupervisorNext
    <3>1. [Next]_poolVars
      BY <2>1, SupervisorStep
    <3>2. IInv'
      BY <3>1, NextPreserves DEF SupervisorInv
    <3>3. SupervisorTyped'
      BY <2>1, <3>1, SupervisorNextTyped DEF SupervisorInv, IInv
    <3> QED
      BY <3>2, <3>3 DEF SupervisorInv
  <2>2. CASE UNCHANGED vars
    <3>1. IInv'
      BY <2>2, NextPreserves DEF SupervisorInv, vars
    <3>2. SupervisorTyped'
      BY <2>2 DEF SupervisorInv, SupervisorTyped, Typed, vars, poolVars, processVars
    <3> QED
      BY <3>1, <3>2 DEF SupervisorInv
  <2> QED
    BY <2>1, <2>2
<1> QED
  BY <1>1, <1>2, PTL DEF SupervisorSpec

(* The request state is well formed: in particular the queue never has more
   than two entries (MAX_SUPERVISOR_QUEUE) and pendingRequests one per id,
   whichever of the paths that fill them is taken (routeClientMessage,
   forwardRequest's fallback, handleWorkerReady). *)
THEOREM SupervisorTypeCorrect == SupervisorSpec => []SupervisorTypeOK
<1>1. SupervisorInv => SupervisorTypeOK
  <2> SUFFICES ASSUME SupervisorInv PROVE SupervisorTypeOK
    OBVIOUS
  <2>1. Typed(s, sent) /\ sent \subseteq Requests
    BY DEF SupervisorInv, SupervisorTyped
  <2>2. Queued(s) \subseteq Requests
    BY <2>1 DEF Queued, Typed
  <2> QED
    BY <2>1, <2>2 DEF SupervisorInv, SupervisorTyped, SupervisorTypeOK, Typed, Handshakes
<1> QED
  BY <1>1, SupervisorInvariant, PTL

(* What the supervisor keeps is exactly what the client still waits for, each
   request once, with its deadline and its barrier; nothing outlives the
   shutdown. Assumes only that no other request borrows the id of an
   initialize. *)
THEOREM TrackingInvariant ==
  ASSUME OwnHandshakeIds
  PROVE  SupervisorSpec => []Tracking
<1>1. SupervisorInit => Tracking
  <2> SUFFICES ASSUME SupervisorInit PROVE Tracking
    OBVIOUS
  <2>1. s = InitialState /\ sent = {} /\ cancelled = {} /\ ~shuttingDown
    BY DEF SupervisorInit, Init
  <2>2. Queued(s) = {} /\ Live(s, {}) = {} /\ Single(s.queue)
    BY <2>1 DEF Queued, Live, InitialState, Single
  <2> QED
    BY <2>1, <2>2 DEF Tracking, Sound, Tracks, OnePlace, OneId, Deadlines, SlotsHeld, InitialState
<1>2. SupervisorInv /\ Tracking /\ [SupervisorNext]_vars => Tracking'
  <2> SUFFICES ASSUME SupervisorInv, Tracking, [SupervisorNext]_vars PROVE Tracking'
    OBVIOUS
  <2>1. CASE SupervisorNext
    <3>1. workerGeneration \in Nat
      BY PoolAssumption DEF SupervisorInv, IInv, TypeOK, CountsOK, PoolAssumption
    <3>2. ~shuttingDown' => Sound(s', sent', cancelled', {})
      BY <2>1, <3>1, ShutdownStays, SoundStep DEF SupervisorInv, Tracking
    <3>3. shuttingDown' => Quiet(s')
      BY <2>1, QuietStep DEF SupervisorInv, IInv, Tracking
    <3> QED
      BY <3>2, <3>3 DEF Tracking
  <2>2. CASE UNCHANGED vars
    BY <2>2 DEF vars, poolVars, clientVars, Tracking, Sound, Tracks, OnePlace, OneId, Deadlines,
           SlotsHeld, Live, Queued, Quiet, processVars
  <2> QED
    BY <2>1, <2>2
<1> QED
  BY <1>1, <1>2, SupervisorInvariant, PTL DEF SupervisorSpec

(* What the run with real requests checks follows: no request gets lost
   between the queue, the worker and a reply; the barrier belongs to a live
   validate-project; deadlines are armed for exactly those that wait or run. *)
LEMMA TrackedBarrier ==
  SupervisorInv /\ Tracking => RequestsTracked /\ BarrierOwned /\ DeadlinesOwned
<1> SUFFICES ASSUME SupervisorInv, Tracking PROVE RequestsTracked /\ BarrierOwned /\ DeadlinesOwned
  OBVIOUS
<1>1. Typed(s, sent) /\ sent \subseteq Requests
  BY DEF SupervisorInv, SupervisorTyped
<1>2. Live(s, {}) = Queued(s) \cup s.pending
  BY DEF Live
<1>3. CASE shuttingDown
  <2>1. Queued(s) = {} /\ s.pending = {} /\ s.armed = {}
    BY <1>3 DEF Tracking, Quiet, Queued
  <2> QED
    BY <1>3, <2>1 DEF RequestsTracked, BarrierOwned, DeadlinesOwned
<1>4. CASE ~shuttingDown
  <2>1. Sound(s, sent, cancelled, {})
    BY <1>4 DEF Tracking
  <2>2. ASSUME NEW r \in sent, ~Initialize(r), ~Closed(r)
        PROVE  Tracked(r)
    <3>1. s.answers[r] = 0 /\ r \notin cancelled
      BY <1>1, <2>2 DEF Closed, Typed
    <3> QED
      BY <1>1, <1>2, <2>1, <2>2, <3>1 DEF Sound, Tracks, Tracked
  <2> QED
    BY <1>2, <1>4, <2>1, <2>2 DEF RequestsTracked, BarrierOwned, DeadlinesOwned, Sound, SlotsHeld,
           Deadlines
<1> QED
  BY <1>3, <1>4
=============================================================================
