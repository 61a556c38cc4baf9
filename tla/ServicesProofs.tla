--------------------------- MODULE ServicesProofs ---------------------------
(***************************************************************************)
(* Proofs about the components beside the supervisor: the execution gate,   *)
(* the batches, the decompiler, the mapping graphs and the files of         *)
(* versions, each of which has an inductive invariant of its own. A step is *)
(* one of a single component (ServicesNext), and leaves the others' alone.   *)
(***************************************************************************)
EXTENDS MCServices, FiniteSetTheorems, SequenceTheorems, TLAPS

(* No value twice in a sequence. *)
Distinct(q) == \A i, j \in DOMAIN q : q[i] = q[j] => i = j

(* A sequence without repetitions is as long as it has elements. *)
LEMMA DistinctCount ==
  ASSUME NEW S, NEW q \in Seq(S), Distinct(q)
  PROVE  IsFiniteSet(ToSet(q)) /\ Cardinality(ToSet(q)) = Len(q)
<1>1. Len(q) \in Nat /\ DOMAIN q = 1 .. Len(q) /\ q \in [1 .. Len(q) -> ToSet(q)]
  BY DEF ToSet
<1>2. q \in Bijection(1 .. Len(q), ToSet(q))
  BY <1>1 DEF Distinct, ToSet, Bijection, Injection, IsInjective, Surjection
<1>3. ExistsBijection(1 .. Len(q), ToSet(q))
  BY <1>2 DEF ExistsBijection
<1>4. IsFiniteSet(1 .. Len(q)) /\ Cardinality(1 .. Len(q)) = Len(q)
  BY <1>1, FS_Interval
<1> QED
  BY <1>3, <1>4, FS_Bijection

-----------------------------------------------------------------------------

(* The calls that run. *)
Running == {c \in GateCalls : gated[c] = "running"}

(* The gate, and no call in its queue twice (ToolExecutionGate). *)
GateInv == GateTypeOK /\ SlotsUsed /\ Distinct(queue)

(* They can be counted. *)
LEMMA RunningFinite == IsFiniteSet(Running) /\ Cardinality(Running) \in Nat
<1>1. Running \in SUBSET GateCalls
  BY DEF Running
<1> QED
  BY <1>1, GateAssumption, FS_Subset, FS_CardinalityType

(* The queue is a sequence of calls, and within its limit. *)
LEMMA QueueOfCalls ==
  ASSUME GateTypeOK
  PROVE  queue \in Seq(GateCalls) /\ Len(queue) \in 0 .. MaxQueue
<1>1. PICK m \in 0 .. MaxQueue : queue \in [1 .. m -> GateCalls]
  BY GateAssumption DEF GateTypeOK, SeqOf
<1> QED
  BY <1>1, GateAssumption

(* A call takes a free slot, waits, or is refused (ToolExecutionGate.run), *)
LEMMA RunKeeps ==
  ASSUME GateInv, NEW c \in GateCalls, RunGated(c)
  PROVE  GateInv'
<1>1. queue \in Seq(GateCalls) /\ Len(queue) \in 0 .. MaxQueue
  BY QueueOfCalls DEF GateInv
<1>2. IsFiniteSet(Running) /\ Cardinality(Running) \in Nat /\ activeCount = Cardinality(Running)
  BY RunningFinite DEF GateInv, SlotsUsed, Running
<1>3. CASE activeCount < MaxConcurrent /\ activeCount' = activeCount + 1
           /\ gated' = [gated EXCEPT ![c] = "running"] /\ UNCHANGED queue
  <2>1. Running' = Running \cup {c} /\ c \notin Running
    BY <1>3 DEF RunGated, GateInv, GateTypeOK, Running
  <2>2. Cardinality(Running') = activeCount'
    BY <2>1, <1>2, <1>3, FS_AddElement
  <2>3. queue = << >>
    BY <1>3, GateAssumption DEF GateInv, SlotsUsed
  <2>4. {d \in GateCalls : gated'[d] = "waiting"} = {d \in GateCalls : gated[d] = "waiting"}
    BY <1>3 DEF RunGated, GateInv, GateTypeOK
  <2>5. GateTypeOK'
    BY <1>3, GateAssumption DEF GateInv, GateTypeOK
  <2> QED
    BY <2>2, <2>3, <2>4, <2>5, <1>3 DEF GateInv, SlotsUsed, Running
<1>4. CASE activeCount >= MaxConcurrent /\ Len(queue) < MaxQueue /\ queue' = Append(queue, c)
           /\ gated' = [gated EXCEPT ![c] = "waiting"] /\ UNCHANGED activeCount
  <2>1. Running' = Running
    BY <1>4 DEF RunGated, GateInv, GateTypeOK, Running
  <2>2. {d \in GateCalls : gated'[d] = "waiting"}
          = {d \in GateCalls : gated[d] = "waiting"} \cup {c}
    BY <1>4 DEF GateInv, GateTypeOK
  <2>3. /\ DOMAIN queue' = 1 .. Len(queue) + 1 /\ queue' \in Seq(GateCalls)
        /\ Len(queue') = Len(queue) + 1 /\ DOMAIN queue = 1 .. Len(queue)
        /\ queue'[Len(queue) + 1] = c /\ \A i \in 1 .. Len(queue) : queue'[i] = queue[i]
    BY <1>1, <1>4
  <2>4. ToSet(queue') = ToSet(queue) \cup {c}
    BY <1>1, <2>3 DEF ToSet
  <2>5. c \notin ToSet(queue)
    BY <1>4 DEF RunGated, GateInv, SlotsUsed
  <2>6. Distinct(queue')
    BY <1>1, <2>3, <2>5 DEF GateInv, Distinct, ToSet
  <2>7. queue' \in SeqOf(GateCalls, MaxQueue)
    <3>1. Len(queue') \in 0 .. MaxQueue
      BY <1>1, <1>4, <2>3, GateAssumption
    <3>2. queue' \in [1 .. Len(queue') -> GateCalls]
      BY <2>3
    <3> QED
      BY <3>1, <3>2 DEF SeqOf
  <2>8. GateTypeOK'
    BY <1>4, <2>7 DEF GateInv, GateTypeOK
  <2>9. activeCount' = MaxConcurrent
    BY <1>4, GateAssumption DEF GateInv, GateTypeOK
  <2> QED
    BY <1>2, <1>4, <2>1, <2>2, <2>4, <2>6, <2>8, <2>9 DEF GateInv, SlotsUsed, Running
<1>5. CASE UNCHANGED gateVars
  BY <1>5 DEF gateVars, GateInv, GateTypeOK, SlotsUsed, Distinct
<1> QED
  BY <1>3, <1>4, <1>5 DEF RunGated

(* and when one is over its slot goes to the head of the queue, or is given up (settle). *)
LEMMA SettleKeeps ==
  ASSUME GateInv, NEW c \in GateCalls, SettleGated(c)
  PROVE  GateInv'
<1> DEFINE active == IF activeCount = 0 THEN 0 ELSE activeCount - 1
           n == Drained(active)
           started == SubSeq(queue, 1, n)
<1>1. queue \in Seq(GateCalls) /\ Len(queue) \in 0 .. MaxQueue
  BY QueueOfCalls DEF GateInv
<1>2. IsFiniteSet(Running) /\ Cardinality(Running) \in Nat /\ activeCount = Cardinality(Running)
      /\ c \in Running
  BY RunningFinite DEF GateInv, SlotsUsed, Running, SettleGated
<1>3. active = activeCount - 1 /\ active \in 0 .. MaxConcurrent - 1 /\ active \in Nat
  <2>1. activeCount # 0
    BY <1>2, FS_EmptySet
  <2> QED
    BY <2>1, GateAssumption DEF GateInv, GateTypeOK
<1>4. n \in 0 .. Len(queue) /\ n \in Nat /\ active + n \in 0 .. MaxConcurrent
      /\ (n < Len(queue) => active + n = MaxConcurrent)
  BY <1>1, <1>3, GateAssumption DEF Drained
<1>5. /\ activeCount' = active + n
      /\ queue' = SubSeq(queue, n + 1, Len(queue))
      /\ gated' = [d \in GateCalls |-> IF d = c THEN "outside"
                                       ELSE IF d \in ToSet(started) THEN "running" ELSE gated[d]]
  BY DEF SettleGated
<1> HIDE DEF n, active
<1>6. /\ queue' \in Seq(GateCalls) /\ Len(queue') = Len(queue) - n
      /\ DOMAIN queue' = 1 .. Len(queue) - n
      /\ \A i \in 1 .. Len(queue) - n : queue'[i] = queue[n + i]
  BY <1>1, <1>4, <1>5
<1>7. /\ started \in Seq(GateCalls) /\ Len(started) = n /\ DOMAIN started = 1 .. n
      /\ \A i \in 1 .. n : started[i] = queue[i]
  BY <1>1, <1>4
<1> HIDE DEF started
<1> DEFINE q == queue
<1>a. /\ q \in Seq(GateCalls) /\ Len(q) \in Nat /\ DOMAIN q = 1 .. Len(q)
      /\ \A i, j \in 1 .. Len(q) : q[i] = q[j] => i = j
  BY <1>1 DEF GateInv, Distinct
<1>8. Distinct(queue') /\ Distinct(started)
  <2>1. ASSUME NEW i \in 1 .. Len(q) - n, NEW j \in 1 .. Len(q) - n, queue'[i] = queue'[j]
        PROVE  i = j
    <3>1. n + i \in 1 .. Len(q) /\ n + j \in 1 .. Len(q)
      BY <1>a, <1>4
    <3> QED
      BY <1>a, <1>4, <1>6, <2>1, <3>1
  <2>2. ASSUME NEW i \in 1 .. n, NEW j \in 1 .. n, started[i] = started[j]
        PROVE  i = j
    <3>1. i \in 1 .. Len(q) /\ j \in 1 .. Len(q)
      BY <1>a, <1>4
    <3> QED
      BY <1>a, <1>7, <2>2, <3>1
  <2> QED
    BY <2>1, <2>2, <1>6, <1>7 DEF Distinct
<1>9. ToSet(queue') = ToSet(queue) \ ToSet(started) /\ ToSet(started) \subseteq ToSet(queue)
  <2>1. ToSet(started) \subseteq ToSet(queue)
    BY <1>1, <1>4, <1>7 DEF ToSet
  <2>2. ToSet(queue') \subseteq ToSet(queue) \ ToSet(started)
    <3>1. ASSUME NEW i \in 1 .. Len(q) - n
          PROVE  queue'[i] \in ToSet(queue) \ ToSet(started)
      <4>1. n + i \in 1 .. Len(q) /\ queue'[i] = q[n + i]
        BY <1>a, <1>4, <1>6
      <4>2. ASSUME NEW j \in 1 .. n PROVE started[j] # q[n + i]
        BY <1>a, <1>4, <1>7, <4>1
      <4> QED
        BY <1>a, <1>7, <4>1, <4>2 DEF ToSet
    <3> QED
      BY <3>1, <1>6 DEF ToSet
  <2>3. ASSUME NEW i \in DOMAIN queue, queue[i] \notin ToSet(started)
        PROVE  queue[i] \in ToSet(queue')
    <3>1. i > n /\ i - n \in 1 .. Len(queue) - n
      BY <1>1, <1>4, <1>7, <2>3 DEF ToSet
    <3> QED
      BY <1>1, <1>4, <1>6, <3>1 DEF ToSet
  <2> QED
    BY <2>1, <2>2, <2>3 DEF ToSet
<1>10. /\ \A d \in ToSet(queue) : d \in GateCalls /\ gated[d] = "waiting"
       /\ c \notin ToSet(queue) /\ Running \cap ToSet(started) = {}
  BY <1>2, <1>9 DEF GateInv, SlotsUsed, Running
<1>11. Running' = (Running \ {c}) \cup ToSet(started)
  BY <1>5, <1>9, <1>10 DEF GateInv, GateTypeOK, Running
<1>12. Cardinality(Running') = active + n
  <2>1. IsFiniteSet(Running \ {c}) /\ Cardinality(Running \ {c}) = active
    BY <1>2, <1>3, FS_RemoveElement
  <2>2. IsFiniteSet(ToSet(started)) /\ Cardinality(ToSet(started)) = n
    BY <1>7, <1>8, DistinctCount
  <2>3. (Running \ {c}) \cap ToSet(started) = {}
    BY <1>10
  <2>4. Cardinality((Running \ {c}) \cap ToSet(started)) = 0
    BY <2>3, FS_EmptySet
  <2>5. Cardinality(Running') = active + n - 0
    BY <2>1, <2>2, <2>4, <1>11, FS_Union
  <2> QED
    BY <2>5, <1>3, <1>4
<1>13. {d \in GateCalls : gated'[d] = "waiting"} = ToSet(queue')
  BY <1>2, <1>5, <1>9, <1>10 DEF GateInv, SlotsUsed, Running
<1>14. GateTypeOK'
  <2>1. Len(queue') \in 0 .. MaxQueue /\ queue' \in [1 .. Len(queue') -> GateCalls]
    BY <1>1, <1>4, <1>6, GateAssumption
  <2>2. queue' \in SeqOf(GateCalls, MaxQueue)
    BY <2>1 DEF SeqOf
  <2>3. gated' \in [GateCalls -> {"outside", "waiting", "running"}]
    BY <1>5 DEF GateInv, GateTypeOK
  <2> QED
    BY <2>2, <2>3, <1>4, <1>5 DEF GateTypeOK
<1>15. queue' # << >> => activeCount' = MaxConcurrent
  BY <1>4, <1>5, <1>6
<1> QED
  BY <1>5, <1>8, <1>12, <1>13, <1>14, <1>15 DEF GateInv, SlotsUsed, Running

(* No other component touches the gate. *)
LEMMA GateKeeps ==
  ASSUME GateInv, [ServicesNext]_serviceVars
  PROVE  GateInv'
<1>1. CASE UNCHANGED gateVars
  BY <1>1 DEF gateVars, GateInv, GateTypeOK, SlotsUsed, Distinct
<1>2. CASE GateNext
  BY <1>2, RunKeeps, SettleKeeps DEF GateNext
<1> QED
  BY <1>1, <1>2 DEF ServicesNext, Others, serviceVars

(* It starts with all its slots. *)
LEMMA GateStarts == ServicesInit => GateInv
<1> SUFFICES ASSUME ServicesInit PROVE GateInv
  OBVIOUS
<1>1. /\ activeCount = 0 /\ queue = << >> /\ gated = [c \in GateCalls |-> "outside"]
  BY DEF ServicesInit, GateInit
<1>2. Running = {} /\ Cardinality(Running) = 0
  BY <1>1, FS_EmptySet DEF Running
<1>3. queue \in SeqOf(GateCalls, MaxQueue)
  <2>1. 0 \in 0 .. MaxQueue /\ queue \in [1 .. 0 -> GateCalls]
    BY <1>1, GateAssumption
  <2> QED
    BY <2>1 DEF SeqOf
<1>4. ToSet(queue) = {c \in GateCalls : gated[c] = "waiting"}
  BY <1>1 DEF ToSet
<1> QED
  BY <1>1, <1>2, <1>3, <1>4, GateAssumption
     DEF GateInv, GateTypeOK, SlotsUsed, Distinct, Running

-----------------------------------------------------------------------------

(* What an entry's place may hold. *)
Results == {"none", "aborted", "not found", "answered", "fails"}

(* The lanes of a batch: those that work hold entries already taken, each its own and not
   answered yet; what was taken and is in no lane is answered, and the rest is not. *)
LanesRight ==
  /\ DOMAIN progress.results = 1 .. Total /\ progress.results \in [1 .. Total -> Results]
  /\ progress.lanes \in [1 .. batch.concurrency -> 0 .. Total]
  /\ \A l \in DOMAIN progress.lanes :
       progress.lanes[l] # 0 =>
         /\ progress.lanes[l] < progress.next /\ progress.results[progress.lanes[l]] = "none"
         /\ progress.lanes[l] \notin progress.unbegun
         /\ \A m \in DOMAIN progress.lanes : progress.lanes[m] = progress.lanes[l] => m = l
  /\ \A i \in 1 .. Total :
       progress.results[i] = "none" <=>
         i >= progress.next \/ \E l \in DOMAIN progress.lanes : progress.lanes[l] = i

(* Once a batch aborts: an entry before those not begun then has failed, and these are the end
   of the batch. *)
AbortRight ==
  /\ progress.abort =>
       /\ batch.failFast
       /\ \E n \in 1 .. progress.next :
            /\ progress.unbegun = n .. Total
            /\ \E j \in 1 .. n - 1 : progress.results[j] \in {"fails", "not found"}
  /\ ~progress.abort => progress.unbegun = {}

(* The fields of a batch's progress. *)
ProgressTyped ==
  /\ progress.pc \in {"asked", "threw", "running", "done"}
  /\ progress = [pc |-> progress.pc, next |-> progress.next, lanes |-> progress.lanes,
                 abort |-> progress.abort, results |-> progress.results,
                 unbegun |-> progress.unbegun]
  /\ progress.abort \in BOOLEAN

(* A batch at every stage of runBatch: before it has begun there is nothing, while it runs the
   lanes are right and so is an abort, and once it is over each entry has its answer. *)
BatchInv ==
  /\ ProgressTyped
  /\ progress.pc \in {"asked", "threw"} => progress.results = << >>
  /\ progress.pc = "asked" => progress = NoBatch
  /\ progress.pc \in {"running", "done"} =>
       /\ batch \in Batch /\ progress.next \in 1 .. Total + 1
       /\ LanesRight /\ AbortRight
       /\ BatchRight
  /\ progress.pc = "done" => progress.next > Total
                             /\ \A l \in DOMAIN progress.lanes : progress.lanes[l] = 0

(* What a batch that may be asked has. *)
LEMMA BatchFacts ==
  ASSUME batch \in Batch
  PROVE  /\ Total \in Nat /\ batch.failFast \in BOOLEAN /\ batch.concurrency \in Nat
         /\ \A i \in 1 .. Total : batch.entries[i] \in {"answered", "fails"}
<1>1. /\ batch.entries \in Seq({"answered", "fails"})
      /\ batch.failFast \in BOOLEAN /\ batch.concurrency \in Nat
  BY DEF Batch
<1> DEFINE e == batch.entries
<1>2. e \in Seq({"answered", "fails"})
  BY <1>1
<1> HIDE DEF e
<1>3. Len(e) \in Nat /\ \A i \in 1 .. Len(e) : e[i] \in {"answered", "fails"}
  BY <1>2
<1> QED
  BY <1>1, <1>3 DEF e, Total

(* A batch begins with free lanes and no results. *)
LEMMA StartKeeps ==
  ASSUME BatchInv, batch \in Batch, Start
  PROVE  BatchInv'
<1>1. progress = NoBatch /\ batch' = batch
  BY DEF BatchInv, Start
<1>2. CASE Refuses
  <2>1. progress' = [pc |-> "threw", next |-> 1, lanes |-> << >>, abort |-> FALSE,
                     results |-> << >>, unbegun |-> {}]
    BY <1>1, <1>2 DEF NoBatch, Start
  <2> QED
    BY <2>1 DEF BatchInv, ProgressTyped
<1>3. CASE ~Refuses
  <2> DEFINE free == [l \in 1 .. batch.concurrency |-> 0]
  <2> HIDE DEF free
  <2>1. progress' = [pc |-> "running", next |-> 1, lanes |-> free,
                     abort |-> FALSE, results |-> Blank, unbegun |-> {}]
    BY <1>1, <1>3 DEF NoBatch, free, Start
  <2>2. Total' = Total /\ Total \in Nat /\ batch.concurrency \in Nat
    BY <1>1, BatchFacts DEF Total
  <2>b. /\ progress'.results = Blank /\ progress'.next = 1 /\ progress'.lanes = free
        /\ progress'.abort = FALSE /\ progress'.unbegun = {} /\ progress'.pc = "running"
    BY <2>1
  <2>a. /\ progress'.results = [i \in 1 .. Total |-> "none"] /\ progress'.next = 1
        /\ progress'.lanes = [l \in 1 .. batch.concurrency |-> 0]
        /\ progress'.abort = FALSE /\ progress'.unbegun = {} /\ progress'.pc = "running"
    BY <2>b DEF Blank, free
  <2>3. LanesRight'
    <3>1. DOMAIN progress'.results = 1 .. Total /\ progress'.results \in [1 .. Total -> Results]
      BY <2>a DEF Results
    <3>2. progress'.lanes \in [1 .. batch.concurrency -> 0 .. Total]
      BY <2>a, <2>2
    <3>3. \A l \in DOMAIN progress'.lanes : progress'.lanes[l] = 0
      BY <2>a
    <3>4. \A i \in 1 .. Total : progress'.results[i] = "none" /\ i >= progress'.next
      BY <2>a, <2>2
    <3> QED
      BY <1>1, <2>2, <3>1, <3>2, <3>3, <3>4 DEF LanesRight
  <2>4. AbortRight'
    BY <1>1, <2>a DEF AbortRight
  <2>5. EachAnswered'
    BY <1>1, <2>1, <2>a, <2>2 DEF EachAnswered
  <2>6. AbortsAtTheEnd'
    BY <1>1, <2>a, <2>2 DEF AbortsAtTheEnd
  <2> QED
    BY <1>1, <2>1, <2>2, <2>3, <2>4, <2>5, <2>6 DEF BatchInv, ProgressTyped, BatchRight
<1> QED
  BY <1>2, <1>3

(* An entry is over: its result has its place, which was empty. *)
LEMMA PlacedEffect ==
  ASSUME progress.results \in [1 .. Total -> Results], NEW i \in 1 .. Total, NEW r \in Results
  PROVE  /\ Placed(progress.results, i, r) \in [1 .. Total -> Results]
         /\ Placed(progress.results, i, r)[i] = r
         /\ \A j \in 1 .. Total : j # i =>
              Placed(progress.results, i, r)[j] = progress.results[j]
  BY DEF Placed

(* The end of 1 .. T from n on holds the ends of those in it. *)
LEMMA EndOf ==
  ASSUME NEW T \in Nat, NEW n \in Nat, NEW i \in 1 .. T, i \in n .. T
  PROVE  /\ \A k \in i .. T : k \in n .. T /\ k \in 1 .. T
         /\ \A j \in 1 .. n - 1 : j \in 1 .. i - 1
  OBVIOUS

(* A step of a lane leaves the batch, and is right if what is aborted is what was not begun. *)
LEMMA StepsRight ==
  ASSUME BatchInv, batch' = batch, progress.pc = "running", progress'.pc = "running",
         ProgressTyped', progress'.next \in 1 .. Total + 1, LanesRight', AbortRight',
         EachAnswered',
         \A i \in 1 .. Total : /\ progress'.results[i] = "aborted" => i \in progress'.unbegun
                               /\ i \in progress'.unbegun =>
                                    progress'.results[i] \in {"aborted", "none"}
  PROVE  BatchInv'
<1>1. batch \in Batch /\ Total' = Total /\ Total \in Nat
  BY BatchFacts DEF BatchInv, Total
<1> DEFINE p == progress'
<1>2. DOMAIN p.results = 1 .. Total
  BY <1>1 DEF LanesRight
<1>3. ASSUME NEW i \in 1 .. Total, p.results[i] = "aborted"
      PROVE  /\ batch.failFast /\ i \in p.unbegun
             /\ \E j \in 1 .. i - 1 : p.results[j] \in {"fails", "not found"}
             /\ \A j \in i .. Total : p.results[j] \in {"aborted", "none"}
  <2>1. p.abort /\ i \in p.unbegun
    BY <1>3 DEF AbortRight
  <2>2. PICK n \in 1 .. p.next :
          /\ p.unbegun = n .. Total
          /\ \E j \in 1 .. n - 1 : p.results[j] \in {"fails", "not found"}
    BY <2>1, <1>1 DEF AbortRight
  <2>3. p.next \in Nat /\ i \in Nat
    BY <1>1
  <2>4. n \in Nat
    BY <2>3
  <2>5. i \in n .. Total
    BY <2>1, <2>2
  <2>6. /\ \A k \in i .. Total : k \in n .. Total /\ k \in 1 .. Total
        /\ \A j \in 1 .. n - 1 : j \in 1 .. i - 1
    BY <1>1, <2>4, <2>5, EndOf
  <2>7. PICK j \in 1 .. n - 1 : p.results[j] \in {"fails", "not found"}
    BY <2>2
  <2>8. j \in 1 .. i - 1
    BY <2>6
  <2>9. batch.failFast
    BY <2>1, <1>1 DEF AbortRight
  <2>10. \A k \in i .. Total : p.results[k] \in {"aborted", "none"}
    BY <2>2, <2>6
  <2> QED
    BY <2>1, <2>7, <2>8, <2>9, <2>10
<1>4. AbortsAtTheEnd'
  BY <1>1, <1>2, <1>3 DEF AbortsAtTheEnd
<1> QED
  BY <1>1, <1>4 DEF BatchInv, BatchRight

(* What BatchInv says of a batch that runs. *)
LEMMA RunningBatch ==
  ASSUME BatchInv, progress.pc = "running"
  PROVE  /\ batch \in Batch /\ Total \in Nat /\ progress.next \in 1 .. Total + 1
         /\ progress.next \in Nat
         /\ LanesRight /\ AbortRight /\ EachAnswered /\ ProgressTyped
         /\ \A i \in 1 .. Total : /\ progress.results[i] = "aborted" => i \in progress.unbegun
                                  /\ i \in progress.unbegun =>
                                       progress.results[i] \in {"aborted", "none"}
<1>1. /\ batch \in Batch /\ Total \in Nat /\ progress.next \in 1 .. Total + 1
      /\ LanesRight /\ AbortRight /\ EachAnswered /\ AbortsAtTheEnd /\ ProgressTyped
  BY BatchFacts DEF BatchInv, BatchRight
<1>2. progress.next \in Nat
  BY <1>1
<1>3. DOMAIN progress.results = 1 .. Total
  BY <1>1 DEF LanesRight
<1> QED
  BY <1>1, <1>2, <1>3 DEF AbortsAtTheEnd

(* An aborted batch answers the next entry at once, *)
LEMMA SkipKeeps ==
  ASSUME BatchInv, NEW l \in DOMAIN progress.lanes, TakeEntry(l), Skips
  PROVE  BatchInv'
<1> DEFINE i == progress.next
           r == Placed(progress.results, i, "aborted")
<1>1. /\ batch \in Batch /\ Total \in Nat /\ progress.next \in 1 .. Total + 1
      /\ progress.next \in Nat
      /\ LanesRight /\ AbortRight /\ EachAnswered /\ ProgressTyped
      /\ \A j \in 1 .. Total : /\ progress.results[j] = "aborted" => j \in progress.unbegun
                               /\ j \in progress.unbegun =>
                                    progress.results[j] \in {"aborted", "none"}
  BY RunningBatch DEF TakeEntry
<1>2. progress.pc = "running" /\ i \in 1 .. Total /\ batch' = batch /\ Total' = Total
  BY <1>1 DEF TakeEntry, Total
<1>a. Total \in Nat /\ i \in Nat /\ i \in 1 .. Total
  BY <1>1, <1>2
<1>3. progress' = [pc |-> progress.pc, next |-> i + 1, lanes |-> progress.lanes,
                   abort |-> progress.abort, results |-> r, unbegun |-> progress.unbegun]
  BY <1>1 DEF TakeEntry, EntryOver, ProgressTyped
<1>4. /\ r \in [1 .. Total -> Results] /\ r[i] = "aborted"
      /\ \A j \in 1 .. Total : j # i => r[j] = progress.results[j]
  BY <1>1, <1>2, PlacedEffect DEF LanesRight, Results
<1> HIDE DEF r
<1>5. /\ progress'.pc = "running" /\ progress'.next = i + 1 /\ progress'.lanes = progress.lanes
      /\ progress'.abort = progress.abort /\ progress'.results = r
      /\ progress'.unbegun = progress.unbegun
  BY <1>2, <1>3
<1>6. progress.results[i] = "none" /\ \A m \in DOMAIN progress.lanes : progress.lanes[m] # i
  BY <1>1, <1>2 DEF LanesRight
<1>7. i \in progress.unbegun
  <2>1. PICK n \in 1 .. progress.next : progress.unbegun = n .. Total
    BY <1>1 DEF AbortRight, Skips
  <2>2. n \in Nat /\ n <= i
    BY <1>1
  <2>3. i \in n .. Total
    BY <1>1, <1>2, <2>2
  <2> QED
    BY <2>1, <2>3
<1>8. LanesRight'
  <2>1. DOMAIN r = 1 .. Total
    BY <1>4
  <2>2. \A m \in DOMAIN progress.lanes : progress.lanes[m] # 0 =>
           /\ progress.lanes[m] \in 1 .. Total /\ progress.lanes[m] < i + 1
           /\ r[progress.lanes[m]] = "none"
    <3>1. SUFFICES ASSUME NEW m \in DOMAIN progress.lanes, progress.lanes[m] # 0
                   PROVE  /\ progress.lanes[m] \in 1 .. Total /\ progress.lanes[m] < i + 1
                          /\ r[progress.lanes[m]] = "none"
      OBVIOUS
    <3>2. /\ progress.lanes[m] \in 0 .. Total /\ progress.lanes[m] < i
          /\ progress.results[progress.lanes[m]] = "none"
      BY <1>1, <3>1 DEF LanesRight
    <3>3. progress.lanes[m] \in 1 .. Total /\ progress.lanes[m] # i
      BY <1>a, <3>1, <3>2
    <3> QED
      BY <1>a, <1>4, <3>2, <3>3
  <2>3. \A j \in 1 .. Total : r[j] = "none" <=>
           j >= i + 1 \/ \E m \in DOMAIN progress.lanes : progress.lanes[m] = j
    <3>1. SUFFICES ASSUME NEW j \in 1 .. Total
                   PROVE  r[j] = "none" <=>
                            j >= i + 1 \/ \E m \in DOMAIN progress.lanes : progress.lanes[m] = j
      OBVIOUS
    <3>2. CASE j = i
      BY <3>2, <1>1, <1>4, <1>6
    <3>3. CASE j # i
      BY <3>3, <1>1, <1>4 DEF LanesRight
    <3> QED
      BY <3>2, <3>3
  <2> QED
    BY <1>1, <1>2, <1>4, <1>5, <2>1, <2>2, <2>3 DEF LanesRight
<1>9. AbortRight'
  <2>1. PICK n \in 1 .. progress.next :
          /\ progress.unbegun = n .. Total
          /\ \E j \in 1 .. n - 1 : progress.results[j] \in {"fails", "not found"}
    BY <1>1 DEF AbortRight, Skips
  <2>2. PICK j \in 1 .. n - 1 : progress.results[j] \in {"fails", "not found"}
    BY <2>1
  <2>3. n \in Nat /\ n <= i
    BY <1>1
  <2>4. j \in 1 .. Total /\ j # i /\ n \in 1 .. i + 1
    BY <2>3, <1>a
  <2>5. r[j] \in {"fails", "not found"}
    BY <2>2, <2>4, <1>4
  <2> QED
    BY <1>1, <1>2, <1>5, <2>1, <2>4, <2>5 DEF AbortRight, Skips
<1>10. EachAnswered'
  <2>1. ASSUME NEW j \in 1 .. Total
        PROVE  /\ r[j] \in {"answered", "fails"} => r[j] = batch.entries[j]
               /\ r[j] = "not found" => ReadsArtifact
    BY <1>1, <1>2, <1>4, <2>1 DEF EachAnswered
  <2>2. ReadsArtifact' = ReadsArtifact
    BY <1>2 DEF ReadsArtifact
  <2> QED
    BY <1>2, <1>5, <2>1, <2>2 DEF EachAnswered
<1>11. ProgressTyped'
  BY <1>1, <1>2, <1>3, <1>5 DEF ProgressTyped
<1>12. \A j \in 1 .. Total : /\ progress'.results[j] = "aborted" => j \in progress'.unbegun
                             /\ j \in progress'.unbegun =>
                                  progress'.results[j] \in {"aborted", "none"}
  BY <1>1, <1>4, <1>5, <1>7
<1>13. progress'.next \in 1 .. Total + 1
  BY <1>1, <1>2, <1>5
<1> QED
  BY <1>2, <1>5, <1>8, <1>9, <1>10, <1>11, <1>12, <1>13, StepsRight

(* otherwise a free lane takes it, *)
LEMMA TakeKeeps ==
  ASSUME BatchInv, NEW l \in DOMAIN progress.lanes, TakeEntry(l), ~Skips
  PROVE  BatchInv'
<1> DEFINE i == progress.next
           lanes == [progress.lanes EXCEPT ![l] = i]
<1>1. /\ batch \in Batch /\ Total \in Nat /\ progress.next \in 1 .. Total + 1
      /\ progress.next \in Nat
      /\ LanesRight /\ AbortRight /\ EachAnswered /\ ProgressTyped
      /\ \A j \in 1 .. Total : /\ progress.results[j] = "aborted" => j \in progress.unbegun
                               /\ j \in progress.unbegun =>
                                    progress.results[j] \in {"aborted", "none"}
  BY RunningBatch DEF TakeEntry
<1>2. /\ progress.pc = "running" /\ i \in 1 .. Total /\ batch' = batch /\ Total' = Total
      /\ progress.lanes[l] = 0
  BY <1>1 DEF TakeEntry, Total
<1>a. Total \in Nat /\ i \in Nat /\ i \in 1 .. Total /\ i + 1 \in 1 .. Total + 1
  BY <1>1, <1>2
<1>3. progress' = [pc |-> progress.pc, next |-> i + 1, lanes |-> lanes,
                   abort |-> progress.abort, results |-> progress.results,
                   unbegun |-> progress.unbegun]
  BY <1>1 DEF TakeEntry, ProgressTyped
<1>b. progress.lanes \in [1 .. batch.concurrency -> 0 .. Total] /\ i \in 0 .. Total
  BY <1>1, <1>a DEF LanesRight
<1>4. /\ lanes \in [1 .. batch.concurrency -> 0 .. Total] /\ DOMAIN lanes = DOMAIN progress.lanes
      /\ lanes[l] = i /\ \A m \in DOMAIN progress.lanes : m # l => lanes[m] = progress.lanes[m]
  BY <1>b
<1> HIDE DEF lanes
<1>5. /\ progress'.pc = "running" /\ progress'.next = i + 1 /\ progress'.lanes = lanes
      /\ progress'.abort = progress.abort /\ progress'.results = progress.results
      /\ progress'.unbegun = progress.unbegun
  BY <1>2, <1>3
<1>6. progress.results[i] = "none" /\ \A m \in DOMAIN progress.lanes : progress.lanes[m] # i
  BY <1>1, <1>2 DEF LanesRight
<1>7. progress.unbegun = {}
  BY <1>1 DEF AbortRight, Skips
<1>8. LanesRight'
  <2>1. ASSUME NEW m \in DOMAIN lanes, lanes[m] # 0
        PROVE  /\ lanes[m] < i + 1 /\ progress.results[lanes[m]] = "none"
               /\ \A k \in DOMAIN lanes : lanes[k] = lanes[m] => k = m
    <3>1. CASE m = l
      BY <3>1, <1>a, <1>4, <1>6
    <3>2. CASE m # l
      <4>1. lanes[m] = progress.lanes[m] /\ lanes[m] < i /\ progress.results[lanes[m]] = "none"
            /\ lanes[m] \in 0 .. Total /\ m \in DOMAIN progress.lanes
        BY <3>2, <2>1, <1>1, <1>4 DEF LanesRight
      <4>2. \A k \in DOMAIN progress.lanes : progress.lanes[k] = lanes[m] => k = m
        BY <4>1, <2>1, <1>1 DEF LanesRight
      <4>3. lanes[m] < i + 1 /\ lanes[m] # i
        BY <4>1, <1>a
      <4> QED
        BY <4>1, <4>2, <4>3, <1>4
    <3> QED
      BY <3>1, <3>2
  <2>2. ASSUME NEW j \in 1 .. Total
        PROVE  progress.results[j] = "none" <=>
                 j >= i + 1 \/ \E m \in DOMAIN lanes : lanes[m] = j
    <3>1. CASE j = i
      BY <3>1, <1>4, <1>6
    <3>2. CASE j # i
      <4>1. j >= i + 1 <=> j >= i
        BY <3>2, <1>a
      <4>2. (\E m \in DOMAIN lanes : lanes[m] = j)
              <=> \E m \in DOMAIN progress.lanes : progress.lanes[m] = j
        <5>1. j # 0
          OBVIOUS
        <5>2. ASSUME NEW m \in DOMAIN lanes, lanes[m] = j
              PROVE  progress.lanes[m] = j
          BY <5>2, <3>2, <1>4
        <5>3. ASSUME NEW m \in DOMAIN progress.lanes, progress.lanes[m] = j
              PROVE  lanes[m] = j
          BY <5>1, <5>3, <1>2, <1>4
        <5> QED
          BY <5>2, <5>3, <1>4
      <4>3. progress.results[j] = "none" <=>
              j >= i \/ \E m \in DOMAIN progress.lanes : progress.lanes[m] = j
        BY <1>1 DEF LanesRight
      <4> QED
        BY <4>1, <4>2, <4>3
    <3> QED
      BY <3>1, <3>2
  <2>3. \A m \in DOMAIN lanes : lanes[m] \notin progress.unbegun
    BY <1>7
  <2>4. DOMAIN progress.results = 1 .. Total /\ progress.results \in [1 .. Total -> Results]
    BY <1>1 DEF LanesRight
  <2> DEFINE p == progress'
  <2>5. \A m \in DOMAIN p.lanes : p.lanes[m] # 0 =>
          /\ p.lanes[m] < p.next /\ p.results[p.lanes[m]] = "none"
          /\ p.lanes[m] \notin p.unbegun
          /\ \A k \in DOMAIN p.lanes : p.lanes[k] = p.lanes[m] => k = m
    BY <1>5, <2>1, <2>3
  <2>6. \A j \in 1 .. Total : p.results[j] = "none" <=>
          j >= p.next \/ \E m \in DOMAIN p.lanes : p.lanes[m] = j
    BY <1>5, <2>2
  <2>7. /\ DOMAIN p.results = 1 .. Total /\ p.results \in [1 .. Total -> Results]
        /\ p.lanes \in [1 .. batch.concurrency -> 0 .. Total]
    BY <1>4, <1>5, <2>4
  <2> HIDE DEF p
  <2>8. p = progress'
    BY DEF p
  <2> QED
    BY <1>2, <2>5, <2>6, <2>7, <2>8 DEF LanesRight
<1>9. AbortRight'
  BY <1>1, <1>5, <1>7 DEF AbortRight, Skips
<1>10. EachAnswered'
  BY <1>1, <1>2, <1>5 DEF EachAnswered, ReadsArtifact
<1>11. ProgressTyped'
  BY <1>1, <1>2, <1>3, <1>5 DEF ProgressTyped
<1>12. \A j \in 1 .. Total : /\ progress'.results[j] = "aborted" => j \in progress'.unbegun
                             /\ j \in progress'.unbegun =>
                                  progress'.results[j] \in {"aborted", "none"}
  BY <1>1, <1>5
<1>13. progress'.next \in 1 .. Total + 1
  BY <1>a, <1>5
<1> QED
  BY <1>2, <1>5, <1>8, <1>9, <1>10, <1>11, <1>12, <1>13, StepsRight

(* and answers it when its call is over, which may begin the abort. *)
LEMMA FinishKeeps ==
  ASSUME BatchInv, NEW l \in DOMAIN progress.lanes, FinishEntry(l)
  PROVE  BatchInv'
<1> DEFINE i == progress.lanes[l]
           result == ResultOf(i)
           r == Placed(progress.results, i, result)
           lanes == [progress.lanes EXCEPT ![l] = 0]
           begins == result # "answered" /\ batch.failFast
           unbegun == IF begins /\ ~progress.abort THEN progress.next .. Total
                      ELSE progress.unbegun
<1>1. /\ batch \in Batch /\ Total \in Nat /\ progress.next \in 1 .. Total + 1
      /\ progress.next \in Nat
      /\ LanesRight /\ AbortRight /\ EachAnswered /\ ProgressTyped
      /\ \A j \in 1 .. Total : /\ progress.results[j] = "aborted" => j \in progress.unbegun
                               /\ j \in progress.unbegun =>
                                    progress.results[j] \in {"aborted", "none"}
  BY RunningBatch DEF FinishEntry
<1>2. /\ progress.pc = "running" /\ i # 0 /\ batch' = batch /\ Total' = Total
  BY <1>1 DEF FinishEntry, Total
<1>3. /\ i \in 0 .. Total /\ i < progress.next /\ progress.results[i] = "none"
      /\ i \notin progress.unbegun
      /\ \A m \in DOMAIN progress.lanes : progress.lanes[m] = i => m = l
  BY <1>1, <1>2 DEF LanesRight
<1>a. Total \in Nat /\ i \in Nat /\ i \in 1 .. Total /\ progress.next \in Nat
      /\ progress.next \in 1 .. Total + 1 /\ i \in 1 .. progress.next - 1
  BY <1>1, <1>2, <1>3
<1>c. /\ ~(i >= progress.next) /\ i \in 1 .. progress.next - 1
      /\ progress.next \in 1 .. progress.next
  BY <1>a
<1>4. result \in {"answered", "fails", "not found"} /\ result \in Results
      /\ (result \in {"answered", "fails"} => result = batch.entries[i])
      /\ (result = "not found" => ReadsArtifact)
  BY <1>1, <1>a, BatchFacts DEF ResultOf, Results
<1> HIDE DEF result
<1>5. progress' = [pc |-> progress.pc, next |-> progress.next, lanes |-> lanes,
                   abort |-> progress.abort \/ begins, results |-> r, unbegun |-> unbegun]
  BY <1>1 DEF FinishEntry, EntryOver, ProgressTyped, result
<1>b. /\ progress.lanes \in [1 .. batch.concurrency -> 0 .. Total] /\ 0 \in 0 .. Total
      /\ progress.results \in [1 .. Total -> Results]
  BY <1>1, <1>a DEF LanesRight
<1>6. /\ r \in [1 .. Total -> Results] /\ r[i] = result
      /\ \A j \in 1 .. Total : j # i => r[j] = progress.results[j]
  BY <1>b, <1>a, <1>4, PlacedEffect
<1>7. /\ lanes \in [1 .. batch.concurrency -> 0 .. Total] /\ DOMAIN lanes = DOMAIN progress.lanes
      /\ lanes[l] = 0 /\ \A m \in DOMAIN progress.lanes : m # l => lanes[m] = progress.lanes[m]
  BY <1>b
<1>8. begins \in BOOLEAN /\ progress.abort \in BOOLEAN
  BY <1>1, BatchFacts DEF ProgressTyped
<1>9. i \notin unbegun
  BY <1>3, <1>a
<1>10. /\ begins /\ ~progress.abort => unbegun = progress.next .. Total
       /\ ~(begins /\ ~progress.abort) => unbegun = progress.unbegun
  OBVIOUS
<1> HIDE DEF r, lanes, unbegun
<1>11. /\ progress'.pc = "running" /\ progress'.next = progress.next /\ progress'.lanes = lanes
       /\ progress'.abort = (progress.abort \/ begins) /\ progress'.results = r
       /\ progress'.unbegun = unbegun
  BY <1>2, <1>5
<1>12. LanesRight'
  <2>1. ASSUME NEW m \in DOMAIN lanes, lanes[m] # 0
        PROVE  /\ lanes[m] < progress.next /\ r[lanes[m]] = "none" /\ lanes[m] \notin unbegun
               /\ \A k \in DOMAIN lanes : lanes[k] = lanes[m] => k = m
    <3>1. m # l /\ m \in DOMAIN progress.lanes /\ lanes[m] = progress.lanes[m]
      BY <2>1, <1>7
    <3>2. /\ lanes[m] < progress.next /\ progress.results[lanes[m]] = "none"
          /\ lanes[m] \notin progress.unbegun /\ lanes[m] \in 0 .. Total
          /\ \A k \in DOMAIN progress.lanes : progress.lanes[k] = lanes[m] => k = m
      BY <3>1, <2>1, <1>1 DEF LanesRight
    <3>3. lanes[m] # i /\ lanes[m] \in 1 .. Total
      BY <3>1, <3>2, <2>1, <1>3, <1>a
    <3>4. lanes[m] \notin progress.next .. Total
      BY <3>2, <3>3, <1>a
    <3>5. lanes[m] \notin unbegun
      BY <3>2, <3>4, <1>10
    <3>6. r[lanes[m]] = "none"
      BY <3>2, <3>3, <1>6
    <3>7. ASSUME NEW k \in DOMAIN lanes, lanes[k] = lanes[m] PROVE k = m
      BY <3>7, <3>2, <2>1, <1>7
    <3> QED
      BY <3>2, <3>5, <3>6, <3>7
  <2>2. ASSUME NEW j \in 1 .. Total
        PROVE  r[j] = "none" <=> j >= progress.next \/ \E m \in DOMAIN lanes : lanes[m] = j
    <3>1. CASE j = i
      <4>1. r[j] # "none" /\ ~(j >= progress.next)
        BY <3>1, <1>4, <1>6, <1>c
      <4>2. \A m \in DOMAIN lanes : lanes[m] # j
        BY <3>1, <1>2, <1>3, <1>7
      <4> QED
        BY <4>1, <4>2
    <3>2. CASE j # i
      <4>1. (\E m \in DOMAIN lanes : lanes[m] = j)
              <=> \E m \in DOMAIN progress.lanes : progress.lanes[m] = j
        <5>1. j # 0
          OBVIOUS
        <5> QED
          BY <5>1, <3>2, <1>7
      <4>2. progress.results[j] = "none" <=>
              j >= progress.next \/ \E m \in DOMAIN progress.lanes : progress.lanes[m] = j
        BY <1>1 DEF LanesRight
      <4> QED
        BY <4>1, <4>2, <3>2, <1>6
    <3> QED
      BY <3>1, <3>2
  <2>3. DOMAIN r = 1 .. Total
    BY <1>6
  <2> DEFINE p == progress'
  <2>5. \A m \in DOMAIN p.lanes : p.lanes[m] # 0 =>
          /\ p.lanes[m] < p.next /\ p.results[p.lanes[m]] = "none"
          /\ p.lanes[m] \notin p.unbegun
          /\ \A k \in DOMAIN p.lanes : p.lanes[k] = p.lanes[m] => k = m
    BY <1>11, <2>1
  <2>6. \A j \in 1 .. Total : p.results[j] = "none" <=>
          j >= p.next \/ \E m \in DOMAIN p.lanes : p.lanes[m] = j
    BY <1>11, <2>2
  <2>7. /\ DOMAIN p.results = 1 .. Total /\ p.results \in [1 .. Total -> Results]
        /\ p.lanes \in [1 .. batch.concurrency -> 0 .. Total]
    BY <1>6, <1>7, <1>11, <2>3
  <2> HIDE DEF p
  <2>8. p = progress'
    BY DEF p
  <2> QED
    BY <1>2, <2>5, <2>6, <2>7, <2>8 DEF LanesRight
<1>13. AbortRight'
  <2>1. CASE begins /\ ~progress.abort
    <3>1. i \in 1 .. progress.next - 1 /\ r[i] \in {"fails", "not found"}
          /\ progress.next \in 1 .. progress.next
      BY <2>1, <1>4, <1>6, <1>c
    <3> QED
      BY <2>1, <3>1, <1>2, <1>10, <1>11 DEF AbortRight
  <2>2. CASE progress.abort
    <3>1. PICK n \in 1 .. progress.next :
            /\ progress.unbegun = n .. Total
            /\ \E j \in 1 .. n - 1 : progress.results[j] \in {"fails", "not found"}
      BY <2>2, <1>1 DEF AbortRight
    <3>2. PICK j \in 1 .. n - 1 : progress.results[j] \in {"fails", "not found"}
      BY <3>1
    <3>3. j \in 1 .. Total
      BY <1>a
    <3>4. r[j] \in {"fails", "not found"}
      BY <3>2, <3>3, <1>3, <1>6
    <3> QED
      BY <2>2, <3>1, <3>4, <1>1, <1>2, <1>10, <1>11 DEF AbortRight
  <2>3. CASE ~begins /\ ~progress.abort
    BY <2>3, <1>1, <1>10, <1>11 DEF AbortRight
  <2> QED
    BY <2>1, <2>2, <2>3, <1>8
<1>14. EachAnswered'
  <2>1. ASSUME NEW j \in 1 .. Total
        PROVE  /\ r[j] \in {"answered", "fails"} => r[j] = batch.entries[j]
               /\ r[j] = "not found" => ReadsArtifact
    BY <1>1, <1>2, <1>4, <1>6, <2>1 DEF EachAnswered
  <2>2. ReadsArtifact' = ReadsArtifact
    BY <1>2 DEF ReadsArtifact
  <2> QED
    BY <1>2, <1>11, <2>1, <2>2 DEF EachAnswered
<1>15. ProgressTyped'
  BY <1>2, <1>5, <1>8, <1>11 DEF ProgressTyped
<1>16. \A j \in 1 .. Total : /\ progress'.results[j] = "aborted" => j \in progress'.unbegun
                             /\ j \in progress'.unbegun =>
                                  progress'.results[j] \in {"aborted", "none"}
  <2>1. ASSUME NEW j \in 1 .. Total
        PROVE  /\ r[j] = "aborted" => j \in unbegun
               /\ j \in unbegun => r[j] \in {"aborted", "none"}
    <3>1. CASE j = i
      BY <3>1, <1>4, <1>6, <1>9
    <3>2. CASE j # i
      <4>1. r[j] = progress.results[j]
        BY <3>2, <1>6
      <4>2. CASE begins /\ ~progress.abort
        <5>1. progress.unbegun = {}
          BY <4>2, <1>1 DEF AbortRight
        <5>2. j \in unbegun => progress.results[j] = "none"
          <6>1. j \in progress.next .. Total => j >= progress.next
            BY <1>a
          <6> QED
            BY <6>1, <4>2, <1>1, <1>10 DEF LanesRight
        <5> QED
          BY <4>1, <5>1, <5>2, <1>1
      <4>3. CASE ~(begins /\ ~progress.abort)
        BY <4>1, <4>3, <1>1, <1>10
      <4> QED
        BY <4>2, <4>3
    <3> QED
      BY <3>1, <3>2
  <2> QED
    BY <2>1, <1>11
<1>17. progress'.next \in 1 .. Total + 1
  BY <1>a, <1>11
<1> QED
  BY <1>2, <1>11, <1>12, <1>13, <1>14, <1>15, <1>16, <1>17, StepsRight

(* A batch ends when nothing is left, so that every entry has its answer; *)
LEMMA ConcludeKeeps ==
  ASSUME BatchInv, Conclude
  PROVE  BatchInv'
<1>1. /\ batch \in Batch /\ Total \in Nat /\ progress.next \in 1 .. Total + 1
      /\ progress.next \in Nat
      /\ LanesRight /\ AbortRight /\ EachAnswered /\ ProgressTyped
  BY RunningBatch DEF Conclude
<1>2. /\ progress.pc = "running" /\ progress.next > Total /\ batch' = batch /\ Total' = Total
      /\ \A l \in DOMAIN progress.lanes : progress.lanes[l] = 0
  BY DEF Conclude, Total
<1>3. progress' = [pc |-> "done", next |-> progress.next, lanes |-> progress.lanes,
                   abort |-> progress.abort, results |-> progress.results,
                   unbegun |-> progress.unbegun]
  BY <1>1 DEF Conclude, ProgressTyped
<1>4. /\ progress'.pc = "done" /\ progress'.next = progress.next
      /\ progress'.lanes = progress.lanes /\ progress'.abort = progress.abort
      /\ progress'.results = progress.results /\ progress'.unbegun = progress.unbegun
  BY <1>3
<1>5. \A j \in 1 .. Total : progress.results[j] # "none"
  <2>1. SUFFICES ASSUME NEW j \in 1 .. Total
                 PROVE  progress.results[j] # "none"
    OBVIOUS
  <2>2. ~(j >= progress.next) /\ j # 0
    BY <1>1, <1>2
  <2> QED
    BY <2>2, <1>1, <1>2 DEF LanesRight
<1>6. LanesRight' /\ AbortRight'
  <2>1. LanesRight' <=> LanesRight
    BY <1>2, <1>4 DEF LanesRight
  <2>2. AbortRight' <=> AbortRight
    BY <1>2, <1>4 DEF AbortRight
  <2> QED
    BY <1>1, <2>1, <2>2
<1>7. EachAnswered'
  BY <1>1, <1>2, <1>4, <1>5 DEF EachAnswered, ReadsArtifact
<1>8. AbortsAtTheEnd'
  BY <1>2, <1>4 DEF BatchInv, BatchRight, AbortsAtTheEnd
<1>9. ProgressTyped'
  BY <1>1, <1>3, <1>4 DEF ProgressTyped
<1> QED
  BY <1>1, <1>2, <1>4, <1>6, <1>7, <1>8, <1>9 DEF BatchInv, BatchRight

(* and what happens to the artifact's row is not seen by what was answered. *)
LEMMA BatchStays ==
  ASSUME BatchInv, UNCHANGED <<batch, progress>>
  PROVE  BatchInv'
<1>1. Total' = Total /\ (ReadsArtifact)' = ReadsArtifact
  BY DEF Total, ReadsArtifact
<1>2. LanesRight' <=> LanesRight
  BY <1>1 DEF LanesRight
<1>3. AbortRight' <=> AbortRight
  BY <1>1 DEF AbortRight
<1>4. BatchRight' <=> BatchRight
  BY <1>1 DEF BatchRight, EachAnswered, AbortsAtTheEnd
<1>5. ProgressTyped' <=> ProgressTyped
  BY DEF ProgressTyped
<1> QED
  BY <1>1, <1>2, <1>3, <1>4, <1>5 DEF BatchInv

(* The batch of a behaviour about batches is one that may be asked. *)
BatchesInv == BatchInv /\ (component = "batches" => batch \in Batch)

(* Every step of a batch, and of the components beside it. *)
LEMMA BatchKeeps ==
  ASSUME BatchesInv, [ServicesNext]_serviceVars
  PROVE  BatchesInv'
<1>1. component' = component
  BY DEF ServicesNext, serviceVars
<1>2. CASE UNCHANGED batchVars
  BY <1>1, <1>2, BatchStays DEF batchVars, BatchesInv
<1>3. CASE component = "batches" /\ BatchNext
  <2>1. CASE Start
    BY <1>1, <1>3, <2>1, StartKeeps DEF BatchesInv, Start
  <2>2. CASE Conclude
    BY <1>1, <1>3, <2>2, ConcludeKeeps DEF BatchesInv, Conclude
  <2>3. CASE EvictRow \/ ReturnRow
    BY <1>1, <1>3, <2>3, BatchStays DEF BatchesInv, EvictRow, ReturnRow
  <2>4. ASSUME NEW l \in DOMAIN progress.lanes, TakeEntry(l) \/ FinishEntry(l)
        PROVE  BatchesInv'
    BY <1>1, <1>3, <2>4, SkipKeeps, TakeKeeps, FinishKeeps DEF BatchesInv, TakeEntry, FinishEntry
  <2> QED
    BY <1>3, <2>1, <2>2, <2>3, <2>4 DEF BatchNext
<1> QED
  BY <1>2, <1>3 DEF ServicesNext, Others, serviceVars, batchVars

(* A batch that has not begun is right. *)
LEMMA BatchStarts == ServicesInit => BatchesInv
<1> SUFFICES ASSUME ServicesInit PROVE BatchesInv
  OBVIOUS
<1>1. progress = NoBatch /\ (component = "batches" => batch \in Batches)
  BY DEF ServicesInit, BatchInit
<1>2. progress.pc = "asked" /\ progress.results = << >> /\ ProgressTyped
  BY <1>1 DEF NoBatch, ProgressTyped
<1> QED
  BY <1>1, <1>2, BatchAssumption DEF BatchesInv, BatchInv

(* What a run checks of batches follows. *)
LEMMA BatchSound == BatchesInv => BatchRight
<1> SUFFICES ASSUME BatchesInv PROVE BatchRight
  OBVIOUS
<1>1. CASE progress.pc \in {"running", "done"}
  BY <1>1 DEF BatchesInv, BatchInv
<1>2. CASE progress.pc \in {"asked", "threw"}
  <2>1. DOMAIN progress.results = {}
    BY <1>2 DEF BatchesInv, BatchInv
  <2> QED
    BY <1>2, <2>1 DEF BatchRight, EachAnswered, AbortsAtTheEnd
<1> QED
  BY <1>1, <1>2 DEF BatchesInv, BatchInv, ProgressTyped

(* The gate never keeps a call waiting beside a free slot nor runs more than it has slots for
   (ToolExecutionGate), and the answers of a batch are its entries' own, in their order, with an
   abort for the entries after a failure only (runBatch): for any number of calls, slots,
   entries and lanes. *)
THEOREM CallsAlwaysRight == ServicesSpec => []CallsRight
<1>1. ServicesInit => GateInv /\ BatchesInv
  BY GateStarts, BatchStarts
<1>2. GateInv /\ BatchesInv /\ [ServicesNext]_serviceVars => (GateInv /\ BatchesInv)'
  BY GateKeeps, BatchKeeps
<1>3. GateInv /\ BatchesInv => CallsRight
  BY BatchSound DEF GateInv, CallsRight
<1> QED
  BY <1>1, <1>2, <1>3, PTL DEF ServicesSpec

-----------------------------------------------------------------------------

(* While a run is under way there is neither a marker nor a result, and what it is about to
   mark is whole. *)
DecompileInv ==
  /\ OutputWhole
  /\ flight \in {"preparing", "running", "collecting", "marking"} => ~marker
  /\ flight # "none" => ~cached /\ inflight # NoCall
  /\ flight = "collecting" => files \in {"none", "whole"} \/ beside
  /\ flight = "marking" => files = "whole" \/ beside
  /\ flight = "none" => inflight = NoCall

(* The steps of ensureDecompiled, of a JVM nobody waits for, and of a death. *)
LEMMA DecompileKeeps ==
  ASSUME DecompileInv, [ServicesNext]_serviceVars
  PROVE  DecompileInv'
<1>1. CASE UNCHANGED decompileVars
  BY <1>1 DEF decompileVars, DecompileInv, OutputWhole
<1>2. ASSUME NEW c \in Decompiles, AskDecompile(c)
      PROVE  DecompileInv'
  BY <1>2, DecompileAssumption DEF AskDecompile, DecompileInv, OutputWhole
<1>a. ASSUME flight # "none", FailDecompile
      PROVE  DecompileInv'
  BY <1>a DEF FailDecompile, SettleDecompile, DecompileInv, OutputWhole
<1>b. ASSUME flight # "none", flight' = "running", ClearOutput
      PROVE  DecompileInv'
  BY <1>b DEF ClearOutput, DecompileInv, OutputWhole
<1>3. CASE LookForMarker
  <2>1. CASE FailDecompile
    BY <1>3, <2>1, <1>a DEF LookForMarker
  <2>2. CASE Reusable /\ SettleDecompile("done") /\ UNCHANGED <<files, marker, stale, beside>>
    BY <1>3, <2>2 DEF LookForMarker, SettleDecompile, Reusable, DecompileInv, OutputWhole
  <2>3. CASE flight' = "preparing" /\ ClearOutput
    BY <1>3, <2>3 DEF LookForMarker, ClearOutput, DecompileInv, OutputWhole
  <2> QED
    BY <1>3, <2>1, <2>2, <2>3 DEF LookForMarker
<1>4. CASE StartVineflower
  BY <1>4, <1>a DEF StartVineflower, DecompileInv, OutputWhole
<1>5. CASE ExitWell
  BY <1>5 DEF ExitWell, DecompileInv, OutputWhole
<1>c. ASSUME flight # "none", NextProfile
      PROVE  DecompileInv'
  BY <1>c, <1>a, <1>b DEF NextProfile
<1>6. CASE ExitBadly
  BY <1>6, <1>a, <1>c DEF ExitBadly
<1>7. CASE TimeOut
  BY <1>7 DEF TimeOut, SettleDecompile, DecompileInv, OutputWhole
<1>8. CASE CollectFiles
  BY <1>8, <1>c DEF CollectFiles, DecompileInv, OutputWhole
<1>9. CASE WriteMarker
  BY <1>9, <1>c DEF WriteMarker, SettleDecompile, DecompileInv, OutputWhole
<1>10. CASE WriteFiles
  BY <1>10 DEF WriteFiles, DecompileInv, OutputWhole
<1>11. CASE StaleWrites \/ StaleEnds
  BY <1>11 DEF StaleWrites, StaleEnds, DecompileInv, OutputWhole
<1>12. CASE PushedOut
  BY <1>12 DEF PushedOut, DecompileInv, OutputWhole
<1>13. CASE ServerDies
  BY <1>13 DEF ServerDies, DecompileInv, OutputWhole
<1> QED
  BY <1>1, <1>2, <1>3, <1>4, <1>5, <1>6, <1>7, <1>8, <1>9, <1>10, <1>11, <1>12, <1>13
     DEF ServicesNext, Others, serviceVars, decompileVars, DecompileNext, FlightNext

(* Nothing is decompiled at first. *)
LEMMA DecompileStarts == ServicesInit => DecompileInv
  BY DEF ServicesInit, DecompileInit, DecompileInv, OutputWhole

-----------------------------------------------------------------------------

(* The sources of mappings, the builds and the graphs. *)
Worlds == [mojang : BOOLEAN, loom : {{}, Tiny}, maven : SUBSET Tiny, mavenFirst : BOOLEAN]
Builds == [stage : {"mojang", "first", "second", "built"}, mojang : BOOLEAN, unread : BOOLEAN,
           tiny : SUBSET Tiny, from : {"none"} \cup Sources, transient : BOOLEAN,
           attempted : BOOLEAN]
Graphs == [key : Keys, mojang : BOOLEAN, unread : BOOLEAN, tiny : SUBSET Tiny,
           from : {"none"} \cup Sources]

(* What a source has of the tiny files. *)
Has(source) == IF source = "maven" THEN world.maven ELSE world.loom

(* A graph lacks only what the sources lack (GraphsWhole). *)
Whole(g) ==
  /\ g.mojang = (world.mojang /\ ~g.unread)
  /\ g.key = "full" => /\ g.tiny = {} <=> world.loom = {} /\ world.maven = {}
                       /\ g.from = "maven" => g.tiny = world.maven

(* So does a build that nothing has disturbed, of what it has asked so far. *)
Gathers(key, b) ==
  /\ b.stage # "mojang" /\ ~b.transient => b.mojang = (world.mojang /\ ~b.unread)
  /\ b.stage # "built" => b.tiny = {}
  /\ b.stage \in {"first", "second"} => key = "full"
  /\ b.stage = "second" /\ ~b.attempted => Has(Order[1]) = {}
  /\ b.stage = "built" /\ ~b.transient /\ key = "full" =>
       /\ b.tiny = {} <=> world.loom = {} /\ world.maven = {}
       /\ b.from = "maven" => b.tiny = world.maven

(* Every graph that is kept is whole (graphCache), and every build is right so far. *)
GraphInv ==
  /\ world \in Worlds /\ graphs \in Seq(Graphs) /\ build \in [Keys -> Builds \cup {NoBuild}]
  /\ \A i \in DOMAIN graphs : Whole(graphs[i])
  /\ \A key \in Keys : build[key] # NoBuild => Gathers(key, build[key])

(* What a run checks of graphs follows. *)
LEMMA GraphInvWhole == GraphInv => GraphsWhole
  BY DEF GraphInv, GraphsWhole, Whole

(* The sources are two. *)
LEMMA Asked ==
  ASSUME world \in Worlds
  PROVE  /\ Order[1] \in Sources /\ Order[2] \in Sources /\ Order[1] # Order[2]
         /\ \A source \in Sources : Has(source) \in SUBSET Tiny
         /\ (world.loom = {} /\ world.maven = {}) <=> Has(Order[1]) = {} /\ Has(Order[2]) = {}
  BY DEF Worlds, Order, Sources, Has

(* A graph is used: it goes to the end. *)
LEMMA GraphUsed ==
  ASSUME graphs \in Seq(Graphs), NEW key \in Cached
  PROVE  LET used == Append(RemoveAt(graphs, PlaceOf(key)), GraphOf(key))
         IN  /\ used \in Seq(Graphs)
             /\ \A i \in DOMAIN used : \E j \in DOMAIN graphs : used[i] = graphs[j]
<1> DEFINE p == PlaceOf(key)
           n == Len(graphs)
           before == SubSeq(graphs, 1, p - 1)
           after == SubSeq(graphs, p + 1, n)
<1>1. n \in Nat /\ DOMAIN graphs = 1 .. n /\ p \in 1 .. n /\ GraphOf(key) = graphs[p]
  BY DEF Cached, PlaceOf, GraphOf
<1> HIDE DEF p, n
<1>a. n \in Nat /\ p \in Nat /\ 1 <= p /\ p <= n
  BY <1>1
<1>2. /\ before \in Seq(Graphs) /\ Len(before) = p - 1
      /\ \A i \in 1 .. p - 1 : before[i] = graphs[i]
  BY <1>1
<1>3. /\ after \in Seq(Graphs) /\ Len(after) = n - p
      /\ \A i \in 1 .. n - p : after[i] = graphs[p + i]
  BY <1>1
<1>4. RemoveAt(graphs, p) = before \o after
  BY DEF RemoveAt, n
<1> HIDE DEF before, after
<1>5. /\ before \o after \in Seq(Graphs) /\ Len(before \o after) = n - 1
      /\ \A i \in 1 .. p - 1 : (before \o after)[i] = graphs[i]
      /\ \A i \in p .. n - 1 : (before \o after)[i] = graphs[i + 1]
  <2>1. before \o after \in Seq(Graphs) /\ Len(before \o after) = n - 1
    <3>1. before \o after \in Seq(Graphs)
      BY <1>2, <1>3
    <3>2. Len(before \o after) = Len(before) + Len(after)
      BY <1>2, <1>3, ConcatProperties
    <3> QED
      BY <3>1, <3>2, <1>1, <1>2, <1>3
  <2>2. \A i \in 1 .. n - 1 : (before \o after)[i] =
                                IF i <= p - 1 THEN before[i] ELSE after[i - (p - 1)]
    BY <1>1, <1>2, <1>3
  <2>3. ASSUME NEW i \in p .. n - 1 PROVE (before \o after)[i] = graphs[i + 1]
    <3>1. i \in 1 .. n - 1 /\ ~(i <= p - 1) /\ i - (p - 1) \in 1 .. n - p
          /\ p + (i - (p - 1)) = i + 1
      BY <1>1
    <3> QED
      BY <3>1, <2>2, <1>3
  <2>5. ASSUME NEW i \in 1 .. p - 1 PROVE (before \o after)[i] = graphs[i]
    <3>1. i \in 1 .. n - 1 /\ i <= p - 1
      BY <1>1
    <3> QED
      BY <3>1, <2>2, <1>2
  <2> QED
    BY <2>1, <2>3, <2>5
<1> DEFINE rest == before \o after
           used == Append(rest, graphs[p])
<1> HIDE DEF rest
<1>6. /\ rest \in Seq(Graphs) /\ Len(rest) = n - 1
      /\ \A i \in 1 .. p - 1 : rest[i] = graphs[i]
      /\ \A i \in p .. n - 1 : rest[i] = graphs[i + 1]
  BY <1>5 DEF rest
<1>7. graphs[p] \in Graphs
  BY <1>1
<1>8. /\ used \in Seq(Graphs) /\ DOMAIN used = 1 .. n /\ used[n] = graphs[p]
      /\ \A i \in 1 .. n - 1 : used[i] = rest[i]
  BY <1>1, <1>6, <1>7
<1>9. ASSUME NEW i \in 1 .. n PROVE \E j \in 1 .. n : used[i] = graphs[j]
  <2>1. CASE i = n
    BY <2>1, <1>1, <1>8
  <2>2. CASE i \in 1 .. p - 1
    <3>1. i \in 1 .. n - 1
      BY <2>2, <1>1
    <3> QED
      BY <2>2, <3>1, <1>6, <1>8
  <2>3. CASE i \in p .. n - 1
    <3>1. i \in 1 .. n - 1 /\ i + 1 \in 1 .. n
      BY <2>3, <1>1
    <3>2. used[i] = graphs[i + 1]
      BY <2>3, <3>1, <1>6, <1>8
    <3> QED
      BY <3>1, <3>2
  <2>4. i = n \/ i \in 1 .. p - 1 \/ i \in p .. n - 1
    BY <1>a
  <2> QED
    BY <2>1, <2>2, <2>3, <2>4
<1>10. Append(RemoveAt(graphs, PlaceOf(key)), GraphOf(key)) = used
  BY <1>1, <1>4 DEF p, rest
<1> QED
  BY <1>1, <1>8, <1>9, <1>10

(* What a build gathers takes its place. *)
LEMMA GatherKeeps ==
  ASSUME GraphInv, NEW key \in Keys, NEW b \in Builds, Gathers(key, b), Gather(key, b)
  PROVE  GraphInv'
<1>1. /\ build' = [build EXCEPT ![key] = b] /\ world' = world /\ graphs' = graphs
      /\ build \in [Keys -> Builds \cup {NoBuild}]
  BY DEF Gather, GraphInv
<1>2. build' \in [Keys -> Builds \cup {NoBuild}]
  BY <1>1
<1>3. ASSUME NEW k \in Keys, build'[k] # NoBuild
      PROVE  Gathers(k, build[k])'
  <2>1. Gathers(k, build'[k])
    BY <1>1, <1>3 DEF GraphInv
  <2> QED
    BY <2>1, <1>1 DEF Gathers, Order, Has
<1> QED
  BY <1>1, <1>2, <1>3 DEF GraphInv, Whole

(* The Mojang mappings are loaded, or are not to be had for now, or for good, *)
LEMMA LoadMojangKeeps ==
  ASSUME GraphInv, NEW key \in Keys, LoadMojang(key)
  PROVE  GraphInv'
<1>1. build[key] \in Builds /\ build[key].stage = "mojang" /\ Gathers(key, build[key])
      /\ world.mojang \in BOOLEAN
  BY DEF LoadMojang, Building, GraphInv, Worlds
<1>2. PICK result \in {"loaded", "transient"} \cup IF world.mojang THEN {"unread"} ELSE {} :
        Gather(key, [build[key] EXCEPT
                        !.mojang = world.mojang /\ result = "loaded",
                        !.unread = result = "unread", !.transient = result = "transient",
                        !.stage = IF key = "full" THEN "first" ELSE "built"])
  BY DEF LoadMojang
<1> DEFINE b == [build[key] EXCEPT
                        !.mojang = world.mojang /\ result = "loaded",
                        !.unread = result = "unread", !.transient = result = "transient",
                        !.stage = IF key = "full" THEN "first" ELSE "built"]
<1>3. b \in Builds
  BY <1>1 DEF Builds
<1>4. Gathers(key, b)
  BY <1>1, <1>2 DEF Gathers, Builds
<1> QED
  BY <1>2, <1>3, <1>4, GatherKeeps

(* then the tiny files of one source, and of the other if the first had none; *)
LEMMA LoadTinyKeeps ==
  ASSUME GraphInv, NEW key \in Keys, LoadTiny(key)
  PROVE  GraphInv'
<1> DEFINE b == build[key]
           source == Order[IF b.stage = "first" THEN 1 ELSE 2]
<1>1. /\ b \in Builds /\ b.stage \in {"first", "second"} /\ Gathers(key, b) /\ key = "full"
      /\ b.tiny = {} /\ world \in Worlds
  BY DEF LoadTiny, GraphInv, Gathers
<1>2. /\ Order[1] \in Sources /\ Order[2] \in Sources /\ Order[1] # Order[2]
      /\ \A other \in Sources : Has(other) \in SUBSET Tiny
      /\ (world.loom = {} /\ world.maven = {}) <=> Has(Order[1]) = {} /\ Has(Order[2]) = {}
  BY <1>1, Asked
<1>3. PICK failed \in IF source = "maven" THEN SUBSET Tiny ELSE {{}} :
        LET pairs == (IF source = "maven" THEN world.maven ELSE world.loom) \ failed IN
        IF pairs # {}
        THEN Gather(key, [b EXCEPT !.tiny = pairs, !.from = source, !.stage = "built",
                                   !.transient = Transient(b, failed)])
        ELSE IF b.stage = "first"
        THEN Gather(key, [b EXCEPT !.stage = "second", !.attempted = failed # {}])
        ELSE Gather(key, [b EXCEPT !.stage = "built",
                                   !.transient = @ \/ b.attempted \/ failed # {}])
  BY DEF LoadTiny
<1> DEFINE pairs == Has(source) \ failed
           loaded == [b EXCEPT !.tiny = pairs, !.from = source, !.stage = "built",
                               !.transient = Transient(b, failed)]
           next == [b EXCEPT !.stage = "second", !.attempted = failed # {}]
           none == [b EXCEPT !.stage = "built",
                             !.transient = b.transient \/ b.attempted \/ failed # {}]
<1>4. IF pairs # {} THEN Gather(key, loaded)
      ELSE IF b.stage = "first" THEN Gather(key, next) ELSE Gather(key, none)
  BY <1>3 DEF Has
<1>5. /\ source \in Sources /\ pairs \in SUBSET Tiny
      /\ source = Order[IF b.stage = "first" THEN 1 ELSE 2]
  BY <1>1, <1>2
<1> HIDE DEF pairs, source
<1>6. /\ loaded \in Builds /\ loaded.stage = "built" /\ loaded.tiny = pairs /\ loaded.from = source
      /\ loaded.mojang = b.mojang /\ loaded.unread = b.unread
      /\ ~loaded.transient => ~b.transient /\ failed = {}
  BY <1>1, <1>5 DEF Builds, Transient
<1>7. /\ next \in Builds /\ next.stage = "second" /\ next.tiny = {}
      /\ next.mojang = b.mojang /\ next.unread = b.unread /\ next.transient = b.transient
      /\ ~next.attempted => failed = {}
  BY <1>1 DEF Builds
<1>8. /\ none \in Builds /\ none.stage = "built" /\ none.tiny = {} /\ none.from = b.from
      /\ none.mojang = b.mojang /\ none.unread = b.unread
      /\ ~none.transient => ~b.transient /\ ~b.attempted /\ failed = {}
  BY <1>1 DEF Builds
<1> HIDE DEF b, loaded, next, none
<1>9. CASE pairs # {}
  <2>1. world.loom # {} \/ world.maven # {}
    BY <1>9 DEF pairs, Has
  <2>2. failed = {} /\ source = "maven" => pairs = world.maven
    BY DEF pairs, Has
  <2>3. Gathers(key, loaded)
    BY <1>1, <1>6, <1>9, <2>1, <2>2 DEF Gathers
  <2> QED
    BY <2>3, <1>4, <1>6, <1>9, GatherKeeps
<1>10. CASE pairs = {} /\ b.stage = "first"
  <2>1. failed = {} => Has(Order[1]) = {}
    BY <1>5, <1>10 DEF pairs
  <2>2. Gathers(key, next)
    BY <1>1, <1>7, <1>10, <2>1 DEF Gathers
  <2> QED
    BY <2>2, <1>4, <1>7, <1>10, GatherKeeps
<1>11. CASE pairs = {} /\ b.stage # "first"
  <2>1. failed = {} => Has(Order[2]) = {}
    BY <1>5, <1>11 DEF pairs
  <2>2. ~b.attempted => Has(Order[1]) = {}
    BY <1>1, <1>11 DEF Gathers
  <2>3. ~none.transient => world.loom = {} /\ world.maven = {}
    BY <1>2, <1>8, <2>1, <2>2
  <2>4. Gathers(key, none)
    BY <1>1, <1>8, <1>11, <2>3 DEF Gathers
  <2> QED
    BY <2>4, <1>4, <1>8, <1>11, GatherKeeps
<1> QED
  BY <1>9, <1>10, <1>11

(* the graph is kept unless the build met a failure that may pass, the oldest giving way, *)
LEMMA FinishBuildKeeps ==
  ASSUME GraphInv, NEW key \in Keys, FinishBuild(key)
  PROVE  GraphInv'
<1> DEFINE b == build[key]
           graph == [key |-> key, mojang |-> b.mojang, unread |-> b.unread,
                     tiny |-> b.tiny, from |-> b.from]
           grown == Append(graphs, graph)
<1>1. b \in Builds /\ b.stage = "built" /\ Gathers(key, b)
  BY DEF FinishBuild, Building, GraphInv
<1>2. /\ graphs' = IF b.transient THEN graphs ELSE Trimmed(grown)
      /\ build' = [build EXCEPT ![key] = NoBuild] /\ world' = world
  BY DEF FinishBuild
<1>3. graphs \in Seq(Graphs) /\ \A i \in DOMAIN graphs : Whole(graphs[i])
  BY DEF GraphInv
<1>4. graph \in Graphs
  BY <1>1 DEF Builds, Graphs
<1>5. ~b.transient => Whole(graph)
  BY <1>1 DEF Gathers, Whole
<1> HIDE DEF b, graph
<1>6. /\ grown \in Seq(Graphs) /\ Len(grown) = Len(graphs) + 1
      /\ \A i \in 1 .. Len(graphs) : grown[i] = graphs[i]
      /\ grown[Len(graphs) + 1] = graph
  BY <1>3, <1>4
<1>7. ~b.transient => \A i \in DOMAIN grown : Whole(grown[i])
  <2>1. Len(graphs) \in Nat /\ DOMAIN graphs = 1 .. Len(graphs)
        /\ DOMAIN grown = 1 .. Len(graphs) + 1
    BY <1>3, <1>6
  <2> QED
    BY <2>1, <1>3, <1>5, <1>6
<1> HIDE DEF grown
<1>8. /\ Trimmed(grown) \in Seq(Graphs)
      /\ \A i \in DOMAIN Trimmed(grown) : \E j \in DOMAIN grown : Trimmed(grown)[i] = grown[j]
  <2>1. CASE Len(grown) > MaxGraphs
    <3>1. Len(grown) \in Nat /\ grown # << >> /\ Trimmed(grown) = Tail(grown)
      BY <2>1, <1>6, GraphAssumption DEF Trimmed
    <3>2. /\ Tail(grown) \in Seq(Graphs) /\ DOMAIN Tail(grown) = 1 .. Len(grown) - 1
          /\ \A i \in 1 .. Len(grown) - 1 : Tail(grown)[i] = grown[i + 1]
      BY <3>1, <1>6
    <3>3. ASSUME NEW i \in 1 .. Len(grown) - 1
          PROVE  i + 1 \in DOMAIN grown
      BY <3>1, <1>6
    <3> QED
      BY <3>1, <3>2, <3>3
  <2>2. CASE ~(Len(grown) > MaxGraphs)
    BY <2>2, <1>6 DEF Trimmed
  <2> QED
    BY <2>1, <2>2
<1>9. graphs' \in Seq(Graphs) /\ \A i \in DOMAIN graphs' : Whole(graphs'[i])
  BY <1>1, <1>2, <1>3, <1>7, <1>8 DEF Builds
<1>10. build' \in [Keys -> Builds \cup {NoBuild}]
       /\ \A k \in Keys : build'[k] # NoBuild => k # key /\ build'[k] = build[k]
  BY <1>2 DEF GraphInv
<1>11. \A k \in Keys : build'[k] # NoBuild => Gathers(k, build'[k])
  BY <1>10 DEF GraphInv
<1> QED
  BY <1>2, <1>9, <1>10, <1>11 DEF GraphInv, Whole, Gathers, Order, Has

(* or a failed build leaves nothing (loadGraph). *)
LEMMA FailBuildKeeps ==
  ASSUME GraphInv, NEW key \in Keys, FailBuild(key)
  PROVE  GraphInv'
<1>1. build' = [build EXCEPT ![key] = NoBuild] /\ world' = world /\ graphs' = graphs
  BY DEF FailBuild
<1>2. build' \in [Keys -> Builds \cup {NoBuild}]
      /\ \A k \in Keys : build'[k] # NoBuild => k # key /\ build'[k] = build[k]
  BY <1>1 DEF GraphInv
<1>3. \A k \in Keys : build'[k] # NoBuild => Gathers(k, build'[k])
  BY <1>2 DEF GraphInv
<1> QED
  BY <1>1, <1>2, <1>3 DEF GraphInv, Whole, Gathers, Order, Has

(* findMapping starts a build with nothing, or takes a graph to the end. *)
LEMMA FindMappingKeeps ==
  ASSUME GraphInv, NEW c \in Finders, NEW key \in Keys, FindMapping(c, key)
  PROVE  GraphInv'
<1>1. world' = world
  BY DEF FindMapping
<1>2. CASE UNCHANGED <<graphs, build>>
  BY <1>1, <1>2 DEF GraphInv, Whole, Gathers, Order, Has
<1>3. CASE key \in Cached /\ build' = build
           /\ graphs' = Append(RemoveAt(graphs, PlaceOf(key)), GraphOf(key))
  <2>1. /\ graphs' \in Seq(Graphs)
        /\ \A i \in DOMAIN graphs' : \E j \in DOMAIN graphs : graphs'[i] = graphs[j]
    BY <1>3, GraphUsed DEF GraphInv
  <2>2. \A i \in DOMAIN graphs' : Whole(graphs'[i])
    BY <2>1 DEF GraphInv
  <2> QED
    BY <1>1, <1>3, <2>1, <2>2 DEF GraphInv, Whole, Gathers, Order, Has
<1>4. CASE build' = [build EXCEPT ![key] = IF @ = NoBuild THEN EmptyBuild ELSE @]
           /\ graphs' = graphs
  <2>1. EmptyBuild \in Builds /\ Gathers(key, EmptyBuild)
    BY DEF EmptyBuild, Builds, Gathers
  <2>2. build' \in [Keys -> Builds \cup {NoBuild}]
    BY <1>4, <2>1 DEF GraphInv
  <2>3. \A k \in Keys : build'[k] # NoBuild => Gathers(k, build'[k])
    BY <1>4, <2>1 DEF GraphInv
  <2> QED
    BY <1>1, <1>4, <2>2, <2>3 DEF GraphInv, Whole, Gathers, Order, Has
<1> QED
  BY <1>2, <1>3, <1>4 DEF FindMapping

(* Every step of the lookups and builds. *)
LEMMA GraphKeeps ==
  ASSUME GraphInv, [ServicesNext]_serviceVars
  PROVE  GraphInv'
<1>1. CASE UNCHANGED <<world, graphs, build>>
  BY <1>1 DEF GraphInv, Whole, Gathers, Order, Has
<1>2. CASE ReleaseGraphs
  <2>1. graphs' = << >> /\ UNCHANGED <<world, build>>
    BY <1>2 DEF ReleaseGraphs
  <2>2. graphs' \in Seq(Graphs) /\ DOMAIN graphs' = {}
    BY <2>1
  <2> QED
    BY <2>1, <2>2 DEF GraphInv, Whole, Gathers, Order, Has
<1>3. ASSUME NEW key \in Keys, BuildStep(key)
      PROVE  GraphInv'
  BY <1>3, LoadMojangKeeps, LoadTinyKeeps, FinishBuildKeeps, FailBuildKeeps DEF BuildStep
<1>4. ASSUME NEW c \in Finders, FindAgain(c) \/ \E key \in Keys : FindMapping(c, key)
      PROVE  GraphInv'
  BY <1>1, <1>4, FindMappingKeeps DEF FindAgain
<1>5. ASSUME NEW key \in Keys, ResolutionExpires(key)
      PROVE  GraphInv'
  BY <1>1, <1>5 DEF ResolutionExpires
<1> QED
  BY <1>1, <1>2, <1>3, <1>4, <1>5
     DEF ServicesNext, Others, serviceVars, graphVars, GraphNext

(* No graph is kept at first. *)
LEMMA GraphStarts == ServicesInit => GraphInv
<1> SUFFICES ASSUME ServicesInit PROVE GraphInv
  OBVIOUS
<1>1. world \in Worlds /\ graphs = << >> /\ build = [k \in Keys |-> NoBuild]
  <2>1. CASE component = "graphs"
    <3>1. GraphInit
      BY <2>1 DEF ServicesInit
    <3> QED
      BY <3>1 DEF GraphInit, Worlds
  <2>2. CASE component # "graphs"
    <3>1. /\ world = [mojang |-> TRUE, loom |-> {}, maven |-> {}, mavenFirst |-> FALSE]
          /\ graphs = << >> /\ build = [k \in Keys |-> NoBuild]
      BY <2>2 DEF ServicesInit
    <3> QED
      BY <3>1 DEF Worlds
  <2> QED
    BY <2>1, <2>2
<1>2. graphs \in Seq(Graphs) /\ DOMAIN graphs = {}
  BY <1>1
<1> QED
  BY <1>1, <1>2 DEF GraphInv

-----------------------------------------------------------------------------

(* What the disk may hold, and what a lock may be at. *)
Disks == [jar : [Jars -> {"none", "good", "bad"}], index : SUBSET Versions,
          report : {"none", "torn", "whole"}, side : SUBSET Sides, merged : SUBSET Sides]
Steps == {"none", "begins", "fetches", "hashes", "removes", "indexed", "runs", "writes", "reads"}

(* The fields of the disk and of the locks; the rest of the state is told below. *)
FilesTyped ==
  /\ disk \in Disks /\ lock \in [Locked -> Steps] /\ recorded \subseteq Versions
  /\ caller = [c \in FileCalls |-> caller[c]]

(* A jar that the manifest would refuse is being compared, or was left by a death or a failed
   removal. *)
Unvouched ==
  \A l \in Locked :
    JarOf(l) \in Hashed /\ disk.jar[JarOf(l)] = "bad" =>
      JarOf(l) \in unchecked \/ lock[l] \in {"hashes", "removes"}

(* The versions that wait to be put into the index are those whose resolution has come to
   that, each once; what the head has read is what is there. *)
ChainRight ==
  /\ chain \in Seq(Versions) /\ Distinct(chain)
  /\ \A i \in DOMAIN chain : lock[chain[i]] = "indexed"
  /\ found # NoneFound => chain # << >> /\ found = <<disk.index>>
  /\ IndexKept

(* What a call may be at; a merge leaves out only sides that were refused for good. *)
CallerRight(x, gone) ==
  \/ x = Rests
  \/ \E l \in Locked : x = Waits(l)
  \/ \E what, with : x = Answered(what, with) /\ (what \in Hashed => with # "bad")
  \/ \E step \in {"sides", "renames"}, sides, left, failed \in SUBSET Sides :
       /\ x = Merges(step, sides, left, failed) /\ left \subseteq gone
       /\ step = "renames" => sides \cup left = Sides

(* Every call is, and so are the merged mappings. *)
CallersRight == (\A c \in FileCalls : CallerRight(caller[c], refused)) /\ MergedWhole

(* The invariant of the files of versions. *)
FilesInv == FilesTyped /\ Unvouched /\ ChainRight /\ CallersRight

(* Each lock has a jar of its own. *)
LEMMA OwnJars ==
  /\ \A l \in Locked : JarOf(l) \in Jars
  /\ \A l, m \in Locked : JarOf(l) = JarOf(m) => l = m
  /\ \A v \in Versions : v \in Locked /\ JarOf(v) = v /\ v # Registry
  /\ Registry \in Locked /\ JarOf(Registry) = ServerJar /\ Registry \notin Hashed
  /\ Merged \notin Hashed
  BY VersionAssumption DEF JarOf, Jars, Locked, ServerJar, Registry, Merged

(* The bytes that are handed out are not refused ones. *)
LEMMA BytesRight ==
  ASSUME Unvouched, NEW l \in Locked, lock[l] \notin {"hashes", "removes"}, JarOf(l) \in Hashed
  PROVE  Bytes(JarOf(l)) # "bad"
  BY DEF Unvouched, Bytes

(* What a run checks of the files follows. *)
LEMMA FilesSound == FilesInv => VersionFilesRight
<1> SUFFICES ASSUME FilesInv PROVE VersionFilesRight
  OBVIOUS
<1>1. ASSUME NEW c \in FileCalls, caller[c].at = "answered", caller[c].what \in Hashed
      PROVE  caller[c].with # "bad"
  <2>1. CallerRight(caller[c], refused)
    BY DEF FilesInv, CallersRight
  <2>2. CASE caller[c] = Rests
    BY <2>2, <1>1 DEF Rests
  <2>3. CASE \E l \in Locked : caller[c] = Waits(l)
    BY <2>3, <1>1 DEF Waits
  <2>4. CASE \E what, with : caller[c] = Answered(what, with) /\ (what \in Hashed => with # "bad")
    BY <2>4, <1>1 DEF Answered
  <2>5. CASE \E step \in {"sides", "renames"}, sides, left, failed \in SUBSET Sides :
               caller[c] = Merges(step, sides, left, failed)
    BY <2>5, <1>1 DEF Merges
  <2> QED
    BY <2>1, <2>2, <2>3, <2>4, <2>5 DEF CallerRight
<1>2. lock[Registry] = "runs" /\ ServerJar \in Hashed => Bytes(ServerJar) # "bad"
  BY OwnJars, BytesRight DEF FilesInv
<1> QED
  BY <1>1, <1>2 DEF FilesInv, VersionFilesRight, JarsChecked, ChainRight, CallersRight

-----------------------------------------------------------------------------
(* A step of one lock, which may change its jar, keeps the others' jars as they were. *)
LEMMA JarMoves ==
  ASSUME FilesInv, NEW l \in Locked, NEW step \in Steps, lock' = [lock EXCEPT ![l] = step],
         \A m \in Locked : m # l => disk'.jar[JarOf(m)] = disk.jar[JarOf(m)],
         unchecked \subseteq unchecked',
         JarOf(l) \in Hashed /\ disk'.jar[JarOf(l)] = "bad" =>
           JarOf(l) \in unchecked' \/ step \in {"hashes", "removes"}
  PROVE  Unvouched'
<1>1. ASSUME NEW m \in Locked, JarOf(m) \in Hashed, disk'.jar[JarOf(m)] = "bad"
      PROVE  JarOf(m) \in unchecked' \/ lock'[m] \in {"hashes", "removes"}
  <2>1. lock \in [Locked -> Steps]
    BY DEF FilesInv, FilesTyped
  <2>2. CASE m = l
    BY <2>1, <2>2, <1>1
  <2>3. CASE m # l
    BY <2>1, <2>3, <1>1 DEF FilesInv, Unvouched
  <2> QED
    BY <2>2, <2>3
<1>2. \A m \in Locked : JarOf(m)' = JarOf(m)
  BY DEF JarOf
<1> QED
  BY <1>1, <1>2 DEF Unvouched

(* A lock that does not wait for the index leaves those that do alone, *)
LEMMA ChainSame ==
  ASSUME FilesInv, NEW l \in Locked, NEW step \in Steps, lock' = [lock EXCEPT ![l] = step],
         lock[l] # "indexed", UNCHANGED <<chain, found, recorded>>, disk'.index = disk.index
  PROVE  ChainRight'
<1>1. lock \in [Locked -> Steps] /\ chain \in Seq(Versions)
  BY DEF FilesInv, FilesTyped, ChainRight
<1>2. ASSUME NEW i \in DOMAIN chain
      PROVE  lock'[chain[i]] = "indexed"
  <2>1. chain[i] \in Versions /\ lock[chain[i]] = "indexed"
    BY <1>1 DEF FilesInv, ChainRight
  <2>2. chain[i] \in Locked /\ chain[i] # l
    BY <2>1, OwnJars
  <2> QED
    BY <1>1, <2>1, <2>2
<1> QED
  BY <1>2 DEF FilesInv, ChainRight, IndexKept, Distinct

(* or joins them (recordCacheEntry). *)
LEMMA ChainJoins ==
  ASSUME FilesInv, NEW v \in Versions, lock' = [lock EXCEPT ![v] = "indexed"],
         lock[v] # "indexed", chain' = Append(chain, v), UNCHANGED <<found, recorded>>,
         disk'.index = disk.index
  PROVE  ChainRight'
<1>1. lock \in [Locked -> Steps] /\ chain \in Seq(Versions) /\ v \in Locked
  BY OwnJars DEF FilesInv, FilesTyped, ChainRight
<1>2. /\ Len(chain) \in Nat /\ DOMAIN chain = 1 .. Len(chain)
      /\ chain' \in Seq(Versions) /\ DOMAIN chain' = 1 .. Len(chain) + 1
      /\ chain'[Len(chain) + 1] = v /\ \A i \in 1 .. Len(chain) : chain'[i] = chain[i]
  BY <1>1
<1>3. ASSUME NEW i \in 1 .. Len(chain)
      PROVE  chain[i] # v /\ lock'[chain[i]] = "indexed"
  <2>1. chain[i] \in Versions /\ lock[chain[i]] = "indexed"
    BY <1>1, <1>2 DEF FilesInv, ChainRight
  <2>2. chain[i] \in Locked /\ chain[i] # v
    BY <2>1, OwnJars
  <2> QED
    BY <1>1, <2>1, <2>2
<1>4. Distinct(chain')
  <2>1. \A i, j \in 1 .. Len(chain) : chain[i] = chain[j] => i = j
    BY <1>2 DEF FilesInv, ChainRight, Distinct
  <2>2. \A i \in 1 .. Len(chain) + 1 : i \in 1 .. Len(chain) \/ i = Len(chain) + 1
    BY <1>2
  <2> QED
    BY <1>2, <1>3, <2>1, <2>2 DEF Distinct
<1>5. \A i \in DOMAIN chain' : lock'[chain'[i]] = "indexed"
  <2>1. \A i \in 1 .. Len(chain) + 1 : i \in 1 .. Len(chain) \/ i = Len(chain) + 1
    BY <1>2
  <2> QED
    BY <1>1, <1>2, <1>3, <2>1
<1>6. chain' # << >>
  BY <1>2
<1> QED
  BY <1>2, <1>4, <1>5, <1>6 DEF FilesInv, ChainRight, IndexKept

(* A call goes on waiting, or it is told what may be told. *)
Told ==
  /\ caller' = [c \in FileCalls |-> caller'[c]]
  /\ \A c \in FileCalls : caller'[c] = caller[c] \/ CallerRight(caller'[c], refused)

(* When a promise settles those that waited for it are answered; *)
LEMMA CallersSettle ==
  ASSUME FilesInv, Told, refused' = refused, disk'.merged = disk.merged
  PROVE  CallersRight' /\ caller' = [c \in FileCalls |-> caller'[c]]
  BY DEF FilesInv, CallersRight, MergedWhole, Told

(* otherwise the calls are where they were. *)
LEMMA CallersSame ==
  ASSUME FilesInv, caller' = caller, refused' = refused, disk'.merged = disk.merged
  PROVE  CallersRight' /\ caller' = [c \in FileCalls |-> caller'[c]]
  BY DEF FilesInv, FilesTyped, CallersRight, MergedWhole

(* What a step of one lock may do to the disk. *)
OfLock(l, d) ==
  /\ d \in Disks /\ d.index = disk.index /\ d.merged = disk.merged
  /\ \A m \in Locked : m # l => d.jar[JarOf(m)] = disk.jar[JarOf(m)]

(* Anyone may be told that a call failed, *)
LEMMA FailedTold ==
  ASSUME NEW l \in Locked, Settle(l, "failed")
  PROVE  lock' = [lock EXCEPT ![l] = "none"] /\ Told
<1>1. CallerRight(Answered(l, "failed"), refused)
  BY DEF CallerRight
<1> QED
  BY <1>1 DEF Settle, Told

(* what has been compared may be handed out, *)
LEMMA BytesTold ==
  ASSUME NEW l \in Locked, Settle(l, Bytes(l)), l \in Hashed => Bytes(l) # "bad"
  PROVE  lock' = [lock EXCEPT ![l] = "none"] /\ Told
<1>1. CallerRight(Answered(l, Bytes(l)), refused)
  BY DEF CallerRight
<1> QED
  BY <1>1 DEF Settle, Told

(* and the registries have no hash to be compared with. *)
LEMMA WholeTold ==
  ASSUME Settle(Registry, "whole")
  PROVE  lock' = [lock EXCEPT ![Registry] = "none"] /\ Told
<1>1. CallerRight(Answered(Registry, "whole"), refused)
  BY DEF CallerRight
<1> QED
  BY <1>1 DEF Settle, Told

(* A lock is given up, *)
LEMMA AnswerKeeps ==
  ASSUME FilesInv, NEW l \in Locked, Told, lock' = [lock EXCEPT ![l] = "none"],
         lock[l] # "indexed", OfLock(l, disk'), unchecked \subseteq unchecked',
         JarOf(l) \in Hashed /\ disk'.jar[JarOf(l)] = "bad" => JarOf(l) \in unchecked',
         UNCHANGED <<chain, found, recorded, refused>>
  PROVE  FilesInv'
<1>1. "none" \in Steps
  BY DEF Steps
<1>2. /\ disk' \in Disks /\ disk'.index = disk.index /\ disk'.merged = disk.merged
      /\ \A m \in Locked : m # l => disk'.jar[JarOf(m)] = disk.jar[JarOf(m)]
  BY DEF OfLock
<1>3. Unvouched'
  BY <1>1, <1>2, JarMoves
<1>4. ChainRight'
  BY <1>1, <1>2, ChainSame
<1>5. CallersRight' /\ caller' = [c \in FileCalls |-> caller'[c]]
  BY <1>2, CallersSettle
<1>6. lock' \in [Locked -> Steps] /\ recorded' \subseteq Versions
  BY <1>1 DEF FilesInv, FilesTyped
<1> QED
  BY <1>2, <1>3, <1>4, <1>5, <1>6 DEF FilesInv, FilesTyped

(* or goes a step further, *)
LEMMA StepKeeps ==
  ASSUME FilesInv, NEW l \in Locked, NEW step \in Steps, lock' = [lock EXCEPT ![l] = step],
         lock[l] # "indexed", OfLock(l, disk'), unchecked \subseteq unchecked',
         JarOf(l) \in Hashed /\ disk'.jar[JarOf(l)] = "bad" =>
           JarOf(l) \in unchecked' \/ step \in {"hashes", "removes"},
         UNCHANGED <<chain, found, recorded, refused, caller>>
  PROVE  FilesInv'
<1>2. /\ disk' \in Disks /\ disk'.index = disk.index /\ disk'.merged = disk.merged
      /\ \A m \in Locked : m # l => disk'.jar[JarOf(m)] = disk.jar[JarOf(m)]
  BY DEF OfLock
<1>3. Unvouched'
  BY <1>2, JarMoves
<1>4. ChainRight'
  BY <1>2, ChainSame
<1>5. CallersRight' /\ caller' = [c \in FileCalls |-> caller'[c]]
  BY <1>2, CallersSame
<1>6. lock' \in [Locked -> Steps] /\ recorded' \subseteq Versions
  BY DEF FilesInv, FilesTyped
<1> QED
  BY <1>2, <1>3, <1>4, <1>5, <1>6 DEF FilesInv, FilesTyped

(* or has its jar, which is put into the index or run. *)
LEMMA HaveJarKeeps ==
  ASSUME FilesInv, NEW l \in Locked, HaveJar(l), lock[l] # "indexed", OfLock(l, disk'),
         unchecked \subseteq unchecked',
         JarOf(l) \in Hashed /\ disk'.jar[JarOf(l)] = "bad" => JarOf(l) \in unchecked',
         UNCHANGED <<found, recorded, refused>>
  PROVE  FilesInv'
<1>1. "runs" \in Steps /\ "indexed" \in Steps
  BY DEF Steps
<1>2. CASE l = Registry
  <2>1. lock' = [lock EXCEPT ![l] = "runs"] /\ UNCHANGED <<caller, chain>>
    BY <1>2 DEF HaveJar, StepsTo
  <2> QED
    BY <2>1, <1>1, StepKeeps
<1>3. CASE l # Registry
  <2>1. /\ lock' = [lock EXCEPT ![l] = "indexed"] /\ UNCHANGED caller
        /\ chain' = Append(chain, l) /\ l \in Versions
    BY <1>3 DEF HaveJar, StepsTo, Locked
  <2>2. /\ disk' \in Disks /\ disk'.index = disk.index /\ disk'.merged = disk.merged
        /\ \A m \in Locked : m # l => disk'.jar[JarOf(m)] = disk.jar[JarOf(m)]
    BY DEF OfLock
  <2>3. Unvouched'
    BY <2>1, <2>2, <1>1, JarMoves
  <2>4. ChainRight'
    BY <2>1, <2>2, ChainJoins
  <2>5. CallersRight' /\ caller' = [c \in FileCalls |-> caller'[c]]
    BY <2>1, <2>2, CallersSame
  <2>6. lock' \in [Locked -> Steps] /\ recorded' \subseteq Versions
    BY <2>1, <1>1 DEF FilesInv, FilesTyped
  <2> QED
    BY <2>2, <2>3, <2>4, <2>5, <2>6 DEF FilesInv, FilesTyped
<1> QED
  BY <1>2, <1>3

(* A lock may leave the disk alone. *)
LEMMA SameDisk == FilesInv => \A l \in Locked : OfLock(l, disk)
  BY DEF FilesInv, FilesTyped, OfLock

(* A jar of the lock's own is changed. *)
LEMMA JarOnly ==
  ASSUME FilesInv, NEW l \in Locked, NEW body \in {"none", "good", "bad"},
         disk' = [disk EXCEPT !.jar[JarOf(l)] = body]
  PROVE  OfLock(l, disk') /\ disk'.jar[JarOf(l)] = body
<1>1. disk \in Disks /\ disk.jar \in [Jars -> {"none", "good", "bad"}]
  BY DEF FilesInv, FilesTyped, Disks
<1>2. disk'.jar = [disk.jar EXCEPT ![JarOf(l)] = body]
  BY <1>1 DEF Disks
<1>3. disk' \in Disks /\ disk'.index = disk.index /\ disk'.merged = disk.merged
  BY <1>1, <1>2 DEF Disks
<1> QED
  BY <1>1, <1>2, <1>3, OwnJars DEF OfLock

(* Only the report is changed. *)
LEMMA ReportOnly ==
  ASSUME FilesInv, NEW l \in Locked, NEW report \in {"none", "torn", "whole"},
         disk' = [disk EXCEPT !.report = report]
  PROVE  OfLock(l, disk') /\ disk'.jar = disk.jar
  BY DEF FilesInv, FilesTyped, Disks, OfLock

-----------------------------------------------------------------------------
(* A jar the index has is handed out. *)
LEMMA LookInIndexKeeps ==
  ASSUME FilesInv, NEW v \in Versions, LookInIndex(v)
  PROVE  FilesInv'
<1>1. v \in Locked /\ JarOf(v) = v /\ OfLock(v, disk) /\ v # Registry
  BY OwnJars, SameDisk
<1>2. /\ lock[v] = "begins" /\ disk' = disk /\ unchecked' = unchecked
      /\ UNCHANGED <<chain, found, recorded, refused>>
      /\ Settle(v, Bytes(v)) \/ StepsTo(v, "fetches") \/ Settle(v, "failed")
  BY DEF LookInIndex
<1>3. v \in Hashed => Bytes(v) # "bad"
  BY <1>1, <1>2, BytesRight DEF FilesInv
<1>4. v \in Hashed /\ disk.jar[v] = "bad" => v \in unchecked
  BY <1>1, <1>2 DEF FilesInv, Unvouched
<1>5. CASE Settle(v, Bytes(v))
  BY <1>1, <1>2, <1>3, <1>4, <1>5, AnswerKeeps, BytesTold
<1>6. CASE Settle(v, "failed")
  BY <1>1, <1>2, <1>4, <1>6, AnswerKeeps, FailedTold
<1>7. CASE StepsTo(v, "fetches")
  <2>1. lock' = [lock EXCEPT ![v] = "fetches"] /\ UNCHANGED caller /\ "fetches" \in Steps
    BY <1>7 DEF StepsTo, Steps
  <2> QED
    BY <1>1, <1>2, <1>4, <2>1, StepKeeps
<1> QED
  BY <1>2, <1>5, <1>6, <1>7

(* A jar that is there is believed, a download is to be hashed if its hash is known, *)
LEMMA FetchJarKeeps ==
  ASSUME FilesInv, NEW l \in Locked, FetchJar(l)
  PROVE  FilesInv'
<1> DEFINE j == JarOf(l)
<1>1. /\ lock[l] = "fetches" /\ unchecked' = unchecked /\ UNCHANGED <<found, recorded, refused>>
      /\ \/ HaveJar(l) /\ disk' = disk
         \/ /\ \E body \in {"good", "bad"} : disk' = [disk EXCEPT !.jar[j] = body]
            /\ IF j \in Hashed THEN StepsTo(l, "hashes") /\ UNCHANGED chain ELSE HaveJar(l)
         \/ Settle(l, "failed") /\ disk' = disk /\ chain' = chain
  BY DEF FetchJar
<1>2. j \in Hashed /\ disk.jar[j] = "bad" => j \in unchecked
  BY <1>1 DEF FilesInv, Unvouched
<1>3. OfLock(l, disk)
  BY SameDisk
<1>4. CASE HaveJar(l) /\ disk' = disk
  BY <1>1, <1>2, <1>3, <1>4, HaveJarKeeps
<1>5. CASE Settle(l, "failed") /\ disk' = disk /\ chain' = chain
  BY <1>1, <1>2, <1>3, <1>5, AnswerKeeps, FailedTold
<1>6. ASSUME NEW body \in {"good", "bad"}, disk' = [disk EXCEPT !.jar[j] = body],
             IF j \in Hashed THEN StepsTo(l, "hashes") /\ UNCHANGED chain ELSE HaveJar(l)
      PROVE  FilesInv'
  <2>1. OfLock(l, disk')
    BY <1>6, JarOnly
  <2>2. CASE j \in Hashed
    <3>1. /\ lock' = [lock EXCEPT ![l] = "hashes"] /\ UNCHANGED <<caller, chain>>
          /\ "hashes" \in Steps
      BY <1>6, <2>2 DEF StepsTo, Steps
    <3> QED
      BY <1>1, <2>1, <3>1, StepKeeps
  <2>3. CASE j \notin Hashed
    BY <1>1, <1>6, <2>1, <2>3, HaveJarKeeps
  <2> QED
    BY <2>2, <2>3
<1> QED
  BY <1>1, <1>4, <1>5, <1>6

(* and only one that passes is, *)
LEMMA HashJarKeeps ==
  ASSUME FilesInv, NEW l \in Locked, HashJar(l)
  PROVE  FilesInv'
<1>1. /\ lock[l] = "hashes" /\ unchecked' = unchecked /\ disk' = disk
      /\ UNCHANGED <<found, recorded, refused>>
      /\ \/ disk.jar[JarOf(l)] = "good" /\ HaveJar(l)
         \/ disk.jar[JarOf(l)] = "bad" /\ StepsTo(l, "removes") /\ chain' = chain
         \/ disk.jar[JarOf(l)] = "none" /\ Settle(l, "failed") /\ chain' = chain
  BY DEF HashJar
<1>2. OfLock(l, disk)
  BY SameDisk
<1>3. CASE disk.jar[JarOf(l)] = "good" /\ HaveJar(l)
  BY <1>1, <1>2, <1>3, HaveJarKeeps
<1>4. CASE disk.jar[JarOf(l)] = "none" /\ Settle(l, "failed") /\ chain' = chain
  BY <1>1, <1>2, <1>4, AnswerKeeps, FailedTold
<1>5. CASE StepsTo(l, "removes") /\ chain' = chain
  <2>1. lock' = [lock EXCEPT ![l] = "removes"] /\ UNCHANGED caller /\ "removes" \in Steps
    BY <1>5 DEF StepsTo, Steps
  <2> QED
    BY <1>1, <1>2, <1>5, <2>1, StepKeeps
<1> QED
  BY <1>1, <1>3, <1>4, <1>5

(* the other being removed, or remembered as unchecked (downloadVerifiedJar). *)
LEMMA RemoveBadJarKeeps ==
  ASSUME FilesInv, NEW l \in Locked, RemoveBadJar(l)
  PROVE  FilesInv'
<1>1. /\ lock[l] = "removes" /\ Settle(l, "failed") /\ UNCHANGED <<chain, found, recorded, refused>>
      /\ \/ disk' = [disk EXCEPT !.jar[JarOf(l)] = "none"] /\ unchecked' = unchecked
         \/ disk' = disk /\ unchecked' = unchecked \cup {JarOf(l)}
  BY DEF RemoveBadJar
<1>2. CASE disk' = disk /\ unchecked' = unchecked \cup {JarOf(l)}
  BY <1>1, <1>2, SameDisk, AnswerKeeps, FailedTold
<1>3. CASE disk' = [disk EXCEPT !.jar[JarOf(l)] = "none"] /\ unchecked' = unchecked
  <2>1. OfLock(l, disk') /\ disk'.jar[JarOf(l)] = "none"
    BY <1>3, JarOnly
  <2> QED
    BY <1>1, <1>3, <2>1, AnswerKeeps, FailedTold
<1> QED
  BY <1>1, <1>2, <1>3

(* The versions that are recorded are those of the index and the one that is written. *)
LEMMA IndexOnly ==
  ASSUME FilesInv, NEW index \in SUBSET Versions, disk' = [disk EXCEPT !.index = index]
  PROVE  /\ disk' \in Disks /\ disk'.index = index /\ disk'.merged = disk.merged
         /\ disk'.jar = disk.jar
  BY DEF FilesInv, FilesTyped, Disks

(* Nothing changed that the locks and their jars are about. *)
LEMMA UnvouchedSame ==
  ASSUME FilesInv, UNCHANGED <<lock, unchecked>>, disk'.jar = disk.jar
  PROVE  Unvouched'
<1>1. \A m \in Locked : JarOf(m)' = JarOf(m)
  BY DEF JarOf
<1> QED
  BY <1>1 DEF FilesInv, Unvouched

(* The head of those that wait reads the index, *)
LEMMA ReadIndexKeeps ==
  ASSUME FilesInv, ReadIndex
  PROVE  FilesInv'
<1>1. /\ chain # << >> /\ found' = <<disk.index>>
      /\ UNCHANGED <<disk, lock, chain, caller, unchecked, refused, recorded>>
  BY DEF ReadIndex, MayReadIndex
<1>2. Unvouched'
  BY <1>1, UnvouchedSame
<1>3. ChainRight'
  BY <1>1 DEF FilesInv, ChainRight, IndexKept, Distinct
<1> QED
  BY <1>1, <1>2, <1>3 DEF FilesInv, FilesTyped, CallersRight, MergedWhole

(* adds itself to what it has read, and is answered: nobody has written in between. Or its
   write fails, and may lose the index. *)
LEMMA WriteIndexKeeps ==
  ASSUME FilesInv, WriteIndex
  PROVE  FilesInv'
<1> DEFINE v == Head(chain)
<1>1. /\ found # NoneFound /\ chain' = Tail(chain) /\ found' = NoneFound
      /\ UNCHANGED <<unchecked, refused>>
      /\ Settle(v, Bytes(v)) \/ Settle(v, "failed")
  BY DEF WriteIndex
<1>2. chain \in Seq(Versions) /\ chain # << >> /\ Head(found) = disk.index /\ Distinct(chain)
  <2>1. found = <<disk.index>>
    BY <1>1 DEF FilesInv, ChainRight
  <2> QED
    BY <1>1, <2>1 DEF FilesInv, ChainRight
<1>3. /\ Len(chain) \in Nat \ {0} /\ DOMAIN chain = 1 .. Len(chain) /\ v = chain[1]
      /\ chain' \in Seq(Versions) /\ DOMAIN chain' = 1 .. Len(chain) - 1
      /\ \A i \in 1 .. Len(chain) - 1 : chain'[i] = chain[i + 1]
  BY <1>1, <1>2
<1>4. \A i \in 1 .. Len(chain) - 1 : i + 1 \in 1 .. Len(chain) /\ i + 1 # 1
  BY <1>3
<1>5. v \in Versions /\ v \in Locked /\ JarOf(v) = v /\ lock[v] = "indexed"
  BY <1>2, <1>3, OwnJars DEF FilesInv, ChainRight
<1>i. PICK index \in SUBSET Versions : disk' = [disk EXCEPT !.index = index] /\ recorded' \subseteq index
  <2>1. disk.index \in SUBSET Versions /\ recorded \subseteq disk.index
    BY DEF FilesInv, FilesTyped, Disks, ChainRight, IndexKept
  <2>2. CASE disk' = [disk EXCEPT !.index = Head(found) \cup {v}] /\ recorded' = recorded \cup {v}
    <3>1. disk' = [disk EXCEPT !.index = disk.index \cup {v}] /\ recorded' = recorded \cup {v}
      BY <1>2, <2>2
    <3>2. disk.index \cup {v} \in SUBSET Versions
      BY <1>5, <2>1
    <3>3. recorded' \subseteq disk.index \cup {v}
      BY <2>1, <3>1
    <3> QED
      BY <3>1, <3>2, <3>3
  <2>3. CASE \E lost \in {{}, disk.index} :
               disk' = [disk EXCEPT !.index = @ \ lost] /\ recorded' = recorded \ lost
    <3>1. PICK lost \in {{}, disk.index} :
                 disk' = [disk EXCEPT !.index = @ \ lost] /\ recorded' = recorded \ lost
      BY <2>3
    <3>2. disk' = [disk EXCEPT !.index = disk.index \ lost]
      BY <3>1
    <3>3. disk.index \ lost \in SUBSET Versions /\ recorded' \subseteq disk.index \ lost
      BY <2>1, <3>1
    <3> QED
      BY <3>2, <3>3
  <2>4. \/ disk' = [disk EXCEPT !.index = Head(found) \cup {v}] /\ recorded' = recorded \cup {v}
        \/ \E lost \in {{}, disk.index} :
              disk' = [disk EXCEPT !.index = @ \ lost] /\ recorded' = recorded \ lost
    BY Zenon DEF WriteIndex
  <2> QED
    BY <2>2, <2>3, <2>4
<1>6. /\ disk' \in Disks /\ disk'.index = index /\ disk'.merged = disk.merged
      /\ disk'.jar = disk.jar
  BY <1>i, IndexOnly
<1>7. lock' = [lock EXCEPT ![v] = "none"] /\ Told
  <2>1. v \in Hashed => Bytes(v) # "bad"
    BY <1>5, BytesRight DEF FilesInv
  <2> QED
    BY <1>1, <1>5, <2>1, BytesTold, FailedTold
<1>8. lock \in [Locked -> Steps] /\ "none" \in Steps
  BY DEF FilesInv, FilesTyped, Steps
<1>9. Unvouched'
  <2>1. JarOf(v) \in Hashed /\ disk.jar[JarOf(v)] = "bad" => JarOf(v) \in unchecked
    BY <1>5 DEF FilesInv, Unvouched
  <2> QED
    BY <1>1, <1>5, <1>6, <1>7, <1>8, <2>1, JarMoves
<1>10. ChainRight'
  <2>1. Distinct(chain')
    <3>1. ASSUME NEW i \in 1 .. Len(chain) - 1, NEW j \in 1 .. Len(chain) - 1,
                 chain'[i] = chain'[j]
          PROVE  i = j
      <4>1. chain[i + 1] = chain[j + 1] /\ i + 1 \in DOMAIN chain /\ j + 1 \in DOMAIN chain
        BY <1>3, <1>4, <3>1
      <4>2. i + 1 = j + 1
        BY <1>2, <4>1 DEF Distinct
      <4> QED
        BY <4>2
    <3> QED
      BY <1>3, <3>1 DEF Distinct
  <2>2. \A i \in DOMAIN chain' : lock'[chain'[i]] = "indexed"
    <3>1. ASSUME NEW i \in DOMAIN chain'
          PROVE  chain'[i] \in Versions /\ chain'[i] # v /\ lock[chain'[i]] = "indexed"
      <4>1. /\ i \in 1 .. Len(chain) - 1 /\ i + 1 \in 1 .. Len(chain) /\ i + 1 # 1
            /\ 1 \in 1 .. Len(chain)
        BY <1>3, <1>4
      <4> QED
        BY <1>2, <1>3, <4>1 DEF FilesInv, ChainRight, Distinct
    <3> QED
      BY <1>7, <1>8, <3>1, OwnJars
  <2>3. IndexKept'
    BY <1>i, <1>6 DEF IndexKept
  <2> QED
    BY <1>1, <1>3, <2>1, <2>2, <2>3 DEF ChainRight, NoneFound
<1>11. CallersRight' /\ caller' = [c \in FileCalls |-> caller'[c]]
  BY <1>1, <1>6, <1>7, CallersSettle
<1>12. lock' \in [Locked -> Steps] /\ recorded' \subseteq Versions
  BY <1>i, <1>5, <1>7, <1>8 DEF FilesInv, FilesTyped
<1> QED
  BY <1>6, <1>9, <1>10, <1>11, <1>12 DEF FilesInv, FilesTyped

-----------------------------------------------------------------------------
(* A step of the registries' lock leaves the jars alone. *)
LEMMA RegistryAnswerKeeps ==
  ASSUME FilesInv, Settle(Registry, "whole") \/ Settle(Registry, "failed"),
         lock[Registry] \notin {"indexed", "hashes", "removes"},
         OfLock(Registry, disk'), disk'.jar = disk.jar,
         UNCHANGED <<chain, found, recorded, refused, unchecked>>
  PROVE  FilesInv'
<1>1. Registry \in Locked
  BY OwnJars
<1>2. lock' = [lock EXCEPT ![Registry] = "none"] /\ Told
  BY <1>1, FailedTold, WholeTold
<1> QED
  BY <1>1, <1>2, AnswerKeeps, OwnJars DEF FilesInv, Unvouched

(* likewise its steps. *)
LEMMA RegistryStepKeeps ==
  ASSUME FilesInv, NEW step \in Steps, lock' = [lock EXCEPT ![Registry] = step],
         lock[Registry] \notin {"indexed", "hashes", "removes"},
         OfLock(Registry, disk'), disk'.jar = disk.jar,
         UNCHANGED <<chain, found, recorded, refused, unchecked, caller>>
  PROVE  FilesInv'
<1>1. Registry \in Locked /\ UNCHANGED <<chain, found, recorded, refused, caller>>
  BY OwnJars
<1> QED
  BY <1>1, StepKeeps, OwnJars DEF FilesInv, Unvouched

(* The report is in memory, on disk, or must be made, *)
LEMMA LoadReportKeeps ==
  ASSUME FilesInv, LoadReport
  PROVE  FilesInv'
<1>1. /\ lock[Registry] = "begins" /\ UNCHANGED <<chain, found, recorded, refused, unchecked>>
      /\ disk' = disk \/ disk' = [disk EXCEPT !.report = "none"]
      /\ \/ Settle(Registry, "whole") \/ Settle(Registry, "failed")
         \/ StepsTo(Registry, "fetches")
  BY DEF LoadReport
<1>2. OfLock(Registry, disk') /\ disk'.jar = disk.jar
  BY <1>1, SameDisk, ReportOnly, OwnJars
<1>3. CASE Settle(Registry, "whole") \/ Settle(Registry, "failed")
  BY <1>1, <1>2, <1>3, RegistryAnswerKeeps
<1>4. CASE StepsTo(Registry, "fetches")
  <2>1. lock' = [lock EXCEPT ![Registry] = "fetches"] /\ UNCHANGED caller /\ "fetches" \in Steps
    BY <1>4 DEF StepsTo, Steps
  <2> QED
    BY <1>1, <1>2, <2>1, RegistryStepKeeps
<1> QED
  BY <1>1, <1>3, <1>4

(* by a JVM that begins it, *)
LEMMA JvmTearsKeeps ==
  ASSUME FilesInv, JvmTears
  PROVE  FilesInv'
<1>1. /\ lock[Registry] = "runs" /\ UNCHANGED <<chain, found, recorded, refused, unchecked>>
      /\ disk' = [disk EXCEPT !.report = "torn"]
      /\ lock' = [lock EXCEPT ![Registry] = "writes"] /\ UNCHANGED caller /\ "writes" \in Steps
  BY DEF JvmTears, StepsTo, Steps
<1>2. OfLock(Registry, disk') /\ disk'.jar = disk.jar
  BY <1>1, ReportOnly, OwnJars
<1> QED
  BY <1>1, <1>2, RegistryStepKeeps

(* completes it, *)
LEMMA JvmEndsKeeps ==
  ASSUME FilesInv, JvmEnds
  PROVE  FilesInv'
<1>1. /\ lock[Registry] = "writes" /\ UNCHANGED <<chain, found, recorded, refused, unchecked>>
      /\ lock' = [lock EXCEPT ![Registry] = "reads"] /\ UNCHANGED caller /\ "reads" \in Steps
  BY DEF JvmEnds, StepsTo, Steps
<1>2. \E report \in {"none", "torn", "whole"} : disk' = [disk EXCEPT !.report = report]
  <2>1. disk.report \in {"none", "torn", "whole"}
    BY DEF FilesInv, FilesTyped, Disks
  <2> QED
    BY <2>1 DEF JvmEnds
<1>3. OfLock(Registry, disk') /\ disk'.jar = disk.jar
  BY <1>2, ReportOnly, OwnJars
<1> QED
  BY <1>1, <1>3, RegistryStepKeeps

(* or fails, *)
LEMMA JvmFailsKeeps ==
  ASSUME FilesInv, JvmFails
  PROVE  FilesInv'
<1>1. /\ lock[Registry] \in {"runs", "writes"} /\ Settle(Registry, "failed") /\ disk' = disk
      /\ UNCHANGED <<chain, found, recorded, refused, unchecked>>
  BY DEF JvmFails
<1> QED
  BY <1>1, RegistryAnswerKeeps, SameDisk, OwnJars

(* and it is read (loadRegistriesInternal, runDataGen). *)
LEMMA ReadReportKeeps ==
  ASSUME FilesInv, ReadReport
  PROVE  FilesInv'
<1>1. /\ lock[Registry] = "reads"
      /\ Settle(Registry, "whole") \/ Settle(Registry, "failed")
      /\ disk' = disk /\ UNCHANGED <<chain, found, recorded, refused, unchecked>>
  BY DEF ReadReport
<1> QED
  BY <1>1, RegistryAnswerKeeps, SameDisk, OwnJars

(* A step of one call, which leaves the locks and the jars alone. *)
LEMMA CallerKeeps ==
  ASSUME FilesInv, NEW c \in FileCalls, caller' = [caller EXCEPT ![c] = caller'[c]],
         CallerRight(caller'[c], refused'), refused \subseteq refused', MergedWhole',
         disk' \in Disks, disk'.jar = disk.jar, disk'.index = disk.index,
         UNCHANGED <<lock, chain, found, recorded, unchecked>>
  PROVE  FilesInv'
<1>1. Unvouched'
  BY UnvouchedSame
<1>2. ChainRight'
  BY DEF FilesInv, ChainRight, IndexKept, Distinct
<1>3. ASSUME NEW d \in FileCalls
      PROVE  CallerRight(caller'[d], refused')
  <2>1. CASE d = c
    BY <2>1
  <2>2. CASE d # c
    <3>1. caller'[d] = caller[d] /\ CallerRight(caller[d], refused)
      BY <2>2 DEF FilesInv, FilesTyped, CallersRight
    <3>2. CASE caller[d] = Rests \/ \E l \in Locked : caller[d] = Waits(l)
      BY <3>1, <3>2 DEF CallerRight
    <3>3. CASE \E what, with : caller[d] = Answered(what, with) /\ (what \in Hashed => with # "bad")
      BY <3>1, <3>3 DEF CallerRight
    <3>4. ASSUME NEW step \in {"sides", "renames"}, NEW sides \in SUBSET Sides,
                 NEW left \in SUBSET Sides, NEW failed \in SUBSET Sides,
                 caller[d] = Merges(step, sides, left, failed), left \subseteq refused,
                 step = "renames" => sides \cup left = Sides
          PROVE  CallerRight(caller'[d], refused')
      <4>1. left \subseteq refused'
        BY <3>4
      <4> QED
        BY <3>1, <3>4, <4>1 DEF CallerRight
    <3> QED
      BY <3>1, <3>2, <3>3, <3>4 DEF CallerRight
  <2> QED
    BY <2>1, <2>2
<1>4. CallersRight'
  BY <1>3 DEF CallersRight
<1>5. FilesTyped'
  BY DEF FilesInv, FilesTyped
<1> QED
  BY <1>1, <1>2, <1>4, <1>5 DEF FilesInv

(* What a merge has seen to. *)
LEMMA MergeOf ==
  ASSUME FilesInv, NEW c \in FileCalls, caller[c].at \in {"sides", "renames"}
  PROVE  /\ caller[c] = Merges(caller[c].at, caller[c].sides, caller[c].left, caller[c].failed)
         /\ caller[c].sides \in SUBSET Sides /\ caller[c].left \in SUBSET Sides
         /\ caller[c].failed \in SUBSET Sides /\ caller[c].left \subseteq refused
         /\ caller[c].at = "renames" => caller[c].sides \cup caller[c].left = Sides
<1>1. CallerRight(caller[c], refused)
  BY DEF FilesInv, CallersRight
<1>2. CASE caller[c] = Rests
  BY <1>2 DEF Rests
<1>3. CASE \E l \in Locked : caller[c] = Waits(l)
  BY <1>3 DEF Waits
<1>4. CASE \E what, with : caller[c] = Answered(what, with)
  BY <1>4 DEF Answered
<1>5. ASSUME NEW step \in {"sides", "renames"}, NEW sides \in SUBSET Sides,
             NEW left \in SUBSET Sides, NEW failed \in SUBSET Sides,
             caller[c] = Merges(step, sides, left, failed), left \subseteq refused,
             step = "renames" => sides \cup left = Sides
      PROVE  /\ caller[c] = Merges(caller[c].at, caller[c].sides, caller[c].left, caller[c].failed)
             /\ caller[c].sides \in SUBSET Sides /\ caller[c].left \in SUBSET Sides
             /\ caller[c].failed \in SUBSET Sides /\ caller[c].left \subseteq refused
             /\ caller[c].at = "renames" => caller[c].sides \cup caller[c].left = Sides
  <2>1. /\ caller[c].at = step /\ caller[c].sides = sides /\ caller[c].left = left
        /\ caller[c].failed = failed
    BY <1>5 DEF Merges
  <2> QED
    BY <2>1, <1>5
<1> QED
  BY <1>1, <1>2, <1>3, <1>4, <1>5 DEF CallerRight

(* A call joins a resolution or starts one (resolveVersionJar, loadRegistries). *)
LEMMA JoinOrStartKeeps ==
  ASSUME FilesInv, NEW c \in FileCalls, NEW l \in Locked, JoinOrStart(c, l)
  PROVE  FilesInv'
<1>1. /\ caller' = [caller EXCEPT ![c] = Waits(l)]
      /\ UNCHANGED <<disk, chain, found, unchecked, refused, recorded>>
      /\ \/ lock' = lock
         \/ lock[l] = "none" /\ lock' = [lock EXCEPT ![l] = "begins"]
  BY DEF JoinOrStart, Joins
<1>2. disk \in Disks /\ lock \in [Locked -> Steps] /\ "begins" \in Steps
  BY DEF FilesInv, FilesTyped, Steps
<1>3. Unvouched'
  <2>1. CASE lock' = lock
    BY <1>1, <2>1, UnvouchedSame
  <2>2. CASE lock[l] = "none" /\ lock' = [lock EXCEPT ![l] = "begins"]
    <3>1. JarOf(l) \in Hashed /\ disk.jar[JarOf(l)] = "bad" => JarOf(l) \in unchecked
      BY <2>2 DEF FilesInv, Unvouched
    <3> QED
      BY <1>1, <1>2, <2>2, <3>1, JarMoves
  <2> QED
    BY <1>1, <2>1, <2>2
<1>4. ChainRight'
  <2>1. CASE lock' = lock
    BY <1>1, <2>1 DEF FilesInv, ChainRight, IndexKept, Distinct
  <2>2. CASE lock[l] = "none" /\ lock' = [lock EXCEPT ![l] = "begins"]
    BY <1>1, <1>2, <2>2, ChainSame
  <2> QED
    BY <1>1, <2>1, <2>2
<1>5. caller' = [d \in FileCalls |-> caller'[d]]
  BY <1>1 DEF FilesInv, FilesTyped
<1>6. CallersRight'
  <2>1. CallerRight(Waits(l), refused)
    BY DEF CallerRight
  <2>2. \A d \in FileCalls : CallerRight(caller'[d], refused)
    BY <1>1, <2>1 DEF FilesInv, FilesTyped, CallersRight
  <2> QED
    BY <1>1, <2>2 DEF FilesInv, CallersRight, MergedWhole
<1>7. lock' \in [Locked -> Steps]
  BY <1>1, <1>2
<1> QED
  BY <1>1, <1>2, <1>3, <1>4, <1>5, <1>6, <1>7 DEF FilesInv, FilesTyped

(* A call takes the merged mappings or sets out to merge them, *)
LEMMA StartMergeKeeps ==
  ASSUME FilesInv, NEW c \in FileCalls, StartMerge(c)
  PROVE  FilesInv'
<1>1. UNCHANGED <<disk, lock, chain, found, unchecked, refused, recorded>>
  BY DEF StartMerge
<1>2. /\ caller' = [caller EXCEPT ![c] = caller'[c]]
      /\ \/ caller'[c] = Answered(Merged, disk.merged)
         \/ caller'[c] = Merges("sides", {}, {}, {})
  BY DEF StartMerge, FilesInv, FilesTyped
<1>3. CallerRight(caller'[c], refused)
  <2>1. CallerRight(Answered(Merged, disk.merged), refused)
    BY OwnJars DEF CallerRight
  <2>2. CallerRight(Merges("sides", {}, {}, {}), refused)
    BY DEF CallerRight
  <2> QED
    BY <1>2, <2>1, <2>2
<1>4. MergedWhole' /\ disk \in Disks
  BY <1>1 DEF FilesInv, CallersRight, MergedWhole, FilesTyped
<1> QED
  BY <1>1, <1>2, <1>3, <1>4, CallerKeeps

(* sees to each side, *)
LEMMA EnsureSideKeeps ==
  ASSUME FilesInv, NEW c \in FileCalls, EnsureSide(c)
  PROVE  FilesInv'
<1> DEFINE x == caller[c]
<1>1. /\ x.at = "sides" /\ UNCHANGED <<lock, chain, found, unchecked, recorded>>
  BY DEF EnsureSide
<1>2. /\ x = Merges("sides", x.sides, x.left, x.failed)
      /\ x.sides \in SUBSET Sides /\ x.left \in SUBSET Sides /\ x.failed \in SUBSET Sides
      /\ x.left \subseteq refused
  BY <1>1, MergeOf
<1>3. PICK side \in Sides :
        \/ /\ caller' = [caller EXCEPT ![c].sides = @ \cup {side}]
           /\ disk' = [disk EXCEPT !.side = @ \cup {side}] /\ refused' = refused
        \/ /\ refused' = refused \cup {side} /\ disk' = disk
           /\ caller' = [caller EXCEPT ![c].left = @ \cup {side}]
        \/ /\ caller' = [caller EXCEPT ![c].failed = @ \cup {side}]
           /\ disk' = disk /\ refused' = refused
  BY DEF EnsureSide
<1>4. caller = [d \in FileCalls |-> caller[d]]
  BY DEF FilesInv, FilesTyped
<1>5. caller' = [caller EXCEPT ![c] = caller'[c]] /\ CallerRight(caller'[c], refused')
  <2>1. CASE /\ caller' = [caller EXCEPT ![c].sides = @ \cup {side}] /\ refused' = refused
    <3>1. caller'[c] = Merges("sides", x.sides \cup {side}, x.left, x.failed)
      BY <1>2, <1>4, <2>1 DEF Merges
    <3>2. x.sides \cup {side} \in SUBSET Sides
      BY <1>2
    <3>3. CallerRight(caller'[c], refused')
      BY <1>2, <2>1, <3>1, <3>2 DEF CallerRight
    <3> QED
      BY <1>4, <2>1, <3>3
  <2>2. CASE caller' = [caller EXCEPT ![c].left = @ \cup {side}] /\ refused' = refused \cup {side}
    <3>1. caller'[c] = Merges("sides", x.sides, x.left \cup {side}, x.failed)
      BY <1>2, <1>4, <2>2 DEF Merges
    <3>2. x.left \cup {side} \in SUBSET Sides /\ x.left \cup {side} \subseteq refused'
      BY <1>2, <2>2
    <3>3. CallerRight(caller'[c], refused')
      BY <1>2, <3>1, <3>2 DEF CallerRight
    <3> QED
      BY <1>4, <2>2, <3>3
  <2>3. CASE caller' = [caller EXCEPT ![c].failed = @ \cup {side}] /\ refused' = refused
    <3>1. caller'[c] = Merges("sides", x.sides, x.left, x.failed \cup {side})
      BY <1>2, <1>4, <2>3 DEF Merges
    <3>2. x.failed \cup {side} \in SUBSET Sides
      BY <1>2
    <3>3. CallerRight(caller'[c], refused')
      BY <1>2, <2>3, <3>1, <3>2 DEF CallerRight
    <3> QED
      BY <1>4, <2>3, <3>3
  <2> QED
    BY <1>3, <2>1, <2>2, <2>3
<1>6. /\ disk' \in Disks /\ disk'.jar = disk.jar /\ disk'.index = disk.index
      /\ disk'.merged = disk.merged
  <2>1. disk \in Disks
    BY DEF FilesInv, FilesTyped
  <2> QED
    BY <1>3, <2>1 DEF Disks
<1>7. MergedWhole'
  BY <1>3, <1>6 DEF FilesInv, CallersRight, MergedWhole
<1>8. refused \subseteq refused'
  BY <1>3
<1> QED
  BY <1>1, <1>5, <1>6, <1>7, <1>8, CallerKeeps

(* goes on if no side's failure may pass, *)
LEMMA MergeKeeps ==
  ASSUME FilesInv, NEW c \in FileCalls, Merge(c)
  PROVE  FilesInv'
<1> DEFINE x == caller[c]
<1>1. /\ x.at = "sides" /\ x.sides \cup x.left \cup x.failed = Sides
      /\ UNCHANGED <<disk, lock, chain, found, unchecked, refused, recorded>>
      /\ caller' = [caller EXCEPT ![c] = IF MayMerge(c) THEN [@ EXCEPT !.at = "renames"]
                                         ELSE Answered(Merged, {})]
  BY DEF Merge
<1>2. /\ x = Merges("sides", x.sides, x.left, x.failed)
      /\ x.sides \in SUBSET Sides /\ x.left \in SUBSET Sides /\ x.failed \in SUBSET Sides
      /\ x.left \subseteq refused
  BY <1>1, MergeOf
<1>5. caller' = [caller EXCEPT ![c] = caller'[c]] /\ CallerRight(caller'[c], refused)
  <2>1. CASE MayMerge(c)
    <3>1. x.failed = {} /\ x.sides \cup x.left = Sides
      BY <1>1, <2>1 DEF MayMerge
    <3>2. caller' = [caller EXCEPT ![c] = [x EXCEPT !.at = "renames"]]
      BY <1>1, <2>1
    <3>3. [x EXCEPT !.at = "renames"] = Merges("renames", x.sides, x.left, x.failed)
      BY <1>2 DEF Merges
    <3>4. CallerRight(Merges("renames", x.sides, x.left, x.failed), refused)
      BY <1>2, <3>1 DEF CallerRight
    <3> QED
      BY <3>2, <3>3, <3>4 DEF FilesInv, FilesTyped
  <2>2. CASE ~MayMerge(c)
    <3>1. caller' = [caller EXCEPT ![c] = Answered(Merged, {})]
      BY <1>1, <2>2
    <3>2. CallerRight(Answered(Merged, {}), refused)
      BY OwnJars DEF CallerRight
    <3> QED
      BY <3>1, <3>2 DEF FilesInv, FilesTyped
  <2> QED
    BY <2>1, <2>2
<1>6. MergedWhole' /\ disk \in Disks
  BY <1>1 DEF FilesInv, CallersRight, MergedWhole, FilesTyped
<1> QED
  BY <1>1, <1>5, <1>6, CallerKeeps

(* and puts the file in its place (resolveMojangTinyFile). *)
LEMMA RenameMergedKeeps ==
  ASSUME FilesInv, NEW c \in FileCalls, RenameMerged(c)
  PROVE  FilesInv'
<1> DEFINE x == caller[c]
<1>1. /\ x.at = "renames" /\ disk' = [disk EXCEPT !.merged = x.sides]
      /\ caller' = [caller EXCEPT ![c] = Answered(Merged, x.sides)]
      /\ UNCHANGED <<lock, chain, found, unchecked, refused, recorded>>
  BY DEF RenameMerged
<1>2. x.sides \in SUBSET Sides /\ x.left \subseteq refused /\ x.sides \cup x.left = Sides
  BY <1>1, MergeOf
<1>3. /\ disk' \in Disks /\ disk'.jar = disk.jar /\ disk'.index = disk.index
      /\ disk'.merged = x.sides
  <2>1. disk \in Disks
    BY DEF FilesInv, FilesTyped
  <2> QED
    BY <1>1, <1>2, <2>1 DEF Disks
<1>4. MergedWhole'
  BY <1>1, <1>2, <1>3 DEF MergedWhole
<1>5. caller' = [caller EXCEPT ![c] = caller'[c]] /\ CallerRight(caller'[c], refused)
  <2>1. CallerRight(Answered(Merged, x.sides), refused)
    BY OwnJars DEF CallerRight
  <2> QED
    BY <1>1, <2>1 DEF FilesInv, FilesTyped
<1> QED
  BY <1>1, <1>3, <1>4, <1>5, CallerKeeps

-----------------------------------------------------------------------------
(* A jar is pruned (manage-cache), *)
LEMMA PruneJarKeeps ==
  ASSUME FilesInv, NEW j \in Jars, PruneJar(j)
  PROVE  FilesInv'
<1>1. /\ disk' = [disk EXCEPT !.jar[j] = "none"] /\ unchecked' = unchecked \ {j}
      /\ UNCHANGED <<lock, chain, found, caller, refused, recorded>>
  BY DEF PruneJar
<1>2. /\ disk' \in Disks /\ disk'.index = disk.index /\ disk'.merged = disk.merged
      /\ disk'.jar = [disk.jar EXCEPT ![j] = "none"]
  <2>1. disk \in Disks /\ disk.jar \in [Jars -> {"none", "good", "bad"}]
    BY DEF FilesInv, FilesTyped, Disks
  <2>2. disk'.jar = [disk.jar EXCEPT ![j] = "none"]
    BY <1>1, <2>1 DEF Disks
  <2> QED
    BY <1>1, <2>1, <2>2 DEF Disks
<1>3. Unvouched'
  <2>1. ASSUME NEW m \in Locked, JarOf(m) \in Hashed, disk'.jar[JarOf(m)] = "bad"
        PROVE  JarOf(m) \in unchecked' \/ lock'[m] \in {"hashes", "removes"}
    <3>1. JarOf(m) # j /\ disk.jar[JarOf(m)] = "bad"
      <4>1. disk.jar \in [Jars -> {"none", "good", "bad"}] /\ JarOf(m) \in Jars
        BY OwnJars DEF FilesInv, FilesTyped, Disks
      <4> QED
        BY <1>2, <2>1, <4>1
    <3> QED
      BY <1>1, <2>1, <3>1 DEF FilesInv, Unvouched
  <2>2. \A m \in Locked : JarOf(m)' = JarOf(m)
    BY DEF JarOf
  <2> QED
    BY <2>1, <2>2 DEF Unvouched
<1>4. ChainRight'
  BY <1>1, <1>2 DEF FilesInv, ChainRight, IndexKept, Distinct
<1>5. CallersRight' /\ caller' = [c \in FileCalls |-> caller'[c]]
  BY <1>1, <1>2, CallersSame
<1> QED
  BY <1>1, <1>2, <1>3, <1>4, <1>5 DEF FilesInv, FilesTyped

(* JVMs go on that nobody waits for, *)
LEMMA OrphansKeep ==
  ASSUME FilesInv, OrphanWrites \/ OrphanEnds
  PROVE  FilesInv'
<1>1. /\ \/ disk' = disk
         \/ \E report \in {"none", "torn", "whole"} : disk' = [disk EXCEPT !.report = report]
      /\ UNCHANGED <<lock, chain, found, caller, unchecked, refused, recorded>>
  BY DEF OrphanWrites, OrphanEnds
<1>2. /\ disk' \in Disks /\ disk'.jar = disk.jar /\ disk'.index = disk.index
      /\ disk'.merged = disk.merged
  <2>1. disk \in Disks
    BY DEF FilesInv, FilesTyped
  <2> QED
    BY <1>1, <2>1 DEF Disks
<1>3. Unvouched'
  BY <1>1, <1>2, UnvouchedSame
<1>4. ChainRight'
  BY <1>1, <1>2 DEF FilesInv, ChainRight, IndexKept, Distinct
<1>5. CallersRight' /\ caller' = [c \in FileCalls |-> caller'[c]]
  BY <1>1, <1>2, CallersSame
<1> QED
  BY <1>1, <1>2, <1>3, <1>4, <1>5 DEF FilesInv, FilesTyped

(* and the server dies: its unfinished comparisons are told as unchecked. *)
LEMMA ServerDiesKeeps ==
  ASSUME FilesInv, ServerDiesHere
  PROVE  FilesInv'
<1>1. /\ unchecked' = unchecked \cup
                        {JarOf(l) : l \in {x \in Locked : lock[x] \in {"hashes", "removes"}}}
      /\ lock' = [l \in Locked |-> "none"] /\ chain' = << >> /\ found' = NoneFound
      /\ caller' = [c \in FileCalls |-> Rests] /\ recorded' = {} /\ refused' = refused
  BY DEF ServerDiesHere
<1>2. /\ disk' \in Disks /\ disk'.jar = disk.jar /\ disk'.merged = disk.merged
  <2>1. disk \in Disks
    BY DEF FilesInv, FilesTyped
  <2>2. PICK lost : disk' = [disk EXCEPT !.index = IF found # NoneFound THEN @ \ lost ELSE @]
    BY DEF ServerDiesHere
  <2> QED
    BY <2>1, <2>2 DEF Disks
<1>3. Unvouched'
  <2>1. ASSUME NEW m \in Locked, JarOf(m) \in Hashed, disk'.jar[JarOf(m)] = "bad"
        PROVE  JarOf(m) \in unchecked'
    BY <1>1, <1>2, <2>1 DEF FilesInv, Unvouched
  <2>2. \A m \in Locked : JarOf(m)' = JarOf(m)
    BY DEF JarOf
  <2> QED
    BY <2>1, <2>2 DEF Unvouched
<1>4. ChainRight'
  BY <1>1 DEF ChainRight, IndexKept, Distinct, NoneFound
<1>5. CallersRight'
  <2>1. \A c \in FileCalls : CallerRight(caller'[c], refused')
    BY <1>1 DEF CallerRight
  <2> QED
    BY <1>1, <1>2, <2>1 DEF FilesInv, CallersRight, MergedWhole
<1>6. lock' \in [Locked -> Steps] /\ caller' = [c \in FileCalls |-> caller'[c]]
  BY <1>1 DEF Steps
<1> QED
  BY <1>1, <1>2, <1>3, <1>4, <1>5, <1>6 DEF FilesInv, FilesTyped

(* The calls, the JVMs, the prunes and the deaths keep the files right. *)
LEMMA FilesKeep ==
  ASSUME FilesInv, [ServicesNext]_serviceVars
  PROVE  FilesInv'
<1>1. CASE UNCHANGED filesVars
  <2>1. UNCHANGED <<disk, lock, chain, found, caller, unchecked, refused, recorded>>
    BY <1>1 DEF filesVars
  <2>2. Unvouched'
    BY <2>1, UnvouchedSame
  <2>3. ChainRight'
    BY <2>1 DEF FilesInv, ChainRight, IndexKept, Distinct
  <2> QED
    BY <2>1, <2>2, <2>3 DEF FilesInv, FilesTyped, CallersRight, MergedWhole
<1>2. CASE VersionFilesNext
  <2>1. ASSUME NEW l \in Locked, JarStep(l) PROVE FilesInv'
    BY <2>1, FetchJarKeeps, HashJarKeeps, RemoveBadJarKeeps DEF JarStep
  <2>2. ASSUME NEW v \in Versions, VersionStep(v) PROVE FilesInv'
    BY <2>1, <2>2, LookInIndexKeeps, OwnJars DEF VersionStep
  <2>3. ASSUME IndexStep PROVE FilesInv'
    BY <2>3, ReadIndexKeeps, WriteIndexKeeps DEF IndexStep
  <2>4. ASSUME RegistryStep PROVE FilesInv'
    BY <2>1, <2>4, LoadReportKeeps, JvmTearsKeeps, JvmEndsKeeps, JvmFailsKeeps, ReadReportKeeps,
       OwnJars DEF RegistryStep
  <2>5. ASSUME NEW c \in FileCalls, MergeStep(c) PROVE FilesInv'
    BY <2>5, EnsureSideKeeps, MergeKeeps, RenameMergedKeeps DEF MergeStep
  <2> QED
    BY <1>2, <2>2, <2>3, <2>4, <2>5, JoinOrStartKeeps, StartMergeKeeps, PruneJarKeeps,
       OrphansKeep, ServerDiesKeeps DEF VersionFilesNext
<1> QED
  BY <1>1, <1>2 DEF ServicesNext, Others, serviceVars, filesVars

(* The disk is empty at first. *)
LEMMA FilesStart == ServicesInit => FilesInv
<1> SUFFICES ASSUME ServicesInit PROVE FilesInv
  OBVIOUS
<1>1. /\ disk = [jar |-> [j \in Jars |-> "none"], index |-> {}, report |-> "none",
                 side |-> {}, merged |-> {}]
      /\ lock = [l \in Locked |-> "none"] /\ chain = << >> /\ found = NoneFound
      /\ caller = [c \in FileCalls |-> Rests] /\ recorded = {}
  BY DEF ServicesInit, VersionFilesInit
<1>2. FilesTyped
  BY <1>1 DEF FilesTyped, Disks, Steps
<1>3. Unvouched
  BY <1>1, OwnJars DEF Unvouched
<1>4. ChainRight
  BY <1>1 DEF ChainRight, IndexKept, Distinct
<1>5. CallersRight
  <2>1. \A c \in FileCalls : CallerRight(caller[c], refused)
    BY <1>1 DEF CallerRight
  <2> QED
    BY <1>1, <2>1 DEF CallersRight, MergedWhole
<1> QED
  BY <1>2, <1>3, <1>4, <1>5 DEF FilesInv

(* What is loaded is whole, or is not used: a marker vouches for all that a decompilation gives
   (decompileBinaryJar), no cached graph lacks what its sources have (loadGraph), a jar whose
   hash is known goes to nobody before it has passed, the index loses no entry, and the merged
   mappings lack a side only if no repository will ever have it (VersionService,
   resolveMojangTinyFile): for any number of calls, versions, graphs and JVMs. *)
THEOREM LoadsAlwaysRight == ServicesSpec => []LoadsRight
<1> DEFINE Inv == DecompileInv /\ GraphInv /\ FilesInv
<1>1. ServicesInit => Inv
  BY DecompileStarts, GraphStarts, FilesStart
<1>2. Inv /\ [ServicesNext]_serviceVars => Inv'
  BY DecompileKeeps, GraphKeeps, FilesKeep
<1>3. Inv => LoadsRight
  BY GraphInvWhole, FilesSound DEF LoadsRight, DecompileInv
<1> QED
  BY <1>1, <1>2, <1>3, PTL DEF ServicesSpec

=============================================================================
