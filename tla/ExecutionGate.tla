--------------------------- MODULE ExecutionGate ---------------------------
(***************************************************************************)
(* The gate of the heavy tools: tool-execution-gate.ts. A few calls run,   *)
(* a few wait in order, the rest is refused at once.                       *)
(***************************************************************************)
EXTENDS Naturals, FiniteSets, SequencesExt

CONSTANTS GateCalls,       \* calls of heavy tools, each of which may come again
          MaxConcurrent,   \* how many run at a time
          MaxQueue         \* how many wait

ASSUME GateAssumption ==
    /\ IsFiniteSet(GateCalls)
    /\ MaxConcurrent \in Nat \ {0} /\ MaxQueue \in Nat

VARIABLES activeCount,  \* slots in use, as the gate counts them
          queue,        \* PendingEntry: the calls that wait
          gated         \* where each call is

gateVars == <<activeCount, queue, gated>>

GateInit ==
    /\ activeCount = 0
    /\ queue = <<>>
    /\ gated = [c \in GateCalls |-> "outside"]

(* run: start, wait, or be refused with ERR_LIMIT_EXCEEDED *)
RunGated(c) ==
    /\ gated[c] = "outside"
    /\ \/ /\ activeCount < MaxConcurrent
          /\ activeCount' = activeCount + 1
          /\ gated' = [gated EXCEPT ![c] = "running"]
          /\ UNCHANGED queue
       \/ /\ activeCount >= MaxConcurrent /\ Len(queue) < MaxQueue
          /\ queue' = Append(queue, c)
          /\ gated' = [gated EXCEPT ![c] = "waiting"]
          /\ UNCHANGED activeCount
       \/ /\ activeCount >= MaxConcurrent /\ Len(queue) >= MaxQueue
          /\ UNCHANGED gateVars

(* drain: how many calls leave the queue, with `active` slots in use *)
MutNoneDrained(active) == 0

Drained(active) ==
    LET free == MaxConcurrent - active
    IN  IF Len(queue) < free THEN Len(queue) ELSE free

(* The task resolves or rejects: the finally frees its slot and drains. *)
SettleGated(c) ==
    /\ gated[c] = "running"
    /\ LET active == IF activeCount = 0 THEN 0 ELSE activeCount - 1
           n == Drained(active)
       IN  /\ activeCount' = active + n
           /\ queue' = SubSeq(queue, n + 1, Len(queue))
           /\ gated' = [d \in GateCalls |->
                          IF d = c THEN "outside"
                          ELSE IF d \in ToSet(SubSeq(queue, 1, n)) THEN "running" ELSE gated[d]]

GateNext == \E c \in GateCalls : RunGated(c) \/ SettleGated(c)

(* A heavy tool ends: its downloads and Java processes have time limits. *)
GateFairness == \A c \in GateCalls : WF_gateVars(SettleGated(c))

GateSpec == GateInit /\ [][GateNext]_gateVars /\ GateFairness

-----------------------------------------------------------------------------
GateTypeOK ==
    /\ activeCount \in 0 .. MaxConcurrent
    /\ queue \in SeqOf(GateCalls, MaxQueue)
    /\ gated \in [GateCalls -> {"outside", "waiting", "running"}]

(* No slot is lost or counted twice, whatever the tasks do, and no call waits
   beside a free one. *)
SlotsUsed ==
    /\ activeCount = Cardinality({c \in GateCalls : gated[c] = "running"})
    /\ ToSet(queue) = {c \in GateCalls : gated[c] = "waiting"}
    /\ queue # <<>> => activeCount = MaxConcurrent

(* A call that was let into the queue runs in the end, however many come. *)
WaitersRun == \A c \in GateCalls : gated[c] = "waiting" ~> gated[c] = "running"

=============================================================================
