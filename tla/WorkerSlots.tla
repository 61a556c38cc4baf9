----------------------------- MODULE WorkerSlots -----------------------------
(***************************************************************************)
(* What the supervisor promises about worker processes, without timers,    *)
(* retries or termination statuses: every generation goes through its life *)
(* once and only forwards, at most one generation serves, and at most Cap  *)
(* process trees exist (docs/tool-reference.md, "two-slot live-generation  *)
(* cap").  WorkerPool implements it.                                       *)
(***************************************************************************)
EXTENDS Integers, FiniteSets

CONSTANTS Generation, Cap

VARIABLES phase,  \* per generation: where it is in its life
          open    \* the supervisor still starts workers

slotVars == <<phase, open>>

Phases == {"unused", "serving", "ending", "orphaned", "gone"}

Occupied == {g \in Generation : phase[g] \in {"serving", "ending", "orphaned"}}
Serving  == {g \in Generation : phase[g] = "serving"}

Init ==
  /\ \E g \in Generation :
       phase = [h \in Generation |-> IF h = g THEN "serving" ELSE "unused"]
  /\ open = TRUE

\* A new worker takes a free slot.
Start(g) ==
  /\ open /\ phase[g] = "unused"
  /\ Serving = {} /\ Cardinality(Occupied) < Cap
  /\ phase' = [phase EXCEPT ![g] = "serving"]
  /\ UNCHANGED open

\* The serving worker is given up and a new one takes a free slot at once.
Replace(g, h) ==
  /\ open /\ phase[g] = "serving" /\ phase[h] = "unused"
  /\ Cardinality(Occupied) < Cap
  /\ phase' = [phase EXCEPT ![g] = "ending", ![h] = "serving"]
  /\ UNCHANGED open

Abandon(g) ==
  /\ phase[g] = "serving"
  /\ phase' = [phase EXCEPT ![g] = "ending"]
  /\ UNCHANGED open

\* A worker exits and may leave a process tree behind ...
Orphan(g) ==
  /\ phase[g] = "ending"
  /\ phase' = [phase EXCEPT ![g] = "orphaned"]
  /\ UNCHANGED open

\* ... or nothing is left of it.
Release(g) ==
  /\ phase[g] \in {"serving", "ending", "orphaned"}
  /\ phase' = [phase EXCEPT ![g] = "gone"]
  /\ UNCHANGED open

Close ==
  /\ open
  /\ open' = FALSE
  /\ phase' = [g \in Generation |->
                 IF phase[g] = "serving" THEN "ending" ELSE phase[g]]

Next ==
  \/ \E g \in Generation : Start(g) \/ Abandon(g) \/ Orphan(g) \/ Release(g)
  \/ \E g, h \in Generation : Replace(g, h)
  \/ Close

Spec == Init /\ [][Next]_slotVars
=============================================================================
