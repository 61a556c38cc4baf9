----------------------------- MODULE BatchRuns -----------------------------
(***************************************************************************)
(* The batch tools (runBatch, mapWithConcurrencyLimit): an artifact is      *)
(* resolved once for all entries, which are answered side by side, a few at *)
(* a time, while the artifact may be evicted. With failFast the first entry *)
(* that fails keeps those that were not begun from being so.                *)
(***************************************************************************)
EXTENDS Naturals, Sequences, FiniteSets

CONSTANTS Batches      \* what may be asked: see Batch

VARIABLES batch,    \* what is asked
          progress, \* the call under way, and its answer
          indexRow  \* whether the artifact is in the index: "absent", "kept" or "evicted"

batchVars == <<batch, progress, indexRow>>

(* resolves: what resolve-artifact gives, where "no version" is an artifact of unknown
   version in a workspace that names none. target: "artifact" is an id the caller has. An
   entry is answered or, as its own call would, it fails. *)
Batch == [tool : {"class-source", "class-members", "symbol-exists", "mappings"},
          target : {"artifact", "other"}, resolves : {"yes", "no version", "throws"},
          entries : Seq({"answered", "fails"}), concurrency : Nat, failFast : BOOLEAN]

ASSUME BatchAssumption == Batches \subseteq Batch

-----------------------------------------------------------------------------
(* A lane holds the entry it works on, 0 for none. unbegun: those not yet taken when the
   first one failed. *)
NoBatch == [pc |-> "asked", next |-> 1, lanes |-> <<>>, abort |-> FALSE, results |-> <<>>,
            unbegun |-> {}]

BatchInit ==
    /\ batch \in Batches
    /\ progress = NoBatch
    /\ indexRow \in IF batch.target = "artifact" THEN {"absent", "kept"} ELSE {"absent"}

ReadsArtifact == batch.tool \in {"class-source", "class-members"}
Total == Len(batch.entries)
Blank == [i \in 1 .. Total |-> "none"]

(* resolveTargetSharedArtifact, and resolveSharedArtifact of the tools that do without it:
   an id is taken as it is, mappings need no artifact. *)
Resolves == batch.tool = "symbol-exists" \/ (ReadsArtifact /\ batch.target # "artifact")
Refuses ==
    /\ Resolves
    /\ \/ batch.resolves = "throws"
       \/ batch.tool = "symbol-exists" /\ batch.resolves = "no version"

Start ==
    /\ progress.pc = "asked"
    /\ progress' = IF Refuses THEN [progress EXCEPT !.pc = "threw"]
                   ELSE [progress EXCEPT !.pc = "running", !.results = Blank,
                            !.lanes = [l \in 1 .. batch.concurrency |-> 0]]
    /\ indexRow' = IF Resolves /\ batch.resolves # "throws" THEN "kept" ELSE indexRow
    /\ UNCHANGED batch

-----------------------------------------------------------------------------
MutPlaced(results, i, result) ==
    [results EXCEPT ![1 + Cardinality({n \in 1 .. Total : results[n] # "none"})] = result]
(* Whenever an entry is over, its result has the place of the entry. *)
Placed(results, i, result) == [results EXCEPT ![i] = result]

EntryOver(i, result) == [progress EXCEPT !.results = Placed(@, i, result)]

MutSkips == FALSE
Skips == progress.abort

(* A free lane takes the next entry: an aborted batch answers it at once. *)
TakeEntry(l) ==
    LET i == progress.next IN
    /\ progress.pc = "running" /\ progress.lanes[l] = 0 /\ i <= Total
    /\ progress' = IF Skips THEN [EntryOver(i, "aborted") EXCEPT !.next = i + 1]
                   ELSE [progress EXCEPT !.next = i + 1, !.lanes[l] = i]
    /\ UNCHANGED <<batch, indexRow>>

(* perEntry: by the id, whose row may be gone by now, or without it. *)
ResultOf(i) ==
    IF ReadsArtifact /\ indexRow # "kept" THEN "not found" ELSE batch.entries[i]

FinishEntry(l) ==
    LET i == progress.lanes[l]
        result == ResultOf(i)
        failed == result # "answered"
    IN  /\ progress.pc = "running" /\ i # 0
        /\ progress' = [EntryOver(i, result) EXCEPT
                            !.lanes[l] = 0, !.abort = @ \/ (failed /\ batch.failFast),
                            !.unbegun = IF failed /\ batch.failFast /\ ~progress.abort
                                        THEN progress.next .. Total ELSE @]
        /\ UNCHANGED <<batch, indexRow>>

Conclude ==
    /\ progress.pc = "running" /\ progress.next > Total
    /\ \A l \in DOMAIN progress.lanes : progress.lanes[l] = 0
    /\ progress' = [progress EXCEPT !.pc = "done"]
    /\ UNCHANGED <<batch, indexRow>>

(* Another call evicts the artifact, or the same is resolved again. *)
EvictRow ==
    /\ progress.pc = "running" /\ indexRow = "kept"
    /\ indexRow' = "evicted"
    /\ UNCHANGED <<batch, progress>>
ReturnRow ==
    /\ progress.pc = "running" /\ indexRow = "evicted"
    /\ indexRow' = "kept"
    /\ UNCHANGED <<batch, progress>>

BatchNext ==
    \/ Start \/ Conclude \/ EvictRow \/ ReturnRow
    \/ \E l \in DOMAIN progress.lanes : TakeEntry(l) \/ FinishEntry(l)

BatchSpec == BatchInit /\ [][BatchNext]_batchVars

-----------------------------------------------------------------------------
BatchTypeOK ==
    /\ progress.pc \in {"asked", "threw", "running", "done"}
    /\ progress.next \in 1 .. Total + 1
    /\ progress.unbegun \subseteq 1 .. Total
    /\ indexRow \in {"absent", "kept", "evicted"}

(* The answer of a batch has for each entry, in its place, what the entry's own call gave;
   an entry is found missing only if it is read from the artifact (runBatch). *)
EachAnswered ==
    progress.pc \in {"running", "done"} =>
        \A i \in 1 .. Total :
            LET result == progress.results[i] IN
            /\ result \in {"answered", "fails"} => result = batch.entries[i]
            /\ result = "not found" => ReadsArtifact
            /\ progress.pc = "done" => result # "none"

(* Entries are aborted only with failFast and after one has failed; none that was not begun
   by then is, and those that were finish as themselves, so that what is aborted is the
   end of the batch (runBatch, the abort flag). *)
AbortsAtTheEnd ==
    \A i \in DOMAIN progress.results :
        /\ progress.results[i] = "aborted" =>
              /\ batch.failFast /\ i \in progress.unbegun
              /\ \E j \in 1 .. i - 1 : progress.results[j] \in {"fails", "not found"}
              /\ \A j \in i .. Total : progress.results[j] \in {"aborted", "none"}
        /\ i \in progress.unbegun => progress.results[i] \in {"aborted", "none"}

BatchRight == EachAnswered /\ AbortsAtTheEnd

=============================================================================
