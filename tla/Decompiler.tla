----------------------------- MODULE Decompiler -----------------------------
(***************************************************************************)
(* The decompilation of one mod jar: ensureDecompiled of                   *)
(* mod-decompile-service.ts, decompileBinaryJar of decompiler/vineflower.ts *)
(* and runJavaProcess of java-process.ts. Calls join the decompilation in  *)
(* flight; it reuses the output directory when its marker is there, and    *)
(* otherwise clears it and runs Vineflower with up to three profiles. A    *)
(* process that is past its time limit, or whose server died, lives on for *)
(* a while and still writes.                                               *)
(***************************************************************************)
EXTENDS Naturals, FiniteSets

CONSTANTS Decompiles,  \* calls of decompile-mod-jar and get-mod-class-source
          NoCall,
          Profiles,    \* how many flag profiles Vineflower has
          MaxStale     \* bounds the processes that live on

ASSUME DecompileAssumption ==
    /\ NoCall \notin Decompiles
    /\ Profiles \in Nat \ {0} /\ MaxStale \in Nat

VARIABLES asks,      \* where each call is
          inflight,  \* inflightDecompiles: the call that decompiles
          cached,    \* decompileCache has the result
          flight,    \* where the decompilation is
          profile,   \* the flag profile it tries
          files,     \* what the output directory holds
          marker,    \* .decompile-complete is there
          stale,     \* Java processes of earlier runs that are still alive
          beside     \* whether one has been since the directory was cleared

decompileVars == <<asks, inflight, cached, flight, profile, files, marker, stale, beside>>

DecompileInit ==
    /\ asks = [c \in Decompiles |-> "idle"]
    /\ inflight = NoCall /\ cached = FALSE
    /\ flight = "none" /\ profile = 1
    /\ files = "none" /\ marker = FALSE
    /\ stale = 0 /\ beside = FALSE

(* ensureDecompiled *)
AskDecompile(c) ==
    /\ asks[c] = "idle" /\ ~cached
    /\ asks' = [asks EXCEPT ![c] = "waiting"]
    /\ IF inflight = NoCall
       THEN inflight' = c /\ flight' = "looking"
       ELSE UNCHANGED <<inflight, flight>>
    /\ UNCHANGED <<cached, profile, files, marker, stale, beside>>

(* The promise in flight settles: everybody gets the result, or the failure. *)
SettledAsks == [c \in Decompiles |-> "idle"]

SettleDecompile(result) ==
    /\ asks' = SettledAsks
    /\ inflight' = NoCall /\ flight' = "none" /\ profile' = 1
    /\ cached' = (cached \/ result = "done")

FailDecompile ==
    /\ SettleDecompile("failed")
    /\ UNCHANGED <<files, marker, stale, beside>>

(* clearOutputDir: the directory with its marker is removed. *)
ClearOutput ==
    /\ files' = "none" /\ marker' = FALSE /\ beside' = (stale > 0)
    /\ UNCHANGED <<asks, inflight, cached, stale>>

(* Whether the output of an earlier run is taken *)
MutReusable == files # "none"
Reusable == marker /\ files # "none"

(* resolveVineflowerJar, and the look for the marker *)
LookForMarker ==
    /\ flight = "looking"
    /\ \/ FailDecompile
       \/ /\ Reusable
          /\ SettleDecompile("done") /\ UNCHANGED <<files, marker, stale, beside>>
       \/ /\ ~Reusable
          /\ flight' = "preparing" /\ ClearOutput /\ UNCHANGED profile

(* Vineflower and Java are there, and the process starts. *)
StartVineflower ==
    /\ flight = "preparing"
    /\ \/ FailDecompile
       \/ flight' = "running"
          /\ UNCHANGED <<asks, inflight, cached, profile, files, marker, stale, beside>>

WriteFiles ==
    /\ flight = "running" /\ files = "none" /\ files' = "partial"
    /\ UNCHANGED <<asks, inflight, cached, flight, profile, marker, stale, beside>>

(* It exits with code 0. Another process may have spoilt a file meanwhile. *)
ExitWell ==
    /\ flight = "running"
    /\ flight' = "collecting"
    /\ files' \in {"none", "whole"} \cup (IF beside THEN {"partial"} ELSE {})
    /\ UNCHANGED <<asks, inflight, cached, profile, marker, stale, beside>>

(* ERR_DECOMPILER_FAILED: the next profile, from a cleared directory *)
NextProfile ==
    IF profile < Profiles
    THEN flight' = "running" /\ profile' = profile + 1 /\ ClearOutput
    ELSE FailDecompile

(* Another exit code; or the process did not even start, which is not retried. *)
ExitBadly ==
    /\ flight = "running"
    /\ NextProfile \/ FailDecompile

(* The time limit: the call fails while the process is only asked to stop. *)
TimeOut ==
    /\ flight = "running" /\ stale < MaxStale
    /\ stale' = stale + 1 /\ beside' = TRUE
    /\ SettleDecompile("failed")
    /\ UNCHANGED <<files, marker>>

(* collectJavaFiles and readJavaFiles: no file, or one that cannot be read, is a failure
   like that of the process. *)
CollectFiles ==
    /\ flight = "collecting"
    /\ \/ NextProfile
       \/ /\ files # "none" /\ flight' = "marking"
          /\ UNCHANGED <<asks, inflight, cached, profile, files, marker, stale, beside>>

(* A write that fails, too, goes on with the next profile; after the last one the marker
   may be there all the same. *)
WriteMarker ==
    /\ flight = "marking"
    /\ \/ marker' = TRUE /\ SettleDecompile("done") /\ UNCHANGED <<files, stale, beside>>
       \/ profile < Profiles /\ NextProfile
       \/ /\ profile = Profiles /\ marker' \in BOOLEAN
          /\ SettleDecompile("failed") /\ UNCHANGED <<files, stale, beside>>

-----------------------------------------------------------------------------
StaleWrites ==
    /\ stale > 0
    /\ files' = "partial" /\ beside' = TRUE
    /\ UNCHANGED <<asks, inflight, cached, flight, profile, marker, stale>>

(* It exits, or is killed after JAVA_PROCESS_KILL_GRACE_MS. *)
StaleEnds ==
    /\ stale > 0 /\ stale' = stale - 1
    /\ UNCHANGED <<asks, inflight, cached, flight, profile, files, marker, beside>>

(* Other jars push the result out of the cache of eight. *)
PushedOut ==
    /\ cached /\ cached' = FALSE
    /\ UNCHANGED <<asks, inflight, flight, profile, files, marker, stale, beside>>

(* The server dies; a Java process does not. *)
ServerDies ==
    /\ flight = "running" => stale < MaxStale
    /\ stale' = IF flight = "running" THEN stale + 1 ELSE stale
    /\ beside' = (beside \/ flight = "running")
    /\ asks' = [c \in Decompiles |-> "idle"]
    /\ inflight' = NoCall /\ flight' = "none" /\ profile' = 1 /\ cached' = FALSE
    /\ UNCHANGED <<files, marker>>

FlightNext ==
    \/ LookForMarker \/ StartVineflower \/ ExitWell \/ ExitBadly \/ TimeOut
    \/ CollectFiles \/ WriteMarker

DecompileNext ==
    \/ \E c \in Decompiles : AskDecompile(c)
    \/ FlightNext \/ WriteFiles \/ StaleWrites \/ StaleEnds \/ PushedOut \/ ServerDies

(* A run ends or is ended by its time limit, and everything else is file access. *)
DecompileFairness == WF_decompileVars(FlightNext)

DecompileSpec == DecompileInit /\ [][DecompileNext]_decompileVars /\ DecompileFairness

-----------------------------------------------------------------------------
DecompileTypeOK ==
    /\ asks \in [Decompiles -> {"idle", "waiting"}]
    /\ inflight \in Decompiles \cup {NoCall}
    /\ flight \in {"none", "looking", "preparing", "running", "collecting", "marking"}
    /\ profile \in 1 .. Profiles /\ stale \in 0 .. MaxStale
    /\ files \in {"none", "partial", "whole"}
    /\ {cached, marker, beside} \subseteq BOOLEAN

(* The output that the marker vouches for, and that a caller was given, is whole, whatever
   failed, was retried, timed out or crashed before: but for the files that a Java process
   past its time limit, or orphaned, wrote beside the run. *)
OutputWhole == marker \/ cached => files = "whole" \/ beside

(* Everybody who asks is answered, with the result or the failure. *)
AsksAnswered == \A c \in Decompiles : asks[c] = "waiting" ~> asks[c] = "idle"

=============================================================================
