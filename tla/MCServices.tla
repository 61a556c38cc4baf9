----------------------------- MODULE MCServices -----------------------------
(***************************************************************************)
(* The components beside the supervisor and the caches, for TLC. They share *)
(* no state in the code, so that a behaviour of this module is one of one  *)
(* component: Init chooses which, and the others stay as they are.         *)
(***************************************************************************)
EXTENDS ExecutionGate, FrameReader, Decompiler, ArtifactCache, MappingGraphs, VersionFiles,
        BatchRuns

VARIABLE component

serviceVars == <<component, gateVars, frameVars, decompileVars, cacheVars, graphVars, filesVars,
                 batchVars>>

-----------------------------------------------------------------------------
(* What a peer may send: every pair of these items and a message after it, on a line, in a
   frame, or on a line with an empty line and another message behind, which tells whether
   the reader is in step again; cut everywhere. *)
LineOf(units, gives) == [units |-> Append(units, Lf), gives |-> gives]
Framed(length, units, gives) ==
    [units |-> <<Unit("len", length), Lf, Lf>> \o units, gives |-> gives]

Msg(m) == Unit("msg", m)
Open == Unit("open", 0)
Junk == Unit("junk", 0)
Array == Unit("array", 0)
Openings(n) == [i \in 1 .. n |-> Open]

Items(m) ==
    { LineOf(<<Msg(m)>>, <<m>>),                                \* a message on a line
      LineOf(<<>>, <<>>),
      LineOf(<<Array>>, <<>>),
      LineOf(<<Open>>, <<>>),
      LineOf(<<Junk>>, <<>>),                                    \* garbage on a line,
      LineOf(<<Junk, Lf>>, <<>>),                                \* and with an empty line
      LineOf(Append(Openings(6), Msg(m)), <<>>),                   \* an oversized line
      Framed(1, <<Msg(m)>>, <<m>>),                             \* a message in a frame
      Framed(2, <<Msg(m), Lf>>, <<m>>),
      Framed(1, <<Array>>, <<>>),
      Framed(1, <<Open>>, <<>>),
      Framed(6, Append(Openings(5), Msg(m)), <<>>),                \* an oversized body
      [units |-> <<Unit("len", 1), Lf>> \o Framed(1, <<Msg(m)>>, <<>>).units, gives |-> <<>>] }

Sessions == {<<first, second, third>> :
                first \in Items(1), second \in Items(2),
                third \in { LineOf(<<Msg(3)>>, <<3>>), Framed(1, <<Msg(3)>>, <<3>>),
                            LineOf(<<Msg(3), Lf, Lf, Msg(4)>>, <<3, 4>>) }}

-----------------------------------------------------------------------------
(* Batches of three or four entries, some of which fail, with every number of lanes. *)
Entered(tool, kind, resolves, entries, lanes, fast) ==
    [tool |-> tool, target |-> kind, resolves |-> resolves, entries |-> entries,
     concurrency |-> lanes, failFast |-> fast]
BatchWorlds ==
    {Entered(tool, kind, "yes", entries, lanes, fast) :
        tool \in {"class-source", "mappings"}, kind \in {"artifact", "other"}, lanes \in {1, 3},
        fast \in BOOLEAN, entries \in {<<"answered", "answered", "fails", "answered">>,
                                       <<"answered", "fails", "fails", "answered">>}}
    \cup {Entered(tool, "other", resolves, <<"answered", "fails", "answered">>, 2, TRUE) :
             tool \in {"symbol-exists", "class-members"}, resolves \in {"no version", "throws"}}

-----------------------------------------------------------------------------
Components ==
    {"gate", "frames", "decompiler", "artifacts", "graphs", "version files", "batches"}

(* A component that is not the one of the behaviour starts in one of its states. *)
ServicesInit ==
    /\ component \in Components
    /\ GateInit /\ DecompileInit
    /\ reader = FreshReader /\ sent = 0
    /\ stream \in IF component = "frames" THEN Sessions ELSE {<<>>}
    /\ CacheInit
    /\ component # "artifacts" => \A a \in Artifacts : store.jar[a] = "none"
    /\ IF component = "graphs" THEN GraphInit
       ELSE /\ world = [mojang |-> TRUE, loom |-> {}, maven |-> {}, mavenFirst |-> FALSE]
            /\ graphs = <<>> /\ build = [k \in Keys |-> NoBuild]
            /\ finder = [c \in Finders |-> Idle] /\ resolutions = {}
    /\ VersionFilesInit
    /\ component # "version files" => asked = CHOOSE what \in AskedFor : TRUE
    /\ IF component = "batches" THEN BatchInit
       ELSE batch = (CHOOSE one \in Batches : TRUE) /\ progress = NoBatch /\ indexRow = "absent"

(* The others stay as they are. *)
Others ==
    /\ IF component = "gate" THEN TRUE ELSE UNCHANGED gateVars
    /\ IF component = "frames" THEN TRUE ELSE UNCHANGED frameVars
    /\ IF component = "decompiler" THEN TRUE ELSE UNCHANGED decompileVars
    /\ IF component = "artifacts" THEN TRUE ELSE UNCHANGED cacheVars
    /\ IF component = "graphs" THEN TRUE ELSE UNCHANGED graphVars
    /\ IF component = "version files" THEN TRUE ELSE UNCHANGED filesVars
    /\ IF component = "batches" THEN TRUE ELSE UNCHANGED batchVars

ServicesNext ==
    /\ UNCHANGED component
    /\ \/ component = "gate" /\ GateNext
       \/ component = "frames" /\ FrameNext
       \/ component = "decompiler" /\ DecompileNext
       \/ component = "artifacts" /\ CacheNext
       \/ component = "graphs" /\ GraphNext
       \/ component = "version files" /\ VersionFilesNext
       \/ component = "batches" /\ BatchNext
    /\ Others

ServicesSpec ==
    /\ ServicesInit /\ [][ServicesNext]_serviceVars
    /\ GateFairness /\ FrameFairness /\ DecompileFairness /\ CacheFairness /\ GraphFairness
    /\ VersionFilesFairness

-----------------------------------------------------------------------------
ServicesTypeOK ==
    /\ GateTypeOK /\ DecompileTypeOK /\ ArtifactTypeOK
    /\ component = "frames" => FrameTypeOK
    /\ GraphTypeOK /\ VersionFilesTypeOK /\ BatchTypeOK

(* The slots of the gate are used while calls wait (ToolExecutionGate), and what a batch
   answers is each entry's own (runBatch). *)
CallsRight == SlotsUsed /\ BatchRight

(* What is loaded is whole, or it is not used: .decompile-complete does not vouch for what
   is not there (decompileBinaryJar), a graph of mappings that lacks a source is built again
   (loadGraph), and a jar that was rejected is handed to nobody (resolveVersionJar). *)
LoadsRight == OutputWhole /\ GraphsWhole /\ VersionFilesRight

(* What is begun is brought to an end: a call that waits in the gate runs
   (ToolExecutionGate.run), the reader stops waiting for a body that does not come
   (its idle timer), a call that waits for a decompilation is answered
   (ensureDecompiled), so is one that resolves or indexes an artifact, whoever's
   ingest or remap it joined (ingestIfNeeded, maybeRemapBinaryForMojang), one that
   waits for a graph of mappings (loadGraph), and one that waits for a jar, a report
   or a merge (resolveVersionJar, loadRegistries, resolveMojangTinyFile). *)
EverythingEnds ==
    /\ WaitersRun /\ BodiesEnd /\ AsksAnswered /\ CallsEnd /\ FindersAnswered
    /\ FileCallsAnswered

=============================================================================
