------------------------- MODULE ProjectValidation -------------------------
(***************************************************************************)
(* validate-project, task project-summary (handleProjectSummary): the mixin *)
(* configs, access wideners and access transformers of a workspace are      *)
(* found and validated one after the other or side by side, while the       *)
(* workspace is edited, and their verdicts become one status, counts and a  *)
(* report of tasks.                                                         *)
(***************************************************************************)
EXTENDS Naturals, Sequences, FiniteSets, SequencesExt

CONSTANTS Projects,     \* the workspaces: see WorkspaceState
          Questions,    \* what may be asked: see Question
          MixinLanes,   \* MIXIN_VALIDATION_CONCURRENCY: configs validated at a time
          MaxEdits      \* bounds how often the workspace is edited meanwhile

VARIABLES project,   \* the workspace as it is now
          question,  \* what is asked
          summary,   \* the call under way, and its answer
          edits      \* how often the workspace was edited

projectVars == <<project, question, summary, edits>>

(* version: what gradle.properties declares, 0 for nothing. gradle: what gradle files
   there are. What a validator says of a file: it is invalid for a definite error alone,
   "unsure" for an uncertain one, "partial" if it was not checked in full; it throws, or
   does not read the format (a classTweaker file). *)
MixinVerdicts == {"clean", "unsure", "partial", "invalid", "throws"}
FileVerdicts == {"clean", "invalid", "throws", "other format"}
Config == [state : {"whole", "broken", "gone"}, entries : Seq(MixinVerdicts)]
WorkspaceState == [version : Nat, gradle : {"none", "scripts", "readable", "unreadable"},
            mixins : Seq(Config), wideners : Seq(FileVerdicts), transformers : Seq(FileVerdicts)]
Kinds == {"mixins", "wideners", "transformers"}
Question == [version : Nat, prefer : {"unset", "yes", "no"}, discover : SUBSET Kinds]

ASSUME ProjectAssumption ==
    /\ Projects \subseteq WorkspaceState /\ Questions \subseteq Question
    /\ MixinLanes \in Nat \ {0} /\ MaxEdits \in Nat

-----------------------------------------------------------------------------
(* found: the files of each kind, by their place in the workspace; next: the first config
   no lane has taken; lanes: the config each lane validates, 0 for none; units: of each
   config taken the verdicts so far and how many entries are left; files: the verdicts of
   the files of the other kinds. seen: every verdict that was given, with the version it
   is about. *)
NoSummary ==
    [pc |-> "asked", version |-> 0, prefer |-> "unset", found |-> [k \in Kinds |-> <<>>],
     next |-> 1, lanes |-> [l \in 1 .. MixinLanes |-> 0], units |-> <<>>,
     files |-> [k \in Kinds |-> <<>>], seen |-> <<>>, status |-> "none",
     counts |-> [valid |-> 0, partial |-> 0, invalid |-> 0, unprocessed |-> 0],
     told |-> FALSE, tasks |-> [t \in {} |-> "ok"]]

ProjectInit ==
    /\ project \in Projects
    /\ question \in Questions
    /\ summary = NoSummary
    /\ edits = 0

Turn(s) == summary' = s /\ UNCHANGED <<project, question, edits>>
Total(s) == Len(s["mixins"]) + Len(s["wideners"]) + Len(s["transformers"])

(* preferProjectVersion overrides a version given, and one not given is inferred, unless
   that is declined. *)
Infer ==
    LET detects == question.prefer = "yes" \/ question.version = 0
        version == IF detects /\ project.version # 0 THEN project.version ELSE question.version
    IN  /\ summary.pc = "asked"
        /\ Turn(IF question.version = 0 /\ question.prefer = "no"
                THEN [summary EXCEPT !.pc = "probing", !.status = "blocked"]
                ELSE [summary EXCEPT !.pc = "finding", !.version = version,
                                     !.prefer = IF question.version = 0 /\ version # 0
                                                THEN "yes" ELSE question.prefer])

(* discoverWorkspaceMixins and its like: a config is found where it is, a widener or a
   transformer where a descriptor or a build script names it; in whatever order. *)
FilesOf(kind) ==
    SetToSeq({i \in DOMAIN project[kind] :
                 /\ kind \in question.discover
                 /\ kind = "mixins" => project.mixins[i].state # "gone"})

Find ==
    LET found == [k \in Kinds |-> FilesOf(k)] IN
    /\ summary.pc = "finding"
    /\ Turn(IF summary.version # 0 THEN [summary EXCEPT !.pc = "mixins", !.found = found]
            ELSE [summary EXCEPT !.pc = "probing", !.found = found,
                                 !.told = Total(found) = 0,
                                 !.status = IF Total(found) = 0 THEN "ok" ELSE "blocked"])

-----------------------------------------------------------------------------
(* mapWithConcurrencyLimit: a lane that is free takes the next config and reads it; one
   that cannot be read is an error of the config. *)
Take(l) ==
    LET at == summary.next
        config == project.mixins[summary.found["mixins"][at]]
        reads == config.state = "whole"
    IN  /\ summary.pc = "mixins" /\ summary.lanes[l] = 0 /\ at <= Len(summary.found["mixins"])
        /\ Turn([summary EXCEPT
                    !.next = at + 1, !.lanes[l] = at,
                    !.units = [i \in DOMAIN @ \cup {at} |->
                                  IF i # at THEN @[i]
                                  ELSE [threw |-> ~reads, verdicts |-> <<>>,
                                        left |-> IF reads THEN config.entries ELSE <<>>]],
                    !.seen = IF reads THEN @ ELSE Append(@, <<"config", "throws", summary.version>>)])

(* validateMixinMany: the entries of a config one after the other; a file that is gone,
   as any other that throws, counts as one that could not be processed. *)
Validate(l) ==
    LET at == summary.lanes[l]
        unit == summary.units[at]
    IN  /\ summary.pc = "mixins" /\ at # 0 /\ unit.left # <<>>
        /\ \E verdict \in {Head(unit.left)}
                          \cup IF project.mixins[summary.found["mixins"][at]].state = "gone"
                               THEN {"throws"} ELSE {} :
              Turn([summary EXCEPT
                       !.units[at].verdicts = Append(@, verdict), !.units[at].left = Tail(@),
                       !.seen = Append(@, <<"mixin", verdict, summary.version>>)])

Settle(l) ==
    /\ summary.pc = "mixins" /\ summary.lanes[l] # 0
    /\ summary.units[summary.lanes[l]].left = <<>>
    /\ Turn([summary EXCEPT !.lanes[l] = 0])

Gather ==
    /\ summary.pc = "mixins" /\ summary.next > Len(summary.found["mixins"])
    /\ \A l \in 1 .. MixinLanes : summary.lanes[l] = 0
    /\ Turn([summary EXCEPT !.pc = "wideners"])

-----------------------------------------------------------------------------
MutVersionNow == IF project.version # 0 THEN project.version ELSE summary.version
(* The wideners, then the transformers, each about the version the workspace declares by
   then if that one is preferred. *)
VersionNow == IF summary.prefer = "yes" /\ project.version # 0 THEN project.version ELSE summary.version

CheckFile(kind, then) ==
    LET at == Len(summary.files[kind]) + 1
        verdict == project[kind][summary.found[kind][at]]
    IN  /\ summary.pc = kind
        /\ IF at > Len(summary.found[kind]) THEN Turn([summary EXCEPT !.pc = then])
           ELSE Turn([summary EXCEPT !.files[kind] = Append(@, verdict),
                                     !.seen = Append(@, <<kind, verdict, VersionNow>>)])

-----------------------------------------------------------------------------
(* buildValidateMixinOutput: a partial verdict counts as valid too. *)
Number(verdicts, wanted) == Cardinality({i \in DOMAIN verdicts : verdicts[i] \in wanted})
Given == UNION {{i} \X DOMAIN summary.units[i].verdicts : i \in DOMAIN summary.units}
InUnits(wanted) == Cardinality({at \in Given : summary.units[at[1]].verdicts[at[2]] \in wanted})

Threw == Cardinality({i \in DOMAIN summary.units : summary.units[i].threw})
InFiles(wanted) ==
    Number(summary.files["wideners"], wanted) + Number(summary.files["transformers"], wanted)
MutCounts ==
    [valid |-> InUnits({"clean", "unsure"}) + InFiles({"clean"}), partial |-> InUnits({"partial"}),
     invalid |-> InUnits({"invalid"}) + Threw + InFiles({"invalid", "throws"}),
     unprocessed |-> InUnits({"throws"}) + InFiles({"other format"})]
Counts ==
    [valid |-> InUnits({"clean", "unsure", "partial"}) + InFiles({"clean"}),
     partial |-> InUnits({"partial"}),
     invalid |-> InUnits({"invalid"}) + Threw + InFiles({"invalid", "throws"}),
     unprocessed |-> InUnits({"throws"}) + InFiles({"other format"})]

MutStatus(counts) ==
    IF counts.invalid > 0 THEN "invalid" ELSE IF counts.partial > 0 THEN "partial" ELSE "ok"
StatusFrom(counts) ==
    IF counts.invalid > 0 THEN "invalid"
    ELSE IF counts.partial > 0 \/ counts.unprocessed > 0 THEN "partial" ELSE "ok"

Judge ==
    /\ summary.pc = "judging"
    /\ Turn([summary EXCEPT !.pc = "probing", !.counts = Counts, !.status = StatusFrom(Counts),
                            !.told = Total(summary.found) = 0])

-----------------------------------------------------------------------------
(* runUpstreamProbes and the probe of the artifact; buildValidationEntryWithCounts: what
   the validators did counts before what the probes say. *)
Detects == IF project.gradle = "none" THEN "missing" ELSE "ok"

Probe ==
    /\ summary.pc = "probing"
    /\ Turn([summary EXCEPT !.pc = IF Detects = "ok" THEN "reading" ELSE "reporting",
                            !.tasks = [t \in {"workspace", "gradle", "artifact"} |->
                                          IF t = "workspace" THEN Detects ELSE "skipped"]])

\* A call without a version ends early, with nothing validated.
HasVersion == summary.version # 0

ReadGradle ==
    /\ summary.pc = "reading"
    /\ \E artifact \in {"ok", "error"} :
          LET gradle == CASE project.gradle = "none" -> "missing"
                          [] project.gradle = "unreadable" -> "error"
                          [] OTHER -> "ok"
          IN  Turn([summary EXCEPT !.pc = "reporting", !.tasks["gradle"] = gradle,
                                   !.tasks["artifact"] = IF gradle = "ok" /\ HasVersion
                                                         THEN artifact ELSE "skipped"])

TaskOf(kind) ==
    LET errors == IF kind = "mixins" THEN Threw # 0
                  ELSE \E i \in DOMAIN summary.files[kind] : summary.files[kind][i] = "throws"
        upstream == {summary.tasks[t] : t \in {"workspace", "gradle", "artifact"}}
    IN  IF ~HasVersion THEN "skipped"
        ELSE IF summary.found[kind] # <<>> THEN IF errors THEN "error" ELSE "ok"
        ELSE IF upstream # {"ok"} THEN "skipped" ELSE "missing"

Report ==
    /\ summary.pc = "reporting"
    /\ Turn([summary EXCEPT !.pc = "done",
                            !.tasks = [t \in DOMAIN @ \cup Kinds |->
                                          IF t \in Kinds THEN TaskOf(t) ELSE @[t]]])

-----------------------------------------------------------------------------
(* What the author does meanwhile: the version is raised, gradle.properties goes, a config
   is broken or goes with its mixins, a file is removed. *)
EditWorkspace ==
    /\ summary.pc # "done" /\ edits < MaxEdits /\ edits' = edits + 1
    /\ \/ project.version # 0 /\ project' = [project EXCEPT !.version = @ + 1]
       \/ project.version # 0 /\ project' = [project EXCEPT !.version = 0, !.gradle = "scripts"]
       \/ \E i \in DOMAIN project.mixins, state \in {"broken", "gone"} :
             /\ project.mixins[i].state = "whole"
             /\ project' = [project EXCEPT !.mixins[i].state = state]
       \/ \E kind \in {"wideners", "transformers"} : \E i \in DOMAIN project[kind] :
             /\ project[kind][i] # "throws"
             /\ project' = [project EXCEPT ![kind][i] = "throws"]
    /\ UNCHANGED <<question, summary>>

ProjectNext ==
    \/ Infer \/ Find \/ Gather \/ Judge \/ Probe \/ ReadGradle \/ Report \/ EditWorkspace
    \/ \E l \in 1 .. MixinLanes : Take(l) \/ Validate(l) \/ Settle(l)
    \/ CheckFile("wideners", "transformers") \/ CheckFile("transformers", "judging")

ProjectSpec == ProjectInit /\ [][ProjectNext]_projectVars

-----------------------------------------------------------------------------
ProjectTypeOK ==
    /\ project \in [version : Nat, gradle : {"none", "scripts", "readable", "unreadable"},
                    mixins : {project.mixins}, wideners : {project.wideners},
                    transformers : {project.transformers}]
    /\ question.prefer \in {"unset", "yes", "no"} /\ question.discover \subseteq Kinds
    /\ \A l \in 1 .. MixinLanes : summary.lanes[l] \in 0 .. Len(summary.found["mixins"])
    /\ summary.status \in {"none", "blocked", "ok", "partial", "invalid"}
    /\ edits \in 0 .. MaxEdits

Verdict(i) == summary.seen[i][2]
SummaryGiven == summary.pc = "done" /\ summary.status # "blocked"

(* Every verdict that was given is counted once, whatever the lanes did side by side. *)
CountsRight ==
    SummaryGiven =>
        /\ summary.counts.valid + summary.counts.invalid + summary.counts.unprocessed = Len(summary.seen)
        /\ summary.counts.partial <= summary.counts.valid

(* "ok" means that whatever was found was read in full and that nothing said otherwise, or
   that the answer tells that nothing was found (describeNothingToValidate). *)
OkMeansChecked ==
    SummaryGiven /\ summary.status = "ok" =>
        /\ summary.told <=> Total(summary.found) = 0
        /\ \A i \in DOMAIN summary.seen : Verdict(i) \in {"clean", "unsure"}
        /\ summary.version # 0 =>
              /\ DOMAIN summary.units = DOMAIN summary.found["mixins"]
              /\ \A k \in {"wideners", "transformers"} : Len(summary.files[k]) = Len(summary.found[k])

(* All of it is about one version, the one given where it is not to be overridden; only an
   edit of gradle.properties makes two. *)
OneVersion ==
    \A i \in DOMAIN summary.seen :
        /\ question.version # 0 /\ question.prefer # "yes" => summary.seen[i][3] = question.version
        /\ edits = 0 => summary.seen[i][3] = summary.seen[1][3]

(* The task of a kind is an error exactly if a file of it could not be validated at all. *)
TasksTell ==
    SummaryGiven =>
        \A k \in Kinds :
            summary.tasks[k] = "error" <=>
                \E i \in DOMAIN summary.seen :
                    /\ summary.seen[i][1] = IF k = "mixins" THEN "config" ELSE k
                    /\ Verdict(i) = "throws"

ProjectRight == CountsRight /\ OkMeansChecked /\ OneVersion /\ TasksTell

=============================================================================
