--------------------------- MODULE SourceCascade ---------------------------
(***************************************************************************)
(* resolveSourceTarget of source-resolver.ts: which jar stands for a       *)
(* target. A coordinate is looked for in ~/.m2, in the Gradle cache and in *)
(* the repositories, first as sources, then as a binary to decompile; of a *)
(* jar that the caller names, its own sources are preferred to those       *)
(* beside it, and these to a decompilation.                                *)
(***************************************************************************)
EXTENDS Naturals, SequencesExt

CONSTANT Targets      \* the targets, each with what is there: see Worlds

(* A jar is full when it has what its name says, sources or classes, and bare when
   it opens without that. An answer of a repository is a jar, or a body that is none
   ("truncated"), or a failure: "missing" (404), "unstable" (5xx, 429, no status), "refused"
   (an exception that carries a nextAction) or "broken" (any other exception). *)
LocalJars == {"absent", "truncated", "bare", "full"}
Answers == {"truncated", "bare", "full", "missing", "unstable", "refused", "broken"}

(* The files of one store; those of a coordinate without a classifier are the exact
   ones only. *)
Files == [exactSources : LocalJars, commonSources : LocalJars,
          exactBinary : LocalJars, commonBinary : LocalJars]

(* A coordinate target with its stores and repositories, and a jar target: subject is
   the jar, named tells whether its name ends in -sources.jar, beside is the
   -sources.jar next to it and sibling the binary that its name stands for. *)
IsWorld(w) ==
    /\ {w.allowDecompile, w.preferBinaryOnly} \subseteq BOOLEAN
    /\ \/ /\ w.kind = "coordinate"
          /\ {w.m2, w.gradle} \subseteq Files
          /\ Len(w.sources) = Len(w.binaries)
          /\ ToSet(w.sources) \cup ToSet(w.binaries) \subseteq Answers
       \/ /\ w.kind = "jar"
          /\ w.subject \in {"absent", "truncated", "bare", "classes", "sources"}
          /\ w.named \in BOOLEAN /\ {w.beside, w.sibling} \subseteq LocalJars

ASSUME CascadeAssumption == \A w \in Targets : IsWorld(w)

VARIABLES target,    \* the target and its world
          leg,       \* the leg of the cascade, and how many repositories it has asked
          failures,  \* sawRemoteRepoFailure and keptRepoFailure
          slots,     \* the body the download cache has of each url
          outcome    \* the artifact or the error

cascadeVars == <<target, leg, failures, slots, outcome>>

NoOutcome == [kind |-> "none"]
NoFailure == [saw |-> FALSE, kept |-> 0, action |-> FALSE]

(* The attempts on repositories are numbered, those for sources first. *)
Attempt(stage, index) == IF stage = "source" THEN index ELSE Len(target.sources) + index
Attempts(w) == IF w.kind = "jar" THEN {} ELSE 1 .. Len(w.sources) + Len(w.binaries)

Opens(jar) == jar \in {"bare", "full"}
There(jar) == jar # "absent"

(* Where a jar is: <<a file, 0>>, or <<"repository", which one>> *)
Nothing == <<"nothing", 0>>
Repository(index) == <<"repository", index>>
Named(name, jar) == [at |-> <<name, 0>>, jar |-> jar]

(* firstReadableJarArchive *)
MutFirstReadable(candidates) ==
    LET there == SelectSeq(candidates, LAMBDA c : There(c.jar))
    IN  IF there = <<>> \/ ~Opens(there[1].jar) THEN Nothing ELSE there[1].at

FirstReadable(candidates) ==
    LET readable == SelectSeq(candidates, LAMBDA c : Opens(c.jar))
    IN  IF readable = <<>> THEN Nothing ELSE readable[1].at

(* resolveLocalCoordinateBinaryCandidates, and resolveGradleCacheCoordinateCandidate,
   which takes the first file that is there without opening it *)
M2Binaries == <<Named("m2.exactBinary", target.m2.exactBinary),
                Named("m2.commonBinary", target.m2.commonBinary)>>
GradleBinaries ==
    IF There(target.gradle.exactBinary)
    THEN <<Named("gradle.exactBinary", target.gradle.exactBinary)>>
    ELSE <<Named("gradle.commonBinary", target.gradle.commonBinary)>>
GradleSources ==
    IF There(target.gradle.exactSources)
    THEN Named("gradle.exactSources", target.gradle.exactSources)
    ELSE Named("gradle.commonSources", target.gradle.commonSources)

(* coordinateArtifact *)
Artifact(origin, sources, binary) ==
    [kind |-> "artifact", origin |-> origin, sources |-> sources, binary |-> binary]

Found(artifact) ==
    outcome' = artifact /\ UNCHANGED <<target, leg, failures, slots>>

Enter(name) == leg' = [name |-> name, asked |-> 0] /\ UNCHANGED <<target, failures, slots, outcome>>

(* createError with sawRemoteRepoFailure, and terminalDetails *)
Refuse ==
    /\ outcome' = [kind |-> "error", kept |-> failures.kept,
                   code |-> IF failures.saw THEN "ERR_REPO_FETCH_FAILED"
                                            ELSE "ERR_SOURCE_NOT_FOUND"]
    /\ UNCHANGED <<target, leg, failures, slots>>

FirstLeg(w) == [name |-> IF w.kind = "jar" THEN "jar" ELSE "m2", asked |-> 0]

CascadeInit ==
    /\ target \in Targets
    /\ leg = FirstLeg(target)
    /\ failures = NoFailure /\ outcome = NoOutcome
    /\ slots = [url \in Attempts(target) |-> "empty"]

OnLeg(name) == outcome = NoOutcome /\ leg.name = name

(* The branch of input.kind "jar": the subject is read first, and its archive errors
   are the answer. *)
JarTarget ==
    /\ OnLeg("jar")
    /\ LET subject == <<"subject", 0>>
           binary == IF There(target.sibling) /\ target.named THEN <<"sibling", 0>>
                     ELSE IF target.named THEN Nothing ELSE subject
       IN  IF target.subject = "truncated" THEN Found([kind |-> "error", kept |-> 0, code |-> "archive"])
           ELSE IF target.subject = "sources" THEN Found(Artifact("local-jar", subject, binary))
           ELSE IF ~target.preferBinaryOnly /\ target.beside = "full"
                THEN Found(Artifact("local-jar", <<"beside", 0>>, subject))
           ELSE IF ~target.allowDecompile THEN Refuse
           ELSE IF target.subject = "absent" THEN Found([kind |-> "error", kept |-> 0, code |-> "absent"])
           ELSE Found(Artifact("decompiled", Nothing, subject))

(* The sources in ~/.m2, with a companion from there or from the Gradle cache *)
M2Leg ==
    /\ OnLeg("m2")
    /\ LET sources == SelectSeq(<<Named("m2.exactSources", target.m2.exactSources),
                                  Named("m2.commonSources", target.m2.commonSources)>>,
                                LAMBDA c : c.jar = "full")
       IN  IF sources = <<>> THEN Enter("gradle")
           ELSE Found(Artifact("local-m2", sources[1].at,
                               FirstReadable(M2Binaries \o GradleBinaries)))

GradleLeg ==
    /\ OnLeg("gradle")
    /\ IF GradleSources.jar = "full"
       THEN Found(Artifact("local-m2", GradleSources.at,
                           FirstReadable(GradleBinaries \o M2Binaries)))
       ELSE Enter("remoteSources")

-----------------------------------------------------------------------------
(* recordRepoFailure: the first failure with a nextAction is kept, else the last. *)
MutRecorded(stage, answer) ==
    [saw |-> failures.saw \/ answer \in {"unstable", "refused", "broken"},
     kept |-> Attempt(stage, leg.asked + 1), action |-> answer = "refused"]

Recorded(stage, answer) ==
    LET failed == failures.saw \/ answer \in {"unstable", "refused", "broken"}
    IN  IF failures.action THEN [failures EXCEPT !.saw = failed]
        ELSE [saw |-> failed, kept |-> Attempt(stage, leg.asked + 1),
              action |-> answer = "refused"]

(* resolveCachedDownload serves a slot that is filled, and fills it with a body
   otherwise. *)
Download(url, answers, index) ==
    IF slots[url] # "empty" THEN slots[url] ELSE answers[index]

(* discardCachedDownload empties a slot whose body is no archive. *)
MutSlotAfter(url, answer) ==
    IF answer \in {"truncated", "bare", "full"} THEN answer ELSE slots[url]

SlotAfter(url, answer) ==
    IF answer \in {"bare", "full"} THEN answer
    ELSE IF answer = "truncated" THEN "empty" ELSE slots[url]

(* The next repository of a leg; a failure goes on to the one behind it. *)
AskRepository(stage, answers, good, artifact, exhausted) ==
    LET index == leg.asked + 1
        url == Attempt(stage, index)
        answer == Download(url, answers, index)
    IN  IF leg.asked = Len(answers) THEN exhausted
        ELSE /\ slots' = [slots EXCEPT ![url] = SlotAfter(url, answer)]
             /\ IF answer \in good
                THEN outcome' = artifact /\ UNCHANGED <<leg, failures>>
                ELSE /\ leg' = [leg EXCEPT !.asked = index]
                     /\ failures' = Recorded(stage, answer)
                     /\ UNCHANGED outcome
             /\ UNCHANGED target

RemoteSourcesLeg ==
    /\ OnLeg("remoteSources")
    /\ AskRepository("source", target.sources, {"full"},
                     Artifact("remote-repo", Repository(leg.asked + 1),
                              FirstReadable(M2Binaries \o GradleBinaries)),
                     IF target.allowDecompile THEN Enter("localBinary") ELSE Refuse)

(* A local jar is decompiled only if its name spells the coordinate out. *)
LocalBinaryLeg ==
    /\ OnLeg("localBinary")
    /\ LET binary == FirstReadable(<<Named("m2.exactBinary", target.m2.exactBinary),
                                     Named("gradle.exactBinary", target.gradle.exactBinary)>>)
       IN  IF binary = Nothing THEN Enter("remoteBinary")
           ELSE Found(Artifact("local-m2", Nothing, binary))

RemoteBinaryLeg ==
    /\ OnLeg("remoteBinary")
    /\ AskRepository("binary", target.binaries, {"bare", "full"},
                     Artifact("decompiled", Nothing, Repository(leg.asked + 1)), Refuse)

(* Some time later the target is asked for again. What a repository published stays,
   but its failures may have passed. *)
AskAgain ==
    /\ outcome # NoOutcome /\ outcome' = NoOutcome
    /\ LET Later(answers) ==
               {[i \in DOMAIN answers |->
                   IF i \in healed /\ answers[i] \notin {"bare", "full"} THEN "full" ELSE answers[i]] :
                healed \in SUBSET DOMAIN answers}
       IN  IF target.kind = "jar" THEN UNCHANGED target
           ELSE \E sources \in Later(target.sources), binaries \in Later(target.binaries) :
                   target' = [target EXCEPT !.sources = sources, !.binaries = binaries]
    /\ leg' = FirstLeg(target) /\ failures' = NoFailure
    /\ UNCHANGED slots

CascadeNext ==
    \/ JarTarget \/ M2Leg \/ GradleLeg \/ RemoteSourcesLeg \/ LocalBinaryLeg \/ RemoteBinaryLeg
    \/ AskAgain

CascadeSpec == CascadeInit /\ [][CascadeNext]_cascadeVars

-----------------------------------------------------------------------------
CascadeTypeOK ==
    /\ IsWorld(target)
    /\ leg.name \in {"jar", "m2", "gradle", "remoteSources", "localBinary", "remoteBinary"}
    /\ failures.kept \in {0} \cup Attempts(target)
    /\ slots \in [Attempts(target) -> {"empty", "bare", "full"}]

(* What the code promises of a coordinate: every candidate in the order of preference,
   with whether it can serve. A bad copy never vetoes a good one behind it, except in
   the Gradle cache. *)
Candidates ==
    LET Local(name, serves) == [at |-> <<name, 0>>, serves |-> serves]
        Remote(answers, S) ==
            [i \in DOMAIN answers |-> [at |-> Repository(i), serves |-> answers[i] \in S]]
        m2 == target.m2
        gradle == target.gradle
    IN  << Local("m2.exactSources", m2.exactSources = "full"),
           Local("m2.commonSources", m2.commonSources = "full"),
           Local("gradle.exactSources", gradle.exactSources = "full"),
           Local("gradle.commonSources",
                 gradle.exactSources = "absent" /\ gradle.commonSources = "full") >>
        \o Remote(target.sources, {"full"})
        \o IF ~target.allowDecompile THEN <<>>
           ELSE << Local("m2.exactBinary", m2.exactBinary \in {"full", "bare"}),
                   Local("gradle.exactBinary", gradle.exactBinary \in {"full", "bare"}) >>
                \o Remote(target.binaries, {"full", "bare"})

(* The artifact is the first candidate that serves and its companion opens, whatever
   failed or was cached on earlier calls; there is an error exactly when none serves.
   It blames the repositories if one of them was unstable, and tells of the first
   failure that the caller can mend, or else of the last (recordRepoFailure). *)
CascadeRight ==
    target.kind = "coordinate" /\ outcome # NoOutcome =>
       LET serving == SelectSeq(Candidates, LAMBDA c : c.serves)
           companions == {c.at : c \in {c \in ToSet(M2Binaries \o GradleBinaries) : Opens(c.jar)}}
           asked == target.sources \o IF target.allowDecompile THEN target.binaries ELSE <<>>
           mendable == SelectInSeq(asked, LAMBDA a : a = "refused")
       IN  IF outcome.kind = "error"
           THEN /\ serving = <<>>
                /\ outcome.code = IF ToSet(asked) \cap {"unstable", "refused", "broken"} # {}
                                  THEN "ERR_REPO_FETCH_FAILED" ELSE "ERR_SOURCE_NOT_FOUND"
                /\ outcome.kept = IF mendable > 0 THEN mendable ELSE Len(asked)
           ELSE /\ serving # <<>>
                /\ serving[1].at = IF outcome.sources = Nothing THEN outcome.binary
                                   ELSE outcome.sources
                /\ outcome.sources # Nothing =>
                      outcome.binary \in IF companions = {} THEN {Nothing} ELSE companions

=============================================================================
