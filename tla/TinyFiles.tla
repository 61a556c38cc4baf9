----------------------------- MODULE TinyFiles -----------------------------
(***************************************************************************)
(* resolveTinyMappingFile of mapping-service.ts for yarn: the tiny file of  *)
(* the newest build of a version, and the marker that lets it be used for a *)
(* day without asking the network. Several servers share the directory and  *)
(* may die between any two steps.                                           *)
(***************************************************************************)
EXTENDS Integers, FiniteSets, SequencesExt

CONSTANTS Resolvers,   \* calls of the servers
          Builds       \* bounds how many yarn builds are published

ASSUME TinyAssumption == Builds \in Nat \ {0}

VARIABLES published,   \* the builds so far, numbered
          tinies,      \* the builds whose tiny file is in the directory
          pruned,      \* those whose file manage-cache deleted
          yarnMarker,  \* the recorded build, 0 when there is none or it is torn
          fresh,       \* whether the marker is younger than YARN_METADATA_TTL_MS
          resolver     \* of each call, where it is

tinyVars == <<published, tinies, pruned, yarnMarker, fresh, resolver>>

(* seen: the marker it read; left: the builds it may still try; chosen: the build it took;
   answer: what it returned, -1 for nothing. *)
ResolverAt(pc, seen, answer) ==
    [pc |-> pc, seen |-> seen, left |-> <<>>, chosen |-> 0, answer |-> answer]
Ready == ResolverAt("ready", 0, 0)
Serves(build) == ResolverAt("done", 0, build)

TinyInit ==
    /\ published \in 0 .. Builds /\ tinies = {} /\ pruned = {} /\ yarnMarker = 0 /\ fresh = FALSE
    /\ resolver = [r \in Resolvers |-> Ready]

Move(r, state) == resolver' = [resolver EXCEPT ![r] = state]
Directory == <<published, tinies, pruned, yarnMarker, fresh>>

(* The marker is read; within its time its build is the answer if the file is there. *)
ReadMarker(r) ==
    /\ resolver[r].pc = "ready"
    /\ \E forceRefresh \in BOOLEAN :
          Move(r, IF ~forceRefresh /\ fresh /\ yarnMarker \in tinies
                  THEN Serves(yarnMarker)
                  ELSE ResolverAt("asking", yarnMarker, 0))
    /\ UNCHANGED Directory

(* fetchYarnCoordinates: the three newest builds. Without any, the marker that was
   read is good enough, however old. *)
AskMetadata(r) ==
    /\ resolver[r].pc = "asking"
    /\ \E reached \in BOOLEAN :
          LET builds == IF reached THEN [i \in 1 .. (IF published < 3 THEN published ELSE 3) |->
                                            published - i + 1] ELSE <<>>
          IN  Move(r, IF builds # <<>> THEN [resolver[r] EXCEPT !.pc = "trying", !.left = builds]
                      ELSE Serves(IF resolver[r].seen \in tinies THEN resolver[r].seen ELSE -1))
    /\ UNCHANGED Directory

(* One build of the list: its file is there, or it is downloaded and extracted, which
   puts it there in one rename, or the next build is tried. *)
MutStored(build) == tinies
Stored(build) == tinies \cup {build}

TryBuild(r) ==
    /\ resolver[r].pc = "trying"
    /\ LET build == Head(resolver[r].left)
           marking == [resolver[r] EXCEPT !.pc = "marking", !.chosen = build]
       IN  \/ /\ tinies' = Stored(build) /\ pruned' = pruned \ {build}
              /\ Move(r, marking)
           \/ /\ build \notin tinies
              /\ Move(r, IF Len(resolver[r].left) = 1
                         THEN Serves(-1)
                         ELSE [resolver[r] EXCEPT !.left = Tail(@)])
              /\ UNCHANGED <<tinies, pruned>>
    /\ UNCHANGED <<published, yarnMarker, fresh>>

(* writeYarnCoordinateMeta *)
WriteYarnMarker(r) ==
    /\ resolver[r].pc = "marking"
    /\ yarnMarker' = resolver[r].chosen /\ fresh' = TRUE
    /\ Move(r, Serves(resolver[r].chosen))
    /\ UNCHANGED <<published, tinies, pruned>>

(* A server dies, the next one asks anew; while it writes the marker, a torn file
   remains, which reads as none. *)
Die(r) ==
    /\ resolver[r].pc # "ready"
    /\ Move(r, Ready)
    /\ \/ UNCHANGED <<yarnMarker, fresh>>
       \/ resolver[r].pc = "marking" /\ yarnMarker' = 0 /\ fresh' = FALSE
    /\ UNCHANGED <<published, tinies, pruned>>

Publish ==
    /\ published < Builds /\ published' = published + 1
    /\ UNCHANGED <<tinies, pruned, yarnMarker, fresh, resolver>>

DayPasses ==
    /\ fresh /\ fresh' = FALSE
    /\ UNCHANGED <<published, tinies, pruned, yarnMarker, resolver>>

(* manage-cache deletes a file of the mapping kind. *)
PruneTiny ==
    \E build \in tinies :
        /\ tinies' = tinies \ {build} /\ pruned' = pruned \cup {build}
        /\ UNCHANGED <<published, yarnMarker, fresh, resolver>>

TinyNext ==
    \/ \E r \in Resolvers : ReadMarker(r) \/ AskMetadata(r) \/ TryBuild(r) \/ WriteYarnMarker(r) \/ Die(r)
    \/ Publish \/ DayPasses \/ PruneTiny

TinySpec == TinyInit /\ [][TinyNext]_tinyVars

-----------------------------------------------------------------------------
TinyTypeOK ==
    /\ published \in 0 .. Builds /\ tinies \cup pruned \subseteq 1 .. published
    /\ yarnMarker \in 0 .. published /\ fresh \in BOOLEAN
    /\ \A r \in Resolvers : resolver[r].answer \in -1 .. published

(* "A crash never leaves a TTL-valid marker pointing at a missing tiny": the file of the
   recorded build is in the directory, whichever servers resolve or die at any step,
   unless manage-cache took it out. *)
MarkerBacked == yarnMarker # 0 => yarnMarker \in tinies \cup pruned

=============================================================================
