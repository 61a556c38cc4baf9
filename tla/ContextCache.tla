---------------------------- MODULE ContextCache ----------------------------
(***************************************************************************)
(* What the server remembers of a Gradle project: workspace-context-cache.ts *)
(* with its writers loadOrDetectWorkspaceContext and                       *)
(* synthesizeDependencyTarget (source/workspace-target.ts) and the mapping *)
(* hint of source/artifact-resolver.ts. They read the files of the project *)
(* between two looks at the cache; anything may be edited meanwhile.       *)
(***************************************************************************)
EXTENDS Naturals

CONSTANTS Lookups,     \* calls that may look at the project at the same time
          MaxEditions  \* bounds how often its gradle.properties is edited

ASSUME ContextAssumption == MaxEditions \in Nat \ {0}

VARIABLES edition,  \* which text gradle.properties has
          context,  \* the cached entry of the project
          lookups   \* the state of each call

contextVars == <<edition, context, lookups>>

(* detected and dependency are the edition that the version of Minecraft and the
   version of a dependency were read from, print is that of the fingerprint; 0
   stands for none. old: past the TTL. *)
Contexts == [there : BOOLEAN, partial : BOOLEAN, detected : Nat, dependency : Nat,
             print : Nat, old : BOOLEAN]
NoContext == [there |-> FALSE, partial |-> FALSE, detected |-> 0, dependency |-> 0,
              print |-> 0, old |-> FALSE]
Looking == [pc : {"idle", "workspace", "workspaceRead", "dependency", "dependencyRead", "hint",
                  "hintRead"},
            print : Nat, seen : Nat, kept : Nat]
NoLooking == [pc |-> "idle", print |-> 0, seen |-> 0, kept |-> 0]

ContextInit ==
    /\ edition = 1
    /\ context = NoContext
    /\ lookups = [c \in Lookups |-> NoLooking]

(* read: an entry that is expired or whose fingerprint is stale is removed. *)
ReadContext == IF context.old \/ context.print \notin {0, edition} THEN NoContext ELSE context

MayStart(c) == lookups[c].pc = "idle"
Proceed(c, l) == lookups' = [lookups EXCEPT ![c] = l] /\ UNCHANGED edition

(* loadOrDetectWorkspaceContext: the fingerprint is taken before the detection. *)
StartWorkspace(c) ==
    /\ MayStart(c)
    /\ context' = ReadContext
    /\ IF ReadContext.there /\ ~ReadContext.partial
       THEN UNCHANGED <<edition, lookups>>
       ELSE Proceed(c, [pc |-> "workspace", print |-> edition, seen |-> 0,
                        kept |-> ReadContext.dependency])

MutFingerprint(l) == edition
Fingerprint(l) == l.print

(* Dependency versions found meanwhile are kept. *)
FinishWorkspace(c) ==
    LET l == lookups[c] IN
    /\ l.pc = "workspaceRead"
    /\ context' = [there |-> TRUE, partial |-> FALSE, detected |-> l.seen,
                   dependency |-> IF ReadContext.there THEN ReadContext.dependency ELSE l.kept,
                   print |-> Fingerprint(l), old |-> FALSE]
    /\ Proceed(c, NoLooking)

(* synthesizeDependencyTarget without an explicit version *)
StartDependency(c) ==
    /\ MayStart(c)
    /\ context' = ReadContext
    /\ IF ReadContext.dependency # 0
       THEN UNCHANGED <<edition, lookups>>
       ELSE Proceed(c, [NoLooking EXCEPT !.pc = "dependency"])

FinishDependency(c) ==
    LET l == lookups[c] IN
    /\ l.pc = "dependencyRead"
    /\ context' = IF ReadContext.there THEN [ReadContext EXCEPT !.dependency = l.seen]
                  ELSE [NoContext EXCEPT !.there = TRUE, !.partial = TRUE, !.dependency = l.seen]
    /\ Proceed(c, NoLooking)

(* The hint beside a failed mapping: what it detects is written without another look. *)
StartHint(c) ==
    /\ MayStart(c)
    /\ context' = ReadContext
    /\ IF ReadContext.there
       THEN UNCHANGED <<edition, lookups>>
       ELSE Proceed(c, [NoLooking EXCEPT !.pc = "hint"])

FinishHint(c) ==
    /\ lookups[c].pc = "hintRead"
    /\ context' = [NoContext EXCEPT !.there = TRUE, !.partial = TRUE,
                                    !.detected = lookups[c].seen]
    /\ Proceed(c, NoLooking)

(* The detections of workspace-mapping-service.ts read gradle.properties; or they
   find nothing, and the call ends. *)
ReadProject(c) ==
    LET next == [workspace |-> "workspaceRead", dependency |-> "dependencyRead",
                 hint |-> "hintRead"]
    IN  /\ lookups[c].pc \in DOMAIN next
        /\ \/ Proceed(c, [lookups[c] EXCEPT !.pc = next[@], !.seen = edition])
           \/ lookups[c].pc # "workspace" /\ Proceed(c, NoLooking)
        /\ UNCHANGED context

Edit ==
    /\ edition < MaxEditions
    /\ edition' = edition + 1
    /\ UNCHANGED <<context, lookups>>

(* The entry passes its TTL; it is invalidated by manage-cache or pushed out. *)
Age ==
    /\ context.there
    /\ context' \in {[context EXCEPT !.old = TRUE], NoContext}
    /\ UNCHANGED <<edition, lookups>>

ContextNext ==
    \/ \E c \in Lookups :
          \/ StartWorkspace(c) \/ FinishWorkspace(c) \/ StartDependency(c)
          \/ FinishDependency(c) \/ StartHint(c) \/ FinishHint(c) \/ ReadProject(c)
    \/ Edit \/ Age

ContextSpec == ContextInit /\ [][ContextNext]_contextVars

-----------------------------------------------------------------------------
ContextTypeOK ==
    /\ edition \in 1 .. MaxEditions
    /\ context \in Contexts
    /\ lookups \in [Lookups -> Looking]

(* A workspace context whose fingerprint is that of the files was detected from
   these files, though they were edited while it was detected, and other calls
   wrote to the entry meanwhile. *)
ContextFresh ==
    context.there /\ ~context.partial /\ context.print = edition => context.detected = edition

=============================================================================
