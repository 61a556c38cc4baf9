--------------------------- MODULE VersionFiles ---------------------------
(***************************************************************************)
(* What the server keeps on disk for a Minecraft version: the client jars   *)
(* and their index (version-service.ts), the report of the registries that *)
(* a JVM of the game writes (registry-service.ts), and the Mojang mappings *)
(* merged out of two files (mojang-tiny-mapping-service.ts). Calls run     *)
(* beside each other; the server may die and start again; JVMs outlive it. *)
(***************************************************************************)
EXTENDS Naturals, Sequences, FiniteSets, SequencesExt

CONSTANTS FileCalls,   \* the calls
          Versions,    \* the versions whose client jar is asked for
          Hashed,      \* the jars whose SHA-1 the manifest tells
          AskedFor,    \* what is asked for in one behaviour: some sets of versions,
                       \* the registry and the merged mappings
          MaxJvms      \* how many JVMs of a dead or timed out generation there may be

Sides == {"client", "server"}
ServerJar == "server jar"
Jars == Versions \cup {ServerJar}
Registry == "registry"
Merged == "merged"
Locked == Versions \cup {Registry}

ASSUME VersionAssumption ==
    /\ Hashed \subseteq Jars /\ MaxJvms \in Nat
    /\ {ServerJar, Registry, Merged} \cap Versions = {}
    /\ \A what \in AskedFor : what \subseteq Locked \cup {Merged}

VARIABLES asked,     \* what is asked for
          disk,      \* jars, index, report, sides and merged file
          lock,      \* the step of the resolution in flight under a lock, or none
          chain,     \* the versions to be put into the index, in order
          found,     \* what the head of the chain has read of the index, or none
          reports,   \* whether the report is in memory
          jvms,      \* how many JVMs run that nobody waits for
          caller,    \* what each call is at
          \* history
          unchecked, \* the jars whose check a death or a failed removal cut short
          refused,   \* the sides a repository has refused for good
          recorded   \* the versions this server has put into the index since it was lost

filesVars == <<asked, disk, lock, chain, found, reports, jvms, caller, unchecked, refused, recorded>>

NoneFound == <<>>
Rests == [at |-> "rests"]
Waits(l) == [at |-> "waits", lock |-> l]
Answered(what, with) == [at |-> "answered", what |-> what, with |-> with]
Merges(step, sides, left, failed) ==
    [at |-> step, sides |-> sides, left |-> left, failed |-> failed]

VersionFilesInit ==
    /\ asked \in AskedFor
    /\ disk = [jar |-> [j \in Jars |-> "none"], index |-> {}, report |-> "none",
               side |-> {}, merged |-> {}]
    /\ lock = [l \in Locked |-> "none"] /\ chain = <<>> /\ found = NoneFound
    /\ reports = FALSE /\ jvms = 0
    /\ caller = [c \in FileCalls |-> Rests]
    /\ unchecked = {} /\ refused = {} /\ recorded = {}

-----------------------------------------------------------------------------
(* resolveVersionJar and loadRegistries: who comes while one is in flight shares its
   promise. *)
MutJoins(l) == FALSE
Joins(l) == lock[l] # "none"

JoinOrStart(c, l) ==
    /\ caller[c].at \in {"rests", "answered"}
    /\ IF Joins(l) THEN UNCHANGED lock ELSE lock' = [lock EXCEPT ![l] = "begins"]
    /\ caller' = [caller EXCEPT ![c] = Waits(l)]
    /\ UNCHANGED <<disk, chain, found, reports, jvms, unchecked, refused, recorded>>

(* The promise settles, and the lock is given up. *)
Settle(l, with) ==
    /\ lock' = [lock EXCEPT ![l] = "none"]
    /\ caller' = [c \in FileCalls |-> IF caller[c] = Waits(l) THEN Answered(l, with) ELSE caller[c]]

StepsTo(l, step) == lock' = [lock EXCEPT ![l] = step] /\ UNCHANGED caller

JarOf(l) == IF l = Registry THEN ServerJar ELSE l

(* What a caller gets. *)
Bytes(j) == IF j \in unchecked THEN "unchecked" ELSE disk.jar[j]

(* resolveVersionJarInternal: an indexed jar that is there is the answer. Otherwise the
   manifest is asked, which may fail. *)
LookInIndex(v) ==
    /\ lock[v] = "begins"
    /\ IF v \in disk.index /\ disk.jar[v] # "none" THEN Settle(v, Bytes(v))
       ELSE StepsTo(v, "fetches") \/ Settle(v, "failed")
    /\ UNCHANGED <<disk, chain, found, reports, jvms, unchecked, refused, recorded>>

(* Once the jar is there and believed: a client jar is put into the index, a server jar
   is run. *)
HaveJar(l) ==
    IF l = Registry THEN StepsTo(l, "runs") /\ UNCHANGED chain
    ELSE StepsTo(l, "indexed") /\ chain' = Append(chain, l)

(* downloadVerifiedJar: a file that is there is taken as it is; a download is whole, or
   fails; it is then hashed. *)
FetchJar(l) ==
    LET j == JarOf(l)
    IN  /\ lock[l] = "fetches"
        /\ \/ /\ disk.jar[j] # "none"
              /\ HaveJar(l) /\ UNCHANGED disk
           \/ /\ disk.jar[j] = "none"
              /\ \E body \in {"good", "bad"} : disk' = [disk EXCEPT !.jar[j] = body]
              /\ IF j \in Hashed THEN StepsTo(l, "hashes") /\ UNCHANGED chain ELSE HaveJar(l)
           \/ /\ disk.jar[j] = "none"
              /\ Settle(l, "failed") /\ UNCHANGED <<disk, chain>>
        /\ UNCHANGED <<found, reports, jvms, unchecked, refused, recorded>>

HashJar(l) ==
    /\ lock[l] = "hashes"
    /\ \/ /\ disk.jar[JarOf(l)] = "good" /\ HaveJar(l)
       \/ /\ disk.jar[JarOf(l)] = "bad" /\ StepsTo(l, "removes") /\ UNCHANGED chain
       \/ /\ disk.jar[JarOf(l)] = "none" /\ Settle(l, "failed") /\ UNCHANGED chain
    /\ UNCHANGED <<disk, found, reports, jvms, unchecked, refused, recorded>>

RemoveBadJar(l) ==
    /\ lock[l] = "removes" /\ Settle(l, "failed")
    /\ \/ disk' = [disk EXCEPT !.jar[JarOf(l)] = "none"] /\ UNCHANGED unchecked
       \/ UNCHANGED disk /\ unchecked' = unchecked \cup {JarOf(l)}
    /\ UNCHANGED <<chain, found, reports, jvms, refused, recorded>>

(* recordCacheEntry: the writes of index.json wait for one another. The file is read, and
   written in place; a write that fails may leave nothing that can be read, it fails its
   caller, and the next one goes on. *)
MayReadIndex == chain # <<>> /\ found = NoneFound

ReadIndex ==
    /\ MayReadIndex /\ found' = <<disk.index>>
    /\ UNCHANGED <<disk, lock, chain, reports, jvms, caller, unchecked, refused, recorded>>

WriteIndex ==
    /\ found # NoneFound
    /\ \/ /\ disk' = [disk EXCEPT !.index = Head(found) \cup {Head(chain)}]
          /\ recorded' = recorded \cup {Head(chain)}
          /\ Settle(Head(chain), Bytes(Head(chain)))
       \/ /\ \E lost \in {{}, disk.index} :
                disk' = [disk EXCEPT !.index = @ \ lost] /\ recorded' = recorded \ lost
          /\ Settle(Head(chain), "failed")
    /\ chain' = Tail(chain) /\ found' = NoneFound
    /\ UNCHANGED <<reports, jvms, unchecked, refused>>

-----------------------------------------------------------------------------
(* loadRegistriesInternal: the memory, a report on disk that can be read, or a new one.
   A report that cannot be read is removed, if it can be. *)
LoadReport ==
    /\ lock[Registry] = "begins"
    /\ IF reports THEN Settle(Registry, "whole") /\ UNCHANGED <<disk, reports>>
       ELSE IF disk.report = "whole"
       THEN Settle(Registry, "whole") /\ reports' = TRUE /\ UNCHANGED disk
       ELSE /\ UNCHANGED reports
            /\ disk.report = "torn" \/ UNCHANGED disk
            /\ disk.report = "torn" => disk' \in {disk, [disk EXCEPT !.report = "none"]}
            /\ StepsTo(Registry, "fetches") \/ Settle(Registry, "failed")
    /\ UNCHANGED <<chain, found, jvms, unchecked, refused, recorded>>

(* runDataGen: the JVM writes the report, in two steps, and exits; or it fails; or the
   time is over, and it is killed, which it may not heed. *)
JvmTears ==
    /\ lock[Registry] = "runs"
    /\ disk' = [disk EXCEPT !.report = "torn"] /\ StepsTo(Registry, "writes")
    /\ UNCHANGED <<chain, found, reports, jvms, unchecked, refused, recorded>>

JvmEnds ==
    /\ lock[Registry] = "writes"
    /\ disk' = [disk EXCEPT !.report = IF @ = "none" THEN @ ELSE "whole"]
    /\ StepsTo(Registry, "reads")
    /\ UNCHANGED <<chain, found, reports, jvms, unchecked, refused, recorded>>

JvmFails ==
    /\ lock[Registry] \in {"runs", "writes"} /\ Settle(Registry, "failed")
    /\ jvms' \in {jvms} \cup {n \in {jvms + 1} : n <= MaxJvms}
    /\ UNCHANGED <<disk, chain, found, reports, unchecked, refused, recorded>>

ReadReport ==
    /\ lock[Registry] = "reads"
    /\ IF disk.report = "whole" THEN Settle(Registry, "whole") /\ reports' = TRUE
       ELSE Settle(Registry, "failed") /\ UNCHANGED reports
    /\ UNCHANGED <<disk, chain, found, jvms, unchecked, refused, recorded>>

(* A JVM that nobody waits for goes on in the same directory. *)
OrphanWrites ==
    /\ jvms > 0
    /\ \E report \in {"torn", "whole"} : disk' = [disk EXCEPT !.report = report]
    /\ UNCHANGED <<lock, chain, found, reports, jvms, caller, unchecked, refused, recorded>>

OrphanEnds ==
    /\ jvms > 0 /\ jvms' = jvms - 1
    /\ UNCHANGED <<disk, lock, chain, found, reports, caller, unchecked, refused, recorded>>

-----------------------------------------------------------------------------
(* resolveMojangTinyFile, under no lock. *)
StartMerge(c) ==
    /\ caller[c].at \in {"rests", "answered"}
    /\ caller' = [caller EXCEPT ![c] =
                     IF disk.merged # {} THEN Answered(Merged, disk.merged)
                     ELSE Merges("sides", {}, {}, {})]
    /\ UNCHANGED <<disk, lock, chain, found, reports, jvms, unchecked, refused, recorded>>

(* ensureMappingsFile, for the side that has not been seen to: the file that is there, a
   download, a refusal for good, or a failure that may pass. *)
EnsureSide(c) ==
    /\ caller[c].at = "sides"
    /\ \E side \in Sides \ (caller[c].sides \cup caller[c].left \cup caller[c].failed) :
          \/ /\ caller' = [caller EXCEPT ![c].sides = @ \cup {side}]
             /\ disk' = [disk EXCEPT !.side = @ \cup {side}] /\ UNCHANGED refused
          \/ /\ side \notin disk.side /\ refused' = refused \cup {side}
             /\ caller' = [caller EXCEPT ![c].left = @ \cup {side}] /\ UNCHANGED disk
          \/ /\ side \notin disk.side
             /\ caller' = [caller EXCEPT ![c].failed = @ \cup {side}] /\ UNCHANGED <<disk, refused>>
    /\ UNCHANGED <<lock, chain, found, reports, jvms, unchecked, recorded>>

(* A side that failed and may come later stops the merge. *)
MayMerge(c) == caller[c].sides # {} /\ caller[c].failed = {}

Merge(c) ==
    /\ caller[c].at = "sides"
    /\ caller[c].sides \cup caller[c].left \cup caller[c].failed = Sides
    /\ caller' = [caller EXCEPT ![c] = IF MayMerge(c) THEN [@ EXCEPT !.at = "renames"]
                                       ELSE Answered(Merged, {})]
    /\ UNCHANGED <<disk, lock, chain, found, reports, jvms, unchecked, refused, recorded>>

(* The merged file is written beside its place and renamed into it. *)
RenameMerged(c) ==
    /\ caller[c].at = "renames"
    /\ disk' = [disk EXCEPT !.merged = caller[c].sides]
    /\ caller' = [caller EXCEPT ![c] = Answered(Merged, caller[c].sides)]
    /\ UNCHANGED <<lock, chain, found, reports, jvms, unchecked, refused, recorded>>

-----------------------------------------------------------------------------
(* manage-cache removes a jar. *)
PruneJar(j) ==
    /\ disk.jar[j] # "none"
    /\ disk' = [disk EXCEPT !.jar[j] = "none"] /\ unchecked' = unchecked \ {j}
    /\ UNCHANGED <<lock, chain, found, reports, jvms, caller, refused, recorded>>

(* The server dies, and starts again. An index that was being written may be lost; the
   JVM goes on. *)
ServerDiesHere ==
    /\ \E lost \in {{}, disk.index} :
          disk' = [disk EXCEPT !.index = IF found # NoneFound THEN @ \ lost ELSE @]
    /\ unchecked' = unchecked \cup {JarOf(l) : l \in {x \in Locked : lock[x] \in {"hashes", "removes"}}}
    /\ jvms' = IF lock[Registry] \in {"runs", "writes"} /\ jvms < MaxJvms THEN jvms + 1 ELSE jvms
    /\ lock' = [l \in Locked |-> "none"] /\ chain' = <<>> /\ found' = NoneFound
    /\ reports' = FALSE /\ caller' = [c \in FileCalls |-> Rests] /\ recorded' = {}
    /\ UNCHANGED refused

JarStep(l) == FetchJar(l) \/ HashJar(l) \/ RemoveBadJar(l)
VersionStep(v) == LookInIndex(v) \/ JarStep(v)
IndexStep == ReadIndex \/ WriteIndex
RegistryStep == LoadReport \/ JarStep(Registry) \/ JvmTears \/ JvmEnds \/ JvmFails \/ ReadReport
MergeStep(c) == EnsureSide(c) \/ Merge(c) \/ RenameMerged(c)

VersionFilesNext ==
    /\ UNCHANGED asked
    /\ \/ \E v \in Versions : VersionStep(v)
       \/ IndexStep \/ RegistryStep
       \/ \E c \in FileCalls : MergeStep(c)
       \/ \E c \in FileCalls : \E l \in asked \cap Locked : JoinOrStart(c, l)
       \/ Merged \in asked /\ \E c \in FileCalls : StartMerge(c)
       \/ OrphanWrites \/ OrphanEnds
       \/ \E j \in Jars : PruneJar(j)
       \/ ServerDiesHere

(* Requests, JVMs and file operations come to an end. *)
VersionFilesFairness ==
    /\ \A v \in Versions : WF_filesVars(UNCHANGED asked /\ VersionStep(v))
    /\ WF_filesVars(UNCHANGED asked /\ IndexStep)
    /\ WF_filesVars(UNCHANGED asked /\ RegistryStep)
    /\ \A c \in FileCalls : WF_filesVars(UNCHANGED asked /\ MergeStep(c))

VersionFilesSpec == VersionFilesInit /\ [][VersionFilesNext]_filesVars /\ VersionFilesFairness

-----------------------------------------------------------------------------
VersionFilesTypeOK ==
    /\ asked \in AskedFor
    /\ disk.jar \in [Jars -> {"none", "good", "bad"}] /\ disk.index \subseteq Versions
    /\ disk.report \in {"none", "torn", "whole"} /\ disk.merged \subseteq Sides
    /\ \A l \in Locked : lock[l] \in {"none", "begins", "fetches", "hashes", "removes", "indexed",
                                      "runs", "writes", "reads"}
    /\ Len(found) <= 1 /\ Range(found) \subseteq SUBSET Versions
    /\ jvms \in 0 .. MaxJvms
    /\ \A c \in FileCalls : caller[c].at = "waits" => lock[caller[c].lock] # "none"

(* A jar whose SHA-1 the manifest tells is handed to nobody before it was compared, by
   whichever call it was downloaded (resolveVersionJar, downloadVerifiedJar): an
   unchecked one is only what a death or a failed removal has left. *)
JarsChecked ==
    /\ \A c \in FileCalls :
          caller[c].at = "answered" /\ caller[c].what \in Hashed => caller[c].with # "bad"
    /\ lock[Registry] = "runs" /\ ServerJar \in Hashed => Bytes(ServerJar) # "bad"

(* Resolutions of several versions lose none of each other's entries, unless a write of the
   index itself fails or is cut short (recordCacheEntry). *)
IndexKept == recorded \subseteq disk.index

(* The merged mappings, which are never made again, lack a side only that no repository
   will ever give (resolveMojangTinyFile). *)
MergedWhole == disk.merged # {} => Sides \ disk.merged \subseteq refused

(* Who asked is answered (resolveLocks, loadLocks). *)
FileCallsAnswered == \A c \in FileCalls : caller[c].at \notin {"rests", "answered"} ~>
                                              caller[c].at \in {"rests", "answered"}

(* What the three services leave on the disk is whole and can be relied on
   (VersionService, RegistryService, resolveMojangTinyFile). *)
VersionFilesRight == JarsChecked /\ IndexKept /\ MergedWhole

=============================================================================
