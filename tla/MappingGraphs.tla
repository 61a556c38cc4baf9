--------------------------- MODULE MappingGraphs ---------------------------
(***************************************************************************)
(* The graphs of mapping-service.ts: loadGraph builds the graph of a key    *)
(* once for all callers that want it, out of the mappings of Mojang and of  *)
(* the first source of tiny files that has any, and keeps it unless a       *)
(* source failed for a reason that may pass. findMapping keeps its answers  *)
(* beside them.                                                             *)
(***************************************************************************)
EXTENDS Naturals, FiniteSets, SequencesExt

CONSTANTS Finders,      \* calls of findMapping
          MaxGraphs,    \* maxMappingGraphCache
          NoBuild

ASSUME GraphAssumption == MaxGraphs \in Nat \ {0} /\ NoBuild \notin Finders

Tiny == {"intermediary", "yarn"}
Keys == {"full", "mojang-only"}         \* the modes of one version and priority
Sources == {"loom-cache", "maven"}

VARIABLES world,       \* what the sources have, and the priority
          graphs,      \* graphCache, the least recently used first
          build,       \* buildLocks: of each key the build in progress
          finder,      \* of each call, where it is
          resolutions  \* resolutionCache: the keys with an answer

graphVars == <<world, graphs, build, finder, resolutions>>

Idle == [pc |-> "idle", key |-> "full", answer |-> "none"]

(* What a build has gathered, and the tiny sources it has still to ask *)
EmptyBuild == [stage |-> "mojang", mojang |-> FALSE, unread |-> FALSE, tiny |-> {},
               from |-> "none", transient |-> FALSE, attempted |-> FALSE]

(* mappingSourceOrder *)
Order == IF world.mavenFirst THEN <<"maven", "loom-cache">> ELSE <<"loom-cache", "maven">>

GraphInit ==
    /\ world \in [mojang : BOOLEAN, loom : {{}, Tiny}, maven : SUBSET Tiny, mavenFirst : BOOLEAN]
    /\ graphs = <<>> /\ build = [k \in Keys |-> NoBuild]
    /\ finder = [c \in Finders |-> Idle] /\ resolutions = {}

-----------------------------------------------------------------------------
Cached == {graphs[i].key : i \in DOMAIN graphs}
PlaceOf(key) == CHOOSE i \in DOMAIN graphs : graphs[i].key = key
GraphOf(key) == graphs[PlaceOf(key)]

(* namespacePath between the names of Mojang and the obfuscated ones or those of yarn *)
HasPath(key, graph) == graph.mojang /\ (key = "full" => graph.tiny = Tiny)

Informed(call, key, graph) ==
    [call EXCEPT !.pc = "answered", !.answer = IF HasPath(key, graph) THEN "mapped" ELSE "unavailable"]

(* findMapping: an answer from resolutionCache or from a graph at hand, or a place
   among those who wait for the build, which the first of them starts. *)
FindMapping(c, key) ==
    /\ finder[c].pc = "idle"
    /\ LET call == [finder[c] EXCEPT !.key = key] IN
       \/ /\ key \in resolutions
          /\ finder' = [finder EXCEPT ![c] = [call EXCEPT !.pc = "answered", !.answer = "mapped"]]
          /\ UNCHANGED <<graphs, build, resolutions>>
       \/ /\ key \notin resolutions /\ key \in Cached
          /\ graphs' = Append(RemoveAt(graphs, PlaceOf(key)), GraphOf(key))
          /\ finder' = [finder EXCEPT ![c] = Informed(call, key, GraphOf(key))]
          /\ resolutions' = IF HasPath(key, GraphOf(key)) THEN resolutions \cup {key} ELSE resolutions
          /\ UNCHANGED build
       \/ /\ key \notin resolutions \cup Cached
          /\ build' = [build EXCEPT ![key] = IF @ = NoBuild THEN EmptyBuild ELSE @]
          /\ finder' = [finder EXCEPT ![c] = [call EXCEPT !.pc = "waiting"]]
          /\ UNCHANGED <<graphs, resolutions>>
    /\ UNCHANGED world

Building(key, stage) == build[key] # NoBuild /\ build[key].stage = stage
Gather(key, b) == build' = [build EXCEPT ![key] = b] /\ UNCHANGED <<world, graphs, finder, resolutions>>

(* loadMojangPairs: version metadata or the download may fail in passing, which is
   transient, and the downloaded file may be gone or broken when it is read, which
   does not count as that. *)
LoadMojang(key) ==
    /\ Building(key, "mojang")
    /\ \E result \in {"loaded", "transient"} \cup IF world.mojang THEN {"unread"} ELSE {} :
          Gather(key, [build[key] EXCEPT
                          !.mojang = world.mojang /\ result = "loaded",
                          !.unread = result = "unread", !.transient = result = "transient",
                          !.stage = IF key = "full" THEN "first" ELSE "built"])

(* loadTinyPairsFromLoom, or loadTinyPairsFromMaven, which fails in passing for
   the artifacts of which no repository gave a copy while one could not be asked *)
MutTransient(b, failed) == b.transient
Transient(b, failed) == b.transient \/ failed # {}

LoadTiny(key) ==
    /\ build[key] # NoBuild /\ build[key].stage \in {"first", "second"}
    /\ LET b == build[key]
           source == Order[IF b.stage = "first" THEN 1 ELSE 2]
       IN  \E failed \in IF source = "maven" THEN SUBSET Tiny ELSE {{}} :
              LET pairs == (IF source = "maven" THEN world.maven ELSE world.loom) \ failed IN
              IF pairs # {}
              THEN Gather(key, [b EXCEPT !.tiny = pairs, !.from = source, !.stage = "built",
                                         !.transient = Transient(b, failed)])
              ELSE IF b.stage = "first"
              THEN Gather(key, [b EXCEPT !.stage = "second", !.attempted = failed # {}])
              ELSE Gather(key, [b EXCEPT !.stage = "built",
                                         !.transient = @ \/ b.attempted \/ failed # {}])

(* trimGraphCache *)
MutTrimmed(grown) == grown
Trimmed(grown) == IF Len(grown) > MaxGraphs THEN Tail(grown) ELSE grown

(* The build resolves: a graph that can stand is cached, and the least recently used
   one goes; those who wait map their symbols in it either way. *)
FinishBuild(key) ==
    /\ Building(key, "built")
    /\ LET graph == [key |-> key, mojang |-> build[key].mojang, unread |-> build[key].unread,
                     tiny |-> build[key].tiny, from |-> build[key].from]
           mine == {c \in Finders : finder[c].pc = "waiting" /\ finder[c].key = key}
       IN  /\ graphs' = IF build[key].transient THEN graphs
                        ELSE Trimmed(Append(graphs, graph))
           /\ finder' = [c \in Finders |->
                            IF c \in mine THEN Informed(finder[c], key, graph) ELSE finder[c]]
           /\ resolutions' = IF HasPath(key, graph) THEN resolutions \cup {key}
                             ELSE resolutions
    /\ build' = [build EXCEPT ![key] = NoBuild]
    /\ UNCHANGED world

(* What loadMojangPairs does not catch (a directory that cannot be made, a download
   beyond its limit) fails all who wait. *)
FailBuild(key) ==
    /\ Building(key, "mojang")
    /\ build' = [build EXCEPT ![key] = NoBuild]
    /\ finder' = [c \in Finders |-> IF finder[c].pc = "waiting" /\ finder[c].key = key
                                    THEN [finder[c] EXCEPT !.pc = "answered", !.answer = "error"]
                                    ELSE finder[c]]
    /\ UNCHANGED <<world, graphs, resolutions>>

(* releaseGraphCacheEntry *)
ReleaseGraphs ==
    /\ graphs' = <<>> /\ resolutions' = {}
    /\ UNCHANGED <<world, build, finder>>

(* RESOLUTION_CACHE_TTL_MS passes. *)
ResolutionExpires(key) ==
    /\ resolutions' = resolutions \ {key}
    /\ UNCHANGED <<world, graphs, build, finder>>

FindAgain(c) ==
    /\ finder[c].pc = "answered"
    /\ finder' = [finder EXCEPT ![c] = Idle]
    /\ UNCHANGED <<world, graphs, build, resolutions>>

BuildStep(key) == LoadMojang(key) \/ LoadTiny(key) \/ FinishBuild(key) \/ FailBuild(key)

GraphNext ==
    \/ \E c \in Finders : FindAgain(c) \/ \E key \in Keys : FindMapping(c, key)
    \/ \E key \in Keys : BuildStep(key) \/ ResolutionExpires(key)
    \/ ReleaseGraphs

(* Every fetch of a source settles, at the latest on its timeout. *)
GraphFairness == \A key \in Keys : WF_graphVars(BuildStep(key))

GraphSpec == GraphInit /\ [][GraphNext]_graphVars /\ GraphFairness

-----------------------------------------------------------------------------
GraphTypeOK ==
    /\ Len(graphs) <= MaxGraphs /\ Cardinality(Cached) = Len(graphs)
    /\ resolutions \subseteq Keys
    /\ \A c \in Finders : finder[c].pc = "waiting" => build[finder[c].key] # NoBuild

(* A source that was down once is not held against the version for good: a cached graph
   lacks only what the sources lack, though it may come from the second of them, or what
   could not be read of Mojang's file (graph.transient). *)
GraphsWhole ==
    \A i \in DOMAIN graphs :
       LET g == graphs[i] IN
       /\ g.mojang = (world.mojang /\ ~g.unread)
       /\ g.key = "full" =>
             /\ g.tiny = {} <=> world.loom = {} /\ world.maven = {}
             /\ g.from = "maven" => g.tiny = world.maven

(* Every lookup gets an answer or an error. *)
FindersAnswered == \A c \in Finders : finder[c].pc = "waiting" ~> finder[c].pc = "answered"

=============================================================================
