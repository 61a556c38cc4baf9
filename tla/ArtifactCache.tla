--------------------------- MODULE ArtifactCache ---------------------------
(***************************************************************************)
(* The artifact index and its remapped jars: source/indexer.ts,            *)
(* source/cache-metrics.ts and source/state.ts. Calls resolve artifacts    *)
(* (ingestIfNeeded) or index them again (indexArtifact); they join the     *)
(* ingest and the remap that another call has in flight; an ingest ends    *)
(* with the eviction of what exceeds the limits.                           *)
(*                                                                         *)
(* The code between two awaits is one action, with the microtasks that the *)
(* event loop runs before anything else.                                   *)
(***************************************************************************)
EXTENDS Naturals, FiniteSets, SequencesExt

CONSTANTS Artifacts,      \* artifact ids
          Remapped,       \* those whose transformChain has binary-remap:obf->mojang
          Workers,        \* calls that may run at the same time
          Operations,     \* subset of {"resolve", "index"}
          ContentSizes,   \* bytes an index may take
          JarSize,        \* bytes of a remapped jar
          MaxArtifacts, MaxCacheBytes,
          Nobody, Unused, \* no call, no artifact
          MaxTampers,     \* how often the cache is pruned or damaged from outside
          MayRestart      \* whether the process may be restarted

ASSUME ArtifactAssumption ==
    /\ Remapped \subseteq Artifacts /\ IsFiniteSet(Artifacts)
    /\ ContentSizes \subseteq Nat /\ JarSize \in Nat \ {0}
    /\ MaxArtifacts \in Nat \ {0} /\ MaxCacheBytes \in Nat /\ MaxTampers \in Nat
    /\ Operations \subseteq {"resolve", "index"}
    /\ Nobody \notin Workers /\ Unused \notin Artifacts

VARIABLES store,      \* rows, jars on disk and the accounting of both
          ingesting,  \* inflightArtifactIngests: the call whose promise it holds
          remapping,  \* inflightRemaps
          work,       \* the state of each call
          tampers     \* bounds Tamper

cacheVars == <<store, ingesting, remapping, work, tampers>>

(* table: the rows, oldest updated_at first; current: those whose index meta is
   up to date; jar: remapped/<id>.jar; lru, lruBytes, jarBytes and total are the
   fields of SourceServiceState. *)
Orders == SeqOf(Artifacts, Cardinality(Artifacts))
Stores == [table : Orders, current : SUBSET Artifacts, bytes : [Artifacts -> Nat],
           jar : [Artifacts -> {"none", "good", "corrupt"}], lru : Orders,
           lruBytes : [Artifacts -> Nat], jarBytes : [Artifacts -> Nat], total : Nat]

Works == [pc : {"idle", "inspecting", "checking", "removing", "removed", "locating",
                "remapping", "sizing", "recording", "decompiling", "finishing", "joined",
                "awaitIngest", "awaitRemap", "returned", "failing"},
          art : Artifacts \cup {Unused},
          op : Operations \cup {"none"},
          leg : {"none", "warm", "joined", "rebuild"},  \* what the remap is done for
          on : Workers \cup {Nobody},                   \* whose promise is awaited
          own : BOOLEAN,                                \* it runs the remap itself
          size : {0, JarSize}]                          \* of the jar, from stat

IdleWork == [pc |-> "idle", art |-> Unused, op |-> "none", leg |-> "none",
             on |-> Nobody, own |-> FALSE, size |-> 0]

NoBytes == [a \in Artifacts |-> 0]

-----------------------------------------------------------------------------
(* cache-metrics.ts *)

Minus(m, n) == IF m < n THEN 0 ELSE m - n      \* Math.max(0, m - n)

Weight(k, a) == k.lruBytes[a] + k.jarBytes[a]

(* What is left of an order when only the artifacts in S stay: deletion from a table or
   from the LruList. A recursive function, and not SelectSeq, of which TLAPS knows nothing. *)
Keep(s, S) ==
    LET kept[n \in 0 .. Len(s)] ==
            IF n = 0 THEN <<>>
            ELSE IF s[n] \in S THEN Append(kept[n - 1], s[n]) ELSE kept[n - 1]
    IN  kept[Len(s)]

(* moveToTail, and the update of updated_at *)
ToEnd(s, a) == Append(Keep(s, Artifacts \ {a}), a)

MutRecordJar(k, a, size) ==
    [k EXCEPT !.jarBytes[a] = size, !.total = @ + size]

(* recordRemappedJarBytes *)
RecordJar(k, a, size) ==
    [k EXCEPT !.jarBytes[a] = size, !.total = Minus(@, k.jarBytes[a]) + size]

(* releaseRemappedJarBytes *)
ReleaseJar(k, a) ==
    [k EXCEPT !.jarBytes[a] = 0, !.total = Minus(@, k.jarBytes[a])]

(* upsertCacheMetrics *)
UpsertMetrics(k, a, size) ==
    [k EXCEPT !.lru = ToEnd(@, a), !.lruBytes[a] = size,
              !.total = Minus(@, k.lruBytes[a]) + size]

(* refreshCacheMetrics: only jars of live artifacts count. *)
Refresh(k) ==
    LET jars == [a \in Artifacts |->
                   IF Contains(k.table, a) /\ k.jar[a] # "none" THEN JarSize ELSE 0]
    IN  [k EXCEPT !.lru = k.table, !.lruBytes = k.bytes, !.jarBytes = jars,
                  !.total = SumFunction(k.bytes) + SumFunction(jars)]

MutTouch(k, a) == [k EXCEPT !.table = IF Contains(@, a) THEN ToEnd(@, a) ELSE @]

(* touchArtifact and touchCacheMetrics *)
Touch(k, a) ==
    LET touched == [k EXCEPT !.table = IF Contains(@, a) THEN ToEnd(@, a) ELSE @]
    IN  IF Contains(k.lru, a) THEN [touched EXCEPT !.lru = ToEnd(@, a)]
                              ELSE Refresh(touched)

(* enforceCacheLimits evicts the n oldest artifacts: until the limits hold, and
   never the last one. *)
MutEvicts(k, n) == n = Minus(Len(k.lru), MaxArtifacts)

Evicts(k, n) ==
    LET Within(m) == /\ Len(k.lru) - m <= MaxArtifacts
                     /\ Minus(k.total, SumFunctionOnSet([a \in Artifacts |-> Weight(k, a)],
                                                        ToSet(SubSeq(k.lru, 1, m))))
                           <= MaxCacheBytes
        last == Minus(Len(k.lru), 1)
    IN  n <= last /\ (n = last \/ Within(n)) /\ \A m \in 0 .. n - 1 : ~Within(m)

(* What is left without the artifacts in `out`; the jars in `stuck` cannot be
   unlinked. *)
Without(k, out, stuck) ==
    LET Zero(f) == [a \in Artifacts |-> IF a \in out THEN 0 ELSE f[a]]
    IN  [k EXCEPT !.table = Keep(@, Artifacts \ out),
                  !.current = @ \ out,
                  !.bytes = Zero(@),
                  !.jar = [a \in Artifacts |-> IF a \in out \ stuck THEN "none" ELSE @[a]],
                  !.lru = Keep(@, Artifacts \ out),
                  !.lruBytes = Zero(@),
                  !.jarBytes = Zero(@),
                  !.total = Minus(@, SumFunctionOnSet([a \in Artifacts |-> Weight(k, a)], out))]

(* The transaction of rebuildAndPersistArtifactIndex, then upsertCacheMetrics. *)
Persisted(k, a, size) ==
    UpsertMetrics([k EXCEPT !.table = ToEnd(@, a), !.current = @ \cup {a},
                            !.bytes[a] = size], a, size)

-----------------------------------------------------------------------------
(* How a call goes on. Each of these gives work' and what it does to the maps. *)

Update(c, r) == work' = [work EXCEPT ![c] = r]

(* runBinaryRemapWithDeps, registered for others to join *)
StartRemap(c, r) ==
    /\ remapping' = [remapping EXCEPT ![r.art] = c]
    /\ Update(c, [r EXCEPT !.pc = "remapping", !.own = TRUE])

(* Join the remap in flight, or start one; of a remap that has ended the promise
   is settled, though its owner still asks for the size of the jar. A row that was indexed names the
   remapped jar itself: the original has to be resolved first. *)
RemapOrJoin(c, r) ==
    IF remapping[r.art] # Nobody
    THEN /\ Update(c, IF work[remapping[r.art]].pc = "remapping"
                      THEN [r EXCEPT !.pc = "awaitRemap", !.on = remapping[r.art]]
                      ELSE [r EXCEPT !.pc = "returned"])
         /\ UNCHANGED remapping
    ELSE IF r.op = "index"
         THEN Update(c, [r EXCEPT !.pc = "locating"]) /\ UNCHANGED remapping
         ELSE StartRemap(c, r)

(* maybeRemapBinaryForMojang up to its first await *)
EnterRemap(c, r) ==
    IF store.jar[r.art] # "none"
    THEN Update(c, [r EXCEPT !.pc = "checking"]) /\ UNCHANGED remapping
    ELSE RemapOrJoin(c, r)

(* maybeRemapBinaryForMojang returns a jar. *)
AfterRemap(r) ==
    IF r.leg = "joined" THEN IdleWork
    ELSE [r EXCEPT !.pc = IF r.leg = "warm" THEN "finishing" ELSE "decompiling",
                   !.on = Nobody, !.own = FALSE, !.size = 0]

(* The ingest promise of c settles: those who await it go on. *)
Settled(c, w, pc) ==
    [d \in Workers |-> IF w[d].pc = "awaitIngest" /\ w[d].on = c
                       THEN [w[d] EXCEPT !.pc = pc, !.on = Nobody] ELSE w[d]]

Ingests(c) == work[c].leg = "rebuild" /\ work[c].op = "resolve"

MutForget(c) == ingesting

(* The finally of ingestIfNeeded *)
Forget(c) ==
    [a \in Artifacts |-> IF Ingests(c) /\ ingesting[a] = c THEN Nobody ELSE ingesting[a]]

Fail(c) ==
    /\ work' = Settled(c, [work EXCEPT ![c] = IdleWork], "failing")
    /\ ingesting' = Forget(c)

CacheInit ==
    /\ \E jar \in [Remapped -> {"none", "good", "corrupt"}] :
          store = Refresh([table |-> <<>>, current |-> {}, bytes |-> NoBytes,
                           jar |-> [a \in Artifacts |-> IF a \in Remapped THEN jar[a] ELSE "none"],
                           lru |-> <<>>, lruBytes |-> NoBytes, jarBytes |-> NoBytes, total |-> 0])
    /\ ingesting = [a \in Artifacts |-> Nobody]
    /\ remapping = [a \in Artifacts |-> Nobody]
    /\ work = [c \in Workers |-> IdleWork]
    /\ tampers = 0

-----------------------------------------------------------------------------
MutJoinIngest(c, a) == FALSE

JoinIngest(c, a) == ingesting[a] # Nobody

(* ingestIfNeeded: reuse what is current, join an ingest in flight, or ingest. *)
Resolve(c, a) ==
    /\ "resolve" \in Operations /\ work[c].pc = "idle"
    /\ LET r == [IdleWork EXCEPT !.art = a, !.op = "resolve"] IN
       \/ /\ a \in store.current
          /\ IF a \in Remapped
             THEN EnterRemap(c, [r EXCEPT !.leg = "warm"])
             ELSE Update(c, [r EXCEPT !.leg = "warm", !.pc = "finishing"]) /\ UNCHANGED remapping
          /\ UNCHANGED ingesting
       \/ /\ a \notin store.current /\ JoinIngest(c, a)
          /\ Update(c, [r EXCEPT !.leg = "joined", !.pc = "awaitIngest", !.on = ingesting[a]])
          /\ UNCHANGED <<ingesting, remapping>>
       \/ /\ a \notin store.current /\ ~JoinIngest(c, a)
          /\ ingesting' = [ingesting EXCEPT ![a] = c]
          /\ Update(c, [r EXCEPT !.leg = "rebuild", !.pc = "inspecting"])
          /\ UNCHANGED remapping
    /\ UNCHANGED store

(* indexArtifact, forced or of an outdated row; it joins nobody. *)
Index(c, a) ==
    /\ "index" \in Operations /\ work[c].pc = "idle" /\ Contains(store.table, a)
    /\ Update(c, [IdleWork EXCEPT !.art = a, !.op = "index", !.leg = "rebuild",
                                  !.pc = "inspecting"])
    /\ UNCHANGED <<store, ingesting, remapping>>

(* The rebuilt index is written; an ingest then enforces the limits. *)
Persist(c, size) ==
    /\ \E k \in {Persisted(store, work[c].art, size)} :
          IF Ingests(c)
          THEN \E n \in 0 .. Len(k.lru), stuck \in {{}, Artifacts} :
                  Evicts(k, n) /\ store' = Without(k, ToSet(SubSeq(k.lru, 1, n)), stuck)
          ELSE store' = k
    /\ work' = Settled(c, [work EXCEPT ![c] = IdleWork], "joined")
    /\ ingesting' = Forget(c)
    /\ UNCHANGED remapping

(* detectShellJarInventory: a shell has no classes of its own to index. *)
Inspect(c) ==
    /\ work[c].pc = "inspecting"
    /\ \/ Persist(c, 0)
       \/ /\ IF work[c].art \in Remapped
             THEN EnterRemap(c, work[c])
             ELSE Update(c, [work[c] EXCEPT !.pc = "decompiling"]) /\ UNCHANGED remapping
          /\ UNCHANGED <<store, ingesting>>
       \/ Fail(c) /\ UNCHANGED <<store, remapping>>

(* isUsableJarFile of the jar in the cache *)
Check(c) ==
    /\ work[c].pc = "checking"
    /\ Update(c, [work[c] EXCEPT !.pc = IF store.jar[work[c].art] = "good"
                                        THEN "sizing" ELSE "removing"])
    /\ UNCHANGED <<store, ingesting, remapping>>

RemoveJar(c) ==
    /\ work[c].pc = "removing"
    /\ \/ /\ store' = [store EXCEPT !.jar[work[c].art] = "none"]
          /\ Update(c, [work[c] EXCEPT !.pc = "removed"])
          /\ UNCHANGED <<ingesting, remapping>>
       \/ /\ store' = ReleaseJar(store, work[c].art)
          /\ Fail(c)
          /\ UNCHANGED remapping

JarRemoved(c) ==
    /\ work[c].pc = "removed"
    /\ store' = ReleaseJar(store, work[c].art)
    /\ RemapOrJoin(c, work[c])
    /\ UNCHANGED ingesting

(* resolveVersionJar, and no second look at who else remaps by now *)
Locate(c) ==
    /\ work[c].pc = "locating"
    /\ \/ StartRemap(c, work[c]) /\ UNCHANGED <<store, ingesting>>
       \/ Fail(c) /\ UNCHANGED <<store, remapping>>

(* The remap ends: its output is renamed over the jar, or it failed. *)
Remap(c) ==
    LET Told(w, pc) == [d \in Workers |-> IF w[d].pc = "awaitRemap" /\ w[d].on = c
                                          THEN [w[d] EXCEPT !.pc = pc, !.on = Nobody] ELSE w[d]]
    IN  /\ work[c].pc = "remapping"
        /\ \/ /\ store' = [store EXCEPT !.jar[work[c].art] = "good"]
              /\ work' = Told([work EXCEPT ![c].pc = "sizing"], "returned")
              /\ UNCHANGED remapping
           \/ /\ work' = Told([work EXCEPT ![c].pc = "failing", ![c].own = FALSE], "failing")
              /\ remapping' = [remapping EXCEPT ![work[c].art] = Nobody]
              /\ UNCHANGED store
        /\ UNCHANGED ingesting

RemapJoined(c) ==
    /\ work[c].pc = "returned"
    /\ Update(c, AfterRemap(work[c]))
    /\ UNCHANGED <<store, ingesting, remapping>>

GiveUp(c) ==
    /\ work[c].pc = "failing"
    /\ Fail(c)
    /\ UNCHANGED <<store, remapping>>

(* recordRemappedJarBytesFromDisk: the stat, ... *)
Stat(c) ==
    /\ work[c].pc = "sizing"
    /\ Update(c, [work[c] EXCEPT !.pc = "recording",
                                 !.size = IF store.jar[work[c].art] = "none" THEN 0 ELSE JarSize])
    /\ UNCHANGED <<store, ingesting, remapping>>

(* ... and what follows it; the finally of an own remap *)
Record(c) ==
    /\ work[c].pc = "recording"
    /\ store' = IF work[c].size = 0 THEN store ELSE RecordJar(store, work[c].art, work[c].size)
    /\ remapping' = IF work[c].own THEN [remapping EXCEPT ![work[c].art] = Nobody] ELSE remapping
    /\ Update(c, AfterRemap(work[c]))
    /\ UNCHANGED ingesting

(* decompileBinaryJar, or the read of a source jar *)
Decompile(c) ==
    /\ work[c].pc = "decompiling"
    /\ \/ \E size \in ContentSizes : Persist(c, size)
       \/ Fail(c) /\ UNCHANGED <<store, remapping>>

(* The rest of a warm resolve: the row, if it is still there, and its place. *)
FinishWarm(c) ==
    /\ work[c].pc = "finishing"
    /\ store' = Touch(store, work[c].art)
    /\ Update(c, IdleWork)
    /\ UNCHANGED <<ingesting, remapping>>

(* reconcileMojangBinaryJar after somebody else's ingest *)
ReconcileJoined(c) ==
    /\ work[c].pc = "joined"
    /\ IF work[c].art \in Remapped
       THEN EnterRemap(c, work[c])
       ELSE Update(c, IdleWork) /\ UNCHANGED remapping
    /\ UNCHANGED <<store, ingesting>>

-----------------------------------------------------------------------------
(* manage-cache deletes rows and jars without this accounting; a file may be
   damaged by hand. *)
Tamper ==
    /\ tampers < MaxTampers /\ tampers' = tampers + 1
    /\ \E a \in Artifacts :
          \/ /\ Contains(store.table, a)
             /\ store' = [store EXCEPT !.table = Keep(@, Artifacts \ {a}), !.current = @ \ {a}, !.bytes[a] = 0]
          \/ /\ store.jar[a] = "good"
             /\ \E jar \in {"none", "corrupt"} : store' = [store EXCEPT !.jar[a] = jar]
    /\ UNCHANGED <<ingesting, remapping, work>>

(* A new process: the SourceService constructor refreshes the accounting. *)
Restart ==
    /\ MayRestart
    /\ store' = Refresh(store)
    /\ ingesting' = [a \in Artifacts |-> Nobody]
    /\ remapping' = [a \in Artifacts |-> Nobody]
    /\ work' = [c \in Workers |-> IdleWork]
    /\ UNCHANGED tampers

Advance(c) ==
    /\ UNCHANGED tampers
    /\ \/ Inspect(c) \/ Check(c) \/ RemoveJar(c) \/ JarRemoved(c) \/ Locate(c) \/ Remap(c)
       \/ RemapJoined(c) \/ GiveUp(c) \/ Stat(c) \/ Record(c) \/ Decompile(c)
       \/ FinishWarm(c) \/ ReconcileJoined(c)

CacheNext ==
    \/ \E c \in Workers : Advance(c)
    \/ \E c \in Workers, a \in Artifacts : (Resolve(c, a) \/ Index(c, a)) /\ UNCHANGED tampers
    \/ Tamper \/ Restart

(* Files are read, remaps and decompilations end (both have a time limit). *)
CacheFairness == \A c \in Workers : WF_cacheVars(Advance(c))

CacheSpec == CacheInit /\ [][CacheNext]_cacheVars /\ CacheFairness

-----------------------------------------------------------------------------
ArtifactTypeOK ==
    /\ store \in Stores
    /\ ingesting \in [Artifacts -> Workers \cup {Nobody}]
    /\ remapping \in [Artifacts -> Workers \cup {Nobody}]
    /\ work \in [Workers -> Works]
    /\ tampers \in 0 .. MaxTampers

(* cacheTotalContentBytes is the sum of what the LRU list and the map of jars
   hold, however ingests, remaps, evictions and lost jars followed each other. *)
TotalExact ==
    store.total = SumFunction(store.lruBytes) + SumFunction(store.jarBytes)

(* Every row can be evicted, and in the order of its last use: the LRU list has
   all rows in the order of updated_at (touchCacheMetrics, refreshCacheMetrics). *)
RowsEvictable ==
    store.table = Keep(store.lru, ToSet(store.table))

(* Who awaits a promise awaits one that will settle: the call behind it is at
   work on the same artifact; and a map never names a call that has ended. *)
AwaitsSomebody ==
    /\ \A c \in Workers :
          /\ work[c].pc = "awaitIngest" =>
                /\ Ingests(work[c].on) /\ work[work[c].on].art = work[c].art
          /\ work[c].pc = "awaitRemap" =>
                work[work[c].on].pc = "remapping" /\ work[work[c].on].art = work[c].art
    /\ \A a \in Artifacts :
          /\ ingesting[a] # Nobody => Ingests(ingesting[a]) /\ work[ingesting[a]].art = a
          /\ remapping[a] # Nobody => work[remapping[a]].own /\ work[remapping[a]].art = a

(* Calls that resolve one artifact at the same time share one ingest
   (inflightArtifactIngests). *)
OneIngest ==
    \A c, d \in Workers : Ingests(c) /\ Ingests(d) /\ work[c].art = work[d].art => c = d

(* Of the calls that want one artifact one works and the others wait for it, and none
   waits for a promise that nobody will settle, whatever was evicted, rebuilt, failed or
   restarted in the meantime (ingestIfNeeded, maybeRemapBinaryForMojang). *)
JoinsRight == AwaitsSomebody /\ OneIngest

(* An ingest leaves the cache within its limits or with one artifact, and it does
   not evict what it has just ingested (enforceCacheLimits). *)
EvictionRight ==
    [][\A c \in Workers :
          Ingests(c) /\ (Inspect(c) \/ Decompile(c)) /\ store' # store =>
             /\ Contains(store'.table, work[c].art)
             /\ \/ Len(store'.lru) = 1
                \/ Len(store'.lru) <= MaxArtifacts /\ store'.total <= MaxCacheBytes]_cacheVars

(* Every call ends, whoever it joined. *)
CallsEnd == \A c \in Workers : work[c].pc # "idle" ~> work[c].pc = "idle"

=============================================================================
