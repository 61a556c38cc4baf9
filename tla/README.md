# Formal models of minecraft-modding-mcp

TLA+ models of the parts of `minecraft-modding-mcp` in which order, failure and
time matter, or in which a computation is easy to get wrong, TLC configurations
that check them on small instances, and proofs for every instance checked by
TLAPS. Paths below are relative to the repository; a file of its `src` directory
is named without it.

## 1. The system

The program is an MCP server. A client talks JSON-RPC over stdio to a
**supervisor** process, which forwards every request to a **worker** process,
restarts the worker when it is lost, and answers in its place when it cannot.
The worker registers the tools; a heavy tool passes an execution gate, resolves
an artifact (find, download, decompile, remap), indexes it in a SQLite database
and answers from the index. Other tools translate names between the four
namespaces of Minecraft (obfuscated, mojang, intermediary, yarn) and validate the
files of a mod against a jar of the game.

| component | state | operations | interacts by |
|---|---|---|---|
| supervisor, worker pool (`stdio-supervisor.ts`) | current worker, live and stale children, cleanup states, unresolved tree tokens, restart and cleanup timers, backoff | spawn, adopt, exit, startup watchdog, process and stdin errors, tree termination, token retry, timed-out worker, shutdown | child process events, timers, promises |
| supervisor, requests (`stdio-supervisor.ts`) | pending and queued requests, validate-project barrier and deadlines, finality tombstones, era lock, handshake cache | admit, queue, forward, answer, cancel, time out, replay the handshake, fail on worker loss, recover from an exception | client and worker messages; calls into the pool |
| framing (`json-rpc-framing.ts`, `compat-stdio-transport.ts`) | pending chunks, mode, awaited frame end, idle timer | chunk, detect, read frame, resynchronise, expire | callbacks to the supervisor and the SDK |
| execution gate (`tool-execution-gate.ts`) | active count, queue | run, finish, drain | promises |
| download cache (`repo-downloader.ts`) | files and identity records ("sidecars") on disk | resolve, revalidate, transfer, evict | file system, HTTP, concurrent callers |
| artifact and source resolution (`source-resolver.ts`, `source/artifact-resolver.ts`, `source/workspace-target.ts`) | none of its own; rows of the index, the workspace context | which jar a target stands for, in which names, under which id and alias, what a refused caller is to ask | download cache, index, context cache, mappings |
| artifact index and remap cache (`source/indexer.ts`, `source/cache-metrics.ts`) | in-flight ingests and remaps, LRU, byte totals | ingest, join, remap, reconcile, evict | promises, database, files |
| database (`storage/db.ts`, `storage/*`) | the SQLite file, integrity-check request files | open, migrate, check, back up, rebuild, observe corruption | file system, other processes |
| cache registry (`cache-registry.ts`, `entry-tools/manage-cache-service.ts`) | none | list by pages, delete by selector | every cache on disk |
| workspace context cache (`workspace-context-cache.ts`) | LRU of contexts with fingerprints | read, write, expire | calls |
| mappings (`mapping-service.ts`, `mapping/*`) | cache of graphs, builds in progress, cached answers, the yarn marker | load, release, find, check, matrix, exact resolution | calls, downloads |
| versions, registries, diffs (`version-service.ts`, `registry-service.ts`, `mojang-tiny-mapping-service.ts`, `version-diff-service.ts`) | jars, `index.json`, the report of the registries, the merged mappings, locks | fetch, verify, record, report, merge, compare | HTTP, a JVM, file system |
| Java tools (`java-process.ts`, `decompiler/*`, `mod-decompile-service.ts`) | one process and its timers, the output directory and its marker | decompile, join, time out, kill | process events, file system |
| class source, members, search (`source/class-source.ts`, `source/search.ts`, `source/nested-jars.ts`) | extracted nested jars, class lists | read lines, page members, search, look into nested jars | index, jars, cursors |
| access and lifecycle (`source/access-validate.ts`, `source/lifecycle/*`) | none | validate wideners and transformers, trace, diff, runtime check | jars, mappings |
| mixin validation (`mixin/*`, `mixin-validator.ts`) | none | stages of one validation, retry | mappings, signatures |
| NBT (`nbt/*`) | none | decode, patch, encode | calls |
| entry tools (`entry-tools/*`) | per-call lanes and abort flags | project summary, batches, manage-cache | all of the above |
| era classifier, schemas, guidance, errors, configuration | none | classify, format | calls |

`PROJECT.json` lists all of them with what is modelled, and under "hazards" what
is hard to test in them, line by line, with the properties about it.

### What is hard, and what makes each part correct

*Supervisor, worker pool.* Two slots are shared by live workers and by process
trees that could not be confirmed gone. A worker's exit, the result of its tree
termination and a retry for its pid arrive in any order; timers are armed and
cleared on many paths; shutdown races all of them. Correct means: never more
than two slots, a slot freed only when the tree is gone, never without a worker
and without a pending restart, no timer after shutdown, a worker that keeps
standing down is not restarted in a hot loop.

*Supervisor, requests.* A request may be queued, parked, forwarded, answered by
the worker, answered by the supervisor, cancelled, impossible to write, or lost
with its worker, and its id may come again. Correct means: exactly one response
per request, none after a cancellation, nothing forgotten, `validate-project`
runs alone and is not starved, the queue never stands still without a reason, the
handshake comes first for every worker, the modern era lock holds.

*Download cache, version files, extracted jars, merged mappings, decompilations.*
Calls share files, each other's work and the directory with a process that died
or will not die. Correct means: a record, a marker or an index never vouches for
what is not there, an eviction does not take bytes it was not about.

*Artifact index, mapping graphs, context cache, database.* One writer per
artifact or key although callers await between check and registration; totals
kept in two places; a source that failed once; files edited under the reader;
damage seen by one process and repaired by another. Correct means: totals equal to
the sum, nothing cached that a passing failure made, no context served after its
files changed, damage never forgotten.

*Resolution, lookup, search, reading, validation.* Here the difficulty is the
number of cases: which of many jars, names, overloads, cursors, failures. Correct
means: what is answered is so, and what could not be found out is told.

*Gate, framing, batches.* No slot lost on a rejection; the reader finds the next
frame whatever came before; every entry of a batch is answered in its place.

## 2. Modules

| module | what it is |
|---|---|
| `WorkerSlots` | abstract specification: the life of a worker generation, one serving, at most `Cap` trees |
| `WorkerPool` | the pool of `stdio-supervisor.ts`: state, actions, safety, liveness, the refinement mapping to `WorkerSlots` |
| `Supervisor` | the request side; EXTENDS `WorkerPool` and composes each request handler with the pool action it calls |
| `DownloadCache` | one url of the download cache: file, identity record, the calls that resolve it, the evictions that share it |
| `WorkerPoolProofs`, `DownloadCacheProofs` | inductive invariants and theorems of the pool and of the download cache |
| `SupervisorTracking`, `SupervisorProofs` | theorems of the request side: what each operator changes and keeps, and tracking; sessions and answers |
| `ServicesProofs` | theorems of the components of `MCServices` |
| `ArtifactProofs`, `WorkspaceProofs`, `StorageProofs` | theorems of the artifact cache, the bundled jars and the resolution; of the validations of a workspace and the questions about its build; of what is stored, and of these parts within `MCResolution` |
| `ExecutionGate` | the gate of the heavy tools |
| `FrameReader` | the frame reader over every cut of the stream |
| `Decompiler` | one decompilation: joined calls, output directory, marker, Java processes |
| `ArtifactCache` | ingests, remaps, LRU order, byte accounting and eviction |
| `MappingGraphs` | building, sharing, caching and releasing the graphs of mappings |
| `VersionFiles` | client and server jars, their index, the registry report, the merged mappings |
| `BatchRuns` | the batch tools over one shared artifact |
| `SourceCascade` | `resolveSourceTarget`: the candidates, the repositories and the failures |
| `ArtifactResolution` | `resolveArtifact`: from a target to a row of the index and a response |
| `MappingLookup` | `findMapping` and `resolveMethodMappingExact` over a graph |
| `SymbolQueries` | `checkSymbolExists` and `getClassApiMatrix`; EXTENDS `MappingLookup` |
| `SymbolHistory` | a symbol from one version to the next: trace, class diff, version diff |
| `TinyFiles` | the yarn marker and the tiny files it vouches for |
| `SearchPages` | `search-class-source`, page after page |
| `ClassReading` | `get-class-source` and `get-class-members`, continuation after continuation |
| `NestedJars` | extraction and lookup of the jars in a jar |
| `NbtDocuments` | well-formedness, patches and the stream of typed NBT documents |
| `MixinValidation` | the stages, verdict, filters and retry of one mixin validation |
| `AccessValidation` | access wideners and transformers against a runtime jar |
| `RemappedMembers` | `remapSignatureMembers`: what a remapped signature lists of a member; extended by `MixinValidation` and `AccessValidation` |
| `ProjectValidation` | the project-summary task with its lanes and counts |
| `WorkspaceSymbols` | what a build declares, and symbols looked up by it or in bytecode |
| `CacheDatabase` | several processes that open, check and rebuild one database |
| `ContextCache` | the workspace context cache with its three writers |
| `CacheInventory` | `manage-cache`: listing and deleting while the caches change |
| `MCWorkerPool`, `MCSupervisor`, `MCDownloadCache` | outcome sets, client request sets, symmetry and view for TLC |
| `MCServices`, `MCResolution` | the components that share no state, one of them per behaviour, with their inputs for TLC |

### How the models correspond to the code

Every callback of the Node event loop runs to completion, so one callback is one
action; the code between two `await`s of an asynchronous function is one action
too, with the microtasks that follow it. A computation without an await is an
operator, applied by the action that calls it to an input chosen in `Init` or by
`\E`.

`WorkerPool`: `child`, `childReady`, `liveChildren`, `staleChildren`,
`unresolvedTreeTokens`, `retryPaused`, `currentRetryReservation` are the fields
of that name; a generation number stands for a child process and for its pid;
`cleanupStates` is the status in the `CleanupState` map ("none" where the map has
no entry); `terminating` counts asynchronous terminations that have not called
`finishTreeTermination`; `cleanupSweeps` holds, per running
`runCleanupTokenRetries`, the retries it still awaits; `restartTimer`,
`startupWatchdog` and `cleanupRetryTimer` say that a timer is armed. `unspawned`
are child objects whose process never started (no pid): they emit "error", then
"close". `TerminationOutcomes` is what `beginTreeTermination` comes to
("accepted" and "unresolved" for a synchronous terminator, "pending" for a
promise), `SpawnOutcomes` what the worker spawner does (a running process, a
child without a pid, an exception). The numeric delays are not modelled, only
which backoff level a restart reserved.

`Supervisor`: one record `s` holds the request state, so that a handler is a
composition of operators in the order of the code's calls
(`FailQueued(LoseWorker(RejectHandshake(s)))`). `pending` is `pendingRequests`,
`barrier` and `running` are `validateBarrierKey` and `runningValidateKey`,
`armed` the requests whose `deadlineTimer` runs, `tombstones` the generation in
`syntheticTombstones`, `parked` the initialize in `queuedNotifications`,
`predecessors` is `initializePredecessorCount`. `marked`, `stdin`, `held`, `told`
describe the current worker from outside: the ready marker is written, its stdin
is usable, the requests it got and has not answered, whether it got
`notifications/initialized`. `answers` counts the responses the client got. A
request's era claim is the field `signal`; `n` tells apart requests that use one
id. `Unwritable` is the fault model of `runRecoveryStep`,
`rollbackFailedAdmission` and the catch of `dispatchQueuedRequest`: writing one
of these requests to a worker throws, at its admission or when it leaves the
queue, and the request is answered with an error while every piece of its state
is taken back.

`DownloadCache`: one url, its file and its sidecar. `file` is what is at the path,
`record` the identity record on disk, `call[c]` the state of one
`resolveCachedDownload`: `cached`, `sidecar` and `retired` are its locals
`hasCachedBytes`, `sidecar` and `retiredSidecar`; `sent` is the validator of its
request, `leg` the place it returns to after a hash. A body, its digest and its
length are one number; a `stamp` is a stat (size and mtime), and the model assumes,
as the code does, that two files at one path never have the same one. A `tag`
stands for `etag` and `lastModified` and names the body the repository served
them with. `Ask` sends the request, the `Receive...` actions are what follows
`performTransfer`, `Describe` (stat), `Open` (the stream gets the file that is
there by then) and `Finish` are `describeFile`. Each unlink and each write of a
record may fail, because the code swallows the errors. After a success the caller
opens the archive (`Judge`), reading what is at the path by then, and may evict it
(`Condemn`). The deletion of the cache registry is `PruneList` and, later,
`PruneDelete`. `Crash` ends the process between any two actions and between the
two deletions of an eviction. Synchronous file operations in a row are atomic,
which holds for the calls of one process. The branch for a zero-length digest is
never reached within this model: `downloadToCache` refuses an empty body before
the rename.

`ExecutionGate`: `activeCount` and `queue` are the fields; `gated` is where the
call of each caller is. A task may resolve or reject: both settle it.

`FrameReader`: `reader` holds the fields of `JsonRpcFrameReader` and what it has
delivered. Bytes are abstracted to units of one length (a message text, an array,
the opening of something that looks like JSON, junk, an end of line, a
Content-Length header); the stream is a sequence of items, and any prefix of the
rest may be the next chunk. A garbage line has one or two ends of line, and may stand
behind a frame. `MaxFrame` and `MaxHeader` are the two limits.

`Decompiler`: `inflight` and `cached` are `inflightDecompiles` and
`decompileCache`; `flight` is the place in `decompileBinaryJar`, `profile` the
flags it tries; `files` is what the output directory holds, `marker` its
`.decompile-complete`. A process past its time limit, or of a server that died,
is counted in `stale` and may write until it ends. Reading the directory and writing
the marker may fail.

`ArtifactCache`: `store` has the rows in the order of `updated_at`, the LRU list
and byte total of `cache-metrics.ts`, the remapped jars on disk and in its map;
`ingesting` and `remapping` are `inflightArtifactIngests` and `inflightRemaps`;
`work[c]` is a call. `Tamper` damages or removes a jar behind the server's back,
`Restart` loses the memory and keeps the disk.

`MappingGraphs`: `graphs` is `graphCache` in LRU order, `build` the `buildLocks`,
`resolutions` the answers that `findMapping` keeps; `world` is what each source
has, and each source of a build may fail for a reason that passes.

`VersionFiles`: `disk` has the jars with whether they are right, `index.json`,
the report and the two sides and the merged file of the mappings; `lock` is
`resolveLocks` and `loadLocks`, `chain` the queue of index writes, `jvms` those that
a dead server left running. A write of the index may fail, before it changed the file
or after it truncated it.

`BatchRuns`: one batch, its artifact, its lanes and its abort flag. `progress`
holds the next index and the results of `mapWithConcurrencyLimit`; the artifact
may be evicted between two entries.

`SourceCascade`: `target` is what is asked together with the stores and
repositories it meets, `leg` the place in the cascade, `failures`
`sawRemoteRepoFailure` and `keptRepoFailure`; `slots` is the download cache's
promise, kept over retries.

`ArtifactResolution`: `machine` is what the computer has (shipped sources, one
Loom project and its cache, a library), `rows` the database. A call is answered by
`Resolve` in the order of `resolveArtifact`: synthesis of the target, merged
discovery, refusals with the call they suggest, namespace, id, alias, row.

`MappingLookup`, `SymbolQueries`: `mapping` lists classes and methods with their
name in each namespace; the records of a namespace are those each parsed file
gives, with the keys and the namespace of the descriptors of that file. A path of
hops, the candidates at each hop, their projection and the filters are operators
in the order of the code.

`SymbolHistory`: `manifest` is the sequence of versions, each with its members, the
names the jar ships and its registries; every lookup (jar, mapping, registry) may
fail on its own.

`TinyFiles`: `published` counts the builds of yarn, `tinies` are the files,
`yarnMarker` and `fresh` the marker and its age; several servers resolve and die.

`SearchPages`: the rows of an artifact with what the index, the prefilter and the
scan know of them; `Page` is one call with its accumulator, its cursor and its
warnings. Between pages the artifact is indexed anew with other rows, or its index
fails.

`ClassReading`: `subject` is a file of lines and the members of a class with the
jars that have it, each with what the mappings know of it (a translation, several
candidates of which one is guessed, a descriptor they leave, or nothing), `request` the next call of a client that follows what it is
told (`suggestedCall`, `nextCursor`).

`NestedJars`: the calls of one process extract to a temporary file and rename;
`classSets` is the LRU of class lists. Deletion, a rewritten shell, a failed write
and a killed process are `mishaps`.

`NbtDocuments`: a JSON value is a function from paths to objects, arrays and
scalars, so that a patch is a change of a function's domain. `Patch` is the loop
of `applyJsonPatch`, `Encode` and `Decode` are the stream as a sequence of tokens.

`MixinValidation`: one mixin with targets and members; each stage may fail as in
the code, the time may run out before any target, `pass` is the run and its
possible retry.

`AccessValidation`: the jars as discovery sees them (what their paths say), scored
and filtered; then the classes are loaded one by one while a build may rewrite or
remove a jar; `probe` is the call. Of each member of a loaded class `loaded` keeps how
it is listed (`Remaps`): under its name, under the one of the jar with a warning, or,
without any warning, under the guess among ambiguous candidates or with a descriptor
in which a class kept its name of the jar. A line is looked up in that list.

`ProjectValidation`: discovery, then the lanes of mixins, wideners and
transformers, the counts, the tasks and the status, while files are edited.

`WorkspaceSymbols`: build scripts read one by one (`evidence`), the dependency
version from properties, cache and POMs, and the check against bytecode.

`CacheDatabase`: files, requests and the processes with their place in
`openDatabase`; every system call or transaction is a step, a process may die
between any two.

`ContextCache`: `edition` is the text of `gradle.properties`, which changes at any
time; a context names the edition its fingerprint, its version and its dependency
version were read from.

`CacheInventory`: `shelf` has a cell per entry in the order of `entrySortKey`, with
what a deletion may run into; others write and remove entries between pages and
between deletions.

`MCServices` and `MCResolution` put components that share no state in the code into
one state space: `Init` picks one of them (`component`, `part`), and the others
stay still. A disjunct of their next-state relations is a component.

`PROJECT.json` maps each definition to the lines it models. Operators named
`Mut...` are deliberately wrong variants of the definition next to them; they
are used by no specification, and each property is known to fail when one of
them takes the place of its definition.

## 3. Runs

Each run explores the complete state space of its instance.

| run | instance | what it shows |
|---|---|---|
| `pool` | 4 generations, 2 backoff levels, every termination and spawn outcome | the pool keeps its cap, its timers and its slots (`LiveCapRespected`, `TimersArmed`, `SlotFreedOnlyWhenGone`), loses no restart (`NoLostRestart`), is quiet after shutdown, backs off, implements `WorkerSlots` (`SlotsSpec`); a lost worker is replaced and every slot freed in the end (`PoolRecovers`) |
| `modern` | modern client with two calls and two validate-projects, one of them sent again with the same id, one that cannot be written; cancellation, deadlines, 3 generations, terminations that may stay unresolved, spawns that may throw | one response per request and none after a cancellation (`RepliesRight`), nothing left behind by a lost worker or an error (`NothingLeftBehind`), no lost wakeup (`QueueMoves`), validate-project starts and runs alone (`ValidateExclusive`) and is not overtaken (`NotOvertaken`) |
| `legacy` | client whose initialize may fail and be sent again or be malformed, with a call and a validate-project; broken pipes, asynchronous terminations | replies as above, and each adopted worker of a session got the whole handshake, in order (`HandshakeInOrder`) |
| `mixed_eras` | claims of both eras in any order, a call of the session, initialize of a running session at any time | a worker that is not adopted is given none of the calls that wait, and no call drops out of the supervisor's books (`ReinitializeOrdered`); a call stays in the books without a worker to answer it only after an adopted worker rejected an initialize (`OnlyRejectionStrands`) |
| `supervisor_liveness` | modern client with crashes, startup hangs, failing spawns and writes | every request is answered or cancelled (`EveryRequestAnswered`) |
| `downloads` | two calls that run again and again, two bodies of which the first is no archive, both policies, prune, crashes, every removal and write may fail | a readable record has the digest of the file (`RecordTrue`), a success without a hash names the bytes that are there (`DeliveredAsTheyAre`), identified bytes go only on a verdict about them (`IdentifiedBytesStay`) |
| `downloads_liveness` | the same without prune, crashes and files that resist truncation | a body that is no archive does not outlive the outage that produced it (`PoisonDoesNotLast`) |
| `services` | the seven components of `MCServices`, one at a time | no slot of the gate is lost or left free beside a waiting call, each entry of a batch is answered in its place (`CallsRight`); the reader delivers messages the peer sent, in order, wherever the chunks are cut, and none made of the rest of a rejected frame; none is lost but behind a fatal error or behind a garbage line that is taken for a header (`FramesRight`, with the exclusion `Understood`); no marker, graph, jar, index or merged file vouches for what is not there (`LoadsRight`); what is begun ends (`EverythingEnds`) |
| `resolution` | the eighteen parts of `MCResolution`, one at a time | see below |
| `handshake_lost`, `downloads_tags`, `owner_strict` | | where the code contradicts a comment or a document, see below |

`resolution` checks, for each part on the inputs its `...Worlds` list:

- `ArtifactsRight`: the byte total is the sum of the rows (`TotalExact`), every row
  can be evicted (`RowsEvictable`), one ingest per artifact and every caller that
  waits has somebody to wait for (`JoinsRight`); a response and a row are labelled as
  what was resolved, and another release is told to be one (`ResolutionRight`).
  `EvictionRight`: an ingest leaves the cache within its limits or with one artifact,
  and never evicts what it ingested.
- `SourcesRight`: the artifact is the first candidate that serves, there is an error
  exactly when none does, and it blames the repositories if one was unstable
  (`CascadeRight`); what is read over several calls is what the class has
  (`ReadingRight`).
- `NamesRight`: where simple names do not clash, or over one hop, an exact resolution
  answers with the method that was asked for, and find-mapping has it among its
  candidates (`LookupRight`); checks and the pages of the matrix agree with the
  records of the files (`SymbolsRight`), traces and comparisons with the versions
  (`HistoryRight`), or a warning tells that they may not.
- `SearchRight`, `NbtRight`, `MixinRight`: pages hold every hit once and an end
  without a warning is one; a patch changes all or nothing, and what is encoded
  decodes to itself; a verdict of "valid" or "invalid" rests on what was looked at
  (unless a remap lost a member silently, or listed one under a name that is not its
  own: `LostSilently`, `MistakenFor`).
- `StoredRight`: the yarn marker, the database, the context cache and the cache
  registry keep their promises (section 4 says which); an extracted jar is whole, and
  a class found in one is there and, where asked for, unique (`NestedRight`).
- `WorkspaceRight`: access validation, the project summary and the reading of build
  scripts claim nothing they did not see. A line is valid although the jar does not have
  what it names, or missed although it has, only with a warning on its class, or where
  the remap listed a member silently under a guess or with a descriptor of the jar
  (`ChangedSilently`), or where the jar was rewritten meanwhile or has srg names and was
  taken to have Mojang's, or the other way round (`JarAsServed`).

**Bounds.** `MaxGeneration` bounds the workers of a behaviour: the last one does
not fail (`MayFault`, `NewWorker`), which is what makes liveness meaningful in a
bounded model. Two slots are full with two generations, a third is the
replacement that must wait for a slot, and a fourth lets every event happen
again after a slot came free. `MaxLevel` saturates the backoff level, as the
code's table of delays does. The code's queue has room for two requests and so
has the model: three overflow it. Each request of `Requests` is sent at most once;
the sets have each era, each way to be rejected, two validate-projects, an overflow
and an id used twice. For a file or a build that callers share, two calls give
every order of a stale one against a winner. At any time at most one stat per call
and those of the file and its record are held, so seven `Stamps` never run out;
`downloads` counts states up to their names (`VIEW UpToStamps`). The gate has two
slots and two places for four calls, so that one is refused; a frame of five units
leaves room for a body, a header and one unit too many; three profiles let a first,
a middle and a last one fail. The worlds of `MCResolution` are small tables of
cases, each of which is there for a branch of the code: two versions or editions
suffice where something is read before and used after a change, three where a
change must be missed by two readers in turn. `MaxTampers`, `MaxWrites`,
`MaxEdits`, `MaxMishaps`, `MaxBuilds`, `MaxStale`, `MaxJvms`, `MaxRequests`,
`MaxScriptEdits` count what the environment may do to one component. `resolution`
has two artifacts that are resolved while rows and jars are tampered with; forced
indexing (`Index`) is left to `services`, with one artifact. The theorems of section
4 have none of these bounds, and cover both operations for any artifacts.

**Deadlock** is not checked where the system may stop: after a shutdown, when the
client has nothing more to send, or when a computation has given its answer.

**Fairness.** The event loop fires armed timers and settles promises
(`settleTreeCleanupWithin` limits each termination and retry), a child that was
sent SIGKILL exits, and an unspawned child emits "error" and "close": weak
fairness of these actions. Of the environment it is assumed that a worker that
is started again and again starts (strong fairness of a running spawn), that a
process tree signalled again and again goes away (strong fairness of a
successful retry), and, in `Supervisor`, that a worker writes its ready marker
and answers what it holds unless it was told to cancel it. Crashes, cancellations
and deadlines are never forced. In `DownloadCache` the url is asked for again and
again, file reads complete, a remembered rejection runs out, and a repository
asked again and again answers with a body in the end (strong fairness of
`Answer`); it may fail or reject any number of times before. In `MCServices` only
the own progress of a call is fair: the task of the gate settles, the idle timer
of the reader fires, a process ends or is killed by its time limit, a step after an
`await` is taken. Nothing there assumes that a source works.

### Where the code does not do what its documentation says

Three runs end in a violation; each states a promise of the documentation or of
a comment, and the behaviour TLC prints is one of the program.

- `handshake_lost`: an `initialize` forwarded to a ready worker keeps its entry
  for a replay when the worker is lost. If the replacement fails before it is
  ready, `clearInitialInitializationState` deletes the entry and nobody answers.
- `downloads_tags`: a 304 for the old body arrives while a concurrent call has
  renamed a newer body into place and hashes it. There is no winner's record to
  find yet, so the 304 leg hashes the newer bytes itself and records them with the
  validators of its own 304, possibly over the record the winner wrote meanwhile:
  the search for the winner precedes the await, the write follows it. The digest
  stays right (`RecordTrue`); the validators are of another body.
- `owner_strict`: over two hops the match kind of a class is that of the last hop,
  so that a class which only shared its simple name in the first hop is accepted as
  an owner by the exact resolution.

### Observed while modelling

Behaviours the models have because the code has them, without a run of their
own. Properties are stated so that they hold beside them; where that took an
exclusion, it is named.

*Supervisor.* Cancelling a request and sending its id again clears the tombstone
that was to discard the late answer of the first: the client may get two answers
(`forwardRequest`, line 1945; excluded by `FreshIds` in section 4). A call that
reuses the id of the initialize is lost by a replay (`OwnHandshakeIds`). A second
`initialize` during the replay of the first makes the replay's answer
unrecognisable, and the client gets it as a second response; an `initialize` to a
ready worker whose stdin is broken is sent twice to the replacement; a second one
replaces a parked one; one that is rejected by a ready worker strands the calls in
flight (`stdio-supervisor.ts`:2833–2851): they stay in `pendingRequests`, the worker
is terminated, and its exit is that of a process that is no longer the current worker,
so that nobody answers them, but for a validate-project, which its deadline ends. That this is the only way to strand
a call is what `OnlyRejectionStrands` says; without its exception TLC finds it
violated by this behaviour. A `server/discover` pipelined before a worker is adopted is left
without an answer when that worker is lost. The barrier index test in `drainQueue`
never holds anything back. Cancelling a running validate-project frees its slot
while the worker still works on it. A worker that closes its stdin but stays alive
is not replaced until it exits.

*Framing.* Right behind a frame with a Content-Length, a garbage line is taken for the
start of a header block, up to the next empty line: the messages on the lines after it
wait, and when an empty line comes they are dropped with the block, of which a
plain error is reported, not a fatal one. The comment at
`json-rpc-framing.ts`:130–134 says that the reader never silently consumes valid
frames after a violation. The streams of `services` have both cases; `FramesRight` asks for
the messages up to such a line (`Understood`), for the order of those behind it, and
that none is made up.

*Downloads, versions, processes.* An eviction that removes a file while the call
that wrote it is hashing it leaves a record without a file, and that call succeeds;
the next read ignores the record. Where an eviction could only truncate, a call
whose request fails afterwards may serve the empty file as "stale". A Java process
that was timed out or orphaned may write beside the next run, whose marker then
vouches for both. `VersionService` returns an existing file unverified; its
`index.json` is written in place, so that a crash or a failed write loses entries; the route over the
server jar takes no lock.

*Database and context cache.* Two processes that see the damage may each set a file
aside, the second one the first one's healthy new file. The hint of
`artifact-resolver.ts` (1813 to 1855) writes without reading again and may erase
dependency versions, although CHANGELOG.md:473 says that write-back is serialized; a
dependency version read before an edit can be kept under the newer fingerprint
(`workspace-context-cache.ts`:19–24, `workspace-target.ts` about 126).

*Artifact cache.* The bytes of an eviction whose jar cannot be removed are orphaned
(`cache-metrics.ts` about 105); two remaps of one jar are possible when
index-artifact overlaps.

*Mappings.* `findMapping` keeps the answer of a transient graph for five minutes,
although the comment at `mapping-service.ts`:1569 says that the next lookup builds
it again; the comment at 1731 calls the cache bounded by a TTL, which the graphs do
not have; a `client_mappings.txt` that is gone or broken when it is read counts as
permanent, and the graph without Mojang names is kept; a Loom cache that appears
later is not seen until a release; a slow older call can put the yarn marker back
to an older build. Over Maven's separate files for intermediary and yarn, a method
with a class in its descriptor has two records, so that check-symbol-exists calls it
ambiguous; a clash of class names keeps descriptors from being projected, and an
existing method is "not_found". Matching members by each version's obfuscated names
makes renamed members of two obfuscated versions removed and added; a trace counts
a version whose mapping failed as one without the symbol, with a warning; a jar with
under a quarter of its classes in the default package passes for Mojang-named.

*Resolution.* In a yarn workspace the suggested call of a refusal may repeat itself
(`artifact-resolver.ts` 1815 to 1870, docs/tool-reference.md:753); a merged jar of
another release outscores an exact pair, and a strict call is then refused (about
2338); a common jar indexed first by its path keeps a later resolve of the version
from indexing its companion (docs/tool-reference.md:219); Loom sources in a yarn
workspace are labelled mojang; the cascade takes the first existing name of a
Gradle directory unopened; aliases may be found before later candidates of the
configuration are (`config.ts` about 360).

*Search and reading.* The symbol intent truncates at its candidate limit without a
warning; a search whose hits in the window are a multiple of the limit ends
silently; `queryMode="token"` gives an empty page without a warning when the index
is off or fails in another way than by corruption; an index that fails between two
pages mixes two ways of searching under one cursor. A suggested continuation of
get-class-source omits `mapping`; a cut exactly at the end of a line yields no
`nextStartLine`; after a redirect into a nested jar the binary fallback resolves
the outer jar with the inner provenance; members over failing translations shift
their pages, with warnings. A bundled jar that cannot be listed is passed over
silently, and a class found elsewhere passes for unique; a shell rewritten under
its old id uses the old list of classes; a failed write leaves its temporary file.

*Validation.* `remapFailedMembers` holds source names while `notFoundDegradation`
looks up requested ones (`annotation-validators.ts` about 30,
`mapping-helpers.ts` about 414), so that the downgrade never applies to a real miss.
A low-confidence guess, an unmapped class of a descriptor or a synthetic member is
lost without a warning. Where the guess among ambiguous candidates is a name that the
mixin asks for, a member is found that the class has not, and the mixin may be called
fully valid (`mapping-helpers.ts` about 406). Access validation looks its lines up in
the same lists: a line may be valid by such a guess, and a method that is there missed
because its descriptor was left in the names of the jar (285, 320), both silently;
get-class-members shows such members without a warning too. "invalid" is also given for uncertain errors, which the
project summary counts as ok because `valid` stays true. `minSeverity` and
`hideUncertain` change the verdict and the retry, the category filter does not.
A widener's discovery does not require the version; the jar with the best score may
be of another loader and be refused although a fitting one exists; a jar rewritten
while its classes load gives "class not found" with only a warning. Mixins use the
version of the start, wideners and transformers detect it again. An artifact evicted
during a batch makes the later entries fail one by one.

*NBT.* A replacement of the type of a list element passes the check of its operation
and is refused at the end, without an index; a later operation may repair it. A
replacement by the same value counts as a change. A long "-0" is read back as "0", a
float beyond the range of one as "Infinity".

*manage-cache.* A declined concurrent replacement counts as deleted; a file that
vanishes between readdir and stat fails the whole call; a failing removal throws
after a partial deletion; rows and files that are no downloads are deleted by id or
path even if rewritten; an entry's identity is captured after the awaits of the
listing; deletions do not reach the metrics the server keeps in memory.

## 4. Proofs

The provers check every theorem for every value of the constants that satisfies
the assumption of its module; these assumptions only give types and bounds the
code has (`PoolAssumption`, `SupervisorAssumption`, `CacheAssumption`,
`GateAssumption`, `BatchAssumption`, `DecompileAssumption`, `GraphAssumption`,
`VersionAssumption`, `TinyAssumption`, `DatabaseAssumption`, `ContextAssumption`,
`InventoryAssumption`, `ArtifactAssumption`, `ShellAssumption`,
`ResolutionAssumption`, `MixinAssumption`, `AccessAssumption`, `ProjectAssumption`,
`BuildAssumption`), and TLC evaluates them in the runs. Three say more of the outside
than a type:

- `ResolutionAssumption` takes the two halves of a Loom cache (`minecraft-common-...`,
  `minecraft-clientOnly-...`) to have classes of `net.minecraft` and not to be called
  merged. `discoverVersionSourceJar` compares the release of a companion with the one
  that was asked for and not with that of the jar it selected, and that the two halves
  agree rests on this.
- `AccessAssumption` takes a jar to be what is at a path: two of a home do not share
  one (`OnePerPath`). Nothing is assumed of what a path says of the names in the jar.
- `MixinAssumption` takes two members of a class to differ in name, kind or
  descriptor, and no class to be called `file`.

### The pool (`WorkerPoolProofs`)

| theorem | statement |
|---|---|
| `PoolTypeCorrect`, `PoolShapeHolds` | `Spec => []TypeOK`, `[]PoolShape` |
| `LiveCapHolds`, `RestartNeverLost`, `StartupAlwaysWatched`, `CleanupAlwaysArmed`, `TimersAlwaysArmed`, `ShutdownFinal` | `Spec => []LiveCapRespected`, `[]NoLostRestart`, `[]StartupWatched`, `[]CleanupRetryArmed`, `[]TimersArmed`, `[]ShutdownQuiet` |
| `StandDownsAlwaysBackOff`, `SlotsFreedOnlyWhenGone` | action properties |
| `PoolImplementsSlots` | `Spec => SlotsSpec`, the refinement |

The inductive invariant `IInv` is the conjunction of the type invariant,
`PoolShape` and the safety properties: they need each other. `NoLostRestart`
alone is not inductive: when the current worker is lost, `scheduleRestart` does
nothing if a reservation or a timer is left over, so one has to know that
nothing is pending beside a current worker (`PoolShape`). `LiveCapRespected`
needs that a token is never a live worker: an exit then moves one slot from
`liveChildren` to the tokens instead of taking another. `CleanupRetryArmed` is
carried through a sweep by `{} \notin cleanupSweeps`. There is one lemma per
action (`...Preserves`), on top of lemmas about the helpers several actions
share. For the refinement the phase of a generation is read off the pool's sets,
the slots taken are the live workers and the tokens (`SlotsTaken`), and there is one
lemma per kind of move (spawn, adopt, exit, release).

### The requests (`SupervisorTracking`, `SupervisorProofs`)

The first part of `SupervisorTracking` says of each operator on the record `s` which fields it changes
and that it keeps their types, so that what follows never expands a handler
twice. Then, in the order in which they build on each other:

| theorem | assumes | statement |
|---|---|---|
| `SupervisorTypeCorrect` | | types, with the pool's invariants carried along |
| `SupervisorDrivesPool`, `SupervisorRespectsCap`, `SupervisorAlwaysRestarts` | | each callback is a step of the pool or leaves it alone; the pool's theorems hold for the whole |
| `TrackingInvariant` | `OwnHandshakeIds` | until shutdown, what is kept is what the client waits for, each request in one place, with its deadline and its slot; nothing afterwards |
| `NothingAfterShutdown` | | no request is queued, forwarded, with a worker or armed after shutdown |
| `ErasRight`, `ModernLockForGood` | | what each era may hold; the modern lock stays |
| `SessionInvariant`, `HandshakeNotOvertaken` | | the cached initialize, the flags of the session, the front of the queue and what the worker was sent agree |
| `HandshakeWhole` | `~Reinitializes` | an adopted worker of an initialized session has got the whole handshake |
| `ReinitializingKeepsOrder` | `OwnHandshakeIds` | `ReinitializeOrdered`: however often the client initializes, a worker that is not adopted is given no call, and every call is answered or in the books; not that a worker still has it |
| `AnsweredForGood` | `OwnHandshakeIds`, `FreshIds` | no call of any era has two answers, or one after its cancellation |
| `ModernRepliesRight` | `NeverInitializes`, `FreshIds` | `RepliesRight` |
| `ModernLeavesNothing`, `ModernQueueMoves`, `ModernValidatesAlone`, `ModernNotOvertaken` | `NeverInitializes` | `NothingLeftBehind`, `QueueMoves`, `ValidateExclusive`, `NotOvertaken` |

The assumptions are on the client. `OwnHandshakeIds` (no other request has the id
of an initialize) is needed because a replay sends the initialize again under its
old id. `FreshIds` (no id is used again after a request that may be cancelled or
fail to be written) is needed because the late answer of the first would be taken
for the second's; the client of the run `modern` satisfies it. `NeverInitializes`
singles out modern clients: of a legacy one the invariant `Serving` is false,
because of the stranded discover and of the rejected initialize of section 3.

*Tracking* is the inductive core: the queue, the forwarded entries, the parked
initialize, the validate slot and the deadlines hold each unanswered request once.
*Session* ties the cached initialize to the front of the queue and to what the
current worker got; its three parts (`Attached`, `Front`, `Replays`) are only
inductive together. *Finality* says what a worker may still answer: each request it
holds is forwarded, or its answer will be dropped because there is a tombstone of
this worker's generation. It needs that the generation counter is that of the
latest worker (`LatestWorker`), since a purge goes by generation. *Serving* (an
idle worker holds nothing, a forwarded request is with the worker, `QueueMoves`) is
kept by each handler; beside it `Feeds` describes what one callback forwards: it
comes from ahead in the queue, and a validate-project only if nothing else is
alive. `ValidateExclusive` and `NotOvertaken` are read off it.

### The download cache (`DownloadCacheProofs`)

`CacheTypeCorrect`, `RecordsAlwaysTrue` (`Spec => []RecordTrue`), `DeliveriesTrue`
and `IdentifiedBytesKept`, for any set of calls, bodies, stats and policies, with
prunes, crashes and failing removals. `RecordTrue` is not inductive: a record is
restored from a call's memory or written at the end of a hash. `IInv` says of
every place that holds an identity (the disk, the `sidecar` of a call that waits,
the `seen` of a call that reads) that if its stat is the file's, its digest is the
file's too. A step that replaces the file gives it a stat nobody holds
(`NewStampFresh`), so the condition becomes empty everywhere (`ReplaceOK`); a step
that changes one call keeps all others (`UpdateCall`); and a call learns a digest
in `Open`, when the file either still has the stat taken before or never will again.

### The services (`ServicesProofs`)

`CallsAlwaysRight` and `LoadsAlwaysRight` prove `CallsRight` and `LoadsRight` of
`MCServices` for any number of calls, slots, entries, lanes, profiles, graphs,
versions and orphaned processes:

- `GateInv`: the queue has no call twice and holds exactly the waiting ones, and
  `activeCount` is the number of those that run. The counting is by cardinalities.
- `BatchInv`: the next index and the lanes partition the entries (`LanesRight`),
  and what is aborted comes after a failure (`AbortRight`).
- `DecompileInv`: while a run is under way there is neither a marker nor a result,
  and what it is about to mark is whole, but for files a killed or orphaned process
  wrote beside it.
- `GraphInv`: a build that nothing has disturbed has of its sources what they have,
  as far as it has asked them (`Gathers`), and so has every graph that is kept
  (`Whole`).
- `FilesInv`: a jar the manifest would refuse is still being compared, or was left
  by a death or a failed removal (`Unvouched`); the versions that wait to be put
  into the index are there once each, and the head of the queue works on the index
  that is on the disk (`ChainRight`); a merge leaves out only sides refused for
  good (`CallersRight`).

### The artifacts (`ArtifactProofs`, `StorageProofs`)

| theorem | statement |
|---|---|
| `CacheInvariant`, `CacheTyped`, `CacheRight`, `CacheEviction` | of the artifact cache alone: the invariant, its types, the three parts of `ArtifactsRight` that are about it, `EvictionRight` |
| `NestedAlwaysRight` | `NestedSpec => []NestedRight` |
| `ResolvedAlwaysRight` | `ResolveSpec => []ResolutionRight` |
| `ArtifactsAlwaysRight`, `EvictionAlwaysRight` | `ArtifactsRight` and `EvictionRight` of `MCResolution` |

The module begins with induction on data. The library's induction theorems take an
operator; `OnNumbers`, `OnSets` and `OnSequences` say the same for a set `T` and are
proved from the well-foundedness of strict inclusion, so that a lemma names the set
of the data it holds for. With them the sum over a function changes by what one
argument changes (`SumFunctionOnSet`), and a deletion from a list keeps its order and
everything but what is deleted (`Keep`).

- `CacheInv` is `StoreInv` and `JoinsInv`. `StoreInv`: the counted bytes of rows and
  jars add up to the total (`Exact`), and the list of last use has the rows of the table,
  in their order, although it may have others (`Follows`): a row may be deleted from
  outside, the list not. An eviction takes the head of the list until both limits hold,
  so what it evicts is never what was put last. `JoinsInv`: who waits for an ingest or
  a remap waits for a call that has registered it and has not settled it.
- `NestedInv`: a file under its final name is whole, what is left beside it belongs to a
  call or to a mishap, and, while the shell was not rewritten, what a call has passed,
  found and still has to look at are all the jars (`LookupFound`, `LookupClean`); the
  cached lists of classes are those of the jars (`SetsTrue`).
- `ResolveInv`: each row tells the release and the names of the text its id stands for
  (`RowsTrue`). It is needed because a row outlives the call that made it: a later call
  under the same id, with another label, is served that row. That ids tell apart what
  was remapped from what was not is what makes it inductive. The choice among the
  sources of a Loom cache is proved from the arithmetic of the scores (`ScoreIs`,
  `HalvesAgree`), and the call a refusal suggests is itself one (`SuggestionIs`), so that
  clients who follow it are covered.

### What is stored (`StorageProofs`)

`StoredAlwaysRight` proves `StoredRight` of `MCResolution` for any number of
servers, builds, processes, requests, readers, entries, pages and writes by others, and
for any shell and its lookups (`NestedInv`, above). It has one invariant per component, and `StoredSteps` says that the other parts of
the module leave the component's variables alone.

- `TinyInv`: the yarn marker names a build whose tiny file was put in the directory.
  What makes it inductive is the order a comment in `mapping-service.ts` insists on:
  whoever is about to write the marker has seen the file of its build in place
  (`MarkersBacked`).
- `OpenInv`: while a file that is known to be damaged is in use, there is a request
  on the disk that nobody will remove before he has met the damage himself
  (`Standing`): that a request exists is not inductive, since the process that is
  about to clear it may have checked another file.
- `ContextInv`: a context was detected no earlier than the edition its fingerprint
  names and no later than now, in the cache and in the hands of each of the three
  writers; a fingerprint is taken before what it vouches for.
- `ErrandInv`: of one `manage-cache`: its phases (`Phases`), versions of cells only
  grow (`VersionsGrow`), the pages are in the order of the entries and hold up to the cursor what
  was there all along (`PagesGrow`), what a deletion has passed and not failed at is
  gone or was replaced (`PassedIsGone`), and what was written since the deletions began
  is newer than what was identified (`ReplacementsNewer`).

### The verdict on a mixin (`WorkspaceProofs`)

`MixinAlwaysRight` proves `MixinRight` of `MixinSpec`, for every class, mixin and
filter, whichever lookups fail and whenever the time runs out; `MixinsAlwaysRight` (in
`StorageProofs`) is the same in the composition. The invariant (`MixinInv`) says that
the targets were looked up in their order, that only what is a class was loaded, and
that a run which could not remap a whole signature knows that its names are not the
ones asked for. From it and the definitions of the issues the rest follows: what a
member of the mixin matches are members of the class, no more (`NoMoreMatch`, by the
injection from what matches to what is there) and, where all were remapped, no fewer
(`NoFewerMatch`), which is what counting quantifiers needs; a definite error is about
a target of which nothing failed (`HedgedIs`); a result that is full has an issue
about no target and skipped none (`FullResult`).

### The workspace (`WorkspaceProofs`)

`AccessAlwaysRight`, `ProjectAlwaysRight` and `BuildAlwaysRight` prove the three parts of
`WorkspaceRight` of the specifications of their modules, for every set of workspaces,
jars, files, requests and questions, and `WorkspaceAlwaysRight` (in `StorageProofs`) of
the composition.

- `AccessInv`: the jar a call was served fits the loader and the version of the request
  (`JarFits`); while no build wrote, it is a jar of the home, and a loaded class is one it
  has, listed with all of its members, each under its own name and descriptor unless a
  warning tells or the remap changed it silently (`ClassLoaded`). `EvidenceFits` holds whatever is built meanwhile, the other two need
  what was read to be still there.
- `ProjectInv`: what the lanes have said is what is kept, verdict by verdict. `Balanced`
  counts: the length of the list of verdicts is the number of entries judged, of configs
  that could not be read and of files checked, by cardinalities, whichever lane was
  first. `AllKept` and `ThrowsSeen` say the same by contents, in both directions, which
  is what makes "ok" and the errors of the tasks true. `VersionsAgree` carries the one
  version until an edit. `PhaseRight` says how far a call is, so that at the verdict
  nothing that was found is left (`Complete`).
- `BuildInv`: what is known of a build is the more the further a question has got
  (`ScriptsSeen`, `RuntimeAsked`, `PomsRead`), as long as the build was not edited.

### What stays with TLC

- Liveness (`PoolRecovers`, `EveryRequestAnswered`, `PoisonDoesNotLast`,
  `EverythingEnds`): fairness and ENABLED are beyond the prover.
- `FramesRight`: it is a statement about the streams of the run and not about every
  `Streams`, since an item says itself which messages it gives; and `Drain` and
  `SelectSeq`, in which it is written, are opaque to the prover. `ServicesTypeOK` has
  the reader among its parts.
- `SourcesRight`, `NamesRight`, `SearchRight`, `NbtRight`, `ResolutionTypeOK`: computations over tables of cases, most of them
  folds or recursive functions compared with a reference definition.
- `OnlyRejectionStrands`: the proof needs an invariant on what a legacy worker holds,
  as `Serving` is for modern clients.
- `RepliesRight`, `NothingLeftBehind`, `QueueMoves`, `ValidateExclusive` and
  `NotOvertaken` for clients of the legacy era; `RepliesRight` is checked for one by
  `legacy`.

## 5. Not modelled, and why

- Message text, event logs, stage updates in timeout replies and the decoration of
  replies: data that no property distinguishes.
- In the supervisor: faults while the handshake itself is written, or while a
  worker's response is delivered (`answerFaultedWorkerResponse`); the eviction of
  tombstones beyond 1024; notifications other than `initialized` and `cancelled`.
- Backoff delays and time limits: a timer may fire at any time after it was armed.
- In the download cache: the attempts and waits inside one transfer and its
  temporary file (the answer of the last attempt is what counts), other urls (they
  share only the table of rejections, whose limit is `ForgetRejection`), a second
  server process, unreadable files (`EACCES`), which end a call with an error.
- The descendants of a worker beyond "the tree is gone or not".
- The texts of mapping files, wideners, mixins, Gradle scripts and class files:
  the models begin with what a parser found.
- The statements of SQLite and their atomicity.
- The tools that dispatch to one service and only shape its answer, the schemas,
  the guidance, the era classifier, configuration and counters: no state, or state
  nothing else reads.
- What is left out of a part that is modelled is said in the notes of
  `PROJECT.json`.

## 6. Plan

1. Proofs for legacy clients: versions of the `Modern...` theorems whose invariant
   allows for the stranded discover, and `AnsweredOnce` of an initialize.
2. The parts of `SourcesRight` that are kept by steps rather than computed, then type correctness of `MCResolution`.
3. `FramesRight`, if the scan can be stated by positions instead of by recursion.
4. In the model: the limit of the tombstones, and faults in the delivery of a
   worker's response.
