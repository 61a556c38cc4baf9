------------------------ MODULE ArtifactResolution ------------------------
(***************************************************************************)
(* resolveArtifact of source/artifact-resolver.ts: which jar a target      *)
(* stands for, in which names its text is served, under which id and alias *)
(* it is kept, and what a refused caller is told to ask instead. Calls are *)
(* asked one after the other: what runs beside an ingest is ArtifactCache. *)
(***************************************************************************)
EXTENDS Naturals, FiniteSets

CONSTANTS Asked,       \* the calls a client may make
          Machines,    \* what there is on the machine: see IsMachine
          MaxCalls     \* how many calls a behaviour has

Releases == {"v", "w"}
Labels == {"obfuscated", "mojang", "intermediary", "yarn"}
Unset == "unset"

(* A sources jar under the search roots of Loom, with what its path and its entries
   tell: the release its path names, the half of a split pair, whether it is merged,
   whether it has net.minecraft, its entries, and its place in the order of paths. *)
Sources == [release : Releases \cup {Unset}, half : {Unset, "common", "clientonly"},
            merged : BOOLEAN, minecraft : BOOLEAN, entries : {1, 500, 900}, path : 1 .. 3]

(* shipped are the releases whose jar has Mojang names as it is (26.1 and later). Either
   half of a pair that Loom has split has net.minecraft, and is not called merged. *)
IsMachine(m) ==
    /\ m.shipped \subseteq Releases /\ m.loom \subseteq Sources
    /\ \A c, d \in m.loom : c.path = d.path => c = d
    /\ \A c \in m.loom : c.half # Unset => c.minecraft /\ ~c.merged
    /\ m.project.version \in Releases \cup {Unset}
    /\ m.project.mapping \in Labels \cup {Unset} /\ m.project.loader \in BOOLEAN
    /\ m.library \in {"sources", "binary"}

(* A jar: what it is, of which release, and where it is in the order of paths. *)
Jars == [kind : {"none", "client", "loom", "library"}, release : Releases \cup {Unset}, path : 0 .. 3]

(* A version stands for the client of its release, and a dependency for a library. *)
IsCall(call) ==
    /\ call \in [kind : {"version", "jar", "coordinate", "workspace", "dependency"}, value : Jars,
                 label : Labels \cup {Unset}, scope : {Unset, "vanilla", "merged"},
                 project : BOOLEAN, prefer : BOOLEAN, strict : BOOLEAN, decompile : BOOLEAN]
    /\ call.kind = "version" => call.value.kind = "client"
    /\ call.kind = "dependency" => call.value.kind = "library"

ASSUME ResolutionAssumption ==
    /\ MaxCalls \in Nat
    /\ (\A m \in Machines : IsMachine(m)) /\ \A call \in Asked : IsCall(call)

VARIABLES machine,   \* what there is
          workspace, \* the entry of the workspace context cache: absent, partial or full
          rows,      \* the artifacts of the database, by id
          reply,     \* the last reply, with the call it is about
          calls      \* how many were made

resolveVars == <<machine, workspace, rows, reply, calls>>

-----------------------------------------------------------------------------
(* The jars. *)
Jar(kind, release, path) == [kind |-> kind, release |-> release, path |-> path]
NoJar == Jar("none", Unset, 0)
Client(release) == Jar("client", release, 0)
Loom(c) == Jar("loom", c.release, c.path)
Library == Jar("library", Unset, 0)

Unobfuscated(release) == release \in machine.shipped

(* discoverVersionSourceJar *)
LooksLikeMinecraft(c) == c.minecraft \/ c.merged \/ (c.half # Unset)

CappedEntries(entries) == IF entries > 500 THEN 500 ELSE entries

Score(c, release) ==
    (IF LooksLikeMinecraft(c) THEN 20000 ELSE 0) + (IF c.minecraft THEN 10000 ELSE 0)
    + (IF c.merged THEN 2000 ELSE 0) + (IF c.release = release THEN 1000 ELSE 0)
    + CappedEntries(c.entries)

JarCandidates(release) ==
    {c \in machine.loom : c.merged \/ (c.half # Unset) \/ (c.release = release)}

BestOf(candidates, release) ==
    CHOOSE c \in candidates : \A d \in candidates :
        \/ Score(c, release) > Score(d, release)
        \/ (Score(c, release) = Score(d, release) /\ c.path <= d.path)

SelectedSources(release) ==
    LET looking == {c \in JarCandidates(release) : LooksLikeMinecraft(c)}
        named == {c \in looking : c.minecraft}
    IN  IF named # {} THEN {BestOf(named, release)}
        ELSE IF looking # {} THEN {BestOf(looking, release)} ELSE {}

(* The other half of a split pair, of the release that was asked for. *)
Companions(selected, release) ==
    LET others == {c \in JarCandidates(release) \ selected :
                      /\ LooksLikeMinecraft(c) /\ c.half # Unset /\ c.release = release
                      /\ \A s \in selected : s.half \notin {Unset, c.half}}
    IN  IF selected = {} \/ others = {} THEN {} ELSE {BestOf(others, release)}

-----------------------------------------------------------------------------
(* A call: the target, and what it asks for. *)
Call(kind, value, label, scope, project) ==
    [kind |-> kind, value |-> value, label |-> label, scope |-> scope, project |-> project,
     prefer |-> FALSE, strict |-> FALSE, decompile |-> TRUE]

(* synthesizeWorkspaceTarget: the call that a workspace target stands for *)
OfWorkspace(call) ==
    [call EXCEPT !.kind = "version", !.value = Client(machine.project.version),
                 !.label = IF @ # Unset THEN @
                           ELSE IF machine.project.mapping # Unset THEN machine.project.mapping
                           ELSE "obfuscated",
                 !.scope = IF @ # Unset THEN @
                           ELSE IF machine.project.loader THEN "merged" ELSE "vanilla"]

(* The target after synthesis and after preferProjectVersion. *)
Meant(call) ==
    IF call.kind = "workspace" THEN OfWorkspace(call)
    ELSE IF call.kind = "dependency" THEN [call EXCEPT !.kind = "coordinate"]
    ELSE IF call.kind = "version" /\ call.prefer /\ call.project
            /\ machine.project.version # Unset
         THEN [call EXCEPT !.value = Client(machine.project.version)]
    ELSE call

Label(call) == IF call.label = Unset THEN "obfuscated" ELSE call.label

(* versionNamesMinecraft, with provenUnobfuscatedRuntimeJarVersion once the jar is read *)
NamesUnobfuscated(call, origin, read) ==
    /\ call.value.kind = "client" /\ Unobfuscated(call.value.release)
    /\ \/ call.kind = "version"
       \/ call.kind = "coordinate" /\ origin # "dependency"
       \/ call.kind = "jar" /\ read

(* dropInapplicableUnobfuscatedMapping *)
Effective(call, unobfuscated) ==
    IF Label(call) \in {"intermediary", "yarn"} /\ unobfuscated THEN "obfuscated" ELSE Label(call)

(* computeBinaryRemapGate: ready tells whether the remapper and the Mojang mappings can
   be had at the time of the call *)
RemapAllowed(call, origin, label, unobfuscated, ready) ==
    /\ origin # "dependency" /\ label = "mojang" /\ ~unobfuscated
    /\ call.kind = "version" /\ ready

(* The jar whose text is served for a jar: itself when it has sources. *)
HasSources(jar) == jar.kind = "loom" \/ (jar.kind = "library" /\ machine.library = "sources")

(* composeArtifactId *)
MutArtifactId(call, jar, remapped) ==
    [space |-> IF call.kind = "coordinate" THEN "coord" ELSE "jar", jar |-> jar,
     decompile |-> ~HasSources(jar), variant |-> "pass"]

ArtifactId(call, jar, remapped) ==
    [space |-> IF call.kind = "coordinate" THEN "coord" ELSE "jar", jar |-> jar,
     decompile |-> ~HasSources(jar),
     variant |-> IF remapped THEN "mojang-remapped" ELSE "pass"]

(* applyMappingPipeline: the label applied, or none *)
Applied(label, unobfuscated, sources, remap) ==
    IF label = "obfuscated" THEN "obfuscated"
    ELSE IF label = "mojang" /\ unobfuscated THEN "mojang"
    ELSE IF sources THEN label
    ELSE IF label = "mojang" /\ remap THEN "mojang" ELSE Unset

-----------------------------------------------------------------------------
(* buildLegacyMappingFallback *)
LegacyFallback(call, label) ==
    LET vanilla == call.scope = "vanilla" /\ label = "mojang"
        repeats == call.kind # "version" /\ Unobfuscated(machine.project.version)
    IN  IF vanilla /\ call.project /\ ~repeats
        THEN Call(call.kind, call.value, "mojang", "merged", TRUE)
        ELSE Call(call.kind, call.value, "obfuscated", call.scope, FALSE)

(* buildMappingFallbackSuggestedCall: a version target of the project's own version is
   sent to the workspace, when its mapping is known or can be detected *)
WorkspaceRetry(call, context) ==
    /\ call.project /\ call.kind = "version" /\ context # "partial"
    /\ call.value = Client(machine.project.version)
    /\ machine.project.mapping \notin {Unset, "obfuscated"}

Suggestion(call, label, context) ==
    IF WorkspaceRetry(call, context)
    THEN Call("workspace", NoJar, machine.project.mapping, Unset, TRUE)
    ELSE LegacyFallback(call, label)

-----------------------------------------------------------------------------
(* ingestIfNeeded: a row that is current keeps its text, its label and its chain; the
   alias is that of the last call *)
Row(label, jar, companions, remapped, unobfuscated, alias) ==
    [label |-> label, jar |-> jar, companions |-> companions, remapped |-> remapped,
     unobfuscated |-> unobfuscated, alias |-> alias]

Ingested(id, row) ==
    IF id \in DOMAIN rows
    THEN [rows EXCEPT ![id].alias = row.alias,
                      ![id].unobfuscated = @ \/ row.unobfuscated]
    ELSE [i \in DOMAIN rows \cup {id} |-> IF i = id THEN row ELSE rows[i]]

(* buildArtifactAlias *)
Alias(call, id) == [kind |-> call.kind, of |-> id]

(* The workspace context after the synthesis of the target. *)
Detected(call) ==
    IF call.kind = "workspace" THEN "full"
    ELSE IF call.kind = "dependency" /\ call.project /\ workspace = "absent" THEN "partial"
    ELSE workspace

(* A call that is refused for good, and one that is told what to ask instead. *)
TurnAway(asked, why) ==
    /\ reply' = [status |-> "refused", asked |-> asked, why |-> why]
    /\ UNCHANGED rows

Suggest(asked, suggested) ==
    /\ reply' = [status |-> "not applied", asked |-> asked, suggested |-> suggested]
    /\ UNCHANGED rows

(* What is served is kept, and answered with where it is from. *)
Serve(asked, call, jar, applied, unobfuscated, discovered, remapped) ==
    LET id == ArtifactId(call, jar, remapped)
        elsewhere == \E c \in discovered : c.release # call.value.release
        companions == {Loom(c) : c \in Companions(discovered, call.value.release)}
    IN  IF elsewhere /\ call.strict THEN TurnAway(asked, "another version")
        ELSE /\ rows' = Ingested(id, Row(applied, jar, companions, remapped, unobfuscated,
                                         Alias(call, id)))
             /\ reply' = [status |-> "resolved", asked |-> asked, id |-> id, applied |-> applied,
                          unobfuscated |-> unobfuscated, approximated |-> elsewhere,
                          companions |-> companions, alias |-> Alias(call, id)]

(* resolveArtifact once the target is known. ready and mapped are what the outside
   answers: whether a remap can be promised, and whether there are mappings of the
   artifact's version (ensureMappingAvailable). *)
ResolveCall(asked, call, context, ready, mapped) ==
    LET early == NamesUnobfuscated(call, asked.kind, FALSE)
        wanted == Effective(call, early)
        discovered == IF call.kind = "version" /\ wanted = "mojang" /\ ~early
                         /\ call.scope # "vanilla"
                      THEN SelectedSources(call.value.release) ELSE {}
        jar == IF discovered = {} THEN call.value ELSE Loom(CHOOSE c \in discovered : TRUE)
        remap == discovered = {} /\ RemapAllowed(call, asked.kind, wanted, early, ready)
        sources == HasSources(jar)
        unobfuscated == NamesUnobfuscated(call, asked.kind, ~sources)
        label == Effective(call, unobfuscated)
        applied == Applied(label, unobfuscated, sources, remap)
        needsMappings == label \in {"intermediary", "yarn"} /\ asked.kind # "dependency"
    IN  IF ~sources /\ ~call.decompile /\ (wanted # "mojang" \/ unobfuscated)
        THEN TurnAway(asked, "no sources") /\ workspace' = context
        ELSE IF applied # Unset
        THEN /\ workspace' = context
             /\ IF needsMappings /\ (call.kind = "jar" \/ ~mapped) THEN TurnAway(asked, "no mappings")
                ELSE Serve(asked, call, jar, applied, unobfuscated, discovered,
                           remap /\ ~sources)
        ELSE IF asked.kind = "dependency"
        THEN /\ workspace' = context
             /\ Serve(asked, call, jar, "obfuscated", unobfuscated, {}, FALSE)
        ELSE /\ Suggest(asked, Suggestion(call, label, context))
             /\ workspace' = IF context = "absent" /\ WorkspaceRetry(call, context)
                             THEN "partial" ELSE context

(* One call. The version of a dependency is in the call or in the project, or nowhere. *)
Ask(asked) ==
    /\ calls < MaxCalls /\ calls' = calls + 1 /\ UNCHANGED machine
    /\ \/ /\ asked.kind = "workspace"
          /\ ~asked.project \/ machine.project.version = Unset
          /\ TurnAway(asked, "no version")
          /\ workspace' = IF asked.project THEN "full" ELSE workspace
       \/ /\ asked.kind = "dependency"
          /\ TurnAway(asked, "no version") /\ UNCHANGED workspace
       \/ /\ asked.kind = "workspace" => asked.project /\ machine.project.version # Unset
          /\ \E ready, mapped \in BOOLEAN :
                ResolveCall(asked, Meant(asked), Detected(asked), ready, mapped)

(* A client that is refused may ask what it was told to. *)
Followed == IF reply.status = "not applied" THEN {reply.suggested} ELSE {}

NoReply == [status |-> "none"]

ResolveInit ==
    /\ machine \in Machines /\ workspace = "absent"
    /\ rows = [i \in {} |-> NoReply] /\ reply = NoReply /\ calls = 0

ResolveNext == \E asked \in Asked \cup Followed : Ask(asked)

ResolveSpec == ResolveInit /\ [][ResolveNext]_resolveVars

-----------------------------------------------------------------------------
ResolveTypeOK ==
    /\ machine \in Machines /\ calls \in 0 .. MaxCalls
    /\ workspace \in {"absent", "partial", "full"}
    /\ reply.status \in {"none", "refused", "not applied", "resolved"}
    /\ reply.status = "resolved" => reply.id \in DOMAIN rows

(* The names that the text of the game's own jar is in, and the label a response gives
   them (reportedNamespace). *)
NamesOf(row) ==
    IF row.remapped \/ Unobfuscated(row.jar.release) THEN "mojang" ELSE "obfuscated"
Reported(label, unobfuscated) ==
    IF label = "obfuscated" /\ unobfuscated THEN "mojang" ELSE label

(* Whatever was resolved before under the same id, the response and the row tell the
   names that the row's text is in (resolveArtifact, ingestIfNeeded). *)
LabelsTrue ==
    reply.status = "resolved" /\ reply.id.jar.kind = "client" =>
        LET row == rows[reply.id]
        IN  Reported(reply.applied, reply.unobfuscated) = NamesOf(row)
            /\ Reported(row.label, row.unobfuscated) = NamesOf(row)

(* The two halves that are indexed together are of one release, and text of another
   release than was asked for is told to be, and is never served to a strict caller
   (discoverVersionSourceJar, resolveArtifact). *)
ReleasesTrue ==
    reply.status = "resolved" =>
        /\ \A half \in reply.companions : half.release = reply.id.jar.release
        /\ reply.id.jar.kind = "loom" /\ Meant(reply.asked).kind = "version"
              /\ reply.id.jar.release # Meant(reply.asked).value.release
           => reply.approximated /\ ~reply.asked.strict

(* What was resolved is what the response says it is (resolveArtifact). *)
ResolutionRight == LabelsTrue /\ ReleasesTrue

=============================================================================
