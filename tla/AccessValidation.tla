-------------------------- MODULE AccessValidation --------------------------
(***************************************************************************)
(* validateAccessWidener and validateAccessTransformer: every line of a     *)
(* file that widens access is looked up in a jar the game runs from, found   *)
(* in the workspace or the caches of Gradle by what its path says. The       *)
(* versions are obfuscated ones. A build may write or remove jars meanwhile. *)
(***************************************************************************)
EXTENDS Naturals, Sequences, FiniteSets, SequencesExt, RemappedMembers

CONSTANTS Homes,         \* the workspaces with the jars there are: see IsHome
          AccessFiles,   \* the files to validate: see AccessFile
          Demands,       \* what may be asked: see Demand
          MaxBuilds      \* bounds how often a build writes or removes a jar

VARIABLES home,     \* the workspace and the jars, as they are now
          access,   \* the file
          demand,   \* what is asked
          probe,    \* the call under way, and its answer
          builds    \* how often a build wrote or removed a jar

accessVars == <<home, access, demand, probe, builds>>

KnownLoaders == {"fabric", "forge", "neoforge"}
SourceNames == {"obfuscated", "mojang", "intermediary", "yarn"}

(* A jar, by what its path says of it: the Minecraft version, the version of the loader
   that stands for one, the loader, and the rest; names and holds is what is in it, whatever
   its path says: of each class its members, each by the name and the descriptor that it has
   in the names of the file, a kind, and no two alike. *)
IsRuntimeJar(jar) ==
    jar \in
    [id : Nat, version : {jar.version}, loaderToken : {jar.loaderToken},
     loader : KnownLoaders \cup {"unknown"},
     hint : {"none", "intermediary", "mojang", "named"},
     marks : SUBSET {"merged", "inside", "loom", "client", "patched", "srg", "resources"},
     names : SourceNames \cup {"srg"}, holds : {jar.holds}]
JarsOf(h) == h.jars \cup {h.vanilla}
IsHome(h) ==
    /\ h \in [jars : {h.jars}, version : {h.version}, loader : KnownLoaders \cup {"unknown"},
              vanilla : {h.vanilla}, unmapped : SUBSET STRING]
    /\ IsFiniteSet(h.jars) /\ \A jar \in JarsOf(h) : IsRuntimeJar(jar)

\* A jar is what is at a path.
OnePerPath(h) == \A one, other \in JarsOf(h) : one.id = other.id => one = other

ASSUME AccessAssumption ==
    MaxBuilds \in Nat /\ \A h \in Homes : IsHome(h) /\ OnePerPath(h)

(* state: an entry, a line the parser drops, or one before the header. "*" is a wildcard of
   a transformer, whose fields have no descriptor. *)
Line == [state : {"entry", "malformed", "early"}, kind : {"accessible", "extendable", "mutable"},
         transitive : BOOLEAN, sort : {"class", "method", "field", "wildcard"},
         class : STRING, member : STRING, descriptor : STRING]
AccessFile == [header : {"v1", "v2", "v9", "none", "classTweaker"}, names : SourceNames \cup {"none"},
               lines : Seq(Line)]
Demand == [task : {"widener", "transformer"}, version : STRING, names : STRING,
           ofProject : BOOLEAN, scope : {"unset", "vanilla", "merged", "loader"}, prefer : BOOLEAN]

Widening == demand.task = "widener"
Entries == {l \in Range(access.lines) : l.state = "entry"}
OwnerClasses == {l.class : l \in Entries}

-----------------------------------------------------------------------------
(* jar: the one served, as its path describes it; label: the names it is taken to have;
   loaded: the classes that were read, and how each of their members is listed by the names
   of the file; told: the classes of which a warning speaks. *)
Unasked == [pc |-> "asked", jar |-> [id |-> 0], label |-> "none", approximate |-> FALSE,
            left |-> {}, loaded |-> [c \in {} |-> {}], told |-> {}, missing |-> {},
            valid |-> FALSE]

AccessInit ==
    /\ home \in Homes
    /\ access \in AccessFiles
    /\ demand \in Demands
    /\ probe = Unasked
    /\ builds = 0

-----------------------------------------------------------------------------
VersionWanted ==
    IF demand.prefer /\ demand.ofProject /\ home.version # "none" THEN home.version ELSE demand.version

(* An option given, else the header, else intermediary; for a transformer the loader of
   the workspace tells the names, or nothing does. *)
FileNames ==
    IF demand.names # "unset" THEN demand.names
    ELSE IF Widening THEN IF access.names = "none" THEN "intermediary" ELSE access.names
    ELSE IF demand.ofProject /\ home.loader = "forge" THEN "srg"
    ELSE IF demand.ofProject /\ home.loader = "neoforge" THEN "mojang" ELSE "unknown"

Scope ==
    IF demand.scope # "unset" THEN demand.scope ELSE IF demand.ofProject THEN "loader" ELSE "vanilla"

If(condition, points) == IF condition THEN points ELSE 0

(* discoverAccessWidenerRuntimeCandidates *)
WidenerScore(jar) ==
    If(jar.version = VersionWanted, 5000) + If("merged" \in jar.marks, 4000)
    + If(jar.hint \in {"intermediary", "mojang"}, 8000) + If(jar.hint = "named", 1000)
    + If(demand.ofProject /\ "inside" \in jar.marks, 2000)
    + If("loom" \in jar.marks, 500) + If("client" \in jar.marks, 100)

(* discoverAccessTransformerRuntimeCandidates: a jar must show its version, by its path or
   by lying in a workspace of that version. *)
Evidence(jar) ==
    IF jar.version = VersionWanted THEN 5000
    ELSE IF jar.loaderToken = VersionWanted THEN 3500
    ELSE IF demand.ofProject /\ "inside" \in jar.marks /\ home.version = VersionWanted THEN 3000 ELSE 0
TransformerLoader == IF demand.ofProject THEN home.loader ELSE "unknown"
Eligible(jar) ==
    /\ Evidence(jar) # 0
    /\ FileNames = "srg" => "srg" \in jar.marks
    /\ TransformerLoader = "forge" =>
          jar.loader \in {"forge", "neoforge"} \/ jar.marks \cap {"srg", "patched"} # {}
TransformerScore(jar) ==
    10000 + Evidence(jar) + If(demand.ofProject /\ "inside" \in jar.marks, 4000)
    + If("patched" \in jar.marks, 3000) + If("srg" \in jar.marks, 2500)
    + If(jar.loader \in (CASE TransformerLoader = "forge" -> {"forge", "neoforge"}
                           [] TransformerLoader = "neoforge" -> {"neoforge"}
                           [] OTHER -> {}), 1500)
    + If(Scope = IF "merged" \in jar.marks THEN "merged" ELSE "loader", 1000)
    - If("merged" \in jar.marks, 500) - If("resources" \in jar.marks, 6000)

RuntimeJars == IF Widening THEN home.jars ELSE {jar \in home.jars : Eligible(jar)}
Points(jar) == IF Widening THEN WidenerScore(jar) ELSE TransformerScore(jar)
BestJar ==
    CHOOSE jar \in RuntimeJars :
        \A other \in RuntimeJars :
            \/ Points(jar) > Points(other)
            \/ Points(jar) = Points(other) /\ jar.id <= other.id

(* What the names of the jar are taken to be: read from its path or, for a widener, from
   the jar (detectFabricLikeInputNamespace). *)
TakenNames(jar) ==
    IF Scope = "vanilla" THEN "obfuscated"
    ELSE IF Widening THEN IF jar.hint \in {"intermediary", "mojang"} THEN jar.hint ELSE jar.names
    ELSE IF "srg" \in jar.marks THEN "srg"
    ELSE IF "neoforge" \in {TransformerLoader, jar.loader} THEN "mojang" ELSE "obfuscated"

-----------------------------------------------------------------------------
Expected ==
    IF Widening THEN IF demand.ofProject THEN home.loader ELSE "unknown"
    ELSE IF TransformerLoader \in {"forge", "neoforge"} THEN TransformerLoader ELSE "unknown"
Approximated(jar) == jar.version \notin {"none", VersionWanted}
MutMismatch(jar) == FALSE
(* describeServedRuntimeJar *)
Mismatch(jar) == {Expected, jar.loader} \subseteq KnownLoaders /\ jar.loader # Expected

AccessRefused ==
    \/ access.lines = <<>> /\ access.header = "none"
    \/ Widening /\ access.header = "classTweaker"
    \/ ~Widening /\ FileNames = "unknown"
    \/ ~Widening /\ FileNames = "srg" /\ Scope = "vanilla"
    \/ Scope # "vanilla" /\ (RuntimeJars = {} \/ Mismatch(BestJar))

(* resolveAccessWidenerRuntimeArtifact, resolveAccessTransformerRuntimeArtifact and
   guardRuntimeEvidence: the jar of another loader is refused, one of another version
   makes the verdict approximate. *)
ServeJar ==
    LET jar == IF Scope = "vanilla" THEN home.vanilla ELSE BestJar
        approximated == Scope # "vanilla" /\ Approximated(jar)
    IN  /\ probe.pc = "asked"
        /\ probe' = IF AccessRefused THEN [probe EXCEPT !.pc = "refused"]
                    ELSE [probe EXCEPT !.pc = "loading", !.jar = jar, !.label = TakenNames(jar),
                                       !.left = OwnerClasses, !.approximate = approximated]
        /\ UNCHANGED <<home, access, demand, builds>>

-----------------------------------------------------------------------------
(* loadClassMembers: the class by the name it has in the jar, its members by the names of
   the file. The name of a class that cannot be translated is used as it is, with a warning. *)
JarNow == {jar \in JarsOf(home) : jar.id = probe.jar.id}
NeedsNames == FileNames # probe.label
Translates == NeedsNames /\ {FileNames, probe.label} \subseteq SourceNames

\* srg has the class names of Mojang.
SameClassNames(one, other) == one = other \/ {one, other} = {"mojang", "srg"}

MutUntoldNames(class) == {}
UntoldNames(class) ==
    IF NeedsNames /\ (~Translates \/ class \in home.unmapped) THEN {class} ELSE {}

(* What becomes of the members: names that are not those of the label are in no mapping. *)
ListedAs(jar) ==
    IF jar.names = FileNames THEN {"kept"}
    ELSE IF Translates /\ jar.names = probe.label THEN Remaps ELSE {"unremapped"}

FoundIn(class, jar) ==
    /\ jar \in JarNow /\ class \in DOMAIN jar.holds
    /\ SameClassNames(IF Translates /\ class \notin home.unmapped THEN probe.label ELSE FileNames,
                      jar.names)

MembersLoaded(class, remaps) ==
    probe' = [probe EXCEPT
                 !.left = @ \ {class},
                 !.loaded = [c \in DOMAIN @ \cup {class} |-> IF c = class THEN remaps ELSE @[c]],
                 !.told = @ \cup UntoldNames(class)
                            \cup IF Translates /\ \E m \in DOMAIN remaps : remaps[m] = "unremapped"
                                 THEN {class} ELSE {}]

LoadClass(class) ==
    /\ probe.pc = "loading" /\ class \in probe.left
    /\ \/ \E jar \in JarNow :
             /\ FoundIn(class, jar)
             /\ \E remaps \in [jar.holds[class] -> ListedAs(jar)] : MembersLoaded(class, remaps)
       \/ /\ \A jar \in JarNow : ~FoundIn(class, jar)
          /\ probe' = [probe EXCEPT !.left = @ \ {class}, !.told = @ \cup {class}]
    /\ UNCHANGED <<home, access, demand, builds>>

-----------------------------------------------------------------------------
(* validateParsedAccessWidener with checkAccessWidenerEntryLegality;
   validateParsedAccessTransformer *)
Legal(line) ==
    Widening =>
        /\ line.kind = "mutable" => line.sort = "field"
        /\ line.kind = "extendable" => line.sort # "field"
        /\ line.transitive => access.header = "v2"
IsTarget(line, m) ==
    /\ m.kind = line.sort /\ m.name = line.member
    /\ Widening \/ line.sort = "method" => m.descriptor = line.descriptor
ListsTarget(line, remaps) == \E m \in DOMAIN remaps : IsTarget(line, Listed(m, remaps[m]))
Resolved(line) ==
    /\ line.class \in DOMAIN probe.loaded
    /\ line.sort \in {"method", "field"} => ListsTarget(line, probe.loaded[line.class])

HeaderValid == Widening => access.header \in {"v1", "v2"}
Rejected == {i \in DOMAIN access.lines : access.lines[i].state # "entry"}
MutValid == HeaderValid /\ \A l \in Entries : Legal(l) /\ Resolved(l)
Valid == HeaderValid /\ Rejected = {} /\ \A l \in Entries : Legal(l) /\ Resolved(l)

Conclude ==
    /\ probe.pc = "loading" /\ probe.left = {}
    /\ probe' = [probe EXCEPT !.pc = "answered", !.valid = Valid,
                              !.missing = {l \in Entries : Legal(l) /\ ~Resolved(l)}]
    /\ UNCHANGED <<home, access, demand, builds>>

(* A build writes a jar anew, with other members, or removes it. *)
Build(jar) ==
    /\ probe.pc \in {"asked", "loading"} /\ builds < MaxBuilds /\ builds' = builds + 1
    /\ \/ home' = [home EXCEPT !.jars = @ \ {jar}]
       \/ home' = [home EXCEPT !.jars = (@ \ {jar}) \cup
                      {[jar EXCEPT !.holds = [c \in DOMAIN jar.holds |-> {}]]}]
    /\ UNCHANGED <<access, demand, probe>>

AccessNext ==
    \/ ServeJar \/ Conclude
    \/ \E class \in OwnerClasses : LoadClass(class)
    \/ \E jar \in home.jars : Build(jar)

AccessSpec == AccessInit /\ [][AccessNext]_accessVars

-----------------------------------------------------------------------------
AccessTypeOK ==
    /\ probe.pc \in {"asked", "refused", "loading", "answered"}
    /\ probe.left \subseteq OwnerClasses /\ probe.told \subseteq OwnerClasses
    /\ DOMAIN probe.loaded \subseteq OwnerClasses
    /\ builds \in 0 .. MaxBuilds

Holds(jar, line) ==
    /\ line.class \in DOMAIN jar.holds
    /\ line.sort \in {"method", "field"} => \E m \in jar.holds[line.class] : IsTarget(line, m)

(* Whether the jar is the one that was served, with the names it was taken to have as far as
   its classes can tell: their names are the same in srg and in those of Mojang. *)
JarAsServed == builds = 0 /\ {probe.label, probe.jar.names} # {"mojang", "srg"}

(* Whether a member was listed as what it is not without a warning, which the line names, or
   which is taken for what the line names. *)
ChangedSilently(line) ==
    /\ line.class \in DOMAIN probe.loaded
    /\ \E m \in DOMAIN probe.loaded[line.class] :
          LET remap == probe.loaded[line.class][m]
          IN  remap \in Silently /\ (IsTarget(line, m) \/ IsTarget(line, Listed(m, remap)))

(* A file is valid only if each of its lines was read and is legal, and if the jar that was
   served, unless it was written anew meanwhile, has the class that the line names and the
   member, of which else a warning speaks, or for which a guess or a descriptor that was
   silently left was taken (validateParsedAccessWidener, validateParsedAccessTransformer). *)
ValidIsTrue ==
    probe.pc = "answered" /\ probe.valid =>
        \A i \in DOMAIN access.lines :
            LET line == access.lines[i]
            IN  /\ line.state = "entry" /\ Legal(line)
                /\ builds = 0 => line.class \in DOMAIN probe.jar.holds
                /\ JarAsServed => \/ Holds(probe.jar, line)
                                  \/ line.class \in probe.told \/ ChangedSilently(line)

(* A target that is said to be missing and that the jar has is of a class of which a
   warning says that its names, or those of a member, could not be translated or read,
   unless the remap changed it silently (remapSignatureMembers). *)
MissIsTold ==
    probe.pc = "answered" =>
        \A line \in probe.missing :
            JarAsServed /\ Holds(probe.jar, line) =>
                line.class \in probe.told \/ ChangedSilently(line)

(* A verdict rests on a jar of the loader of the workspace, and of the version that was
   asked for unless it says that it is approximate; a transformer's never on a jar that
   does not show its version at all. *)
EvidenceFits ==
    probe.pc = "answered" /\ Scope # "vanilla" =>
        /\ {Expected, probe.jar.loader} \subseteq KnownLoaders => probe.jar.loader = Expected
        /\ probe.approximate <=> probe.jar.version \notin {"none", VersionWanted}
        /\ ~Widening => \/ VersionWanted \in {probe.jar.version, probe.jar.loaderToken}
                        \/ "inside" \in probe.jar.marks /\ home.version = VersionWanted

AccessRight == ValidIsTrue /\ MissIsTold /\ EvidenceFits

=============================================================================
