---------------------------- MODULE MCResolution ----------------------------
(***************************************************************************)
(* What is kept on disk, and what is found there, for TLC: the caches and   *)
(* the computations on jars, rows, symbols and files. They share no state   *)
(* here, so that a behaviour of this module is one of one of them, on one   *)
(* of the inputs listed.                                                   *)
(***************************************************************************)
EXTENDS ArtifactCache, SourceCascade, MappingLookup, ArtifactResolution, SearchPages,
        NbtDocuments, MixinValidation, ClassReading, CacheDatabase, ContextCache, TinyFiles,
        CacheInventory, ProjectValidation, AccessValidation, SymbolQueries, SymbolHistory, NestedJars,
        WorkspaceSymbols, TLC

VARIABLE part

resolutionVars == <<part, cacheVars, cascadeVars, lookupVars, resolveVars, searchVars, nbtVars,
                    mixinVars, readingVars, databaseVars, contextVars, tinyVars, inventoryVars,
                    projectVars, accessVars, symbolVars, historyVars,
                    nestedVars, buildVars>>

CallsAlike == Permutations(Workers)

-----------------------------------------------------------------------------
(* What resolveSourceTarget may find: at most two copies of a coordinate in ~/.m2 and
   one in the Gradle cache or the other way round, or none and any two repositories; and
   every surrounding of a jar. *)
NoFiles == [f \in {"exactSources", "commonSources", "exactBinary", "commonBinary"} |-> "absent"]
AtMost(n) == {fs \in Files : Cardinality({f \in DOMAIN fs : fs[f] # "absent"}) <= n}

Coordinate(m2, gradle, sources, binaries, allowDecompile) ==
    [kind |-> "coordinate", m2 |-> m2, gradle |-> gradle, sources |-> sources,
     binaries |-> binaries, allowDecompile |-> allowDecompile, preferBinaryOnly |-> FALSE]
Two(S) == {<<first, second>> : first, second \in S}

CascadeWorlds ==
    {Coordinate(m2, gradle, <<"full">>, <<"full">>, TRUE) : m2 \in AtMost(2), gradle \in AtMost(1)}
    \cup {Coordinate(m2, gradle, <<"unstable">>, <<"unstable">>, TRUE) :
             m2 \in AtMost(1), gradle \in AtMost(2)}
    \cup {Coordinate(NoFiles, NoFiles, sources, binaries, allowDecompile) :
             sources \in Two(Answers), binaries \in Two(Answers \ {"broken"}),
             allowDecompile \in BOOLEAN}
    \cup [kind : {"jar"}, subject : {"absent", "truncated", "bare", "classes", "sources"},
          named : BOOLEAN, beside : LocalJars, sibling : LocalJars,
          allowDecompile : BOOLEAN, preferBinaryOnly : BOOLEAN]

-----------------------------------------------------------------------------
(* Two classes, whose simple names clash in the second choice, and two methods that are
   overloads, overrides of each other or strangers, as the three files may have them. *)
Column(mojang, obfuscated, intermediary, yarn) ==
    [mojang |-> mojang, obfuscated |-> obfuscated, intermediary |-> intermediary, yarn |-> yarn]

TwoClasses ==
    { << Column(<<"p", "A">>, <<"", "a">>, <<"n", "c1">>, <<"y", "A">>),
         Column(second, <<"", "b">>, <<"n", "c2">>, second) >> : second \in {<<"q", "A">>, <<"p", "B">>}}

AMethod ==
    [owner : {1, 2}, parameters : {<<0>>, <<1>>, <<2>>, <<1, 3>>}, tiny : BOOLEAN,
     names : {Column(name, "a", method, name) : name \in {"f", "g"}, method \in {"m1", "m2"}}]

(* What a mapping file never has: two methods of one class with the same name and
   parameters, or one intermediary name for two that do not override each other. *)
Consistent(m, n) ==
    /\ m.owner = 1 /\ m.parameters # <<2>> /\ m.names = Column("f", "a", "m1", "f")
    /\ m.owner = n.owner /\ m.parameters = n.parameters =>
           \A s \in Namespaces : m.names[s] # n.names[s]
    /\ m.names.intermediary = n.names.intermediary =>
           m.names.mojang = n.names.mojang /\ m.owner # n.owner /\ m.parameters = n.parameters

MappingWorlds ==
    [classes : TwoClasses, merged : BOOLEAN,
     methods : {pair \in AMethod \X AMethod :
                   Consistent(pair[1], pair[2]) /\ pair[2].parameters # <<1, 3>>}]

QueriedWorlds ==
    {w \in MappingWorlds :
        LET second == w.methods[2] IN
        /\ second.parameters \in {<<0>>, <<1>>} /\ second.tiny
        /\ w.methods[1].parameters # <<1, 3>>}

-----------------------------------------------------------------------------
(* A project of Loom with the sources jars a search of its cache may meet, of two releases:
   a pair, one half, halves of different releases, merged jars; projects of every mapping;
   and one of a release that is not obfuscated. *)
SourcesJar(release, half, merged, entries, path) ==
    [release |-> release, half |-> half, merged |-> merged, minecraft |-> TRUE,
     entries |-> entries, path |-> path]
CommonHalf(release, entries, path) == SourcesJar(release, "common", FALSE, entries, path)
ClientHalf(release, entries, path) == SourcesJar(release, "clientonly", FALSE, entries, path)
MergedJar(release, entries, path) == SourcesJar(release, Unset, TRUE, entries, path)
Pair == {CommonHalf("v", 500, 1), ClientHalf("v", 500, 2)}

LoomCaches ==
    { {}, Pair, {CommonHalf("v", 1, 1)}, {ClientHalf("w", 900, 2)},
      {CommonHalf("v", 1, 1), CommonHalf("w", 900, 2)},
      {CommonHalf("v", 1, 1), ClientHalf("w", 900, 2)},
      {CommonHalf("v", 1, 1), ClientHalf("v", 900, 2), CommonHalf("w", 900, 3)},
      {MergedJar("w", 500, 3)}, {MergedJar("v", 1, 2), MergedJar("w", 900, 3)} }

LoomProject(version, label, loader) == [version |-> version, mapping |-> label, loader |-> loader]
Machine(shipped, ofLoom, loom, library) ==
    [shipped |-> shipped, project |-> ofLoom, loom |-> loom, library |-> library]

MachineWorlds ==
    {Machine({}, LoomProject("v", "yarn", TRUE), loom, "binary") : loom \in LoomCaches}
    \cup {Machine(shipped, LoomProject(version, label, TRUE), {}, "sources") :
             shipped \in {{}, {"v"}}, version \in {"v", "w", Unset},
             label \in {Unset, "mojang", "intermediary"}}
    \cup {Machine({"w"}, LoomProject("w", "obfuscated", FALSE), Pair, "sources")}

CallWorlds ==
    LET client == Call("version", Client("v"), "mojang", "merged", TRUE)
    IN  {Call(sort[1], sort[2], label, scope, TRUE) :
            sort \in {<<"version", Client("v")>>, <<"jar", Client("v")>>,
                         <<"jar", Library>>, <<"coordinate", Client("v")>>},
            label \in {"obfuscated", "mojang", "yarn"}, scope \in {"vanilla", "merged"}}
        \cup {Call("workspace", NoJar, label, Unset, ofProject) :
                 label \in {Unset, "mojang"}, ofProject \in BOOLEAN}
        \cup {Call("dependency", Library, "mojang", Unset, TRUE),
              Call("jar", Jar("loom", "v", 1), "intermediary", Unset, FALSE),
              Call("version", Client("v"), "mojang", "vanilla", FALSE),
              Call("coordinate", Library, "intermediary", Unset, FALSE),
              [client EXCEPT !.strict = TRUE],
              [client EXCEPT !.value = Client("w"), !.prefer = TRUE, !.strict = TRUE]}
        \cup {[Call(kind, Client("v"), label, Unset, FALSE) EXCEPT !.decompile = FALSE] :
                 kind \in {"version", "jar"}, label \in {"obfuscated", "mojang"}}

-----------------------------------------------------------------------------
(* Rows of an artifact, of which three or all are indexed: symbols, of which
   some share a name or a path, and files, of which one is not found by its tokens, one
   does not match and two are not plainly in scope. *)
IndexRow(path, name, line, score, rank, bytes, scope) ==
    [path |-> path, name |-> name, line |-> line, score |-> score, rank |-> rank,
     bytes |-> bytes, scope |-> scope, token |-> TRUE, like |-> TRUE, hit |-> TRUE]

SymbolRows ==
    { IndexRow(1, 1, 1, 5, 0, 1, "in"), IndexRow(1, 1, 2, 5, 0, 1, "in"),
      IndexRow(1, 2, 2, 5, 0, 1, "in"), IndexRow(2, 1, 1, 5, 0, 1, "other case"),
      IndexRow(2, 2, 3, 7, 0, 1, "in"), IndexRow(3, 1, 1, 9, 0, 1, "under") }
FileRows ==
    { IndexRow(1, 0, 0, 5, 1, 2, "in"), IndexRow(2, 0, 0, 7, 0, 1, "in"),
      [IndexRow(3, 0, 0, 5, 2, 1, "in") EXCEPT !.token = FALSE],
      [IndexRow(4, 0, 0, 5, 3, 1, "in") EXCEPT !.hit = FALSE],
      IndexRow(5, 0, 0, 6, 1, 1, "other case"), IndexRow(6, 0, 0, 4, 2, 1, "out") }

IndexedSets(all) ==
    {all} \cup {some \in SUBSET all :
                    Cardinality(some) = 3 /\ {1, 3} \subseteq {r.path : r \in some}}
IndexWorlds ==
    [symbol |-> IndexedSets(SymbolRows), text |-> IndexedSets(FileRows),
     path |-> {{[r EXCEPT !.token = TRUE] : r \in FileRows \ {leftOut}} :
                  leftOut \in {r \in FileRows : r.path \in {1, 3}}}]

AskedSearch(intent, mode, regex, ascii, isIndexed) ==
    [intent |-> intent, mode |-> mode, regex |-> regex, ascii |-> ascii, scoped |-> TRUE,
     indexed |-> isIndexed]
SearchWorlds ==
    {AskedSearch(intent, "auto", regex, TRUE, TRUE) : intent \in {"symbol", "path"}, regex \in BOOLEAN}
    \cup {AskedSearch("text", mode, FALSE, TRUE, TRUE) : mode \in {"auto", "token", "literal"}}
    \cup {AskedSearch("text", "auto", TRUE, TRUE, FALSE), AskedSearch("text", "literal", FALSE, FALSE, TRUE)}

-----------------------------------------------------------------------------
(* Documents with a compound, lists of scalars, of nothing and of compounds, arrays and
   scalars at the edge of their type; and patches that hit every kind of place in them. *)
Leaf(tag, scalar) == Node(tag, "none", Just(scalar))
Filled(elements) ==
    FoldLeft(LAMBDA sofar, e : With(sofar, <<Token[Length(sofar, <<>>) + 1]>>, e), Just(Arr), elements)
ListOf(tag, nodes) == Node("list", tag, Filled(nodes))
ArrayOf(tag, scalars) == Node(tag, "none", Filled([i \in DOMAIN scalars |-> Just(scalars[i])]))
Compound(entries) ==
    Node("compound", "none", FoldLeft(LAMBDA sofar, e : With(sofar, <<e[1]>>, e[2]), Just(Obj), entries))
Document(root) == With(With(Just(Obj), <<"rootName">>, Just("name")), <<"root">>, root)

AByte == Leaf("byte", "#5")
DocumentWorlds ==
    { Document(Compound(<< <<"a", AByte>>, <<"b", ListOf("byte", <<AByte, AByte>>)>> >>)),
      Document(Compound(<< <<"a", ListOf("list", <<ListOf("end", <<>>)>>)>>,
                           <<"b", ArrayOf("intArray", <<"#300">>)>> >>)),
      Document(ListOf("compound", <<Compound(<< <<"a", Leaf("string", "NaN")>> >>), Compound(<<>>)>>)),
      Document(Leaf("float", "#1e300")), Document(ArrayOf("longArray", <<"-0", "5">>)) }

Pointers ==
    LET root == <<"root", "value">>
    IN  {<<>>, <<"rootName">>, <<"root">>, root}
        \cup {root \o p : p \in
                { <<"a">>, <<"a", "type">>, <<"a", "value">>, <<"b", "elementType">>,
                  <<"b", "value", "0">>, <<"b", "value", "0", "type">>, <<"b", "value", "2">>,
                  <<"b", "value", "-">>, <<"0">>, <<"0", "value", "a">>,
                  <<"a", "value", "0", "elementType">> }}

PatchWorlds ==
    [op : {"add", "replace"}, path : Pointers,
     value : {AByte, Leaf("short", "#5"), ListOf("byte", <<AByte>>), Compound(<<>>),
              Just("short"), Just("#300")}]
    \cup [op : {"remove"}, path : Pointers, value : {Just("none")}]
    \cup [op : {"test"}, path : Pointers, value : {AByte, Just("byte")}]

-----------------------------------------------------------------------------
(* A class with two overloads, and one with a synthetic method; mixins of the first, of the
   second with a target that does not exist, one that asks for what is not evaluated, and one
   for a method that the class has not, but may be guessed to have. *)
Method(descriptor, synthetic) ==
    [name |-> "f", kind |-> "method", descriptor |-> descriptor, synthetic |-> synthetic]
TargetClasses == [A |-> {Method("()V", FALSE), Method("(I)V", FALSE)}, B |-> {Method("()V", TRUE)}]

Asks(form, names, descriptor, targets) ==
    [form |-> form, names |-> names, kind |-> "method", descriptor |-> descriptor, targets |-> targets]
MixinOf(targets, members, unread) == [targets |-> targets, members |-> members, unread |-> unread]
MixinWorlds ==
    { MixinOf(<<"B", "C">>, {Asks("once", {"f", "h"}, "none", {"B", "C"})}, FALSE),
      MixinOf(<<"A">>, {Asks("described", {"f"}, "(I)V", {"A"}), Asks("twice", {"f"}, "none", {"A"})}, FALSE),
      MixinOf(<<"B">>, {Asks("pattern", {"h"}, "none", {"B"}), Asks("empty", {"f"}, "none", {"B"})}, TRUE),
      MixinOf(<<"A">>, {Asks("once", {"guess"}, "none", {"A"})}, FALSE) }

Filter(severity, hide, categories) ==
    [minSeverity |-> severity, hideUncertain |-> hide, categories |-> categories]
FilterWorlds ==
    {Filter("all", FALSE, {}), Filter("error", FALSE, {"mapping"}), Filter("all", TRUE, {})}

-----------------------------------------------------------------------------
(* A class with four members, and files of one to five lines, some of them empty; an
   artifact that has it or not, under either names, with every kind of jar beside it. *)
Placed(places) == [a \in {"asked", "nested", "binary"} |-> a \in places]
ReadMember(mapped, translated, raw) == [known |-> mapped, translated |-> translated, raw |-> raw]
FourMembers ==
    << ReadMember(TRUE, TRUE, FALSE), ReadMember(TRUE, FALSE, TRUE),
       ReadMember(FALSE, FALSE, TRUE), ReadMember(TRUE, TRUE, FALSE) >>
ClassOf(file, text, asks, places, nested, binary) ==
    [file |-> file, members |-> FourMembers, has |-> Placed(places),
     decompiled |-> [a \in {"asked", "nested", "binary"} |-> a # "asked"],
     text |-> text, requested |-> asks, nested |-> nested, binary |-> binary,
     bytecode |-> nested = "none"]

ClassSubjects ==
    {ClassOf(file, "obfuscated", "obfuscated", {"asked"}, "none", "sources") :
        file \in {<<2, 0, 3, 1, 0>>, <<0>>, <<4, 1, 1>>}}
    \cup {ClassOf(<<1, 1>>, "obfuscated", asks, {"asked"}, "none", binary) :
             asks \in Names, binary \in {"none", "other"}}
    \cup {ClassOf(<<1, 1>>, "mojang", asks, places, "none", binary) :
             asks \in Names, places \in {{}, {"binary"}}, binary \in {"sources", "fails", "other"}}
    \cup {ClassOf(<<1, 1>>, "obfuscated", "obfuscated", places, nested, binary) :
             places \in {{}, {"nested"}, {"asked", "nested"}}, nested \in {"one", "several", "refused"},
             binary \in {"itself", "other"}}

Window(start, end, maxLines, maxChars) ==
    [start |-> start, end |-> end, maxLines |-> maxLines, maxChars |-> maxChars]
ClassWindows ==
    {Window(start, end, maxLines, maxChars) :
        start \in {0, 2}, end \in {0, 3, 9}, maxLines \in {0, 2}, maxChars \in {0, 2, 3}}
    \cup {Window(7, 0, 0, 0)}

-----------------------------------------------------------------------------
(* An index row, two downloads, a file and a registry, of which one may be held, written
   in part or gone; and what may be asked of them. *)
StoredCell(kind, version, described, marks, grip) ==
    [kind |-> kind, version |-> version, described |-> described, marks |-> marks, grip |-> grip]
ShelfOf(row, described, grip, fileGrip, registry) ==
    << StoredCell("artifact-index", 1, FALSE, row, "free"),
       StoredCell("downloads", 1, described, {}, grip),
       StoredCell("downloads", 2, TRUE, {"old"}, "free"),
       StoredCell("file", 1, FALSE, {"empty"}, fileGrip),
       StoredCell("registry", registry, FALSE, {"broken"}, "free") >>
CacheShelves ==
    {ShelfOf({"old", "gone"}, described, grip, "free", 1) :
        described \in BOOLEAN, grip \in {"free", "unlink", "write"}}
    \cup {ShelfOf({}, TRUE, "free", fileGrip, registry) :
             fileGrip \in {"free", "unlink"}, registry \in {0, 1}}

Want(task, status, old, limit) ==
    [task |-> task, status |-> status, old |-> old, limit |-> limit]
CacheOrders ==
    {Want("list", "any", FALSE, 1), Want("list", "healthy", FALSE, 2), Want("delete", "any", TRUE, 0)}
    \cup {Want("delete", status, FALSE, 0) : status \in {"healthy", "corrupt", "partial"}}

-----------------------------------------------------------------------------
(* Workspaces with mixin configs, a widener and transformers, of which some throw or are
   not read; and what may be asked of them. *)
ConfigOf(state, entries) == [state |-> state, entries |-> entries]
WorkspaceOf(version, gradle, configs, wideners, transformers) ==
    [version |-> version, gradle |-> gradle, mixins |-> configs, wideners |-> wideners,
     transformers |-> transformers]
ProjectWorlds ==
    {WorkspaceOf(1, "readable",
                 <<ConfigOf("whole", <<first, "clean">>), ConfigOf(state, <<"unsure">>)>>,
                 <<widener>>, <<>>) :
        first \in {"clean", "partial", "invalid", "throws"}, state \in {"whole", "broken"},
        widener \in {"clean", "other format"}}
    \cup {WorkspaceOf(0, gradle, configs, <<>>, transformers) :
             gradle \in {"none", "scripts", "unreadable"},
             configs \in {<<>>, <<ConfigOf("whole", <<"clean">>)>>},
             transformers \in {<<>>, <<"clean", "throws">>}}
QuestionOf(version, prefer, kinds) == [version |-> version, prefer |-> prefer, discover |-> kinds]
QuestionWorlds ==
    { QuestionOf(0, "unset", Kinds), QuestionOf(0, "no", Kinds), QuestionOf(9, "unset", Kinds),
      QuestionOf(9, "yes", {"mixins", "wideners"}) }

-----------------------------------------------------------------------------
(* Jars of Loom and of the toolchain of NeoForge, of two versions; wideners and transformers
   with legal and illegal lines; and what may be asked of them. *)
OneMethod == [name |-> "m", kind |-> "method", descriptor |-> "d"]
OneField == [name |-> "n", kind |-> "field", descriptor |-> "d"]
GameJar(id, version, token, loader, hint, marks, named) ==
    [id |-> id, version |-> version, loaderToken |-> token, loader |-> loader, hint |-> hint,
     marks |-> marks, names |-> named, holds |-> [C |-> {OneMethod, OneField}]]
VanillaJar == GameJar(0, "v", "none", "unknown", "none", {"client"}, "obfuscated")
LoomJar(id, version, hint, named) ==
    GameJar(id, version, "none", "fabric", hint, {"merged", "loom"}, named)
PatchedJar(token, marks) ==
    GameJar(3, "none", token, "neoforge", "none", {"patched", "inside"} \cup marks, "mojang")
SrgJar == GameJar(4, "v", "none", "forge", "none", {"srg", "inside"}, "srg")
SrgUnmarked == GameJar(6, "v", "none", "neoforge", "none", {"patched"}, "srg")
ResourceJar == GameJar(5, "v", "none", "unknown", "none", {"resources"}, "obfuscated")
Intermediary == LoomJar(1, "v", "intermediary", "intermediary")

RuntimeHomes ==
    [jars : { {}, {Intermediary, LoomJar(2, "w", "mojang", "mojang")},
              {LoomJar(2, "w", "intermediary", "intermediary"), LoomJar(3, "v", "named", "yarn")},
              {PatchedJar("v", {"merged"}), ResourceJar},
              {PatchedJar("w", {}), SrgJar, Intermediary}, {SrgUnmarked} },
     version : {"v", "w"}, loader : {"fabric", "forge", "neoforge"}, vanilla : {VanillaJar},
     unmapped : {{}, {"C"}}]

LineOn(state, kind, transitive, sort, class, member) ==
    [state |-> state, kind |-> kind, transitive |-> transitive, sort |-> sort, class |-> class,
     member |-> member, descriptor |-> "d"]
OnMember(sort, member) == LineOn("entry", "accessible", FALSE, sort, "C", member)
OnMethod == OnMember("method", "m")
OnClass(kind, transitive, class) == LineOn("entry", kind, transitive, "class", class, "none")
FileOf(header, named, lines) == [header |-> header, names |-> named, lines |-> lines]
FileWorlds ==
    { FileOf("v2", "intermediary", <<OnMethod, OnClass("extendable", TRUE, "C")>>),
      FileOf("v1", "obfuscated",
             <<LineOn("malformed", "accessible", FALSE, "field", "C", "m"), OnMethod>>),
      FileOf("v1", "none", <<LineOn("entry", "mutable", TRUE, "field", "C", "n"),
                             OnClass("accessible", FALSE, "D")>>),
      FileOf("v1", "intermediary", <<OnMember("field", "n"), OnMember("method", "guess")>>),
      FileOf("none", "none", <<>>), FileOf("classTweaker", "none", <<>>) }

DemandOf(task, named, inside, scope, prefer) ==
    [task |-> task, version |-> "v", names |-> named, ofProject |-> inside, scope |-> scope,
     prefer |-> prefer]
DemandWorlds ==
    { DemandOf("widener", "unset", TRUE, "unset", FALSE),
      DemandOf("widener", "unset", TRUE, "merged", TRUE),
      DemandOf("widener", "mojang", FALSE, "unset", FALSE),
      DemandOf("widener", "yarn", TRUE, "loader", FALSE),
      DemandOf("transformer", "unset", TRUE, "unset", FALSE),
      DemandOf("transformer", "mojang", TRUE, "merged", TRUE),
      DemandOf("transformer", "obfuscated", FALSE, "unset", FALSE),
      DemandOf("transformer", "srg", TRUE, "vanilla", FALSE) }

-----------------------------------------------------------------------------
(* Two versions of a class with overloads of a method and a field, or without it, obfuscated
   in two ways or not; and three, of which any lacks it. *)
MemberOf(kind, name, descriptor, flags) ==
    [kind |-> kind, name |-> name, descriptor |-> descriptor, flags |-> flags]
AllMembers == {MemberOf("method", "f", 1, 0), MemberOf("method", "f", 2, 0), MemberOf("field", "x", 1, 0)}
Altered == {MemberOf("method", "f", 1, 1), MemberOf("field", "x", 2, 0)}

ReleaseOf(named, present, members, letter) ==
    [named |-> named, present |-> present, members |-> members, packaged |-> {"lib.L"},
     shipped |-> IF named THEN "f" :> "f" @@ "x" :> "x" ELSE "f" :> letter @@ "x" :> "c",
     defaults |-> IF present THEN "p.A" :> letter @@ "p.B" :> "z" ELSE "p.B" :> "y",
     registries |-> IF present THEN "block" :> {"stone"} ELSE "block" :> {} @@ "item" :> {"axe"}]
VersionsOf(membersOf, letters) ==
    {ReleaseOf(named, present, members, letter) :
        named, present \in BOOLEAN, members \in membersOf, letter \in letters}
ReleaseWorlds ==
    {<<first, second>> : first \in VersionsOf({AllMembers}, {"a"}),
                         second \in VersionsOf({{}, AllMembers, Altered}, {"a", "b"})}
    \cup {<<first, second, ReleaseOf(FALSE, TRUE, Altered, "b")>> :
             first \in VersionsOf({{}, AllMembers}, {"a"}), second \in VersionsOf({Altered}, {"b"})}

TraceOf(form, descriptor, last) ==
    [form |-> form, name |-> "f", descriptor |-> descriptor, from |-> 1, to |-> last, cap |-> 2]
TraceWorlds == {TraceOf("class-like", 0, 2)} \cup {TraceOf("method", d, last) : d \in {0, 1}, last \in {3}}
    \cup {TraceOf("method", 1, 2)}
DiffOf(tool, from, filter, category) ==
    [tool |-> tool, from |-> from, to |-> 2, filter |-> filter, category |-> category]
DiffWorlds ==
    {DiffOf("signatures", 1, FALSE, "all"), DiffOf("versions", 2, FALSE, "classes"),
     DiffOf("versions", 1, FALSE, "registry")}
    \cup {DiffOf("versions", 1, filter, "all") : filter \in BOOLEAN}

-----------------------------------------------------------------------------
(* A shell with two jars of which both have the class, or one cannot be read. *)
Bundle(holds, state) == [holds |-> holds, state |-> state]
ShellWorlds ==
    { <<Bundle(TRUE, "fine"), Bundle(TRUE, "fine")>>, <<Bundle(TRUE, "refused"), Bundle(TRUE, "fine")>>,
      <<Bundle(FALSE, "fine"), Bundle(TRUE, "broken")>> }

-----------------------------------------------------------------------------
(* Builds that declare mappings, several or none, and dependencies of them; versions that are
   obfuscated or not, whose jar or class is there or not; and what may be asked of them. *)
ScriptOf(readable, mappings) == [readable |-> readable, declares |-> mappings]
BuildOf(scripts, own, umbrella, cached, poms) ==
    [scripts |-> scripts, own |-> own, umbrella |-> umbrella, cached |-> cached, poms |-> poms]
BuildWorlds ==
    {BuildOf(scripts, 0, 0, {}, <<>>) :
        scripts \in { <<>>, <<ScriptOf(FALSE, {"yarn"})>>, <<ScriptOf(TRUE, {})>>,
                      <<ScriptOf(TRUE, {"mojang"}), ScriptOf(TRUE, {"yarn"})>>,
                      <<ScriptOf(TRUE, {}), ScriptOf(TRUE, {"yarn"})>> }}
    \cup {BuildOf(<<>>, 5, 7, {1, 2}, <<2>>), BuildOf(<<>>, 0, 7, {1, 2, 12}, <<0, 2>>),
          BuildOf(<<>>, 0, 7, {1, 2}, <<7, 2>>), BuildOf(<<>>, 0, 0, {1, 2}, <<2>>),
          BuildOf(<<>>, 0, 7, {1, 12}, <<>>)}
RuntimeMethod(name, descriptor, own) == [name |-> name, descriptor |-> descriptor, own |-> own]
ShippedBy(obfuscated, served, class, methods, graph) ==
    [obfuscated |-> obfuscated, served |-> served, class |-> class, fields |-> {"f"},
     methods |-> methods, graph |-> graph]
SomeMethods == {RuntimeMethod("f", 1, TRUE), RuntimeMethod("f", 2, FALSE), RuntimeMethod("init", 1, FALSE)}
RuntimeWorlds ==
    {ShippedBy(TRUE, TRUE, "present", SomeMethods, graph) : graph \in {"resolved", "mapping_unavailable"}}
    \cup {ShippedBy(FALSE, TRUE, class, SomeMethods, graph) :
             class \in {"present", "missing", "broken"}, graph \in {"not_found", "mapping_unavailable"}}
    \cup {ShippedBy(FALSE, FALSE, "present", SomeMethods, "mapping_unavailable")}
QuestionOn(tool, label, kind, name, descriptor) ==
    [tool |-> tool, label |-> label, kind |-> kind, name |-> name, descriptor |-> descriptor,
     exact |-> descriptor # 0]
InquiryWorlds ==
    {QuestionOn(tool, "mojang", q[1], q[2], q[3]) : tool \in {"check", "resolve"},
        q \in { <<"class", "C", 0>>, <<"short class", "C", 0>>, <<"field", "g", 0>>,
                <<"method", "f", 2>>, <<"method", "init", 1>> }}
    \cup {QuestionOn("check", "mojang", "method", "f", 0), QuestionOn("resolve", "yarn", "field", "f", 0),
          QuestionOn("dependency", "mojang", "class", "C", 0)}

-----------------------------------------------------------------------------
Parts == {"artifacts", "cascade", "lookup", "calls", "searches", "documents", "mixins", "classes",
          "database", "context", "tiny files", "inventory", "projects", "access",
          "symbols", "history", "nested jars", "builds"}

(* A part that is not the one of the behaviour has an input of no concern. *)
ResolutionInit ==
    /\ part \in Parts
    /\ CacheInit
    /\ part # "artifacts" => \A a \in Artifacts : store.jar[a] = "none"
    /\ target \in IF part = "cascade" THEN CascadeWorlds
                  ELSE {Coordinate(NoFiles, NoFiles, <<>>, <<>>, FALSE)}
    /\ leg = FirstLeg(target) /\ failures = NoFailure /\ outcome = NoOutcome
    /\ slots = [url \in Attempts(target) |-> "empty"]
    /\ mapping \in IF part = "lookup" THEN MappingWorlds
                   ELSE IF part = "symbols" THEN QueriedWorlds
                   ELSE {[classes |-> <<>>, methods |-> <<>>, merged |-> FALSE]}
    /\ found = NoAnswer /\ answer = NotAsked
    /\ loaded \in IF part = "symbols" THEN Loads ELSE {{}}
    /\ IF part = "nested jars" THEN NestedInit
       ELSE /\ shell = <<>> /\ extracted = <<>> /\ leftovers = {} /\ classSets = <<>>
            /\ mishaps = <<>> /\ nestedCall = [c \in NestedCalls |-> NotCalled]
    /\ IF part = "builds" THEN BuildInit
       ELSE /\ tree = BuildOf(<<>>, 0, 0, {}, <<>>) /\ inquiry = NoInquiry /\ edited = 0
            /\ runtime = [ShippedBy(TRUE, TRUE, "present", {}, "resolved") EXCEPT !.fields = {}]
            /\ evidence = <<>>
    /\ history = NoHistory
    /\ manifest \in IF part = "history" THEN Manifests ELSE {<<>>}
    /\ IF part = "calls" THEN ResolveInit
       ELSE /\ machine = Machine({}, LoomProject("v", "yarn", TRUE), {}, "binary")
            /\ workspace = "absent" /\ rows = [i \in {} |-> NoReply] /\ reply = NoReply /\ calls = 0
    /\ IF part = "searches" THEN SearchInit
       ELSE /\ search = AskedSearch("path", "auto", FALSE, TRUE, TRUE)
            /\ indexed = CHOOSE some \in IndexWorlds.path : TRUE
            /\ cursor = <<>> /\ pages = <<>> /\ stable = {}
    /\ IF part = "documents" THEN NbtInit
       ELSE working = Document(AByte) /\ applied = 0 /\ patched = [at |-> "applying"]
    /\ IF part = "mixins" THEN MixinInit
       ELSE /\ mixin = MixinOf(<<>>, {}, FALSE) /\ pass = FirstPass("maven-first", FALSE)
            /\ stage = "resolve" /\ looked = <<>> /\ choice = None /\ earlier = None /\ given = None
    /\ IF part = "classes" THEN ReadingInit
       ELSE /\ subject = ClassOf(<<1>>, "mojang", "mojang", {}, "none", "none")
            /\ request = Done /\ responses = <<>>
    /\ IF part = "database" THEN DatabaseInit
       ELSE /\ current = 0 /\ created = 0
            /\ health = [f \in Databases |-> "good"] /\ schema = [f \in Databases |-> "latest"]
            /\ requests = {} /\ issued = 0 /\ known = {} /\ opener = [p \in Servers |-> Closed]
    /\ ContextInit
    /\ IF part = "tiny files" THEN TinyInit
       ELSE /\ published = 0 /\ tinies = {} /\ pruned = {} /\ yarnMarker = 0 /\ fresh = FALSE
            /\ resolver = [r \in Resolvers |-> Ready]
    /\ IF part = "inventory" THEN InventoryInit
       ELSE /\ shelf = <<>> /\ order = Want("list", "any", FALSE, 1) /\ errand = NoErrand
            /\ writes = 0 /\ altered = [since \in {"first page", "deletions"} |-> {}]
    /\ IF part = "projects" THEN ProjectInit
       ELSE /\ project = WorkspaceOf(0, "none", <<>>, <<>>, <<>>)
            /\ question = QuestionOf(0, "no", {}) /\ summary = NoSummary /\ edits = 0
    /\ IF part = "access" THEN AccessInit
       ELSE /\ home = [jars |-> {}, version |-> "v", loader |-> "fabric", vanilla |-> VanillaJar,
                        unmapped |-> {}]
            /\ access = FileOf("none", "none", <<>>) /\ probe = Unasked /\ builds = 0
            /\ demand = DemandOf("widener", "unset", FALSE, "unset", FALSE)

Others ==
    /\ IF part = "artifacts" THEN TRUE ELSE UNCHANGED cacheVars
    /\ IF part = "cascade" THEN TRUE ELSE UNCHANGED cascadeVars
    /\ IF part = "lookup" THEN TRUE ELSE UNCHANGED lookupVars
    /\ IF part = "calls" THEN TRUE ELSE UNCHANGED resolveVars
    /\ IF part = "searches" THEN TRUE ELSE UNCHANGED searchVars
    /\ IF part = "documents" THEN TRUE ELSE UNCHANGED nbtVars
    /\ IF part = "mixins" THEN TRUE ELSE UNCHANGED mixinVars
    /\ IF part = "classes" THEN TRUE ELSE UNCHANGED readingVars
    /\ IF part = "database" THEN TRUE ELSE UNCHANGED databaseVars
    /\ IF part = "context" THEN TRUE ELSE UNCHANGED contextVars
    /\ IF part = "tiny files" THEN TRUE ELSE UNCHANGED tinyVars
    /\ IF part = "inventory" THEN TRUE ELSE UNCHANGED inventoryVars
    /\ IF part = "projects" THEN TRUE ELSE UNCHANGED projectVars
    /\ IF part = "access" THEN TRUE ELSE UNCHANGED accessVars
    /\ IF part = "symbols" THEN TRUE ELSE UNCHANGED <<loaded, answer>>
    /\ IF part = "history" THEN TRUE ELSE UNCHANGED historyVars
    /\ IF part = "nested jars" THEN TRUE ELSE UNCHANGED nestedVars
    /\ IF part = "builds" THEN TRUE ELSE UNCHANGED buildVars

ResolutionNext ==
    /\ UNCHANGED part
    /\ \/ part = "artifacts" /\ CacheNext
       \/ part = "cascade" /\ CascadeNext
       \/ part = "lookup" /\ LookupNext
       \/ part = "calls" /\ ResolveNext
       \/ part = "searches" /\ SearchNext
       \/ part = "documents" /\ NbtNext
       \/ part = "mixins" /\ MixinNext
       \/ part = "classes" /\ ReadingNext
       \/ part = "database" /\ DatabaseNext
       \/ part = "context" /\ ContextNext
       \/ part = "tiny files" /\ TinyNext
       \/ part = "inventory" /\ InventoryNext
       \/ part = "projects" /\ ProjectNext
       \/ part = "access" /\ AccessNext
       \/ part = "symbols" /\ SymbolNext
       \/ part = "history" /\ HistoryNext
       \/ part = "nested jars" /\ NestedNext
       \/ part = "builds" /\ BuildNext
    /\ Others

ResolutionSpec == ResolutionInit /\ [][ResolutionNext]_resolutionVars

-----------------------------------------------------------------------------
ResolutionTypeOK ==
    /\ part = "artifacts" => ArtifactTypeOK
    /\ part = "cascade" => CascadeTypeOK
    /\ part = "lookup" => LookupTypeOK
    /\ part = "calls" => ResolveTypeOK
    /\ part = "searches" => SearchTypeOK
    /\ part = "documents" => NbtTypeOK
    /\ part = "mixins" => MixinTypeOK
    /\ part = "classes" => ReadingTypeOK
    /\ part = "database" => DatabaseTypeOK
    /\ part = "context" => ContextTypeOK
    /\ part = "tiny files" => TinyTypeOK
    /\ part = "inventory" => InventoryTypeOK
    /\ part = "projects" => ProjectTypeOK
    /\ part = "access" => AccessTypeOK
    /\ part = "symbols" => SymbolTypeOK
    /\ part = "history" => HistoryTypeOK
    /\ part = "nested jars" => NestedTypeOK
    /\ part = "builds" => BuildTypeOK

(* What is said of a name in another namespace, of a symbol's existence or of what
   became of it is so, or is told to be uncertain (findMapping, resolveMethodMappingExact,
   checkSymbolExists, getClassApiMatrix, traceSymbolLifecycle, diffClassSignatures,
   compareVersions). *)
NamesRight == LookupRight /\ SymbolsRight /\ HistoryRight

(* What the database and the byte count say of the artifacts is so and can be evicted, who
   joins an ingest or a remap gets what it made, and an artifact that was resolved is what
   it is labelled (ArtifactsRepo, CacheMetricsState, ingestIfNeeded,
   maybeRemapBinaryForMojang, resolveArtifact). *)
ArtifactsRight == TotalExact /\ RowsEvictable /\ JoinsRight /\ ResolutionRight

(* A jar is found where it is, and what was resolved is read line by line and member by
   member (resolveSourceTarget, getClassSource, getClassMembers). *)
SourcesRight == CascadeRight /\ ReadingRight

(* What is kept, and what is said to be kept, is so: the yarn marker does not vouch for
   what is not there (resolveTinyMappingFile), damage of the database that a server has met
   is not forgotten (openDatabase), a workspace context is what the files of its
   fingerprint say (WorkspaceContextCache), an inventory has every entry once, a deletion
   removes what it counts and nothing that replaced it (deleteEntries), and a jar that was
   extracted from the one that bundles it is whole, and a class is found in it
   (extractNestedJar, resolveUniqueNestedJarForClass). *)
StoredRight ==
    /\ MarkerBacked /\ DamageRemembered /\ ContextFresh
    /\ PagesComplete /\ CountedIsGone /\ ReplacementStays /\ NestedRight

(* A verdict on the files of a workspace rests on what was read of them, in jars that fit
   the question, and the counts and the status of a summary say no more; what is taken from
   its build is declared there, and what the bytecode is asked it answers
   (validateAccessWidener, validateAccessTransformer, handleProjectSummary,
   resolveWorkspaceSymbol, checkSymbolExists, detectDependencyVersion). *)
WorkspaceRight == AccessRight /\ ProjectRight /\ BuildRight

=============================================================================
