-------------------------- MODULE WorkspaceSymbols --------------------------
(***************************************************************************)
(* What the build of a workspace says (workspace-mapping-service.ts), and  *)
(* whether a symbol exists, by the mappings of the build or by the bytecode *)
(* of a version that is not obfuscated (resolveWorkspaceSymbol,            *)
(* checkSymbolExists, runUnobfuscatedRuntimeCheck). The files are read one  *)
(* after another, and may be edited in between.                            *)
(***************************************************************************)
EXTENDS Naturals, Sequences, FiniteSets

CONSTANTS BuildTrees,      \* what a workspace may hold: see BuildTree
          Runtimes,        \* what a version may ship: see Runtime
          SymbolQuestions, \* what may be asked: see SymbolQuestion
          MaxScriptEdits   \* edits of a workspace

VARIABLES tree,      \* the workspace
          runtime,   \* the version and its jar
          inquiry,   \* the call
          evidence,  \* of each script that was read, the mappings it declares
          edited     \* edits since the call began

buildVars == <<tree, runtime, inquiry, evidence, edited>>

(* scripts: the build scripts, with what they declare outside of comments. own and
   umbrella: the version that gradle.properties gives the module and its umbrella, cached:
   those in the cache of Gradle, poms: what each copy of the POM of the umbrella says.
   Version 0 is none, and one above 9 is a snapshot. *)
BuildTree ==
    [scripts : Seq([readable : BOOLEAN, declares : SUBSET {"mojang", "yarn"}]),
     own : Nat, umbrella : Nat, cached : SUBSET (Nat \ {0}), poms : Seq(Nat)]

(* Has the version names of its own, is its jar served, does the class load, and what has
   it; and what the graph of mappings answers. *)
Runtime ==
    [obfuscated : BOOLEAN, served : BOOLEAN, class : {"present", "missing", "broken"},
     fields : SUBSET STRING, methods : SUBSET [name : STRING, descriptor : Nat, own : BOOLEAN],
     graph : {"resolved", "ambiguous", "not_found", "mapping_unavailable"}]

SymbolQuestion ==
    [tool : {"check", "resolve", "dependency"}, label : {"mojang", "obfuscated", "yarn"},
     kind : {"class", "short class", "field", "method"}, name : STRING, descriptor : Nat,
     exact : BOOLEAN]

ASSUME BuildAssumption ==
    /\ \A t \in BuildTrees : t \in BuildTree /\ IsFiniteSet(t.cached)
    /\ \A r \in Runtimes : r \in Runtime
    /\ \A q \in SymbolQuestions : q \in SymbolQuestion
    /\ MaxScriptEdits \in Nat

NoInquiry == [at |-> "idle"]
InPlace(place) == inquiry.at = place

(* A workspace is edited while its files are read. *)
EditScripts ==
    /\ edited < MaxScriptEdits /\ inquiry.at \in {"scripts", "probe", "modules", "poms"}
    /\ tree' \in BuildTrees \ {tree} /\ edited' = edited + 1
    /\ UNCHANGED <<runtime, inquiry, evidence>>

AskSymbol(q) ==
    /\ InPlace("idle")
    /\ inquiry' = [at |-> CASE q.tool = "check" -> "graph" [] q.tool = "resolve" -> "scripts"
                            [] OTHER -> "properties",
                   asks |-> q, listed |-> DOMAIN tree.scripts]
    /\ UNCHANGED <<tree, runtime, evidence, edited>>

Reply(status, by) ==
    inquiry' = [at |-> "answered", asks |-> inquiry.asks, status |-> status, by |-> by]

-----------------------------------------------------------------------------
Readable == {i \in DOMAIN tree.scripts : tree.scripts[i].readable}

(* detectCompileMapping. A script that cannot be read declares nothing. *)
ReadScript(i) ==
    /\ InPlace("scripts") /\ i \in inquiry.listed \ DOMAIN evidence
    /\ evidence' = [j \in DOMAIN evidence \cup {i} |->
                       IF j # i THEN evidence[j]
                       ELSE IF i \in Readable THEN tree.scripts[i].declares ELSE {}]
    /\ UNCHANGED <<tree, runtime, inquiry, edited>>

Declared == UNION {evidence[i] : i \in DOMAIN evidence}

(* resolveWorkspaceSymbol, once the scripts are read. The mappings of a class that is not in
   the matrix are not told from mappings that were not loaded. *)
WeighEvidence ==
    /\ InPlace("scripts") /\ DOMAIN evidence = inquiry.listed
    /\ IF Declared = {} /\ ~runtime.obfuscated THEN inquiry' = [inquiry EXCEPT !.at = "probe"]
       ELSE IF Cardinality(Declared) # 1 THEN Reply("mapping_unavailable", "build")
       ELSE IF inquiry.asks.kind \in {"class", "short class"}
       THEN Reply(IF runtime.graph = "resolved" THEN "resolved" ELSE "not_found", "graph")
       ELSE Reply(runtime.graph, "graph")
    /\ UNCHANGED <<tree, runtime, evidence, edited>>

MutBuildThere == TRUE
(* hasReadableBuildScript *)
BuildThere == Readable # {}

ProbeScripts ==
    /\ InPlace("probe")
    /\ IF ~BuildThere THEN Reply("mapping_unavailable", "build")
       ELSE IF inquiry.asks.label = "yarn" THEN Reply("mapping_unavailable", "identity")
       ELSE inquiry' = [at |-> "runtime", asks |-> inquiry.asks, base |-> "not_found"]
    /\ UNCHANGED <<tree, runtime, evidence, edited>>

-----------------------------------------------------------------------------
MutRechecked(status) == status = "mapping_unavailable"
(* checkSymbolExists of source-service.ts: which answers of the graph are checked again *)
Rechecked(status) == status \in {"mapping_unavailable", "not_found"}

AskGraph ==
    /\ InPlace("graph")
    /\ IF Rechecked(runtime.graph) /\ ~runtime.obfuscated /\ inquiry.asks.label # "yarn"
       THEN inquiry' = [at |-> "runtime", asks |-> inquiry.asks, base |-> runtime.graph]
       ELSE Reply(runtime.graph, "graph")
    /\ UNCHANGED <<tree, runtime, evidence, edited>>

MutMethodsListed(q) == {m \in runtime.methods : m.own}
(* The methods of a signature: inherited ones are included, constructors are not. *)
MethodsListed(q) == {m \in runtime.methods : m.own \/ q.name # "init"}

MatchedMethods(q) ==
    {m \in MethodsListed(q) : m.name = q.name /\ (q.exact => m.descriptor = q.descriptor)}

CanVerify(q) == q.kind # "short class" /\ runtime.served /\ runtime.class # "broken"

(* runUnobfuscatedRuntimeCheck: what is not verified keeps the answer it had, and from
   resolveWorkspaceSymbol is no miss. *)
CheckRuntime ==
    LET q == inquiry.asks IN
    /\ InPlace("runtime")
    /\ IF ~CanVerify(q)
       THEN Reply(IF q.tool = "resolve" THEN "mapping_unavailable" ELSE inquiry.base, "nothing")
       ELSE IF runtime.class = "missing" THEN Reply(inquiry.base, "runtime")
       ELSE Reply(CASE q.kind = "class" -> "resolved"
                    [] q.kind = "field" -> IF q.name \in runtime.fields THEN "resolved" ELSE "not_found"
                    [] q.kind = "method" -> IF MatchedMethods(q) # {} THEN "resolved" ELSE "not_found",
                  "runtime")
    /\ UNCHANGED <<tree, runtime, evidence, edited>>

-----------------------------------------------------------------------------
(* detectDependencyVersion *)
Depends(version, from) ==
    inquiry' = [at |-> "answered", asks |-> inquiry.asks, version |-> version, from |-> from]

ReadProperties ==
    /\ InPlace("properties")
    /\ IF tree.own # 0 THEN Depends(tree.own, "properties")
       ELSE inquiry' = [at |-> "modules", asks |-> inquiry.asks, umbrella |-> tree.umbrella]
    /\ UNCHANGED <<tree, runtime, evidence, edited>>

ListModules ==
    LET candidates == {v \in tree.cached : v <= 9} IN
    /\ InPlace("modules")
    /\ IF Cardinality(candidates) = 1 THEN Depends(CHOOSE v \in candidates : TRUE, "cache")
       ELSE IF candidates = {} \/ inquiry.umbrella = 0 THEN Depends(0, "nothing")
       ELSE inquiry' = [at |-> "poms", asks |-> inquiry.asks, candidates |-> candidates, next |-> 1]
    /\ UNCHANGED <<tree, runtime, evidence, edited>>

MutAdopts(version, candidates) == TRUE
Adopts(version, candidates) == version \in candidates

(* adoptSubmoduleVersionFromUmbrellaPom. A copy that cannot be read or that does not name the
   module is passed over; the first that does is the last one read. *)
ReadPom ==
    /\ InPlace("poms")
    /\ IF inquiry.next > Len(tree.poms) THEN Depends(0, "nothing")
       ELSE IF tree.poms[inquiry.next] = 0 THEN inquiry' = [inquiry EXCEPT !.next = @ + 1]
       ELSE IF Adopts(tree.poms[inquiry.next], inquiry.candidates)
       THEN Depends(tree.poms[inquiry.next], "pom") ELSE Depends(0, "nothing")
    /\ UNCHANGED <<tree, runtime, evidence, edited>>

BuildInit ==
    /\ tree \in BuildTrees /\ runtime \in Runtimes
    /\ inquiry = NoInquiry /\ evidence = <<>> /\ edited = 0

BuildNext ==
    \/ \E q \in SymbolQuestions : AskSymbol(q)
    \/ \E i \in IF InPlace("scripts") THEN inquiry.listed ELSE {} : ReadScript(i)
    \/ WeighEvidence \/ ProbeScripts \/ AskGraph \/ CheckRuntime
    \/ ReadProperties \/ ListModules \/ ReadPom
    \/ EditScripts

BuildSpec == BuildInit /\ [][BuildNext]_buildVars

-----------------------------------------------------------------------------
BuildTypeOK ==
    /\ edited <= MaxScriptEdits
    /\ inquiry.at \in {"idle", "graph", "scripts", "probe", "runtime", "properties", "modules",
                       "poms", "answered"}

Ships(q) ==
    /\ runtime.class = "present"
    /\ q.kind = "field" => q.name \in runtime.fields
    /\ q.kind = "method" =>
          \E m \in runtime.methods :
             /\ m.name = q.name /\ (m.own \/ q.name # "init")
             /\ q.exact => m.descriptor = q.descriptor

SymbolReplied == InPlace("answered") /\ inquiry.asks.tool # "dependency"

(* What the bytecode is asked it answers in truth: a symbol resolved by it exists, and of a
   version that is not obfuscated no symbol of a jar that can be read is said to be missing
   (checkSymbolExists). A workspace is told that a symbol is missing only after a look at the
   jar that found it was (resolveUnobfuscatedWorkspaceSymbol). *)
RuntimeRight ==
    SymbolReplied =>
        LET q == inquiry.asks IN
        /\ inquiry.status = "resolved" /\ inquiry.by = "runtime" => Ships(q)
        /\ ~runtime.obfuscated /\ inquiry.by # "build" /\ q.label # "yarn" /\ CanVerify(q)
              /\ Ships(q) /\ (q.tool = "check" \/ inquiry.by = "runtime") =>
              inquiry.status # "not_found"
        /\ q.tool = "resolve" /\ inquiry.status = "not_found" /\ inquiry.by # "graph" =>
              ~Ships(q) /\ runtime.served /\ runtime.class # "broken"

(* A workspace is taken to compile against the names of the jar only if a build script is
   there; if none was edited meanwhile, none that can be read declares mappings, and what
   is resolved by mappings is so by the ones that all scripts agree on. *)
DetectionRight ==
    SymbolReplied /\ inquiry.asks.tool = "resolve" /\ edited = 0 =>
        /\ inquiry.by \in {"identity", "runtime", "nothing"} =>
              Readable # {} /\ \A i \in Readable : tree.scripts[i].declares = {}
        /\ inquiry.by = "graph" => Cardinality(UNION {tree.scripts[i].declares : i \in Readable}) = 1

(* A dependency has the version that the build gives it, or the only one in the cache, or the
   one of several that the POM of its umbrella names; it is never guessed and never that
   of the umbrella itself (detectDependencyVersion, adoptSubmoduleVersionFromUmbrellaPom). *)
DependencyRight ==
    InPlace("answered") /\ inquiry.asks.tool = "dependency" /\ edited = 0 =>
        LET releases == {v \in tree.cached : v <= 9} IN
        /\ inquiry.version # 0 /\ inquiry.version # tree.own =>
              /\ tree.own = 0 /\ inquiry.version \in releases
              /\ Cardinality(releases) > 1 =>
                    tree.umbrella # 0 /\ \E i \in DOMAIN tree.poms : tree.poms[i] = inquiry.version
        /\ inquiry.version = 0 /\ tree.own = 0 => Cardinality(releases) # 1

BuildRight == RuntimeRight /\ DetectionRight /\ DependencyRight

=============================================================================
