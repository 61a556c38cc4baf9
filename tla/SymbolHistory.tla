--------------------------- MODULE SymbolHistory ---------------------------
(***************************************************************************)
(* What became of a class and its members from one version to another:     *)
(* trace-symbol-lifecycle, diff-class-signatures and compare-versions. The  *)
(* jars of most versions are obfuscated, each in its own way, and each      *)
(* lookup of a mapping, jar or registry may fail on its own.               *)
(***************************************************************************)
EXTENDS Naturals, Sequences, FiniteSets, SequencesExt

CONSTANTS Manifests,   \* the versions there are, oldest first: see Version
          Traces,      \* what may be traced: see Trace
          Diffs        \* what may be compared: see Difference

VARIABLES manifest,  \* the versions
          history    \* the last answer

historyVars == <<manifest, history>>

(* A version is named if it ships the names of Mojang, and has the class or not. Its members
   are [kind, name, descriptor, flags], and shipped[n] is the name n has in the jar. packaged:
   classes that keep their names, defaults: the others, under both names. registries: the
   entries of each. *)
Version ==
    [named : BOOLEAN, present : BOOLEAN, members : SUBSET [kind : {"method", "field"},
     name : STRING, descriptor : Nat, flags : Nat], shipped : [STRING -> STRING],
     packaged : SUBSET STRING, defaults : [STRING -> STRING], registries : [STRING -> SUBSET STRING]]

Trace == [form : {"method", "class-like"}, name : STRING, descriptor : Nat, from : Nat, to : Nat, cap : Nat]
Difference == [tool : {"signatures", "versions"}, from : Nat, to : Nat, filter : BOOLEAN,
               category : {"classes", "registry", "all"}]

NoHistory == [tool |-> "none"]
Outcomes == {"ok", "fails"}
AnyDescriptor == 0

-----------------------------------------------------------------------------
(* resolveManifestRange: 0 is a version that is not listed *)
InRange(from, to) == from \in 1 .. to /\ to \in 1 .. Len(manifest)

ScannedRange(t) == t.from + (IF t.to - t.from + 1 > t.cap THEN t.to - t.from + 1 - t.cap ELSE 0) .. t.to

Overloads(v, name, descriptor) ==
    {m \in v.members : m.kind = "method" /\ m.name = name /\ descriptor \in {AnyDescriptor, m.descriptor}}

(* resolveToObfuscatedMemberName: the name and descriptor to look for; a name that does not
   map to one method stays, with a warning. *)
Sought(v, t, mapped) ==
    LET meant == IF v.present THEN Overloads(v, t.name, t.descriptor) ELSE {}
    IN  IF v.named THEN [name |-> t.name, descriptor |-> t.descriptor, told |-> FALSE]
        ELSE IF mapped = "ok" /\ Cardinality(meant) = 1
             THEN [name |-> v.shipped[t.name], told |-> FALSE,
                   descriptor |-> (CHOOSE m \in meant : TRUE).descriptor]
             ELSE [name |-> t.name, descriptor |-> t.descriptor, told |-> TRUE]

Entry(exists, determinate, told) == [exists |-> exists, determinate |-> determinate, told |-> told]

(* The scan of one version. A class whose name does not map is looked for under the name it
   has, which an obfuscated jar does not have. *)
Scan(v, t, o) ==
    LET sought == Sought(v, t, o.member)
        mapped == v.named \/ (v.present /\ o.class = "ok")
    IN  IF o.jar = "fails" THEN Entry(FALSE, FALSE, TRUE)
        ELSE IF ~v.present \/ ~mapped THEN Entry(FALSE, TRUE, ~mapped \/ sought.told)
        ELSE Entry(\E m \in v.members :
                       /\ m.kind = "method" /\ v.shipped[m.name] = sought.name
                       /\ sought.descriptor \in {AnyDescriptor, m.descriptor},
                   TRUE, sought.told)

Traced(t, entries) ==
    LET present == {v \in DOMAIN entries : entries[v].determinate /\ entries[v].exists}
        absent == {v \in DOMAIN entries : entries[v].determinate /\ ~entries[v].exists}
    IN  [tool |-> "trace", asks |-> t, entries |-> entries, present |-> present,
         missing |-> {v \in absent : \E p, q \in present : p < v /\ v < q},
         existsNow |-> t.to \in present,
         told |-> ~entries[t.to].determinate \/ \E v \in DOMAIN entries : entries[v].told]

TraceSymbol(t) ==
    /\ history = NoHistory
    /\ IF t.form # "method" \/ ~InRange(t.from, t.to) THEN history' = [tool |-> "threw"]
       ELSE \E outcomes \in [ScannedRange(t) -> [class : Outcomes, member : Outcomes, jar : Outcomes]] :
               history' = Traced(t, [v \in ScannedRange(t) |-> Scan(manifest[v], t, outcomes[v])])
    /\ UNCHANGED manifest

-----------------------------------------------------------------------------
(* diff-class-signatures: members are matched by the names of the jars and shown in those
   of Mojang. *)
ShippedAs(v, m) == [m EXCEPT !.name = v.shipped[m.name]]
KeyOf(m) == IF m.kind = "field" THEN <<m.kind, m.name>> ELSE <<m.kind, m.name, m.descriptor>>

MutChanged(x, y) == x.flags # y.flags
Changed(x, y) == x.flags # y.flags \/ (x.kind = "field" /\ x.descriptor # y.descriptor)

(* diffMembersByKey over the members of two versions *)
Delta(v, w) ==
    LET Meets(m, n) == KeyOf(ShippedAs(v, m)) = KeyOf(ShippedAs(w, n))
    IN  [added |-> {n \in w.members : ~\E m \in v.members : Meets(m, n)},
         removed |-> {m \in v.members : ~\E n \in w.members : Meets(m, n)},
         modified |-> {p \in v.members \X w.members :
                            Meets(p[1], p[2]) /\ Changed(p[1], p[2])}]

NoMembers(v) == [v EXCEPT !.members = {}]

DiffSignatures(d) ==
    /\ history = NoHistory /\ d.tool = "signatures"
    /\ IF ~InRange(d.from, d.to) THEN history' = [tool |-> "threw"]
       ELSE \E jars, remaps \in Outcomes, maps \in [{d.from, d.to} -> Outcomes] :
            LET Found(v) == manifest[v].present /\ (manifest[v].named \/ maps[v] = "ok")
                Side(v) == IF Found(v) THEN manifest[v] ELSE NoMembers(manifest[v])
            IN  history' =
                  IF jars = "fails" THEN [tool |-> "threw"]
                  ELSE [tool |-> "signatures", asks |-> d, delta |-> Delta(Side(d.from), Side(d.to)),
                        change |-> <<Found(d.from), Found(d.to)>>,
                        told |-> \/ \E v \in {d.from, d.to} : ~manifest[v].named
                                       /\ (~manifest[v].present \/ maps[v] # "ok" \/ remaps # "ok")
                                 \/ ~Found(d.from) /\ ~Found(d.to)]
    /\ UNCHANGED manifest

-----------------------------------------------------------------------------
(* compare-versions. A jar looks obfuscated if a quarter of its classes are in no package. *)
JarClasses(v) == v.packaged \cup (IF v.named THEN DOMAIN v.defaults ELSE Range(v.defaults))
LooksObfuscated(v) == ~v.named /\ Cardinality(DOMAIN v.defaults) * 4 >= Cardinality(JarClasses(v))
                      /\ DOMAIN v.defaults # {}

MojangClasses(v) == v.packaged \cup DOMAIN v.defaults
(* toMojangNames *)
Lifted(v, map) == LooksObfuscated(v) => map = "ok"

MutNamespace(v, w, maps) == IF Lifted(v, maps[1]) \/ Lifted(w, maps[2]) THEN "mojang" ELSE "obfuscated"
NamespaceOf(v, w, maps) == IF Lifted(v, maps[1]) /\ Lifted(w, maps[2]) THEN "mojang" ELSE "obfuscated"

Compared(v, map, namespace) ==
    IF namespace = "mojang" /\ LooksObfuscated(v) /\ map = "ok" THEN MojangClasses(v) ELSE JarClasses(v)

(* filterByPackage: a prefix of the game's packages, which an obfuscated name has not *)
Filtered(v, classes, filter) == IF filter THEN classes \cap DOMAIN v.defaults ELSE classes

ClassDiff(d, maps) ==
    LET v == manifest[d.from] w == manifest[d.to]
        namespace == NamespaceOf(v, w, maps)
        before == Filtered(v, Compared(v, maps[1], namespace), d.filter)
        after == Filtered(w, Compared(w, maps[2], namespace), d.filter)
    IN  [namespace |-> namespace, added |-> after \ before, removed |-> before \ after,
         told |-> namespace = "obfuscated",
         otherScheme |-> namespace = "obfuscated" /\ LooksObfuscated(v) # LooksObfuscated(w),
         matched |-> ~(d.filter /\ before = {} /\ after = {})]

(* diffRegistries; an empty registry that comes or goes is no change. *)
EntriesOf(v, r) == IF r \in DOMAIN v.registries THEN v.registries[r] ELSE {}
RegistryDiff(d) ==
    LET v == manifest[d.from] w == manifest[d.to]
        all == DOMAIN v.registries \cup DOMAIN w.registries
    IN  [come |-> DOMAIN w.registries \ DOMAIN v.registries,
         gone |-> DOMAIN v.registries \ DOMAIN w.registries,
         added |-> [r \in all |-> EntriesOf(w, r) \ EntriesOf(v, r)],
         removed |-> [r \in all |-> EntriesOf(v, r) \ EntriesOf(w, r)],
         changed |-> Cardinality({r \in all : EntriesOf(v, r) # EntriesOf(w, r)})]

CompareVersions(d) ==
    /\ history = NoHistory /\ d.tool = "versions"
    /\ \E jars, registry \in Outcomes, maps \in [{1, 2} -> Outcomes] :
          LET ofClasses == d.category # "registry"
              ofRegistry == d.category # "classes"
          IN  history' =
                IF \/ ofClasses /\ jars = "fails"
                   \/ ~ofClasses /\ registry = "fails"
                   \/ ~({d.from, d.to} \subseteq 1 .. Len(manifest))
                THEN [tool |-> "threw"]
                ELSE [tool |-> "versions", asks |-> d,
                      classes |-> IF ofClasses THEN <<ClassDiff(d, maps)>> ELSE <<>>,
                      registry |-> IF ofRegistry /\ registry = "ok" THEN <<RegistryDiff(d)>> ELSE <<>>,
                      told |-> ofRegistry /\ registry = "fails"]
    /\ UNCHANGED manifest

HistoryInit == manifest \in Manifests /\ history = NoHistory

HistoryNext ==
    \/ \E t \in Traces : TraceSymbol(t)
    \/ \E d \in Diffs : DiffSignatures(d) \/ CompareVersions(d)

HistorySpec == HistoryInit /\ [][HistoryNext]_historyVars

-----------------------------------------------------------------------------
HistoryTypeOK == history.tool \in {"none", "threw", "trace", "signatures", "versions"}

Exists(v, t) == manifest[v].present /\ Overloads(manifest[v], t.name, t.descriptor) # {}

(* A version that is said to have the method has it. One that is said not to, before the
   first, between the first and the last or now, has it not, or the answer is told to
   rest on a lookup that failed (traceSymbolLifecycle). *)
TraceRight ==
    history.tool = "trace" =>
        LET t == history.asks IN
        /\ \A v \in history.present : Exists(v, t)
        /\ \A v \in DOMAIN history.entries \ history.present :
              Exists(v, t) => history.entries[v].told /\ history.told
        /\ history.missing \cap history.present = {}
        /\ history.existsNow => Exists(t.to, t)

(* Between two versions that ship the names of Mojang a difference of a class is what it
   is in truth: what came, what went, and what stayed with other flags or another
   type. In every case what is said to come is declared by the later one and what is
   said to go by the earlier (diffClassSignatures). *)
DeltaRight ==
    history.tool = "signatures" =>
        LET v == manifest[history.asks.from] w == manifest[history.asks.to] delta == history.delta
            Same(m, n) == KeyOf(m) = KeyOf(n)
        IN  /\ delta.added \subseteq w.members /\ delta.removed \subseteq v.members
            /\ v.named /\ w.named /\ v.present /\ w.present =>
                  /\ \A n \in w.members : n \in delta.added <=> ~\E m \in v.members : Same(m, n)
                  /\ \A m \in v.members, n \in w.members :
                        Same(m, n) /\ m # n => <<m, n>> \in delta.modified
                  /\ ~history.told

(* Classes are compared in one namespace. In the names of Mojang what is said to come and go
   does; and two versions that differ are said to, unless the answer tells that it had to
   keep to the names of the jars or that nothing matched the filter. Only a jar few of
   whose classes are obfuscated passes for one that is not (compareVersions,
   looksObfuscated). *)
CompareRight ==
    history.tool = "versions" =>
        LET v == manifest[history.asks.from]
            w == manifest[history.asks.to]
            InNames(x) == Filtered(x, MojangClasses(x), history.asks.filter)
        IN  \A diff \in Range(history.classes) :
                (\A x \in {v, w} : x.named \/ LooksObfuscated(x)) /\ ~diff.told =>
                    /\ diff.added = InNames(w) \ InNames(v)
                    /\ diff.removed = InNames(v) \ InNames(w)
                    /\ ~diff.matched => InNames(v) = {} /\ InNames(w) = {}

HistoryRight == TraceRight /\ DeltaRight /\ CompareRight

=============================================================================
