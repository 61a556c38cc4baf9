--------------------------- MODULE MappingLookup ---------------------------
(***************************************************************************)
(* The lookups of mapping-service.ts and mapping/lookup.ts: how a method   *)
(* written in one namespace is found in another one. A loaded graph has an *)
(* index for each pair of namespaces that a mapping file relates; a query  *)
(* walks along a shortest path of indexes and collects candidates, which   *)
(* findMapping reports and resolveMethodMappingExact filters.              *)
(***************************************************************************)
EXTENDS Integers, FiniteSets, Sequences, Functions

CONSTANT Mappings    \* the loaded mappings to look up in: see IsMapping

Namespaces == {"mojang", "obfuscated", "intermediary", "yarn"}

(* A class has in each namespace a name <<package, simple name>>; a method has an owner,
   a name in each namespace and parameters (0 for a primitive one, the number of a class,
   or a number that is no class's, for a class of the JDK), and may be missing in the
   tiny files. The tiny files are one of three columns, or one for each neighbouring two. *)
IsMapping(w) ==
    /\ \A c \in DOMAIN w.classes : DOMAIN w.classes[c] = Namespaces
    /\ \A m \in DOMAIN w.methods :
          /\ w.methods[m].owner \in DOMAIN w.classes /\ w.methods[m].parameters \in Seq(Nat)
          /\ DOMAIN w.methods[m].names = Namespaces /\ w.methods[m].tiny \in BOOLEAN
    /\ w.merged \in BOOLEAN

ASSUME LookupAssumption == \A w \in Mappings : IsMapping(w)

VARIABLES mapping,   \* the graph
          found      \* the last answer

lookupVars == <<mapping, found>>

NoDescriptor == <<<<>>>>
NoAnswer == [tool |-> "none"]

-----------------------------------------------------------------------------
(* createClassSymbolRecord, createMethodSymbolRecord: the symbol of a class is its
   name, that of a method its owner, name and descriptor. *)
ClassRecord(name) ==
    [kind |-> "class", owner |-> <<name[1]>>, name |-> name[2], descriptor |-> NoDescriptor]
ClassName(record) == <<record.owner[1], record.name>>

DescriptorIn(namespace, parameters) ==
    [i \in DOMAIN parameters |->
        IF parameters[i] \in DOMAIN mapping.classes THEN mapping.classes[parameters[i]][namespace]
        ELSE IF parameters[i] = 0 THEN <<"int">> ELSE <<"java.lang", "String">>]

MethodRecord(namespace, m, written) ==
    [kind |-> "method", owner |-> mapping.classes[m.owner][namespace],
     name |-> m.names[namespace], descriptor |-> DescriptorIn(written, m.parameters)]

(* The namespace in which the file of a pair writes the descriptors of one side:
   parseClientMappings writes each side's own, parseTinyMappingsInto the first column's. *)
Written(from, to, side) ==
    IF "mojang" \in {from, to} THEN side
    ELSE IF mapping.merged \/ "obfuscated" \in {from, to} THEN "obfuscated" ELSE "intermediary"

HasPair(merged, from, to) ==
    {from, to} \in {{"mojang", "obfuscated"}, {"obfuscated", "intermediary"},
                    {"intermediary", "yarn"}}
                   \cup IF merged THEN {{"obfuscated", "yarn"}} ELSE {}

(* addLookupEntries, for every row of the file *)
PairIndex(from, to) ==
    {<<ClassRecord(c[from]), ClassRecord(c[to])>> : c \in Range(mapping.classes)}
    \cup {<<MethodRecord(from, m, Written(from, to, from)), MethodRecord(to, m, Written(from, to, to))>> :
             m \in {m \in Range(mapping.methods) : m.tiny \/ "mojang" \in {from, to}}}

(* namespacePath: the shortest one, which is unique in these graphs *)
Paths == [merged \in BOOLEAN, ends \in Namespaces \X Namespaces |->
    LET Connected(p) == \A i \in 1 .. Len(p) - 1 : HasPair(merged, p[i], p[i + 1])
        Between(n) == {p \in [1 .. n -> Namespaces] :
                          p[1] = ends[1] /\ p[n] = ends[2] /\ Connected(p)}
        length == CHOOSE n \in 1 .. 4 :
                     Between(n) # {} /\ \A k \in 1 .. n - 1 : Between(k) = {}
    IN  CHOOSE p \in Between(length) : TRUE]

Path(from, to) == Paths[mapping.merged, <<from, to>>]

-----------------------------------------------------------------------------
(* MATCH_RANK and the confidences of lookupCandidates, in percent. A query without a
   descriptor is registered under the owner and name of every overload; with one, the
   overloads are a fallback; under a simple name everything of that name is filed. *)
Confidence == [exact |-> 100, normalized |-> 85, simple |-> 75]

How(query, from) ==
    IF from = query \/ (query.kind = "method" /\ query.descriptor = NoDescriptor
                        /\ from.owner = query.owner /\ from.name = query.name) THEN "exact"
    ELSE IF query.kind = "method" /\ from.owner = query.owner /\ from.name = query.name
    THEN "normalized" ELSE "simple"

Best(candidates) == {c \in candidates :
    \A d \in candidates : d.record = c.record =>
        \/ d.confidence < c.confidence
        \/ d.confidence = c.confidence /\ Confidence[d.how] <= Confidence[c.how]}

LookupCandidates(index, query) ==
    Best({[record |-> e[2], how |-> How(query, e[1]), confidence |-> Confidence[How(query, e[1])]] :
             e \in {e \in index : e[1].kind = query.kind /\ e[1].name = query.name}})

(* One hop of mapCandidatesAlongPath: how a candidate matched is how it did in this hop,
   its confidence is that of all hops. *)
Hop(candidates, from, to) ==
    Best(UNION {{[c EXCEPT !.confidence = @ * candidate.confidence] :
                    c \in LookupCandidates(PairIndex(from, to), candidate.record)} :
                 candidate \in candidates})

MapAlong(path, query) ==
    LET after[i \in 1 .. Len(path)] ==
            IF i = 1 THEN {[record |-> query, how |-> "exact", confidence |-> 1]}
            ELSE Hop(after[i - 1], path[i - 1], path[i])
    IN  after[Len(path)]

(* projectMethodDescriptorToTarget: a class that maps to none or to several stays. *)
Images(path, type) == MapAlong(path, ClassRecord(type))
Maps(path, type) == Len(type) = 2 /\ Cardinality(Images(path, type)) = 1

Projected(path, descriptor) ==
    [i \in DOMAIN descriptor |->
        IF Maps(path, descriptor[i])
        THEN ClassName((CHOOSE c \in Images(path, descriptor[i]) : TRUE).record)
        ELSE descriptor[i]]

IsComplete(path, descriptor) ==
    \A type \in Range(descriptor) : Len(type) = 2 => Maps(path, type)

(* acceptedDescriptorForms *)
AcceptedDescriptors(from, descriptor, strict) ==
    {descriptor, strict}
    \cup {Projected(Path(from, base), descriptor) : base \in {"obfuscated", "intermediary"} \ {from}}

(* acceptedOwnersAlongPath *)
MutAcceptedOwners(path, owner) ==
    {owner} \cup {ClassName(c.record) : c \in MapAlong(path, ClassRecord(owner))}

AcceptedOwners(path, owner) ==
    {owner} \cup {ClassName(c.record) :
                     c \in {c \in MapAlong(path, ClassRecord(owner)) : c.how # "simple"}}

(* What the strict filters keep. The descriptor that projectLookupCandidateDescriptor
   shows instead of the query's passes as the query's own does. *)
Kept(candidates, from, descriptor, strict) ==
    {c \in candidates : c.record.descriptor \in AcceptedDescriptors(from, descriptor, strict)}

Answered(tool, m, from, to, candidates, otherwise) ==
    /\ found' = [tool |-> tool, method |-> m, from |-> from, to |-> to,
                 symbols |-> {<<c.record.owner, c.record.name>> : c \in candidates},
                 status |-> IF Cardinality(candidates) = 1 THEN "resolved"
                            ELSE IF candidates # {} THEN "ambiguous" ELSE otherwise]
    /\ UNCHANGED mapping

(* resolveMethodMappingExact *)
ResolveExact(m, from, to) ==
    LET query == MethodRecord(from, m, from)
        path == Path(from, to)
        complete == IsComplete(path, query.descriptor)
        strict == IF complete THEN Projected(path, query.descriptor) ELSE query.descriptor
        owners == AcceptedOwners(path, query.owner)
    IN  Answered("exact", m, from, to,
                 {c \in Kept(MapAlong(path, query), from, query.descriptor, strict) :
                     c.record.owner \in owners},
                 IF complete THEN "not_found" ELSE "mapping_unavailable")

(* findMapping with a descriptor; the classes that can be are projected *)
FindExact(m, from, to) ==
    LET query == MethodRecord(from, m, from)
        path == Path(from, to)
    IN  Answered("find", m, from, to,
                 Kept(MapAlong(path, query), from, query.descriptor,
                      Projected(path, query.descriptor)), "not_found")

(* findMapping without one *)
FindByName(m, from, to) ==
    Answered("name", m, from, to,
             MapAlong(Path(from, to), [MethodRecord(from, m, from) EXCEPT !.descriptor = NoDescriptor]),
             "not_found")

LookupInit == mapping \in Mappings /\ found = NoAnswer

LookupNext ==
    \E m \in Range(mapping.methods), from, to \in Namespaces :
       /\ from # to /\ found = NoAnswer
       /\ ResolveExact(m, from, to) \/ FindExact(m, from, to) \/ FindByName(m, from, to)

LookupSpec == LookupInit /\ [][LookupNext]_lookupVars

-----------------------------------------------------------------------------
LookupTypeOK ==
    /\ IsMapping(mapping)
    /\ found # NoAnswer => found.status \in {"resolved", "ambiguous", "not_found", "mapping_unavailable"}

Image == <<mapping.classes[found.method.owner][found.to], found.method.names[found.to]>>

(* Is the method recorded all along the path? *)
OnPath == found.method.tiny \/ {found.from, found.to} = {"mojang", "obfuscated"}

(* Two classes with one simple name in a namespace of the path *)
SimpleNamesClash ==
    \E namespace \in Range(Path(found.from, found.to)) :
        \E c, d \in DOMAIN mapping.classes :
            c # d /\ mapping.classes[c][namespace][2] = mapping.classes[d][namespace][2]

OneHop == Len(Path(found.from, found.to)) = 2
InMapping == Range(found.method.parameters) \subseteq DOMAIN mapping.classes \cup {0}

(* Where every class has its simple name to itself, an exact resolution answers with
   the method that was asked for, whichever overloads, overrides and namesakes there are
   and in whichever namespace the files write descriptors; it answers whenever the path
   records the method, except that a descriptor with a class of the JDK is not compared in
   the namespace of Mojang. Over one hop it never answers with another method. What
   find-mapping reports has the method that was asked for among it. *)
LookupRight ==
    found # NoAnswer =>
       LET exact == found.tool = "exact"
           clear == ~SimpleNamesClash
       IN  /\ exact /\ found.status = "resolved" /\ (clear \/ OneHop) => found.symbols = {Image}
           /\ exact /\ OnPath /\ clear /\ (InMapping \/ found.to # "mojang") =>
                 found.status = "resolved"
           /\ ~exact /\ OnPath /\ (clear \/ found.tool = "name") => Image \in found.symbols

(* "Exact method resolution is owner-strict": what it answers with, and what it calls
   ambiguous, belongs to the class that was asked for (the warning of
   resolveMethodMappingExact and the comment before acceptedOwnersAlongPath). *)
OwnerStrict ==
    found # NoAnswer /\ found.tool = "exact" => \A s \in found.symbols : s[1] = Image[1]

=============================================================================
