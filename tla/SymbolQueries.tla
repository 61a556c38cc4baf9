--------------------------- MODULE SymbolQueries ---------------------------
(***************************************************************************)
(* checkSymbolExists and getClassApiMatrix of mapping-service.ts: what a   *)
(* graph of mappings says of one namespace, and of a class in all four.     *)
(* The records of a namespace are those of every file it is written in,     *)
(* which may write the descriptors of a method differently.                *)
(***************************************************************************)
EXTENDS MappingLookup, SequencesExt

CONSTANTS Loads,       \* which of {"mojang", "tiny"} the graph was loaded from
          RowLimits    \* maxRows

VARIABLES loaded,   \* the sources of the graph
          answer    \* of the last query

symbolVars == <<mapping, found, loaded, answer>>

NotAsked == [tool |-> "none"]

-----------------------------------------------------------------------------
(* "obfuscated-mojang-only" of a check in the namespace of Mojang: the tiny files are
   not loaded. *)
PairSource(from, to) == IF "mojang" \in {from, to} THEN "mojang" ELSE "tiny"
Connected(from, to) == HasPair(mapping.merged, from, to) /\ PairSource(from, to) \in loaded
Reaches(from, to) ==
    LET path == Path(from, to)
    IN  \A i \in 1 .. Len(path) - 1 : Connected(path[i], path[i + 1])

MutRecordsIn(namespace) ==
    UNION {{e[1] : e \in PairIndex(other, namespace)} :
              other \in {n \in Namespaces : Connected(n, namespace)}}
(* buildTargetRecordIndex *)
RecordsIn(namespace) ==
    UNION {{e[2] : e \in PairIndex(other, namespace)} :
              other \in {n \in Namespaces : Connected(n, namespace)}}

-----------------------------------------------------------------------------
(* The exact index: a class under its name and its simple name, a method under its owner
   and name. *)
ClassesNamed(records, name) == {r \in records : r.kind = "class" /\ ClassName(r) = name}
ClassesCalled(records, simple) == {r \in records : r.kind = "class" /\ r.name = simple}
MethodsNamed(records, owner, name) ==
    {r \in records : r.kind = "method" /\ r.owner = owner /\ r.name = name}

MutDescriptorForms(from, descriptor) == {descriptor}
(* acceptedDescriptorForms, of what the graph reaches *)
DescriptorForms(from, descriptor) ==
    {descriptor} \cup {Projected(Path(from, base), descriptor) :
                          base \in {b \in {"obfuscated", "intermediary"} \ {from} : Reaches(from, b)}}

Matched(records, from, query) ==
    CASE query.kind = "class" -> ClassesNamed(records, query.owner)
      [] query.kind = "short class" -> ClassesCalled(records, query.name)
      [] query.kind = "name" -> MethodsNamed(records, query.owner, query.name)
      [] query.kind = "exact" -> {r \in MethodsNamed(records, query.owner, query.name) :
                                     r.descriptor \in DescriptorForms(from, query.descriptor)}

CheckSymbol(from, query) ==
    LET records == RecordsIn(from)
        matched == Matched(records, from, query)
    IN  /\ answer = NotAsked
        /\ answer' = [tool |-> "check", from |-> from, query |-> query,
                      status |-> IF records = {} THEN "mapping_unavailable"
                                 ELSE IF Cardinality(matched) = 1 THEN "resolved"
                                 ELSE IF matched # {} THEN "ambiguous" ELSE "not_found"]
        /\ UNCHANGED <<mapping, found, loaded>>

-----------------------------------------------------------------------------
(* mapRecordBetweenMappings. Of the candidates the best comes first; which of equals, by
   the order of their symbols, is left open. *)
Mapped(from, to, record) ==
    IF ~Reaches(from, to) THEN {}
    ELSE LET all == MapAlong(Path(from, to), record)
             alike == {c \in all : c.record.descriptor = record.descriptor}
         IN  IF record.kind = "method" /\ alike # {} THEN alike ELSE all

Firsts(candidates) ==
    {c.record : c \in {c \in candidates :
        \A d \in candidates :
            \/ d.confidence < c.confidence
            \/ d.confidence = c.confidence /\ Confidence[d.how] <= Confidence[c.how]}}

(* classByMapping: what the class may be called in a namespace, its own name in the base *)
Identity(base, class, to) ==
    IF to = base THEN {ClassRecord(class)} ELSE Firsts(Mapped(base, to, ClassRecord(class)))

MutInClass(candidates, record, identity) == candidates
InClass(candidates, record, identity) ==
    IF record.kind = "class" \/ identity = {} THEN candidates
    ELSE {c \in candidates : \E r \in identity : c.record.owner = ClassName(r)}

(* The entry of a row in a namespace: what it may show, and whether it is told to be
   ambiguous. *)
EntryIn(base, class, record, to) ==
    IF to = base THEN [shows |-> {record}, told |-> FALSE]
    ELSE LET candidates == InClass(Mapped(base, to, record), record, Identity(base, class, to))
         IN  [shows |-> Firsts(candidates), told |-> Cardinality(candidates) > 1]

RowOf(base, class, record) ==
    LET entries == [to \in Namespaces |-> EntryIn(base, class, record, to)]
    IN  [base |-> record, entries |-> entries,
         complete |-> \A to \in Namespaces : entries[to].shows # {}]

(* The rows of a class in one order, whichever page is asked for. *)
BaseRecords(base, class) ==
    LET records == RecordsIn(base)
    IN  SetToSeq(ClassesNamed(records, class)) \o
        SetToSeq({r \in records : r.kind = "method" /\ r.owner = class})

(* A page begins where its cursor says, if that is one of this query. *)
Page0(base, class, limit, offset, earlier, ignored) ==
    LET all == BaseRecords(base, class)
        consumed == Min({offset + limit, Len(all)})
    IN  /\ answer' = [tool |-> "matrix", base |-> base, class |-> class, limit |-> limit,
                      rows |-> {RowOf(base, class, all[i]) : i \in offset + 1 .. consumed},
                      read |-> earlier \o SubSeq(all, offset + 1, consumed),
                      next |-> consumed, more |-> consumed < Len(all), ignored |-> ignored]
        /\ UNCHANGED <<mapping, found, loaded>>

ClassMatrix(base, class, limit) ==
    answer = NotAsked /\ Page0(base, class, limit, 0, <<>>, FALSE)

MutContinues(class) == TRUE
Continues(class) == class = answer.class

NextRows(class) ==
    /\ answer.tool = "matrix" /\ answer.more
    /\ Page0(answer.base, class, answer.limit,
             IF Continues(class) THEN answer.next ELSE 0,
             IF Continues(class) THEN answer.read ELSE <<>>, ~Continues(class))

-----------------------------------------------------------------------------
(* What may be asked: any class and method, of any owner and with any descriptor. *)
NamesIn(from) == {c[from] : c \in Range(mapping.classes)}
Queries(from) ==
    [kind : {"class"}, owner : NamesIn(from)]
    \cup [kind : {"short class"}, name : {name[2] : name \in NamesIn(from)}]
    \cup [kind : {"name"}, owner : NamesIn(from), name : {m.names[from] : m \in Range(mapping.methods)}]
    \cup [kind : {"exact"}, owner : NamesIn(from), name : {m.names[from] : m \in Range(mapping.methods)},
          descriptor : {DescriptorIn(from, m.parameters) : m \in Range(mapping.methods)}]

SymbolInit ==
    /\ mapping \in Mappings /\ loaded \in Loads
    /\ found = NoAnswer /\ answer = NotAsked

SymbolNext ==
    \E namespace \in Namespaces :
       \/ \E query \in Queries(namespace) : CheckSymbol(namespace, query)
       \/ \E class \in NamesIn(namespace), limit \in RowLimits : ClassMatrix(namespace, class, limit)
       \/ \E class \in NamesIn(namespace) : answer.tool = "matrix" /\ answer.base = namespace /\ NextRows(class)

SymbolSpec == SymbolInit /\ [][SymbolNext]_symbolVars

-----------------------------------------------------------------------------
SymbolTypeOK ==
    /\ loaded \subseteq {"mojang", "tiny"}
    /\ answer.tool = "check" =>
          answer.status \in {"resolved", "ambiguous", "not_found", "mapping_unavailable"}

RecordedIn(m, namespace) ==
    \/ "mojang" \in loaded /\ namespace \in {"mojang", "obfuscated"}
    \/ "tiny" \in loaded /\ m.tiny /\ namespace # "mojang"

(* The methods a query asks for. *)
AskedMethods(from, query) ==
    {m \in Range(mapping.methods) :
        /\ RecordedIn(m, from) /\ m.names[from] = query.name
        /\ mapping.classes[m.owner][from] = query.owner
        /\ query.kind = "exact" => DescriptorIn(from, m.parameters) = query.descriptor}

(* Two classes of one simple name keep a descriptor from being projected. *)
Clash == \E namespace \in Namespaces : \E c, d \in DOMAIN mapping.classes :
            c # d /\ mapping.classes[c][namespace][2] = mapping.classes[d][namespace][2]

(* Is a method written in one way in a namespace? Not in intermediary, if one file writes
   the classes of a descriptor obfuscated and the other one does not. *)
WrittenOnce(m, namespace) ==
    \/ mapping.merged \/ namespace # "intermediary"
    \/ Range(m.parameters) \cap DOMAIN mapping.classes = {}

(* A symbol is said to exist if it does, and not to exist if it does not: a method
   resolves if it is the only one that was meant, is ambiguous if it is not, and is
   not found if there is none, in whatever namespace the files write descriptors
   (checkSymbolExists). *)
ChecksRight ==
    answer.tool = "check" /\ answer.status # "mapping_unavailable" /\ answer.query.kind \in {"name", "exact"} =>
        LET meant == AskedMethods(answer.from, answer.query) IN
        /\ answer.status = "resolved" => Cardinality(meant) = 1
        /\ answer.status = "ambiguous" =>
              Cardinality(meant) > 1 \/ \E m \in meant : ~WrittenOnce(m, answer.from)
        /\ answer.status = "not_found" => meant = {} \/ (answer.query.kind = "exact" /\ Clash)

MethodsBehind(row, base) ==
    {m \in Range(mapping.methods) : row.base \in {MethodRecord(base, m, ns) : ns \in Namespaces}}

OnTheWay(m, from, to) == \A namespace \in Range(Path(from, to)) : RecordedIn(m, namespace)

(* A row of a class is one method of the class in every namespace that it is recorded up to,
   or is told to be ambiguous; of one that is not, an overload may stand in. Pages of rows
   have every one once, and a cursor of another class starts anew and says so
   (getClassApiMatrix). *)
MatrixRight ==
    answer.tool = "matrix" =>
        /\ \A row \in {r \in answer.rows : r.base.kind = "method"} : \A to \in Namespaces :
              LET entry == row.entries[to] IN
              \A m \in MethodsBehind(row, answer.base) :
                 /\ OnTheWay(m, answer.base, to) /\ Reaches(answer.base, to) =>
                       /\ entry.shows # {}
                       /\ entry.told \/ entry.shows = {r \in entry.shows : r.name = m.names[to]}
                 /\ \A r \in entry.shows : r.owner = mapping.classes[m.owner][to]
        /\ Cardinality(Range(answer.read)) = Len(answer.read)
        /\ ~answer.more => Range(answer.read) = Range(BaseRecords(answer.base, answer.class))

SymbolsRight == ChecksRight /\ MatrixRight

=============================================================================
