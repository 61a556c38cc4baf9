---------------------------- MODULE NbtDocuments ----------------------------
(***************************************************************************)
(* The NBT tools: when a typed document is well formed (typed-json.ts), the *)
(* patches that are applied to it (json-patch.ts), which check after each  *)
(* operation only the node that encloses it, and the stream it is written  *)
(* to and read from (java-nbt-codec.ts).                                    *)
(*                                                                         *)
(* A JSON value is the function from the paths that exist in it to what is *)
(* there: an object, an array or a scalar.                                 *)
(***************************************************************************)
EXTENDS Integers, Sequences, FiniteSets, SequencesExt

CONSTANTS Documents,   \* the typed documents a call may be made with
          PatchOps,    \* the operations of a patch: add, remove, replace, test
          MaxPatch     \* how many operations a patch has

VARIABLES working, \* the document as it is after the operations so far
          applied, \* how many there were
          patched  \* how the call stands, with the operation that was refused

nbtVars == <<working, applied, patched>>

Obj == "{}"
Arr == "[]"
\* The tokens of the elements, and the lengths: enough for what MaxPatch additions make.
Token == <<"0", "1", "2", "3", "4", "5">>
Position(token) == CHOOSE i \in 1 .. Len(Token) : Token[i] = token

(* The scalars: numbers, of which the second is no byte and the third no integer and beyond
   a float, and strings. *)
Integral == {"#5", "#300"}
Numbers == Integral \cup {"#1e300"}
Floats == Numbers \cup {"NaN", "Infinity"}
Scalars ==
    [byte |-> {"#5"}, short |-> Integral, int |-> Integral, long |-> {"5", "0", "-0"},
     float |-> Floats, double |-> Floats]
Elements == [byteArray |-> Scalars.byte, intArray |-> Scalars.int, longArray |-> Scalars.long]
NodeTypes == DOMAIN Scalars \cup DOMAIN Elements \cup {"string", "list", "compound"}

PathsIn(doc) == DOMAIN doc
Children(doc, p) == {q \in PathsIn(doc) : Len(q) = Len(p) + 1 /\ IsPrefix(p, q)}
Tag(doc, p) == IF p \o <<"type">> \in PathsIn(doc) THEN doc[p \o <<"type">>] ELSE "none"
ElementTag(doc, p) ==
    IF p \o <<"elementType">> \in PathsIn(doc) THEN doc[p \o <<"elementType">>] ELSE "none"

-----------------------------------------------------------------------------
(* validateNode, for the node alone. *)
WellFormed(doc, p) ==
    LET tag == Tag(doc, p)
        v == p \o <<"value">>
    IN  /\ doc[p] = Obj /\ tag \in NodeTypes /\ v \in PathsIn(doc)
        /\ tag \in DOMAIN Scalars => doc[v] \in Scalars[tag]
        /\ tag = "string" => doc[v] \notin Numbers \cup {Obj, Arr}
        /\ tag \in DOMAIN Elements =>
               doc[v] = Arr /\ \A c \in Children(doc, v) : doc[c] \in Elements[tag]
        /\ tag = "compound" => doc[v] = Obj
        /\ tag = "list" =>
               /\ doc[v] = Arr /\ ElementTag(doc, p) \in NodeTypes \cup {"end"}
               /\ \A c \in Children(doc, v) : Tag(doc, c) = ElementTag(doc, p)

(* The nodes from p down: what the lists and the compounds hold. *)
NodesFrom(doc, p) ==
    {q \in PathsIn(doc) :
        /\ IsPrefix(p, q) /\ (Len(q) - Len(p)) % 2 = 0
        /\ \A i \in Len(p) .. Len(q) - 1 : (i - Len(p)) % 2 = 0 =>
               q[i + 1] = "value" /\ Tag(doc, SubSeq(q, 1, i)) \in {"list", "compound"}}

ValidNode(doc, p) == \A q \in NodesFrom(doc, p) : WellFormed(doc, q)

(* validateTypedNbtDocument *)
ValidDocument(doc) ==
    /\ doc[<<>>] = Obj
    /\ <<"rootName">> \in PathsIn(doc) /\ doc[<<"rootName">>] \notin Numbers \cup {Obj, Arr}
    /\ <<"root">> \in PathsIn(doc) /\ ValidNode(doc, <<"root">>)

-----------------------------------------------------------------------------
(* The edits of a JSON value. *)
Cut(doc, p) == [q \in {x \in PathsIn(doc) : ~IsPrefix(p, x)} |-> doc[q]]

Subtree(doc, p) ==
    [q \in {SubSeq(x, Len(p) + 1, Len(x)) : x \in {y \in PathsIn(doc) : IsPrefix(p, y)}} |-> doc[p \o q]]

With(doc, p, value) ==
    LET kept == Cut(doc, p)
        put == {p \o q : q \in DOMAIN value}
    IN  [q \in PathsIn(kept) \cup put |->
            IF q \in put THEN value[SubSeq(q, Len(p) + 1, Len(q))] ELSE kept[q]]

(* The elements of the array a from the position i on move by one. *)
Moved(doc, a, i, by) ==
    LET at == Len(a) + 1
        Renamed(q) == IF IsStrictPrefix(a, q) /\ Position(q[at]) >= i
                      THEN [q EXCEPT ![at] = Token[Position(@) + by]] ELSE q
    IN  [p \in {Renamed(q) : q \in PathsIn(doc)} |-> doc[CHOOSE q \in PathsIn(doc) : Renamed(q) = p]]

(* resolveParent and parseArrayIndex: where an operation may be applied *)
Parent(op) == Front(op.path)
Length(doc, a) == Cardinality(Children(doc, a))
Slot(doc, op) == IF Last(op.path) = "-" THEN Length(doc, Parent(op)) + 1 ELSE Position(Last(op.path))

Applicable(doc, op) ==
    IF op.path = <<>> THEN op.op # "remove" /\ (op.op = "test" => doc = op.value)
    ELSE CASE op.op = "test" -> op.path \in PathsIn(doc) /\ Subtree(doc, op.path) = op.value
           [] op.op \in {"remove", "replace"} -> op.path \in PathsIn(doc)
           [] op.op = "add" ->
                  /\ Parent(op) \in PathsIn(doc) /\ doc[Parent(op)] \in {Obj, Arr}
                  /\ doc[Parent(op)] = Arr =>
                         /\ Last(op.path) \in Range(Token) \cup {"-"}
                         /\ Slot(doc, op) <= Length(doc, Parent(op)) + 1

Edited(doc, op) ==
    LET array == op.path # <<>> /\ doc[Parent(op)] = Arr
        at == Append(Parent(op), Token[Slot(doc, op)])
    IN  CASE op.op = "test" -> doc
          [] op.path = <<>> -> op.value
          [] op.op = "replace" \/ (op.op = "add" /\ ~array) -> With(doc, op.path, op.value)
          [] op.op = "add" /\ array -> With(Moved(doc, Parent(op), Slot(doc, op), 1), at, op.value)
          [] op.op = "remove" /\ ~array -> Cut(doc, op.path)
          [] op.op = "remove" /\ array ->
                 Moved(Cut(doc, op.path), Parent(op), Slot(doc, op) + 1, 0 - 1)

(* The innermost typed node on the way to the parent, if there is one: what is checked
   after the operation (assertTypedNbtInvariant). *)
Typed(doc, p) == doc[p] = Obj /\ Tag(doc, p) \notin Numbers \cup {Obj, Arr, "none"}

Enclosing(doc, op) ==
    LET ways == {SubSeq(op.path, 1, n) : n \in 1 .. Len(op.path) - 1}
        nodes == {p \in ways : Typed(doc, p)}
    IN  {p \in nodes : \A q \in nodes : Len(q) <= Len(p)}

StaysValid(doc, op) ==
    LET after == Edited(doc, op)
        enclosing == IF op.path = <<>> THEN {} ELSE Enclosing(doc, op)
    IN  \/ op.op = "test"
        \/ IF enclosing = {} THEN ValidDocument(after) ELSE \A p \in enclosing : ValidNode(after, p)

-----------------------------------------------------------------------------
(* applyJsonPatch, on a copy of the document *)
NbtInit ==
    working \in Documents /\ applied = 0 /\ patched = [at |-> "applying"]

(* One operation. A conflict ends the call, and nothing of it is returned. *)
ApplyOp(op) ==
    /\ patched.at = "applying" /\ applied < MaxPatch
    /\ IF Applicable(working, op) /\ StaysValid(working, op)
       THEN working' = Edited(working, op) /\ UNCHANGED patched
       ELSE patched' = [at |-> "conflict", op |-> op] /\ UNCHANGED working
    /\ applied' = applied + 1

MutFinishPatch ==
    /\ patched.at = "applying"
    /\ patched' = [at |-> "accepted"]
    /\ UNCHANGED <<working, applied>>

(* The document is checked as a whole once more. *)
FinishPatch ==
    /\ patched.at = "applying"
    /\ patched' = [at |-> IF ValidDocument(working) THEN "accepted" ELSE "invalid"]
    /\ UNCHANGED <<working, applied>>

NbtNext == (\E op \in PatchOps : ApplyOp(op)) \/ FinishPatch

NbtSpec == NbtInit /\ [][NbtNext]_nbtVars

-----------------------------------------------------------------------------
(* encodeJavaNbt: the stream of tags, names, lengths and scalars. The names of a
   compound are in any order. *)
\* What a scalar is as bits: writeInt64(BigInt("-0")), and writeFloat32 of a double.
AsBits(tag, scalar) ==
    IF tag = "long" /\ scalar = "-0" THEN "0"
    ELSE IF tag = "float" /\ scalar = "#1e300" THEN "Infinity" ELSE scalar

ElementOf == [byteArray |-> "byte", intArray |-> "int", longArray |-> "long"]

Values(doc, v) == [i \in 1 .. Length(doc, v) |-> Append(v, Token[i])]

Write(doc) ==
    LET written[p \in PathsIn(doc)] ==
            LET tag == Tag(doc, p)
                v == Append(p, "value")
                names == SetToSeq({Last(c) : c \in Children(doc, v)})
            IN  CASE tag \in DOMAIN Scalars \cup {"string"} -> <<AsBits(tag, doc[v])>>
                  [] tag \in DOMAIN Elements ->
                         <<Token[Length(doc, v) + 1]>>
                         \o [i \in 1 .. Length(doc, v) |-> AsBits(ElementOf[tag], doc[Values(doc, v)[i]])]
                  [] tag = "list" ->
                         <<ElementTag(doc, p), Token[Length(doc, v) + 1]>>
                         \o FlattenSeq([i \in 1 .. Length(doc, v) |-> written[Values(doc, v)[i]]])
                  [] tag = "compound" ->
                         FlattenSeq([i \in 1 .. Len(names) |->
                                        <<Tag(doc, Append(v, names[i])), names[i]>> \o written[Append(v, names[i])]])
                         \o <<"end">>
    IN  written[<<"root">>]

Encoded(doc) == <<Tag(doc, <<"root">>), doc[<<"rootName">>]>> \o Write(doc)

(* decodeJavaNbt: readPayload from a position, which gives the node, relative to its own
   path, and the position behind it; 0 when the stream is over or is not NBT. *)
Unread == [at |-> 0, node |-> <<>>]

Node(tag, elementTag, value) ==
    LET own == {<<>>, <<"type">>} \cup {p \in {<<"elementType">>} : tag = "list"}
        below == {<<"value">> \o q : q \in DOMAIN value}
    IN  [p \in own \cup below |->
            IF p = <<>> THEN Obj ELSE IF p = <<"type">> THEN tag
            ELSE IF p = <<"elementType">> THEN elementTag ELSE value[Tail(p)]]

Just(leaf) == [p \in {<<>>} |-> leaf]

(* The elements of a list or of an array, whose elements are scalars alone; read is how a
   node is read. *)
ReadElements(read, from, tag, length, bare) ==
    FoldLeft(LAMBDA sofar, n :
                 IF sofar.at = 0 THEN Unread
                 ELSE LET one == read[sofar.at, tag]
                          element == IF bare THEN Subtree(one.node, <<"value">>) ELSE one.node
                      IN  IF one.at = 0 THEN Unread
                          ELSE [at |-> one.at, node |-> With(sofar.node, <<Token[n]>>, element)],
             [at |-> from, node |-> Just(Arr)], [n \in 1 .. Position(length) - 1 |-> n])

(* The entries of a compound up to its end tag; a name that comes again replaces. *)
ReadEntries(read, stream, from) ==
    LET Ended(at, node) == [at |-> at, node |-> node, ended |-> TRUE]
        After(sofar) ==
            IF sofar.at > Len(stream) THEN Ended(0, <<>>)
            ELSE IF stream[sofar.at] = "end" THEN Ended(sofar.at + 1, sofar.node)
            ELSE IF sofar.at + 1 > Len(stream) THEN Ended(0, <<>>)
            ELSE LET entry == read[sofar.at + 2, stream[sofar.at]]
                 IN  IF entry.at = 0 THEN Ended(0, <<>>)
                     ELSE [sofar EXCEPT !.at = entry.at,
                                        !.node = With(@, <<stream[sofar.at + 1]>>, entry.node)]
    IN  FoldLeft(LAMBDA sofar, n : IF sofar.ended THEN sofar ELSE After(sofar),
                 [at |-> from, node |-> Just(Obj), ended |-> FALSE], Append(stream, "end"))

Read(stream) ==
    LET read[from \in Nat, tag \in STRING] ==
            IF from > Len(stream) \/ tag \notin NodeTypes THEN Unread
            ELSE LET token == stream[from]
                     counted == from < Len(stream) /\ stream[from + 1] \in Range(Token)
                     Done(under, elementTag) ==
                         IF under.at = 0 THEN Unread
                         ELSE [at |-> under.at, node |-> Node(tag, elementTag, under.node)]
                 IN  CASE tag \in DOMAIN Scalars ->
                              IF token \in Scalars[tag]
                              THEN [at |-> from + 1, node |-> Node(tag, "none", Just(token))] ELSE Unread
                       [] tag = "string" ->
                              IF token \in Numbers THEN Unread
                              ELSE [at |-> from + 1, node |-> Node(tag, "none", Just(token))]
                       [] tag \in DOMAIN Elements ->
                              IF token \notin Range(Token) THEN Unread
                              ELSE Done(ReadElements(read, from + 1, ElementOf[tag], token, TRUE), "none")
                       [] tag = "list" ->
                              IF ~counted \/ (token = "end" /\ stream[from + 1] # "0") THEN Unread
                              ELSE Done(ReadElements(read, from + 2, token, stream[from + 1], FALSE), token)
                       [] tag = "compound" -> Done(ReadEntries(read, stream, from), "none")
    IN  read[3, stream[1]]

Decoded(stream) ==
    IF Len(stream) < 2 \/ stream[1] = "end" THEN Unread
    ELSE LET read == Read(stream)
         IN  IF read.at # Len(stream) + 1 THEN Unread
             ELSE [read EXCEPT !.node = With(With(Just(Obj), <<"rootName">>, Just(stream[2])), <<"root">>, @)]

-----------------------------------------------------------------------------
NbtTypeOK ==
    /\ applied \in 0 .. MaxPatch
    /\ patched.at \in {"applying", "conflict", "accepted", "invalid"}
    /\ \A p \in PathsIn(working) : p = <<>> \/ Front(p) \in PathsIn(working)

(* Though only the enclosing node is checked after an operation, a document that is
   returned is well formed as a whole, what slips through until the end is the type of an
   element of a list and nothing else, and an operation is refused only when it cannot be
   applied or would leave the document malformed (applyJsonPatch). *)
PatchRight ==
    /\ patched.at = "accepted" => ValidDocument(working)
    /\ patched.at = "conflict" => \/ ~Applicable(working, patched.op)
                                  \/ ~ValidDocument(Edited(working, patched.op))
    /\ ~ValidDocument(working) =>
           \E p \in NodesFrom(working, <<"root">>) :
               /\ Tag(working, p) = "list"
               /\ \E c \in Children(working, Append(p, "value")) :
                      Tag(working, c) # ElementTag(working, p)

(* What the stream keeps of a document: the tags, the names and the values as bits, and
   nothing that a node has besides. *)
Survives(doc) ==
    LET nodes == NodesFrom(doc, <<"root">>)
        fields == {Append(p, "type") : p \in nodes} \cup {Append(p, "value") : p \in nodes}
                  \cup {Append(p, "elementType") : p \in {q \in nodes : Tag(doc, q) = "list"}}
        elements == UNION {Children(doc, Append(p, "value")) :
                              p \in {q \in nodes : Tag(doc, q) \in DOMAIN Elements}}
        TagOver(p) == IF p \in elements THEN ElementOf[Tag(doc, Front(Front(p)))]
                      ELSE IF p \in fields /\ Last(p) = "value" THEN Tag(doc, Front(p)) ELSE "none"
    IN  [p \in {<<>>, <<"rootName">>} \cup nodes \cup fields \cup elements |->
            AsBits(TagOver(p), doc[p])]

(* A well-formed document is read back as what the stream keeps of it, which is well formed
   and loses nothing the next time, and a stream that is cut short or has something behind
   it is not read at all (encodeJavaNbt, decodeJavaNbt). *)
StreamsRight ==
    patched.at = "accepted" =>
        LET stream == Encoded(working)
            read == Decoded(stream).node
        IN  /\ read = Survives(working) /\ ValidDocument(read) /\ Encoded(read) = stream
            /\ \A n \in 0 .. Len(stream) - 1 : Decoded(SubSeq(stream, 1, n)).at = 0
            /\ \A more \in {"end", "0", "byte"} : Decoded(Append(stream, more)).at = 0

(* Both, for every document and patch: what the NBT tools return is well formed and
   survives the stream. *)
NbtRight == PatchRight /\ StreamsRight

=============================================================================
