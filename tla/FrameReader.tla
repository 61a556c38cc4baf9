---------------------------- MODULE FrameReader ----------------------------
(***************************************************************************)
(* JsonRpcFrameReader of json-rpc-framing.ts: messages framed by a line or *)
(* by Content-Length, from chunks that may be cut anywhere.                *)
(*                                                                         *)
(* The bytes are abstracted to units, each as long as any other:           *)
(*   msg    the text of a JSON-RPC message, which opens with a brace       *)
(*   array  JSON that is no JSON-RPC message, and opens with a bracket     *)
(*   open   the piece of a text that opens like JSON and is none           *)
(*   junk   any other text                                                 *)
(*   lf     an end of line                                                 *)
(*   len    the header Content-Length, with its value                      *)
(***************************************************************************)
EXTENDS Naturals, SequencesExt

CONSTANTS Streams,     \* what the peer may send: sequences of items
          MaxFrame,    \* maxFrameBytes, in units
          MaxHeader    \* MAX_CONTENT_LENGTH_HEADER_BYTES, in units

ASSUME FrameAssumption == MaxHeader \in Nat /\ MaxFrame \in Nat /\ MaxHeader < MaxFrame

VARIABLES reader,   \* the fields of the reader, and what it delivered
          stream,   \* the items of this session
          sent      \* how many of their units have arrived

frameVars == <<reader, stream, sent>>

Unit(kind, value) == [kind |-> kind, value |-> value]
Lf == Unit("lf", 0)

(* An item is [units |-> its units, gives |-> the messages it stands for]. *)
Units(items) == FlattenSeq([i \in DOMAIN items |-> items[i].units])
Meant(items) == FlattenSeq([i \in DOMAIN items |-> items[i].gives])

(* awaited is awaitedFrameEnd, and 0 for its -1; timer tells whether the idle
   timer is armed; stop ends the loop of drainChunk. *)
Texts == Seq([kind : {"msg", "array", "open", "junk", "lf", "len"}, value : Nat])
Readers ==
    [mode : {"unknown", "line", "content-length"}, buffer : Texts, pending : Texts, awaited : Nat,
     fatal : BOOLEAN, discarding : BOOLEAN, timer : BOOLEAN, delivered : Seq(Nat), stop : BOOLEAN]

FreshReader ==
    [mode |-> "unknown", buffer |-> <<>>, pending |-> <<>>, awaited |-> 0, fatal |-> FALSE,
     discarding |-> FALSE, timer |-> FALSE, delivered |-> <<>>, stop |-> FALSE]

After(s, n) == SubSeq(s, n + 1, Len(s))
Kinds(s) == {s[i].kind : i \in DOMAIN s}
FirstLf(s) == SelectInSeq(s, LAMBDA u : u.kind = "lf")     \* 0 when there is none

(* skipLeadingBlankLines *)
SkipBlank(s) == After(s, SelectInSeq(Append(s, Unit("end", 0)), LAMBDA u : u.kind # "lf") - 1)

(* looksLikeLineFrame *)
LooksLikeLine(s) == SkipBlank(s) # <<>> /\ SkipBlank(s)[1].kind \in {"msg", "array", "open"}

(* findHeaderBoundary: the end of the first empty line, 0 when there is none *)
HeaderEnd(s) ==
    SelectInSeq([i \in DOMAIN s |-> i > 1 /\ s[i].kind = "lf" /\ s[i - 1].kind = "lf"],
                LAMBDA empty : empty)

(* JSON.parse and parseJSONRPCMessage of a text, around which JSON allows blanks *)
Text(s) == SelectSeq(s, LAMBDA u : u.kind # "lf")
IsJson(s) == Len(Text(s)) = 1 /\ Text(s)[1].kind \in {"msg", "array"}
IsMessage(s) == IsJson(s) /\ Text(s)[1].kind = "msg"

-----------------------------------------------------------------------------
(* Ways for one round of the loop of drainChunk to end *)

Stop(r) == [r EXCEPT !.stop = TRUE]

(* A recoverable error: the mode is detected anew. *)
Recover(r, buffer) == [r EXCEPT !.mode = "unknown", !.awaited = 0, !.buffer = buffer]

(* JsonRpcFramingFatalError *)
Terminate(r) ==
    [r EXCEPT !.mode = "unknown", !.awaited = 0, !.fatal = TRUE, !.buffer = <<>>,
              !.pending = <<>>, !.discarding = FALSE, !.stop = TRUE]

Deliver(r, text, buffer) ==
    [r EXCEPT !.buffer = buffer, !.delivered = Append(@, Text(text)[1].value)]

(* detectMode *)
DetectMode(r) ==
    LET s == SkipBlank(r.buffer)
        known == [r EXCEPT !.buffer = s]
    IN  IF s = <<>> THEN Stop(known)
        ELSE IF s[1].kind = "len" THEN [known EXCEPT !.mode = "content-length"]
        ELSE IF FirstLf(s) = 0 THEN Stop(known)
        ELSE [known EXCEPT !.mode = "line"]

(* readLineDelimitedMessage *)
ReadLine(r) ==
    LET lf == FirstLf(r.buffer)
        line == SubSeq(r.buffer, 1, lf - 1)
        rest == After(r.buffer, lf)
    IN  IF lf = 0 THEN Stop(r)
        ELSE IF Len(line) > MaxFrame THEN Recover(r, rest)
        ELSE IF line = <<>> THEN [r EXCEPT !.buffer = rest]
        ELSE IF line[1].kind = "len" THEN [r EXCEPT !.mode = "content-length"]
        ELSE IF IsMessage(line) THEN Deliver(r, line, rest)
        ELSE Recover(r, rest)

(* rejectDeclaredBody: skipped when all of it is here *)
RejectBody(r, end) ==
    IF Len(r.buffer) >= end THEN Recover(r, After(r.buffer, end)) ELSE Terminate(r)

(* The body behind a header that ends at `start` and declares `length` *)
ReadBody(r, start, length) ==
    LET end == start + length
        body == SubSeq(r.buffer, start + 1, end)
        rest == After(r.buffer, end)
    IN  IF length > MaxFrame \/ start > MaxHeader THEN RejectBody(r, end)
        ELSE IF Len(r.buffer) < end THEN Stop([r EXCEPT !.awaited = end])
        ELSE IF ~IsJson(body) THEN Terminate(r)
        ELSE IF IsMessage(body) THEN Deliver(r, body, rest)
        ELSE Recover(r, rest)

(* readContentLengthMessage *)
ReadContentLength(r0) ==
    LET r == [r0 EXCEPT !.awaited = 0, !.buffer = SkipBlank(@)]
        start == HeaderEnd(r.buffer)
        header == SubSeq(r.buffer, 1, start)
        declared == SelectSeq(header, LAMBDA u : u.kind = "len")
        faulty == Len(declared) > 1 \/ ~(Kinds(header) \subseteq {"len", "lf"})
    IN  IF LooksLikeLine(r.buffer) THEN [r EXCEPT !.mode = "line"]
        ELSE IF start = 0 THEN Stop(r)
        ELSE IF faulty /\ declared # <<>> THEN Terminate(r)
        ELSE IF faulty THEN Recover(r, After(r.buffer, start))
        ELSE ReadBody(r, start, declared[1].value)

(* drainChunk while discardingOversizedLine *)
MutDiscard(r) == [r EXCEPT !.discarding = FALSE]

Discard(r) ==
    LET lf == FirstLf(r.buffer)
    IN  IF lf = 0 THEN Stop([r EXCEPT !.buffer = <<>>])
        ELSE [r EXCEPT !.buffer = After(@, lf), !.discarding = FALSE]

(* One round of drainChunk; the middle is rejectOversizedIncompleteInput. *)
Round(r) ==
    LET inHeader == r.mode = "content-length" /\ ~LooksLikeLine(r.buffer)
        boundary == HeaderEnd(r.buffer) # 0
        hasEnd == IF inHeader THEN boundary ELSE FirstLf(r.buffer) # 0
    IN  IF r.discarding THEN Discard(r)
        ELSE IF inHeader /\ ~boundary /\ Len(r.buffer) > MaxHeader THEN Terminate(r)
        ELSE IF Len(r.buffer) > MaxFrame /\ ~hasEnd
             THEN [Recover(r, <<>>) EXCEPT !.discarding = ~inHeader]
        ELSE IF r.mode = "unknown" THEN DetectMode(r)
        ELSE IF r.mode = "line" THEN ReadLine(r)
        ELSE ReadContentLength(r)

(* drainChunk: rounds until one stops. *)
Drain[r \in Readers] == IF r.stop THEN [r EXCEPT !.stop = FALSE] ELSE Drain[Round(r)]

(* canCompleteFrame of what is there with the chunk *)
MutCanComplete(r, chunk) == "lf" \in Kinds(chunk)

CanComplete(r, chunk) ==
    LET size == Len(r.buffer) + Len(r.pending)
    IN  IF r.mode = "content-length" /\ r.awaited > 0 THEN size >= r.awaited
        ELSE \/ r.mode = "content-length" /\ size > MaxHeader
             \/ "lf" \in Kinds(chunk)
             \/ size > MaxFrame

(* armIdleTimer *)
MutArm(r) == [r EXCEPT !.timer = ~r.fatal /\ r.awaited > Len(r.buffer) /\ r.pending = <<>>]

Arm(r) == [r EXCEPT !.timer = ~r.fatal /\ r.awaited > 0]

(* processChunk *)
Processed(r, chunk) ==
    LET more == [r EXCEPT !.pending = @ \o chunk]
        all == [more EXCEPT !.buffer = @ \o more.pending, !.pending = <<>>]
    IN  IF r.fatal THEN r
        ELSE Arm(IF CanComplete(more, chunk) THEN Drain[all] ELSE more)

-----------------------------------------------------------------------------
FrameInit ==
    /\ reader = FreshReader
    /\ stream \in Streams
    /\ sent = 0

(* The next units arrive, in one chunk. *)
Arrive ==
    /\ \E n \in sent + 1 .. Len(Units(stream)) :
          /\ reader' = Processed(reader, SubSeq(Units(stream), sent + 1, n))
          /\ sent' = n
    /\ UNCHANGED stream

(* expire: nothing arrived for the idle budget. *)
Expire ==
    /\ reader.timer
    /\ reader' = [Terminate(reader) EXCEPT !.timer = FALSE, !.stop = FALSE]
    /\ UNCHANGED <<stream, sent>>

FrameNext == Arrive \/ Expire

FrameFairness == WF_frameVars(Expire)

FrameSpec == FrameInit /\ [][FrameNext]_frameVars /\ FrameFairness

-----------------------------------------------------------------------------
FrameTypeOK ==
    /\ reader \in Readers /\ ~reader.stop
    /\ stream \in Streams /\ sent \in 0 .. Len(Units(stream))

(* The mode sticks to Content-Length behind a frame.  A garbage line of one newline
   that comes right behind it, which does not open like JSON, is taken for the start
   of a header, and all up to the next empty line for the rest of that header. *)
IsFrame(item) == item.gives # <<>> /\ item.units[1].kind = "len"
IsGarbageLine(item) ==
    /\ FirstLf(item.units) = Len(item.units) /\ Len(item.units) > 1
    /\ Kinds(item.units) = {"junk", "lf"}
TakenForHeader(items, i) == i > 1 /\ IsFrame(items[i - 1]) /\ IsGarbageLine(items[i])

\* The items before the first line that is taken for a header: all, when none is.
Understood(items) ==
    LET taken == SelectInSeq([i \in DOMAIN items |-> TakenForHeader(items, i)], LAMBDA t : t)
    IN  IF taken = 0 THEN items ELSE SubSeq(items, 1, taken - 1)

(* The framing invariant of JsonRpcFramingFatalError, wherever the chunks are cut and
   whatever went wrong before: only messages of the peer are delivered, in its order,
   and none is made of the rest of a frame that was rejected; none is missing before
   a later one, and none is lost but behind a fatal error.  The last two are promised
   only for what is Understood, up to a garbage line that is taken for a header:
   behind it the code may leave messages waiting, or drop them, without a fatal error,
   although its comment says that it never does. *)
FramesRight ==
    LET delivered == reader.delivered
        sure == Meant(Understood(stream))
    IN  /\ delivered = SelectSeq(Meant(stream), LAMBDA m : m \in ToSet(delivered))
        /\ IsPrefix(delivered, sure) \/ IsPrefix(sure, delivered)
        /\ sent = Len(Units(stream)) /\ ~reader.fatal => IsPrefix(sure, delivered)

(* The reader never waits for a body that does not come: the idle budget. *)
BodiesEnd == reader.awaited > 0 ~> reader.awaited = 0

=============================================================================
