---------------------------- MODULE ClassReading ----------------------------
(***************************************************************************)
(* get-class-source and get-class-members: in which artifact a class is    *)
(* found when the one that was asked for lacks it, which lines of its file *)
(* or which of its members a call returns, and how a client that follows   *)
(* the continuation of each response reads on, while lookups of the        *)
(* mappings and readings of the jar may fail between two calls.            *)
(***************************************************************************)
EXTENDS Naturals, Sequences, FiniteSets, SequencesExt

CONSTANTS Subjects,    \* what there is to be read: see IsSubject
          Windows,     \* the lines a client may ask for: see IsWindow
          MemberPages, \* the limits a page of members may have
          MaxReads     \* how many calls a behaviour has

Names == {"obfuscated", "mojang"}
Unnamed == "unset"

(* A class with its file, as the lengths of its lines, and its members, of which the mappings
   know some and a pattern takes some by the name a translation lists them under, which is
   a guess when there are several, and some by their name in the jar;
   which artifacts have its file; the names their text is in, and those their row was
   asked for in; the nested jars that list it, and what the artifact's binary jar comes to. *)
IsSubject(s) ==
    /\ s.file \in Seq(Nat) /\ s.file # <<>>
    /\ s.members \in Seq([known : BOOLEAN, translated : BOOLEAN, raw : BOOLEAN])
    /\ s.has \in [{"asked", "nested", "binary"} -> BOOLEAN]
    /\ s.decompiled \in [{"asked", "nested", "binary"} -> BOOLEAN]
    /\ s.text \in Names /\ s.requested \in Names
    /\ s.nested \in {"none", "one", "several", "refused"}
    /\ s.binary \in {"none", "sources", "fails", "itself", "other"}
    /\ s.bytecode \in BOOLEAN

(* Lines from start to end and their bounds, where 0 is not given. *)
IsWindow(w) ==
    /\ w.start \in Nat /\ w.end \in Nat /\ w.maxLines \in Nat /\ w.maxChars \in Nat
    /\ w.end # 0 => w.start <= w.end

ASSUME ReadingAssumption ==
    /\ MaxReads \in Nat /\ MemberPages \subseteq Nat \ {0}
    /\ (\A s \in Subjects : IsSubject(s)) /\ \A w \in Windows : IsWindow(w)

VARIABLES subject,  \* what there is to be read
          request,  \* the call that the client made, or that the last response suggests
          responses \* those of the calls so far

readingVars == <<subject, request, responses>>

-----------------------------------------------------------------------------
(* resolveClassArtifactContext for an artifact: the names asked in are those of the call,
   or those its row was asked for in; and resolveArtifactClassNameForLookup: works tells
   whether the mappings have the class at the time of the call. *)
Requested(call) == IF call.label = Unnamed THEN call.row ELSE call.label

LookupName(call, works) ==
    IF Requested(call) # subject.text /\ works /\ call.name = Requested(call)
    THEN subject.text ELSE call.name

(* resolveClassFilePath: a class is named by the names its name is of. *)
Finds(artifact, name) == subject.has[artifact] /\ name = subject.text

(* The artifact whose text a response has, the one its provenance is of, and its flags. *)
Active(id, provenance, flags) == [id |-> id, provenance |-> provenance, flags |-> flags]

(* tryNestedJarRedirect *)
Redirected(active, name) ==
    IF subject.nested = "one" /\ name = subject.text
    THEN Active("nested", "nested", {"nested-jar-redirect"}) ELSE active

(* tryBinaryFallback with resolveBinaryFallbackArtifact: not for the jar that is read
   already, and not when it leads back to the same artifact. *)
FallenBack(active) ==
    LET to == IF subject.binary = "itself" THEN "asked" ELSE "binary"
    IN  IF subject.binary \in {"none", "sources", "fails"} \/ active.id = to THEN active
        ELSE Active(to, active.provenance, active.flags \cup {"binary-fallback"})

(* The artifact that the lookup ends on. *)
MutEndsOn(artifact, name) ==
    LET here == Active(artifact, artifact, {})
        redirected == IF artifact = "asked" THEN Redirected(here, name) ELSE here
    IN  IF Finds(redirected.id, name) \/ artifact # "asked" THEN redirected
        ELSE FallenBack(redirected)

EndsOn(artifact, name) ==
    LET here == Active(artifact, artifact, {})
        redirected == Redirected(here, name)
    IN  IF Finds(artifact, name) \/ artifact # "asked" THEN here
        ELSE IF Finds(redirected.id, name) THEN redirected ELSE FallenBack(redirected)

-----------------------------------------------------------------------------
(* buildClassSourceSnippet. The last line is none when it is empty, after a newline. *)
Lines == IF Len(subject.file) > 1 /\ Last(subject.file) = 0 THEN Front(subject.file) ELSE subject.file

(* The characters of some lines, joined by newlines. *)
Characters(first, last) ==
    FoldLeft(LAMBDA sum, length : sum + length, last - first, SubSeq(Lines, first, last))

Lesser(m, n) == IF m < n THEN m ELSE n

(* How many of the newlines survive a cut: so many lines are taken to be whole. *)
MutWhole(first, last, maxChars) ==
    Cardinality({n \in first .. last - 1 : Characters(first, n) <= maxChars + 1})
Whole(first, last, maxChars) ==
    Cardinality({n \in first .. last - 1 : Characters(first, n) + 1 <= maxChars})

Snippet(w) ==
    LET total == Len(Lines)
        first == IF w.start = 0 THEN 1 ELSE w.start
        asked == IF w.end = 0 THEN total ELSE w.end
        ranged == Lesser(asked, total)
        last == IF w.maxLines # 0 THEN Lesser(ranged, first + w.maxLines - 1) ELSE ranged
        cut == w.maxChars # 0 /\ Characters(first, last) > w.maxChars
        whole == IF cut THEN Whole(first, last, w.maxChars) ELSE last - first + 1
        truncated == cut \/ last < ranged \/ ranged # asked
    IN  IF first > total THEN [first |-> first, whole |-> 0, cut |-> FALSE, truncated |-> TRUE, next |-> 0]
        ELSE [first |-> first, whole |-> whole, cut |-> cut, truncated |-> truncated,
              next |-> IF truncated /\ (cut => whole > 0) /\ first + whole <= total
                       THEN first + whole ELSE 0]

-----------------------------------------------------------------------------
(* getClassSource: the snippet, or that the class was not found, which is said of the
   artifact that was asked for (buildClassSourceNotFoundError). *)
NotFound(call, works) == [kind |-> "not found", call |-> call, works |-> works]
Refused(call) == [kind |-> "refused", call |-> call]

SourceOf(call, works) ==
    LET name == LookupName(call, works)
        active == EndsOn(call.artifact, name)
    IN  IF active.id = "asked" /\ ~Finds("asked", name) /\ name = subject.text
           /\ subject.nested \in {"several", "refused"}
        THEN Refused(call)
        ELSE IF ~Finds(active.id, name) THEN NotFound(call, works)
        ELSE [kind |-> "source", call |-> call, active |-> active,
              decompiled |-> subject.decompiled[active.id], lines |-> Snippet(call.window)]

(* The continuation: the same window from the next line on, in the artifact the text is
   of, whose row was made for the names of that call or is the one that was asked for;
   the names asked in are left out. *)
Continued(response) ==
    LET call == response.call
        from == response.active.id
    IN  [call EXCEPT !.artifact = from, !.label = Unnamed, !.window.start = response.lines.next,
                     !.row = CASE from = call.artifact -> call.row
                               [] from = "binary" -> Requested(call)
                               [] from = "nested" -> IF call.label = Unnamed THEN "obfuscated"
                                                     ELSE call.label]

Done == [tool |-> "none"]

GetClassSource(works) ==
    /\ request.tool = "source" /\ Len(responses) < MaxReads
    /\ LET response == SourceOf(request, works)
       IN  /\ responses' = Append(responses, response)
           /\ request' = IF response.kind = "source" /\ response.lines.next # 0
                         THEN Continued(response) ELSE Done
    /\ UNCHANGED subject

-----------------------------------------------------------------------------
(* getClassMembers: remapAndCountMembers gives a member that it cannot translate its name
   in the jar, and filters by the pattern after that; without translation the bytecode is
   filtered. A warning names those members, and no other. *)
Unknown == {i \in DOMAIN subject.members : ~subject.members[i].known}
Untranslated(call, translates) ==
    IF Requested(call) = subject.text THEN {}
    ELSE IF translates THEN Unknown ELSE DOMAIN subject.members

Taken(call, translates) ==
    LET Takes(i) ==
            IF i \in Untranslated(call, translates) THEN subject.members[i].raw
            ELSE subject.members[i].translated
    IN  SelectSeq([i \in DOMAIN subject.members |-> [place |-> i, taken |-> Takes(i)]],
                  LAMBDA member : member.taken)

(* The context of the cursor is the query, with the name that was looked up; a cursor of
   another one is ignored, which the response tells (resolveCursorOffset). *)
Offset(call, name) ==
    IF call.cursor # <<>> /\ Head(call.cursor).name = name THEN Head(call.cursor).offset ELSE 0

(* sliceMembersWithLimit *)
Slice(members, offset, limit) == SubSeq(members, offset + 1, Lesser(offset + limit, Len(members)))

(* buildDecompiledFallback has the members of the source, by the pattern when it is of
   the same names. *)
FromSource(call, name) ==
    /\ Finds("asked", name)
    /\ IF Requested(call) = subject.text THEN Taken(call, TRUE) # <<>> ELSE subject.members # <<>>

PageOf(call, name, translates, reads, limit) ==
    LET members == IF reads THEN Taken(call, translates) ELSE <<>>
        offset == Offset(call, name)
        page == Slice(members, offset, limit)
        consumed == Lesser(offset, Len(members)) + Len(page)
    IN  [kind |-> "members", call |-> call, members |-> page,
         next |-> IF consumed < Len(members) THEN consumed ELSE 0,
         ignored |-> call.cursor # <<>> /\ Head(call.cursor).name # name,
         untranslated |-> IF reads THEN Untranslated(call, translates) ELSE {},
         status |-> IF members # <<>> THEN "ok"
                    ELSE IF FromSource(call, name) THEN "partial"
                    ELSE IF ~reads THEN "members_unavailable" ELSE "ok"]

(* works and translates tell whether the mappings have the class and its members, reads
   whether the jar can be read, at the time of the call. *)
GetClassMembers(works, translates, reads, limit) ==
    /\ request.tool = "members" /\ Len(responses) < MaxReads
    /\ LET name == LookupName(request, works)
           inside == name = subject.text /\ ~subject.bytecode
           response ==
               IF subject.binary = "none" \/ (reads /\ inside /\ subject.nested = "several")
               THEN Refused(request)
               ELSE IF reads /\ (name # subject.text \/ (inside /\ subject.nested = "none"))
               THEN NotFound(request, works)
               ELSE PageOf(request, name, translates, reads, limit)
       IN  /\ responses' = Append(responses, response)
           /\ request' = IF response.kind = "members" /\ response.next # 0
                         THEN [request EXCEPT !.cursor = <<[name |-> name, offset |-> response.next]>>]
                         ELSE Done
    /\ UNCHANGED subject

-----------------------------------------------------------------------------
(* A client asks for an artifact, with or without the names its class name is of. *)
SourceCalls ==
    [tool : {"source"}, artifact : {"asked"}, row : {subject.requested},
     label : Names \cup {Unnamed}, name : Names, window : Windows]
MemberCalls ==
    [tool : {"members"}, row : {subject.requested}, label : Names \cup {Unnamed}, name : Names,
     cursor : {<<>>}]

ReadingInit ==
    /\ subject \in Subjects /\ responses = <<>>
    /\ request \in SourceCalls \cup MemberCalls

ReadingNext ==
    \/ \E works \in BOOLEAN : GetClassSource(works)
    \/ \E works, translates, reads \in BOOLEAN, limit \in MemberPages :
           GetClassMembers(works, translates, reads, limit)

ReadingSpec == ReadingInit /\ [][ReadingNext]_readingVars

-----------------------------------------------------------------------------
ReadingTypeOK ==
    /\ subject \in Subjects /\ Len(responses) <= MaxReads
    /\ request.tool \in {"none", "source", "members"}
    /\ \A i \in DOMAIN responses :
          responses[i].kind \in {"refused", "not found", "source", "members"}

Gave(kind) == {i \in DOMAIN responses : responses[i].kind = kind}

(* The text is of an artifact that has the class, the one that was asked for before any
   other; its provenance and flags are of that artifact too, or a flag tells that they are
   those of the artifact asked for (getClassSource). *)
TextDescribed ==
    \A i \in Gave("source") :
        LET active == responses[i].active
        IN  /\ subject.has[active.id]
            /\ responses[i].call.artifact = "asked" /\ subject.has.asked => active.id = "asked"
            /\ responses[i].decompiled = subject.decompiled[active.id]
            /\ active.provenance = active.id \/ "binary-fallback" \in active.flags

(* Whoever follows the continuations reads every line of the window once: each response
   begins with the line after the last that was returned whole, what is returned whole
   fits, and the last one ends the window, or stands before a line that is longer than
   the client wants to read, and says so (buildClassSourceSnippet). *)
WindowRead ==
    \A i \in Gave("source") :
        LET lines == responses[i].lines
            window == responses[1].call.window
            ends == IF window.end = 0 THEN Len(Lines) ELSE Lesser(window.end, Len(Lines))
            until == lines.first + lines.whole - 1
        IN  /\ until <= ends \/ lines.whole = 0
            /\ lines.whole > 0 /\ window.maxChars # 0 => Characters(lines.first, until) <= window.maxChars
            /\ lines.next # 0 => lines.next = until + 1 /\ lines.next <= ends /\ lines.whole > 0
            /\ lines.next = 0 /\ until < ends =>
                  lines.cut /\ lines.whole = 0 /\ Characters(lines.first, lines.first) >= window.maxChars
            /\ lines.next = 0 /\ until >= ends /\ window.end <= Len(Lines) /\ lines.first <= Len(Lines)
                  => ~lines.truncated

(* A continuation finds its class as long as the mappings know it, unless the first call
   named other names than those the artifact's row was asked for in. *)
ContinuationFinds ==
    \A i \in Gave("not found") \ {1} :
        ~responses[i].works \/ (responses[1].call.label \notin {Unnamed, subject.requested})
        \/ responses[i].call.tool = "members"

(* Whoever follows the cursors gets every member once, unless a response told that the
   cursor was not used, that members the mappings know were not translated, or that the
   members are not those of the bytecode (getClassMembers, resolveCursorOffset). *)
Untold ==
    \A i \in DOMAIN responses :
        /\ responses[i].kind = "members" /\ responses[i].status = "ok"
        /\ ~responses[i].ignored /\ responses[i].untranslated \subseteq Unknown

MembersRead ==
    responses # <<>> /\ Untold =>
        LET members == FoldLeft(LAMBDA sofar, page : sofar \o page.members, <<>>, responses)
            wanted == Taken(responses[1].call, TRUE)
        IN  IF request.tool = "none" THEN members = wanted
            ELSE members = SubSeq(wanted, 1, Len(members))

(* What is read of a class over several calls is what the class has (getClassSource,
   getClassMembers). *)
ReadingRight == TextDescribed /\ WindowRead /\ ContinuationFinds /\ MembersRead

=============================================================================
