---------------------------- MODULE SearchPages ----------------------------
(***************************************************************************)
(* search-class-source: which rows of an artifact a search examines (the   *)
(* symbols, the index of tokens, the prefilter by LIKE or every file), and *)
(* how the hits are handed out page by page with a cursor, while the index *)
(* of the artifact may be rebuilt, or fail, between two pages.             *)
(***************************************************************************)
EXTENDS Naturals, Sequences, FiniteSets, SequencesExt, Functions

CONSTANTS Searches,   \* the searches asked for: see IsSearch
          Indexes,    \* the sets of rows an artifact may have, by intent
          PageLimits, \* the limits a page may have
          Cap,        \* the candidates a query of the database may give
          Budget,     \* the bytes a full scan may read
          MaxPages    \* how many pages a behaviour has

(* A row: a file or a symbol, in the order of its paths, names and lines; where it lies
   to the scope; whether the index of tokens, the LIKE and the search itself take it. *)
Scopes == {"in", "other case", "under", "out"}
IsRow(r) ==
    /\ r.path \in Nat /\ r.name \in Nat /\ r.line \in Nat /\ r.score \in Nat
    /\ r.rank \in Nat /\ r.bytes \in Nat /\ r.scope \in Scopes
    /\ r.token \in BOOLEAN /\ r.like \in BOOLEAN /\ r.hit \in BOOLEAN

(* For text in ASCII, LIKE takes whatever the search takes (isAsciiNeedle). *)
IsSearch(s) ==
    /\ s.intent \in {"symbol", "text", "path"} /\ s.mode \in {"auto", "token", "literal"}
    /\ s.regex \in BOOLEAN /\ s.ascii \in BOOLEAN /\ s.scoped \in BOOLEAN /\ s.indexed \in BOOLEAN

ASSUME SearchAssumption ==
    /\ Cap \in Nat \ {0} /\ Budget \in Nat \ {0} /\ MaxPages \in Nat
    /\ PageLimits \subseteq Nat \ {0}
    /\ \A s \in Searches : IsSearch(s)
    /\ \A i \in DOMAIN Indexes : \A rows \in Indexes[i] : \A r \in rows :
          IsRow(r) /\ (r.hit => r.like)

VARIABLES search, \* what is searched for
          indexed,\* the rows of the artifact
          cursor, \* the last hit of the page before, with the query it belongs to, or none
          pages,  \* the pages of this query so far
          stable  \* history: the hits that every page so far has found

searchVars == <<search, indexed, cursor, pages, stable>>

-----------------------------------------------------------------------------
(* The orders of the repositories: symbols by name, the index of tokens by rank, and
   files by path. *)
Earlier(order, r, s) ==
    CASE order = "name" -> \/ r.name < s.name
                           \/ r.name = s.name /\ r.path < s.path
                           \/ r.name = s.name /\ r.path = s.path /\ r.line < s.line
      [] order = "rank" -> r.rank > s.rank \/ (r.rank = s.rank /\ r.path < s.path)
      [] order = "path" -> r.path < s.path

Place(order, r, rows) == Cardinality({s \in rows : Earlier(order, s, r)}) + 1

(* ORDER BY ... LIMIT ? *)
Limited(order, rows) == {r \in rows : Place(order, r, rows) <= Cap}

(* indexedScopePathPrefix, with which the database narrows; the exact test of the
   scope, which for symbols compares the package in any case; and the probe of
   anyIndexedPathInScope. *)
Narrowed(rows) == {r \in rows : r.scope # "out"}
Passes(r) == r.scope = "in" \/ (r.scope = "other case" /\ search.intent = "symbol" /\ ~search.regex)
NoPathInScope == search.scoped /\ \A r \in indexed : r.scope \in {"under", "out"}

Verified(rows) == {r \in rows : Passes(r) /\ r.hit}

-----------------------------------------------------------------------------
(* What one way of searching has found, in which order, and whether it looked at all
   there is. *)
FoundHits(order, hits, full, truncated) ==
    [order |-> order, hits |-> hits, full |-> full, truncated |-> truncated]
NoRows == FoundHits("path", {}, FALSE, FALSE)

(* findSymbolHits: the first candidates by name, or for a regex every symbol *)
SymbolHits ==
    LET candidates == {r \in Narrowed(indexed) : r.like}
        examined == IF search.regex THEN indexed ELSE Limited("name", candidates)
    IN  FoundHits("name", Verified(examined), FALSE, FALSE)

(* searchTextIntentIndexed and searchPathIntentIndexed: one window of candidates *)
IndexedHits ==
    LET order == IF search.intent = "text" THEN "rank" ELSE "path"
        candidates == {r \in Narrowed(indexed) : IF search.intent = "text" THEN r.token ELSE r.like}
        window == Limited(order, candidates)
    IN  FoundHits(order, Verified(window), window # candidates, FALSE)

(* The rows read before r, in the order of their paths, and what they weigh. *)
BytesBefore(r, rows) ==
    FoldSet(LAMBDA s, sum : s.bytes + sum, 0, {s \in rows : Earlier("path", s, r)})

Scanned(rows) ==
    LET read == {r \in rows : BytesBefore(r, rows) < Budget}
    IN  FoundHits("path", Verified(read), FALSE, read # rows)

(* searchTextIntent: below the cap the prefilter by LIKE has all there is, and else
   every file of the scope is read. *)
TextHits ==
    LET candidates == {r \in indexed : r.like}
        prefiltered == ~search.regex /\ search.ascii /\ Cardinality(candidates) < Cap
    IN  Scanned({r \in IF prefiltered THEN candidates ELSE indexed : Passes(r)})

(* searchPathIntent *)
PathHits == FoundHits("path", Verified(indexed), FALSE, FALSE)

FullScan == IF search.intent = "path" THEN PathHits ELSE TextHits
TokenOnly == search.intent = "text" /\ search.mode = "token"

(* searchClassSource: which way is taken, index telling whether the index of tokens and
   paths answers, is found to be damaged, or fails otherwise. *)
ByIndex == search.indexed /\ ~search.regex
Throws(index) == TokenOnly /\ ByIndex /\ ~NoPathInScope /\ index = "damaged"

Searched(index) ==
    IF NoPathInScope THEN NoRows
    ELSE IF search.intent = "symbol" THEN SymbolHits
    ELSE IF search.intent = "text" /\ search.mode = "literal" THEN TextHits
    ELSE IF ByIndex /\ index = "answers" THEN IndexedHits
    ELSE IF TokenOnly THEN NoRows ELSE FullScan

-----------------------------------------------------------------------------
(* The order of the hits: scoreHitOrder, and isAfterSearchCursor. *)
Better(a, b) ==
    \/ a.score > b.score
    \/ a.score = b.score /\ a.path < b.path
    \/ a.score = b.score /\ a.path = b.path /\ a.name < b.name
    \/ a.score = b.score /\ a.path = b.path /\ a.name = b.name /\ a.line < b.line

(* A cursor is used when it was given for this very search (buildSearchCursorContext),
   and is otherwise ignored, which the page tells. *)
MutInUse == cursor # <<>>
InUse == cursor # <<>> /\ Head(cursor).mine
AfterCursor(hit) == InUse => Better(Head(cursor).hit, hit)

(* createSearchHitAccumulator: a heap with the worst of the best limit + 1 at its root.
   heapSiftUp, heapSiftDown, heapPopWorst; positions are from 1. *)
Swapped(heap, i, j) == [heap EXCEPT ![i] = heap[j], ![j] = heap[i]]

(* A hit goes up or down by a place at a time, no oftener than the heap has hits. *)
Repeated(Step(_), hit, times) == FoldLeft(LAMBDA moved, n : Step(moved), hit, [n \in 1 .. times |-> n])

Up(hit) ==
    LET heap == hit.heap
        above == hit.at \div 2
    IN  IF above = 0 \/ ~Better(heap[above], heap[hit.at]) THEN hit
        ELSE [heap |-> Swapped(heap, hit.at, above), at |-> above]

Down(hit) ==
    LET heap == hit.heap
        left == 2 * hit.at
        right == 2 * hit.at + 1
        worse == IF left <= Len(heap) /\ Better(heap[hit.at], heap[left]) THEN left ELSE hit.at
        worst == IF right <= Len(heap) /\ Better(heap[worse], heap[right]) THEN right ELSE worse
    IN  [heap |-> Swapped(heap, hit.at, worst), at |-> worst]

SiftUp(heap, i) == Repeated(Up, [heap |-> heap, at |-> i], i).heap
SiftDown(heap, i) == Repeated(Down, [heap |-> heap, at |-> i], Len(heap)).heap

PopWorst(heap) ==
    IF Len(heap) = 1 THEN <<>> ELSE SiftDown([Front(heap) EXCEPT ![1] = Last(heap)], 1)

TopHits(heap, hit, keep) ==
    IF Len(heap) < keep THEN SiftUp(Append(heap, hit), Len(heap) + 1)
    ELSE IF Better(hit, heap[1]) THEN SiftDown([heap EXCEPT ![1] = hit], 1) ELSE heap

(* finalize: popped from the worst to the best *)
Drained(heap) ==
    FoldLeft(LAMBDA sofar, n : [heap |-> PopWorst(sofar.heap), sorted |-> <<Head(sofar.heap)>> \o sofar.sorted],
             [heap |-> heap, sorted |-> <<>>], heap).sorted

(* One page: the hits are added in the order the search finds them. *)
InOrder(order, rows) ==
    [i \in 1 .. Cardinality(rows) |-> CHOOSE r \in rows : Place(order, r, rows) = i]

Page(found, limit, index) ==
    LET after == {r \in found.hits : AfterCursor(r)}
        heap == FoldLeft(LAMBDA h, r : TopHits(h, r, limit + 1), <<>>, InOrder(found.order, after))
        sorted == Drained(heap)
        hits == SubSeq(sorted, 1, IF Len(sorted) < limit THEN Len(sorted) ELSE limit)
    IN  [hits |-> hits, more |-> Cardinality(after) > Len(hits), limit |-> limit, failed |-> TokenOnly /\ index # "answers",
         ignored |-> cursor # <<>> /\ ~InUse,
         warned |-> found.truncated \/ NoPathInScope \/ (found.full /\ Len(hits) < limit)]

-----------------------------------------------------------------------------
(* A client may begin with the cursor of another search. *)
SearchInit ==
    /\ search \in Searches /\ indexed \in Indexes[search.intent]
    /\ cursor \in {<<>>} \cup {<<[hit |-> r, mine |-> FALSE]>> : r \in indexed}
    /\ pages = <<>> /\ stable = {}

(* The next page, as long as a page says there are more. *)
NextPage(limit, index) ==
    /\ Len(pages) < MaxPages /\ ~Throws(index)
    /\ pages # <<>> => Last(pages).more
    /\ LET found == Searched(index)
           page == Page(found, limit, index)
       IN  /\ pages' = Append(pages, page)
           /\ cursor' = IF page.more THEN <<[hit |-> Last(page.hits), mine |-> TRUE]>> ELSE <<>>
           /\ stable' = IF pages = <<>> THEN found.hits ELSE stable \cap found.hits
    /\ UNCHANGED <<search, indexed>>

(* The artifact is indexed anew, from other bytes of its jar. *)
Rebuild ==
    /\ pages # <<>> /\ Last(pages).more
    /\ indexed' \in Indexes[search.intent]
    /\ UNCHANGED <<search, cursor, pages, stable>>

SearchNext ==
    \/ \E limit \in PageLimits, index \in {"answers", "damaged", "fails"} : NextPage(limit, index)
    \/ Rebuild

SearchSpec == SearchInit /\ [][SearchNext]_searchVars

-----------------------------------------------------------------------------
SearchTypeOK ==
    /\ search \in Searches /\ indexed \in Indexes[search.intent]
    /\ Len(cursor) <= 1 /\ Len(pages) <= MaxPages
    /\ \A i \in DOMAIN pages : Len(pages[i].hits) <= pages[i].limit

Delivered == FoldLeft(LAMBDA sofar, page : sofar \o page.hits, <<>>, pages)

(* The pages give every hit once, best first, however the artifact is indexed anew
   between them, and the last leaves out none that was a hit at each of them
   (createSearchHitAccumulator, isAfterSearchCursor). *)
PagesExact ==
    /\ \A i, j \in DOMAIN Delivered : i < j => Better(Delivered[i], Delivered[j])
    /\ pages # <<>> /\ ~Last(pages).more => stable \subseteq Range(Delivered)

(* A row that matches and is in scope, and is on no page of a search that is complete,
   is missing for a reason that a page tells, or that is known: the window of a last
   page that is as long as was asked for, the first candidates of the symbols, text
   inside a token, and a search for tokens only without an index
   (searchClassSource, searchTextIntent). *)
Silent(r) ==
    \/ search.intent = "symbol" /\ ~search.regex
    \/ search.intent = "text" /\ search.mode # "literal" /\ ~r.token
    \/ TokenOnly /\ (~ByIndex \/ Last(pages).failed)
    \/ Len(Last(pages).hits) = Last(pages).limit

OmissionsTold ==
    (Len(pages) = 1 /\ ~pages[1].more) =>
        \A r \in indexed : Passes(r) /\ r.hit /\ r \notin Range(pages[1].hits) =>
            pages[1].warned \/ Silent(r)

(* What a search gives over its pages is what it promises (searchClassSource). *)
SearchRight == PagesExact /\ OmissionsTold

=============================================================================
