--------------------------- MODULE CacheInventory ---------------------------
(***************************************************************************)
(* manage-cache: the inventory of every cache (cache-registry.ts), listed  *)
(* page by page or deleted by a selector (manage-cache-service.ts), while  *)
(* other calls and other processes write and remove the same entries.      *)
(***************************************************************************)
EXTENDS Naturals, Sequences, FiniteSets

CONSTANTS Shelves,      \* what the caches may hold at first, in the order of entrySortKey
          ManageOrders, \* what may be asked
          MaxWrites     \* bounds how often an entry is written or removed meanwhile

VARIABLES shelf,    \* one cell for each kind and id, in the order of entrySortKey
          order,    \* what is asked
          errand,   \* the call under way
          writes,   \* how many entries were written or removed by others
          altered   \* which ones, and since when: "first page" or "deletions"

inventoryVars == <<shelf, order, errand, writes, altered>>

(* version 0: no such entry. described: the sidecar of a download identifies its bytes.
   marks is what the status of an entry is derived from: "in use", "broken", "gone" and
   "half" (none or some of the jars a row names exist), "empty" and "old". grip is what
   the file system refuses: nothing, to unlink it, or to write it either. *)
Cell == [kind : {"artifact-index", "downloads", "registry", "file", "workspace"},
         version : Nat, described : BOOLEAN,
         marks : SUBSET {"in use", "broken", "gone", "half", "empty", "old"},
         grip : {"free", "unlink", "write"}]
Order == [task : {"list", "delete"}, old : BOOLEAN, limit : Nat,
          status : {"any", "healthy", "in_use", "corrupt", "orphaned", "partial", "stale"}]

(* What is written later has another version than anything there was at first; a page
   has room for an entry (listEntries). *)
Newest == 10
ASSUME InventoryAssumption ==
    /\ MaxWrites \in Nat
    /\ \A s \in Shelves : s \in Seq(Cell) /\ \A k \in DOMAIN s : s[k].version <= Newest
    /\ \A o \in ManageOrders : o \in Order /\ (o.task = "list" => o.limit # 0)

Keys == DOMAIN shelf
Rows == {"artifact-index", "workspace"}

-----------------------------------------------------------------------------
(* deriveEntryStatus: a registry's JSON is read only to verify or for selector.status
   "corrupt". *)
Status(cell, detect) ==
    CASE cell.kind = "workspace" -> "healthy"
      [] OTHER ->
         IF "in use" \in cell.marks THEN "in_use"
         ELSE IF "broken" \in cell.marks /\ (cell.kind = "registry" => detect) THEN "corrupt"
         ELSE IF "gone" \in cell.marks THEN "orphaned"
         ELSE IF cell.marks \cap {"half", "empty"} # {} THEN "partial"
         ELSE IF "old" \in cell.marks THEN "stale" ELSE "healthy"

(* matchesSelector, of the fields that an entry may come to match or not *)
Selected(cell) ==
    /\ order.status # "any" => Status(cell, order.status = "corrupt") = order.status
    /\ order.old => "old" \in cell.marks

-----------------------------------------------------------------------------
(* pending: entries found and not looked at; found: the version of each entry the call
   selected; cursor: the last key of the earlier pages; pages: every key listed so far;
   identity: the version a download was identified by, 0 for none; failed: entries that
   could not be deleted; removed: downloads it removed that were put there, with their
   record, after it had begun to delete. *)
NoErrand == [pc |-> "idle", pending |-> {}, found |-> [k \in {} |-> 0], cursor |-> 0,
             pages |-> <<>>, identity |-> [k \in {} |-> 0], at |-> 0, failed |-> {},
             removed |-> {}]

InventoryInit ==
    /\ shelf \in Shelves
    /\ order \in ManageOrders
    /\ errand = NoErrand
    /\ writes = 0
    /\ altered = [since \in {"first page", "deletions"} |-> {}]

Onward(e) == errand' = e /\ UNCHANGED <<order, writes, altered>>
Select(found, k) == IF Selected(shelf[k]) THEN [j \in DOMAIN found \cup {k} |->
                                                  IF j = k THEN shelf[k].version ELSE found[j]]
                    ELSE found

(* collectEntries: the rows and the contexts are read at once, the files listed. *)
Collect ==
    LET there == {k \in Keys : shelf[k].version # 0}
        read == {k \in there : shelf[k].kind \in Rows /\ Selected(shelf[k])}
    IN  /\ errand.pc \in {"idle", "next page"}
        /\ Onward([errand EXCEPT !.pc = "looking", !.found = [k \in read |-> shelf[k].version],
                             !.pending = {k \in there : shelf[k].kind \notin Rows}])
        /\ UNCHANGED shelf

(* A file that is gone by now fails the call. *)
LookAt(k) ==
    /\ errand.pc = "looking" /\ k \in errand.pending
    /\ Onward(IF shelf[k].version = 0 THEN [errand EXCEPT !.pc = "threw"]
          ELSE [errand EXCEPT !.pending = @ \ {k}, !.found = Select(@, k)])
    /\ UNCHANGED shelf

MutRest == {k \in DOMAIN errand.found :
               Cardinality({j \in DOMAIN errand.found : j < k}) >= Len(errand.pages)}
(* paginateEntries: what comes after the cursor, in the order of the keys, and as much of
   it as a page holds *)
Rest == {k \in DOMAIN errand.found : k > errand.cursor}

Lists(s, keys) ==
    /\ \A i, j \in DOMAIN s : i < j => s[i] < s[j]
    /\ \A k \in keys : \E i \in DOMAIN s : s[i] = k

List == \E rest \in [1 .. Cardinality(Rest) -> Rest] :
    LET more == Len(rest) > order.limit
        page == IF more THEN SubSeq(rest, 1, order.limit) ELSE rest
    IN  /\ errand.pc = "looking" /\ errand.pending = {} /\ order.task = "list"
        /\ Lists(rest, Rest)
        /\ Onward([errand EXCEPT !.pages = @ \o page,
                             !.pc = IF more THEN "next page" ELSE "done",
                             !.cursor = IF more THEN page[order.limit] ELSE @])
        /\ UNCHANGED shelf

-----------------------------------------------------------------------------
(* deleteEntries, applied; the service refuses it without a selector. *)
Downloads == {k \in DOMAIN errand.found : shelf[k].kind = "downloads"}
Identified(k) == IF shelf[k].described THEN shelf[k].version ELSE 0

Capture(k) ==
    /\ errand.pc = "looking" /\ errand.pending = {} /\ order.task = "delete"
    /\ k \in Downloads \ DOMAIN errand.identity
    /\ \A j \in Downloads : j < k => j \in DOMAIN errand.identity
    /\ Onward([errand EXCEPT !.identity = [j \in DOMAIN @ \cup {k} |->
                                          IF j = k THEN Identified(k) ELSE @[j]]])
    /\ UNCHANGED shelf

MutReplaced(k) == FALSE
(* The record beside the download tells other bytes from those identified. *)
Replaced(k) ==
    /\ errand.identity[k] # 0 /\ shelf[k].described
    /\ shelf[k].version # errand.identity[k]

Begin ==
    /\ errand.pc = "looking" /\ errand.pending = {} /\ order.task = "delete"
    /\ Downloads \subseteq DOMAIN errand.identity
    /\ errand' = [errand EXCEPT !.pc = "deleting"]
    /\ altered' = [altered EXCEPT !["deletions"] = {}]
    /\ UNCHANGED <<shelf, order, writes>>

Upcoming == {k \in DOMAIN errand.found : k > errand.at}
NextUp(k) == errand.pc = "deleting" /\ k \in Upcoming /\ \A j \in Upcoming : k <= j
Gone(cell) == [cell EXCEPT !.version = 0, !.described = FALSE, !.marks = {}]

DeleteRow(k) ==
    /\ NextUp(k) /\ shelf[k].kind \in Rows
    /\ shelf' = [shelf EXCEPT ![k] = Gone(@)]
    /\ Onward([errand EXCEPT !.at = k])

(* rm of a file that is held throws, with what came before it deleted. *)
DeleteFile(k) ==
    LET held == shelf[k].version # 0 /\ shelf[k].grip # "free"
    IN  /\ NextUp(k) /\ shelf[k].kind \in {"file", "registry"}
        /\ shelf' = IF held THEN shelf ELSE [shelf EXCEPT ![k] = Gone(@)]
        /\ Onward([errand EXCEPT !.at = k, !.pc = IF held THEN "threw" ELSE @])

(* discardCachedDownload leaves a replacement alone; where it may not unlink it empties
   the file, and where it may not write it the file stays. *)
Discarded(cell) ==
    CASE cell.version = 0 -> {cell}
      [] cell.grip = "free" -> {Gone(cell)}
      [] cell.grip = "unlink" -> {[cell EXCEPT !.described = FALSE, !.marks = @ \cup {"empty"}]}
      [] OTHER -> {cell, [cell EXCEPT !.described = FALSE]}

DeleteDownload(k) ==
    /\ NextUp(k) /\ shelf[k].kind = "downloads"
    /\ \E cell \in IF Replaced(k) THEN {shelf[k]} ELSE Discarded(shelf[k]) :
          /\ shelf' = [shelf EXCEPT ![k] = cell]
          /\ Onward([errand EXCEPT !.at = k, !.pc = IF cell.version = 0 THEN @ ELSE "checking",
                               !.removed = IF cell.version = 0 /\ Identified(k) # 0
                                              /\ k \in altered["deletions"]
                                           THEN @ \cup {k} ELSE @])

MutCountsFailed(k) == {}
CountsFailed(k) == IF shelf[k].version # 0 /\ Replaced(k) THEN {} ELSE {k}

(* A file that is still there was replaced meanwhile, or could not be deleted. *)
CheckDeleted ==
    /\ errand.pc = "checking"
    /\ Onward([errand EXCEPT !.pc = "deleting", !.failed = @ \cup CountsFailed(errand.at)])
    /\ UNCHANGED shelf

Finish ==
    /\ errand.pc = "deleting" /\ Upcoming = {}
    /\ Onward([errand EXCEPT !.pc = "done"])
    /\ UNCHANGED shelf

-----------------------------------------------------------------------------
(* What others do: an entry is written, a download with or without its record, or
   removed. *)
Meddle(k) ==
    /\ errand.pc \notin {"done", "threw"} /\ writes < MaxWrites
    /\ writes' = writes + 1
    /\ altered' = [since \in DOMAIN altered |->
                      IF since = "first page" /\ errand.pc = "idle" THEN {} ELSE altered[since] \cup {k}]
    /\ \/ shelf' = [shelf EXCEPT ![k] = Gone(@)] /\ shelf[k].version # 0
       \/ \E described \in IF shelf[k].kind = "downloads" THEN BOOLEAN ELSE {FALSE} :
             shelf' = [shelf EXCEPT ![k].version = Newest + writes', ![k].described = described,
                                    ![k].marks = {}]
    /\ UNCHANGED <<order, errand>>

InventoryNext ==
    \/ Collect \/ List \/ Begin \/ CheckDeleted \/ Finish
    \/ \E k \in Keys : \/ LookAt(k) \/ Capture(k) \/ Meddle(k)
                      \/ DeleteRow(k) \/ DeleteFile(k) \/ DeleteDownload(k)

InventorySpec == InventoryInit /\ [][InventoryNext]_inventoryVars

-----------------------------------------------------------------------------
InventoryTypeOK ==
    /\ \A k \in Keys : shelf[k] \in Cell
    /\ order \in Order
    /\ DOMAIN errand.found \subseteq Keys
    /\ writes \in 0 .. MaxWrites

(* The pages of a listing hold no entry twice, and each that matched all along, whatever
   was written or removed around it between two pages (paginateEntries). *)
PagesComplete ==
    order.task = "list" =>
        /\ \A i, j \in DOMAIN errand.pages : i < j => errand.pages[i] < errand.pages[j]
        /\ errand.pc = "done" =>
              \A k \in Keys \ altered["first page"] :
                  shelf[k].version # 0 /\ Selected(shelf[k]) =>
                      \E i \in DOMAIN errand.pages : errand.pages[i] = k

(* What a deletion counts as deleted is no longer what it selected (deleteEntries). *)
CountedIsGone ==
    order.task = "delete" /\ errand.pc = "done" =>
        \A k \in DOMAIN errand.found \ errand.failed : shelf[k].version # errand.found[k]

(* A download that was put in place once the deletions had begun and that says so, stays
   if what it replaces could be told from it (discardCachedDownload). *)
ReplacementStays ==
    \A k \in errand.removed : errand.identity[k] = 0

=============================================================================
