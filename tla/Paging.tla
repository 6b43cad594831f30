-------------------------------- MODULE Paging ------------------------------
(***************************************************************************)
(* Walking page by page through the documents of a tenant                  *)
(* (shared/domain/pagination.py, list in documents/infrastructure/         *)
(* repository.py) and through its jobs (ingestion/application/             *)
(* job_queries.py), while the tables change.                               *)
(*                                                                         *)
(* A client lists documents by one of four columns, in either direction;   *)
(* jobs are listed by their last change. A page of documents takes two     *)
(* statements, the count and the rows, and each sees the table as it is by *)
(* then. A page of jobs is one statement, and its answer has the items     *)
(* only. Rows that tie are listed in any order, which may be another one   *)
(* for each page.                                                          *)
(***************************************************************************)
EXTENDS Integers, SequencesExt

Sortable == {"created_at", "updated_at", "title", "status"}

(* The order of a listing: of documents the one asked for, of jobs theirs. *)
Order(listing, sort) ==
    IF listing = "jobs" THEN [field |-> "updated_at", direction |-> "desc"]
    ELSE IF sort.field \in Sortable THEN sort
    ELSE [field |-> "created_at", direction |-> "desc"]

(* A change that commits right before statement number at of the walk,     *)
(* where the statements of page n are 2n - 1, the count, and 2n, the rows: *)
(* a row is new, gone (deleted, or no longer of the status asked for), or  *)
(* moved by an update of the column that orders the listing. A row that is *)
(* new or moved lands in some place, counted from the front or, if it is   *)
(* negative, from behind. Who comes or is updated last has the latest      *)
(* time, and stands first or last; but times are taken before the commit   *)
(* and by several clocks, so that others may stand beyond it. A title or a *)
(* status may land anywhere. Of the columns a listing may be ordered by,   *)
(* only updated_at and status ever change.                                 *)
Lands(order, change) ==
    /\ change.kind = "moved" => order.field \in {"updated_at", "status"}
    /\ change.kind # "gone" /\ order.field \in {"created_at", "updated_at"} =>
           (change.place > 0 <=> order.direction = "desc")

PlaceIn(rows, place) ==
    IF place > 0 THEN Min({place, Len(rows) + 1}) ELSE Max({1, Len(rows) + 2 + place})

Changed(rows, change) ==
    LET others == RemoveFirst(rows, change.row)
        listed == change.row \in ToSet(rows)
    IN  CASE change.kind = "gone" -> others
          [] change.kind = (IF listed THEN "moved" ELSE "new") ->
                 InsertAt(others, PlaceIn(others, change.place), change.row)
          [] OTHER -> rows

(* The table as statement number at sees it. *)
TableAt(rows, changes, at) ==
    FoldLeft(LAMBDA t, c : IF c.at <= at THEN Changed(t, c) ELSE t, rows, changes)

(* The rows that tie, listed the way tied permutes them. *)
Relisted(rows, tied) ==
    [i \in DOMAIN rows |-> IF rows[i] \in DOMAIN tied THEN tied[rows[i]] ELSE rows[i]]

Items(read, limit, offset) == SubSeq(read, offset + 1, Min({offset + limit, Len(read)}))

(* Mutant: the total is the number of items, as in the listing of jobs. *)
DocumentPageCountingItems(counted, read, limit, offset) ==
    LET items == Items(read, limit, offset)
    IN  [items |-> items, total |-> Len(items), limit |-> limit, offset |-> offset]

(* SqlAlchemyDocumentRepository.list *)
DocumentPage(counted, read, limit, offset) ==
    [items |-> Items(read, limit, offset), total |-> Len(counted),
     limit |-> limit, offset |-> offset]

(* ListJobsHandler.handle: the total is that of the page. *)
JobPage(read, limit, offset) ==
    LET items == Items(read, limit, offset)
    IN  [items |-> items, total |-> Len(items), limit |-> limit, offset |-> offset]

(* Page.has_more *)
HasMore(page) == page.offset + Len(page.items) < page.total

(* A client that is not told whether there are more jobs asks on until a   *)
(* page is not full.                                                       *)
GoesOn(listing, page) ==
    IF listing = "documents" THEN HasMore(page) ELSE Len(page.items) = page.limit

(* A page of a walk: walk has the listing, its order, its rows, the limit, *)
(* the changes, and a permutation of the rows that tie, with the pages     *)
(* that list them so permuted.                                             *)
PageOf(walk, number) ==
    LET before == TableAt(walk.rows, walk.changes, 2 * number - 1)
        table  == TableAt(walk.rows, walk.changes, 2 * number)
        read   == IF number \in walk.permuted THEN Relisted(table, walk.tied) ELSE table
        offset == walk.limit * (number - 1)
    IN  IF walk.listing = "documents" THEN DocumentPage(before, read, walk.limit, offset)
        ELSE JobPage(read, walk.limit, offset)

(* The first page after which the client does not go on. There is one: a   *)
(* page past all rows there ever were has none.                            *)
LastPage(walk) ==
    CHOOSE last \in 1..Len(walk.rows) + Len(walk.changes) + 1 :
        /\ ~GoesOn(walk.listing, PageOf(walk, last))
        /\ \A number \in 1..last - 1 : GoesOn(walk.listing, PageOf(walk, number))

(* The pages the client asks for, one after the other. *)
Walk(walk) == [number \in 1..LastPage(walk) |-> PageOf(walk, number)]

-----------------------------------------------------------------------------
(* What the walk has shown, and the places of a page with a row that was   *)
(* shown before, by an earlier page or further up.                         *)
Shown(pages) == UNION {ToSet(pages[p].items) : p \in DOMAIN pages}

Repeats(pages, p, tied) ==
    {i \in DOMAIN pages[p].items :
        /\ pages[p].items[i] \notin tied
        /\ \/ \E q \in 1..p - 1 : pages[p].items[i] \in ToSet(pages[q].items)
           \/ \E j \in 1..i - 1 : pages[p].items[i] = pages[p].items[j]}
=============================================================================
