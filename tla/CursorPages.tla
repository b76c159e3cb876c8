---------------------------- MODULE CursorPages ----------------------------
(***************************************************************************)
(* A client walks through a list with CursorGraphqlPagination                *)
(* (paginations/pagination.py) while rows are inserted, updated and deleted. *)
(* Each request asks for a page and its pageInfo.  On a queryset these are   *)
(* statements of their own, in the order of the selection; the rows of a     *)
(* prefetched nested list are read once.                                     *)
(***************************************************************************)
EXTENDS ListOrder

CONSTANTS
    Sizes,       \* what the client may ask for as first, None to leave it out
    PageSize,    \* the page_size of the paginator
    MaxPageSize, \* its max_page_size
    MaxChanges   \* changes of the table during the walk

ASSUME CursorPagesAssumption ==
    /\ Sizes \subseteq Int \cup {None}
    /\ PageSize \in Nat \ {0} /\ MaxPageSize \in Nat \ {0} /\ MaxChanges \in Nat

VARIABLES
    table,
    descending, \* the direction of the configured ordering
    cursor,     \* None or the endCursor of the last page
    first,      \* None, or the page size of the request under way
    items,      \* None, or the prefetched rows
    page, info, \* None until they are read; info.previous is read last
    finished,   \* the last pageInfo had no next page
    served,     \* the keys of the rows the client got
    changes,
    initial,    \* history: the keys that were there when the walk began
    moved,      \* history: the keys whose row was updated or deleted since
    fresh,      \* history: no change since the request began
    torn        \* history: some change fell between a page and its pageInfo

request == <<first, items, page, info>>
vars == <<table, descending, cursor, first, items, page, info, finished, served, changes, initial,
          moved, fresh, torn>>

Boundary == [v : Value \cup {Null}, pk : Pk]
Info == [next : BOOLEAN, previous : BOOLEAN \cup {None}, start : Boundary \cup {None},
         end : Boundary \cup {None}]

ASSUME NoneAssumption ==
    /\ None \notin Int \cup BOOLEAN \cup Boundary \cup Info \cup Seq(Row)
    /\ \A rows \in SUBSET Row : rows # None

TypeOK ==
    /\ table \in Table
    /\ descending \in BOOLEAN
    /\ cursor \in Boundary \cup {None}
    /\ first = None \/ first \in 1..MaxPageSize
    /\ items = None \/ items \in SUBSET Row
    /\ page = None \/ (page \in Seq(Row) /\ Len(page) <= first)
    /\ info \in Info \cup {None}
    /\ finished \in BOOLEAN
    /\ served \in Seq(Pk)
    /\ changes \in 0..MaxChanges
    /\ initial \subseteq Pk /\ moved \subseteq Pk
    /\ fresh \in BOOLEAN /\ torn \in BOOLEAN

-----------------------------------------------------------------------------
(* What follows a boundary.                                                 *)

(* _order_terms: the key follows the direction of the ordering. *)
OrderTerms(desc) == <<[col |-> "v", desc |-> desc], [col |-> "pk", desc |-> desc]>>

(* The database's comparison, which is never true of NULL. *)
Beyond(desc, a, b) == a # Null /\ IF desc THEN a < b ELSE a > b

KeysetPredicateNoTie(desc, c, r) == \* mutant: rows tied with the boundary are passed over
    IF c.v = Null THEN desc /\ r.v # Null
    ELSE Beyond(desc, r.v, c.v) \/ (~desc /\ r.v = Null)
KeysetPredicate(desc, c, r) ==
    IF c.v = Null
    THEN \/ r.v = Null /\ Beyond(desc, r.pk, c.pk)
         \/ desc /\ r.v # Null
    ELSE \/ Beyond(desc, r.v, c.v)
         \/ r.v = c.v /\ Beyond(desc, r.pk, c.pk)
         \/ ~desc /\ r.v = Null

(* _inmemory_after_cursor, by the keys the rows are sorted with. *)
InMemoryAfter(desc, c, r) ==
    LET Out(a, b) == IF desc THEN KeyLess(SortKey(a), SortKey(b))
                     ELSE KeyLess(SortKey(b), SortKey(a))
    IN  IF SortKey(r.v) # SortKey(c.v) THEN Out(r.v, c.v) ELSE Out(r.pk, c.pk)

Matching(rows, desc, c) == {r \in rows : c = None \/ KeysetPredicate(desc, c, r)}
FromQueryset(rows, desc, c, n) ==
    Slice(OrderedBySql(Matching(rows, desc, c), OrderTerms(desc)), 0, n)

(* _inmemory_keyset_order and _inmemory_cursor_start. *)
InMemoryKeysetOrder(rows, desc) == OrderedInMemory(SetToSeq(rows), OrderTerms(desc))
InMemoryCursorStart(list, desc, c) ==
    IF c = None THEN 0
    ELSE Min({i - 1 : i \in {j \in DOMAIN list : InMemoryAfter(desc, c, list[j])}}
             \cup {Len(list)})
FromItems(rows, desc, c, n) ==
    LET list == InMemoryKeysetOrder(rows, desc)
    IN  Slice(list, InMemoryCursorStart(list, desc, c), n)

EncodeCursor(r) == [v |-> r.v, pk |-> r.pk]

-----------------------------------------------------------------------------
(* A request.                                                               *)

Request ==
    /\ first = None /\ ~finished
    /\ \E asked \in Sizes :
          LET size == ResolvePageSize(asked, PageSize, MaxPageSize)
          IN  size # 0 /\ first' = size
    /\ items' \in {None, Rows(table)}
    /\ fresh' = TRUE
    /\ UNCHANGED <<table, descending, cursor, page, info, finished, served, changes, initial, moved,
                   torn>>

(* paginate_queryset *)
ReadPage ==
    /\ first # None /\ page = None
    /\ page' = IF items = None THEN FromQueryset(Rows(table), descending, cursor, first)
               ELSE FromItems(items, descending, cursor, first)
    /\ UNCHANGED <<table, descending, cursor, first, items, info, finished, served, changes, initial,
                   moved, fresh, torn>>

NoInfo == [next |-> FALSE, previous |-> FALSE, start |-> None, end |-> None]

InfoOf(rows, next, previous) ==
    IF rows = <<>> THEN NoInfo
    ELSE [next |-> next, previous |-> previous, start |-> EncodeCursor(Head(rows)),
          end |-> EncodeCursor(Last(rows))]

(* get_page_info fetches one row more than the page has.                    *)
HasNextFull(rows) == Len(rows) >= first \* mutant: a full page is taken for more to come
HasNext(rows) == Len(rows) > first
ReadInfo ==
    /\ first # None /\ info = None
    /\ LET more == FromQueryset(Rows(table), descending, cursor, first + 1)
           list == InMemoryKeysetOrder(items, descending)
           start == InMemoryCursorStart(list, descending, cursor)
       IN  info' = IF items = None
                   THEN InfoOf(Slice(more, 0, first), HasNext(more), None)
                   ELSE InfoOf(Slice(list, start, first), start + first < Len(list), start > 0)
    /\ UNCHANGED <<table, descending, cursor, first, items, page, finished, served, changes, initial,
                   moved, fresh, torn>>

(* The statement for hasPreviousPage: the mirrored predicate from the first *)
(* row of the page.                                                         *)
ReadPrevious ==
    /\ first # None /\ info # None /\ info.previous = None
    /\ info' = [info EXCEPT !.previous =
                   \E r \in Rows(table) : KeysetPredicate(~descending, info.start, r)]
    /\ UNCHANGED <<table, descending, cursor, first, items, page, finished, served, changes, initial,
                   moved, fresh, torn>>

HasAll == first # None /\ page # None /\ info # None /\ info.previous # None

(* The client takes the page and echoes endCursor while there is more.      *)
TakePage ==
    /\ HasAll
    /\ served' = served \o [i \in DOMAIN page |-> page[i].pk]
    /\ finished' = ~info.next
    /\ cursor' = IF info.next THEN info.end ELSE cursor
    /\ first' = None /\ items' = None /\ page' = None /\ info' = None
    /\ UNCHANGED <<table, descending, changes, initial, moved, fresh, torn>>

(* Another transaction inserts, updates or deletes a row. *)
Change(p, v) ==
    /\ changes < MaxChanges /\ ~finished
    /\ table[p] # v
    /\ table' = [table EXCEPT ![p] = v]
    /\ changes' = changes + 1
    /\ moved' = IF table[p] = Absent THEN moved ELSE moved \cup {p}
    /\ fresh' = FALSE
    /\ torn' = (torn \/ (first # None /\ items = None /\ (page = None) # (info = None)))
    /\ UNCHANGED <<descending, cursor, request, finished, served, initial>>

Init ==
    /\ table \in Table
    /\ descending \in BOOLEAN
    /\ cursor = None /\ first = None /\ items = None /\ page = None /\ info = None
    /\ finished = FALSE
    /\ served = <<>>
    /\ changes = 0
    /\ initial = {p \in Pk : table[p] # Absent}
    /\ moved = {}
    /\ fresh = FALSE /\ torn = FALSE

Next ==
    \/ Request \/ ReadPage \/ ReadInfo \/ ReadPrevious \/ TakePage
    \/ \E p \in Pk, v \in Value \cup {Null, Absent} : Change(p, v)

Spec == Init /\ [][Next]_vars

-----------------------------------------------------------------------------
(* Both paths resume at the same row, also where the boundary's row is gone *)
(* or has changed.                                                          *)
CursorPathsAgree(desc, c, n) ==
    FromQueryset(Rows(table), desc, c, n) = FromItems(Rows(table), desc, c, n)

(* "Stable under inserts/deletes between pages": a row that is neither      *)
(* updated nor deleted during a complete walk is served, whatever happens   *)
(* to the others, ties and nulls included, unless a change falls between a  *)
(* page and its pageInfo: then endCursor need not be the end of the page.   *)
NothingSkipped == finished /\ ~torn => initial \ moved \subseteq ToSet(served)

(* "Never skipped or duplicated": no row is served twice that is neither    *)
(* updated nor deleted, inserted ones included.                             *)
NothingRepeated ==
    ~torn => \A i, j \in DOMAIN served : served[i] = served[j] /\ i # j => served[i] \in moved

(* What pageInfo says of a page is so: its cursors are those of the first   *)
(* and last row, and there are rows after the last or before the first      *)
(* exactly if it says so, when the table does not change in the meantime.   *)
InfoDescribesPage ==
    HasAll /\ fresh =>
        LET rows == IF items = None THEN Rows(table) ELSE items
            terms == OrderTerms(descending)
        IN  IF page = <<>> THEN info = NoInfo
            ELSE /\ info.start = EncodeCursor(Head(page)) /\ info.end = EncodeCursor(Last(page))
                 /\ info.next = (\E r \in rows : Precedes(terms, Last(page), r))
                 /\ info.previous = (\E r \in rows : Precedes(terms, r, Head(page)))
=============================================================================
