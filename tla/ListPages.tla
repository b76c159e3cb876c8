----------------------------- MODULE ListPages -----------------------------
(***************************************************************************)
(* Offset and page pagination of a list, which answers one request on three  *)
(* paths: from the database (LimitOffsetGraphqlPagination and                *)
(* PageGraphqlPagination), in memory when the rows of a nested list were     *)
(* prefetched, and as a window of the prefetch query itself                  *)
(* (DjangoNestedListObjectField.build_window_prefetch).  The list is a       *)
(* reverse foreign key without filters and hooks.                            *)
(***************************************************************************)
EXTENDS ListOrder

CONSTANT Blank \* an ordering argument that holds no term

(* What the client asks for: size is limit or the page size, at the offset  *)
(* or the page number.                                                      *)
Requests(sizes, positions, orders) ==
    [kind : {"offset", "page"}, size : sizes, at : positions, order : orders]
(* What the server was configured with: order is the paginator's, meta the  *)
(* model's, allowed the columns whose values the type publishes.            *)
Configurations(sizes, orders) ==
    [default : sizes, maximum : sizes, order : orders, meta : orders, allowed : SUBSET Column]

(* Without an order and a size the rows come as a set.                      *)
Refused == [is |-> "refused"]
Nothing == [is |-> "nothing"]
Declined == [is |-> "declined"]
Unordered(rows) == [is |-> "unordered", rows |-> rows]
Page(rows) == [is |-> "page", rows |-> rows]

Size(cfg, req) == ResolvePageSize(req.size, cfg.default, cfg.maximum)

(* The offset of a page, counted from the end when negative.               *)
PageOffset(page, size, count) ==
    IF page > 0 THEN size * (page - 1) ELSE Max({0, count + size * page})

(* _resolve_ordering: the allowlist comes with the client's argument, and   *)
(* not with the configured default.                                         *)
ResolveOrdering(cfg, req) ==
    IF req.order = None THEN [terms |-> cfg.order, allowed |-> Column]
    ELSE [terms |-> IF req.order = Blank THEN <<>> ELSE req.order, allowed |-> cfg.allowed]

(* _validate_ordering_terms *)
Permitted(o) == \A i \in DOMAIN o.terms : o.terms[i].col \in o.allowed

ByPk == <<[col |-> "pk", desc |-> FALSE]>>
PkTiebreakChecked(items, cfg, o) == \* mutant: the server's terms keep the client's allowlist
    IF o.terms # <<>> \/ items = <<>> THEN o
    ELSE [o EXCEPT !.terms = IF cfg.meta # <<>> THEN cfg.meta ELSE ByPk]
(* _pk_tiebreak_ordering *)
PkTiebreak(items, cfg, o) ==
    IF o.terms # <<>> \/ items = <<>> THEN o
    ELSE [terms |-> IF cfg.meta # <<>> THEN cfg.meta ELSE ByPk, allowed |-> Column]

(* The control that both paginators share; Sorted(o) is the path's way to   *)
(* apply an ordering that is permitted, unordered what it returns without.  *)
Answer(cfg, req, o, tie, sorted, unordered, count) ==
    LET size == Size(cfg, req)
        at == IF req.at # None THEN req.at ELSE IF req.kind = "page" THEN 1 ELSE 0
    IN  IF size = 0 THEN Refused
        ELSE IF req.kind = "page" /\ at = 0 THEN Refused
        ELSE IF req.kind = "page" /\ size = None THEN Nothing
        ELSE IF req.kind = "offset" /\ size = None
             THEN IF o.terms = <<>> THEN Unordered(unordered)
                  ELSE IF Permitted(o) THEN Page(sorted) ELSE Refused
        ELSE IF req.kind = "offset" /\ at < 0 THEN Refused
        ELSE IF ~Permitted(tie) THEN Refused
        ELSE Page(Slice(sorted,
                        IF req.kind = "page" THEN PageOffset(at, size, count) ELSE at, size))

(* _apply_ordering to a queryset: the terms, or the model's ordering.       *)
FromDatabase(table, cfg, req) ==
    LET o == ResolveOrdering(cfg, req)
        rows == Rows(table)
        sorted == OrderedBySql(rows, AppendPk(IF o.terms # <<>> THEN o.terms ELSE cfg.meta))
    IN  Answer(cfg, req, o, o, sorted, rows, Cardinality(rows))

(* _inmemory_order of what was prefetched, in the order it came. *)
FromMemory(items, cfg, req) ==
    LET o == ResolveOrdering(cfg, req)
        tie == IF Size(cfg, req) = None THEN o ELSE PkTiebreak(items, cfg, o)
        sorted == IF tie.terms = <<>> THEN items ELSE OrderedInMemory(items, AppendPk(tie.terms))
    IN  Answer(cfg, req, o, tie, sorted, ToSet(items), Len(items))

(* prefetch_window_slice and build_window_prefetch.  Declined: the list is  *)
(* prefetched as a whole and paginated in memory.                           *)
Declines(cfg, req, terms) ==
    \/ Size(cfg, req) = None
    \/ req.kind = "page" /\ req.at # None /\ req.at <= 0
    \/ terms = <<>> /\ "pk" \notin cfg.allowed
    \/ \E i \in DOMAIN terms : terms[i].col \notin cfg.allowed

(* The window numbers the rows in the order of the request, and those of the *)
(* page are fetched without an ORDER BY of the request.                     *)
Fetched(rows) == [is |-> "page", rows |-> rows]
FromWindow(table, cfg, req) ==
    LET size == Size(cfg, req)
        order == IF req.order = None THEN cfg.order
                 ELSE IF req.order = Blank THEN <<>> ELSE req.order
        terms == AppendPk(IF order = <<>> THEN cfg.meta ELSE order)
        rows == Rows(table)
        Number(r) == 1 + Cardinality({s \in rows : Precedes(terms, s, r)})
        at == IF req.at = None THEN 0 ELSE req.at
        offset == IF req.kind = "offset" THEN at
                  ELSE PageOffset(IF req.at = None THEN 1 ELSE req.at, size, 0)
    IN  IF size = 0 \/ (size # None /\ req.kind = "offset" /\ at < 0) THEN Refused
        ELSE IF Declines(cfg, req, order) THEN Declined
        ELSE Fetched({r \in rows : offset < Number(r) /\ Number(r) <= offset + size})

(* The queryset keeps the model's ordering as it stands: no key is appended *)
(* to it, and the database places the nulls, below every value (SQLite) or  *)
(* above (PostgreSQL).  Without an ordering the rows come in any order.     *)
RawBefore(term, nullsLow, r, s) ==
    IF r[term.col] # Null /\ s[term.col] # Null
    THEN SqlBefore(term, r, s)
    ELSE r[term.col] # s[term.col] /\ (r[term.col] = Null <=> term.desc # nullsLow)

MetaPrecedes(cfg, nullsLow, r, s) ==
    \E i \in DOMAIN cfg.meta :
        /\ RawBefore(cfg.meta[i], nullsLow, r, s)
        /\ \A j \in 1..(i - 1) : r[cfg.meta[j].col] = s[cfg.meta[j].col]

(* The lists that the fetched rows may arrive as; list_resolver returns     *)
(* them as they are.                                                        *)
Arrivals(cfg, rows) ==
    {list \in SetToSeqs(rows) :
        \E nullsLow \in BOOLEAN :
            \A i, j \in DOMAIN list :
                i < j => ~MetaPrecedes(cfg, nullsLow, list[j], list[i])}

-----------------------------------------------------------------------------
(* What a client gets does not depend on the path: the page of the database *)
(* is that of the prefetched rows, whatever order they came in, and the     *)
(* window, unless it declines, fetches those rows.                          *)
SameAnswer(a, b) == a.is = b.is /\ (a.is \in {"page", "unordered"} => a.rows = b.rows)
SameRows(a, b) == a.is = b.is /\ (a.is = "page" => ToSet(a.rows) = b.rows)

ListPathsAgree(table, cfg, req) ==
    LET page == FromDatabase(table, cfg, req)
        window == FromWindow(table, cfg, req)
    IN  /\ SameAnswer(page, FromMemory(SetToSeq(Rows(table)), cfg, req))
        /\ window.is = "declined" \/ SameRows(page, window)

(* "They are returned in order WITHOUT a second slice" (paginations/utils,   *)
(* _paginate_list_base), asked of no more than one database: among the      *)
(* lists that a window may arrive as is the page.                           *)
WindowMayBePage(table, cfg, req) ==
    LET page == FromDatabase(table, cfg, req)
        window == FromWindow(table, cfg, req)
    IN  window.is = "page" =>
            page.is = "page" /\ page.rows \in Arrivals(cfg, window.rows)

(* And there is no other.                                                   *)
WindowMustBePage(table, cfg, req) ==
    LET page == FromDatabase(table, cfg, req)
        window == FromWindow(table, cfg, req)
    IN  window.is = "page" =>
            page.is = "page" /\ Arrivals(cfg, window.rows) = {page.rows}
=============================================================================
