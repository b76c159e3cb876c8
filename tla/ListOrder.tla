----------------------------- MODULE ListOrder -----------------------------
(***************************************************************************)
(* How a list of rows is put in order (paginations/pagination.py), by the    *)
(* database and, when a nested list was prefetched, in memory.  A row has    *)
(* its primary key and one nullable column v.                                *)
(***************************************************************************)
EXTENDS Integers, Sequences, SequencesExt, FiniteSets

CONSTANTS
    Pk,     \* a set of numbers
    Value,  \* of v: a set of numbers
    Null,
    Absent, \* no row has this key
    None    \* an argument that is null or left out, a setting that is not set

ASSUME ListOrderAssumption ==
    /\ IsFiniteSet(Pk) /\ Pk \subseteq Int /\ Value \subseteq Int
    /\ Null \notin Int /\ Absent \notin Int /\ Null # Absent

Column == {"pk", "v"}
Term == [col : Column, desc : BOOLEAN]
Table == [Pk -> Value \cup {Null, Absent}]
Row == [pk : Pk, v : Value \cup {Null}]

Rows(table) == {[pk |-> p, v |-> table[p]] : p \in {x \in DOMAIN table : table[x] # Absent}}

(* _append_model_pk_ordering: the key decides what the terms leave open.    *)
AppendPk(terms) ==
    IF \E i \in DOMAIN terms : terms[i].col = "pk"
    THEN terms
    ELSE Append(terms, [col |-> "pk", desc |-> FALSE])

(* What ORDER BY makes of one term.  _automatic_null_ordering and           *)
(* _order_terms place nulls last, or first when descending.                 *)
NullsFirstAsSQLite(term) == ~term.desc \* mutant: nulls are left to the database
NullsFirst(term) == term.desc
SqlBefore(term, r, s) ==
    LET a == r[term.col]
        b == s[term.col]
    IN  IF a # Null /\ b # Null
        THEN IF term.desc THEN a > b ELSE a < b
        ELSE a # b /\ (a = Null <=> NullsFirst(term))

Precedes(terms, r, s) ==
    \E i \in DOMAIN terms :
        /\ SqlBefore(terms[i], r, s)
        /\ \A j \in 1..(i - 1) : r[terms[j].col] = s[terms[j].col]

(* A set in a strict order: each element comes after those before it.       *)
InOrder(S, before(_, _)) ==
    LET placed == {<<Cardinality({y \in S : before(y, x)}), x>> : x \in S}
    IN  [k \in 1..Cardinality(S) |-> (CHOOSE p \in placed : p[1] = k - 1)[2]]

OrderedBySql(rows, terms) == InOrder(rows, LAMBDA r, s : Precedes(terms, r, s))

(* _sort_key, and one stable sort per term, the last term first. *)
SortKey(x) == IF x = Null THEN <<1, 0>> ELSE <<0, x>>
KeyLess(a, b) == a[1] < b[1] \/ (a[1] = b[1] /\ a[2] < b[2])
SortPass(items, term) ==
    LET Key(i) == SortKey(items[i][term.col])
        Goes(i, j) == IF Key(i) = Key(j) THEN i < j
                      ELSE IF term.desc THEN KeyLess(Key(j), Key(i)) ELSE KeyLess(Key(i), Key(j))
        from == InOrder(DOMAIN items, Goes)
    IN  [k \in DOMAIN items |-> items[from[k]]]
OrderedInMemory(items, terms) ==
    FoldRight(LAMBDA term, done : SortPass(done, term), terms, items)

Slice(items, offset, n) == SubSeq(items, offset + 1, Min({offset + n, Len(items)}))

(* _resolve_page_size; 0 stands for the refusal of a size that is not       *)
(* positive, None for no size at all.                                       *)
ResolvePageSize(requested, default, maximum) ==
    LET size == IF requested # None THEN requested
                ELSE IF default # None THEN default ELSE maximum
    IN  IF size = None THEN None
        ELSE IF size <= 0 THEN 0
        ELSE IF maximum = None THEN size ELSE Min({size, maximum})
=============================================================================
