------------------------------ MODULE TokenLRU ------------------------------
(***************************************************************************)
(* The LRU of the document caches (views.py, _TokenLRU): an OrderedDict,     *)
(* here the sequence of its entries, least recently used first, that also    *)
(* totals the tokens its values retain.                                      *)
(***************************************************************************)
EXTENDS Integers, Sequences, SequencesExt, FiniteSetsExt

EmptyLRU == [entries |-> <<>>, tokens |-> 0]

Keys(lru) == {lru.entries[i].key : i \in DOMAIN lru.entries}
Has(lru, key) == key \in Keys(lru)
Position(entries, key) == CHOOSE i \in DOMAIN entries : entries[i].key = key
Entry(lru, key) == lru.entries[Position(lru.entries, key)]

(* pop. *)
Without(entries, key) ==
    IF \E i \in DOMAIN entries : entries[i].key = key
    THEN RemoveAt(entries, Position(entries, key)) ELSE entries

(* move_to_end. *)
Touch(lru, key) ==
    [lru EXCEPT !.entries = Append(Without(@, key), Entry(lru, key))]

Size(entries) ==
    LET sum[n \in 0..Len(entries)] == IF n = 0 THEN 0 ELSE sum[n - 1] + entries[n].size
    IN  sum[Len(entries)]

(* The while loop of admit: the least number of oldest entries goes.        *)
Fits(entries, tokens, maxsize, budget) == Len(entries) <= maxsize /\ tokens <= budget
Evict(lru, maxsize, budget) ==
    LET After(n) == [entries |-> SubSeq(lru.entries, n + 1, Len(lru.entries)),
                     tokens |-> lru.tokens - Size(SubSeq(lru.entries, 1, n))]
        fitting == {n \in 0..Len(lru.entries) :
                       Fits(After(n).entries, After(n).tokens, maxsize, budget)}
    IN  After(Min(fitting))

ReplacedNone(lru, key) == 0 \* mutant: the tokens of a replaced entry are not given back
Replaced(lru, key) == IF Has(lru, key) THEN Entry(lru, key).size ELSE 0

Admit(lru, key, value, size, maxsize, budget) ==
    Evict([entries |-> Append(Without(lru.entries, key),
                              [key |-> key, value |-> value, size |-> size]),
           tokens |-> lru.tokens - Replaced(lru, key) + size], maxsize, budget)

TrueTotal(lru) == lru.tokens = Size(lru.entries)
Within(lru, maxsize, budget) == Fits(lru.entries, Size(lru.entries), maxsize, budget)
=============================================================================
