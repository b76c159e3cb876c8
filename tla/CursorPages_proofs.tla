-------------------------- MODULE CursorPages_proofs --------------------------
(***************************************************************************)
(* Proofs about CursorPages, for every set of keys and values, every page    *)
(* size and any number of changes, and about ListPages, for every ordering   *)
(* that a request can name or a server configure.                            *)
(***************************************************************************)
EXTENDS MCPagination, FiniteSetTheorems, WellFoundedInduction, TLAPS

(* A strict total order on S, as a set of pairs.                            *)
StrictOrder(R, S) ==
    /\ \A x \in S : <<x, x>> \notin R
    /\ \A x, y \in S : x # y => <<x, y>> \in R \/ <<y, x>> \in R
    /\ \A x, y, z \in S : <<x, y>> \in R /\ <<y, z>> \in R => <<x, z>> \in R

(* Counting the elements before each numbers a finite set from 0, in order. *)
LEMMA Places ==
    ASSUME NEW S, IsFiniteSet(S), NEW R, StrictOrder(R, S),
           NEW place, place = [x \in S |-> Cardinality({y \in S : <<y, x>> \in R})]
    PROVE  /\ Cardinality(S) \in Nat
           /\ \A x \in S : place[x] \in 0..(Cardinality(S) - 1)
           /\ \A x, y \in S : place[x] < place[y] <=> <<x, y>> \in R
           /\ \A k \in 1..Cardinality(S) : \E x \in S : place[x] = k - 1
  <1> DEFINE Below(x) == {y \in S : <<y, x>> \in R}
             n == Cardinality(S)
  <1>1. /\ n \in Nat
        /\ \A x \in S : IsFiniteSet(Below(x)) /\ Cardinality(Below(x)) \in Nat
    BY FS_Subset, FS_CardinalityType
  <1>2. \A x \in S : place[x] = Cardinality(Below(x))
    OBVIOUS
  <1>3. ASSUME NEW x \in S PROVE place[x] \in 0..(n - 1)
    <2>1. Below(x) \in SUBSET S /\ Below(x) # S
      BY DEF StrictOrder
    <2>2. Cardinality(Below(x)) <= n /\ Cardinality(Below(x)) # n
      BY <2>1, FS_Subset
    <2> HIDE DEF Below, n
    <2>3. QED BY <1>1, <1>2, <2>2
  <1>4. ASSUME NEW x \in S, NEW y \in S, <<x, y>> \in R PROVE place[x] < place[y]
    <2>1. Below(x) \in SUBSET Below(y) /\ x \in Below(y) /\ x \notin Below(x)
      BY <1>4 DEF StrictOrder
    <2>2. Cardinality(Below(x)) <= Cardinality(Below(y))
          /\ Cardinality(Below(x)) # Cardinality(Below(y))
      <3> HIDE DEF Below
      <3> QED BY <1>1, <2>1, FS_Subset
    <2> HIDE DEF Below
    <2>3. QED BY <1>1, <1>2, <2>2
  <1>5. ASSUME NEW x \in S, NEW y \in S PROVE place[x] < place[y] <=> <<x, y>> \in R
    <2>1. place[x] \in Nat /\ place[y] \in Nat
      BY <1>1, <1>2
    <2>2. <<x, y>> \in R \/ x = y \/ <<y, x>> \in R
      BY DEF StrictOrder
    <2>3. QED BY <2>1, <2>2, <1>4
  <1>6. \A k \in 1..n : \E x \in S : place[x] = k - 1
    <2>1. IsFiniteSet(0..(n - 1)) /\ Cardinality(0..(n - 1)) = n
      BY <1>1, FS_Interval
    <2>2. place \in Injection(S, 0..(n - 1))
      <3>1. place \in [S -> 0..(n - 1)]
        BY <1>3
      <3>2. ASSUME NEW x \in S, NEW y \in S, place[x] = place[y] PROVE x = y
        <4>1. place[x] \in Nat /\ ~(place[x] < place[y]) /\ ~(place[y] < place[x])
          BY <1>1, <1>2, <3>2
        <4>2. QED BY <4>1, <1>5 DEF StrictOrder
      <3>3. QED BY <3>1, <3>2 DEF Injection, IsInjective
    <2>3. place \in Surjection(S, 0..(n - 1))
      <3> HIDE DEF n
      <3> QED BY <2>1, <2>2, FS_Injection DEF n
    <2>4. ASSUME NEW k \in 1..n PROVE \E x \in S : place[x] = k - 1
      <3>1. k - 1 \in 0..(n - 1)
        BY <1>1
      <3>2. QED BY <2>3, <3>1 DEF Surjection
    <2>5. QED BY <2>4
  <1>7. QED BY <1>1, <1>3, <1>5, <1>6

(* The sequence that InOrder makes of it. *)
Placed(S, R) == {<<Cardinality({y \in S : <<y, x>> \in R}), x>> : x \in S}
Listed(S, R) ==
    [k \in 1..Cardinality(S) |-> (CHOOSE p \in Placed(S, R) : p[1] = k - 1)[2]]

Ascending(list, S, R) ==
    /\ list \in [1..Cardinality(S) -> S]
    /\ \A i, j \in 1..Cardinality(S) : i < j => <<list[i], list[j]>> \in R
    /\ \A x \in S : \E i \in 1..Cardinality(S) : list[i] = x

LEMMA ByPlace ==
    ASSUME NEW S, IsFiniteSet(S), NEW R, StrictOrder(R, S)
    PROVE  Cardinality(S) \in Nat /\ Ascending(Listed(S, R), S, R)
  <1> DEFINE place == [x \in S |-> Cardinality({y \in S : <<y, x>> \in R})]
             n == Cardinality(S)
             placed == Placed(S, R)
             list == Listed(S, R)
  <1>1. /\ n \in Nat
        /\ \A x \in S : place[x] \in 0..(n - 1)
        /\ \A x, y \in S : place[x] < place[y] <=> <<x, y>> \in R
        /\ \A k \in 1..n : \E x \in S : place[x] = k - 1
    BY Places
  <1>2. placed = {<<place[x], x>> : x \in S}
    BY DEF Placed
  <1>3. list = [k \in 1..n |-> (CHOOSE p \in placed : p[1] = k - 1)[2]]
    BY DEF Listed
  <1> HIDE DEF place, n, placed, list
  <1>4. ASSUME NEW k \in 1..n PROVE list[k] \in S /\ place[list[k]] = k - 1
    <2>1. \E p \in placed : p[1] = k - 1
      <3>1. PICK x \in S : place[x] = k - 1
        BY <1>1
      <3>2. <<place[x], x>> \in placed
        BY <1>2
      <3>3. QED BY <3>1, <3>2
    <2> DEFINE q == CHOOSE p \in placed : p[1] = k - 1
    <2>2. q \in placed /\ q[1] = k - 1
      BY <2>1
    <2>3. list[k] = q[2]
      BY <1>3
    <2> HIDE DEF q
    <2>4. PICK x \in S : q = <<place[x], x>>
      BY <1>2, <2>2
    <2>5. q[1] = place[x] /\ q[2] = x
      BY <2>4
    <2>6. QED BY <2>2, <2>3, <2>5
  <1>5. list \in [1..n -> S]
    BY <1>3, <1>4
  <1>6. ASSUME NEW i \in 1..n, NEW j \in 1..n, i < j PROVE <<list[i], list[j]>> \in R
    <2>1. /\ list[i] \in S /\ place[list[i]] = i - 1
          /\ list[j] \in S /\ place[list[j]] = j - 1
      BY <1>4
    <2>2. place[list[i]] < place[list[j]]
      BY <1>1, <1>6, <2>1
    <2>3. QED BY <1>1, <2>1, <2>2
  <1>7. ASSUME NEW x \in S PROVE \E i \in 1..n : list[i] = x
    <2> DEFINE i == place[x] + 1
    <2>1. i \in 1..n /\ place[x] = i - 1
      BY <1>1
    <2>2. list[i] \in S /\ place[list[i]] = place[x]
      BY <1>4, <2>1
    <2>3. place[x] \in Nat /\ ~(place[x] < place[list[i]]) /\ ~(place[list[i]] < place[x])
      BY <1>1, <2>2
    <2>4. <<x, list[i]>> \notin R /\ <<list[i], x>> \notin R
      BY <1>1, <2>2, <2>3
    <2>5. list[i] = x
      BY <2>2, <2>4 DEF StrictOrder
    <2>6. QED BY <2>1, <2>5
  <1>8. QED BY <1>1, <1>5, <1>6, <1>7 DEF Ascending, n, list

-----------------------------------------------------------------------------
(* The order of a walk.                                                     *)

(* What the constants are assumed to be, in the form the proofs need.       *)
LEMMA Kinds ==
    /\ IsFiniteSet(Pk) /\ Pk \subseteq Int /\ Value \subseteq Int
    /\ Null \notin Int /\ Absent \notin Int /\ Null # Absent
  BY ListOrderAssumption

(* Whether row s comes after row r: nulls are the largest values, and the    *)
(* key decides between equal ones.                                          *)
Out(desc, a, b) == IF desc THEN a > b ELSE a < b
Apart(desc, a, b) ==
    IF a # Null /\ b # Null THEN Out(desc, a, b) ELSE a # b /\ (a = Null <=> desc)
After(desc, r, s) == Apart(desc, r.v, s.v) \/ (r.v = s.v /\ Out(desc, r.pk, s.pk))

(* It is a strict total order, which the other direction reverses.          *)
LEMMA AfterOrders ==
    ASSUME NEW desc \in BOOLEAN
    PROVE  /\ \A r \in Row : ~After(desc, r, r)
           /\ \A r, s \in Row : r # s => After(desc, r, s) \/ After(desc, s, r)
           /\ \A r, s, t \in Row : After(desc, r, s) /\ After(desc, s, t) => After(desc, r, t)
           /\ \A r, s \in Row : After(~desc, r, s) <=> After(desc, s, r)
  <1>1. \A r \in Row : r.pk \in Int /\ (r.v = Null \/ r.v \in Int)
    BY Kinds DEF Row
  <1>2. Null \notin Int
    BY Kinds
  <1>3. ASSUME NEW r \in Row PROVE ~After(desc, r, r)
    BY <1>1, <1>2 DEF After, Apart, Out
  <1>4. ASSUME NEW r \in Row, NEW s \in Row, r # s PROVE After(desc, r, s) \/ After(desc, s, r)
    <2>1. r.v # s.v \/ r.pk # s.pk
      BY <1>4 DEF Row
    <2>2. QED BY <1>1, <1>2, <2>1 DEF After, Apart, Out
  <1>5. ASSUME NEW r \in Row, NEW s \in Row, NEW t \in Row, After(desc, r, s), After(desc, s, t)
        PROVE  After(desc, r, t)
    <2>1. Apart(desc, r.v, s.v) /\ Apart(desc, s.v, t.v) => Apart(desc, r.v, t.v)
      BY <1>1, <1>2 DEF Apart, Out
    <2>2. Out(desc, r.pk, s.pk) /\ Out(desc, s.pk, t.pk) => Out(desc, r.pk, t.pk)
      BY <1>1 DEF Out
    <2>3. QED BY <1>5, <2>1, <2>2 DEF After
  <1>6. ASSUME NEW r \in Row, NEW s \in Row PROVE After(~desc, r, s) <=> After(desc, s, r)
    BY <1>1, <1>2 DEF After, Apart, Out
  <1>7. QED BY <1>3, <1>4, <1>5, <1>6

(* It is what ORDER BY makes of the terms of a walk, ...                    *)
LEMMA SqlIsAfter ==
    ASSUME NEW desc \in BOOLEAN, NEW r \in Row, NEW s \in Row
    PROVE  Precedes(OrderTerms(desc), r, s) <=> After(desc, r, s)
  <1> DEFINE V == [col |-> "v", desc |-> desc]
             P == [col |-> "pk", desc |-> desc]
             terms == <<V, P>>
  <1>1. OrderTerms(desc) = terms /\ DOMAIN terms = {1, 2} /\ terms[1] = V /\ terms[2] = P
    BY DEF OrderTerms
  <1>2. SqlBefore(V, r, s) <=> Apart(desc, r.v, s.v)
    BY DEF SqlBefore, NullsFirst, Apart, Out
  <1>3. SqlBefore(P, r, s) <=> Out(desc, r.pk, s.pk)
    <2>1. r.pk \in Int /\ s.pk \in Int
      BY Kinds DEF Row
    <2>2. r.pk # Null /\ s.pk # Null
      BY <2>1, Kinds
    <2>3. QED BY <2>2 DEF SqlBefore, Out
  <1>4. V.col = "v" /\ P.col = "pk"
    OBVIOUS
  <1>5. r[V.col] = r.v /\ s[V.col] = s.v
    BY <1>4
  <1> HIDE DEF terms, V, P
  <1>6. Precedes(terms, r, s) <=>
           SqlBefore(V, r, s) \/ (SqlBefore(P, r, s) /\ r[V.col] = s[V.col])
    <2>1. /\ 1..(1 - 1) = {} /\ 1..(2 - 1) = {1}
      OBVIOUS
    <2>2. QED BY <1>1, <2>1 DEF Precedes
  <1>7. QED BY <1>1, <1>2, <1>3, <1>5, <1>6 DEF After

(* ... what the predicate of a cursor selects, ...                          *)
LEMMA KeysetIsAfter ==
    ASSUME NEW desc \in BOOLEAN, NEW c \in Boundary, NEW r \in Row
    PROVE  KeysetPredicate(desc, c, r) <=> After(desc, c, r)
  <1>1. c.pk \in Int /\ r.pk \in Int /\ c.pk # Null /\ r.pk # Null
    BY Kinds DEF Row, Boundary
  <1>2. c.v \in Value \cup {Null} /\ r.v \in Value \cup {Null}
    BY DEF Row, Boundary
  <1>3. QED BY <1>1, <1>2, Kinds DEF KeysetPredicate, Beyond, After, Apart, Out

(* ... and the comparison in memory.                                        *)
LEMMA KeysCompare ==
    ASSUME NEW a \in Int \cup {Null}, NEW b \in Int \cup {Null}, NEW desc \in BOOLEAN
    PROVE  /\ SortKey(a) = SortKey(b) <=> a = b
           /\ a # b => (IF desc THEN KeyLess(SortKey(b), SortKey(a))
                        ELSE KeyLess(SortKey(a), SortKey(b))) = Apart(desc, a, b)
  BY Kinds DEF SortKey, KeyLess, Apart, Out

LEMMA InMemoryIsAfter ==
    ASSUME NEW desc \in BOOLEAN, NEW c \in Boundary, NEW r \in Row
    PROVE  InMemoryAfter(desc, c, r) <=> After(desc, c, r)
  <1>1. c.pk \in Int /\ r.pk \in Int /\ c.pk # Null /\ r.pk # Null
    BY Kinds DEF Row, Boundary
  <1>2. c.v \in Int \cup {Null} /\ r.v \in Int \cup {Null}
    BY Kinds DEF Row, Boundary
  <1>3. SortKey(r.v) # SortKey(c.v) => (InMemoryAfter(desc, c, r) <=> Apart(desc, c.v, r.v))
    BY <1>2, KeysCompare DEF InMemoryAfter
  <1>4. SortKey(r.v) = SortKey(c.v) => (InMemoryAfter(desc, c, r) <=> Out(desc, c.pk, r.pk))
    BY <1>1 DEF InMemoryAfter, SortKey, KeyLess, Out
  <1>5. SortKey(r.v) = SortKey(c.v) <=> r.v = c.v
    BY <1>2, KeysCompare
  <1>6. r.v = c.v => ~Apart(desc, c.v, r.v)
    BY <1>2, Kinds DEF Apart, Out
  <1>7. QED BY <1>3, <1>4, <1>5, <1>6 DEF After

-----------------------------------------------------------------------------
(* The two ways to sort.                                                    *)

(* The rows of S in the order of the walk. *)
Sorted(list, S, desc) ==
    /\ Cardinality(S) \in Nat
    /\ list \in [1..Cardinality(S) -> S]
    /\ \A i, j \in 1..Cardinality(S) : i < j => After(desc, list[i], list[j])
    /\ \A x \in S : \E i \in 1..Cardinality(S) : list[i] = x

(* The database sorts by the terms of the walk. *)
LEMMA SqlSorts ==
    ASSUME NEW desc \in BOOLEAN, NEW S \in SUBSET Row, IsFiniteSet(S)
    PROVE  Sorted(OrderedBySql(S, OrderTerms(desc)), S, desc)
  <1> DEFINE R == {p \in Row \X Row : After(desc, p[1], p[2])}
  <1>1. \A x, y \in S : <<x, y>> \in R <=> After(desc, x, y)
    OBVIOUS
  <1>2. StrictOrder(R, S)
    <2> HIDE DEF R
    <2> QED BY <1>1, AfterOrders DEF StrictOrder
  <1>3. \A x \in S : {y \in S : Precedes(OrderTerms(desc), y, x)} = {y \in S : <<y, x>> \in R}
    <2> HIDE DEF R
    <2> QED BY <1>1, SqlIsAfter
  <1>4. Placed(S, R) = {<<Cardinality({y \in S : Precedes(OrderTerms(desc), y, x)}), x>> : x \in S}
    <2> HIDE DEF R
    <2> QED BY <1>3 DEF Placed
  <1> HIDE DEF R
  <1>5. OrderedBySql(S, OrderTerms(desc)) = Listed(S, R)
    BY <1>4 DEF OrderedBySql, InOrder, Listed
  <1>6. Cardinality(S) \in Nat /\ Ascending(Listed(S, R), S, R)
    BY <1>2, ByPlace
  <1>7. QED BY <1>1, <1>5, <1>6 DEF Sorted, Ascending

(* How a stable pass compares the rows at two places. *)
Goes(rs, term, i, j) ==
    IF rs[i][term.col] = rs[j][term.col] THEN i < j
    ELSE Apart(term.desc, rs[i][term.col], rs[j][term.col])

(* A pass permutes the rows: those that differ in its column come in its    *)
(* order, the others stay in theirs.                                        *)
LEMMA PassSorts ==
    ASSUME NEW n \in Nat, NEW rs \in [1..n -> Row], NEW term \in Term
    PROVE  \E from \in [1..n -> 1..n] :
              /\ SortPass(rs, term) = [k \in 1..n |-> rs[from[k]]]
              /\ \A i \in 1..n : \E k \in 1..n : from[k] = i
              /\ \A k, l \in 1..n : k < l => Goes(rs, term, from[k], from[l])
  <1> DEFINE col(i) == rs[i][term.col]
             R == {p \in (1..n) \X (1..n) : Goes(rs, term, p[1], p[2])}
             from == Listed(1..n, R)
  <1>1. /\ DOMAIN rs = 1..n /\ IsFiniteSet(1..n) /\ Cardinality(1..n) = n
        /\ term.desc \in BOOLEAN
    BY FS_Interval DEF Term
  <1>2. \A i \in 1..n : col(i) \in Int \cup {Null}
    BY Kinds DEF Row, Term, Column
  <1>3. \A i, j \in 1..n : <<i, j>> \in R <=> Goes(rs, term, i, j)
    OBVIOUS
  <1>4. StrictOrder(R, 1..n)
    <2>1. ASSUME NEW i \in 1..n PROVE <<i, i>> \notin R
      BY <1>3 DEF Goes
    <2>2. ASSUME NEW i \in 1..n, NEW j \in 1..n, i # j PROVE <<i, j>> \in R \/ <<j, i>> \in R
      <3>1. col(i) = col(j) \/ Apart(term.desc, col(i), col(j)) \/ Apart(term.desc, col(j), col(i))
        <4> HIDE DEF col
        <4> QED BY <1>1, <1>2, Kinds DEF Apart, Out
      <3>2. i < j \/ j < i
        BY <2>2
      <3> HIDE DEF R
      <3>3. QED BY <1>3, <3>1, <3>2 DEF Goes
    <2>3. ASSUME NEW i \in 1..n, NEW j \in 1..n, NEW k \in 1..n, <<i, j>> \in R, <<j, k>> \in R
          PROVE  <<i, k>> \in R
      <3>1. Goes(rs, term, i, j) /\ Goes(rs, term, j, k)
        BY <1>3, <2>3
      <3>2. /\ IF col(i) = col(j) THEN i < j ELSE Apart(term.desc, col(i), col(j))
            /\ IF col(j) = col(k) THEN j < k ELSE Apart(term.desc, col(j), col(k))
        BY <3>1 DEF Goes
      <3>3. IF col(i) = col(k) THEN i < k ELSE Apart(term.desc, col(i), col(k))
        <4> HIDE DEF col
        <4> QED BY <1>1, <1>2, <3>2, Kinds DEF Apart, Out
      <3>4. Goes(rs, term, i, k)
        BY <3>3 DEF Goes
      <3>5. QED BY <1>3, <3>4
    <2>4. QED BY <2>1, <2>2, <2>3 DEF StrictOrder
  <1>5. SortPass(rs, term) = [k \in 1..n |-> rs[from[k]]]
    <2> DEFINE Key(i) == SortKey(rs[i][term.col])
               Less(i, j) == IF Key(i) = Key(j) THEN i < j
                             ELSE IF term.desc THEN KeyLess(Key(j), Key(i))
                                  ELSE KeyLess(Key(i), Key(j))
    <2>1. ASSUME NEW i \in 1..n, NEW j \in 1..n PROVE Less(i, j) <=> <<i, j>> \in R
      <3>1. Less(i, j) <=> Goes(rs, term, i, j)
        BY <1>1, <1>2, KeysCompare DEF Goes
      <3>2. QED BY <1>3, <3>1
    <2> DEFINE D == DOMAIN rs
               places == {<<Cardinality({y \in D : Less(y, x)}), x>> : x \in D}
    <2>2. \A x \in D : {y \in D : Less(y, x)} = {y \in D : <<y, x>> \in R}
      <3> HIDE DEF R, Less
      <3> QED BY <1>1, <2>1
    <2>3. Placed(D, R) = places
      <3> HIDE DEF R, Less, D
      <3> QED BY <2>2 DEF Placed
    <2>6. from = [k \in 1..Cardinality(D) |-> (CHOOSE p \in places : p[1] = k - 1)[2]]
      <3>1. from = Listed(D, R)
        <4>1. D = 1..n
          BY <1>1
        <4> HIDE DEF D, R
        <4>2. QED BY <4>1
      <3> HIDE DEF R, places, D, from
      <3>2. Listed(D, R) =
              [k \in 1..Cardinality(D) |-> (CHOOSE p \in Placed(D, R) : p[1] = k - 1)[2]]
        BY DEF Listed
      <3>3. QED BY <2>3, <3>1, <3>2
    <2>4. SortPass(rs, term) = [k \in D |-> rs[from[k]]]
      <3> DEFINE seq == [k \in 1..Cardinality(D) |-> (CHOOSE p \in places : p[1] = k - 1)[2]]
      <3>1. SortPass(rs, term) = [k \in D |-> rs[seq[k]]]
        BY DEF SortPass, InOrder
      <3> HIDE DEF seq, from
      <3>2. QED BY <2>6, <3>1 DEF seq
    <2>5. QED BY <1>1, <2>4
  <1> HIDE DEF R
  <1>7. Ascending(from, 1..n, R)
    BY <1>1, <1>4, ByPlace
  <1>8. /\ from \in [1..n -> 1..n]
        /\ \A k, l \in 1..n : k < l => <<from[k], from[l]>> \in R
        /\ \A i \in 1..n : \E k \in 1..n : from[k] = i
    BY <1>1, <1>7 DEF Ascending
  <1> HIDE DEF from
  <1>9. \A k, l \in 1..n : k < l => Goes(rs, term, from[k], from[l])
    BY <1>3, <1>8
  <1>10. QED BY <1>5, <1>8, <1>9

(* Keys tell the rows of a table apart. *)
KeyedRows(S) == S \in SUBSET Row /\ \A r, s \in S : r.pk = s.pk => r = s

LEMMA KeyedIsFinite ==
    ASSUME NEW S, KeyedRows(S)
    PROVE  IsFiniteSet(S)
  <1> DEFINE f == [r \in S |-> r.pk]
  <1>1. f \in Injection(S, Pk)
    BY DEF KeyedRows, Row, Injection, IsInjective
  <1>2. QED BY <1>1, Kinds, FS_Injection

(* Some sequence of a set. *)
LEMMA SomeSequence ==
    ASSUME NEW S, IsFiniteSet(S)
    PROVE  /\ Cardinality(S) \in Nat
           /\ SetToSeq(S) \in [1..Cardinality(S) -> S]
           /\ \A x \in S : \E i \in 1..Cardinality(S) : SetToSeq(S)[i] = x
           /\ \A i, j \in 1..Cardinality(S) : SetToSeq(S)[i] = SetToSeq(S)[j] => i = j
  <1> DEFINE n == Cardinality(S)
             f == SetToSeq(S)
  <1>1. n \in Nat /\ ExistsBijection(1..n, S)
    BY FS_CardinalityType
  <1>2. PICK g : g \in Bijection(1..n, S)
    BY <1>1 DEF ExistsBijection
  <1>3. g \in [1..n -> S] /\ IsInjective(g)
    BY <1>2 DEF Bijection, Injection, IsInjective
  <1>4. f \in [1..n -> S] /\ IsInjective(f)
    <2> HIDE DEF n
    <2> SUFFICES SetToSeq(S) \in [1..n -> S] /\ IsInjective(SetToSeq(S))
      OBVIOUS
    <2>1. SetToSeq(S) = CHOOSE h \in [1..n -> S] : IsInjective(h)
      BY DEF SetToSeq, n
    <2>2. QED BY <1>3, <2>1
  <1> HIDE DEF f
  <1>5. f \in Injection(1..n, S)
    BY <1>4 DEF Injection, IsInjective
  <1>6. f \in Surjection(1..n, S)
    <2>1. IsFiniteSet(1..n) /\ Cardinality(1..n) = n
      BY <1>1, FS_Interval
    <2>2. QED BY <1>5, <2>1, FS_Injection
  <1>7. QED BY <1>1, <1>4, <1>6 DEF f, Surjection, IsInjective

(* The fold over the two terms of a walk. *)
LEMMA TwoPasses ==
    ASSUME NEW rs, NEW a, NEW b
    PROVE  OrderedInMemory(rs, <<a, b>>) = SortPass(SortPass(rs, b), a)
  <1> DEFINE terms == <<a, b>>
             least(s) == CHOOSE x \in s : \A y \in s : x <= y
             body(g, s) == IF s = {} THEN rs
                           ELSE SortPass(g[s \ {least(s)}], terms[least(s)])
             isFold(g) == g = [s \in SUBSET DOMAIN terms |-> body(g, s)]
             g0 == [s \in SUBSET {1, 2} |->
                       IF s = {} THEN rs
                       ELSE IF s = {1} THEN SortPass(rs, a)
                       ELSE IF s = {2} THEN SortPass(rs, b)
                       ELSE SortPass(SortPass(rs, b), a)]
             fold == CHOOSE g : isFold(g)
  <1>1. DOMAIN terms = {1, 2} /\ terms[1] = a /\ terms[2] = b
    OBVIOUS
  <1>2. /\ SUBSET {1, 2} = {{}, {1}, {2}, {1, 2}}
        /\ least({1}) = 1 /\ least({2}) = 2 /\ least({1, 2}) = 1
        /\ {1} \ {1} = {} /\ {2} \ {2} = {} /\ {1, 2} \ {1} = {2}
    OBVIOUS
  <1> HIDE DEF least, terms
  <1>3. isFold(g0)
    <2>1. /\ g0[{}] = rs /\ g0[{1}] = SortPass(rs, a) /\ g0[{2}] = SortPass(rs, b)
          /\ g0[{1, 2}] = SortPass(SortPass(rs, b), a)
      BY <1>2
    <2>2. g0 = [s \in SUBSET {1, 2} |-> g0[s]]
      OBVIOUS
    <2> HIDE DEF g0
    <2>3. ASSUME NEW s \in SUBSET {1, 2} PROVE g0[s] = body(g0, s)
      <3>1. s = {} \/ s = {1} \/ s = {2} \/ s = {1, 2}
        BY <1>2
      <3>2. {1} # {} /\ {2} # {} /\ {1, 2} # {}
        OBVIOUS
      <3>3. body(g0, {}) = rs
        OBVIOUS
      <3>4. body(g0, {1}) = SortPass(rs, a) /\ body(g0, {2}) = SortPass(rs, b)
        BY <1>1, <1>2, <2>1, <3>2
      <3>5. body(g0, {1, 2}) = SortPass(SortPass(rs, b), a)
        BY <1>1, <1>2, <2>1, <3>2
      <3> HIDE DEF body
      <3>6. QED BY <2>1, <3>1, <3>3, <3>4, <3>5
    <2>4. QED BY <1>1, <2>2, <2>3
  <1>4. isFold(fold)
    <2> HIDE DEF isFold
    <2> QED BY <1>3
  <1>5. OrderedInMemory(rs, terms) = fold[DOMAIN terms]
    BY DEF OrderedInMemory, FoldRight, MapThenFoldSet, Min, least
  <1> HIDE DEF fold
  <1>6. \A s \in SUBSET {1, 2} : fold[s] = body(fold, s)
    BY <1>1, <1>4
  <1>7. /\ fold[{}] = rs /\ fold[{2}] = SortPass(fold[{}], b)
        /\ fold[{1, 2}] = SortPass(fold[{2}], a)
    <2>1. {} \in SUBSET {1, 2} /\ {2} \in SUBSET {1, 2} /\ {1, 2} \in SUBSET {1, 2}
      OBVIOUS
    <2>2. {2} # {} /\ {1, 2} # {}
      OBVIOUS
    <2>3. fold[{}] = rs
      BY <1>6, <2>1
    <2>4. fold[{2}] = body(fold, {2}) /\ fold[{1, 2}] = body(fold, {1, 2})
      BY <1>6, <2>1
    <2>5. body(fold, {2}) = SortPass(fold[{}], b)
      BY <1>1, <1>2, <2>2
    <2>6. body(fold, {1, 2}) = SortPass(fold[{2}], a)
      BY <1>1, <1>2, <2>2
    <2> HIDE DEF body
    <2>7. QED BY <2>3, <2>4, <2>5, <2>6
  <1>8. QED BY <1>1, <1>5, <1>7 DEF terms

(* Sorting by the key and then, stably, by the value is the same order.     *)
LEMMA MemorySorts ==
    ASSUME NEW desc \in BOOLEAN, NEW S, KeyedRows(S)
    PROVE  Sorted(InMemoryKeysetOrder(S, desc), S, desc)
  <1> DEFINE n == Cardinality(S)
             V == [col |-> "v", desc |-> desc]
             P == [col |-> "pk", desc |-> desc]
             s0 == SetToSeq(S)
             s1 == SortPass(s0, P)
             s2 == SortPass(s1, V)
  <1>1. /\ n \in Nat /\ s0 \in [1..n -> S] /\ S \subseteq Row
        /\ \A x \in S : \E i \in 1..n : s0[i] = x
        /\ \A i, j \in 1..n : s0[i] = s0[j] => i = j
    BY KeyedIsFinite, SomeSequence DEF KeyedRows
  <1>2. /\ V \in Term /\ V.col = "v" /\ V.desc = desc
        /\ P \in Term /\ P.col = "pk" /\ P.desc = desc
    BY DEF Term, Column
  <1>3. InMemoryKeysetOrder(S, desc) = s2
    BY TwoPasses DEF InMemoryKeysetOrder, OrderTerms
  <1> HIDE DEF V, P, n, s0, s1, s2
  <1>4. /\ s1 \in [1..n -> S]
        /\ \A x \in S : \E i \in 1..n : s1[i] = x
        /\ \A i, j \in 1..n : i < j => Out(desc, s1[i].pk, s1[j].pk)
    <2>0. s0 \in [1..n -> Row]
      BY <1>1
    <2>1. PICK f \in [1..n -> 1..n] :
              /\ s1 = [k \in 1..n |-> s0[f[k]]]
              /\ \A i \in 1..n : \E k \in 1..n : f[k] = i
              /\ \A k, l \in 1..n : k < l => Goes(s0, P, f[k], f[l])
      BY <1>1, <1>2, <2>0, PassSorts DEF s1
    <2>2. s1 \in [1..n -> S] /\ \A x \in S : \E i \in 1..n : s1[i] = x
      <3>1. \A k \in 1..n : s1[k] = s0[f[k]] /\ f[k] \in 1..n
        BY <2>1
      <3>2. ASSUME NEW x \in S PROVE \E i \in 1..n : s1[i] = x
        <4>1. PICK i \in 1..n : s0[i] = x
          BY <1>1
        <4>2. PICK k \in 1..n : f[k] = i
          BY <2>1
        <4>3. QED BY <3>1, <4>1, <4>2
      <3>3. s1 \in [1..n -> S]
        BY <1>1, <2>1
      <3>4. QED BY <3>2, <3>3
    <2>3. ASSUME NEW i \in 1..n, NEW j \in 1..n, i < j PROVE Out(desc, s1[i].pk, s1[j].pk)
      <3>1. Goes(s0, P, f[i], f[j]) /\ f[i] \in 1..n /\ f[j] \in 1..n
        BY <2>1, <2>3
      <3>2. s1[i] = s0[f[i]] /\ s1[j] = s0[f[j]] /\ s1[i] \in S /\ s1[j] \in S
        BY <1>1, <2>1
      <3>3. s1[i].pk # s1[j].pk
        <4>1. SUFFICES ASSUME s1[i].pk = s1[j].pk PROVE FALSE
          OBVIOUS
        <4>2. s1[i] = s1[j]
          BY <3>2, <4>1 DEF KeyedRows
        <4>3. f[i] = f[j]
          BY <1>1, <3>1, <3>2, <4>2
        <4>4. f[i] < f[j]
          BY <1>2, <3>1, <3>2, <4>1 DEF Goes
        <4>5. QED BY <3>1, <4>3, <4>4
      <3>4. Apart(desc, s1[i].pk, s1[j].pk)
        BY <1>2, <3>1, <3>2, <3>3 DEF Goes
      <3>5. s1[i].pk \in Int /\ s1[j].pk \in Int
        BY <1>1, <3>2, Kinds DEF Row
      <3>6. QED BY <3>4, <3>5, Kinds DEF Apart
    <2>4. QED BY <2>2, <2>3
  <1>5. s1 \in [1..n -> Row]
    BY <1>1, <1>4
  <1>6. PICK f \in [1..n -> 1..n] :
            /\ s2 = [k \in 1..n |-> s1[f[k]]]
            /\ \A i \in 1..n : \E k \in 1..n : f[k] = i
            /\ \A k, l \in 1..n : k < l => Goes(s1, V, f[k], f[l])
    BY <1>1, <1>2, <1>5, PassSorts DEF s2
  <1>7. s2 \in [1..n -> S] /\ \A x \in S : \E i \in 1..n : s2[i] = x
    BY <1>4, <1>6
  <1>8. ASSUME NEW i \in 1..n, NEW j \in 1..n, i < j PROVE After(desc, s2[i], s2[j])
    <2>1. Goes(s1, V, f[i], f[j]) /\ f[i] \in 1..n /\ f[j] \in 1..n
      BY <1>6, <1>8
    <2>2. s2[i] = s1[f[i]] /\ s2[j] = s1[f[j]]
      BY <1>6
    <2>3. IF s2[i].v = s2[j].v THEN f[i] < f[j] ELSE Apart(desc, s2[i].v, s2[j].v)
      BY <1>2, <2>1, <2>2 DEF Goes
    <2>4. s2[i].v = s2[j].v => Out(desc, s2[i].pk, s2[j].pk)
      BY <1>4, <2>1, <2>2, <2>3
    <2>5. QED BY <2>3, <2>4 DEF After
  <1>9. QED BY <1>1, <1>3, <1>7, <1>8 DEF Sorted, n

-----------------------------------------------------------------------------
(* Pages.                                                                   *)

LEMMA MinOfTwo ==
    ASSUME NEW a \in Int, NEW b \in Int
    PROVE  Min({a, b}) = IF a <= b THEN a ELSE b
  <1> DEFINE m == IF a <= b THEN a ELSE b
  <1>1. m \in {a, b} /\ \A y \in {a, b} : m <= y
    OBVIOUS
  <1>2. \A x \in {a, b} : (\A y \in {a, b} : x <= y) => x = m
    OBVIOUS
  <1> HIDE DEF m
  <1>3. QED BY <1>1, <1>2 DEF Min, m

(* A slice is what it is meant to be. *)
CutLen(list, offset, n) == IF offset + n <= Len(list) THEN n ELSE Len(list) - offset

LEMMA SliceFacts ==
    ASSUME NEW S, NEW list \in Seq(S), NEW offset \in 0..Len(list), NEW n \in Nat
    PROVE  /\ CutLen(list, offset, n) \in Nat
           /\ Slice(list, offset, n) \in Seq(S)
           /\ Len(Slice(list, offset, n)) = CutLen(list, offset, n)
           /\ \A i \in 1..CutLen(list, offset, n) : Slice(list, offset, n)[i] = list[offset + i]
  <1> DEFINE m == Len(list)
             k == CutLen(list, offset, n)
  <1>1. m \in Nat /\ k \in Nat /\ offset + k <= m /\ list \in [1..m -> S]
    BY DEF CutLen
  <1>2. Min({offset + n, m}) = offset + k
    BY <1>1, MinOfTwo DEF CutLen
  <1>3. Slice(list, offset, n) = SubSeq(list, offset + 1, offset + k)
    BY <1>2 DEF Slice
  <1> HIDE DEF k
  <1>4. SubSeq(list, offset + 1, offset + k) = [i \in 1..k |-> list[offset + i]]
    BY <1>1
  <1>5. [i \in 1..k |-> list[offset + i]] \in Seq(S)
    BY <1>1
  <1>6. Len([i \in 1..k |-> list[offset + i]]) = k
    BY <1>1, <1>5
  <1>7. QED BY <1>1, <1>3, <1>4, <1>5, <1>6 DEF k

(* The first n rows of S beyond c, in order: none that comes before the     *)
(* last one is left out.                                                    *)
Beyonds(S, desc, c) == {r \in S : c = None \/ After(desc, c, r)}
Segment(P, S, desc, c, n) ==
    /\ P \in Seq(S) /\ Len(P) <= n
    /\ \A i \in 1..Len(P) : P[i] \in Beyonds(S, desc, c)
    /\ \A i, j \in 1..Len(P) : i < j => After(desc, P[i], P[j])
    /\ \A r \in Beyonds(S, desc, c) :
          \/ \E i \in 1..Len(P) : P[i] = r
          \/ Len(P) = n /\ After(desc, P[n], r)

(* Whether something comes after it or before it. *)
More(P, S, desc) == P # <<>> /\ \E r \in S : After(desc, Last(P), r)
Less(P, S, desc) == P # <<>> /\ \E r \in S : After(desc, r, Head(P))

(* The last of a sequence that is not empty. *)
LEMMA Ends ==
    ASSUME NEW S, NEW P \in Seq(S), P # <<>>
    PROVE  /\ Len(P) \in Nat \ {0} /\ Head(P) = P[1] /\ Last(P) = P[Len(P)]
           /\ Head(P) \in S /\ Last(P) \in S
  BY DEF Last

(* What the ends of a cut P of a list with m rows are. *)
FirstAndLast(P, list, start, n, m, desc) ==
    /\ P # <<>> => Head(P) = list[start + 1]
    /\ P = <<>> <=> start = m
    /\ P # <<>> /\ start + n >= m => Last(P) = list[m]
    /\ start + n < m => P # <<>> /\ After(desc, Last(P), list[start + n + 1])

(* A cut of a sorted list that begins where its rows get beyond c.           *)
LEMMA CutIsSegment ==
    ASSUME NEW desc \in BOOLEAN, NEW S \in SUBSET Row, NEW T \in SUBSET S, NEW c,
           NEW list, Sorted(list, T, desc), NEW n \in Nat \ {0},
           Beyonds(S, desc, c) \subseteq T,
           NEW start \in 0..Cardinality(T),
           \A i \in 1..Cardinality(T) : i > start <=> list[i] \in Beyonds(S, desc, c)
    PROVE  /\ Segment(Slice(list, start, n), S, desc, c, n)
           /\ FirstAndLast(Slice(list, start, n), list, start, n, Cardinality(T), desc)
  <1> DEFINE m == Cardinality(T)
             P == Slice(list, start, n)
  <1>1. /\ m \in Nat /\ list \in [1..m -> T]
        /\ \A i, j \in 1..m : i < j => After(desc, list[i], list[j])
        /\ \A x \in T : \E i \in 1..m : list[i] = x
        /\ start \in 0..m
        /\ \A i \in 1..m : i > start <=> list[i] \in Beyonds(S, desc, c)
    BY DEF Sorted
  <1> HIDE DEF m
  <1>2. PICK k \in Nat :
            /\ start + n <= m => k = n
            /\ start + n > m => k = m - start
            /\ P \in Seq(T) /\ Len(P) = k /\ \A i \in 1..k : P[i] = list[start + i]
    <2>1. list \in Seq(T) /\ Len(list) = m /\ start \in 0..Len(list) /\ n \in Nat
      BY <1>1
    <2>2. /\ CutLen(list, start, n) \in Nat
          /\ P \in Seq(T) /\ Len(P) = CutLen(list, start, n)
          /\ \A i \in 1..CutLen(list, start, n) : P[i] = list[start + i]
      BY <2>1, SliceFacts
    <2>3. QED BY <2>1, <2>2 DEF CutLen
  <1>3. P \in Seq(S) /\ k <= n /\ start + k <= m
    BY <1>1, <1>2
  <1>4. \A i \in 1..k : P[i] = list[start + i] /\ start + i \in 1..m
    BY <1>1, <1>2, <1>3
  <1>5. (P = <<>> <=> start = m) /\ (P # <<>> => Head(P) = P[1] /\ Last(P) = P[k] /\ k # 0)
    <2>1. P = <<>> <=> k = 0
      <3> HIDE DEF P
      <3> QED BY <1>2
    <2>2. k = 0 <=> start = m
      BY <1>1, <1>2
    <2>3. P # <<>> => Head(P) = P[1] /\ Last(P) = P[k]
      <3> HIDE DEF P
      <3> QED BY <1>2, Ends
    <2>4. QED BY <2>1, <2>2, <2>3
  <1> HIDE DEF P
  <1>6. \A i \in 1..k : P[i] \in Beyonds(S, desc, c)
    BY <1>1, <1>2, <1>4
  <1>7. ASSUME NEW i \in 1..k, NEW j \in 1..k, i < j PROVE After(desc, P[i], P[j])
    <2>1. start + i < start + j
      BY <1>1, <1>2, <1>7
    <2>2. QED BY <1>1, <1>4, <2>1
  <1>8. ASSUME NEW r \in Beyonds(S, desc, c)
        PROVE  (\E i \in 1..k : P[i] = r) \/ (k = n /\ After(desc, P[n], r))
    <2>1. PICK i \in 1..m : list[i] = r
      BY <1>1
    <2>2. i > start
      BY <1>1, <2>1
    <2>3. CASE i <= start + k
      <3>1. i - start \in 1..k /\ P[i - start] = r
        BY <1>1, <1>2, <1>4, <2>1, <2>2, <2>3
      <3>2. QED BY <3>1
    <2>4. CASE i > start + k
      <3>1. k = n /\ start + n <= m
        BY <1>1, <1>2, <2>1, <2>4
      <3>2. P[n] = list[start + n] /\ start + n \in 1..m
        BY <1>4, <3>1
      <3>3. QED BY <1>1, <2>1, <2>4, <3>1, <3>2
    <2>5. i <= start + k \/ i > start + k
      BY <1>1, <1>2
    <2>6. QED BY <2>3, <2>4, <2>5
  <1>9. Segment(P, S, desc, c, n)
    BY <1>2, <1>3, <1>6, <1>7, <1>8 DEF Segment
  <1>10. P # <<>> => Head(P) = list[start + 1]
    BY <1>2, <1>4, <1>5
  <1>11. P # <<>> /\ start + n >= m => Last(P) = list[m]
    <2>1. SUFFICES ASSUME P # <<>>, start + n >= m PROVE Last(P) = list[m]
      OBVIOUS
    <2>2. k # 0
      BY <1>5, <2>1
    <2>3. start + k = m /\ k \in 1..k
      BY <1>1, <1>2, <2>1, <2>2
    <2>4. QED BY <1>4, <1>5, <2>1, <2>3
  <1>12. start + n < m => /\ P # <<>> /\ Last(P) = list[start + n]
                          /\ After(desc, Last(P), list[start + n + 1])
    <2>1. SUFFICES ASSUME start + n < m
                   PROVE  /\ P # <<>> /\ Last(P) = list[start + n]
                          /\ After(desc, Last(P), list[start + n + 1])
      OBVIOUS
    <2>0. start # m /\ start + n <= m
      BY <1>1, <2>1
    <2>2. P # <<>> /\ k = n /\ n \in 1..k
      BY <1>2, <1>5, <2>0
    <2>3. Last(P) = list[start + n]
      BY <1>4, <1>5, <2>2
    <2>4. start + n \in 1..m /\ start + n + 1 \in 1..m /\ start + n < start + n + 1
      BY <1>1, <2>1
    <2>5. QED BY <1>1, <2>2, <2>3, <2>4
  <1>13. QED BY <1>5, <1>9, <1>10, <1>11, <1>12 DEF P, m, FirstAndLast

(* Something comes after a cut exactly if the list goes on.                 *)
LEMMA CutGoesOn ==
    ASSUME NEW desc \in BOOLEAN, NEW S \in SUBSET Row, NEW T \in SUBSET S,
           NEW c \in Boundary \cup {None},
           NEW list, Sorted(list, T, desc), NEW n \in Nat \ {0},
           Beyonds(S, desc, c) \subseteq T,
           NEW start \in 0..Cardinality(T),
           \A i \in 1..Cardinality(T) : i > start <=> list[i] \in Beyonds(S, desc, c)
    PROVE  start + n < Cardinality(T) <=> More(Slice(list, start, n), S, desc)
  <1> DEFINE m == Cardinality(T)
             P == Slice(list, start, n)
  <1>1. /\ m \in Nat /\ list \in [1..m -> T] /\ start \in 0..m
        /\ \A i, j \in 1..m : i < j => After(desc, list[i], list[j])
        /\ \A x \in T : \E i \in 1..m : list[i] = x
        /\ \A i \in 1..m : i > start <=> list[i] \in Beyonds(S, desc, c)
    BY DEF Sorted
  <1>2. /\ Segment(P, S, desc, c, n)
        /\ FirstAndLast(P, list, start, n, m, desc)
    BY CutIsSegment
  <1> HIDE DEF P, m
  <1>3. CASE start + n < m
    <2>1. start + n + 1 \in 1..m
      BY <1>1, <1>3
    <2>2. list[start + n + 1] \in S
      BY <1>1, <2>1
    <2>3. QED BY <1>2, <1>3, <2>2 DEF More, P, m, FirstAndLast
  <1>4. CASE ~(start + n < m)
    <2>1. SUFFICES ASSUME P # <<>>, NEW r \in S, After(desc, Last(P), r) PROVE FALSE
      BY <1>4 DEF More, P, m
    <2>2. Last(P) = list[m] /\ m \in 1..m /\ m > start
      BY <1>1, <1>2, <1>4, <2>1 DEF FirstAndLast
    <2>3. list[m] \in T /\ list[m] \in Beyonds(S, desc, c) /\ list[m] \in Row /\ r \in Row
      BY <1>1, <2>2
    <2>4. c = None \/ After(desc, c, r)
      <3>1. CASE c = None
        BY <3>1
      <3>2. CASE c # None
        <4>1. c \in Row
          BY <3>2 DEF Boundary, Row
        <4>2. After(desc, c, list[m])
          BY <2>3, <3>2 DEF Beyonds
        <4>3. After(desc, list[m], r)
          BY <2>1, <2>2
        <4>4. QED BY <2>3, <4>1, <4>2, <4>3, AfterOrders
      <3>3. QED BY <3>1, <3>2
    <2>5. r \in T
      BY <2>4 DEF Beyonds
    <2>6. PICK i \in 1..m : list[i] = r
      BY <1>1, <2>5
    <2>7. i = m \/ i < m
      BY <1>1
    <2>8. r = list[m] \/ After(desc, r, list[m])
      BY <1>1, <2>2, <2>6, <2>7
    <2>9. QED BY <2>1, <2>2, <2>3, <2>8, AfterOrders
  <1>5. QED BY <1>3, <1>4

(* A slice from the beginning.                                              *)
LEMMA CutFromStart ==
    ASSUME NEW S, NEW list \in Seq(S), NEW n \in Nat
    PROVE  /\ CutLen(list, 0, n) \in Nat
           /\ Slice(list, 0, n) \in Seq(S)
           /\ Len(Slice(list, 0, n)) = CutLen(list, 0, n)
           /\ \A i \in 1..CutLen(list, 0, n) : Slice(list, 0, n)[i] = list[i]
  <1> PICK o \in 0..Len(list) : o = 0
    OBVIOUS
  <1>1. /\ CutLen(list, o, n) \in Nat
        /\ Slice(list, o, n) \in Seq(S)
        /\ Len(Slice(list, o, n)) = CutLen(list, o, n)
        /\ \A i \in 1..CutLen(list, o, n) : Slice(list, o, n)[i] = list[o + i]
    BY SliceFacts
  <1>2. \A i \in 1..CutLen(list, o, n) : o + i = i
    BY <1>1
  <1>3. \A i \in 1..CutLen(list, o, n) : Slice(list, o, n)[i] = list[i]
    BY <1>1, <1>2
  <1>4. QED BY <1>1, <1>3

(* The statement of a page, and the one of its pageInfo, which asks for one *)
(* row more.                                                                *)
LEMMA SqlPage ==
    ASSUME NEW desc \in BOOLEAN, NEW S \in SUBSET Row, IsFiniteSet(S),
           NEW c \in Boundary \cup {None}, NEW n \in Nat \ {0}
    PROVE  /\ Segment(FromQueryset(S, desc, c, n), S, desc, c, n)
           /\ Slice(FromQueryset(S, desc, c, n + 1), 0, n) = FromQueryset(S, desc, c, n)
           /\ Len(FromQueryset(S, desc, c, n + 1)) > n
                 <=> More(FromQueryset(S, desc, c, n), S, desc)
  <1> DEFINE T == Matching(S, desc, c)
             m == Cardinality(T)
             list == OrderedBySql(T, OrderTerms(desc))
             P == Slice(list, 0, n)
             Q == Slice(list, 0, n + 1)
  <1>1. T = Beyonds(S, desc, c) /\ T \in SUBSET S
    BY KeysetIsAfter DEF Matching, Beyonds
  <1>2. Sorted(list, T, desc)
    <2> HIDE DEF T
    <2>1. T \in SUBSET Row /\ IsFiniteSet(T)
      BY <1>1, FS_Subset
    <2>2. QED BY <2>1, SqlSorts
  <1>3. FromQueryset(S, desc, c, n) = P /\ FromQueryset(S, desc, c, n + 1) = Q
    BY DEF FromQueryset
  <1> HIDE DEF T, list
  <1>4. /\ m \in Nat /\ list \in [1..m -> T] /\ 0 \in 0..m
        /\ \A i \in 1..m : i > 0 <=> list[i] \in Beyonds(S, desc, c)
    BY <1>1, <1>2 DEF Sorted
  <1>5. Segment(P, S, desc, c, n)
    <2> HIDE DEF P
    <2> QED BY <1>1, <1>2, <1>4, CutIsSegment DEF P
  <1>6. 0 + n < m <=> More(P, S, desc)
    <2> HIDE DEF P
    <2> QED BY <1>1, <1>2, <1>4, CutGoesOn DEF P
  <1> HIDE DEF m
  <1>7. list \in Seq(T) /\ Len(list) = m
    BY <1>4
  <1> DEFINE k == CutLen(list, 0, n)
             l == CutLen(list, 0, n + 1)
  <1> HIDE DEF P, Q
  <1>8. /\ k \in Nat /\ P \in Seq(T) /\ Len(P) = k /\ \A i \in 1..k : P[i] = list[i]
        /\ l \in Nat /\ Q \in Seq(T) /\ Len(Q) = l /\ \A i \in 1..l : Q[i] = list[i]
    <2>1. n \in Nat /\ n + 1 \in Nat
      OBVIOUS
    <2> HIDE DEF k, l
    <2>2. /\ CutLen(list, 0, n) \in Nat
          /\ Slice(list, 0, n) \in Seq(T) /\ Len(Slice(list, 0, n)) = CutLen(list, 0, n)
          /\ \A i \in 1..CutLen(list, 0, n) : Slice(list, 0, n)[i] = list[i]
      BY <1>7, <2>1, CutFromStart
    <2>3. /\ CutLen(list, 0, n + 1) \in Nat
          /\ Slice(list, 0, n + 1) \in Seq(T)
          /\ Len(Slice(list, 0, n + 1)) = CutLen(list, 0, n + 1)
          /\ \A i \in 1..CutLen(list, 0, n + 1) : Slice(list, 0, n + 1)[i] = list[i]
      BY <1>7, <2>1, CutFromStart
    <2>4. QED BY <2>2, <2>3 DEF k, l, P, Q
  <1>9. /\ k = (IF n <= m THEN n ELSE m) /\ l = IF n + 1 <= m THEN n + 1 ELSE m
        /\ CutLen(Q, 0, n) = k /\ k <= l
    BY <1>4, <1>7, <1>8 DEF CutLen
  <1> HIDE DEF k, l
  <1>10. Len(Q) > n <=> 0 + n < m
    BY <1>4, <1>8, <1>9
  <1>11. Slice(Q, 0, n) = P
    <2>1. n \in Nat
      OBVIOUS
    <2>2. /\ Slice(Q, 0, n) \in Seq(T) /\ Len(Slice(Q, 0, n)) = k
          /\ \A i \in 1..k : Slice(Q, 0, n)[i] = Q[i]
      BY <1>8, <1>9, <2>1, CutFromStart
    <2>3. \A i \in 1..k : Slice(Q, 0, n)[i] = P[i]
      BY <1>8, <1>9, <2>2
    <2>4. QED BY <1>8, <2>2, <2>3
  <1>12. QED BY <1>3, <1>5, <1>6, <1>10, <1>11

(* Where the rows beyond a cursor begin in memory. *)
LEMMA MinIsLeast ==
    ASSUME NEW A \in SUBSET Nat, A # {}
    PROVE  Min(A) \in A /\ \A y \in A : Min(A) <= y
  <1> DEFINE Below == {p \in Nat \X Nat : p[1] < p[2]}
  <1>1. IsWellFoundedOn(Below, Nat)
    BY NatLessThanWellFounded DEF OpToRel
  <1>2. PICK x \in A : \A y \in A : <<y, x>> \notin Below
    BY <1>1, WFMin
  <1>3. ASSUME NEW y \in A PROVE x <= y
    <2>1. <<y, x>> \in Nat \X Nat /\ ~(<<y, x>>[1] < <<y, x>>[2])
      BY <1>2
    <2>2. QED BY <2>1
  <1>4. QED BY <1>3 DEF Min

LEMMA StartOfCut ==
    ASSUME NEW desc \in BOOLEAN, NEW S \in SUBSET Row, NEW c \in Boundary \cup {None},
           NEW list, Sorted(list, S, desc)
    PROVE  /\ InMemoryCursorStart(list, desc, c) \in 0..Cardinality(S)
           /\ \A i \in 1..Cardinality(S) :
                 i > InMemoryCursorStart(list, desc, c) <=> list[i] \in Beyonds(S, desc, c)
  <1> DEFINE m == Cardinality(S)
             start == InMemoryCursorStart(list, desc, c)
             Hit == {j \in DOMAIN list : InMemoryAfter(desc, c, list[j])}
             A == {i - 1 : i \in Hit} \cup {Len(list)}
  <1>1. /\ m \in Nat /\ list \in [1..m -> S] /\ list \in Seq(S) /\ Len(list) = m
        /\ \A i, j \in 1..m : i < j => After(desc, list[i], list[j])
    BY DEF Sorted
  <1>2. CASE c = None
    BY <1>1, <1>2 DEF InMemoryCursorStart, Beyonds
  <1>3. CASE c # None
    <2>1. c \in Boundary /\ c \in Row
      BY <1>3 DEF Boundary, Row
    <2>2. \A i \in 1..m : i \in Hit <=> list[i] \in Beyonds(S, desc, c)
      BY <1>1, <1>3, <2>1, InMemoryIsAfter DEF Beyonds
    <2>3. A \in SUBSET Nat /\ A # {} /\ start = Min(A)
      BY <1>1, <1>3 DEF InMemoryCursorStart
    <2>4. start \in A /\ \A y \in A : start <= y
      BY <2>3, MinIsLeast
    <2>5. start \in 0..m
      <3>1. m \in A
        BY <1>1
      <3> HIDE DEF start
      <3>2. QED BY <1>1, <2>3, <2>4, <3>1
    <2>6. ASSUME NEW i \in 1..m, list[i] \in Beyonds(S, desc, c) PROVE i > start
      <3>1. i - 1 \in A
        BY <2>2, <2>6
      <3> HIDE DEF start, A
      <3>2. QED BY <2>4, <2>5, <3>1
    <2>7. ASSUME NEW i \in 1..m, i > start PROVE list[i] \in Beyonds(S, desc, c)
      <3>1. start # m
        BY <1>1, <2>5, <2>7
      <3>2. PICK j \in Hit : start = j - 1
        <4> HIDE DEF start
        <4> QED BY <1>1, <2>4, <3>1
      <3>3. j \in 1..m /\ list[j] \in Beyonds(S, desc, c)
        BY <1>1, <2>2
      <3>4. j = i \/ j < i
        BY <2>5, <2>7, <3>2, <3>3
      <3>5. CASE j < i
        <4>1. list[i] \in Row /\ list[j] \in Row /\ list[i] \in S /\ After(desc, list[j], list[i])
          BY <1>1, <3>3, <3>5
        <4>2. After(desc, c, list[j])
          BY <1>3, <3>3 DEF Beyonds
        <4>3. QED BY <2>1, <4>1, <4>2, AfterOrders DEF Beyonds
      <3>6. QED BY <3>3, <3>4, <3>5
    <2>8. QED BY <2>5, <2>6, <2>7
  <1>4. QED BY <1>2, <1>3

(* The page that is cut out of the prefetched rows.                         *)
LEMMA MemoryPage ==
    ASSUME NEW desc \in BOOLEAN, NEW S, KeyedRows(S),
           NEW c \in Boundary \cup {None}, NEW n \in Nat \ {0},
           NEW list, list = InMemoryKeysetOrder(S, desc),
           NEW start, start = InMemoryCursorStart(list, desc, c)
    PROVE  /\ Segment(FromItems(S, desc, c, n), S, desc, c, n)
           /\ Slice(list, start, n) = FromItems(S, desc, c, n)
           /\ start + n < Len(list) <=> More(FromItems(S, desc, c, n), S, desc)
           /\ FromItems(S, desc, c, n) # <<>> =>
                  (start > 0 <=> Less(FromItems(S, desc, c, n), S, desc))
  <1> DEFINE m == Cardinality(S)
             P == Slice(list, start, n)
  <1>1. P = FromItems(S, desc, c, n)
    BY DEF FromItems
  <1>2. Sorted(list, S, desc) /\ S \in SUBSET Row
    BY MemorySorts DEF KeyedRows
  <1>3. /\ start \in 0..m
        /\ \A i \in 1..m : i > start <=> list[i] \in Beyonds(S, desc, c)
    BY <1>2, StartOfCut
  <1>4. Beyonds(S, desc, c) \subseteq S
    BY DEF Beyonds
  <1>5. /\ Segment(P, S, desc, c, n)
        /\ FirstAndLast(P, list, start, n, m, desc)
    <2> HIDE DEF P
    <2> QED BY <1>2, <1>3, <1>4, CutIsSegment DEF P
  <1>6. start + n < m <=> More(P, S, desc)
    <2> HIDE DEF P
    <2> QED BY <1>2, <1>3, <1>4, CutGoesOn DEF P
  <1>7. /\ m \in Nat /\ list \in [1..m -> S] /\ Len(list) = m
        /\ \A i, j \in 1..m : i < j => After(desc, list[i], list[j])
        /\ \A x \in S : \E i \in 1..m : list[i] = x
    BY <1>2 DEF Sorted
  <1> HIDE DEF m, P
  <1>8. ASSUME P # <<>> PROVE start > 0 <=> Less(P, S, desc)
    <2>1. Head(P) = list[start + 1] /\ start + 1 \in 1..m
      BY <1>3, <1>5, <1>7, <1>8 DEF FirstAndLast
    <2>2. ASSUME start > 0 PROVE Less(P, S, desc)
      <3>1. 1 \in 1..m /\ 1 < start + 1
        BY <1>3, <1>7, <2>1, <2>2
      <3>2. list[1] \in S /\ After(desc, list[1], Head(P))
        BY <1>7, <2>1, <3>1
      <3>3. QED BY <1>8, <3>2 DEF Less
    <2>3. ASSUME Less(P, S, desc) PROVE start > 0
      <3>1. PICK r \in S : After(desc, r, Head(P))
        BY <2>3 DEF Less
      <3>2. PICK i \in 1..m : list[i] = r
        BY <1>7
      <3>3. SUFFICES ASSUME ~(start > 0) PROVE FALSE
        OBVIOUS
      <3>4. i = start + 1 \/ start + 1 < i
        BY <1>3, <3>3
      <3>5. r = Head(P) \/ After(desc, Head(P), r)
        BY <1>7, <2>1, <3>2, <3>4
      <3>6. r \in Row /\ Head(P) \in Row
        BY <1>2, <1>7, <2>1
      <3>7. QED BY <3>1, <3>5, <3>6, AfterOrders
    <2>4. QED BY <2>2, <2>3
  <1>9. Slice(list, start, n) = P
    BY DEF P
  <1>10. QED BY <1>1, <1>5, <1>6, <1>7, <1>8, <1>9 DEF m

-----------------------------------------------------------------------------
(* Types, and what the phases of a request imply.                           *)

(* Nothing that is read is None. *)
LEMMA Nones ==
    /\ None \notin Int /\ None \notin Boundary /\ None \notin Info /\ None \notin Seq(Row)
    /\ None \notin BOOLEAN /\ None \notin SUBSET Row
  <1>1. None \notin SUBSET Row
    BY NoneAssumption
  <1>2. QED BY <1>1, NoneAssumption

(* The rows of a table are told apart by their keys. *)
LEMMA RowsKeyed ==
    ASSUME NEW t \in Table
    PROVE  KeyedRows(Rows(t))
  <1>1. \A p \in Pk : t[p] # Absent => [pk |-> p, v |-> t[p]] \in Row
    BY DEF Table, Row
  <1>2. DOMAIN t = Pk
    BY DEF Table
  <1>3. QED BY <1>1, <1>2 DEF Rows, KeyedRows

(* A cursor is the row it is made from. *)
LEMMA CodeIsRow ==
    ASSUME NEW r \in Row
    PROVE  EncodeCursor(r) = r /\ r \in Boundary
  BY DEF EncodeCursor, Row, Boundary

(* What the request under way reads if it reads now. *)
Source == IF items = None THEN Rows(table) ELSE items
PageNow ==
    IF items = None THEN FromQueryset(Rows(table), descending, cursor, first)
    ELSE FromItems(items, descending, cursor, first)

Phases ==
    /\ items # None => KeyedRows(items)
    /\ first = None => items = None /\ page = None /\ info = None
    /\ finished => first = None
Base == TypeOK /\ Phases

(* It is a segment of the rows that it reads from. *)
LEMMA PageNowIsSegment ==
    ASSUME Base, first # None
    PROVE  /\ KeyedRows(Source) /\ first \in Nat \ {0}
           /\ Segment(PageNow, Source, descending, cursor, first)
           /\ PageNow \in Seq(Row) /\ Len(PageNow) <= first
  <1>1. /\ first \in Nat \ {0} /\ descending \in BOOLEAN /\ cursor \in Boundary \cup {None}
        /\ table \in Table
    BY CursorPagesAssumption DEF Base, TypeOK
  <1>2. KeyedRows(Source)
    BY <1>1, RowsKeyed DEF Base, Phases, Source
  <1>3. IsFiniteSet(Source) /\ Source \in SUBSET Row
    BY <1>2, KeyedIsFinite DEF KeyedRows
  <1>4. Segment(PageNow, Source, descending, cursor, first)
    <2>1. CASE items = None
      BY <1>1, <1>3, <2>1, SqlPage DEF Source, PageNow
    <2>2. CASE items # None
      BY <1>1, <1>2, <2>2, MemoryPage DEF Source, PageNow
    <2>3. QED BY <2>1, <2>2
  <1>5. PageNow \in Seq(Row) /\ Len(PageNow) <= first
    <2>1. PageNow \in Seq(Source)
      BY <1>4 DEF Segment
    <2>2. PageNow \in Seq(Row)
      BY <1>3, <2>1
    <2>3. QED BY <1>4, <2>2 DEF Segment
  <1>6. QED BY <1>1, <1>2, <1>4, <1>5

(* What a pageInfo says of a page of the rows S.  On a queryset              *)
(* hasPreviousPage may be still to come.                                    *)
Describes(f, P, S) ==
    /\ P = <<>> => f = NoInfo
    /\ P # <<>> => /\ f.start = Head(P) /\ f.end = Last(P)
                   /\ f.next = More(P, S, descending)
                   /\ \/ f.previous = None /\ items = None
                      \/ f.previous = Less(P, S, descending)

LEMMA InfoOfDescribes ==
    ASSUME NEW P \in Seq(Row), NEW S, NEW next, NEW previous,
           P # <<>> => next = More(P, S, descending),
           P # <<>> => \/ previous = None /\ items = None
                       \/ previous = Less(P, S, descending)
    PROVE  Describes(InfoOf(P, next, previous), P, S) /\ InfoOf(P, next, previous) \in Info
  <1>1. CASE P = <<>>
    BY <1>1 DEF InfoOf, Describes, NoInfo, Info
  <1>2. CASE P # <<>>
    <2>1. Head(P) \in Row /\ Last(P) \in Row
      BY <1>2, Ends
    <2>2. InfoOf(P, next, previous) =
            [next |-> next, previous |-> previous, start |-> Head(P), end |-> Last(P)]
      BY <1>2, <2>1, CodeIsRow DEF InfoOf
    <2>3. next \in BOOLEAN /\ previous \in BOOLEAN \cup {None}
      BY <1>2 DEF More, Less
    <2>4. Head(P) \in Boundary /\ Last(P) \in Boundary
      BY <2>1, CodeIsRow
    <2>5. QED BY <1>2, <2>2, <2>3, <2>4 DEF Describes, Info
  <1>3. QED BY <1>1, <1>2

(* The pageInfo that is read now is that of the page that is read now.      *)
LEMMA ReadInfoDescribes ==
    ASSUME Base, ReadInfo
    PROVE  info' \in Info /\ Describes(info', PageNow, Source)
  <1>1. /\ first \in Nat \ {0} /\ descending \in BOOLEAN /\ cursor \in Boundary \cup {None}
        /\ table \in Table /\ KeyedRows(Source) /\ PageNow \in Seq(Row)
        /\ IsFiniteSet(Source) /\ Source \in SUBSET Row
    BY PageNowIsSegment, KeyedIsFinite DEF Base, TypeOK, ReadInfo, KeyedRows
  <1>2. CASE items = None
    <2> DEFINE more == FromQueryset(Rows(table), descending, cursor, first + 1)
    <2>1. /\ Slice(more, 0, first) = PageNow
          /\ HasNext(more) = More(PageNow, Source, descending)
      <3>1. /\ Slice(more, 0, first) = PageNow
            /\ HasNext(more) <=> More(PageNow, Source, descending)
        BY <1>1, <1>2, SqlPage DEF Source, PageNow, HasNext
      <3>2. HasNext(more) \in BOOLEAN /\ More(PageNow, Source, descending) \in BOOLEAN
        BY DEF HasNext, More
      <3> HIDE DEF more
      <3>3. QED BY <3>1, <3>2
    <2>2. info' = InfoOf(Slice(more, 0, first), HasNext(more), None)
      BY <1>2 DEF ReadInfo
    <2> HIDE DEF more
    <2>3. QED BY <1>1, <1>2, <2>1, <2>2, InfoOfDescribes
  <1>3. CASE items # None
    <2> DEFINE list == InMemoryKeysetOrder(items, descending)
               start == InMemoryCursorStart(list, descending, cursor)
    <2>1. /\ Slice(list, start, first) = PageNow
          /\ (start + first < Len(list)) = More(PageNow, Source, descending)
          /\ PageNow # <<>> => (start > 0) = Less(PageNow, Source, descending)
      <3>1. KeyedRows(items) /\ PageNow = FromItems(items, descending, cursor, first)
            /\ Source = items
        BY <1>1, <1>3 DEF Source, PageNow
      <3> HIDE DEF list, start
      <3>2. list = InMemoryKeysetOrder(items, descending)
            /\ start = InMemoryCursorStart(list, descending, cursor)
        BY DEF list, start
      <3>3. /\ Slice(list, start, first) = PageNow
            /\ start + first < Len(list) <=> More(PageNow, Source, descending)
            /\ PageNow # <<>> => (start > 0 <=> Less(PageNow, Source, descending))
        BY <1>1, <3>1, <3>2, MemoryPage
      <3>4. /\ (start + first < Len(list)) \in BOOLEAN /\ (start > 0) \in BOOLEAN
            /\ More(PageNow, Source, descending) \in BOOLEAN
            /\ Less(PageNow, Source, descending) \in BOOLEAN
        BY DEF More, Less
      <3>5. QED BY <3>3, <3>4
    <2>2. info' = InfoOf(Slice(list, start, first), start + first < Len(list), start > 0)
      BY <1>3 DEF ReadInfo
    <2> HIDE DEF list, start
    <2>3. QED BY <1>1, <2>1, <2>2, InfoOfDescribes
  <1>4. QED BY <1>2, <1>3

(* Every read of a request is of these types.                               *)
LEMMA RequestTyped ==
    ASSUME Base, Request
    PROVE  Base'
  <1>1. PICK asked \in Sizes :
            /\ ResolvePageSize(asked, PageSize, MaxPageSize) # 0
            /\ first' = ResolvePageSize(asked, PageSize, MaxPageSize)
    BY DEF Request
  <1>2. asked \in Int \cup {None} /\ PageSize \in Nat \ {0} /\ MaxPageSize \in Nat \ {0}
    BY CursorPagesAssumption
  <1>3. PageSize # None /\ MaxPageSize # None
    BY <1>2, Nones
  <1> DEFINE size == IF asked # None THEN asked ELSE PageSize
  <1>4. size \in Int /\ size # None
    BY <1>2, <1>3, Nones
  <1>5. Min({size, MaxPageSize}) = IF size <= MaxPageSize THEN size ELSE MaxPageSize
    BY <1>2, <1>4, MinOfTwo
  <1>6. first' = (IF size <= 0 THEN 0 ELSE Min({size, MaxPageSize})) /\ first' # 0
    BY <1>1, <1>3, <1>4 DEF ResolvePageSize
  <1>7. first' \in 1..MaxPageSize
    <2> HIDE DEF size
    <2> QED BY <1>2, <1>4, <1>5, <1>6
  <1>8. items' = None \/ (items' = Rows(table) /\ KeyedRows(Rows(table)))
    BY RowsKeyed DEF Request, Base, TypeOK
  <1>9. items' = None \/ (items' \in SUBSET Row /\ KeyedRows(items'))
    BY <1>8 DEF KeyedRows
  <1>10. first = None /\ page = None /\ info = None /\ ~finished
    BY DEF Request, Base, Phases
  <1>11. /\ UNCHANGED <<table, descending, cursor, page, info, finished, served, changes, initial,
                        moved, torn>>
         /\ fresh' = TRUE
    BY DEF Request
  <1>12. TypeOK'
    BY <1>7, <1>9, <1>10, <1>11 DEF TypeOK, Base
  <1>13. (items' # None => KeyedRows(items')) /\ first' # None
    BY <1>7, <1>9, Nones
  <1> QED
    BY <1>10, <1>11, <1>12, <1>13 DEF Base, Phases

LEMMA ReadPageIsPageNow ==
    ASSUME Base, ReadPage
    PROVE  Base' /\ page' = PageNow
  <1>1. first # None
    BY DEF ReadPage
  <1>2. page' = PageNow
    BY DEF ReadPage, PageNow
  <1>3. page' \in Seq(Row) /\ Len(page') <= first
    BY <1>1, <1>2, PageNowIsSegment
  <1>4. UNCHANGED <<table, descending, cursor, first, items, info, finished, served, changes,
                    initial, moved, fresh, torn>>
    BY DEF ReadPage
  <1>5. TypeOK'
    BY <1>3, <1>4 DEF TypeOK, Base
  <1>6. Phases'
    BY <1>1, <1>4 DEF Phases, Base
  <1> QED
    BY <1>2, <1>5, <1>6 DEF Base

LEMMA InfoTyped ==
    ASSUME Base, first # None, info' \in Info,
           UNCHANGED <<table, descending, cursor, first, items, page, finished, served, changes,
                       initial, moved, fresh, torn>>
    PROVE  Base'
  <1>1. TypeOK'
    BY DEF TypeOK, Base
  <1>2. Phases'
    BY DEF Phases, Base
  <1> QED
    BY <1>1, <1>2 DEF Base

LEMMA ReadPreviousTyped ==
    ASSUME Base, ReadPrevious
    PROVE  Base'
  <1>1. info \in Info
    BY DEF ReadPrevious, Base, TypeOK
  <1> DEFINE found == \E r \in Rows(table) : KeysetPredicate(~descending, info.start, r)
  <1>2. info' = [info EXCEPT !.previous = found] /\ found \in BOOLEAN
    BY DEF ReadPrevious
  <1> HIDE DEF found
  <1>3. info' \in Info
    BY <1>1, <1>2 DEF Info
  <1> QED
    BY <1>3, InfoTyped DEF ReadPrevious

LEMMA TakePageTyped ==
    ASSUME Base, TakePage
    PROVE  Base'
  <1>1. /\ info \in Info /\ page \in Seq(Row) /\ served \in Seq(Pk)
        /\ cursor \in Boundary \cup {None}
    BY DEF TakePage, HasAll, Base, TypeOK
  <1>2. [i \in DOMAIN page |-> page[i].pk] \in Seq(Pk)
    <2>1. DOMAIN page = 1..Len(page) /\ Len(page) \in Nat
      BY <1>1
    <2>2. \A i \in DOMAIN page : page[i].pk \in Pk
      <3> SUFFICES ASSUME NEW i \in DOMAIN page PROVE page[i].pk \in Pk
        OBVIOUS
      <3>1. page[i] \in Row
        BY <1>1, <2>1
      <3> QED BY <3>1 DEF Row
    <2>3. [i \in 1..Len(page) |-> page[i].pk] \in [1..Len(page) -> Pk]
      BY <2>1, <2>2
    <2> QED
      BY <2>2, <2>3
  <1>3. served' \in Seq(Pk)
    BY <1>1, <1>2 DEF TakePage
  <1>4. finished' \in BOOLEAN /\ cursor' \in Boundary \cup {None}
    BY <1>1 DEF TakePage, Info
  <1>5. /\ first' = None /\ items' = None /\ page' = None /\ info' = None
        /\ UNCHANGED <<table, descending, changes, initial, moved, fresh, torn>>
    BY DEF TakePage
  <1> QED
    BY <1>3, <1>4, <1>5 DEF TypeOK, Phases, Base

LEMMA ChangeTyped ==
    ASSUME Base, NEW p \in Pk, NEW v \in Value \cup {Null, Absent}, Change(p, v)
    PROVE  Base'
  <1>1. table' \in Table
    BY DEF Change, Base, TypeOK, Table
  <1>2. changes' \in 0..MaxChanges
    BY CursorPagesAssumption DEF Change, Base, TypeOK
  <1>3. moved' \subseteq Pk /\ fresh' \in BOOLEAN /\ torn' \in BOOLEAN
    BY DEF Change, Base, TypeOK
  <1>4. UNCHANGED <<descending, cursor, first, items, page, info, finished, served, initial>>
    BY DEF Change, request
  <1> QED
    BY <1>1, <1>2, <1>3, <1>4 DEF TypeOK, Phases, Base

LEMMA InitBase == Init => Base
  <1> SUFFICES ASSUME Init PROVE Base
    OBVIOUS
  <1>1. /\ table \in Table /\ descending \in BOOLEAN
        /\ cursor = None /\ first = None /\ items = None /\ page = None /\ info = None
        /\ finished = FALSE /\ served = <<>> /\ changes = 0 /\ moved = {}
        /\ fresh = FALSE /\ torn = FALSE
    BY DEF Init
  <1>2. initial \subseteq Pk
    BY DEF Init
  <1>3. served \in Seq(Pk) /\ changes \in 0..MaxChanges
    BY <1>1, CursorPagesAssumption
  <1>4. TypeOK
    BY <1>1, <1>2, <1>3 DEF TypeOK
  <1>5. Phases
    BY <1>1 DEF Phases
  <1> QED
    BY <1>4, <1>5 DEF Base

(* The variables have their types, and a request its parts in order.        *)
THEOREM Typing == Spec => []TypeOK
  <1>1. Base /\ [Next]_vars => Base'
    <2> SUFFICES ASSUME Base, [Next]_vars PROVE Base'
      OBVIOUS
    <2>1. CASE Request
      BY <2>1, RequestTyped
    <2>2. CASE ReadPage
      BY <2>2, ReadPageIsPageNow
    <2>3. CASE ReadInfo
      <3>1. info' \in Info
        BY <2>3, ReadInfoDescribes
      <3> QED BY <2>3, <3>1, InfoTyped DEF ReadInfo
    <2>4. CASE ReadPrevious
      BY <2>4, ReadPreviousTyped
    <2>5. CASE TakePage
      BY <2>5, TakePageTyped
    <2>6. ASSUME NEW p \in Pk, NEW v \in Value \cup {Null, Absent}, Change(p, v) PROVE Base'
      BY <2>6, ChangeTyped
    <2>7. CASE UNCHANGED vars
      BY <2>7 DEF vars, Base, TypeOK, Phases
    <2> QED
      BY <2>1, <2>2, <2>3, <2>4, <2>5, <2>6, <2>7 DEF Next
  <1>2. Base => TypeOK
    BY DEF Base
  <1> QED
    BY InitBase, <1>1, <1>2, PTL DEF Spec
-----------------------------------------------------------------------------
(* The inductive invariant.                                                 *)

RowOf(p) == [pk |-> p, v |-> table[p]]
Settled == initial \ moved
Held(r) == r.pk \in moved \/ table[r.pk] = r.v
Ahead(r) == cursor = None \/ After(descending, cursor, r)
InPage(P, r) == \E i \in 1..Len(P) : P[i] = r

(* What was read holds the rows that are neither updated nor deleted.       *)
Kept ==
    /\ \A p \in Settled : table[p] # Absent
    /\ items # None => /\ \A r \in items : Held(r)
                       /\ \A p \in Settled : RowOf(p) \in items

(* A page has such rows from the cursor on, in order, until it is full.     *)
Covers(P) ==
    /\ \A i \in 1..Len(P) : Held(P[i]) /\ Ahead(P[i])
    /\ \A i, j \in 1..Len(P) : i < j => After(descending, P[i], P[j])
    /\ \A p \in Settled : Ahead(RowOf(p)) =>
          InPage(P, RowOf(p)) \/ (Len(P) = first /\ After(descending, P[first], RowOf(p)))

PageCovers == page # None => Covers(page)

(* Before a change, each part of the answer is what a read would give now.  *)
AsRead ==
    /\ page # None /\ (fresh \/ (info = None /\ ~torn)) => page = PageNow
    /\ info # None /\ (fresh \/ (page = None /\ ~torn)) => Describes(info, PageNow, Source)

(* A pageInfo that fits its page tells where to go on, or that all is read. *)
Fits(f, P) ==
    /\ f.next => P # <<>> /\ f.end = Last(P)
    /\ ~f.next => \A p \in Settled : Ahead(RowOf(p)) => InPage(P, RowOf(p))

GoesOn == page # None /\ info # None /\ ~torn => Fits(info, page)

(* What was served is no longer ahead, and what is not ahead was served.    *)
Walked ==
    ~torn =>
        /\ \A i \in DOMAIN served :
              served[i] \notin moved =>
                  table[served[i]] # Absent /\ (~finished => ~Ahead(RowOf(served[i])))
        /\ \A p \in Settled :
              finished \/ ~Ahead(RowOf(p)) => \E i \in DOMAIN served : served[i] = p

IInv == Base /\ Kept /\ PageCovers /\ AsRead /\ GoesOn /\ Walked /\ NothingRepeated

(* The source of a read has the settled rows and no stale ones.             *)
LEMMA SourceKept ==
    ASSUME Base, Kept
    PROVE  /\ \A r \in Source : Held(r)
           /\ \A p \in Settled : RowOf(p) \in Source /\ RowOf(p) \in Row
  <1>1. table \in Table /\ initial \subseteq Pk /\ (items # None => items \in SUBSET Row)
    BY DEF Base, TypeOK
  <1>2. \A r \in Rows(table) : Held(r)
    BY DEF Rows, Held
  <1>3. \A p \in Settled : RowOf(p) \in Rows(table) /\ RowOf(p) \in Row
    <2> SUFFICES ASSUME NEW p \in Settled
                 PROVE  RowOf(p) \in Rows(table) /\ RowOf(p) \in Row
      OBVIOUS
    <2>1. p \in Pk /\ table[p] # Absent /\ DOMAIN table = Pk
          /\ table[p] \in Value \cup {Null, Absent}
      BY <1>1 DEF Settled, Kept, Table
    <2> QED BY <2>1 DEF Rows, RowOf, Row
  <1>4. QED BY <1>1, <1>2, <1>3 DEF Source, Kept

(* A page that is read now covers them.                                     *)
LEMMA CoversNow ==
    ASSUME Base, Kept, first # None
    PROVE  Covers(PageNow)
  <1>1. /\ Segment(PageNow, Source, descending, cursor, first)
        /\ Len(PageNow) \in Nat
    BY PageNowIsSegment
  <1>2. \A i \in 1..Len(PageNow) : PageNow[i] \in Source /\ Ahead(PageNow[i])
    BY <1>1 DEF Segment, Beyonds, Ahead
  <1>3. \A p \in Settled : Ahead(RowOf(p)) => RowOf(p) \in Beyonds(Source, descending, cursor)
    BY SourceKept DEF Beyonds, Ahead
  <1>4. \A r \in Beyonds(Source, descending, cursor) :
           InPage(PageNow, r) \/ (Len(PageNow) = first /\ After(descending, PageNow[first], r))
    BY <1>1 DEF Segment, InPage
  <1>5. \A i, j \in 1..Len(PageNow) : i < j => After(descending, PageNow[i], PageNow[j])
    BY <1>1 DEF Segment
  <1> HIDE DEF Ahead
  <1>6. QED BY <1>2, <1>3, <1>4, <1>5, SourceKept DEF Covers

(* A pageInfo that describes it fits it.                                    *)
LEMMA DescribedFits ==
    ASSUME Base, Kept, first # None, NEW f, Describes(f, PageNow, Source)
    PROVE  Fits(f, PageNow)
  <1>1. first \in Nat \ {0} /\ PageNow \in Seq(Row)
    BY PageNowIsSegment
  <1>2. CASE PageNow = <<>>
    <2>1. Len(PageNow) = 0 /\ ~f.next
      BY <1>2 DEF Describes, NoInfo
    <2>2. \A p \in Settled : Ahead(RowOf(p)) => InPage(PageNow, RowOf(p))
      BY <1>1, <2>1, CoversNow DEF Covers
    <2>3. QED BY <2>1, <2>2 DEF Fits
  <1>3. CASE PageNow # <<>>
    <2>1. f.end = Last(PageNow) /\ f.next = More(PageNow, Source, descending)
      BY <1>3 DEF Describes
    <2>2. Len(PageNow) \in Nat /\ Last(PageNow) = PageNow[Len(PageNow)]
      BY <1>1, <1>3, Ends
    <2>3. ASSUME ~f.next, NEW p \in Settled, Ahead(RowOf(p)) PROVE InPage(PageNow, RowOf(p))
      <3>1. ~After(descending, Last(PageNow), RowOf(p))
        BY <1>3, <2>1, <2>3, SourceKept DEF More
      <3>2. QED BY <2>2, <2>3, <3>1, CoversNow DEF Covers
    <2>4. QED BY <1>3, <2>1, <2>3 DEF Fits
  <1>4. QED BY <1>2, <1>3
-----------------------------------------------------------------------------
(* The reads of a request.                                                  *)

(* The walk is as it was when only the request changes.                     *)
LEMMA WalkStays ==
    ASSUME UNCHANGED <<table, descending, cursor, finished, served, initial, moved, torn>>
    PROVE  (Walked => Walked') /\ (NothingRepeated => NothingRepeated')
  <1>1. Walked => Walked'
    BY DEF Walked, Settled, Ahead, RowOf
  <1>2. NothingRepeated => NothingRepeated'
    BY DEF NothingRepeated
  <1>3. QED BY <1>1, <1>2

(* So are the rows that a request holds, and what it would read.            *)
LEMMA ReadsStay ==
    ASSUME UNCHANGED <<table, descending, cursor, first, items, initial, moved>>
    PROVE  /\ Kept => Kept'
           /\ PageNow' = PageNow /\ Source' = Source
           /\ \A P : Covers(P) => Covers(P)'
           /\ \A f, P : Fits(f, P) => Fits(f, P)'
           /\ \A f, P, S : Describes(f, P, S) => Describes(f, P, S)'
  <1>1. Kept => Kept'
    BY DEF Kept, Settled, Held, RowOf
  <1>2. PageNow' = PageNow /\ Source' = Source
    BY DEF PageNow, Source
  <1>3. ASSUME NEW P, Covers(P) PROVE Covers(P)'
    BY <1>3 DEF Covers, Settled, Held, Ahead, RowOf, InPage
  <1>4. ASSUME NEW f, NEW P, Fits(f, P) PROVE Fits(f, P)'
    BY <1>4 DEF Fits, Settled, Ahead, RowOf, InPage
  <1>5. ASSUME NEW f, NEW P, NEW S, Describes(f, P, S) PROVE Describes(f, P, S)'
    BY <1>5 DEF Describes
  <1>6. QED BY <1>1, <1>2, <1>3, <1>4, <1>5

LEMMA RequestKeeps ==
    ASSUME IInv, Request
    PROVE  IInv'
  <1>1. Base /\ Base' /\ table \in Table
    BY RequestTyped DEF IInv, Base, TypeOK
  <1>2. page' = None /\ info' = None
    BY DEF Request, IInv, Base, Phases
  <1>3. UNCHANGED <<table, descending, cursor, finished, served, initial, moved, torn>>
    BY DEF Request
  <1>4. Kept'
    <2>1. items' = None \/ items' = Rows(table)
      BY DEF Request
    <2>2. \A p \in Settled : table[p] # Absent
      BY DEF IInv, Kept
    <2>3. \A p \in Settled : RowOf(p) \in Rows(table)
      BY <1>1, <2>2 DEF Settled, Rows, RowOf, Base, TypeOK, Table
    <2>4. \A r \in Rows(table) : Held(r)
      BY DEF Rows, Held
    <2>5. QED BY <1>3, <2>1, <2>2, <2>3, <2>4 DEF Kept, Settled, Held, RowOf
  <1>5. PageCovers' /\ AsRead' /\ GoesOn'
    BY <1>2 DEF PageCovers, AsRead, GoesOn
  <1>6. Walked' /\ NothingRepeated'
    BY <1>3, WalkStays DEF IInv
  <1>7. QED BY <1>1, <1>4, <1>5, <1>6 DEF IInv

LEMMA ReadPageKeeps ==
    ASSUME IInv, ReadPage
    PROVE  IInv'
  <1>1. Base /\ Base' /\ page' = PageNow /\ Kept /\ first # None
    BY ReadPageIsPageNow DEF IInv, ReadPage
  <1>2. page = None /\ UNCHANGED <<table, descending, cursor, first, items, info, finished, served,
                                   initial, moved, fresh, torn>>
    BY DEF ReadPage
  <1>3. Kept' /\ Walked' /\ NothingRepeated'
    BY <1>2, ReadsStay, WalkStays DEF IInv
  <1>4. PageNow' = PageNow /\ Source' = Source
    BY <1>2, ReadsStay
  <1>5. PageCovers'
    <2> PICK P : P = PageNow
      OBVIOUS
    <2>1. Covers(P)'
      BY <1>1, <1>2, CoversNow, ReadsStay
    <2>2. page' = P
      BY <1>1
    <2>3. Covers(page)'
      BY <2>1, <2>2 DEF Covers, InPage
    <2>4. QED BY <2>3 DEF PageCovers
  <1>6. page' # None
    BY <1>1, PageNowIsSegment, Nones
  <1>7. info # None /\ (fresh \/ ~torn) => Describes(info, PageNow, Source)
    BY <1>2 DEF IInv, AsRead
  <1>8. AsRead'
    <2>1. info' # None /\ fresh' => Describes(info, PageNow, Source)'
      <3> PICK f, P, S : f = info /\ P = PageNow /\ S = Source
        OBVIOUS
      <3>1. info' # None /\ fresh' => Describes(f, P, S)'
        BY <1>2, <1>7, ReadsStay
      <3>2. info' = f /\ PageNow' = P /\ Source' = S
        BY <1>2, <1>4
      <3>3. QED BY <3>1, <3>2 DEF Describes
    <2>2. QED BY <1>1, <1>4, <1>6, <2>1 DEF AsRead
  <1>9. GoesOn'
    <2> PICK f, P : f = info /\ P = PageNow
      OBVIOUS
    <2>1. info' # None /\ ~torn' => Fits(f, P)'
      BY <1>1, <1>2, <1>7, DescribedFits, ReadsStay
    <2>2. info' = f /\ page' = P
      BY <1>1, <1>2
    <2>3. QED BY <2>1, <2>2 DEF GoesOn, Fits, InPage
  <1>10. QED BY <1>1, <1>3, <1>5, <1>8, <1>9 DEF IInv

LEMMA ReadInfoKeeps ==
    ASSUME IInv, ReadInfo
    PROVE  IInv'
  <1>1. /\ Base /\ Kept /\ first # None /\ info = None
        /\ info' \in Info /\ Describes(info', PageNow, Source)
    BY ReadInfoDescribes DEF IInv, ReadInfo
  <1>2. UNCHANGED <<table, descending, cursor, first, items, page, finished, served, changes,
                    initial, moved, fresh, torn>>
    BY DEF ReadInfo
  <1>3. Base' /\ Kept' /\ Walked' /\ NothingRepeated'
    BY <1>1, <1>2, InfoTyped, ReadsStay, WalkStays DEF IInv
  <1>4. PageNow' = PageNow /\ Source' = Source
    BY <1>2, ReadsStay
  <1>5. PageCovers'
    <2> PICK P : P = page
      OBVIOUS
    <2>1. P # None => Covers(P)'
      BY <1>2, ReadsStay DEF IInv, PageCovers
    <2>2. page' = P
      BY <1>2
    <2>3. QED BY <2>1, <2>2 DEF PageCovers, Covers, InPage
  <1>6. info' # None
    BY <1>1, Nones
  <1> PICK f, P, S : f = info' /\ P = PageNow /\ S = Source
    OBVIOUS
  <1>7. page # None /\ (fresh \/ ~torn) => page = P
    BY <1>1 DEF IInv, AsRead
  <1>8. AsRead'
    <2>1. Describes(f, P, S)'
      BY <1>1, <1>2, ReadsStay
    <2>2. info' = f /\ PageNow' = P /\ Source' = S
      BY <1>4
    <2>3. Describes(info, PageNow, Source)'
      BY <2>1, <2>2 DEF Describes
    <2>4. page' # None /\ (fresh' \/ (info' = None /\ ~torn')) => page' = PageNow'
      BY <1>2, <1>6, <1>7, <2>2
    <2>5. QED BY <2>3, <2>4 DEF AsRead
  <1>9. GoesOn'
    <2>1. Fits(f, P)'
      BY <1>1, <1>2, DescribedFits, ReadsStay
    <2>2. page' # None /\ ~torn' => page' = P /\ info' = f
      BY <1>2, <1>7
    <2>3. QED BY <2>1, <2>2 DEF GoesOn, Fits, InPage
  <1>10. QED BY <1>3, <1>5, <1>8, <1>9 DEF IInv

LEMMA ReadPreviousKeeps ==
    ASSUME IInv, ReadPrevious
    PROVE  IInv'
  <1> DEFINE found == \E r \in Rows(table) : KeysetPredicate(~descending, info.start, r)
  <1>1. /\ Base /\ Base' /\ first # None /\ info \in Info /\ info.previous = None
        /\ info' = [info EXCEPT !.previous = found] /\ found \in BOOLEAN
    BY ReadPreviousTyped DEF IInv, Base, TypeOK, ReadPrevious
  <1>2. UNCHANGED <<table, descending, cursor, first, items, page, finished, served, changes,
                    initial, moved, fresh, torn>>
    BY DEF ReadPrevious
  <1>3. Kept' /\ Walked' /\ NothingRepeated'
    BY <1>2, ReadsStay, WalkStays DEF IInv
  <1>4. PageNow' = PageNow /\ Source' = Source
    BY <1>2, ReadsStay
  <1>5. PageCovers'
    <2> PICK P : P = page
      OBVIOUS
    <2>1. P # None => Covers(P)'
      BY <1>2, ReadsStay DEF IInv, PageCovers
    <2>2. page' = P
      BY <1>2
    <2>3. QED BY <2>1, <2>2 DEF PageCovers, Covers, InPage
  <1>6. info # None /\ info' # None
    BY <1>1, Nones DEF ReadPrevious, Info
  <1>7. info'.next = info.next /\ info'.end = info.end
    BY <1>1 DEF Info
  <1>8. ASSUME Describes(info, PageNow, Source) PROVE Describes(info', PageNow, Source)
    <2>1. PageNow # <<>>
      <3>1. NoInfo.previous = FALSE /\ FALSE \in BOOLEAN
        BY DEF NoInfo
      <3>2. NoInfo.previous # None
        BY <3>1, Nones, Zenon
      <3>3. QED BY <1>1, <1>8, <3>2 DEF Describes
    <2>2. /\ PageNow \in Seq(Row) /\ Source \in SUBSET Row /\ descending \in BOOLEAN
          /\ (~descending) \in BOOLEAN
      BY <1>1, PageNowIsSegment DEF KeyedRows, Base, TypeOK
    <2>3. Head(PageNow) \in Row /\ info.start = Head(PageNow)
      BY <1>8, <2>1, <2>2, Ends DEF Describes
    <2>4. items = None
      BY <1>1, <1>8, <2>1, Nones DEF Describes, Less
    <2>5. Source = Rows(table) /\ info.start \in Boundary
      BY <2>3, <2>4, CodeIsRow DEF Source
    <2>6. \A r \in Source : KeysetPredicate(~descending, info.start, r)
                              <=> After(descending, r, info.start)
      <3> SUFFICES ASSUME NEW r \in Source
                   PROVE  KeysetPredicate(~descending, info.start, r)
                            <=> After(descending, r, info.start)
        OBVIOUS
      <3>1. r \in Row
        BY <2>2
      <3>2. KeysetPredicate(~descending, info.start, r) <=> After(~descending, info.start, r)
        BY <2>2, <2>5, <3>1, KeysetIsAfter
      <3>3. QED BY <2>2, <2>3, <3>1, <3>2, AfterOrders
    <2>7. found <=> Less(PageNow, Source, descending)
      BY <2>1, <2>3, <2>5, <2>6 DEF Less
    <2>8. Less(PageNow, Source, descending) \in BOOLEAN
      BY DEF Less
    <2> HIDE DEF found
    <2>9. info'.previous = Less(PageNow, Source, descending) /\ info'.start = info.start
      BY <1>1, <2>7, <2>8 DEF Info
    <2>10. QED BY <1>7, <1>8, <2>1, <2>9 DEF Describes
  <1> HIDE DEF found
  <1>9. AsRead'
    <2> PICK f, P, S : f = info' /\ P = PageNow /\ S = Source
      OBVIOUS
    <2>1. fresh \/ (page = None /\ ~torn) => Describes(f, P, S)'
      BY <1>2, <1>6, <1>8, ReadsStay DEF IInv, AsRead
    <2>2. info' = f /\ PageNow' = P /\ Source' = S
      BY <1>4
    <2>3. fresh' \/ (page' = None /\ ~torn') => Describes(info, PageNow, Source)'
      BY <1>2, <2>1, <2>2 DEF Describes
    <2>4. page' # None /\ (fresh' \/ (info' = None /\ ~torn')) => page' = PageNow'
      BY <1>2, <1>4, <1>6 DEF IInv, AsRead
    <2>5. QED BY <2>3, <2>4 DEF AsRead
  <1>10. GoesOn'
    <2> PICK f, P : f = info /\ P = page
      OBVIOUS
    <2>1. P # None /\ ~torn => Fits(f, P)'
      BY <1>2, <1>6, ReadsStay DEF IInv, GoesOn
    <2>2. page' = P /\ info'.next = f.next /\ info'.end = f.end /\ torn' = torn
      BY <1>2, <1>7
    <2>3. QED BY <2>1, <2>2 DEF GoesOn, Fits, InPage
  <1>11. QED BY <1>1, <1>3, <1>5, <1>9, <1>10 DEF IInv
-----------------------------------------------------------------------------
(* The client takes the page.                                               *)

(* What it has then.                                                        *)
LEMMA ServedThen ==
    ASSUME Base, TakePage
    PROVE  /\ Len(served) \in Nat /\ Len(page) \in Nat /\ page \in Seq(Row)
           /\ DOMAIN served = 1..Len(served)
           /\ DOMAIN served' = 1..(Len(served) + Len(page))
           /\ \A i \in 1..Len(served) : served'[i] = served[i]
           /\ \A k \in 1..Len(page) : served'[Len(served) + k] = page[k].pk
           /\ \A i \in DOMAIN served' :
                 \/ i \in 1..Len(served)
                 \/ \E k \in 1..Len(page) : i = Len(served) + k
  <1>1. page \in Seq(Row) /\ served \in Seq(Pk)
    BY DEF TakePage, HasAll, Base, TypeOK
  <1> DEFINE keys == [i \in DOMAIN page |-> page[i].pk]
  <1>2. Len(page) \in Nat /\ Len(served) \in Nat /\ DOMAIN page = 1..Len(page)
        /\ DOMAIN served = 1..Len(served)
    BY <1>1
  <1>3. \A i \in 1..Len(page) : page[i].pk \in Pk
    <2> SUFFICES ASSUME NEW i \in 1..Len(page) PROVE page[i].pk \in Pk
      OBVIOUS
    <2>1. page[i] \in Row
      BY <1>1
    <2>2. QED BY <2>1 DEF Row
  <1>4. keys \in Seq(Pk) /\ Len(keys) = Len(page) /\ \A k \in 1..Len(page) : keys[k] = page[k].pk
    <2>1. keys = [i \in 1..Len(page) |-> page[i].pk]
      BY <1>2
    <2>2. keys \in [1..Len(page) -> Pk]
      BY <1>3, <2>1
    <2>3. keys \in Seq(Pk)
      BY <1>2, <2>2
    <2>4. QED BY <1>2, <2>1, <2>3
  <1>5. served' = served \o keys
    BY DEF TakePage
  <1> HIDE DEF keys
  <1>6. Len(served') = Len(served) + Len(page) /\ served' \in Seq(Pk)
    <2>1. \A a, b \in Seq(Pk) : a \o b \in Seq(Pk) /\ Len(a \o b) = Len(a) + Len(b)
      OBVIOUS
    <2>2. QED BY <1>1, <1>4, <1>5, <2>1
  <1>7. DOMAIN served' = 1..(Len(served) + Len(page))
    BY <1>6
  <1>8. \A i \in 1..Len(served) : served'[i] = served[i]
    BY <1>1, <1>4, <1>5
  <1>9. \A k \in 1..Len(page) : served'[Len(served) + k] = page[k].pk
    BY <1>1, <1>2, <1>4, <1>5
  <1>10. ASSUME NEW i \in 1..(Len(served) + Len(page)), i \notin 1..Len(served)
         PROVE  \E k \in 1..Len(page) : i = Len(served) + k
    <2>1. i - Len(served) \in 1..Len(page) /\ i = Len(served) + (i - Len(served))
      BY <1>2, <1>10
    <2>2. QED BY <2>1
  <1>11. QED BY <1>1, <1>2, <1>7, <1>8, <1>9, <1>10

(* A row of the page whose key has not moved is still in the table.         *)
LEMMA HeldIsThere ==
    ASSUME Base, NEW r \in Row, Held(r), r.pk \notin moved
    PROVE  r = RowOf(r.pk) /\ table[r.pk] # Absent /\ r.pk \in Pk
  <1>1. table[r.pk] = r.v /\ r.pk \in Pk /\ r.v \in Value \cup {Null}
        /\ r = [pk |-> r.pk, v |-> r.v]
    BY DEF Held, Row
  <1>2. QED BY <1>1, Kinds DEF RowOf

(* The cursor only moves ahead.                                             *)
LEMMA CursorMovesOn ==
    ASSUME Base, NEW c \in Row, Ahead(c), NEW r \in Row, After(descending, c, r)
    PROVE  Ahead(r)
  <1>1. descending \in BOOLEAN /\ (cursor = None \/ cursor \in Row)
    BY DEF Base, TypeOK, Boundary, Row
  <1>2. QED BY <1>1, AfterOrders DEF Ahead

LEMMA TakePageWalks ==
    ASSUME IInv, TakePage, ~torn
    PROVE  Walked' /\ NothingRepeated'
  <1> DEFINE n == Len(served)
             m == Len(page)
  <1>1. /\ Base /\ descending \in BOOLEAN /\ ~finished /\ table \in Table /\ info \in Info
        /\ page # None /\ info # None
    BY DEF IInv, Base, TypeOK, Phases, TakePage, HasAll
  <1>2. /\ n \in Nat /\ m \in Nat
        /\ DOMAIN served = 1..n /\ DOMAIN served' = 1..(n + m)
        /\ \A i \in 1..n : served'[i] = served[i]
        /\ \A k \in 1..m : served'[n + k] = page[k].pk
        /\ \A i \in DOMAIN served' : i \in 1..n \/ \E k \in 1..m : i = n + k
    BY <1>1, ServedThen
  <1>3. \A k \in 1..m : page[k] \in Row
    BY <1>1, ServedThen
  <1>4. UNCHANGED <<table, descending, initial, moved, torn>>
    BY DEF TakePage
  <1>5. finished' = ~info.next /\ cursor' = IF info.next THEN info.end ELSE cursor
    BY DEF TakePage
  <1>6. /\ \A k \in 1..m : Held(page[k]) /\ Ahead(page[k])
        /\ \A k, l \in 1..m : k < l => After(descending, page[k], page[l])
        /\ \A p \in Settled : Ahead(RowOf(p)) =>
              InPage(page, RowOf(p)) \/ (m = first /\ After(descending, page[first], RowOf(p)))
    BY <1>1 DEF IInv, PageCovers, Covers
  <1>7. Fits(info, page)
    BY <1>1 DEF IInv, GoesOn
  <1>8. info.next => m # 0 /\ cursor' = page[m] /\ page[m] \in Row /\ Ahead(page[m])
    <2> SUFFICES ASSUME info.next
                 PROVE  m # 0 /\ cursor' = page[m] /\ page[m] \in Row /\ Ahead(page[m])
      OBVIOUS
    <2>1. page # <<>> /\ info.end = Last(page) /\ page \in Seq(Row)
      BY <1>1, <1>7, ServedThen DEF Fits
    <2>2. m # 0 /\ Last(page) = page[m]
      BY <2>1, Ends
    <2> HIDE DEF m
    <2>3. m \in 1..m
      BY <1>2, <2>2
    <2>4. QED BY <1>3, <1>5, <1>6, <2>1, <2>2, <2>3
  <1> HIDE DEF n, m
  <1>9. ASSUME NEW k \in 1..m, page[k].pk \notin moved
        PROVE  page[k] = RowOf(page[k].pk) /\ table[page[k].pk] # Absent /\ page[k].pk \in Pk
    BY <1>1, <1>3, <1>6, <1>9, HeldIsThere
  <1>10. ASSUME NEW i \in 1..n, served[i] \notin moved
         PROVE  /\ table[served[i]] # Absent /\ ~Ahead(RowOf(served[i]))
                /\ RowOf(served[i]) \in Row
    <2>1. table[served[i]] # Absent /\ ~Ahead(RowOf(served[i]))
      BY <1>1, <1>2, <1>10 DEF IInv, Walked
    <2>2. served[i] \in Pk
      BY <1>1 DEF Base, TypeOK, n
    <2>3. table[served[i]] \in Value \cup {Null}
      BY <1>1, <2>1, <2>2 DEF Table
    <2>4. QED BY <2>1, <2>2, <2>3 DEF RowOf, Row
  <1>11. ASSUME NEW i \in DOMAIN served', served'[i] \notin moved
         PROVE  /\ table[served'[i]] # Absent
                /\ info.next => ~After(descending, page[m], RowOf(served'[i]))
    <2>1. CASE i \in 1..n
      <3>1. served'[i] = served[i]
        BY <1>2, <2>1
      <3>2. table[served[i]] # Absent /\ ~Ahead(RowOf(served[i])) /\ RowOf(served[i]) \in Row
        BY <1>10, <1>11, <2>1, <3>1
      <3>3. info.next => ~After(descending, page[m], RowOf(served[i]))
        BY <1>1, <1>8, <3>2, CursorMovesOn
      <3>4. QED BY <3>1, <3>2, <3>3
    <2>2. ASSUME NEW k \in 1..m, i = n + k
          PROVE  /\ table[served'[i]] # Absent
                 /\ info.next => ~After(descending, page[m], RowOf(served'[i]))
      <3>1. served'[i] = page[k].pk
        BY <1>2, <2>2
      <3>2. page[k] = RowOf(page[k].pk) /\ table[page[k].pk] # Absent
        BY <1>9, <1>11, <3>1
      <3>3. page[k] \in Row
        BY <1>3
      <3>4. info.next => ~After(descending, page[m], page[k])
        <4>1. CASE k = m
          BY <1>1, <3>3, <4>1, AfterOrders
        <4>2. CASE k # m
          <5>1. k < m /\ m \in 1..m
            BY <1>2, <4>2
          <5>2. After(descending, page[k], page[m]) /\ page[m] \in Row
            BY <1>3, <1>6, <5>1
          <5>3. QED BY <1>1, <3>3, <5>2, AfterOrders
        <4>3. QED BY <4>1, <4>2
      <3>5. QED BY <3>1, <3>2, <3>4
    <2>3. QED BY <1>2, <2>1, <2>2
  <1>12. ASSUME NEW p \in Settled,
                (~info.next) \/ ~After(descending, page[m], RowOf(p)) \/ ~Ahead(RowOf(p))
         PROVE  \E i \in DOMAIN served' : served'[i] = p
    <2>1. CASE ~Ahead(RowOf(p))
      <3>1. PICK i \in DOMAIN served : served[i] = p
        BY <2>1 DEF IInv, Walked
      <3>2. i \in DOMAIN served' /\ served'[i] = p
        BY <1>2, <3>1
      <3>3. QED BY <3>2
    <2>2. CASE Ahead(RowOf(p))
      <3>1. InPage(page, RowOf(p))
        <4>1. CASE ~info.next
          BY <1>7, <2>2, <4>1 DEF Fits
        <4>2. CASE info.next
          <5>1. ~After(descending, page[m], RowOf(p))
            BY <1>12, <2>2, <4>2
          <5>2. QED BY <1>6, <2>2, <5>1
        <4>3. QED BY <4>1, <4>2
      <3>2. PICK k \in 1..m : page[k] = RowOf(p)
        BY <3>1 DEF InPage, m
      <3>3. page[k].pk = p /\ n + k \in DOMAIN served'
        BY <1>2, <3>2 DEF RowOf
      <3>4. served'[n + k] = p
        BY <1>2, <3>3
      <3>5. QED BY <3>3, <3>4
    <2>3. QED BY <2>1, <2>2
  <1>13. Walked'
    <2>1. \A p : RowOf(p)' = RowOf(p)
      BY <1>4 DEF RowOf
    <2>2. ASSUME NEW i \in DOMAIN served', served'[i] \notin moved'
          PROVE  table'[served'[i]] # Absent /\ (~finished' => ~Ahead(RowOf(served[i]))')
      <3> PICK q : q = served'[i]
        OBVIOUS
      <3>1. table[q] # Absent /\ (info.next => ~After(descending, page[m], RowOf(q)))
        BY <1>4, <1>11, <2>2
      <3>2. ~finished' => ~Ahead(RowOf(q))'
        <4>1. ~finished' => cursor' = page[m] /\ page[m] \in Row /\ info.next
          BY <1>5, <1>8
        <4>2. None \notin Row
          BY Nones DEF Boundary, Row
        <4>3. QED BY <1>4, <2>1, <3>1, <4>1, <4>2 DEF Ahead
      <3>3. Ahead(RowOf(served[i]))' <=> Ahead(RowOf(q))'
        BY DEF Ahead, RowOf
      <3>4. QED BY <1>4, <3>1, <3>2, <3>3
    <2>3. ASSUME NEW p \in Settled', finished' \/ ~Ahead(RowOf(p))'
          PROVE  \E i \in DOMAIN served' : served'[i] = p
      <3>1. p \in Settled
        BY <1>4 DEF Settled
      <3>2. (~info.next) \/ ~After(descending, page[m], RowOf(p)) \/ ~Ahead(RowOf(p))
        BY <1>4, <1>5, <1>8, <2>1, <2>3 DEF Ahead
      <3>3. QED BY <1>12, <3>1, <3>2
    <2>4. QED BY <2>2, <2>3 DEF Walked
  <1>14. ASSUME NEW k \in 1..m, page[k].pk \notin moved, NEW j \in 1..n, served[j] = page[k].pk
         PROVE  FALSE
    <2>1. page[k] = RowOf(served[j])
      BY <1>9, <1>14
    <2>2. QED BY <1>6, <1>10, <1>14, <2>1
  <1>15. ASSUME NEW k \in 1..m, NEW l \in 1..m, k < l, page[k].pk = page[l].pk,
                page[k].pk \notin moved
         PROVE  FALSE
    <2>1. page[k] = page[l]
      BY <1>9, <1>15
    <2>2. QED BY <1>1, <1>3, <1>6, <1>15, <2>1, AfterOrders
  <1>16. NothingRepeated'
    <2>1. ASSUME NEW i \in DOMAIN served', NEW j \in DOMAIN served', served'[i] = served'[j],
                 i < j, served'[i] \notin moved
          PROVE  FALSE
      <3>1. CASE i \in 1..n /\ j \in 1..n
        BY <1>2, <2>1, <3>1 DEF IInv, NothingRepeated
      <3>2. CASE i \in 1..n /\ \E l \in 1..m : j = n + l
        BY <1>2, <1>14, <2>1, <3>2
      <3>3. ASSUME NEW k \in 1..m, i = n + k PROVE FALSE
        <4>1. PICK l \in 1..m : j = n + l
          <5>1. j \in Int /\ n < j
            BY <1>2, <2>1, <3>3
          <5>2. j \notin 1..n
            BY <1>2, <5>1
          <5>3. QED BY <1>2, <2>1, <5>2
        <4>2. k < l
          BY <1>2, <2>1, <3>3, <4>1
        <4>3. QED BY <1>2, <1>15, <2>1, <3>3, <4>1, <4>2
      <3>4. QED BY <1>2, <3>1, <3>2, <3>3
    <2>2. \A i \in DOMAIN served' : i \in Int
      BY <1>2
    <2>3. \A i, j \in DOMAIN served' : served'[i] = served'[j] /\ i # j => served'[i] \in moved
      BY <2>1, <2>2
    <2>4. QED BY <1>4, <2>3 DEF NothingRepeated
  <1>17. QED BY <1>13, <1>16

LEMMA TakePageKeeps ==
    ASSUME IInv, TakePage
    PROVE  IInv'
  <1>1. Base'
    BY TakePageTyped DEF IInv
  <1>2. /\ items' = None /\ page' = None /\ info' = None
        /\ UNCHANGED <<table, initial, moved, torn>>
    BY DEF TakePage
  <1>3. Kept'
    BY <1>2 DEF IInv, Kept, Settled
  <1>4. PageCovers' /\ AsRead' /\ GoesOn'
    BY <1>2 DEF PageCovers, AsRead, GoesOn
  <1>5. Walked' /\ NothingRepeated'
    <2>1. CASE torn
      BY <1>2, <2>1 DEF Walked, NothingRepeated
    <2>2. CASE ~torn
      BY <2>2, TakePageWalks
    <2>3. QED BY <2>1, <2>2
  <1>6. QED BY <1>1, <1>3, <1>4, <1>5 DEF IInv
-----------------------------------------------------------------------------
(* Another transaction changes a row.                                       *)

(* The rows that it leaves in place.                                        *)
LEMMA OthersStay ==
    ASSUME Base, NEW p \in Pk, NEW v \in Value \cup {Null, Absent}, Change(p, v)
    PROVE  /\ UNCHANGED <<descending, cursor, first, items, page, info, finished, served, initial>>
           /\ moved \subseteq moved' /\ (torn => torn') /\ ~fresh' /\ ~finished
           /\ ~torn' => (first = None \/ items # None \/ (page = None <=> info = None))
           /\ \A q \in Pk : q \notin moved' /\ table[q] # Absent => table'[q] = table[q]
           /\ \A r \in Row : Held(r) => Held(r)'
           /\ \A r : Ahead(r)' = Ahead(r)
  <1>1. /\ UNCHANGED <<descending, cursor, first, items, page, info, finished, served, initial>>
        /\ moved \subseteq moved' /\ (torn => torn') /\ ~fresh' /\ ~finished
    BY DEF Change, request
  <1>2. ~torn' => (first = None \/ items # None \/ (page = None <=> info = None))
    BY DEF Change
  <1>3. table' = [table EXCEPT ![p] = v] /\ table \in Table /\ (table[p] # Absent => p \in moved')
    BY DEF Change, Base, TypeOK
  <1>4. \A q \in Pk : q # p => table'[q] = table[q]
    BY <1>3 DEF Table
  <1>5. \A q \in Pk : q \notin moved' /\ table[q] # Absent => table'[q] = table[q]
    BY <1>3, <1>4
  <1>6. ASSUME NEW r \in Row, Held(r) PROVE Held(r)'
    <2>1. r.pk \in Pk /\ r.v # Absent
      BY Kinds DEF Row
    <2>2. QED BY <1>1, <1>5, <1>6, <2>1 DEF Held
  <1>7. \A r : Ahead(r)' = Ahead(r)
    BY <1>1 DEF Ahead
  <1>8. QED BY <1>1, <1>2, <1>5, <1>6, <1>7

LEMMA ChangeKeeps ==
    ASSUME IInv, NEW p \in Pk, NEW v \in Value \cup {Null, Absent}, Change(p, v)
    PROVE  IInv'
  <1>1. /\ Base /\ Base' /\ initial \subseteq Pk
        /\ (items # None => items \in SUBSET Row) /\ (page # None => page \in Seq(Row))
    BY ChangeTyped DEF IInv, Base, TypeOK
  <1>2. /\ UNCHANGED <<descending, cursor, first, items, page, info, finished, served, initial>>
        /\ moved \subseteq moved' /\ (torn => torn') /\ ~fresh' /\ ~finished
        /\ ~torn' => (first = None \/ items # None \/ (page = None <=> info = None))
        /\ \A q \in Pk : q \notin moved' /\ table[q] # Absent => table'[q] = table[q]
        /\ \A r \in Row : Held(r) => Held(r)'
        /\ \A r : Ahead(r)' = Ahead(r)
    BY <1>1, OthersStay
  <1>3. ASSUME NEW q \in Settled'
        PROVE  /\ q \in Settled /\ q \in Pk /\ table[q] # Absent
               /\ table'[q] = table[q] /\ RowOf(q)' = RowOf(q)
               /\ Ahead(RowOf(q))' = Ahead(RowOf(q))
    <2>1. q \in Settled /\ q \in Pk /\ q \notin moved'
      BY <1>1, <1>2, <1>3 DEF Settled
    <2>2. table[q] # Absent
      BY <2>1 DEF IInv, Kept
    <2>3. table'[q] = table[q]
      BY <1>2, <2>1, <2>2
    <2>4. RowOf(q)' = RowOf(q)
      BY <2>3 DEF RowOf
    <2>5. Ahead(RowOf(q))' = Ahead(RowOf(q))
      BY <1>2, <2>4 DEF Ahead
    <2>6. QED BY <2>1, <2>2, <2>3, <2>4, <2>5
  <1>4. Kept'
    <2>1. \A q \in Settled' : table'[q] # Absent
      BY <1>3
    <2>2. items' # None => \A r \in items' : Held(r)'
      BY <1>1, <1>2 DEF IInv, Kept
    <2>3. items' # None => \A q \in Settled' : RowOf(q)' \in items'
      BY <1>2, <1>3 DEF IInv, Kept
    <2>4. QED BY <2>1, <2>2, <2>3 DEF Kept
  <1>5. PageCovers'
    <2> SUFFICES ASSUME page # None PROVE Covers(page)'
      BY <1>2 DEF PageCovers
    <2> PICK P : P = page
      OBVIOUS
    <2>1. Covers(P) /\ P \in Seq(Row)
      BY <1>1 DEF IInv, PageCovers
    <2>2. \A i \in 1..Len(P) : Held(P[i])' /\ Ahead(P[i])'
      <3> SUFFICES ASSUME NEW i \in 1..Len(P) PROVE Held(P[i])' /\ Ahead(P[i])'
        OBVIOUS
      <3>1. P[i] \in Row /\ Held(P[i]) /\ Ahead(P[i])
        BY <2>1 DEF Covers
      <3>2. QED BY <1>2, <3>1
    <2>3. \A i, j \in 1..Len(P) : i < j => After(descending', P[i], P[j])
      BY <1>2, <2>1 DEF Covers
    <2>4. ASSUME NEW q \in Settled', Ahead(RowOf(q))'
          PROVE  \/ InPage(P, RowOf(q)')
                 \/ Len(P) = first' /\ After(descending', P[first'], RowOf(q)')
      BY <1>2, <1>3, <2>1, <2>4 DEF Covers
    <2>5. page' = P
      BY <1>2
    <2>6. QED BY <2>2, <2>3, <2>4, <2>5 DEF Covers, InPage
  <1>6. AsRead'
    <2>1. items # None => PageNow' = PageNow /\ Source' = Source
      BY <1>2 DEF PageNow, Source
    <2>2. page # None \/ info # None => first # None
      BY <1>1 DEF Base, Phases
    <2>3. page' # None /\ (fresh' \/ (info' = None /\ ~torn')) => page' = PageNow'
      BY <1>2, <2>1, <2>2 DEF IInv, AsRead
    <2>4. info' # None /\ (fresh' \/ (page' = None /\ ~torn'))
            => Describes(info, PageNow, Source)'
      <3> SUFFICES ASSUME info' # None, fresh' \/ (page' = None /\ ~torn')
                   PROVE  Describes(info, PageNow, Source)'
        OBVIOUS
      <3>1. info # None /\ page = None /\ ~torn /\ items # None
        BY <1>2, <2>2
      <3>2. Describes(info, PageNow, Source)
        BY <3>1 DEF IInv, AsRead
      <3>3. QED BY <1>2, <2>1, <3>1, <3>2 DEF Describes
    <2>5. QED BY <2>3, <2>4 DEF AsRead
  <1>7. GoesOn'
    <2> SUFFICES ASSUME page # None, info # None, ~torn PROVE Fits(info, page)'
      BY <1>2 DEF GoesOn
    <2>1. Fits(info, page)
      BY DEF IInv, GoesOn
    <2>2. info'.next => page' # <<>> /\ info'.end = Last(page')
      BY <1>2, <2>1 DEF Fits
    <2>3. ASSUME ~info'.next, NEW q \in Settled', Ahead(RowOf(q))'
          PROVE  InPage(page, RowOf(q))'
      <3>1. InPage(page, RowOf(q))
        BY <1>2, <1>3, <2>1, <2>3 DEF Fits
      <3>2. QED BY <1>2, <1>3, <3>1 DEF InPage
    <2>4. QED BY <2>2, <2>3 DEF Fits
  <1>8. Walked'
    <2> SUFFICES ASSUME ~torn' PROVE Walked'
      BY DEF Walked
    <2>1. ~torn /\ served' = served /\ finished' = finished
      BY <1>2
    <2>2. ASSUME NEW i \in DOMAIN served, served[i] \notin moved'
          PROVE  table'[served[i]] # Absent /\ (~finished' => ~Ahead(RowOf(served[i]))')
      <3>1. served[i] \in Pk /\ served[i] \notin moved
        BY <1>1, <1>2, <2>2 DEF Base, TypeOK
      <3>2. table[served[i]] # Absent /\ ~Ahead(RowOf(served[i]))
        BY <1>2, <2>1, <3>1 DEF IInv, Walked
      <3>3. table'[served[i]] = table[served[i]]
        BY <1>2, <2>2, <3>1, <3>2
      <3>4. RowOf(served[i])' = RowOf(served[i])
        BY <2>1, <3>3 DEF RowOf
      <3>5. QED BY <1>2, <3>2, <3>3, <3>4 DEF Ahead
    <2>3. ASSUME NEW q \in Settled', finished' \/ ~Ahead(RowOf(q))'
          PROVE  \E i \in DOMAIN served' : served'[i] = q
      BY <1>3, <2>1, <2>3 DEF IInv, Walked
    <2>4. QED BY <2>1, <2>2, <2>3 DEF Walked
  <1>9. NothingRepeated'
    BY <1>2 DEF IInv, NothingRepeated
  <1>10. QED BY <1>1, <1>4, <1>5, <1>6, <1>7, <1>8, <1>9 DEF IInv
-----------------------------------------------------------------------------

LEMMA InitKeeps == Init => IInv
  <1> SUFFICES ASSUME Init PROVE IInv
    OBVIOUS
  <1>1. Base
    BY InitBase
  <1>2. /\ cursor = None /\ items = None /\ page = None /\ info = None /\ finished = FALSE
        /\ served = <<>> /\ moved = {} /\ initial = {p \in Pk : table[p] # Absent}
    BY DEF Init
  <1>3. Kept
    BY <1>2 DEF Kept, Settled
  <1>4. PageCovers /\ AsRead /\ GoesOn
    BY <1>2 DEF PageCovers, AsRead, GoesOn
  <1>5. Walked /\ NothingRepeated
    BY <1>2 DEF Walked, Ahead, NothingRepeated
  <1>6. QED BY <1>1, <1>3, <1>4, <1>5 DEF IInv

LEMMA NextKeeps == IInv /\ [Next]_vars => IInv'
  <1> SUFFICES ASSUME IInv, [Next]_vars PROVE IInv'
    OBVIOUS
  <1>1. CASE Request
    BY <1>1, RequestKeeps
  <1>2. CASE ReadPage
    BY <1>2, ReadPageKeeps
  <1>3. CASE ReadInfo
    BY <1>3, ReadInfoKeeps
  <1>4. CASE ReadPrevious
    BY <1>4, ReadPreviousKeeps
  <1>5. CASE TakePage
    BY <1>5, TakePageKeeps
  <1>6. ASSUME NEW p \in Pk, NEW v \in Value \cup {Null, Absent}, Change(p, v) PROVE IInv'
    BY <1>6, ChangeKeeps
  <1>7. CASE UNCHANGED vars
    <2>1. Base'
      BY <1>7 DEF vars, IInv, Base, TypeOK, Phases
    <2>2. UNCHANGED <<table, descending, cursor, first, items, page, info, finished, served,
                      initial, moved, fresh, torn>>
      BY <1>7 DEF vars
    <2>3. Kept' /\ Walked' /\ NothingRepeated' /\ PageNow' = PageNow /\ Source' = Source
      BY <2>2, ReadsStay, WalkStays DEF IInv
    <2>4. PageCovers'
      BY <2>2 DEF IInv, PageCovers, Covers, Settled, Held, Ahead, RowOf, InPage
    <2>5. AsRead'
      BY <2>2, <2>3 DEF IInv, AsRead, Describes
    <2>6. GoesOn'
      BY <2>2 DEF IInv, GoesOn, Fits, Settled, Ahead, RowOf, InPage
    <2>7. QED BY <2>1, <2>3, <2>4, <2>5, <2>6 DEF IInv
  <1>8. QED BY <1>1, <1>2, <1>3, <1>4, <1>5, <1>6, <1>7 DEF Next

LEMMA InvariantHolds == Spec => []IInv
  BY InitKeeps, NextKeeps, PTL DEF Spec

(* A walk that is not torn serves every row that is neither updated nor     *)
(* deleted, whatever the page sizes, the ties, the nulls and the changes of *)
(* the other rows: the keyset predicate and the order by agree in both      *)
(* paths of paginations/pagination.py.                                      *)
THEOREM NothingIsSkipped == Spec => []NothingSkipped
  <1>1. IInv => NothingSkipped
    <2> SUFFICES ASSUME IInv, finished, ~torn, NEW p \in initial \ moved
                 PROVE  p \in ToSet(served)
      BY DEF NothingSkipped
    <2>1. \E i \in DOMAIN served : served[i] = p
      BY DEF IInv, Walked, Settled
    <2>2. QED BY <2>1 DEF ToSet
  <1>2. QED BY InvariantHolds, <1>1, PTL

(* No row is served twice that is neither updated nor deleted.              *)
THEOREM NothingIsRepeated == Spec => []NothingRepeated
  <1>1. IInv => NothingRepeated
    BY DEF IInv
  <1>2. QED BY InvariantHolds, <1>1, PTL

(* get_page_info describes the page when the table stands still: cursors,   *)
(* hasNextPage and hasPreviousPage, on a queryset and in memory.            *)
THEOREM InfoIsRight == Spec => []InfoDescribesPage
  <1>1. IInv => InfoDescribesPage
    <2> SUFFICES ASSUME IInv, HasAll, fresh PROVE InfoDescribesPage
      BY DEF InfoDescribesPage
    <2>1. /\ Base /\ descending \in BOOLEAN /\ page \in Seq(Row) /\ page = PageNow
          /\ Describes(info, page, Source) /\ Source \in SUBSET Row
          /\ info.previous # None
      BY PageNowIsSegment DEF IInv, AsRead, HasAll, Base, TypeOK, KeyedRows
    <2>2. Source = IF items = None THEN Rows(table) ELSE items
      BY DEF Source
    <2>3. CASE page = <<>>
      BY <2>1, <2>3 DEF InfoDescribesPage, Describes
    <2>4. CASE page # <<>>
      <3>1. Head(page) \in Row /\ Last(page) \in Row
        BY <2>1, <2>4, Ends
      <3>2. /\ info.start = Head(page) /\ info.end = Last(page)
            /\ info.next = More(page, Source, descending)
            /\ info.previous = Less(page, Source, descending)
        BY <2>1, <2>4 DEF Describes
      <3>3. info.start = EncodeCursor(Head(page)) /\ info.end = EncodeCursor(Last(page))
        BY <3>1, <3>2, CodeIsRow
      <3>4. \A r \in Source :
               /\ Precedes(OrderTerms(descending), Last(page), r)
                     <=> After(descending, Last(page), r)
               /\ Precedes(OrderTerms(descending), r, Head(page))
                     <=> After(descending, r, Head(page))
        BY <2>1, <3>1, SqlIsAfter
      <3>5. info.next = (\E r \in Source : Precedes(OrderTerms(descending), Last(page), r))
        BY <2>4, <3>2, <3>4 DEF More
      <3>6. info.previous = (\E r \in Source : Precedes(OrderTerms(descending), r, Head(page)))
        BY <2>4, <3>2, <3>4 DEF Less
      <3>7. QED BY <2>2, <2>4, <3>3, <3>5, <3>6 DEF InfoDescribesPage
    <2>5. QED BY <2>3, <2>4
  <1>2. QED BY InvariantHolds, <1>1, PTL

(* Where a segment ends and what it holds leaves no choice.                 *)
LEMMA SegmentsAgree ==
    ASSUME NEW desc \in BOOLEAN, NEW S \in SUBSET Row, NEW c, NEW n \in Nat \ {0},
           NEW P, Segment(P, S, desc, c, n), NEW Q, Segment(Q, S, desc, c, n)
    PROVE  P = Q
  <1>1. /\ P \in Seq(S) /\ Len(P) \in Nat /\ Len(P) <= n
        /\ Q \in Seq(S) /\ Len(Q) \in Nat /\ Len(Q) <= n
    BY DEF Segment
  <1>2. /\ \A i \in 1..Len(P) : P[i] \in Beyonds(S, desc, c) /\ P[i] \in Row
        /\ \A i \in 1..Len(Q) : Q[i] \in Beyonds(S, desc, c) /\ Q[i] \in Row
    BY DEF Segment, Beyonds
  <1>3. /\ \A i, j \in 1..Len(P) : i < j => After(desc, P[i], P[j])
        /\ \A i, j \in 1..Len(Q) : i < j => After(desc, Q[i], Q[j])
    BY DEF Segment
  <1>4. \A r \in Beyonds(S, desc, c) :
           /\ (\E i \in 1..Len(P) : P[i] = r) \/ (Len(P) = n /\ After(desc, P[n], r))
           /\ (\E i \in 1..Len(Q) : Q[i] = r) \/ (Len(Q) = n /\ After(desc, Q[n], r))
    BY DEF Segment
  <1>5. /\ \A r \in Row : ~After(desc, r, r)
        /\ \A r, s \in Row : r # s => After(desc, r, s) \/ After(desc, s, r)
        /\ \A r, s, t \in Row : After(desc, r, s) /\ After(desc, s, t) => After(desc, r, t)
    BY AfterOrders
  <1> DEFINE Same(i) == i \in 1..Len(P) /\ i \in 1..Len(Q) /\ P[i] = Q[i]
             Odd == {i \in Nat \ {0} : ~Same(i)}
  <1>6. Odd \in SUBSET Nat /\ n + 1 \in Odd
    BY <1>1
  <1> PICK i \in Nat \ {0} : ~Same(i) /\ \A k \in 1..(i - 1) : Same(k)
    <2>1. Min(Odd) \in Odd /\ \A y \in Odd : Min(Odd) <= y
      BY <1>6, MinIsLeast
    <2> PICK i : i = Min(Odd)
      OBVIOUS
    <2>2. i \in Nat \ {0} /\ ~Same(i)
      BY <2>1
    <2>3. \A k \in 1..(i - 1) : Same(k)
      <3> HIDE DEF Same
      <3>1. \A k \in 1..(i - 1) : k \in Nat \ {0} /\ ~(i <= k)
        BY <2>2
      <3>2. QED BY <2>1, <3>1
    <2>4. QED BY <2>2, <2>3
  <1>7. ~(i \in 1..Len(P) /\ i \in 1..Len(Q))
    <2> SUFFICES ASSUME i \in 1..Len(P), i \in 1..Len(Q) PROVE FALSE
      OBVIOUS
    <2>1. P[i] # Q[i] /\ P[i] \in Row /\ Q[i] \in Row
      BY <1>2
    <2>2. CASE After(desc, P[i], Q[i])
      <3>1. CASE \E k \in 1..Len(Q) : Q[k] = P[i]
        <4>1. PICK k \in 1..Len(Q) : Q[k] = P[i]
          BY <3>1
        <4>2. CASE k < i
          BY <1>1, <1>3, <1>5, <2>1, <4>1, <4>2
        <4>3. CASE ~(k < i)
          BY <1>1, <1>3, <1>5, <2>1, <2>2, <4>1, <4>3
        <4>4. QED BY <4>2, <4>3
      <3>2. CASE Len(Q) = n /\ After(desc, Q[n], P[i])
        <4>1. n \in 1..Len(Q) /\ Q[n] \in Row /\ i <= n
          BY <1>1, <1>2, <3>2
        <4>2. After(desc, Q[n], Q[i])
          BY <1>5, <2>1, <2>2, <3>2, <4>1
        <4>3. QED BY <1>3, <1>5, <2>1, <4>1, <4>2
      <3>3. QED BY <1>2, <1>4, <3>1, <3>2
    <2>3. CASE After(desc, Q[i], P[i])
      <3>1. CASE \E k \in 1..Len(P) : P[k] = Q[i]
        <4>1. PICK k \in 1..Len(P) : P[k] = Q[i]
          BY <3>1
        <4>2. CASE k < i
          BY <1>1, <1>3, <1>5, <2>1, <4>1, <4>2
        <4>3. CASE ~(k < i)
          BY <1>1, <1>3, <1>5, <2>1, <2>3, <4>1, <4>3
        <4>4. QED BY <4>2, <4>3
      <3>2. CASE Len(P) = n /\ After(desc, P[n], Q[i])
        <4>1. n \in 1..Len(P) /\ P[n] \in Row /\ i <= n
          BY <1>1, <1>2, <3>2
        <4>2. After(desc, P[n], P[i])
          BY <1>5, <2>1, <2>3, <3>2, <4>1
        <4>3. QED BY <1>3, <1>5, <2>1, <4>1, <4>2
      <3>3. QED BY <1>2, <1>4, <3>1, <3>2
    <2>4. QED BY <1>5, <2>1, <2>2, <2>3
  <1>8. ~(i \in 1..Len(P)) /\ ~(i \in 1..Len(Q))
    <2>1. ASSUME i \in 1..Len(P), i > Len(Q) PROVE FALSE
      <3>1. PICK k \in 1..Len(Q) : Q[k] = P[i]
        BY <1>1, <1>2, <1>4, <2>1
      <3>2. k < i /\ P[k] = P[i] /\ k \in 1..Len(P)
        BY <1>1, <2>1, <3>1
      <3>3. QED BY <1>2, <1>3, <1>5, <2>1, <3>2
    <2>2. ASSUME i \in 1..Len(Q), i > Len(P) PROVE FALSE
      <3>1. PICK k \in 1..Len(P) : P[k] = Q[i]
        BY <1>1, <1>2, <1>4, <2>2
      <3>2. k < i /\ Q[k] = Q[i] /\ k \in 1..Len(Q)
        BY <1>1, <2>2, <3>1
      <3>3. QED BY <1>2, <1>3, <1>5, <2>2, <3>2
    <2>3. QED BY <1>1, <1>7, <2>1, <2>2
  <1>9. Len(P) = i - 1 /\ Len(Q) = i - 1
    <2>1. i - 1 = 0 \/ (i - 1 \in 1..Len(P) /\ i - 1 \in 1..Len(Q))
      BY <1>1
    <2>2. QED BY <1>1, <1>8, <2>1
  <1>10. QED BY <1>1, <1>9

(* A page is the same from a queryset as from the prefetched rows, wherever *)
(* it begins and whatever has become of the row that the cursor names.      *)
LEMMA CursorsReadAlike ==
    ASSUME TypeOK, NEW desc \in BOOLEAN, NEW c \in Boundary \cup {None}, NEW n \in Nat \ {0}
    PROVE  CursorPathsAgree(desc, c, n)
  <1>1. KeyedRows(Rows(table))
    BY RowsKeyed DEF TypeOK
  <1>2. Rows(table) \in SUBSET Row /\ IsFiniteSet(Rows(table))
    BY <1>1, KeyedIsFinite DEF KeyedRows
  <1>3. Segment(FromQueryset(Rows(table), desc, c, n), Rows(table), desc, c, n)
    BY <1>2, SqlPage
  <1>4. Segment(FromItems(Rows(table), desc, c, n), Rows(table), desc, c, n)
    BY <1>1, MemoryPage
  <1>5. QED BY <1>2, <1>3, <1>4, SegmentsAgree DEF CursorPathsAgree

(* It is so in every state of a walk.                                       *)
THEOREM PathsReadAlike ==
    Spec => [](\A desc \in BOOLEAN, c \in Boundary \cup {None}, n \in Nat \ {0} :
                  CursorPathsAgree(desc, c, n))
  <1>1. TypeOK => \A desc \in BOOLEAN, c \in Boundary \cup {None}, n \in Nat \ {0} :
                     CursorPathsAgree(desc, c, n)
    BY CursorsReadAlike
  <1>2. QED BY Typing, <1>1, PTL

-----------------------------------------------------------------------------
(* Any order that has the key.                                              *)

(* Two listings of a set in one order are the same.                         *)
LEMMA OneListing ==
    ASSUME NEW S, NEW R, StrictOrder(R, S), Cardinality(S) \in Nat,
           NEW f, Ascending(f, S, R), NEW g, Ascending(g, S, R)
    PROVE  f = g
  <1> DEFINE n == Cardinality(S)
  <1>1. /\ f \in [1..n -> S] /\ g \in [1..n -> S]
        /\ \A i, j \in 1..n : i < j => <<f[i], f[j]>> \in R /\ <<g[i], g[j]>> \in R
        /\ \A x \in S : (\E i \in 1..n : f[i] = x) /\ (\E i \in 1..n : g[i] = x)
    BY DEF Ascending
  <1>2. /\ \A x \in S : <<x, x>> \notin R
        /\ \A x, y \in S : x # y => <<x, y>> \in R \/ <<y, x>> \in R
        /\ \A x, y, z \in S : <<x, y>> \in R /\ <<y, z>> \in R => <<x, z>> \in R
    BY DEF StrictOrder
  <1> DEFINE Odd == {i \in 1..n : f[i] # g[i]}
  <1> HIDE DEF n
  <1>3. Odd = {}
    <2> SUFFICES ASSUME Odd # {} PROVE FALSE
      OBVIOUS
    <2>1. Odd \in SUBSET Nat
      BY DEF n
    <2>2. Min(Odd) \in Odd /\ \A y \in Odd : Min(Odd) <= y
      BY <2>1, MinIsLeast
    <2>3. PICK i \in 1..n : f[i] # g[i] /\ \A k \in 1..n : k < i => f[k] = g[k]
      <3>1. \A k \in 1..n : k < Min(Odd) => k \notin Odd
        BY <2>1, <2>2
      <3>2. QED BY <2>2, <3>1
    <2>4. f[i] \in S /\ g[i] \in S
      BY <1>1
    <2>5. ASSUME <<f[i], g[i]>> \in R PROVE FALSE
      <3>1. PICK k \in 1..n : g[k] = f[i]
        BY <1>1, <2>4
      <3>2. CASE k < i
        BY <1>1, <1>2, <2>3, <2>4, <3>1, <3>2
      <3>3. CASE i < k
        BY <1>1, <1>2, <2>4, <2>5, <3>1, <3>3
      <3>4. CASE i = k
        BY <2>3, <3>1, <3>4
      <3>5. QED BY <3>2, <3>3, <3>4, Cardinality(S) \in Nat DEF n
    <2>6. ASSUME <<g[i], f[i]>> \in R PROVE FALSE
      <3>1. PICK k \in 1..n : f[k] = g[i]
        BY <1>1, <2>4
      <3>2. CASE k < i
        BY <1>1, <1>2, <2>3, <2>4, <3>1, <3>2
      <3>3. CASE i < k
        BY <1>1, <1>2, <2>4, <2>6, <3>1, <3>3
      <3>4. CASE i = k
        BY <2>3, <3>1, <3>4
      <3>5. QED BY <3>2, <3>3, <3>4, Cardinality(S) \in Nat DEF n
    <2>7. QED BY <1>2, <2>3, <2>4, <2>5, <2>6
  <1>4. \A i \in 1..n : f[i] = g[i]
    BY <1>3
  <1>5. f \in [1..n -> S] /\ g \in [1..n -> S]
    BY <1>1
  <1>6. f = [i \in 1..n |-> f[i]] /\ g = [i \in 1..n |-> g[i]]
    BY <1>5
  <1> HIDE DEF Odd
  <1>7. QED BY <1>4, <1>6

(* How many come before the element at a place.                             *)
LEMMA PlaceInListing ==
    ASSUME NEW S, IsFiniteSet(S), NEW R, StrictOrder(R, S), NEW f, Ascending(f, S, R)
    PROVE  \A k \in 1..Cardinality(S) : Cardinality({y \in S : <<y, f[k]>> \in R}) = k - 1
  <1> DEFINE place == [x \in S |-> Cardinality({y \in S : <<y, x>> \in R})]
             n == Cardinality(S)
             placed == Placed(S, R)
             list == Listed(S, R)
  <1>1. /\ n \in Nat
        /\ \A k \in 1..n : \E x \in S : place[x] = k - 1
    BY Places
  <1>2. placed = {<<place[x], x>> : x \in S}
    BY DEF Placed
  <1>3. Ascending(list, S, R)
    BY ByPlace
  <1>4. f = list
    BY <1>1, <1>3, OneListing
  <1>5. list = [k \in 1..n |-> (CHOOSE p \in placed : p[1] = k - 1)[2]]
    BY DEF Listed
  <1> HIDE DEF place, placed, list
  <1>6. ASSUME NEW k \in 1..n PROVE list[k] \in S /\ place[list[k]] = k - 1
    <2>1. PICK x \in S : place[x] = k - 1
      BY <1>1
    <2>2. <<place[x], x>> \in placed /\ <<place[x], x>>[1] = k - 1
      BY <1>2, <2>1
    <2> DEFINE q == CHOOSE p \in placed : p[1] = k - 1
    <2>3. q \in placed /\ q[1] = k - 1
      BY <2>2
    <2>4. list[k] = q[2]
      BY <1>5
    <2> HIDE DEF q
    <2>5. PICK z \in S : q = <<place[z], z>>
      BY <1>2, <2>3
    <2>6. QED BY <2>3, <2>4, <2>5
  <1>7. ASSUME NEW k \in 1..n PROVE Cardinality({y \in S : <<y, f[k]>> \in R}) = k - 1
    <2>1. PICK x \in S : x = f[k] /\ place[x] = k - 1
      BY <1>4, <1>6
    <2>2. place[x] = Cardinality({y \in S : <<y, x>> \in R})
      BY DEF place
    <2>3. QED BY <2>1, <2>2
  <1>8. QED BY <1>7

(* Rows differ first at some term.                                          *)
Lex(terms, k, r, s) ==
    \E i \in k..Len(terms) :
        /\ Apart(terms[i].desc, r[terms[i].col], s[terms[i].col])
        /\ \A j \in k..(i - 1) : r[terms[j].col] = s[terms[j].col]

LEMMA ApartOrders ==
    ASSUME NEW desc \in BOOLEAN
    PROVE  /\ \A a \in Int \cup {Null} : ~Apart(desc, a, a)
           /\ \A a, b \in Int \cup {Null} : a # b => Apart(desc, a, b) \/ Apart(desc, b, a)
           /\ \A a, b, c \in Int \cup {Null} :
                 Apart(desc, a, b) /\ Apart(desc, b, c) => Apart(desc, a, c)
  BY Kinds DEF Apart, Out

LEMMA TermTypes ==
    ASSUME NEW terms \in Seq(Term)
    PROVE  /\ Len(terms) \in Nat /\ DOMAIN terms = 1..Len(terms)
           /\ \A i \in 1..Len(terms) :
                 /\ terms[i].desc \in BOOLEAN /\ terms[i].col \in Column
                 /\ \A r \in Row : r[terms[i].col] \in Int \cup {Null}
  <1>1. Len(terms) \in Nat /\ DOMAIN terms = 1..Len(terms)
    OBVIOUS
  <1>2. ASSUME NEW i \in 1..Len(terms)
        PROVE  /\ terms[i].desc \in BOOLEAN /\ terms[i].col \in Column
               /\ \A r \in Row : r[terms[i].col] \in Int \cup {Null}
    <2>1. terms[i] \in Term
      OBVIOUS
    <2>2. QED BY <2>1, Kinds DEF Term, Column, Row
  <1>3. QED BY <1>1, <1>2

LEMMA PrecedesIsLex ==
    ASSUME NEW terms \in Seq(Term), NEW r, NEW s
    PROVE  Precedes(terms, r, s) <=> Lex(terms, 1, r, s)
  BY TermTypes DEF Precedes, Lex, SqlBefore, NullsFirst, Apart, Out

(* With the key among the terms, rows with different keys are in order.     *)
HasPk(terms) == \E i \in 1..Len(terms) : terms[i].col = "pk"

LEMMA LexOrders ==
    ASSUME NEW terms \in Seq(Term), HasPk(terms), NEW S, KeyedRows(S)
    PROVE  /\ \A r \in S : ~Lex(terms, 1, r, r)
           /\ \A r, s \in S : r # s => Lex(terms, 1, r, s) \/ Lex(terms, 1, s, r)
           /\ \A r, s, t \in S : Lex(terms, 1, r, s) /\ Lex(terms, 1, s, t) => Lex(terms, 1, r, t)
  <1> DEFINE n == Len(terms)
             at(i, r) == r[terms[i].col]
  <1>1. n \in Nat /\ S \in SUBSET Row
    BY TermTypes DEF KeyedRows
  <1>2. \A i \in 1..n : terms[i].desc \in BOOLEAN /\ \A r \in S : at(i, r) \in Int \cup {Null}
    BY <1>1, TermTypes
  <1>3. \A i \in 1..n : \A r, s, t \in S :
           /\ ~Apart(terms[i].desc, at(i, r), at(i, r))
           /\ at(i, r) # at(i, s) => \/ Apart(terms[i].desc, at(i, r), at(i, s))
                                     \/ Apart(terms[i].desc, at(i, s), at(i, r))
           /\ Apart(terms[i].desc, at(i, r), at(i, s)) /\ Apart(terms[i].desc, at(i, s), at(i, t))
                 => Apart(terms[i].desc, at(i, r), at(i, t))
    <2> TAKE i \in 1..n
    <2> TAKE r, s, t \in S
    <2>1. /\ terms[i].desc \in BOOLEAN
          /\ at(i, r) \in Int \cup {Null} /\ at(i, s) \in Int \cup {Null}
          /\ at(i, t) \in Int \cup {Null}
      BY <1>2
    <2> HIDE DEF at
    <2>2. QED BY <2>1, ApartOrders
  <1>4. \A r, s : Lex(terms, 1, r, s) <=>
           \E i \in 1..n : /\ Apart(terms[i].desc, at(i, r), at(i, s))
                           /\ \A j \in 1..(i - 1) : at(j, r) = at(j, s)
    BY DEF Lex
  <1>5. ASSUME NEW r \in S, NEW s \in S, r # s
        PROVE  Lex(terms, 1, r, s) \/ Lex(terms, 1, s, r)
    <2> DEFINE Odd == {i \in 1..n : at(i, r) # at(i, s)}
    <2>1. Odd # {}
      <3>1. r.pk # s.pk
        BY <1>5 DEF KeyedRows
      <3>2. PICK i \in 1..n : terms[i].col = "pk"
        BY DEF HasPk
      <3>3. QED BY <3>1, <3>2
    <2>2. Odd \in SUBSET Nat
      BY <1>1
    <2>3. Min(Odd) \in Odd /\ \A y \in Odd : Min(Odd) <= y
      BY <2>1, <2>2, MinIsLeast
    <2>4. PICK i \in 1..n : at(i, r) # at(i, s) /\ \A j \in 1..n : j < i => at(j, r) = at(j, s)
      <3>1. PICK i : i = Min(Odd)
        OBVIOUS
      <3>2. i \in 1..n /\ at(i, r) # at(i, s) /\ \A y \in Odd : i <= y
        BY <2>3, <3>1
      <3>3. ASSUME NEW j \in 1..n, j < i PROVE at(j, r) = at(j, s)
        <4>1. j \notin Odd
          <5> HIDE DEF Odd, n
          <5>1. i \in Nat /\ j \in Nat /\ ~(i <= j)
            BY <1>1, <3>2, <3>3
          <5>2. QED BY <3>2, <5>1
        <4>2. QED BY <4>1
      <3>4. QED BY <3>2, <3>3
    <2> HIDE DEF at, Odd, n
    <2>5. \A j \in 1..(i - 1) : at(j, r) = at(j, s) /\ at(j, s) = at(j, r)
      BY <1>1, <2>4
    <2>6. QED BY <1>3, <1>4, <2>4, <2>5
  <1>6. ASSUME NEW r \in S, NEW s \in S, NEW t \in S, Lex(terms, 1, r, s), Lex(terms, 1, s, t)
        PROVE  Lex(terms, 1, r, t)
    <2>1. PICK i \in 1..n : /\ Apart(terms[i].desc, at(i, r), at(i, s))
                            /\ \A j \in 1..(i - 1) : at(j, r) = at(j, s)
      BY <1>4, <1>6
    <2>2. PICK k \in 1..n : /\ Apart(terms[k].desc, at(k, s), at(k, t))
                            /\ \A j \in 1..(k - 1) : at(j, s) = at(j, t)
      BY <1>4, <1>6
    <2> HIDE DEF at, n
    <2>3. CASE i < k
      <3>1. at(i, s) = at(i, t) /\ \A j \in 1..(i - 1) : at(j, r) = at(j, t)
        BY <1>1, <2>1, <2>2, <2>3
      <3>2. QED BY <1>4, <2>1, <3>1
    <2>4. CASE k < i
      <3>1. at(k, r) = at(k, s) /\ \A j \in 1..(k - 1) : at(j, r) = at(j, t)
        BY <1>1, <2>1, <2>2, <2>4
      <3>2. QED BY <1>4, <2>2, <3>1
    <2>5. CASE i = k
      <3>1. Apart(terms[i].desc, at(i, r), at(i, t)) /\ \A j \in 1..(i - 1) : at(j, r) = at(j, t)
        BY <1>3, <2>1, <2>2, <2>5
      <3>2. QED BY <1>4, <3>1
    <2>6. QED BY <1>1, <2>3, <2>4, <2>5
  <1>7. ASSUME NEW r \in S PROVE ~Lex(terms, 1, r, r)
    <2> HIDE DEF at, n
    <2> QED BY <1>3, <1>4
  <1>8. QED BY <1>5, <1>6, <1>7

(* As a set of pairs.                                                       *)
Pairs(terms, S) == {p \in S \X S : Lex(terms, 1, p[1], p[2])}

LEMMA PairsOrder ==
    ASSUME NEW terms \in Seq(Term), HasPk(terms), NEW S, KeyedRows(S)
    PROVE  /\ StrictOrder(Pairs(terms, S), S)
           /\ \A r, s \in S : <<r, s>> \in Pairs(terms, S) <=> Precedes(terms, r, s)
  <1>1. \A r, s \in S : <<r, s>> \in Pairs(terms, S) <=> Lex(terms, 1, r, s)
    BY DEF Pairs
  <1>2. StrictOrder(Pairs(terms, S), S)
    BY <1>1, LexOrders DEF StrictOrder
  <1>3. QED BY <1>1, <1>2, PrecedesIsLex

(* What the database makes of them.                                         *)
LEMMA SqlLists ==
    ASSUME NEW terms \in Seq(Term), HasPk(terms), NEW S, KeyedRows(S)
    PROVE  Ascending(OrderedBySql(S, terms), S, Pairs(terms, S))
  <1> DEFINE R == Pairs(terms, S)
  <1>1. StrictOrder(R, S) /\ \A r, s \in S : <<r, s>> \in R <=> Precedes(terms, r, s)
    BY PairsOrder
  <1> HIDE DEF R
  <1>2. \A x \in S : {y \in S : Precedes(terms, y, x)} = {y \in S : <<y, x>> \in R}
    BY <1>1
  <1>3. Placed(S, R) = {<<Cardinality({y \in S : Precedes(terms, y, x)}), x>> : x \in S}
    BY <1>2 DEF Placed
  <1>4. OrderedBySql(S, terms) = Listed(S, R)
    BY <1>3 DEF OrderedBySql, InOrder, Listed
  <1>5. Ascending(Listed(S, R), S, R)
    BY <1>1, ByPlace, KeyedIsFinite
  <1>6. QED BY <1>4, <1>5 DEF R

(* A fold over the terms is a pass for each, the last one first: the function *)
(* that the fold is defined by exists, by the least size of a set of places *)
(* for which it does not.                                                   *)
LEMMA FoldOfPasses ==
    ASSUME NEW terms \in Seq(Term), NEW rs
    PROVE  \E done : /\ done[Len(terms) + 1] = rs
                     /\ \A k \in 1..Len(terms) : done[k] = SortPass(done[k + 1], terms[k])
                     /\ OrderedInMemory(rs, terms) = done[1]
  <1> DEFINE n == Len(terms)
             D == DOMAIN terms
             least(s) == CHOOSE x \in s : \A y \in s : x <= y
             body(g, s) == IF s = {} THEN rs
                           ELSE SortPass(g[s \ {least(s)}], terms[least(s)])
             isFold(g) == g = [s \in SUBSET D |-> body(g, s)]
             fold == CHOOSE g : isFold(g)
             Small(m) == {s \in SUBSET D : Cardinality(s) <= m}
             Upto(m, g) == g = [s \in Small(m) |-> body(g, s)]
             Open == {m \in Nat : ~\E g : Upto(m, g)}
  <1>1. n \in Nat /\ D = 1..n
    OBVIOUS
  <1>2. \A s \in SUBSET D : IsFiniteSet(s) /\ Cardinality(s) \in Nat /\ Cardinality(s) <= n
    <2>1. IsFiniteSet(1..n) /\ Cardinality(1..n) = n
      BY <1>1, FS_Interval
    <2> HIDE DEF n, D
    <2>2. QED BY <1>1, <2>1, FS_Subset, FS_CardinalityType
  <1>3. ASSUME NEW s \in SUBSET D, s # {}
        PROVE  least(s) \in s /\ \A y \in s : least(s) <= y
    <2>1. s \in SUBSET Nat
      BY <1>1
    <2> HIDE DEF n, D
    <2>2. Min(s) \in s /\ \A y \in s : Min(s) <= y
      BY <1>3, <2>1, MinIsLeast
    <2>3. Min(s) = least(s)
      BY DEF Min
    <2> HIDE DEF least
    <2>4. QED BY <2>2, <2>3
  <1> HIDE DEF n, D, least
  <1>4. ASSUME NEW s \in SUBSET D, s # {}, NEW m \in Nat, Cardinality(s) <= m
        PROVE  m # 0 /\ s \ {least(s)} \in Small(m - 1)
    <2>1. Cardinality(s \ {least(s)}) = Cardinality(s) - 1
      BY <1>2, <1>3, <1>4, FS_RemoveElement
    <2>2. s \ {least(s)} \in SUBSET D
      OBVIOUS
    <2>3. Cardinality(s) \in Nat /\ Cardinality(s \ {least(s)}) \in Nat
      BY <1>2, <2>2
    <2>4. QED BY <1>4, <2>1, <2>2, <2>3
  <1>5. Open = {}
    <2> SUFFICES ASSUME Open # {} PROVE FALSE
      OBVIOUS
    <2>1. Open \in SUBSET Nat
      OBVIOUS
    <2>2. PICK m \in Open : \A y \in Open : m <= y
      BY <2>1, MinIsLeast
    <2>3. m \in Nat /\ ~\E g : Upto(m, g)
      OBVIOUS
    <2>4. \E h : \A s \in Small(m) : s # {} => s \ {least(s)} \in Small(m - 1) /\ Upto(m - 1, h)
      <3>1. CASE m = 0
        <4>1. \A s \in Small(m) : s = {}
          <5>1. ASSUME NEW s \in Small(m), s # {} PROVE FALSE
            <6>1. s \in SUBSET D /\ Cardinality(s) <= m
              OBVIOUS
            <6> HIDE DEF Small
            <6>2. QED BY <1>4, <2>3, <3>1, <5>1, <6>1
          <5>2. QED BY <5>1
        <4> HIDE DEF Small, Upto
        <4>2. QED BY <4>1
      <3>2. CASE m # 0
        <4>1. m - 1 \in Nat /\ ~(m <= m - 1)
          BY <2>3, <3>2
        <4>2. m - 1 \notin Open
          <5> HIDE DEF Open
          <5> QED BY <2>2, <4>1
        <4>3. PICK h : Upto(m - 1, h)
          <5> HIDE DEF Upto
          <5> QED BY <4>1, <4>2
        <4>4. ASSUME NEW s \in Small(m), s # {} PROVE s \ {least(s)} \in Small(m - 1)
          <5>1. s \in SUBSET D /\ Cardinality(s) <= m
            OBVIOUS
          <5> HIDE DEF Small
          <5>2. QED BY <1>4, <2>3, <4>4, <5>1
        <4> HIDE DEF Small, Upto
        <4>5. QED BY <4>3, <4>4
      <3>3. QED BY <3>1, <3>2
    <2>5. PICK h : \A s \in Small(m) :
                     s # {} => s \ {least(s)} \in Small(m - 1) /\ Upto(m - 1, h)
      <3> HIDE DEF Small, Upto
      <3> QED BY <2>4
    <2> DEFINE g == [s \in Small(m) |-> body(h, s)]
    <2>6. Small(m - 1) \subseteq Small(m)
      BY <1>2, <2>3
    <2>7. ASSUME NEW s \in Small(m) PROVE body(g, s) = body(h, s)
      <3>1. CASE s = {}
        BY <3>1
      <3>2. CASE s # {}
        <4> DEFINE r == s \ {least(s)}
        <4>1. r \in Small(m - 1) /\ Upto(m - 1, h)
          <5> HIDE DEF Small, Upto
          <5> QED BY <2>5, <3>2
        <4>2. h[r] = body(h, r)
          <5> HIDE DEF Small, body, r
          <5> QED BY <4>1
        <4>3. g[r] = body(h, r)
          <5> HIDE DEF Small, body, r
          <5> QED BY <2>6, <4>1
        <4> HIDE DEF g, Small, Upto
        <4>4. /\ body(g, s) = SortPass(g[r], terms[least(s)])
              /\ body(h, s) = SortPass(h[r], terms[least(s)])
          BY <3>2
        <4> HIDE DEF body, r
        <4>5. QED BY <4>2, <4>3, <4>4
      <3>3. QED BY <3>1, <3>2
    <2>8. [s \in Small(m) |-> body(h, s)] = [s \in Small(m) |-> body(g, s)]
      <3> HIDE DEF g, Small, body
      <3> QED BY <2>7
    <2>9. Upto(m, g)
      <3> HIDE DEF Small, body
      <3> QED BY <2>8
    <2> HIDE DEF g, Upto
    <2>10. QED BY <2>3, <2>9
  <1>6. \E g : isFold(g)
    <2>1. PICK g : Upto(n, g)
      <3> HIDE DEF Upto
      <3> QED BY <1>1, <1>5
    <2>2. Small(n) = SUBSET D
      BY <1>2
    <2> HIDE DEF Small, body
    <2>3. isFold(g)
      BY <2>1, <2>2
    <2>4. QED BY <2>3
  <1>7. isFold(fold)
    <2> HIDE DEF isFold
    <2> QED BY <1>6
  <1>8. OrderedInMemory(rs, terms) = fold[D]
    BY DEF OrderedInMemory, FoldRight, MapThenFoldSet, Min, least, D
  <1> HIDE DEF fold
  <1>9. \A s \in SUBSET D : fold[s] = body(fold, s)
    <2> HIDE DEF body
    <2> QED BY <1>7
  <1>10. ASSUME NEW k \in 1..n PROVE fold[k..n] = SortPass(fold[(k + 1)..n], terms[k])
    <2>1. k..n \in SUBSET D /\ k..n # {} /\ k \in k..n
      <3>1. k \in k..n
        BY <1>1
      <3>2. \A i \in k..n : i \in 1..n
        BY <1>1
      <3>3. QED BY <1>1, <3>1, <3>2
    <2>2. least(k..n) \in k..n /\ least(k..n) <= k
      BY <1>3, <2>1
    <2>3. least(k..n) = k
      BY <1>1, <2>2
    <2>4. (k..n) \ {k} = (k + 1)..n
      BY <1>1
    <2>5. fold[k..n] = body(fold, k..n)
      <3> HIDE DEF body
      <3> QED BY <1>9, <2>1
    <2>6. QED BY <2>1, <2>3, <2>4, <2>5
  <1>11. fold[(n + 1)..n] = rs
    <2>1. (n + 1)..n = {} /\ {} \in SUBSET D
      BY <1>1
    <2>2. fold[{}] = rs
      BY <1>9, <2>1
    <2>3. QED BY <2>1, <2>2
  <1> DEFINE done == [k \in 1..(n + 1) |-> fold[k..n]]
  <1>12. \A k \in 1..n : k \in 1..(n + 1) /\ k + 1 \in 1..(n + 1)
    BY <1>1
  <1>13. done[n + 1] = rs /\ done[1] = fold[D]
    BY <1>1, <1>11
  <1>14. \A k \in 1..n : done[k] = SortPass(done[k + 1], terms[k])
    BY <1>10, <1>12
  <1> HIDE DEF done
  <1>15. QED BY <1>8, <1>13, <1>14 DEF n

(* What a list of the rows satisfies after the passes from term k on.        *)
InPlace(terms, k, S, m, list) ==
    /\ list \in [1..m -> S]
    /\ \A x \in S : \E i \in 1..m : list[i] = x
    /\ \A i, j \in 1..m : list[i] = list[j] => i = j
    /\ \A i, j \in 1..m : i < j => ~Lex(terms, k, list[j], list[i])

LEMMA LexFirst ==
    ASSUME NEW terms \in Seq(Term), NEW k \in 1..Len(terms), NEW r, NEW s, Lex(terms, k, r, s)
    PROVE  \/ Apart(terms[k].desc, r[terms[k].col], s[terms[k].col])
           \/ r[terms[k].col] = s[terms[k].col] /\ Lex(terms, k + 1, r, s)
  <1> DEFINE n == Len(terms)
             Eq(j) == r[terms[j].col] = s[terms[j].col]
             Ap(j) == Apart(terms[j].desc, r[terms[j].col], s[terms[j].col])
  <1>1. n \in Nat /\ k \in 1..n
    OBVIOUS
  <1>2. PICK i \in k..n : Ap(i) /\ \A j \in k..(i - 1) : Eq(j)
    BY DEF Lex
  <1>3. Lex(terms, k + 1, r, s) <=> \E x \in (k + 1)..n : Ap(x) /\ \A j \in (k + 1)..(x - 1) : Eq(j)
    BY DEF Lex
  <1> HIDE DEF Ap, Eq, n
  <1>4. CASE i = k
    BY <1>2, <1>4 DEF Ap
  <1>5. CASE i # k
    <2>1. i \in (k + 1)..n /\ k \in k..(i - 1)
      BY <1>1, <1>2, <1>5
    <2>2. \A j \in (k + 1)..(i - 1) : j \in k..(i - 1)
      BY <1>1
    <2>3. Eq(k) /\ Lex(terms, k + 1, r, s)
      BY <1>2, <1>3, <2>1, <2>2
    <2>4. QED BY <2>3 DEF Eq
  <1>6. QED BY <1>4, <1>5

LEMMA OnePass ==
    ASSUME NEW terms \in Seq(Term), NEW k \in 1..Len(terms), NEW S \in SUBSET Row, NEW m \in Nat,
           NEW list, InPlace(terms, k + 1, S, m, list)
    PROVE  InPlace(terms, k, S, m, SortPass(list, terms[k]))
  <1> DEFINE t == terms[k]
             out == SortPass(list, t)
  <1>1. /\ list \in [1..m -> S] /\ list \in [1..m -> Row]
        /\ \A x \in S : \E i \in 1..m : list[i] = x
        /\ \A i, j \in 1..m : list[i] = list[j] => i = j
        /\ \A i, j \in 1..m : i < j => ~Lex(terms, k + 1, list[j], list[i])
    BY DEF InPlace
  <1>2. t \in Term /\ t.desc \in BOOLEAN /\ \A r \in Row : r[t.col] \in Int \cup {Null}
    BY TermTypes
  <1>3. PICK from \in [1..m -> 1..m] :
            /\ out = [i \in 1..m |-> list[from[i]]]
            /\ \A i \in 1..m : \E j \in 1..m : from[j] = i
            /\ \A i, j \in 1..m : i < j => Goes(list, t, from[i], from[j])
    BY <1>1, <1>2, PassSorts
  <1> HIDE DEF out, t
  <1>4. \A i \in 1..m : from[i] \in 1..m /\ out[i] = list[from[i]] /\ out[i] \in S /\ out[i] \in Row
    BY <1>1, <1>3
  <1>5. out \in [1..m -> S]
    BY <1>3, <1>4
  <1>6. ASSUME NEW x \in S PROVE \E i \in 1..m : out[i] = x
    <2>1. PICK j \in 1..m : list[j] = x
      BY <1>1
    <2>2. PICK i \in 1..m : from[i] = j
      BY <1>3
    <2>3. QED BY <1>4, <2>1, <2>2
  <1>7. ASSUME NEW i \in 1..m, NEW j \in 1..m, i < j
        PROVE  IF out[i][t.col] = out[j][t.col] THEN from[i] < from[j]
               ELSE Apart(t.desc, out[i][t.col], out[j][t.col])
    <2>1. Goes(list, t, from[i], from[j])
      BY <1>3, <1>7
    <2>2. out[i] = list[from[i]] /\ out[j] = list[from[j]]
      BY <1>4
    <2>3. QED BY <2>1, <2>2 DEF Goes
  <1>8. ASSUME NEW i \in 1..m, NEW j \in 1..m, i < j PROVE out[i] # out[j]
    <2> SUFFICES ASSUME out[i] = out[j] PROVE FALSE
      OBVIOUS
    <2>1. from[i] < from[j]
      BY <1>7, <1>8
    <2>2. from[i] \in Nat /\ from[j] \in Nat /\ from[i] = from[j]
      BY <1>1, <1>4
    <2>3. QED BY <2>1, <2>2
  <1>9. ASSUME NEW i \in 1..m, NEW j \in 1..m, i < j PROVE ~Lex(terms, k, out[j], out[i])
    <2> SUFFICES ASSUME Lex(terms, k, out[j], out[i]) PROVE FALSE
      OBVIOUS
    <2> DEFINE a == out[j][t.col]
               b == out[i][t.col]
    <2>1. \/ Apart(t.desc, a, b)
          \/ a = b /\ Lex(terms, k + 1, out[j], out[i])
      BY LexFirst DEF t
    <2>2. IF b = a THEN from[i] < from[j] ELSE Apart(t.desc, b, a)
      BY <1>7, <1>9
    <2>3. a \in Int \cup {Null} /\ b \in Int \cup {Null}
      BY <1>2, <1>4
    <2>4. /\ ~Apart(t.desc, a, a)
          /\ Apart(t.desc, a, b) /\ Apart(t.desc, b, a) => Apart(t.desc, a, a)
      <3> HIDE DEF a, b
      <3> QED BY <1>2, <2>3, ApartOrders
    <2>5. a = b /\ Lex(terms, k + 1, out[j], out[i]) /\ from[i] < from[j]
      <3> HIDE DEF a, b
      <3> QED BY <2>1, <2>2, <2>4
    <2>6. Lex(terms, k + 1, list[from[j]], list[from[i]])
      BY <1>4, <2>5
    <2>7. QED BY <1>1, <1>4, <2>5, <2>6
  <1>10. ASSUME NEW i \in 1..m, NEW j \in 1..m, out[i] = out[j] PROVE i = j
    <2>1. ~(i < j) /\ ~(j < i)
      BY <1>8, <1>10
    <2>2. QED BY <2>1
  <1>11. InPlace(terms, k, S, m, out)
    BY <1>5, <1>6, <1>9, <1>10 DEF InPlace
  <1>12. QED BY <1>11 DEF out, t

(* After all the passes no row comes after one that it precedes.            *)
LEMMA AllPasses ==
    ASSUME NEW terms \in Seq(Term), NEW S \in SUBSET Row, NEW m \in Nat,
           NEW list, InPlace(terms, Len(terms) + 1, S, m, list)
    PROVE  InPlace(terms, 1, S, m, OrderedInMemory(list, terms))
  <1> DEFINE n == Len(terms)
  <1>1. n \in Nat
    OBVIOUS
  <1>2. PICK done : /\ done[n + 1] = list
                    /\ \A k \in 1..n : done[k] = SortPass(done[k + 1], terms[k])
                    /\ OrderedInMemory(list, terms) = done[1]
    BY FoldOfPasses
  <1> DEFINE Fine(k) == InPlace(terms, k, S, m, done[k])
             Open == {d \in 0..n : ~Fine(n + 1 - d)}
  <1>3. ASSUME NEW k \in 1..n, Fine(k + 1) PROVE Fine(k)
    <2>1. InPlace(terms, k, S, m, SortPass(done[k + 1], terms[k]))
      BY <1>3, OnePass
    <2>2. QED BY <1>2, <2>1
  <1>4. Fine(n + 1)
    BY <1>2
  <1> HIDE DEF Fine, n
  <1>5. Open = {}
    <2> SUFFICES ASSUME Open # {} PROVE FALSE
      OBVIOUS
    <2>1. Open \in SUBSET Nat
      BY <1>1
    <2>2. PICK d \in Open : \A y \in Open : d <= y
      BY <2>1, MinIsLeast
    <2>3. d \in 0..n /\ ~Fine(n + 1 - d)
      OBVIOUS
    <2>4. d # 0
      BY <1>1, <1>4, <2>3
    <2>5. d - 1 \in 0..n /\ ~(d <= d - 1) /\ n + 1 - d \in 1..n
      BY <1>1, <2>3, <2>4
    <2>6. d - 1 \notin Open
      <3> HIDE DEF Open
      <3> QED BY <2>2, <2>5
    <2>7. PICK k \in 1..n : k = n + 1 - d /\ k + 1 = n + 1 - (d - 1)
      BY <1>1, <2>5
    <2>8. Fine(k + 1)
      BY <2>5, <2>6, <2>7
    <2>9. QED BY <1>3, <2>3, <2>7, <2>8
  <1>6. Fine(1)
    <2>1. n \in 0..n /\ n + 1 - n = 1
      BY <1>1
    <2>2. Fine(n + 1 - n)
      BY <1>5, <2>1
    <2>3. QED BY <2>1, <2>2
  <1>7. QED BY <1>2, <1>6 DEF Fine

(* In whatever order the rows were prefetched, they are sorted as by the     *)
(* database, for every ordering that has the key.                           *)
LEMMA SortsAgree ==
    ASSUME NEW terms \in Seq(Term), HasPk(terms), NEW S, KeyedRows(S),
           NEW list \in [1..Cardinality(S) -> S],
           \A x \in S : \E i \in 1..Cardinality(S) : list[i] = x,
           \A i, j \in 1..Cardinality(S) : list[i] = list[j] => i = j
    PROVE  OrderedInMemory(list, terms) = OrderedBySql(S, terms)
  <1> DEFINE m == Cardinality(S)
             out == OrderedInMemory(list, terms)
             R == Pairs(terms, S)
  <1>1. /\ S \in SUBSET Row /\ IsFiniteSet(S) /\ m \in Nat /\ Len(terms) \in Nat
    BY KeyedIsFinite, FS_CardinalityType DEF KeyedRows
  <1>2. InPlace(terms, Len(terms) + 1, S, m, list)
    <2>1. \A r, s : ~Lex(terms, Len(terms) + 1, r, s)
      BY <1>1 DEF Lex
    <2> HIDE DEF m
    <2>2. QED BY <2>1 DEF InPlace, m
  <1>3. InPlace(terms, 1, S, m, out)
    <2> HIDE DEF m
    <2> QED BY <1>1, <1>2, AllPasses
  <1> HIDE DEF out
  <1>4. Ascending(out, S, R)
    <2>1. ASSUME NEW i \in 1..m, NEW j \in 1..m, i < j PROVE <<out[i], out[j]>> \in R
      <3>1. out[i] \in S /\ out[j] \in S /\ out[i] # out[j] /\ ~Lex(terms, 1, out[j], out[i])
        <4> HIDE DEF m
        <4> QED BY <1>1, <1>3, <2>1 DEF InPlace
      <3>2. Lex(terms, 1, out[i], out[j])
        BY <3>1, LexOrders
      <3>3. QED BY <3>1, <3>2 DEF Pairs
    <2>2. QED BY <1>3, <2>1 DEF Ascending, InPlace
  <1>5. StrictOrder(R, S) /\ Ascending(OrderedBySql(S, terms), S, R)
    BY PairsOrder, SqlLists
  <1> HIDE DEF R
  <1>6. out = OrderedBySql(S, terms)
    BY <1>1, <1>4, <1>5, OneListing
  <1>7. QED BY <1>6 DEF out

-----------------------------------------------------------------------------
(* The answers to one request.                                              *)

(* What a server can be configured with and a client can ask for; the        *)
(* maximum, if there is one, is not negative.                               *)
AnyConfiguration ==
    [default : Int \cup {None}, maximum : Nat \cup {None}, order : Seq(Term), meta : Seq(Term),
     allowed : SUBSET Column]
AnyRequest == Requests(Int \cup {None}, Int \cup {None}, Seq(Term) \cup {None, Blank})

(* The prefetched rows, in any order. *)
Arrived(list, S) ==
    /\ list \in [1..Cardinality(S) -> S]
    /\ \A x \in S : \E i \in 1..Cardinality(S) : list[i] = x
    /\ \A i, j \in 1..Cardinality(S) : list[i] = list[j] => i = j

LEMMA WithPk ==
    ASSUME NEW terms \in Seq(Term)
    PROVE  AppendPk(terms) \in Seq(Term) /\ HasPk(AppendPk(terms))
  <1> DEFINE pk == [col |-> "pk", desc |-> FALSE]
  <1>1. pk \in Term /\ pk.col = "pk"
    BY DEF Term, Column
  <1>2. CASE \E i \in DOMAIN terms : terms[i].col = "pk"
    BY <1>2 DEF AppendPk, HasPk
  <1>3. CASE ~\E i \in DOMAIN terms : terms[i].col = "pk"
    <2>1. AppendPk(terms) = Append(terms, pk)
      BY <1>3 DEF AppendPk
    <2> HIDE DEF pk
    <2>2. Append(terms, pk) \in Seq(Term) /\ Len(Append(terms, pk)) = Len(terms) + 1
          /\ Append(terms, pk)[Len(terms) + 1] = pk
      BY <1>1
    <2>3. Len(terms) + 1 \in 1..(Len(terms) + 1)
      OBVIOUS
    <2>4. HasPk(Append(terms, pk))
      BY <1>1, <2>2, <2>3 DEF HasPk
    <2>5. QED BY <2>1, <2>2, <2>4
  <1>4. QED BY <1>2, <1>3

LEMMA ByPkAlone ==
    /\ ByPk \in Seq(Term) /\ ByPk # <<>>
    /\ AppendPk(ByPk) = ByPk /\ AppendPk(<<>>) = ByPk
  <1>1. ByPk \in Seq(Term) /\ ByPk # <<>>
    BY DEF ByPk, Term, Column
  <1>2. DOMAIN ByPk = {1} /\ ByPk[1].col = "pk"
    BY DEF ByPk
  <1>3. AppendPk(ByPk) = ByPk
    BY <1>2 DEF AppendPk
  <1>4. AppendPk(<<>>) = ByPk
    <2>1. ~\E i \in DOMAIN <<>> : <<>>[i].col = "pk"
      OBVIOUS
    <2>2. AppendPk(<<>>) = Append(<<>>, [col |-> "pk", desc |-> FALSE])
      BY <2>1 DEF AppendPk
    <2> PICK x : x = [col |-> "pk", desc |-> FALSE]
      OBVIOUS
    <2>3. Append(<<>>, x) = <<x>>
      OBVIOUS
    <2>4. QED BY <2>2, <2>3 DEF ByPk
  <1>5. QED BY <1>1, <1>3, <1>4

(* The size is None, 0 for a refusal, or positive. *)
LEMMA SizeType ==
    ASSUME NEW cfg \in AnyConfiguration, NEW req \in AnyRequest
    PROVE  Size(cfg, req) \in Nat \cup {None}
  <1>1. /\ req.size \in Int \cup {None} /\ cfg.default \in Int \cup {None}
        /\ cfg.maximum \in Nat \cup {None} /\ None \notin Int
    BY Nones DEF AnyConfiguration, AnyRequest, Requests
  <1> DEFINE size == IF req.size # None THEN req.size
                     ELSE IF cfg.default # None THEN cfg.default ELSE cfg.maximum
  <1>2. size \in Int \cup {None}
    BY <1>1
  <1>3. Size(cfg, req) = IF size = None THEN None
                         ELSE IF size <= 0 THEN 0
                         ELSE IF cfg.maximum = None THEN size ELSE Min({size, cfg.maximum})
    BY DEF Size, ResolvePageSize
  <1> HIDE DEF size
  <1>4. CASE size # None /\ cfg.maximum # None
    <2>1. size \in Int /\ cfg.maximum \in Nat
      BY <1>1, <1>2, <1>4
    <2>2. Min({size, cfg.maximum}) = IF size <= cfg.maximum THEN size ELSE cfg.maximum
      BY <2>1, MinOfTwo
    <2>3. QED BY <1>3, <1>4, <2>1, <2>2
  <1>5. CASE ~(size # None /\ cfg.maximum # None)
    BY <1>1, <1>2, <1>3, <1>5
  <1>6. QED BY <1>4, <1>5

LEMMA Resolved ==
    ASSUME NEW cfg \in AnyConfiguration, NEW req \in AnyRequest
    PROVE  /\ ResolveOrdering(cfg, req).terms \in Seq(Term)
           /\ cfg.meta \in Seq(Term)
           /\ cfg.allowed \in SUBSET Column
           /\ req.kind \in {"offset", "page"} /\ req.at \in Int \cup {None}
           /\ ResolveOrdering(cfg, req).terms = IF req.order = None THEN cfg.order
                                                ELSE IF req.order = Blank THEN <<>> ELSE req.order
           /\ ResolveOrdering(cfg, req).allowed = IF req.order = None THEN Column ELSE cfg.allowed
  <1>1. /\ cfg.order \in Seq(Term) /\ cfg.meta \in Seq(Term) /\ cfg.allowed \in SUBSET Column
        /\ req.order \in Seq(Term) \cup {None, Blank}
        /\ req.kind \in {"offset", "page"} /\ req.at \in Int \cup {None}
    BY DEF AnyConfiguration, AnyRequest, Requests
  <1>2. /\ ResolveOrdering(cfg, req).terms = IF req.order = None THEN cfg.order
                                             ELSE IF req.order = Blank THEN <<>> ELSE req.order
        /\ ResolveOrdering(cfg, req).allowed = IF req.order = None THEN Column ELSE cfg.allowed
    BY DEF ResolveOrdering
  <1>3. QED BY <1>1, <1>2

(* In memory the request is answered like by the database.                  *)
LEMMA MemoryAgrees ==
    ASSUME NEW t \in Table, NEW cfg \in AnyConfiguration, NEW req \in AnyRequest,
           NEW list, Arrived(list, Rows(t))
    PROVE  FromMemory(list, cfg, req) = FromDatabase(t, cfg, req)
  <1> DEFINE S == Rows(t)
             o == ResolveOrdering(cfg, req)
             size == Size(cfg, req)
             full == IF o.terms # <<>> THEN o.terms ELSE cfg.meta
             db == OrderedBySql(S, AppendPk(full))
             tie == IF size = None THEN o ELSE PkTiebreak(list, cfg, o)
             mem == IF tie.terms = <<>> THEN list ELSE OrderedInMemory(list, AppendPk(tie.terms))
  <1>1. KeyedRows(S) /\ IsFiniteSet(S) /\ Cardinality(S) \in Nat
    BY RowsKeyed, KeyedIsFinite, FS_CardinalityType
  <1>2. o.terms \in Seq(Term) /\ cfg.meta \in Seq(Term) /\ full \in Seq(Term)
    BY Resolved
  <1> HIDE DEF o, size, S
  <1>3. /\ list \in Seq(S) /\ Len(list) = Cardinality(S) /\ ToSet(list) = S
        /\ list = <<>> <=> S = {}
    <2>1. /\ list \in [1..Cardinality(S) -> S]
          /\ \A x \in S : \E i \in 1..Cardinality(S) : list[i] = x
      BY DEF Arrived, S
    <2>2. list \in Seq(S) /\ Len(list) = Cardinality(S) /\ DOMAIN list = 1..Cardinality(S)
      BY <1>1, <2>1
    <2>3. ToSet(list) = S
      BY <2>1, <2>2 DEF ToSet
    <2>4. list = <<>> <=> S = {}
      BY <2>1, <2>2
    <2>5. QED BY <2>2, <2>3, <2>4
  <1>4. \A terms \in Seq(Term) :
           OrderedInMemory(list, AppendPk(terms)) = OrderedBySql(S, AppendPk(terms))
    BY <1>1, WithPk, SortsAgree DEF Arrived, S
  <1>5. ASSUME o.terms # <<>> PROVE tie = o /\ mem = db
    <2>1. tie = o
      BY <1>5 DEF PkTiebreak
    <2>2. QED BY <1>2, <1>4, <1>5, <2>1
  <1>6. ASSUME o.terms = <<>>, size # None
        PROVE  Permitted(o) /\ Permitted(tie) /\ mem = db
    <2>1. Permitted(o)
      BY <1>6 DEF Permitted
    <2>2. CASE list = <<>>
      <3>1. tie = o /\ mem = list
        BY <1>6, <2>2 DEF PkTiebreak
      <3>2. db \in [1..0 -> S]
        <4>1. Ascending(db, S, Pairs(AppendPk(full), S))
          BY <1>1, <1>2, WithPk, SqlLists
        <4>2. Cardinality(S) = 0
          BY <1>3, <2>2
        <4> HIDE DEF db
        <4>3. QED BY <4>1, <4>2 DEF Ascending
      <3>3. db = <<>>
        <4> HIDE DEF db
        <4> QED BY <3>2
      <3>4. QED BY <2>1, <2>2, <3>1, <3>3
    <2>3. CASE list # <<>>
      <3> DEFINE order == IF cfg.meta # <<>> THEN cfg.meta ELSE ByPk
      <3>1. tie = [terms |-> order, allowed |-> Column]
        BY <1>6, <2>3 DEF PkTiebreak
      <3>2. tie.terms = order /\ order \in Seq(Term) /\ order # <<>>
        BY <1>2, <3>1, ByPkAlone
      <3>3. \A i \in DOMAIN order : order[i].col \in Column
        BY <3>2, TermTypes
      <3>4. Permitted(tie)
        BY <3>1, <3>3 DEF Permitted
      <3>5. AppendPk(order) = AppendPk(full)
        BY <1>2, <1>6, ByPkAlone
      <3> HIDE DEF order, full, tie
      <3>6. mem = OrderedBySql(S, AppendPk(order))
        BY <1>4, <3>2
      <3>7. QED BY <2>1, <3>4, <3>5, <3>6
    <2>4. QED BY <2>2, <2>3
  <1>7. /\ FromDatabase(t, cfg, req) = Answer(cfg, req, o, o, db, S, Cardinality(S))
        /\ FromMemory(list, cfg, req) = Answer(cfg, req, o, tie, mem, ToSet(list), Len(list))
    BY DEF FromDatabase, FromMemory, o, size, S
  <1> HIDE DEF db, mem, tie, full
  <1>8. CASE o.terms = <<>> /\ size = None
    <2>1. Answer(cfg, req, o, o, db, S, Cardinality(S))
             = Answer(cfg, req, o, tie, mem, S, Cardinality(S))
      BY <1>8, Resolved, Nones DEF Answer, size
    <2>2. QED BY <1>3, <1>7, <2>1
  <1>9. CASE o.terms # <<>>
    BY <1>3, <1>5, <1>7, <1>9
  <1>10. CASE o.terms = <<>> /\ size # None
    <2>1. Answer(cfg, req, o, o, db, S, Cardinality(S))
             = Answer(cfg, req, o, tie, db, S, Cardinality(S))
      BY <1>6, <1>10 DEF Answer, size
    <2>2. QED BY <1>3, <1>6, <1>7, <1>10, <2>1
  <1>11. QED BY <1>8, <1>9, <1>10

(* A slice as a set. *)
LEMMA SliceSet ==
    ASSUME NEW S, NEW list \in Seq(S), NEW offset \in Nat, NEW n \in Nat
    PROVE  /\ \A x \in ToSet(Slice(list, offset, n)) :
                 \E i \in 1..Len(list) : offset < i /\ i <= offset + n /\ x = list[i]
           /\ \A i \in 1..Len(list) :
                 offset < i /\ i <= offset + n => list[i] \in ToSet(Slice(list, offset, n))
  <1> DEFINE m == Len(list)
             cut == Slice(list, offset, n)
  <1>1. m \in Nat
    OBVIOUS
  <1>2. CASE offset <= m
    <2> DEFINE k == CutLen(list, offset, n)
    <2>1. /\ k \in Nat /\ cut \in Seq(S) /\ Len(cut) = k
          /\ \A i \in 1..k : cut[i] = list[offset + i]
      <3>1. offset \in 0..Len(list)
        BY <1>2
      <3> HIDE DEF k, cut, m
      <3>2. QED BY <3>1, SliceFacts DEF k, cut
    <2>2. k = IF offset + n <= m THEN n ELSE m - offset
      BY DEF CutLen
    <2>3. ToSet(cut) = {cut[i] : i \in 1..k}
      BY <2>1 DEF ToSet
    <2> HIDE DEF m, cut, k
    <2>4. ASSUME NEW x \in ToSet(cut)
          PROVE  \E i \in 1..m : offset < i /\ i <= offset + n /\ x = list[i]
      <3>1. PICK j \in 1..k : x = cut[j]
        BY <2>3
      <3>2. offset + j \in 1..m /\ offset < offset + j /\ offset + j <= offset + n
        BY <1>1, <1>2, <2>1, <2>2
      <3>3. QED BY <2>1, <3>1, <3>2
    <2>5. ASSUME NEW i \in 1..m, offset < i, i <= offset + n PROVE list[i] \in ToSet(cut)
      <3>1. PICK j \in 1..k : offset + j = i
        <4>1. i - offset \in 1..k /\ offset + (i - offset) = i
          BY <1>1, <1>2, <2>2, <2>5
        <4>2. QED BY <4>1
      <3>2. QED BY <2>1, <2>3, <3>1
    <2>6. QED BY <2>4, <2>5 DEF m, cut
  <1>3. CASE m < offset
    <2>1. Min({offset + n, m}) = m
      BY <1>1, <1>3, MinOfTwo
    <2>2. cut = SubSeq(list, offset + 1, m)
      BY <2>1 DEF Slice
    <2>3. SubSeq(list, offset + 1, m) = <<>>
      BY <1>1, <1>3
    <2>4. ToSet(cut) = {}
      BY <2>2, <2>3 DEF ToSet
    <2>5. \A i \in 1..m : ~(offset < i)
      BY <1>1, <1>3
    <2>6. QED BY <2>4, <2>5
  <1>4. QED BY <1>1, <1>2, <1>3

(* A window numbers the rows as the page does.                              *)
LEMMA Numbered ==
    ASSUME NEW terms \in Seq(Term), HasPk(terms), NEW S, KeyedRows(S)
    PROVE  /\ Cardinality(S) \in Nat
           /\ OrderedBySql(S, terms) \in Seq(S)
           /\ Len(OrderedBySql(S, terms)) = Cardinality(S)
           /\ \A x \in S : \E i \in 1..Cardinality(S) : OrderedBySql(S, terms)[i] = x
           /\ \A i \in 1..Cardinality(S) :
                 Cardinality({s \in S : Precedes(terms, s, OrderedBySql(S, terms)[i])}) = i - 1
  <1> DEFINE list == OrderedBySql(S, terms)
             m == Cardinality(S)
             R == Pairs(terms, S)
  <1>1. IsFiniteSet(S) /\ m \in Nat
    BY KeyedIsFinite, FS_CardinalityType
  <1>2. /\ StrictOrder(R, S) /\ \A r, s \in S : <<r, s>> \in R <=> Precedes(terms, r, s)
        /\ Ascending(list, S, R)
    BY PairsOrder, SqlLists
  <1> HIDE DEF list, R
  <1>3. \A i \in 1..m : Cardinality({y \in S : <<y, list[i]>> \in R}) = i - 1
    BY <1>1, <1>2, PlaceInListing
  <1>4. list \in [1..m -> S] /\ \A x \in S : \E i \in 1..m : list[i] = x
    BY <1>2 DEF Ascending
  <1>5. ASSUME NEW i \in 1..m
        PROVE  {y \in S : <<y, list[i]>> \in R} = {s \in S : Precedes(terms, s, list[i])}
    BY <1>2, <1>4
  <1>6. \A i \in 1..m : Cardinality({s \in S : Precedes(terms, s, list[i])}) = i - 1
    BY <1>3, <1>5
  <1> HIDE DEF m
  <1>7. list \in Seq(S) /\ Len(list) = m
    BY <1>1, <1>4
  <1>8. QED BY <1>1, <1>4, <1>6, <1>7 DEF list, m

(* The rows with the numbers of a slice are the rows of the slice.           *)
Numbers(terms, S, offset, n) ==
    {r \in S : /\ offset < 1 + Cardinality({s \in S : Precedes(terms, s, r)})
               /\ 1 + Cardinality({s \in S : Precedes(terms, s, r)}) <= offset + n}

LEMMA SliceIsNumbers ==
    ASSUME NEW terms \in Seq(Term), HasPk(terms), NEW S, KeyedRows(S),
           NEW offset \in Nat, NEW n \in Nat
    PROVE  ToSet(Slice(OrderedBySql(S, terms), offset, n)) = Numbers(terms, S, offset, n)
  <1> DEFINE list == OrderedBySql(S, terms)
             m == Cardinality(S)
             number(r) == 1 + Cardinality({s \in S : Precedes(terms, s, r)})
             cut == Slice(list, offset, n)
             window == Numbers(terms, S, offset, n)
  <1>1. /\ m \in Nat /\ list \in Seq(S) /\ Len(list) = m
        /\ \A x \in S : \E i \in 1..m : list[i] = x
        /\ \A i \in 1..m : Cardinality({s \in S : Precedes(terms, s, list[i])}) = i - 1
    BY Numbered
  <1>2. \A i \in 1..m : list[i] \in S /\ number(list[i]) = i
    BY <1>1
  <1>3. window = {r \in S : offset < number(r) /\ number(r) <= offset + n}
    BY DEF Numbers
  <1> HIDE DEF list, m, number, window
  <1>4. /\ \A x \in ToSet(cut) : \E i \in 1..m : offset < i /\ i <= offset + n /\ x = list[i]
        /\ \A i \in 1..m : offset < i /\ i <= offset + n => list[i] \in ToSet(cut)
    <2> HIDE DEF cut
    <2>1. /\ \A x \in ToSet(cut) :
                 \E i \in 1..Len(list) : offset < i /\ i <= offset + n /\ x = list[i]
          /\ \A i \in 1..Len(list) :
                 offset < i /\ i <= offset + n => list[i] \in ToSet(cut)
      BY <1>1, SliceSet DEF cut
    <2>2. QED BY <1>1, <2>1
  <1> HIDE DEF cut
  <1>5. ASSUME NEW x \in ToSet(cut) PROVE x \in window
    BY <1>2, <1>3, <1>4
  <1>6. ASSUME NEW x \in window PROVE x \in ToSet(cut)
    <2>1. PICK i \in 1..m : list[i] = x
      BY <1>1, <1>3
    <2>2. number(x) = i
      BY <1>2, <2>1
    <2>3. QED BY <1>3, <1>4, <2>1, <2>2
  <1>7. QED BY <1>5, <1>6 DEF cut, window, list

(* A window that does not decline takes the rows with the numbers of the     *)
(* page, or refuses what the database refuses.                              *)
LEMMA WindowOrRefusal ==
    ASSUME NEW t \in Table, NEW cfg \in AnyConfiguration, NEW req \in AnyRequest,
           FromWindow(t, cfg, req).is # "declined",
           NEW order, order = ResolveOrdering(cfg, req).terms,
           NEW terms, terms = AppendPk(IF order = <<>> THEN cfg.meta ELSE order),
           NEW S, S = Rows(t)
    PROVE  \/ FromWindow(t, cfg, req) = Refused /\ FromDatabase(t, cfg, req) = Refused
           \/ \E offset, n \in Nat :
                 /\ FromDatabase(t, cfg, req) = Page(Slice(OrderedBySql(S, terms), offset, n))
                 /\ FromWindow(t, cfg, req) = Fetched(Numbers(terms, S, offset, n))
  <1> DEFINE o == ResolveOrdering(cfg, req)
             size == Size(cfg, req)
             list == OrderedBySql(S, terms)
             at == IF req.at = None THEN 0 ELSE req.at
             pageAt == IF req.at = None THEN 1 ELSE req.at
             offset == IF req.kind = "offset" THEN at ELSE PageOffset(pageAt, size, 0)
             fetched == Numbers(terms, S, offset, size)
             refuses == size = 0 \/ (size # None /\ req.kind = "offset" /\ at < 0)
  <1>1. /\ o.terms \in Seq(Term) /\ o.terms = order /\ cfg.meta \in Seq(Term)
        /\ order = IF req.order = None THEN cfg.order
                   ELSE IF req.order = Blank THEN <<>> ELSE req.order
        /\ req.kind \in {"offset", "page"} /\ req.at \in Int \cup {None}
        /\ o.allowed = IF req.order = None THEN Column ELSE cfg.allowed
    BY Resolved
  <1>2. size \in Nat \cup {None} /\ None \notin Int
    BY SizeType, Nones
  <1>3. FromWindow(t, cfg, req) =
            IF refuses THEN Refused
            ELSE IF Declines(cfg, req, order) THEN Declined
            ELSE Fetched(fetched)
    BY <1>1 DEF FromWindow, Numbers
  <1>4. FromDatabase(t, cfg, req) = Answer(cfg, req, o, o, list, S, Cardinality(S))
    <2>1. AppendPk(IF o.terms # <<>> THEN o.terms ELSE cfg.meta) = terms
      BY <1>1
    <2>2. QED BY <2>1 DEF FromDatabase
  <1> HIDE DEF o, size, list, fetched
  <1>5. CASE refuses
    <2>1. FromDatabase(t, cfg, req) = Refused
      BY <1>1, <1>2, <1>4, <1>5 DEF Answer, size
    <2>2. FromWindow(t, cfg, req) = Refused
      BY <1>3, <1>5
    <2>3. QED BY <2>1, <2>2
  <1>6. CASE ~refuses
    <2>1. ~Declines(cfg, req, order) /\ FromWindow(t, cfg, req) = Fetched(fetched)
      BY <1>3, <1>6 DEF Declined
    <2>2. /\ size \in Nat \ {0}
          /\ req.kind = "page" => pageAt > 0
          /\ req.kind = "offset" => at >= 0
          /\ \A i \in DOMAIN order : order[i].col \in cfg.allowed
      BY <1>1, <1>2, <1>6, <2>1 DEF Declines, size
    <2>3. offset \in Nat
      <3>1. CASE req.kind = "page"
        <4>1. pageAt - 1 \in Nat /\ offset = size * (pageAt - 1)
          BY <1>1, <2>2, <3>1 DEF PageOffset
        <4> HIDE DEF pageAt, offset
        <4>2. QED BY <2>2, <4>1
      <3>2. CASE req.kind = "offset"
        BY <1>1, <2>2, <3>2
      <3>3. QED BY <1>1, <3>1, <3>2
    <2>4. Permitted(o)
      <3>1. \A i \in DOMAIN o.terms : o.terms[i].col \in Column
        BY <1>1, TermTypes
      <3>2. QED BY <1>1, <2>2, <3>1 DEF Permitted
    <2>5. FromDatabase(t, cfg, req) = Page(Slice(list, offset, size))
      <3>1. CASE req.kind = "page"
        BY <1>1, <1>2, <1>4, <2>2, <2>4, <3>1 DEF Answer, PageOffset, size
      <3>2. CASE req.kind = "offset"
        BY <1>1, <1>2, <1>4, <2>2, <2>4, <3>2 DEF Answer, size
      <3>3. QED BY <1>1, <3>1, <3>2
    <2> HIDE DEF offset
    <2>6. QED BY <2>1, <2>2, <2>3, <2>5 DEF list, fetched
  <1>7. QED BY <1>5, <1>6

(* It fetches the rows of the page.                                         *)
LEMMA WindowAgrees ==
    ASSUME NEW t \in Table, NEW cfg \in AnyConfiguration, NEW req \in AnyRequest,
           FromWindow(t, cfg, req).is # "declined"
    PROVE  SameRows(FromDatabase(t, cfg, req), FromWindow(t, cfg, req))
  <1> DEFINE S == Rows(t)
             order == ResolveOrdering(cfg, req).terms
             terms == AppendPk(IF order = <<>> THEN cfg.meta ELSE order)
  <1>1. KeyedRows(S)
    BY RowsKeyed
  <1>2. terms \in Seq(Term) /\ HasPk(terms)
    BY Resolved, WithPk
  <1>3. \/ FromWindow(t, cfg, req) = Refused /\ FromDatabase(t, cfg, req) = Refused
        \/ \E offset, n \in Nat :
              /\ FromDatabase(t, cfg, req) = Page(Slice(OrderedBySql(S, terms), offset, n))
              /\ FromWindow(t, cfg, req) = Fetched(Numbers(terms, S, offset, n))
    BY WindowOrRefusal
  <1> HIDE DEF S, terms
  <1>4. ASSUME NEW offset \in Nat, NEW n \in Nat
        PROVE  ToSet(Slice(OrderedBySql(S, terms), offset, n)) = Numbers(terms, S, offset, n)
    BY <1>1, <1>2, SliceIsNumbers
  <1>5. QED BY <1>3, <1>4 DEF SameRows, Page, Fetched, Refused

(* One request for a page by limit and offset or by number, on every table,  *)
(* for every configuration and every ordering: the prefetched rows are      *)
(* answered in memory, in whatever order they arrived, exactly like by the  *)
(* database, and a window that does not decline fetches the same rows.      *)
THEOREM ListsReadAlike ==
    ASSUME NEW t \in Table, NEW cfg \in AnyConfiguration, NEW req \in AnyRequest
    PROVE  /\ ListPathsAgree(t, cfg, req)
           /\ \A list : Arrived(list, Rows(t)) =>
                 FromMemory(list, cfg, req) = FromDatabase(t, cfg, req)
  <1>1. Arrived(SetToSeq(Rows(t)), Rows(t))
    BY RowsKeyed, KeyedIsFinite, SomeSequence DEF Arrived
  <1>2. \A list : Arrived(list, Rows(t)) =>
                 FromMemory(list, cfg, req) = FromDatabase(t, cfg, req)
    BY MemoryAgrees
  <1>3. SameAnswer(FromDatabase(t, cfg, req), FromMemory(SetToSeq(Rows(t)), cfg, req))
    <2>1. FromMemory(SetToSeq(Rows(t)), cfg, req) = FromDatabase(t, cfg, req)
      BY <1>1, <1>2
    <2>2. QED BY <2>1 DEF SameAnswer
  <1>4. \/ FromWindow(t, cfg, req).is = "declined"
        \/ SameRows(FromDatabase(t, cfg, req), FromWindow(t, cfg, req))
    BY WindowAgrees
  <1>5. QED BY <1>2, <1>3, <1>4 DEF ListPathsAgree

(* What the run enumerates is among them. *)
LEMMA Enumerated == MCConfigurations \subseteq AnyConfiguration /\ MCRequests \subseteq AnyRequest
  <1>1. /\ Asc("v") \in Term /\ Desc("v") \in Term /\ Desc("pk") \in Term
    BY DEF Asc, Desc, Term, Column
  <1>2. /\ <<>> \in Seq(Term) /\ <<Desc("v")>> \in Seq(Term) /\ <<Asc("v")>> \in Seq(Term)
        /\ <<Desc("pk")>> \in Seq(Term)
    BY <1>1
  <1>3. ASSUME NEW cfg \in MCConfigurations PROVE cfg \in AnyConfiguration
    <2>1. cfg \in [default : {None, 1}, maximum : {None, 1}, order : {<<>>, <<Desc("v")>>},
                   meta : {<<>>, <<Desc("v")>>}, allowed : SUBSET Column]
      BY DEF MCConfigurations, Configurations
    <2>2. {None, 1} \subseteq Int \cup {None} /\ {None, 1} \subseteq Nat \cup {None}
          /\ {<<>>, <<Desc("v")>>} \subseteq Seq(Term)
      BY <1>2
    <2> PICK A, B : A = {None, 1} /\ B = {<<>>, <<Desc("v")>>}
      OBVIOUS
    <2>3. cfg \in [default : A, maximum : A, order : B, meta : B, allowed : SUBSET Column]
          /\ A \subseteq Int \cup {None} /\ A \subseteq Nat \cup {None} /\ B \subseteq Seq(Term)
      BY <2>1, <2>2
    <2>4. QED BY <2>3 DEF AnyConfiguration
  <1>4. ASSUME NEW req \in MCRequests PROVE req \in AnyRequest
    <2> PICK A, B, C : A = MCSizes /\ B = MCNumbers
                       /\ C = {<<Asc("v")>>, <<Desc("pk")>>, None, Blank}
      OBVIOUS
    <2>1. req \in [kind : {"offset", "page"}, size : A, at : B, order : C]
      BY DEF MCRequests, Requests
    <2>2. A \subseteq Int \cup {None} /\ B \subseteq Int \cup {None}
          /\ C \subseteq Seq(Term) \cup {None, Blank}
      BY <1>2 DEF MCSizes, MCNumbers
    <2>3. QED BY <2>1, <2>2 DEF AnyRequest, Requests
  <1>5. QED BY <1>3, <1>4

(* The invariant of the run, for every set of keys and values: by cursor, by *)
(* offset or by page, the paths of a list give one answer to each request   *)
(* of MCRequests, for each configuration of MCConfigurations.               *)
THEOREM EveryPathAgrees == Spec => []PathsAgree
  <1>1. ASSUME TypeOK, NEW desc \in BOOLEAN, NEW c \in Boundary \cup {None}, NEW n \in {1, 2}
        PROVE  CursorPathsAgree(desc, c, n)
    BY <1>1, n \in Nat \ {0}, CursorsReadAlike
  <1>2. ASSUME TypeOK, NEW cfg \in MCConfigurations, NEW req \in MCRequests
        PROVE  ListPathsAgree(table, cfg, req)
    <2>1. table \in Table
      BY <1>2 DEF TypeOK
    <2>2. QED BY <2>1, Enumerated, ListsReadAlike
  <1>3. TypeOK => PathsAgree
    BY <1>1, <1>2 DEF PathsAgree
  <1>4. QED BY Typing, <1>3, PTL

-----------------------------------------------------------------------------
(* Where the rows of a window come in the order of the page.                *)

(* A slice of a listing lists its rows in the same order. *)
LEMMA SliceAscends ==
    ASSUME NEW terms \in Seq(Term), HasPk(terms), NEW S, KeyedRows(S),
           NEW offset \in Nat, NEW n \in Nat,
           NEW T, T = Numbers(terms, S, offset, n)
    PROVE  Ascending(Slice(OrderedBySql(S, terms), offset, n), T, Pairs(terms, T))
  <1> DEFINE list == OrderedBySql(S, terms)
             cut == Slice(list, offset, n)
             m == Cardinality(S)
             k == Len(cut)
  <1>1. /\ m \in Nat /\ list \in Seq(S) /\ Len(list) = m
        /\ \A i, j \in 1..m : i < j => Lex(terms, 1, list[i], list[j])
    <2>1. Ascending(list, S, Pairs(terms, S))
      BY SqlLists
    <2>2. m \in Nat /\ list \in Seq(S) /\ Len(list) = m
      BY Numbered
    <2> HIDE DEF list, m
    <2>3. \A i, j \in 1..m : i < j => <<list[i], list[j]>> \in Pairs(terms, S)
      BY <2>1 DEF Ascending, m
    <2>4. QED BY <2>2, <2>3 DEF Pairs
  <1>2. ToSet(cut) = T
    BY SliceIsNumbers
  <1> HIDE DEF list, m
  <1>3. /\ k \in Nat /\ cut \in Seq(S)
        /\ \A i \in 1..k : offset + i \in 1..m /\ cut[i] = list[offset + i]
    <2>1. CASE offset <= m
      <3>1. offset \in 0..Len(list)
        BY <1>1, <2>1
      <3> DEFINE c == CutLen(list, offset, n)
      <3>2. /\ c \in Nat /\ cut \in Seq(S) /\ Len(cut) = c
            /\ \A i \in 1..c : cut[i] = list[offset + i]
        <4> HIDE DEF c, cut
        <4> QED BY <1>1, <3>1, SliceFacts DEF c, cut
      <3>3. c = IF offset + n <= m THEN n ELSE m - offset
        BY <1>1 DEF CutLen
      <3> HIDE DEF c, cut
      <3>4. \A i \in 1..c : offset + i \in 1..m
        BY <1>1, <2>1, <3>2, <3>3
      <3>5. QED BY <3>2, <3>4
    <2>2. CASE m < offset
      <3>1. Min({offset + n, m}) = m
        BY <1>1, <2>2, MinOfTwo
      <3>2. cut = SubSeq(list, offset + 1, m)
        BY <1>1, <3>1 DEF Slice
      <3>3. SubSeq(list, offset + 1, m) = <<>>
        BY <1>1, <2>2
      <3>4. cut = <<>>
        BY <3>2, <3>3
      <3> HIDE DEF cut
      <3>5. QED BY <3>4
    <2>3. QED BY <1>1, <2>1, <2>2
  <1> HIDE DEF cut
  <1>4. cut \in [1..k -> T] /\ \A x \in T : \E i \in 1..k : cut[i] = x
    <2>1. DOMAIN cut = 1..k
      BY <1>3
    <2>2. T = {cut[i] : i \in 1..k}
      BY <1>2, <2>1 DEF ToSet
    <2>3. cut = [i \in 1..k |-> cut[i]]
      BY <1>3
    <2> HIDE DEF k
    <2>4. QED BY <2>2, <2>3
  <1> HIDE DEF k
  <1>5. ASSUME NEW i \in 1..k, NEW j \in 1..k, i < j PROVE Lex(terms, 1, cut[i], cut[j])
    <2>1. offset + i \in 1..m /\ offset + j \in 1..m
      BY <1>3
    <2>4. offset + i < offset + j
      BY <1>5
    <2>2. cut[i] = list[offset + i] /\ cut[j] = list[offset + j]
      BY <1>3
    <2>3. QED BY <1>1, <2>1, <2>2, <2>4
  <1>6. KeyedRows(T)
    BY DEF Numbers, KeyedRows
  <1>7. Cardinality(T) = k
    <2>1. ASSUME NEW i \in 1..k, NEW j \in 1..k, cut[i] = cut[j] PROVE i = j
      <3>1. cut[i] \in T /\ ~Lex(terms, 1, cut[i], cut[i])
        BY <1>4, <1>6, LexOrders
      <3>2. ~(i < j) /\ ~(j < i)
        BY <1>5, <2>1, <3>1
      <3>3. QED BY <3>2
    <2>2. cut \in Bijection(1..k, T)
      BY <1>4, <2>1 DEF Bijection, Injection, Surjection, IsInjective
    <2>3. QED BY <1>3, <2>2, FS_CountingElements DEF ExistsBijection
  <1>8. \A i, j \in 1..k : i < j => <<cut[i], cut[j]>> \in Pairs(terms, T)
    BY <1>4, <1>5 DEF Pairs
  <1>9. Ascending(cut, T, Pairs(terms, T))
    BY <1>4, <1>7, <1>8 DEF Ascending
  <1>10. QED BY <1>9 DEF cut, list

(* What the list that a slice is has in common with those that can arrive.   *)
LEMMA AscendingIsList ==
    ASSUME NEW terms \in Seq(Term), HasPk(terms), NEW T, KeyedRows(T),
           NEW list, Ascending(list, T, Pairs(terms, T))
    PROVE  /\ list \in SetToSeqs(T) /\ DOMAIN list = 1..Cardinality(T)
           /\ \A i, j \in DOMAIN list : i < j => Lex(terms, 1, list[i], list[j])
  <1> DEFINE k == Cardinality(T)
  <1>1. /\ list \in [1..k -> T]
        /\ \A i, j \in 1..k : i < j => Lex(terms, 1, list[i], list[j])
    BY DEF Ascending, Pairs
  <1>2. k \in Nat
    BY KeyedIsFinite, FS_CardinalityType
  <1>3. \A r \in T : ~Lex(terms, 1, r, r)
    BY LexOrders
  <1> HIDE DEF k
  <1>4. ASSUME NEW i \in 1..k, NEW j \in 1..k, i # j PROVE list[i] # list[j]
    <2>1. i < j \/ j < i
      BY <1>2, <1>4
    <2>2. list[i] \in T
      BY <1>1
    <2>3. QED BY <1>1, <1>3, <2>1, <2>2
  <1>5. list \in SetToSeqs(T)
    BY <1>1, <1>4 DEF SetToSeqs, k
  <1>6. QED BY <1>1, <1>5 DEF k

(* PostgreSQL places the nulls of a plain ORDER BY as the window does.      *)
LEMMA RawIsSql ==
    ASSUME NEW term \in Term, NEW r, NEW s
    PROVE  /\ RawBefore(term, FALSE, r, s) <=> SqlBefore(term, r, s)
           /\ r[term.col] # Null /\ s[term.col] # Null =>
                 \A low \in BOOLEAN : RawBefore(term, low, r, s) <=> SqlBefore(term, r, s)
  <1>1. term.desc \in BOOLEAN
    BY DEF Term
  <1>2. QED BY <1>1 DEF RawBefore, SqlBefore, NullsFirst

LEMMA MetaIsLex ==
    ASSUME NEW cfg, cfg.meta \in Seq(Term), NEW low \in BOOLEAN, NEW r, NEW s,
           \/ low = FALSE
           \/ \A i \in 1..Len(cfg.meta) :
                 r[cfg.meta[i].col] # Null /\ s[cfg.meta[i].col] # Null
    PROVE  MetaPrecedes(cfg, low, r, s) <=> Lex(cfg.meta, 1, r, s)
  <1> DEFINE meta == cfg.meta
  <1>1. DOMAIN meta = 1..Len(meta) /\ \A i \in 1..Len(meta) : meta[i] \in Term
    OBVIOUS
  <1>2. \A i \in 1..Len(meta) : RawBefore(meta[i], low, r, s) <=> SqlBefore(meta[i], r, s)
    BY <1>1, RawIsSql
  <1>3. MetaPrecedes(cfg, low, r, s) <=> Precedes(meta, r, s)
    BY <1>1, <1>2 DEF MetaPrecedes, Precedes
  <1>4. QED BY <1>3, PrecedesIsLex

(* Without an order of the request, the page has the order of the model and *)
(* of the key after it.                                                     *)
LEMMA MetaLeads ==
    ASSUME NEW meta \in Seq(Term), NEW r, NEW s, Lex(meta, 1, r, s)
    PROVE  Lex(AppendPk(meta), 1, r, s)
  <1> PICK x : x = [col |-> "pk", desc |-> FALSE]
    OBVIOUS
  <1>1. AppendPk(meta) = meta \/ AppendPk(meta) = Append(meta, x)
    BY DEF AppendPk
  <1>2. Len(meta) \in Nat /\ Len(AppendPk(meta)) \in Nat /\ Len(meta) <= Len(AppendPk(meta))
    BY <1>1
  <1>3. \A i \in 1..Len(meta) : AppendPk(meta)[i] = meta[i]
    BY <1>1
  <1>4. PICK i \in 1..Len(meta) :
             /\ Apart(meta[i].desc, r[meta[i].col], s[meta[i].col])
             /\ \A j \in 1..(i - 1) : r[meta[j].col] = s[meta[j].col]
    BY DEF Lex
  <1>5. i \in 1..Len(AppendPk(meta)) /\ \A j \in 1..(i - 1) : j \in 1..Len(meta)
    BY <1>2
  <1>6. QED BY <1>3, <1>4, <1>5 DEF Lex

(* The page as a listing of the rows that the window fetches.               *)
LEMMA PageOfWindow ==
    ASSUME NEW t \in Table, NEW cfg \in AnyConfiguration, NEW req \in AnyRequest,
           FromWindow(t, cfg, req).is = "page",
           NEW order, order = ResolveOrdering(cfg, req).terms,
           NEW terms, terms = AppendPk(IF order = <<>> THEN cfg.meta ELSE order)
    PROVE  \E T \in SUBSET Rows(t) : \E f :
              /\ FromDatabase(t, cfg, req) = Page(f) /\ FromWindow(t, cfg, req) = Fetched(T)
              /\ KeyedRows(T) /\ Ascending(f, T, Pairs(terms, T))
  <1>1. FromWindow(t, cfg, req) # Refused /\ FromWindow(t, cfg, req).is # "declined"
    BY DEF Refused
  <1> PICK S : S = Rows(t)
    OBVIOUS
  <1>2. KeyedRows(S)
    BY RowsKeyed
  <1>3. terms \in Seq(Term) /\ HasPk(terms)
    BY Resolved, WithPk
  <1>4. PICK offset \in Nat, n \in Nat :
             /\ FromDatabase(t, cfg, req) = Page(Slice(OrderedBySql(S, terms), offset, n))
             /\ FromWindow(t, cfg, req) = Fetched(Numbers(terms, S, offset, n))
    BY <1>1, WindowOrRefusal
  <1>5. Numbers(terms, S, offset, n) \in SUBSET S
    BY DEF Numbers
  <1>6. KeyedRows(Numbers(terms, S, offset, n))
    BY <1>2, <1>5 DEF KeyedRows
  <1>7. Ascending(Slice(OrderedBySql(S, terms), offset, n), Numbers(terms, S, offset, n),
                  Pairs(terms, Numbers(terms, S, offset, n)))
    BY <1>2, <1>3, SliceAscends
  <1>8. QED BY <1>4, <1>5, <1>6, <1>7

(* The finding, delimited.  Some database returns the rows of a window in   *)
(* the order of the page if the model has no ordering, or if the request    *)
(* resolves to none.  Every database does if the request resolves to the    *)
(* model's ordering, the key is in it and no row has a null.  Only the other *)
(* requests can break the promise of _paginate_list_base.                   *)
THEOREM WindowsInOrder ==
    ASSUME NEW t \in Table, NEW cfg \in AnyConfiguration, NEW req \in AnyRequest,
           NEW order, order = ResolveOrdering(cfg, req).terms
    PROVE  /\ cfg.meta = <<>> \/ order = <<>> => WindowMayBePage(t, cfg, req)
           /\ /\ order \in {<<>>, cfg.meta} /\ HasPk(cfg.meta)
              /\ \A r \in Rows(t) : r.v # Null
              => WindowMustBePage(t, cfg, req)
  <1> DEFINE terms == AppendPk(IF order = <<>> THEN cfg.meta ELSE order)
             window == FromWindow(t, cfg, req)
             db == FromDatabase(t, cfg, req)
  <1>1. CASE window.is # "page"
    BY <1>1 DEF WindowMayBePage, WindowMustBePage
  <1>2. CASE window.is = "page"
    <2> PICK T \in SUBSET Rows(t) :
            \E f : /\ db = Page(f) /\ window = Fetched(T)
                   /\ KeyedRows(T) /\ Ascending(f, T, Pairs(terms, T))
      BY <1>2, PageOfWindow
    <2>1. PICK f :
               /\ db = Page(f) /\ window = Fetched(T)
               /\ KeyedRows(T) /\ Ascending(f, T, Pairs(terms, T))
      OBVIOUS
    <2>2. cfg.meta \in Seq(Term) /\ terms \in Seq(Term) /\ HasPk(terms)
      BY Resolved, WithPk
    <2>3. db.is = "page" /\ db.rows = f /\ window.rows = T
      BY <2>1 DEF Page, Fetched
    <2> HIDE DEF window, db
    <2>4. /\ f \in SetToSeqs(T) /\ DOMAIN f = 1..Cardinality(T)
          /\ \A i, j \in DOMAIN f : i < j => Lex(terms, 1, f[i], f[j])
      <3> HIDE DEF terms
      <3> QED BY <2>1, <2>2, AscendingIsList
    <2>5. /\ Cardinality(T) \in Nat /\ T \in SUBSET Row
          /\ StrictOrder(Pairs(terms, T), T)
          /\ \A r \in T : ~Lex(terms, 1, r, r)
          /\ \A r, s \in T : r # s => Lex(terms, 1, r, s) \/ Lex(terms, 1, s, r)
          /\ \A r, s, u \in T : Lex(terms, 1, r, s) /\ Lex(terms, 1, s, u) => Lex(terms, 1, r, u)
      <3> HIDE DEF terms
      <3> QED BY <2>1, <2>2, PairsOrder, LexOrders, KeyedIsFinite, FS_CardinalityType DEF KeyedRows
    <2>6. \A i \in DOMAIN f : f[i] \in T
      BY <2>1, <2>4 DEF Ascending
    <2>7. ASSUME cfg.meta = <<>> \/ order = <<>>
          PROVE  f \in Arrivals(cfg, T)
      <3>1. ASSUME NEW i \in DOMAIN f, NEW j \in DOMAIN f, i < j
            PROVE  ~MetaPrecedes(cfg, FALSE, f[j], f[i])
        <4>1. CASE cfg.meta = <<>>
          BY <4>1 DEF MetaPrecedes
        <4>2. CASE order = <<>>
          <5>1. terms = AppendPk(cfg.meta)
            BY <4>2
          <5> HIDE DEF terms
          <5>2. SUFFICES ASSUME MetaPrecedes(cfg, FALSE, f[j], f[i]) PROVE FALSE
            OBVIOUS
          <5>3. Lex(cfg.meta, 1, f[j], f[i])
            BY <2>2, <5>2, MetaIsLex
          <5>4. Lex(terms, 1, f[j], f[i])
            BY <2>2, <5>1, <5>3, MetaLeads
          <5>5. QED BY <2>4, <2>5, <2>6, <3>1, <5>4
        <4>3. QED BY <2>7, <4>1, <4>2
      <3>2. QED BY <2>4, <3>1 DEF Arrivals
    <2>8. ASSUME order \in {<<>>, cfg.meta}, HasPk(cfg.meta), \A r \in Rows(t) : r.v # Null
          PROVE  Arrivals(cfg, T) = {f}
      <3>1. terms = cfg.meta
        BY <2>2, <2>8 DEF HasPk, AppendPk
      <3>2. ASSUME NEW r \in T, NEW s \in T, NEW low \in BOOLEAN
            PROVE  MetaPrecedes(cfg, low, r, s) <=> Lex(terms, 1, r, s)
        <4>1. \A x \in T : x.v # Null /\ x.pk # Null
          BY <2>1, <2>5, <2>8, Kinds DEF Row
        <4>2. \A i \in 1..Len(cfg.meta) : cfg.meta[i].col \in {"pk", "v"}
          BY <2>2, TermTypes DEF Column
        <4>3. \A i \in 1..Len(cfg.meta) :
                 r[cfg.meta[i].col] # Null /\ s[cfg.meta[i].col] # Null
          BY <4>1, <4>2
        <4> HIDE DEF terms
        <4>4. QED BY <2>2, <3>1, <4>3, MetaIsLex
      <3> HIDE DEF terms
      <3>3. ASSUME NEW g \in Arrivals(cfg, T) PROVE g = f
        <4>1. /\ g \in [1..Cardinality(T) -> T]
              /\ \A i, j \in 1..Cardinality(T) : i # j => g[i] # g[j]
          BY DEF Arrivals, SetToSeqs
        <4>2. PICK low \in BOOLEAN :
                   \A i, j \in DOMAIN g : i < j => ~MetaPrecedes(cfg, low, g[j], g[i])
          BY DEF Arrivals
        <4>3. ASSUME NEW i \in 1..Cardinality(T), NEW j \in 1..Cardinality(T), i < j
              PROVE  <<g[i], g[j]>> \in Pairs(terms, T)
          <5>1. g[i] \in T /\ g[j] \in T /\ g[i] # g[j]
            BY <2>5, <4>1, <4>3
          <5>2. ~Lex(terms, 1, g[j], g[i])
            BY <3>2, <4>1, <4>2, <4>3, <5>1
          <5>3. Lex(terms, 1, g[i], g[j])
            BY <2>5, <5>1, <5>2
          <5>4. QED BY <5>1, <5>3 DEF Pairs
        <4>4. \A x \in T : \E i \in 1..Cardinality(T) : g[i] = x
          <5>1. g \in Injection(1..Cardinality(T), T)
            BY <4>1 DEF Injection, IsInjective
          <5>2. g \in Surjection(1..Cardinality(T), T)
            <6>1. IsFiniteSet(T) /\ Cardinality(1..Cardinality(T)) = Cardinality(T)
              BY <2>1, <2>5, KeyedIsFinite, FS_Interval
            <6>2. QED BY <5>1, <6>1, FS_Injection
          <5>3. QED BY <5>2 DEF Surjection
        <4>5. Ascending(g, T, Pairs(terms, T))
          BY <4>1, <4>3, <4>4 DEF Ascending
        <4>6. QED BY <2>1, <2>5, <4>5, OneListing
      <3>4. f \in Arrivals(cfg, T)
        <4>1. ASSUME NEW i \in DOMAIN f, NEW j \in DOMAIN f, i < j
              PROVE  ~MetaPrecedes(cfg, FALSE, f[j], f[i])
          BY <2>4, <2>5, <2>6, <3>2, <4>1
        <4>2. QED BY <2>4, <4>1 DEF Arrivals
      <3>5. QED BY <3>3, <3>4
    <2>9. QED BY <2>3, <2>7, <2>8 DEF WindowMayBePage, WindowMustBePage, window, db
  <1>3. QED BY <1>1, <1>2
=============================================================================
