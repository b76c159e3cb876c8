------------------------- MODULE QueryCaches_proofs -------------------------
(***************************************************************************)
(* Proofs about TokenLRU and QueryCaches, for every number of threads,      *)
(* schemas and requests and every value of the bounds; and about            *)
(* SchemaPruner, for every schema and every permissions.                    *)
(***************************************************************************)
EXTENDS QueryCaches, SequenceTheorems, FiniteSetTheorems, WellFoundedInduction, TLAPS

(* Entries as the LRUs keep them: anything with a size.                     *)
Sized(E) == \A e \in E : e.size \in Nat

(* A set of naturals that is not empty has a least element.                 *)
LEMMA Least ==
    ASSUME NEW T \in SUBSET Nat, T # {}
    PROVE  \E x \in T : \A y \in T : x <= y
  <1> DEFINE Less == {p \in Nat \X Nat : p[1] < p[2]}
  <1>1. IsWellFoundedOn(Less, Nat)
    BY NatLessThanWellFounded DEF OpToRel
  <1>2. PICK x \in T : \A y \in T : <<y, x>> \notin Less
    BY <1>1, WFMin
  <1>3. ASSUME NEW y \in T PROVE x <= y
    <2>1. <<y, x>> \in Nat \X Nat /\ ~(<<y, x>>[1] < <<y, x>>[2])
      BY <1>2
    <2>2. QED BY <2>1
  <1>4. QED BY <1>3

(* The partial sums that Size is defined from. *)
IsSum(s, m, g) == g = [n \in 0..m |-> IF n = 0 THEN 0 ELSE g[n - 1] + s[n].size]

(* One by one. *)
LEMMA SumSteps ==
    ASSUME NEW s, NEW m \in Nat, NEW g, IsSum(s, m, g)
    PROVE  g[0] = 0 /\ \A k \in 1..m : g[k] = g[k - 1] + s[k].size
  <1>1. ASSUME NEW k \in 0..m PROVE g[k] = IF k = 0 THEN 0 ELSE g[k - 1] + s[k].size
    <2> DEFINE f == [n \in 0..m |-> IF n = 0 THEN 0 ELSE g[n - 1] + s[n].size]
    <2>1. f[k] = IF k = 0 THEN 0 ELSE g[k - 1] + s[k].size
      OBVIOUS
    <2>2. g = f
      BY DEF IsSum
    <2> HIDE DEF f
    <2>3. QED BY <2>1, <2>2
  <1>2. QED BY <1>1

(* They exist, and are natural numbers. *)
LEMMA SumExists ==
    ASSUME NEW E, Sized(E), NEW s \in Seq(E)
    PROVE  \A m \in 0..Len(s) : \E g \in [0..m -> Nat] : IsSum(s, m, g)
  <1> DEFINE Missing == {m \in 0..Len(s) : ~\E g \in [0..m -> Nat] : IsSum(s, m, g)}
  <1>1. SUFFICES ASSUME Missing # {} PROVE FALSE
    OBVIOUS
  <1>2. PICK m \in Missing : \A k \in Missing : m <= k
    <2>1. Missing \subseteq Nat
      OBVIOUS
    <2>2. QED BY <1>1, <2>1, Least
  <1>3. CASE m = 0
    <2>1. IsSum(s, 0, [n \in 0..0 |-> 0]) /\ [n \in 0..0 |-> 0] \in [0..0 -> Nat]
      BY DEF IsSum
    <2>2. QED BY <1>2, <1>3, <2>1
  <1>4. CASE m # 0
    <2>1. m \in 1..Len(s) /\ m - 1 \in 0..Len(s)
      BY <1>4
    <2>8. m - 1 \notin Missing
      <3> HIDE DEF Missing
      <3> QED BY <1>2, <2>1
    <2>2. PICK g \in [0..(m - 1) -> Nat] : IsSum(s, m - 1, g)
      BY <2>1, <2>8
    <2> DEFINE h == [n \in 0..m |-> IF n = m THEN g[m - 1] + s[m].size ELSE g[n]]
    <2>3. s[m].size \in Nat
      BY <2>1 DEF Sized
    <2>4. h \in [0..m -> Nat]
      BY <2>1, <2>3
    <2>5. ASSUME NEW n \in 0..m
          PROVE  h[n] = IF n = 0 THEN 0 ELSE h[n - 1] + s[n].size
      BY <1>4, <2>1, <2>2 DEF IsSum
    <2>6. IsSum(s, m, h)
      BY <2>5 DEF IsSum
    <2>7. QED BY <1>2, <2>4, <2>6
  <1>5. QED BY <1>3, <1>4

(* Size is the last of the partial sums. *)
LEMMA SizeIsSum ==
    ASSUME NEW E, Sized(E), NEW s \in Seq(E)
    PROVE  \E g \in [0..Len(s) -> Nat] : IsSum(s, Len(s), g) /\ Size(s) = g[Len(s)]
  <1> DEFINE g == CHOOSE x : IsSum(s, Len(s), x)
  <1>1. PICK h \in [0..Len(s) -> Nat] : IsSum(s, Len(s), h)
    BY SumExists
  <1>2. IsSum(s, Len(s), g)
    BY <1>1
  <1>3. \A m \in 0..Len(s) : g[m] = h[m]
    <2> DEFINE Differ == {m \in 0..Len(s) : g[m] # h[m]}
    <2>1. SUFFICES ASSUME Differ # {} PROVE FALSE
      OBVIOUS
    <2>2. PICK m \in Differ : \A k \in Differ : m <= k
      <3>1. Differ \subseteq Nat
        OBVIOUS
      <3> HIDE DEF Differ
      <3> QED BY <2>1, <3>1, Least
    <2>3. m = 0 \/ g[m - 1] = h[m - 1]
      BY <2>2
    <2> HIDE DEF g
    <2>4. g[m] = h[m]
      BY <1>1, <1>2, <2>2, <2>3 DEF IsSum
    <2>5. QED BY <2>2, <2>4
  <1>4. Size(s) = g[Len(s)]
    BY DEF Size, IsSum
  <1>5. g = h
    BY <1>1, <1>2, <1>3 DEF IsSum
  <1>6. QED BY <1>1, <1>4, <1>5

(* The sizes of two sequences add up. *)
LEMMA SizeConcat ==
    ASSUME NEW E, Sized(E), NEW s \in Seq(E), NEW t \in Seq(E)
    PROVE  Size(s \o t) = Size(s) + Size(t)
  <1> DEFINE m == Len(s)
             n == Len(t)
  <1>1. PICK g \in [0..m -> Nat] : IsSum(s, m, g) /\ Size(s) = g[m]
    BY SizeIsSum
  <1>2. PICK h \in [0..n -> Nat] : IsSum(t, n, h) /\ Size(t) = h[n]
    BY SizeIsSum
  <1>3. /\ m \in Nat /\ n \in Nat /\ s \o t \in Seq(E) /\ Len(s \o t) = m + n
        /\ \A k \in 1..m : (s \o t)[k] = s[k] /\ s[k].size \in Nat
        /\ \A k \in 1..n : (s \o t)[m + k] = t[k] /\ t[k].size \in Nat
    BY DEF Sized
  <1>4. PICK f \in [0..(m + n) -> Nat] : IsSum(s \o t, m + n, f) /\ Size(s \o t) = f[m + n]
    BY <1>3, SizeIsSum
  <1> DEFINE sum(k) == IF k <= m THEN g[k] ELSE g[m] + h[k - m]
             Differ == {k \in 0..(m + n) : f[k] # sum(k)}
  <1> HIDE DEF m, n
  <1>5. /\ g[0] = 0 /\ \A k \in 1..m : g[k] = g[k - 1] + s[k].size
        /\ h[0] = 0 /\ \A k \in 1..n : h[k] = h[k - 1] + t[k].size
        /\ f[0] = 0 /\ \A k \in 1..(m + n) : f[k] = f[k - 1] + (s \o t)[k].size
    <2>6. m \in Nat /\ n \in Nat
      BY <1>3
    <2>1. g[0] = 0 /\ \A k \in 1..m : g[k] = g[k - 1] + s[k].size
      BY <1>1, <2>6, SumSteps
    <2>2. h[0] = 0 /\ \A k \in 1..n : h[k] = h[k - 1] + t[k].size
      BY <1>2, <2>6, SumSteps
    <2>3. m + n \in Nat
      BY <1>3
    <2>4. f[0] = 0 /\ \A k \in 1..(m + n) : f[k] = f[k - 1] + (s \o t)[k].size
      BY <1>4, <2>3, SumSteps
    <2>5. QED BY <2>1, <2>2, <2>4
  <1>6. Differ = {}
    <2>1. SUFFICES ASSUME Differ # {} PROVE FALSE
      OBVIOUS
    <2>2. PICK k \in Differ : \A j \in Differ : k <= j
      <3>1. Differ \subseteq Nat
        BY <1>3
      <3> HIDE DEF Differ
      <3> QED BY <2>1, <3>1, Least
    <2>3. k \in 0..(m + n)
      OBVIOUS
    <2>4. CASE k = 0
      BY <1>3, <1>5, <2>4
    <2>5. CASE k # 0
      <3>1. k - 1 \in 0..(m + n) /\ k \in 1..(m + n)
        BY <1>3, <2>3, <2>5
      <3>2. f[k - 1] = sum(k - 1)
        <4>1. k - 1 \notin Differ
          <5> HIDE DEF Differ
          <5> QED BY <2>2, <2>3
        <4>2. QED BY <3>1, <4>1
      <3>3. CASE k <= m
        <4>1. k \in 1..m /\ k - 1 <= m
          BY <1>3, <3>1, <3>3
        <4>2. sum(k) = g[k] /\ sum(k - 1) = g[k - 1]
          BY <4>1
        <4>3. f[k] = f[k - 1] + s[k].size /\ g[k] = g[k - 1] + s[k].size
          BY <1>3, <1>5, <3>1, <4>1
        <4>4. f[k] = sum(k)
          <5> HIDE DEF sum
          <5> QED BY <3>2, <4>2, <4>3
        <4>5. QED BY <4>4
      <3>4. CASE k > m
        <4>1. k - m \in 1..n /\ (s \o t)[k] = t[k - m] /\ m \in 0..m
              /\ k - m - 1 \in 0..n /\ k - m \in 0..n
          <5>1. k - m \in 1..n /\ m + (k - m) = k
            BY <1>3, <3>1, <3>4
          <5>2. (s \o t)[m + (k - m)] = t[k - m]
            BY <1>3, <5>1
          <5>3. (s \o t)[k] = t[k - m]
            BY <5>1, <5>2
          <5>4. m \in Nat /\ n \in Nat /\ k \in Nat
            BY <1>3, <2>3
          <5> HIDE DEF Differ, sum, m, n
          <5>5. m \in 0..m /\ k - m - 1 \in 0..n /\ k - m \in 0..n
            BY <5>1, <5>4
          <5>6. QED BY <5>1, <5>3, <5>5
        <4>2. h[k - m] = h[k - m - 1] + t[k - m].size /\ t[k - m].size \in Nat
          BY <1>3, <1>5, <4>1
        <4>3. sum(k - 1) = g[m] + h[k - m - 1]
          <5>1. CASE k - 1 = m
            BY <1>3, <1>5, <5>1
          <5>2. CASE k - 1 > m
            <6>1. ~(k - 1 <= m) /\ k - 1 - m = k - m - 1
              BY <1>3, <3>1, <5>2
            <6>2. QED BY <6>1
          <5>3. QED BY <1>3, <3>1, <3>4, <5>1, <5>2
        <4>4. sum(k) = g[m] + h[k - m]
          BY <1>3, <2>3, <3>4
        <4>5. f[k] = f[k - 1] + t[k - m].size
          BY <1>5, <3>1, <4>1
        <4>6. h[k - m - 1] \in Nat /\ g[m] \in Nat
          BY <4>1
        <4>7. f[k] = sum(k)
          <5> HIDE DEF sum
          <5> QED BY <3>2, <4>2, <4>3, <4>4, <4>5, <4>6
        <4>8. QED BY <4>7
      <3>5. QED BY <1>3, <2>3, <3>3, <3>4
    <2>6. QED BY <2>4, <2>5
  <1>7. f[m + n] = sum(m + n)
    <2>1. m + n \in 0..(m + n)
      BY <1>3
    <2>2. QED BY <1>6, <2>1
  <1>8. m \in 0..m /\ g[m] \in Nat
    BY <1>3
  <1>9. CASE n = 0
    BY <1>1, <1>2, <1>3, <1>4, <1>5, <1>7, <1>8, <1>9
  <1>10. CASE n > 0
    <2>1. ~(m + n <= m) /\ (m + n) - m = n
      BY <1>3, <1>10
    <2>2. sum(m + n) = g[m] + h[n]
      <3>1. sum(m + n) = g[m] + h[(m + n) - m]
        BY <2>1
      <3>2. QED BY <2>1, <3>1
    <2> HIDE DEF sum
    <2>3. QED BY <1>1, <1>2, <1>4, <1>7, <2>2
  <1>11. QED BY <1>3, <1>9, <1>10

(* The size of nothing and of one entry. *)
LEMMA SizeBase ==
    ASSUME NEW E, Sized(E)
    PROVE  /\ Size(<<>>) = 0
           /\ \A e \in E : Size(<<e>>) = e.size
           /\ \A s \in Seq(E) : Size(s) \in Nat
  <1>1. Size(<<>>) = 0
    <2>1. <<>> \in Seq(E) /\ Len(<<>>) = 0
      OBVIOUS
    <2>2. PICK g \in [0..0 -> Nat] : IsSum(<<>>, 0, g) /\ Size(<<>>) = g[0]
      BY <2>1, SizeIsSum
    <2>3. QED BY <2>2 DEF IsSum
  <1>2. ASSUME NEW e \in E PROVE Size(<<e>>) = e.size
    <2>1. <<e>> \in Seq(E) /\ Len(<<e>>) = 1 /\ <<e>>[1] = e /\ e.size \in Nat
      BY DEF Sized
    <2>2. PICK g \in [0..1 -> Nat] : IsSum(<<e>>, 1, g) /\ Size(<<e>>) = g[1]
      BY <2>1, SizeIsSum
    <2>3. g[1] = g[0] + e.size /\ g[0] = 0
      BY <2>1, <2>2 DEF IsSum
    <2>4. QED BY <2>1, <2>2, <2>3
  <1>3. ASSUME NEW s \in Seq(E) PROVE Size(s) \in Nat
    BY SizeIsSum
  <1>4. QED BY <1>1, <1>2, <1>3

-----------------------------------------------------------------------------
(* What the operations on entries keep.                                     *)
Keyed(entries) ==
    \A i, j \in DOMAIN entries : entries[i].key = entries[j].key => i = j

(* Taking one element out of a sequence. *)
LEMMA Removal ==
    ASSUME NEW E, NEW s \in Seq(E), NEW i \in 1..Len(s)
    PROVE  /\ RemoveAt(s, i) \in Seq(E)
           /\ Len(RemoveAt(s, i)) = Len(s) - 1
           /\ \A j \in 1..(Len(s) - 1) : RemoveAt(s, i)[j] = s[IF j < i THEN j ELSE j + 1]
           /\ Sized(E) => Size(RemoveAt(s, i)) = Size(s) - s[i].size
  <1> DEFINE a == SubSeq(s, 1, i - 1)
             b == SubSeq(s, i + 1, Len(s))
  <1>1. /\ a \in Seq(E) /\ Len(a) = i - 1 /\ \A j \in 1..(i - 1) : a[j] = s[j]
        /\ b \in Seq(E) /\ Len(b) = Len(s) - i /\ \A j \in 1..(Len(s) - i) : b[j] = s[i + j]
    OBVIOUS
  <1>2. RemoveAt(s, i) = a \o b
    BY DEF RemoveAt
  <1>6. Len(s) \in Nat /\ s[i] \in E /\ \A j \in 1..Len(s) : s[j] \in E
    OBVIOUS
  <1> HIDE DEF a, b
  <1>3. /\ a \o b \in Seq(E) /\ Len(a \o b) = Len(s) - 1
        /\ \A j \in 1..(Len(s) - 1) : (a \o b)[j] = s[IF j < i THEN j ELSE j + 1]
    <2>1. /\ a \o b \in Seq(E) /\ Len(a \o b) = Len(s) - 1
          /\ \A j \in 1..(Len(a) + Len(b)) :
                (a \o b)[j] = IF j <= Len(a) THEN a[j] ELSE b[j - Len(a)]
      <3>1. a \in Seq(E) /\ b \in Seq(E)
        BY <1>1
      <3>2. Len(a) + Len(b) = Len(s) - 1
        BY <1>1, <1>6
      <3>3. a \o b \in Seq(E) /\ Len(a \o b) = Len(a) + Len(b)
        BY <3>1
      <3>4. \A j \in 1..(Len(a) + Len(b)) :
                (a \o b)[j] = IF j <= Len(a) THEN a[j] ELSE b[j - Len(a)]
        BY <3>1
      <3>5. QED BY <3>2, <3>3, <3>4
    <2>2. ASSUME NEW j \in 1..(Len(s) - 1)
          PROVE  (a \o b)[j] = s[IF j < i THEN j ELSE j + 1]
      <3>1. CASE j < i
        BY <1>1, <1>6, <2>1, <3>1
      <3>2. CASE j >= i
        <4>1. j - (i - 1) \in 1..(Len(s) - i) /\ (a \o b)[j] = b[j - (i - 1)]
          BY <1>1, <1>6, <2>1, <3>2
        <4>2. i + (j - (i - 1)) = j + 1 /\ ~(j < i)
          BY <1>6, <3>2
        <4>3. b[j - (i - 1)] = s[i + (j - (i - 1))]
          BY <1>1, <4>1
        <4>4. QED BY <4>1, <4>2, <4>3
      <3>3. j < i \/ j >= i
        BY <1>6
      <3>4. QED BY <3>1, <3>2, <3>3
    <2>3. QED BY <2>1, <2>2
  <1>4. ASSUME Sized(E) PROVE Size(a \o b) = Size(s) - s[i].size
    <2>1. <<s[i]>> \in Seq(E) /\ a \o <<s[i]>> \in Seq(E)
      BY <1>1
    <2>2. s = (a \o <<s[i]>>) \o b
      <3>1. SubSeq(s, 1, i) = a \o <<s[i]>>
        BY <1>6, SubSeqRecursiveSecond DEF a
      <3>2. s = SubSeq(s, 1, i) \o b
        <4>1. SubSeq(s, 1, i) \o SubSeq(s, i + 1, Len(s)) = SubSeq(s, 1, Len(s))
          <5>1. 1 \in 1..Len(s) + 1 /\ i \in (1 - 1)..Len(s) /\ Len(s) \in i..Len(s)
            BY <1>6
          <5>2. QED BY <5>1, ConcatAdjacentSubSeq
        <4>2. QED BY <4>1, SubSeqFull DEF b
      <3>3. QED BY <3>1, <3>2
    <2>3. Size(s) = Size(a) + Size(<<s[i]>>) + Size(b)
      BY <1>1, <1>4, <2>1, <2>2, SizeConcat
    <2>4. Size(<<s[i]>>) = s[i].size /\ s[i].size \in Nat /\ Size(a) \in Nat /\ Size(b) \in Nat
      BY <1>1, <1>4, SizeBase DEF Sized
    <2>5. Size(a \o b) = Size(a) + Size(b)
      BY <1>1, <1>4, SizeConcat
    <2>6. QED BY <2>3, <2>4, <2>5
  <1>5. QED BY <1>2, <1>3, <1>4

(* The only entry of a key is taken out, if there is one.                   *)
LEMMA WithoutFacts ==
    ASSUME NEW E, NEW s \in Seq(E), Keyed(s), NEW key,
           NEW w, w = Without(s, key)
    PROVE  /\ w \in Seq(E) /\ Len(w) <= Len(s) /\ Keyed(w)
           /\ \A i \in DOMAIN w : w[i].key # key /\ \E j \in DOMAIN s : w[i] = s[j]
           /\ \A j \in DOMAIN s : s[j].key # key => \E i \in DOMAIN w : w[i] = s[j]
           /\ Sized(E) => Size(w) = Size(s) - IF \E i \in DOMAIN s : s[i].key = key
                                              THEN s[Position(s, key)].size ELSE 0
  <1> DEFINE p == Position(s, key)
  <1>1. CASE \E i \in DOMAIN s : s[i].key = key
    <2>1. p \in 1..Len(s) /\ s[p].key = key
      BY <1>1 DEF Position
    <2>2. w = RemoveAt(s, p)
      BY <1>1 DEF Without
    <2> HIDE DEF p
    <2>3. /\ w \in Seq(E) /\ Len(w) = Len(s) - 1
          /\ \A j \in 1..(Len(s) - 1) : w[j] = s[IF j < p THEN j ELSE j + 1]
      BY <2>1, <2>2, Removal
    <2>4. \A i \in DOMAIN w : w[i].key # key /\ \E j \in DOMAIN s : w[i] = s[j]
      <3>1. ASSUME NEW i \in DOMAIN w
            PROVE  w[i].key # key /\ \E j \in DOMAIN s : w[i] = s[j]
        <4> DEFINE j == IF i < p THEN i ELSE i + 1
        <4>1. j \in DOMAIN s /\ j # p /\ w[i] = s[j]
          BY <2>1, <2>3
        <4>2. QED BY <2>1, <4>1 DEF Keyed
      <3>2. QED BY <3>1
    <2>5. Keyed(w)
      <3>1. SUFFICES ASSUME NEW i \in DOMAIN w, NEW j \in DOMAIN w, w[i].key = w[j].key
                     PROVE  i = j
        BY DEF Keyed
      <3> DEFINE At(k) == IF k < p THEN k ELSE k + 1
      <3>2. At(i) \in DOMAIN s /\ At(j) \in DOMAIN s /\ w[i] = s[At(i)] /\ w[j] = s[At(j)]
        <4>1. i \in 1..(Len(s) - 1) /\ j \in 1..(Len(s) - 1) /\ Len(s) \in Nat
          BY <2>3
        <4>2. \A k \in 1..(Len(s) - 1) : At(k) \in 1..Len(s)
          BY <2>1, <4>1
        <4>3. QED BY <2>3, <4>1, <4>2
      <3>3. At(i) = At(j)
        BY <3>1, <3>2 DEF Keyed
      <3>4. QED BY <2>1, <2>3, <3>3
    <2>6. ASSUME NEW j \in DOMAIN s, s[j].key # key PROVE \E i \in DOMAIN w : w[i] = s[j]
      <3>1. j # p /\ j \in Nat /\ j <= Len(s) /\ Len(s) \in Nat
        BY <2>1, <2>6
      <3>2. CASE j < p
        <4>1. j \in 1..(Len(s) - 1)
          BY <2>1, <3>1, <3>2
        <4>2. QED BY <2>3, <3>2, <4>1
      <3>3. CASE j > p
        <4>1. j - 1 \in 1..(Len(s) - 1) /\ ~(j - 1 < p) /\ (j - 1) + 1 = j
          BY <2>1, <3>1, <3>3
        <4>2. w[j - 1] = s[(j - 1) + 1]
          BY <2>3, <4>1
        <4>3. QED BY <2>3, <4>1, <4>2
      <3>4. QED BY <2>1, <3>1, <3>2, <3>3
    <2>7. Sized(E) => Size(w) = Size(s) - s[p].size
      BY <2>1, <2>2, Removal
    <2>8. QED BY <1>1, <2>3, <2>4, <2>5, <2>6, <2>7 DEF p
  <1>2. CASE ~\E i \in DOMAIN s : s[i].key = key
    <2>1. w = s
      BY <1>2 DEF Without
    <2>2. Sized(E) => Size(w) = Size(s) - 0
      <3>1. Sized(E) => Size(s) \in Nat
        BY SizeBase
      <3>2. QED BY <2>1, <3>1
    <2>3. QED BY <1>2, <2>1, <2>2
  <1>3. QED BY <1>1, <1>2

Caches(E) == [entries : Seq(E), tokens : Int]

(* Evicting keeps entries that were there, the total and both bounds.       *)
LEMMA EvictFacts ==
    ASSUME NEW E, Sized(E), NEW lru \in Caches(E), Keyed(lru.entries), TrueTotal(lru),
           NEW maxsize \in Nat, NEW budget \in Nat,
           NEW new, new = Evict(lru, maxsize, budget)
    PROVE  /\ new \in Caches(E) /\ Keyed(new.entries)
           /\ TrueTotal(new) /\ Within(new, maxsize, budget)
           /\ \A i \in DOMAIN new.entries : \E j \in DOMAIN lru.entries :
                  new.entries[i] = lru.entries[j]
  <1> DEFINE s == lru.entries
             rest(n) == SubSeq(s, n + 1, Len(s))
             gone(n) == SubSeq(s, 1, n)
             After(n) == [entries |-> rest(n), tokens |-> lru.tokens - Size(gone(n))]
             fitting == {n \in 0..Len(s) : Fits(After(n).entries, After(n).tokens, maxsize, budget)}
  <1>1. s \in Seq(E) /\ Len(s) \in Nat /\ lru.tokens = Size(s)
    BY DEF Caches, TrueTotal
  <1>2. ASSUME NEW n \in 0..Len(s)
        PROVE  /\ rest(n) \in Seq(E) /\ Len(rest(n)) = Len(s) - n
               /\ \A i \in 1..(Len(s) - n) : rest(n)[i] = s[n + i]
               /\ lru.tokens - Size(gone(n)) = Size(rest(n)) /\ Size(rest(n)) \in Nat
    <2>1. rest(n) \in Seq(E) /\ Len(rest(n)) = Len(s) - n
          /\ \A i \in 1..(Len(s) - n) : rest(n)[i] = s[n + i]
      <3> HIDE DEF s
      <3>1. QED BY <1>1
    <2>2. gone(n) \in Seq(E)
      BY <1>1
    <2>3. s = gone(n) \o rest(n)
      <3>1. 1 \in 1..Len(s) + 1 /\ n \in (1 - 1)..Len(s) /\ Len(s) \in n..Len(s)
        BY <1>1
      <3>2. SubSeq(s, 1, n) \o SubSeq(s, n + 1, Len(s)) = SubSeq(s, 1, Len(s))
        BY <1>1, <3>1, ConcatAdjacentSubSeq
      <3>3. QED BY <1>1, <3>2, SubSeqFull
    <2> HIDE DEF rest, gone
    <2>4. Size(s) = Size(gone(n)) + Size(rest(n))
      BY <2>1, <2>2, <2>3, SizeConcat
    <2>5. Size(gone(n)) \in Nat /\ Size(rest(n)) \in Nat
      BY <2>1, <2>2, SizeBase
    <2>6. QED BY <1>1, <2>1, <2>4, <2>5
  <1>3. Min(fitting) \in fitting
    <2>1. Len(s) \in fitting
      <3>1. Len(s) \in 0..Len(s)
        BY <1>1
      <3>2. rest(Len(s)) = <<>>
        BY <1>1, <1>2, <3>1
      <3>3. Size(rest(Len(s))) = 0 /\ Len(rest(Len(s))) = 0
        BY <3>2, SizeBase
      <3>4. Fits(rest(Len(s)), lru.tokens - Size(gone(Len(s))), maxsize, budget)
        BY <1>2, <3>1, <3>3 DEF Fits
      <3>5. QED BY <3>1, <3>4
    <2>2. fitting \subseteq Nat
      OBVIOUS
    <2> HIDE DEF fitting
    <2>3. \E x \in fitting : \A y \in fitting : x <= y
      BY <2>1, <2>2, Least
    <2>4. QED BY <2>3 DEF Min
  <1> DEFINE m == Min(fitting)
  <1>4. m \in 0..Len(s) /\ Fits(rest(m), lru.tokens - Size(gone(m)), maxsize, budget)
    BY <1>3
  <1>5. Evict(lru, maxsize, budget) = After(m)
    BY DEF Evict
  <1> HIDE DEF m, fitting
  <1>12. /\ rest(m) \in Seq(E) /\ DOMAIN rest(m) = 1..(Len(s) - m) /\ m \in Nat
         /\ \A i \in 1..(Len(s) - m) : rest(m)[i] = s[m + i] /\ m + i \in DOMAIN s
    <2>1. /\ rest(m) \in Seq(E) /\ Len(rest(m)) = Len(s) - m
          /\ \A i \in 1..(Len(s) - m) : rest(m)[i] = s[m + i]
      BY <1>2, <1>4
    <2> HIDE DEF rest
    <2>2. \A i \in 1..(Len(s) - m) : m + i \in 1..Len(s)
      BY <1>1, <1>4
    <2>3. QED BY <1>1, <1>4, <2>1, <2>2
  <1>6. Keyed(rest(m))
    <2> HIDE DEF rest
    <2>1. SUFFICES ASSUME NEW i \in DOMAIN rest(m), NEW j \in DOMAIN rest(m),
                          rest(m)[i].key = rest(m)[j].key
                   PROVE  i = j
      BY DEF Keyed
    <2>2. i \in 1..(Len(s) - m) /\ j \in 1..(Len(s) - m)
      BY <1>12
    <2>3. /\ m + i \in DOMAIN s /\ m + j \in DOMAIN s
          /\ rest(m)[i] = s[m + i] /\ rest(m)[j] = s[m + j]
      BY <1>12, <2>2
    <2>4. m + i = m + j
      BY <2>1, <2>3 DEF Keyed
    <2>5. QED BY <1>12, <2>2, <2>4
  <1>7. \A i \in DOMAIN rest(m) : \E j \in DOMAIN s : rest(m)[i] = s[j]
    <2> HIDE DEF rest
    <2>1. QED BY <1>12
  <1>8. rest(m) \in Seq(E) /\ lru.tokens - Size(gone(m)) = Size(rest(m))
        /\ Size(rest(m)) \in Nat
    BY <1>2, <1>4
  <1> HIDE DEF rest, gone
  <1>9. After(m).entries = rest(m) /\ After(m).tokens = Size(rest(m))
        /\ After(m) \in Caches(E)
    BY <1>8 DEF Caches
  <1> HIDE DEF After
  <1>10. TrueTotal(After(m)) /\ Within(After(m), maxsize, budget)
    BY <1>4, <1>8, <1>9 DEF TrueTotal, Within
  <1>11. QED BY <1>5, <1>6, <1>7, <1>9, <1>10

(* A hit moves its entry and changes nothing else. *)
LEMMA TouchFacts ==
    ASSUME NEW E, Sized(E), NEW lru \in Caches(E), Keyed(lru.entries), NEW key, Has(lru, key),
           NEW new, new = Touch(lru, key)
    PROVE  /\ new \in Caches(E) /\ Keyed(new.entries)
           /\ Entry(lru, key).key = key
           /\ \E j \in DOMAIN lru.entries : Entry(lru, key) = lru.entries[j]
           /\ new.tokens = lru.tokens /\ Len(new.entries) = Len(lru.entries)
           /\ Size(new.entries) = Size(lru.entries)
           /\ \A i \in DOMAIN new.entries : \E j \in DOMAIN lru.entries :
                  new.entries[i] = lru.entries[j]
  <1> DEFINE s == lru.entries
             p == Position(s, key)
             w == RemoveAt(s, p)
  <1>1. s \in Seq(E) /\ Len(s) \in Nat
    BY DEF Caches
  <1>2. \E i \in DOMAIN s : s[i].key = key
    BY DEF Has, Keys
  <1>3. p \in 1..Len(s) /\ s[p].key = key /\ s[p] \in E
    BY <1>1, <1>2 DEF Position
  <1>4. Entry(lru, key) = s[p] /\ Without(s, key) = w
    BY <1>2 DEF Entry, Without
  <1>5. new = [lru EXCEPT !.entries = Append(w, s[p])]
    BY <1>4 DEF Touch
  <1> HIDE DEF p, w
  <1>6. /\ w \in Seq(E) /\ Len(w) = Len(s) - 1 /\ Size(w) = Size(s) - s[p].size
        /\ Keyed(w) /\ \A i \in DOMAIN w : w[i].key # key /\ \E j \in DOMAIN s : w[i] = s[j]
    <2>1. Len(w) = Len(s) - 1 /\ Size(w) = Size(s) - s[p].size
      BY <1>1, <1>3, Removal DEF w
    <2>2. QED BY <1>1, <1>4, <2>1, WithoutFacts
  <1>7. new \in Caches(E) /\ new.entries = Append(w, s[p]) /\ new.tokens = lru.tokens
    <2>1. Append(w, s[p]) \in Seq(E)
      BY <1>3, <1>6
    <2> DEFINE entries == Append(w, s[p])
    <2> HIDE DEF entries
    <2>2. [lru EXCEPT !.entries = entries] = [entries |-> entries, tokens |-> lru.tokens]
      BY DEF Caches
    <2>3. lru.tokens \in Int
      BY DEF Caches
    <2>4. new = [entries |-> entries, tokens |-> lru.tokens] /\ entries \in Seq(E)
      BY <1>5, <2>1, <2>2 DEF entries
    <2>5. new \in Caches(E) /\ new.entries = entries /\ new.tokens = lru.tokens
      BY <2>3, <2>4 DEF Caches
    <2>6. QED BY <2>5 DEF entries
  <1>8. /\ Len(Append(w, s[p])) = Len(w) + 1 /\ Append(w, s[p])[Len(w) + 1] = s[p]
        /\ \A i \in DOMAIN w : Append(w, s[p])[i] = w[i]
        /\ DOMAIN Append(w, s[p]) = DOMAIN w \cup {Len(w) + 1} /\ DOMAIN w = 1..Len(w)
    BY <1>3, <1>6
  <1>9. Keyed(Append(w, s[p]))
    BY <1>3, <1>6, <1>8 DEF Keyed
  <1>10. Size(Append(w, s[p])) = Size(s)
    <2>1. Append(w, s[p]) = w \o <<s[p]>> /\ <<s[p]>> \in Seq(E)
      BY <1>3, <1>6
    <2>2. Size(w \o <<s[p]>>) = Size(w) + Size(<<s[p]>>)
      BY <1>6, <2>1, SizeConcat
    <2>3. Size(<<s[p]>>) = s[p].size /\ s[p].size \in Nat /\ Size(s) \in Nat
      BY <1>1, <1>3, SizeBase DEF Sized
    <2>4. QED BY <1>6, <2>1, <2>2, <2>3
  <1>11. \A i \in DOMAIN Append(w, s[p]) : \E j \in DOMAIN s : Append(w, s[p])[i] = s[j]
    BY <1>1, <1>3, <1>6, <1>8
  <1>12. Len(Append(w, s[p])) = Len(s)
    BY <1>1, <1>6, <1>8
  <1>13. QED BY <1>1, <1>3, <1>4, <1>7, <1>9, <1>10, <1>11, <1>12

(* Admitting keeps the keys apart, the total and both bounds.               *)
LEMMA AdmitFacts ==
    ASSUME NEW E, Sized(E), NEW lru \in Caches(E), Keyed(lru.entries), TrueTotal(lru),
           NEW key, NEW value, NEW size, [key |-> key, value |-> value, size |-> size] \in E,
           NEW maxsize \in Nat, NEW budget \in Nat,
           NEW new, new = Admit(lru, key, value, size, maxsize, budget)
    PROVE  /\ new \in Caches(E) /\ Keyed(new.entries)
           /\ TrueTotal(new) /\ Within(new, maxsize, budget)
           /\ \A i \in DOMAIN new.entries :
                  \/ new.entries[i] = [key |-> key, value |-> value, size |-> size]
                  \/ \E j \in DOMAIN lru.entries : new.entries[i] = lru.entries[j]
  <1> DEFINE s == lru.entries
             w == Without(s, key)
             e == [key |-> key, value |-> value, size |-> size]
             all == [entries |-> Append(w, e), tokens |-> lru.tokens - Replaced(lru, key) + size]
  <1>1. s \in Seq(E) /\ lru.tokens = Size(s) /\ e \in E /\ size \in Nat
    BY DEF Caches, TrueTotal, Sized
  <1>2. /\ w \in Seq(E) /\ Keyed(w)
        /\ \A i \in DOMAIN w : w[i].key # key /\ \E j \in DOMAIN s : w[i] = s[j]
    BY <1>1, WithoutFacts
  <1>3. Size(w) = Size(s) - Replaced(lru, key)
    <2>1. Replaced(lru, key) = IF \E i \in DOMAIN s : s[i].key = key
                               THEN s[Position(s, key)].size ELSE 0
      BY DEF Replaced, Has, Keys, Entry
    <2>2. Size(w) = Size(s) - IF \E i \in DOMAIN s : s[i].key = key
                              THEN s[Position(s, key)].size ELSE 0
      BY <1>1, WithoutFacts
    <2>3. QED BY <2>1, <2>2
  <1>4. new = Evict(all, maxsize, budget)
    BY DEF Admit
  <1>5. e.key = key /\ e.size = size
    OBVIOUS
  <1> HIDE DEF w, e
  <1>6. Append(w, e) \in Seq(E) /\ DOMAIN Append(w, e) = DOMAIN w \cup {Len(w) + 1}
        /\ Append(w, e)[Len(w) + 1] = e /\ \A i \in DOMAIN w : Append(w, e)[i] = w[i]
        /\ DOMAIN w = 1..Len(w)
    BY <1>1, <1>2
  <1>7. Size(Append(w, e)) = lru.tokens - Replaced(lru, key) + size
    <2>1. Append(w, e) = w \o <<e>> /\ <<e>> \in Seq(E)
      BY <1>1, <1>2
    <2>2. Size(w \o <<e>>) = Size(w) + Size(<<e>>)
      BY <1>2, <2>1, SizeConcat
    <2>3. Size(<<e>>) = size /\ Size(w) \in Nat
      BY <1>1, <1>2, <1>5, SizeBase
    <2>4. QED BY <1>1, <1>3, <2>1, <2>2, <2>3
  <1>8. Size(Append(w, e)) \in Nat
    BY <1>6, SizeBase
  <1>9. all \in Caches(E) /\ all.entries = Append(w, e) /\ TrueTotal(all)
    BY <1>6, <1>7, <1>8 DEF Caches, TrueTotal
  <1>10. Keyed(all.entries)
    BY <1>2, <1>5, <1>6, <1>9 DEF Keyed
  <1> HIDE DEF all
  <1>11. \A i \in DOMAIN all.entries : all.entries[i] = e \/ \E j \in DOMAIN s : all.entries[i] = s[j]
    BY <1>2, <1>6, <1>9
  <1>12. /\ new \in Caches(E) /\ Keyed(new.entries)
         /\ TrueTotal(new) /\ Within(new, maxsize, budget)
         /\ \A i \in DOMAIN new.entries : \E j \in DOMAIN all.entries :
                new.entries[i] = all.entries[j]
    <2>1. all \in Caches(E) /\ TrueTotal(all) /\ Keyed(all.entries)
      BY <1>9, <1>10
    <2>2. QED BY <1>4, <2>1, EvictFacts
  <1>13. \A i \in DOMAIN new.entries : new.entries[i] = e \/ \E j \in DOMAIN s : new.entries[i] = s[j]
    BY <1>11, <1>12
  <1>14. QED BY <1>12, <1>13 DEF e

-----------------------------------------------------------------------------
(* The pruned schemas.                                                      *)

(* A hit moves its entry to the end. *)
ToEnd(s, i) == Append(RemoveAt(s, i), s[i])
LEMMA Moved ==
    ASSUME NEW E, NEW s \in Seq(E), Keyed(s), NEW i \in 1..Len(s),
           NEW new, new = ToEnd(s, i)
    PROVE  /\ new \in Seq(E) /\ Len(new) = Len(s) /\ Keyed(new)
           /\ \A k \in DOMAIN new : \E j \in DOMAIN s : new[k] = s[j]
           /\ \A j \in DOMAIN s : \E k \in DOMAIN new : new[k] = s[j]
  <1> DEFINE w == RemoveAt(s, i)
  <1>1. s[i] \in E /\ \E j \in DOMAIN s : s[j].key = s[i].key
    OBVIOUS
  <1>2. Position(s, s[i].key) = i
    BY DEF Position, Keyed
  <1>3. Without(s, s[i].key) = w
    BY <1>1, <1>2 DEF Without
  <1>4. Len(w) = Len(s) - 1 /\ Len(s) \in Nat
    BY Removal
  <1> HIDE DEF w
  <1>5. /\ w \in Seq(E) /\ Keyed(w)
        /\ \A k \in DOMAIN w : w[k].key # s[i].key /\ \E j \in DOMAIN s : w[k] = s[j]
        /\ \A j \in DOMAIN s : s[j].key # s[i].key => \E k \in DOMAIN w : w[k] = s[j]
    BY <1>3, WithoutFacts
  <1>6. /\ new \in Seq(E) /\ Len(new) = Len(w) + 1 /\ new[Len(w) + 1] = s[i]
        /\ DOMAIN new = DOMAIN w \cup {Len(w) + 1} /\ \A k \in DOMAIN w : new[k] = w[k]
    BY <1>1, <1>5 DEF w, ToEnd
  <1>7. Keyed(new)
    BY <1>5, <1>6 DEF Keyed
  <1>8. \A k \in DOMAIN new : \E j \in DOMAIN s : new[k] = s[j]
    BY <1>5, <1>6
  <1>9. ASSUME NEW j \in DOMAIN s PROVE \E k \in DOMAIN new : new[k] = s[j]
    <2>1. CASE s[j].key = s[i].key
      <3>1. j = i
        BY <2>1 DEF Keyed
      <3>2. QED BY <1>6, <3>1
    <2>2. CASE s[j].key # s[i].key
      <3>1. PICK k \in DOMAIN w : w[k] = s[j]
        BY <1>5, <2>2
      <3>2. k \in DOMAIN new /\ new[k] = s[j]
        BY <1>6, <3>1
      <3>3. QED BY <3>2
    <2>3. QED BY <2>1, <2>2
  <1>10. Len(new) = Len(s)
    BY <1>4, <1>6
  <1>11. QED BY <1>6, <1>7, <1>8, <1>9, <1>10

(* A sequence without its first m elements. *)
Beyond(s, m) == SubSeq(s, m + 1, Len(s))
LEMMA BeyondFacts ==
    ASSUME NEW E, NEW s \in Seq(E), NEW m \in 0..Len(s), NEW new, new = Beyond(s, m)
    PROVE  /\ new \in Seq(E) /\ Len(new) = Len(s) - m
           /\ Keyed(s) => Keyed(new)
           /\ \A k \in DOMAIN new : \E j \in DOMAIN s : new[k] = s[j]
           /\ \A j \in DOMAIN s : j \in 1..m \/ \E k \in DOMAIN new : new[k] = s[j]
  <1> SUFFICES /\ new \in Seq(E) /\ Len(new) = Len(s) - m /\ Len(s) \in Nat
               /\ \A k \in 1..(Len(s) - m) : new[k] = s[m + k]
               => /\ new \in Seq(E) /\ Len(new) = Len(s) - m
                  /\ Keyed(s) => Keyed(new)
                  /\ \A k \in DOMAIN new : \E j \in DOMAIN s : new[k] = s[j]
                  /\ \A j \in DOMAIN s : j \in 1..m \/ \E k \in DOMAIN new : new[k] = s[j]
    BY DEF Beyond
  <1>1. SUFFICES ASSUME new \in Seq(E), Len(new) = Len(s) - m, Len(s) \in Nat,
                        \A k \in 1..(Len(s) - m) : new[k] = s[m + k]
                 PROVE  /\ Keyed(s) => Keyed(new)
                        /\ \A k \in DOMAIN new : \E j \in DOMAIN s : new[k] = s[j]
                        /\ \A j \in DOMAIN s :
                               j \in 1..m \/ \E k \in DOMAIN new : new[k] = s[j]
    OBVIOUS
  <1>2. /\ DOMAIN new = 1..(Len(s) - m) /\ m \in Nat
        /\ \A k \in DOMAIN new : k \in Nat /\ m + k \in DOMAIN s /\ new[k] = s[m + k]
    <2>1. DOMAIN new = 1..(Len(s) - m) /\ DOMAIN s = 1..Len(s)
      BY <1>1
    <2>2. \A k \in 1..(Len(s) - m) : k \in Nat /\ m + k \in 1..Len(s)
      BY <1>1
    <2>3. QED BY <1>1, <2>1, <2>2
  <1>3. ASSUME Keyed(s) PROVE Keyed(new)
    <2>1. SUFFICES ASSUME NEW k \in DOMAIN new, NEW j \in DOMAIN new, new[k].key = new[j].key
                   PROVE  k = j
      BY DEF Keyed
    <2>2. m + k = m + j
      BY <1>2, <1>3, <2>1 DEF Keyed
    <2>3. k \in Nat /\ j \in Nat /\ m \in Nat
      BY <1>2
    <2>4. QED BY <2>2, <2>3
  <1>4. ASSUME NEW j \in DOMAIN s PROVE j \in 1..m \/ \E k \in DOMAIN new : new[k] = s[j]
    <2>1. j \in Nat /\ 1 <= j /\ j <= Len(s) /\ m \in Nat
      BY <1>1, <1>2
    <2>2. CASE j <= m
      BY <2>1, <2>2
    <2>3. CASE j > m
      <3>1. j - m \in DOMAIN new /\ m + (j - m) = j
        BY <1>1, <1>2, <2>1, <2>3
      <3>2. new[j - m] = s[j]
        BY <1>2, <3>1
      <3>3. QED BY <3>1, <3>2
    <2>4. QED BY <2>1, <2>2, <2>3
  <1>5. QED BY <1>2, <1>3, <1>4

(* A new entry takes the place of the one of its key; the oldest entries go  *)
(* beyond the bound.                                                        *)
Replacing(s, e) == Append(Without(s, e.key), e)
Oldest(s, n) == {s[k] : k \in 1..n}
LEMMA Stored ==
    ASSUME NEW E, NEW s \in Seq(E), Keyed(s), NEW e \in E, SchemaBound \in Nat,
           NEW all, all = Replacing(s, e), NEW new, new = Beyond(all, Excess(Len(all))),
           NEW gone, gone = Oldest(all, Excess(Len(all)))
    PROVE  /\ new \in Seq(E) /\ Len(new) <= SchemaBound /\ Keyed(new)
           /\ \A k \in DOMAIN new : new[k] = e \/ \E j \in DOMAIN s : new[k] = s[j]
           /\ \A j \in DOMAIN s : s[j].key # e.key =>
                  s[j] \in gone \/ \E k \in DOMAIN new : new[k] = s[j]
           /\ e \in gone \/ \E k \in DOMAIN new : new[k] = e
           /\ gone \subseteq E
  <1> DEFINE w == Without(s, e.key)
             excess == Excess(Len(all))
  <1>1. /\ w \in Seq(E) /\ Keyed(w)
        /\ \A k \in DOMAIN w : w[k].key # e.key /\ \E j \in DOMAIN s : w[k] = s[j]
        /\ \A j \in DOMAIN s : s[j].key # e.key => \E k \in DOMAIN w : w[k] = s[j]
    BY WithoutFacts
  <1>2. all = Append(w, e)
    BY DEF Replacing
  <1> HIDE DEF w
  <1>3. /\ all \in Seq(E) /\ Len(all) = Len(w) + 1 /\ all[Len(w) + 1] = e
        /\ DOMAIN all = DOMAIN w \cup {Len(w) + 1} /\ \A k \in DOMAIN w : all[k] = w[k]
        /\ Len(w) \in Nat /\ DOMAIN w = 1..Len(w)
    BY <1>1, <1>2
  <1>4. Keyed(all)
    BY <1>1, <1>3 DEF Keyed
  <1>5. excess \in 0..Len(all) /\ Len(all) - excess <= SchemaBound
    BY <1>3 DEF Excess
  <1>13. gone = Oldest(all, excess) /\ new = Beyond(all, excess)
    OBVIOUS
  <1> HIDE DEF excess
  <1>6. /\ new \in Seq(E) /\ Len(new) = Len(all) - excess /\ Keyed(new)
        /\ \A k \in DOMAIN new : \E j \in DOMAIN all : new[k] = all[j]
        /\ \A j \in DOMAIN all : j \in 1..excess \/ \E k \in DOMAIN new : new[k] = all[j]
    <2>1. all \in Seq(E) /\ Keyed(all) /\ excess \in 0..Len(all)
      BY <1>3, <1>4, <1>5
    <2>2. QED BY <1>13, <2>1, BeyondFacts
  <1>7. ASSUME NEW k \in DOMAIN new
        PROVE  new[k] = e \/ \E j \in DOMAIN s : new[k] = s[j]
    <2>1. PICK j \in DOMAIN all : new[k] = all[j]
      BY <1>6
    <2>2. QED BY <1>1, <1>3, <2>1
  <1>14. ASSUME NEW j \in DOMAIN all PROVE all[j] \in gone \/ \E k \in DOMAIN new : new[k] = all[j]
    BY <1>6, <1>13 DEF Oldest
  <1>8. ASSUME NEW j \in DOMAIN s, s[j].key # e.key
        PROVE  s[j] \in gone \/ \E k \in DOMAIN new : new[k] = s[j]
    <2>1. PICK k \in DOMAIN w : w[k] = s[j]
      BY <1>1, <1>8
    <2>2. k \in DOMAIN all /\ all[k] = s[j]
      BY <1>3, <2>1
    <2>3. QED BY <1>14, <2>2
  <1>9. e \in gone \/ \E k \in DOMAIN new : new[k] = e
    <2>1. Len(w) + 1 \in DOMAIN all
      BY <1>3
    <2>2. QED BY <1>3, <1>14, <2>1
  <1>10. gone \subseteq E
    <2>1. \A k \in 1..excess : all[k] \in E
      BY <1>3, <1>5
    <2>2. QED BY <1>13, <2>1 DEF Oldest
  <1>11. Len(new) <= SchemaBound
    BY <1>5, <1>6
  <1>12. QED BY <1>6, <1>7, <1>8, <1>9, <1>10, <1>11

-----------------------------------------------------------------------------
(* The inductive invariant, in parts.                                       *)
Stage == {"idle", "select", "wait", "build", "parse", "parsing", "validate", "validating", "done"}
Clock ==
    /\ served \in Full /\ arrived \in 0..MaxRequests /\ built \in 0..MaxBuilds
    /\ limits \in 0..MaxSettings /\ torn \in BOOLEAN
ThreadTypes ==
    /\ buildLock \in Thread \cup {None}
    /\ pc \in [Thread -> Stage]
    /\ request \in [Thread -> Request \cup {None}]
    /\ schema \in [Thread -> Schema \cup {None}]
    /\ \A t \in Thread : pc[t] = "build" <=> buildLock = t

(* A full schema that a request uses, or that is served, has an address of   *)
(* its own, which later ones have not got yet.                              *)
Addresses ==
    /\ addressOf \in [Full -> Address \cup {None}]
    /\ \A f, g \in Full : addressOf[f] = addressOf[g] /\ f # g => addressOf[f] = None
    /\ \A f \in Full : f > served => addressOf[f] = None
    /\ \A f \in Full : InUse(f) => addressOf[f] # None

(* What a thread has in each of its stages; the schema it got is its own,    *)
(* and it is the full one exactly for those who see everything.              *)
Program(t) ==
    /\ pc[t] = "idle" <=> request[t] = None
    /\ pc[t] \in {"idle", "select", "wait", "build"} <=> schema[t] = None
    /\ pc[t] \in {"wait", "build"} => request[t].sig \in Signature
    /\ request[t] # None => request[t].full <= served
    /\ schema[t] # None => /\ schema[t].of = request[t].full /\ schema[t].for = request[t].sig
                           /\ schema[t].n <= built
                           /\ schema[t].n = 0 <=> schema[t].for = Everything
Programs == \A t \in Thread : Program(t)

(* An entry holds what was pruned for its key, from a schema that, while it  *)
(* lives, has the address in the key.                                       *)
Pruned(e) ==
    /\ e.pruned.of = e.ref /\ e.pruned.for = e.key[2] /\ e.ref <= served
    /\ e.pruned.n \in 1..built
    /\ addressOf[e.ref] \in {None, e.key[1]}
Entries ==
    /\ schemas \in Seq(Cached) /\ forgotten \subseteq Schema
    /\ Keyed(schemas) /\ Len(schemas) <= SchemaBound
    /\ \A i \in DOMAIN schemas : Pruned(schemas[i])

Base == Clock /\ ThreadTypes /\ Addresses /\ Programs /\ Entries

LEMMA Constants ==
    /\ MaxSchemas \in Nat \ {0} /\ MaxBuilds \in Nat /\ MaxSettings \in Nat /\ MaxRequests \in Nat
    /\ SchemaBound \in Nat /\ EntryBound \in Nat /\ TokenBudget \in Nat /\ EntryShare \in Nat
    /\ TokensOf \in [Query -> Nat] /\ Everything \notin Signature
    /\ None \notin Thread /\ None \notin Address /\ None \notin Request /\ None \notin Schema
    /\ Full \subseteq Nat \ {0} /\ 1 \in Full
  BY QueryCachesAssumption, NoneAssumption DEF Full

(* A thread in one of the middle stages has a request, whose key the LRU of  *)
(* pruned schemas can hold.                                                 *)
LEMMA Asked ==
    ASSUME Base, NEW t \in Thread, pc[t] # "idle"
    PROVE  /\ request[t] \in Request /\ request[t].full \in Full /\ request[t].full <= served
           /\ addressOf[request[t].full] \in Address
           /\ request[t].sig \in Signature => Key(t) \in Address \X Signature
  <1>1. request[t] \in Request /\ request[t].full <= served
    BY DEF Base, ThreadTypes, Programs, Program
  <1>2. request[t].full \in Full
    BY <1>1 DEF Request
  <1>3. InUse(request[t].full)
    BY <1>1, NoneAssumption DEF InUse, UsedBy
  <1>4. addressOf[request[t].full] \in Address
    BY <1>2, <1>3 DEF Base, Addresses
  <1>5. QED BY <1>1, <1>2, <1>4 DEF Key

(* What a lookup finds. *)
LEMMA HitFacts ==
    ASSUME Base, NEW t \in Thread, pc[t] \in {"select", "wait"}, Hit(t)
    PROVE  /\ schemas' \in Seq(Cached) /\ Len(schemas') = Len(schemas) /\ Keyed(schemas')
           /\ \A k \in DOMAIN schemas' : \E j \in DOMAIN schemas : schemas'[k] = schemas[j]
           /\ \A j \in DOMAIN schemas : \E k \in DOMAIN schemas' : schemas'[k] = schemas[j]
           /\ \E i \in DOMAIN schemas :
                 /\ schema' = [schema EXCEPT ![t] = schemas[i].pruned]
                 /\ schemas[i].pruned \in Schema
                 /\ schemas[i].pruned.of = request[t].full
                 /\ schemas[i].pruned.for = request[t].sig
                 /\ request[t].sig \in Signature
                 /\ schemas[i].pruned.n \in 1..built
  <1>1. PICK i \in Live(t) : /\ schemas' = Append(RemoveAt(schemas, i), schemas[i])
                             /\ schema' = [schema EXCEPT ![t] = schemas[i].pruned]
    BY DEF Hit
  <1>2. i \in 1..Len(schemas) /\ schemas[i] \in Cached /\ schemas \in Seq(Cached) /\ Keyed(schemas)
        /\ schemas[i].key = Key(t) /\ schemas[i].ref = request[t].full /\ Pruned(schemas[i])
    BY DEF Live, Base, Entries
  <1>3. /\ schemas' \in Seq(Cached) /\ Len(schemas') = Len(schemas) /\ Keyed(schemas')
        /\ \A k \in DOMAIN schemas' : \E j \in DOMAIN schemas : schemas'[k] = schemas[j]
        /\ \A j \in DOMAIN schemas : \E k \in DOMAIN schemas' : schemas'[k] = schemas[j]
    <2>1. schemas' = ToEnd(schemas, i)
      BY <1>1 DEF ToEnd
    <2>2. schemas \in Seq(Cached) /\ Keyed(schemas) /\ i \in 1..Len(schemas)
      BY <1>2
    <2>3. QED BY <2>1, <2>2, Moved
  <1>4. schemas[i].key[2] = request[t].sig /\ schemas[i].key[2] \in Signature
        /\ schemas[i].pruned \in Schema
    BY <1>2 DEF Key, Cached
  <1>5. /\ schema' = [schema EXCEPT ![t] = schemas[i].pruned]
        /\ schemas[i].pruned \in Schema /\ i \in DOMAIN schemas
        /\ schemas[i].pruned.of = request[t].full
        /\ schemas[i].pruned.for = request[t].sig
        /\ request[t].sig \in Signature
        /\ schemas[i].pruned.n \in 1..built
    BY <1>1, <1>2, <1>4 DEF Pruned
  <1>6. QED BY <1>3, <1>5

LEMMA MissFacts ==
    ASSUME Base, NEW t \in Thread, Miss(t)
    PROVE  /\ Live(t) = {}
           /\ schemas' \in Seq(Cached) /\ Len(schemas') <= Len(schemas) /\ Keyed(schemas')
           /\ \A k \in DOMAIN schemas' : \E j \in DOMAIN schemas : schemas'[k] = schemas[j]
           /\ \A j \in DOMAIN schemas :
                 schemas[j].key # Key(t) => \E k \in DOMAIN schemas' : schemas'[k] = schemas[j]
           /\ \A k \in DOMAIN schemas' : schemas'[k].key # Key(t)
  <1>1. schemas \in Seq(Cached) /\ Keyed(schemas) /\ schemas' = Without(schemas, Key(t))
        /\ Live(t) = {}
    BY DEF Base, Entries, Miss
  <1>2. QED BY <1>1, WithoutFacts

(* What a build makes, and its entry. *)
NewSchema(t) == [of |-> request[t].full, for |-> request[t].sig, n |-> built + 1]
NewEntry(t) == [key |-> Key(t), ref |-> request[t].full, pruned |-> NewSchema(t)]

LEMMA BuildFacts ==
    ASSUME Base, NEW t \in Thread, Build(t),
           NEW p, p = NewSchema(t), NEW e, e = NewEntry(t)
    PROVE  /\ schema' = [schema EXCEPT ![t] = p] /\ schema'[t] = p
           /\ p \in Schema /\ e \in Cached /\ built + 1 \in 0..MaxBuilds
           /\ request[t].sig \in Signature
           /\ schemas' \in Seq(Cached) /\ Len(schemas') <= SchemaBound /\ Keyed(schemas')
           /\ \A k \in DOMAIN schemas' :
                 schemas'[k] = e \/ \E j \in DOMAIN schemas : schemas'[k] = schemas[j]
           /\ \A j \in DOMAIN schemas : schemas[j].key # Key(t) =>
                 \/ \E k \in DOMAIN schemas' : schemas'[k] = schemas[j]
                 \/ schemas[j].pruned \in forgotten'
           /\ (\E k \in DOMAIN schemas' : schemas'[k] = e) \/ p \in forgotten'
           /\ forgotten \subseteq forgotten' /\ forgotten' \subseteq Schema
  <1> DEFINE all == Append(Without(schemas, Key(t)), e)
             gone == Oldest(all, Excess(Len(all)))
  <1>1. /\ pc[t] = "build" /\ built' = built + 1 /\ built < MaxBuilds
        /\ built \in Nat /\ MaxBuilds \in Nat
    BY Constants DEF Build, Base, Clock
  <1>2. /\ request[t] \in Request /\ request[t].full \in Full /\ request[t].sig \in Signature
        /\ Key(t) \in Address \X Signature
    <2>1. request[t].sig \in Signature
      BY <1>1 DEF Base, Programs, Program
    <2>2. QED BY <1>1, <2>1, Asked
  <1>3. p \in Schema /\ built + 1 \in 0..MaxBuilds
    BY <1>1, <1>2 DEF Schema, NewSchema
  <1>4. e \in Cached
    BY <1>2, <1>3 DEF Cached, NewEntry
  <1>5. schema' = [schema EXCEPT ![t] = p] /\ schema'[t] = p
    <2>1. schema' = [schema EXCEPT ![t] = p]
      BY <1>1 DEF Build, NewSchema
    <2>2. t \in DOMAIN schema
      BY DEF Base, ThreadTypes
    <2>3. QED BY <2>1, <2>2
  <1>6. /\ schemas' = Beyond(all, Excess(Len(all)))
        /\ forgotten' = forgotten \cup {x.pruned : x \in gone}
    <2> DEFINE raw == Append(Without(schemas, Key(t)), [key |-> Key(t), ref |-> request[t].full,
                                                        pruned |-> schema'[t]])
    <2>1. /\ schemas' = SubSeq(raw, Excess(Len(raw)) + 1, Len(raw))
          /\ forgotten' = forgotten \cup {raw[i].pruned : i \in 1..Excess(Len(raw))}
      BY DEF Build
    <2>2. raw = all
      BY <1>5 DEF NewEntry
    <2> HIDE DEF raw, all
    <2>3. forgotten' = forgotten \cup {all[i].pruned : i \in 1..Excess(Len(all))}
      BY <2>1, <2>2
    <2>4. {all[i].pruned : i \in 1..Excess(Len(all))} = {x.pruned : x \in gone}
      BY DEF Oldest
    <2>5. QED BY <2>1, <2>2, <2>3, <2>4 DEF Beyond
  <1>7. e.key = Key(t) /\ e.pruned = p
    BY DEF NewEntry
  <1> HIDE DEF gone
  <1>8. /\ schemas' \in Seq(Cached) /\ Len(schemas') <= SchemaBound /\ Keyed(schemas')
        /\ \A k \in DOMAIN schemas' :
              schemas'[k] = e \/ \E j \in DOMAIN schemas : schemas'[k] = schemas[j]
        /\ \A j \in DOMAIN schemas : schemas[j].key # e.key =>
              schemas[j] \in gone \/ \E k \in DOMAIN schemas' : schemas'[k] = schemas[j]
        /\ e \in gone \/ \E k \in DOMAIN schemas' : schemas'[k] = e
        /\ gone \subseteq Cached
    <2>1. schemas \in Seq(Cached) /\ Keyed(schemas) /\ SchemaBound \in Nat
      BY Constants DEF Base, Entries
    <2>2. all = Replacing(schemas, e)
      BY <1>7 DEF Replacing
    <2>3. schemas' = Beyond(all, Excess(Len(all)))
      BY <1>6
    <2>4. gone = Oldest(all, Excess(Len(all)))
      BY DEF gone
    <2> HIDE DEF all
    <2>5. schemas' \in Seq(Cached)
      BY <1>4, <2>1, <2>2, <2>3, <2>4, Stored
    <2>6. Len(schemas') <= SchemaBound /\ Keyed(schemas')
      BY <1>4, <2>1, <2>2, <2>3, <2>4, Stored
    <2>7. \A k \in DOMAIN schemas' :
              schemas'[k] = e \/ \E j \in DOMAIN schemas : schemas'[k] = schemas[j]
      BY <1>4, <2>1, <2>2, <2>3, <2>4, Stored
    <2>8. \A j \in DOMAIN schemas : schemas[j].key # e.key =>
              schemas[j] \in gone \/ \E k \in DOMAIN schemas' : schemas'[k] = schemas[j]
      <3>1. ASSUME NEW x \in Cached, all = Replacing(schemas, x)
            PROVE  \A j \in DOMAIN schemas : schemas[j].key # x.key =>
                       schemas[j] \in gone \/ \E k \in DOMAIN schemas' : schemas'[k] = schemas[j]
        BY <2>1, <2>3, <2>4, <3>1, Stored
      <3>2. QED BY <1>4, <2>2, <3>1
    <2>9. gone \subseteq Cached
      BY <1>4, <2>1, <2>2, <2>3, <2>4, Stored
    <2>10. e \in gone \/ \E k \in DOMAIN schemas' : schemas'[k] = e
      BY <1>4, <2>1, <2>2, <2>3, <2>4, Stored
    <2>11. QED BY <2>5, <2>6, <2>7, <2>8, <2>9, <2>10
  <1> HIDE DEF all
  <1>9. \A x \in gone : x.pruned \in forgotten' /\ x.pruned \in Schema
    BY <1>6, <1>8 DEF Cached
  <1>10. forgotten \subseteq forgotten' /\ forgotten' \subseteq Schema
    BY <1>6, <1>9 DEF Base, Entries
  <1>11. \A j \in DOMAIN schemas : schemas[j].key # Key(t) =>
            \/ \E k \in DOMAIN schemas' : schemas'[k] = schemas[j]
            \/ schemas[j].pruned \in forgotten'
    BY <1>7, <1>8, <1>9
  <1>12. (\E k \in DOMAIN schemas' : schemas'[k] = e) \/ p \in forgotten'
    BY <1>7, <1>8, <1>9
  <1>13. QED BY <1>2, <1>3, <1>4, <1>5, <1>8, <1>10, <1>11, <1>12

LEMMA ClockStep ==
    ASSUME Base, Next
    PROVE  Clock' /\ served <= served' /\ built <= built'
  <1>1. /\ served \in Full /\ arrived \in 0..MaxRequests /\ built \in 0..MaxBuilds
        /\ limits \in 0..MaxSettings /\ torn \in BOOLEAN /\ Full \subseteq Nat
        /\ MaxBuilds \in Nat /\ MaxRequests \in Nat /\ MaxSettings \in Nat
    BY Constants DEF Base, Clock
  <1>2. ASSUME NEW t \in Thread, Arrive(t) PROVE Clock' /\ served <= served' /\ built <= built'
    BY <1>1, <1>2 DEF Arrive, Clock
  <1>3. ASSUME NEW t \in Thread, Build(t) PROVE Clock' /\ served <= served' /\ built <= built'
    BY <1>1, <1>3 DEF Build, Clock
  <1>4. ASSUME NEW f \in Full, NEW a \in Address, Serve(f, a)
        PROVE  Clock' /\ served <= served' /\ built <= built'
    BY <1>1, <1>4 DEF Serve, Clock
  <1>5. CASE SetLimits
    BY <1>1, <1>5 DEF SetLimits, Clock
  <1>6. CASE UNCHANGED <<served, arrived, built, limits, torn>>
    BY <1>1, <1>6 DEF Clock
  <1>7. ASSUME NEW t \in Thread, Select(t) \/ Acquire(t) \/ GiveUp(t)
        PROVE  UNCHANGED <<served, arrived, built, limits, torn>>
    BY <1>7 DEF Select, Acquire, GiveUp
  <1>8. ASSUME NEW t \in Thread,
               Parse(t) \/ AdmitDocument(t) \/ Validate(t) \/ Judge(t) \/ Answer(t)
        PROVE  UNCHANGED <<served, arrived, built, limits, torn>>
    BY <1>8 DEF Parse, AdmitDocument, Validate, Judge, Answer
  <1>9. CASE Clear \/ ClearDocuments
    BY <1>6, <1>9 DEF Clear, ClearDocuments
  <1>10. QED BY <1>2, <1>3, <1>4, <1>5, <1>6, <1>7, <1>8, <1>9 DEF Next

LEMMA ThreadTypesStep ==
    ASSUME Base, Next
    PROVE  ThreadTypes'
  <1> USE DEF ThreadTypes, Stage
  <1>1. /\ buildLock \in Thread \cup {None} /\ None \notin Thread
        /\ pc \in [Thread -> Stage]
        /\ request \in [Thread -> Request \cup {None}]
        /\ schema \in [Thread -> Schema \cup {None}]
        /\ \A t \in Thread : pc[t] = "build" <=> buildLock = t
    BY Constants DEF Base
  <1>2. ASSUME NEW t \in Thread, Arrive(t) PROVE ThreadTypes'
    <2>1. PICK sig \in Signature \cup {Everything}, q \in Query :
              request' = [request EXCEPT ![t] = [full |-> served, sig |-> sig, query |-> q,
                                                 key |-> 0, limits |-> 0]]
      BY <1>2 DEF Arrive
    <2>2. [full |-> served, sig |-> sig, query |-> q, key |-> 0, limits |-> 0] \in Request
      BY Constants DEF Base, Clock, Request
    <2>3. /\ pc[t] = "idle" /\ pc' = [pc EXCEPT ![t] = "select"]
          /\ UNCHANGED <<buildLock, schema>>
      BY <1>2 DEF Arrive, caches
    <2>4. request' \in [Thread -> Request \cup {None}]
      BY <1>1, <2>1, <2>2
    <2>5. QED BY <1>1, <2>3, <2>4
  <1>3. ASSUME NEW t \in Thread, Select(t) PROVE ThreadTypes'
    <2>1. /\ pc[t] = "select" /\ UNCHANGED <<buildLock, request>>
          /\ \E new \in {"parse", "wait"} : pc' = [pc EXCEPT ![t] = new]
      BY <1>3 DEF Select
    <2>2. schema' \in [Thread -> Schema \cup {None}]
      <3>1. CASE request[t].sig = Everything
        <4>1. request[t].full \in Full
          BY <2>1, Asked
        <4>2. FullSchema(request[t].full) \in Schema
          BY <4>1, Constants DEF FullSchema, Schema
        <4>3. schema' = [schema EXCEPT ![t] = FullSchema(request[t].full)]
          BY <1>3, <3>1 DEF Select
        <4>4. QED BY <1>1, <4>2, <4>3
      <3>2. CASE Hit(t)
        <4>1. \E o \in Schema : schema' = [schema EXCEPT ![t] = o]
          BY <2>1, <3>2, HitFacts
        <4>2. QED BY <1>1, <4>1
      <3>3. CASE UNCHANGED schema
        BY <1>1, <3>3
      <3>4. QED BY <1>3, <3>1, <3>2, <3>3 DEF Select
    <2>3. QED BY <1>1, <2>1, <2>2
  <1>4. ASSUME NEW t \in Thread, Acquire(t) PROVE ThreadTypes'
    <2>1. /\ pc[t] = "wait" /\ buildLock = None /\ UNCHANGED request
          /\ \/ Hit(t) /\ pc' = [pc EXCEPT ![t] = "parse"] /\ UNCHANGED buildLock
             \/ pc' = [pc EXCEPT ![t] = "build"] /\ buildLock' = t /\ UNCHANGED schema
      BY <1>4 DEF Acquire, SecondLook
    <2>2. CASE Hit(t) /\ pc' = [pc EXCEPT ![t] = "parse"] /\ UNCHANGED buildLock
      <3>1. \E o \in Schema : schema' = [schema EXCEPT ![t] = o]
        BY <2>1, <2>2, HitFacts
      <3>2. schema' \in [Thread -> Schema \cup {None}]
        BY <1>1, <3>1
      <3>3. QED BY <1>1, <2>1, <2>2, <3>2
    <2>3. CASE pc' = [pc EXCEPT ![t] = "build"] /\ buildLock' = t /\ UNCHANGED schema
      BY <1>1, <2>1, <2>3
    <2>4. QED BY <2>1, <2>2, <2>3
  <1>5. ASSUME NEW t \in Thread, Build(t) PROVE ThreadTypes'
    <2>1. /\ pc[t] = "build" /\ buildLock' = None /\ pc' = [pc EXCEPT ![t] = "parse"]
          /\ UNCHANGED request
      BY <1>5 DEF Build
    <2>2. \E o \in Schema : schema' = [schema EXCEPT ![t] = o]
      <3>1. NewSchema(t) \in Schema /\ schema' = [schema EXCEPT ![t] = NewSchema(t)]
        BY <1>5, BuildFacts
      <3>2. QED BY <3>1
    <2>3. schema' \in [Thread -> Schema \cup {None}]
      BY <1>1, <2>2
    <2>4. QED BY <1>1, <2>1, <2>3
  <1>6. ASSUME NEW t \in Thread, GiveUp(t) PROVE ThreadTypes'
    BY <1>1, <1>6 DEF GiveUp
  <1>7. ASSUME NEW t \in Thread, Parse(t) \/ AdmitDocument(t) PROVE ThreadTypes'
    <2>1. /\ pc[t] \in {"parse", "parsing"} /\ UNCHANGED <<buildLock, request, schema>>
          /\ \E new \in {"parsing", "validate"} : pc' = [pc EXCEPT ![t] = new]
      BY <1>7 DEF Parse, AdmitDocument
    <2>2. QED BY <1>1, <2>1
  <1>8. ASSUME NEW t \in Thread, Validate(t) PROVE ThreadTypes'
    <2>1. /\ pc[t] = "validate" /\ UNCHANGED <<buildLock, schema>>
          /\ request' = [request EXCEPT ![t].key = limits, ![t].limits = limits]
          /\ \E new \in {"done", "validating"} : pc' = [pc EXCEPT ![t] = new]
      BY <1>8 DEF Validate, LimitsKey
    <2>2. request' \in [Thread -> Request \cup {None}]
      <3>1. request[t] \in Request /\ limits \in 0..MaxSettings
        BY <2>1, Asked DEF Base, Clock
      <3>2. [request[t] EXCEPT !.key = limits, !.limits = limits] \in Request
        BY <3>1 DEF Request
      <3>3. request' = [request EXCEPT ![t] = [request[t] EXCEPT !.key = limits, !.limits = limits]]
        BY <1>1, <2>1
      <3>4. QED BY <1>1, <3>2, <3>3
    <2>3. QED BY <1>1, <2>1, <2>2
  <1>9. ASSUME NEW t \in Thread, Judge(t) \/ Answer(t) PROVE ThreadTypes'
    <2>1. /\ pc[t] \in {"validating", "done"} /\ UNCHANGED buildLock
          /\ request' = request \/ request' = [request EXCEPT ![t] = None]
          /\ schema' = schema \/ schema' = [schema EXCEPT ![t] = None]
          /\ \E new \in {"done", "idle"} : pc' = [pc EXCEPT ![t] = new]
      BY <1>9 DEF Judge, Answer
    <2>2. QED BY <1>1, <2>1
  <1>10. CASE UNCHANGED <<buildLock, pc, request, schema>>
    BY <1>1, <1>10
  <1>11. CASE Clear \/ ClearDocuments \/ SetLimits
    BY <1>10, <1>11 DEF Clear, ClearDocuments, SetLimits, threads, caches
  <1>12. ASSUME NEW f \in Full, NEW a \in Address, Serve(f, a) PROVE ThreadTypes'
    BY <1>10, <1>12 DEF Serve, threads
  <1>13. QED
    BY <1>2, <1>3, <1>4, <1>5, <1>6, <1>7, <1>8, <1>9, <1>11, <1>12 DEF Next

LEMMA AddressesStep ==
    ASSUME Base, Next
    PROVE  Addresses'
  <1>1. /\ served \in Full /\ Full \subseteq Nat /\ None \notin Address /\ None \notin Request
        /\ addressOf \in [Full -> Address \cup {None}]
        /\ \A f, g \in Full : addressOf[f] = addressOf[g] /\ f # g => addressOf[f] = None
        /\ \A f \in Full : f > served => addressOf[f] = None
        /\ \A f \in Full : InUse(f) => addressOf[f] # None
        /\ request \in [Thread -> Request \cup {None}]
    BY Constants DEF Base, Clock, ThreadTypes, Addresses
  <1>2. CASE /\ UNCHANGED <<addressOf, served>>
             /\ \A t \in Thread : \/ request'[t] = None
                                  \/ request[t] # None /\ request'[t].full = request[t].full
                                  \/ request'[t].full = served
    <2>1. ASSUME NEW f \in Full, InUse(f)' PROVE InUse(f)
      BY <1>2, <2>1 DEF InUse, UsedBy
    <2>2. QED BY <1>1, <1>2, <2>1 DEF Addresses
  <1>3. ASSUME NEW f \in Full, NEW a \in Address, Serve(f, a) PROVE Addresses'
    <2> DEFINE remaining == [g \in Full |-> IF UsedBy(g) = {} THEN None ELSE addressOf[g]]
    <2>1. /\ f = served + 1 /\ served' = f /\ UNCHANGED request
          /\ \A g \in Full : remaining[g] # a
          /\ addressOf' = [remaining EXCEPT ![f] = a]
      BY <1>3 DEF Serve, threads
    <2>2. ASSUME NEW g \in Full
          PROVE  /\ remaining[g] \in {None, addressOf[g]}
                 /\ UsedBy(g) # {} => remaining[g] = addressOf[g]
                 /\ addressOf'[g] = IF g = f THEN a ELSE remaining[g]
      BY <2>1
    <2>3. remaining \in [Full -> Address \cup {None}]
      BY <1>1
    <2>4. addressOf' \in [Full -> Address \cup {None}]
      BY <2>1, <2>3
    <2>5. \A g, h \in Full : addressOf'[g] = addressOf'[h] /\ g # h => addressOf'[g] = None
      <3> HIDE DEF remaining
      <3>1. ASSUME NEW g \in Full, NEW h \in Full, addressOf'[g] = addressOf'[h], g # h
            PROVE  addressOf'[g] = None
        <4>1. CASE g = f
          BY <2>1, <2>2, <3>1, <4>1
        <4>2. CASE h = f
          BY <2>1, <2>2, <3>1, <4>2
        <4>3. CASE g # f /\ h # f
          BY <1>1, <2>2, <3>1, <4>3
        <4>4. QED BY <4>1, <4>2, <4>3
      <3>2. QED BY <3>1
    <2>6. \A g \in Full : g > served' => addressOf'[g] = None
      <3> HIDE DEF remaining
      <3>1. QED BY <1>1, <2>1, <2>2
    <2>7. ASSUME NEW g \in Full, InUse(g)' PROVE addressOf'[g] # None
      <3>1. g = f \/ UsedBy(g) # {}
        BY <2>1, <2>7 DEF InUse, UsedBy
      <3>2. UsedBy(g) # {} => addressOf[g] # None
        BY <1>1 DEF InUse
      <3> HIDE DEF remaining
      <3>3. QED BY <1>1, <2>2, <3>1, <3>2
    <2>8. QED BY <2>4, <2>5, <2>6, <2>7 DEF Addresses
  <1>4. ASSUME NEW t \in Thread, Arrive(t) PROVE Addresses'
    <2>1. /\ UNCHANGED <<addressOf, served>>
          /\ \E sig \in Signature \cup {Everything}, q \in Query :
                 request' = [request EXCEPT ![t] = [full |-> served, sig |-> sig, query |-> q,
                                                    key |-> 0, limits |-> 0]]
      BY <1>4 DEF Arrive
    <2>2. ASSUME NEW u \in Thread
          PROVE  \/ request'[u] = None
                 \/ request[u] # None /\ request'[u].full = request[u].full
                 \/ request'[u].full = served
      BY <1>1, <2>1
    <2>3. QED BY <1>2, <2>1, <2>2
  <1>5. CASE UNCHANGED <<addressOf, served, request>>
    BY <1>2, <1>5
  <1>6. ASSUME NEW t \in Thread, Select(t) \/ Acquire(t) \/ Build(t) PROVE Addresses'
    BY <1>5, <1>6 DEF Select, Acquire, Build
  <1>7. ASSUME NEW t \in Thread, Parse(t) \/ AdmitDocument(t) \/ Judge(t) PROVE Addresses'
    BY <1>5, <1>7 DEF Parse, AdmitDocument, Judge
  <1>8. ASSUME NEW t \in Thread, GiveUp(t) \/ Answer(t) PROVE Addresses'
    <2>1. UNCHANGED <<addressOf, served>> /\ request' = [request EXCEPT ![t] = None]
      BY <1>8 DEF GiveUp, Answer
    <2>2. ASSUME NEW u \in Thread
          PROVE  \/ request'[u] = None
                 \/ request[u] # None /\ request'[u].full = request[u].full
      BY <1>1, <2>1
    <2>3. QED BY <1>2, <2>1, <2>2
  <1>9. ASSUME NEW t \in Thread, Validate(t) PROVE Addresses'
    <2>1. /\ UNCHANGED <<addressOf, served>> /\ pc[t] = "validate"
          /\ request' = [request EXCEPT ![t].key = LimitsKey, ![t].limits = limits]
      BY <1>9 DEF Validate
    <2>2. request[t] \in Request
      BY <2>1, Asked
    <2>3. ASSUME NEW u \in Thread
          PROVE  \/ request'[u] = None
                 \/ request[u] # None /\ request'[u].full = request[u].full
      BY <1>1, <2>1, <2>2 DEF Request
    <2>4. QED BY <1>2, <2>1, <2>3
  <1>10. CASE Clear \/ ClearDocuments \/ SetLimits
    BY <1>5, <1>10 DEF Clear, ClearDocuments, SetLimits, threads, caches
  <1>11. QED BY <1>3, <1>4, <1>6, <1>7, <1>8, <1>9, <1>10 DEF Next

LEMMA ProgramsStep ==
    ASSUME Base, Next
    PROVE  Programs'
  <1>1. /\ pc \in [Thread -> Stage] /\ request \in [Thread -> Request \cup {None}]
        /\ schema \in [Thread -> Schema \cup {None}]
        /\ None \notin Request /\ None \notin Schema /\ Full \subseteq Nat
        /\ served \in Full /\ served' \in Full /\ served <= served'
        /\ built \in Nat /\ built' \in Nat /\ built <= built'
        /\ \A u \in Thread : Program(u)
    BY ClockStep, Constants DEF Base, Clock, ThreadTypes, Programs
  <1>2. ASSUME NEW u \in Thread, pc'[u] = pc[u], request'[u] = request[u], schema'[u] = schema[u]
        PROVE  Program(u)'
    <2>1. request[u] # None => request[u].full \in Nat
      BY <1>1 DEF Request
    <2>2. schema[u] # None => schema[u].n \in 0..MaxBuilds
      BY <1>1 DEF Schema
    <2>3. schema[u] # None => schema[u].n \in Nat
      BY <2>2, Constants
    <2>4. Program(u) /\ served \in Nat /\ served' \in Nat
      BY <1>1
    <2>5. QED BY <1>1, <1>2, <2>1, <2>3, <2>4 DEF Program
  <1>3. ASSUME NEW t \in Thread, NEW u \in Thread, u # t,
               Arrive(t) \/ Select(t) \/ Acquire(t) \/ Build(t) \/ GiveUp(t)
        PROVE  pc'[u] = pc[u] /\ request'[u] = request[u] /\ schema'[u] = schema[u]
    BY <1>1, <1>3 DEF Arrive, Select, Acquire, SecondLook, Hit, Build, GiveUp
  <1>4. ASSUME NEW t \in Thread, NEW u \in Thread, u # t,
               Parse(t) \/ AdmitDocument(t) \/ Validate(t) \/ Judge(t) \/ Answer(t)
        PROVE  pc'[u] = pc[u] /\ request'[u] = request[u] /\ schema'[u] = schema[u]
    BY <1>1, <1>4 DEF Parse, AdmitDocument, Validate, Judge, Answer
  <1>5. ASSUME NEW t \in Thread, Arrive(t) PROVE Program(t)'
    <2>1. PICK sig \in Signature \cup {Everything}, q \in Query :
              request' = [request EXCEPT ![t] = [full |-> served, sig |-> sig, query |-> q,
                                                 key |-> 0, limits |-> 0]]
      BY <1>5 DEF Arrive
    <2>2. [full |-> served, sig |-> sig, query |-> q, key |-> 0, limits |-> 0] \in Request
      BY Constants DEF Base, Clock, Request
    <2>3. /\ pc[t] = "idle" /\ pc'[t] = "select" /\ schema'[t] = schema[t] /\ served' = served
          /\ request'[t] # None /\ request'[t].full = served
      BY <1>1, <1>5, <2>1, <2>2 DEF Arrive
    <2>4. QED BY <1>1, <2>3 DEF Program
  <1>6. ASSUME NEW t \in Thread, pc[t] # "idle", request'[t] = request[t], schema[t] = None,
               schema'[t] # None, schema'[t].of = request[t].full, schema'[t].for = request[t].sig,
               schema'[t].n <= built', schema'[t].n = 0 <=> request[t].sig = Everything,
               pc'[t] = "parse"
        PROVE  Program(t)'
    <2>1. request[t] \in Request /\ request[t].full \in Nat /\ request[t].full <= served
      BY <1>1, <1>6, Asked
    <2>2. request[t] # None /\ request[t].full <= served'
      BY <1>1, <2>1
    <2>3. request'[t] # None /\ request'[t].full <= served'
      BY <1>6, <2>2
    <2>4. QED BY <1>6, <2>3 DEF Program
  <1>7. ASSUME NEW t \in Thread, pc[t] # "idle", Hit(t), pc[t] \in {"select", "wait"},
               request'[t] = request[t], built' = built, pc'[t] = "parse"
        PROVE  Program(t)'
    <2>1. schema[t] = None
      BY <1>1, <1>7 DEF Program
    <2>2. PICK i \in DOMAIN schemas :
             /\ schema' = [schema EXCEPT ![t] = schemas[i].pruned]
             /\ schemas[i].pruned \in Schema
             /\ schemas[i].pruned.of = request[t].full
             /\ schemas[i].pruned.for = request[t].sig
             /\ request[t].sig \in Signature
             /\ schemas[i].pruned.n \in 1..built
      BY <1>7, HitFacts
    <2>3. schema'[t] = schemas[i].pruned /\ request[t].sig # Everything
      BY <1>1, <2>2, Constants
    <2>4. schema'[t].n <= built' /\ schema'[t].n # 0
      BY <1>1, <1>7, <2>2, <2>3
    <2>5. QED BY <1>1, <1>6, <1>7, <2>1, <2>2, <2>3, <2>4
  <1>8. ASSUME NEW t \in Thread, Select(t) PROVE Program(t)'
    <2>1. /\ pc[t] = "select" /\ request' = request /\ built' = built /\ served' = served
          /\ schema[t] = None /\ request[t] \in Request
      BY <1>1, <1>8, Asked DEF Select, Program
    <2>2. CASE request[t].sig = Everything
      <3>1. schema'[t] = FullSchema(request[t].full) /\ pc'[t] = "parse"
        BY <1>1, <1>8, <2>2 DEF Select
      <3>2. request[t].full \in Full
        BY <2>1 DEF Request
      <3>3. FullSchema(request[t].full) \in Schema
        BY <3>2, Constants DEF FullSchema, Schema
      <3>4. QED BY <1>1, <1>6, <2>1, <2>2, <3>1, <3>3 DEF FullSchema
    <2>3. CASE Hit(t) /\ pc' = [pc EXCEPT ![t] = "parse"]
      BY <1>1, <1>7, <2>1, <2>3
    <2>4. CASE request[t].sig # Everything /\ pc' = [pc EXCEPT ![t] = "wait"] /\ UNCHANGED schema
      <3>1. request[t].sig \in Signature
        BY <2>1, <2>4 DEF Request
      <3>2. pc'[t] = "wait" /\ request'[t] = request[t] /\ schema'[t] = None
        BY <1>1, <2>1, <2>4
      <3>3. QED BY <1>1, <2>1, <3>1, <3>2 DEF Program
    <2>5. QED BY <1>8, <2>2, <2>3, <2>4 DEF Select
  <1>9. ASSUME NEW t \in Thread, Acquire(t) PROVE Program(t)'
    <2>1. /\ pc[t] = "wait" /\ request' = request /\ built' = built /\ served' = served
          /\ schema[t] = None /\ request[t].sig \in Signature
      BY <1>1, <1>9 DEF Acquire, Program
    <2>2. CASE Hit(t) /\ pc' = [pc EXCEPT ![t] = "parse"]
      BY <1>1, <1>7, <2>1, <2>2
    <2>3. CASE pc' = [pc EXCEPT ![t] = "build"] /\ UNCHANGED schema
      <3>1. pc'[t] = "build" /\ request'[t] = request[t] /\ schema'[t] = None
        BY <1>1, <2>1, <2>3
      <3>2. QED BY <1>1, <2>1, <3>1 DEF Program
    <2>4. QED BY <1>9, <2>2, <2>3 DEF Acquire, SecondLook
  <1>10. ASSUME NEW t \in Thread, Build(t) PROVE Program(t)'
    <2> DEFINE p == NewSchema(t)
    <2>1. p \in Schema /\ schema' = [schema EXCEPT ![t] = p] /\ request[t].sig \in Signature
      BY <1>10, BuildFacts
    <2>2. /\ pc[t] = "build" /\ pc'[t] = "parse" /\ request'[t] = request[t] /\ built' = built + 1
      BY <1>1, <1>10 DEF Build
    <2>3. p.of = request[t].full /\ p.for = request[t].sig /\ p.n = built + 1
      BY DEF NewSchema
    <2> HIDE DEF p
    <2>4. schema'[t] = p /\ p # None /\ request[t].sig # Everything
      BY <1>1, <2>1, Constants
    <2>5. schema[t] = None /\ p.n # 0 /\ p.n <= built'
      BY <1>1, <2>2, <2>3 DEF Program
    <2>6. QED BY <1>6, <2>2, <2>3, <2>4, <2>5
  <1>11. ASSUME NEW t \in Thread, GiveUp(t) \/ Answer(t) PROVE Program(t)'
    <2>1. pc'[t] = "idle" /\ request'[t] = None /\ schema'[t] = None
      BY <1>1, <1>11 DEF GiveUp, Answer
    <2>2. QED BY <2>1 DEF Program
  <1>12. ASSUME NEW t \in Thread, pc[t] \in {"parse", "parsing", "validate", "validating"},
                pc'[t] \in {"parsing", "validate", "validating", "done"},
                request'[t] # None, request'[t].full = request[t].full,
                request'[t].sig = request[t].sig, schema'[t] = schema[t], served' = served,
                built' = built
         PROVE  Program(t)'
    <2>1. request[t] \in Request /\ Program(t)
      BY <1>1, <1>12, Asked
    <2>2. QED BY <1>1, <1>12, <2>1 DEF Program
  <1>13. ASSUME NEW t \in Thread, Parse(t) \/ AdmitDocument(t) \/ Judge(t) PROVE Program(t)'
    <2>1. /\ pc[t] \in {"parse", "parsing", "validating"} /\ request' = request /\ schema' = schema
          /\ pc'[t] \in {"parsing", "validate", "done"} /\ built' = built /\ served' = served
      BY <1>1, <1>13 DEF Parse, AdmitDocument, Judge
    <2>2. request[t] \in Request
      BY <2>1, Asked
    <2>3. QED BY <1>1, <1>12, <2>1, <2>2
  <1>14. ASSUME NEW t \in Thread, Validate(t) PROVE Program(t)'
    <2>1. /\ pc[t] = "validate" /\ schema' = schema /\ built' = built /\ served' = served
          /\ request' = [request EXCEPT ![t].key = LimitsKey, ![t].limits = limits]
          /\ pc'[t] \in {"done", "validating"}
      BY <1>1, <1>14 DEF Validate
    <2>2. request[t] \in Request
      BY <2>1, Asked
    <2>3. request'[t].full = request[t].full /\ request'[t].sig = request[t].sig
      BY <1>1, <2>1, <2>2 DEF Request
    <2>4. request'[t] # None
      <3>1. [request[t] EXCEPT !.key = LimitsKey, !.limits = limits] \in Request
        BY <2>2 DEF Request, LimitsKey, Base, Clock
      <3>2. request'[t] = [request[t] EXCEPT !.key = LimitsKey, !.limits = limits]
        BY <1>1, <2>1
      <3>3. QED BY <1>1, <3>1, <3>2
    <2>5. QED BY <1>1, <1>12, <2>1, <2>3, <2>4
  <1>15. CASE UNCHANGED <<pc, request, schema>>
    BY <1>2, <1>15 DEF Programs
  <1>16. CASE Clear \/ ClearDocuments \/ SetLimits
    BY <1>15, <1>16 DEF Clear, ClearDocuments, SetLimits, threads, caches
  <1>17. ASSUME NEW f \in Full, NEW a \in Address, Serve(f, a) PROVE Programs'
    BY <1>15, <1>17 DEF Serve, threads
  <1>18. ASSUME NEW t \in Thread,
                \/ Arrive(t) \/ Select(t) \/ Acquire(t) \/ Build(t) \/ GiveUp(t)
                \/ Parse(t) \/ AdmitDocument(t) \/ Validate(t) \/ Judge(t) \/ Answer(t)
         PROVE  Programs'
    <2>1. Program(t)'
      BY <1>5, <1>8, <1>9, <1>10, <1>11, <1>13, <1>14, <1>18
    <2>2. ASSUME NEW u \in Thread, u # t PROVE Program(u)'
      BY <1>2, <1>3, <1>4, <1>18, <2>2
    <2>3. QED BY <2>1, <2>2 DEF Programs
  <1>19. QED BY <1>16, <1>17, <1>18 DEF Next

(* Only serving a new schema changes addresses, and then the old ones either *)
(* stay or go.                                                              *)
LEMMA AddressStays ==
    ASSUME Base, Next, NEW f \in Full, f <= served
    PROVE  addressOf'[f] \in {None, addressOf[f]} /\ (InUse(f) /\ InUse(f)' => addressOf'[f] = addressOf[f])
  <1>1. CASE UNCHANGED addressOf
    BY <1>1
  <1>2. ASSUME NEW g \in Full, NEW a \in Address, Serve(g, a)
        PROVE  /\ addressOf'[f] \in {None, addressOf[f]}
               /\ InUse(f) /\ InUse(f)' => addressOf'[f] = addressOf[f]
    <2> DEFINE remaining == [h \in Full |-> IF UsedBy(h) = {} THEN None ELSE addressOf[h]]
    <2>1. /\ g = served + 1 /\ served' = g /\ UNCHANGED request
          /\ addressOf' = [remaining EXCEPT ![g] = a]
      BY <1>2 DEF Serve, threads
    <2>2. f # g
      BY <2>1, Constants DEF Base, Clock
    <2>3. addressOf'[f] = IF UsedBy(f) = {} THEN None ELSE addressOf[f]
      BY <2>1, <2>2
    <2>4. InUse(f)' => UsedBy(f) # {}
      BY <2>1, <2>2 DEF InUse, UsedBy
    <2>5. QED BY <2>3, <2>4
  <1>3. ASSUME NEW t \in Thread,
               Arrive(t) \/ Select(t) \/ Acquire(t) \/ Build(t) \/ GiveUp(t)
        PROVE  UNCHANGED addressOf
    BY <1>3 DEF Arrive, Select, Acquire, Build, GiveUp
  <1>4. ASSUME NEW t \in Thread,
               Parse(t) \/ AdmitDocument(t) \/ Validate(t) \/ Judge(t) \/ Answer(t)
        PROVE  UNCHANGED addressOf
    BY <1>4 DEF Parse, AdmitDocument, Validate, Judge, Answer
  <1>5. Clear \/ ClearDocuments \/ SetLimits => UNCHANGED addressOf
    BY DEF Clear, ClearDocuments, SetLimits
  <1>6. QED BY <1>1, <1>2, <1>3, <1>4, <1>5 DEF Next

LEMMA EntriesStep ==
    ASSUME Base, Next
    PROVE  Entries'
  <1>1. /\ schemas \in Seq(Cached) /\ forgotten \subseteq Schema /\ Keyed(schemas)
        /\ Len(schemas) <= SchemaBound /\ Len(schemas) \in Nat /\ SchemaBound \in Nat
        /\ \A i \in DOMAIN schemas : Pruned(schemas[i]) /\ schemas[i] \in Cached
    BY Constants DEF Base, Entries
  <1>2. ASSUME NEW e \in Cached, Pruned(e) PROVE Pruned(e)'
    <2>1. e.ref \in Full /\ e.ref <= served /\ e.pruned.n \in 1..built
          /\ e.pruned.of = e.ref /\ e.pruned.for = e.key[2] /\ addressOf[e.ref] \in {None, e.key[1]}
      BY <1>2 DEF Cached, Pruned
    <2>2. addressOf'[e.ref] \in {None, addressOf[e.ref]}
      BY <2>1, AddressStays
    <2>3. served <= served' /\ built <= built' /\ served \in Nat /\ served' \in Nat /\ built \in Nat
          /\ built' \in Nat /\ e.ref \in Nat
      <3>1. Clock /\ Clock' /\ served <= served' /\ built <= built'
        BY ClockStep DEF Base
      <3>2. MaxBuilds \in Nat /\ Full \subseteq Nat
        BY Constants
      <3>3. served \in Full /\ served' \in Full /\ built \in 0..MaxBuilds /\ built' \in 0..MaxBuilds
        BY <3>1 DEF Clock
      <3>4. served \in Nat /\ served' \in Nat /\ e.ref \in Nat
        BY <2>1, <3>2, <3>3
      <3>5. built \in Nat /\ built' \in Nat
        BY <3>2, <3>3
      <3>6. QED BY <3>1, <3>4, <3>5
    <2>4. e.ref <= served' /\ e.pruned.n \in 1..built'
      BY <2>1, <2>3
    <2>5. QED BY <2>1, <2>2, <2>4 DEF Pruned
  <1>3. CASE /\ schemas' \in Seq(Cached) /\ Keyed(schemas') /\ Len(schemas') <= SchemaBound
             /\ \A k \in DOMAIN schemas' : \E j \in DOMAIN schemas : schemas'[k] = schemas[j]
             /\ UNCHANGED forgotten
    <2>1. ASSUME NEW k \in DOMAIN schemas' PROVE Pruned(schemas[k])'
      <3>1. PICK j \in DOMAIN schemas : schemas'[k] = schemas[j]
        BY <1>3
      <3>2. Pruned(schemas[j]) /\ schemas[j] \in Cached
        BY <1>1
      <3> DEFINE e == schemas[j]
      <3>3. PICK x \in Cached : x = schemas[j] /\ Pruned(x)
        BY <3>2
      <3>4. Pruned(x)'
        BY <1>2, <3>3
      <3>5. schemas'[k] = x
        BY <3>1, <3>3
      <3>6. QED BY <3>4, <3>5 DEF Pruned
    <2>2. QED BY <1>1, <1>3, <2>1 DEF Entries
  <1>4. CASE UNCHANGED <<schemas, forgotten>>
    BY <1>1, <1>3, <1>4
  <1>5. ASSUME NEW t \in Thread, Select(t) \/ Acquire(t) PROVE Entries'
    <2>1. pc[t] \in {"select", "wait"} /\ UNCHANGED forgotten
      BY <1>5 DEF Select, Acquire
    <2>2. CASE Hit(t)
      BY <1>1, <1>3, <2>1, <2>2, HitFacts
    <2>3. CASE Miss(t)
      <3>1. /\ schemas' \in Seq(Cached) /\ Len(schemas') <= Len(schemas) /\ Keyed(schemas')
            /\ \A k \in DOMAIN schemas' : \E j \in DOMAIN schemas : schemas'[k] = schemas[j]
        BY <2>3, MissFacts
      <3>2. Len(schemas') <= SchemaBound
        BY <1>1, <3>1
      <3>3. QED BY <1>3, <2>1, <3>1, <3>2
    <2>4. CASE UNCHANGED schemas
      BY <1>4, <2>1, <2>4
    <2>5. QED BY <1>5, <2>2, <2>3, <2>4 DEF Select, Acquire, SecondLook
  <1>6. ASSUME NEW t \in Thread, Build(t) PROVE Entries'
    <2> DEFINE e == NewEntry(t)
    <2>1. /\ NewSchema(t) \in Schema /\ e \in Cached /\ request[t].sig \in Signature
          /\ schemas' \in Seq(Cached) /\ Len(schemas') <= SchemaBound /\ Keyed(schemas')
          /\ \A k \in DOMAIN schemas' :
                schemas'[k] = e \/ \E j \in DOMAIN schemas : schemas'[k] = schemas[j]
          /\ forgotten' \subseteq Schema
      BY <1>6, BuildFacts
    <2>2. /\ e.ref = request[t].full /\ e.key = Key(t) /\ e.pruned.of = request[t].full
          /\ e.pruned.for = request[t].sig /\ e.pruned.n = built + 1
      BY DEF NewEntry, NewSchema
    <2>3. /\ built' = built + 1 /\ served' = served /\ addressOf' = addressOf /\ pc[t] # "idle"
          /\ built \in Nat
      BY <1>6, Constants DEF Build, Base, Clock
    <2>4. /\ e.pruned.of = e.ref /\ e.pruned.for = e.key[2] /\ e.key[1] = addressOf[e.ref]
          /\ e.ref <= served
      <3>1. Key(t)[1] = addressOf[request[t].full] /\ Key(t)[2] = request[t].sig
        BY DEF Key
      <3>2. request[t].full <= served
        BY <2>3, Asked
      <3> HIDE DEF e
      <3>3. QED BY <2>2, <3>1, <3>2
    <2> HIDE DEF e
    <2>5. e.pruned.n \in 1..built'
      BY <2>2, <2>3
    <2>6. ASSUME NEW k \in DOMAIN schemas' PROVE Pruned(schemas[k])'
      <3>1. CASE schemas'[k] = e
        BY <2>3, <2>4, <2>5, <3>1 DEF Pruned
      <3>2. CASE schemas'[k] # e
        <4>1. PICK j \in DOMAIN schemas : schemas'[k] = schemas[j]
          BY <2>1, <3>2
        <4>2. PICK x \in Cached : x = schemas[j] /\ Pruned(x)
          BY <1>1
        <4>3. Pruned(x)'
          BY <1>2, <4>2
        <4>4. schemas'[k] = x
          BY <4>1, <4>2
        <4>5. QED BY <4>3, <4>4 DEF Pruned
      <3>3. QED BY <3>1, <3>2
    <2>7. QED BY <2>1, <2>6 DEF Entries
  <1>7. CASE Clear
    <2>1. schemas' = <<>> /\ forgotten' = forgotten \cup {e.pruned : e \in ToSet(schemas)}
      BY <1>7 DEF Clear
    <2>2. ToSet(schemas) \subseteq Cached
      BY <1>1 DEF ToSet
    <2>3. forgotten' \subseteq Schema
      BY <1>1, <2>1, <2>2 DEF Cached
    <2>4. schemas' \in Seq(Cached) /\ Len(schemas') <= SchemaBound /\ DOMAIN schemas' = {}
      BY <1>1, <2>1
    <2>5. QED BY <2>3, <2>4 DEF Entries, Keyed
  <1>8. ASSUME NEW t \in Thread,
               \/ Arrive(t) \/ GiveUp(t) \/ Parse(t) \/ AdmitDocument(t)
               \/ Validate(t) \/ Judge(t) \/ Answer(t)
        PROVE  Entries'
    BY <1>4, <1>8 DEF Arrive, GiveUp, Parse, AdmitDocument, Validate, Judge, Answer, caches
  <1>9. CASE ClearDocuments \/ SetLimits
    BY <1>4, <1>9 DEF ClearDocuments, SetLimits, caches
  <1>10. ASSUME NEW f \in Full, NEW a \in Address, Serve(f, a) PROVE Entries'
    BY <1>4, <1>10 DEF Serve
  <1>11. QED BY <1>5, <1>6, <1>7, <1>8, <1>9, <1>10 DEF Next

LEMMA BaseHolds ==
    Spec => []Base
  <1>1. Init => Base
    <2>1. SUFFICES ASSUME Init PROVE Base
      OBVIOUS
    <2>2. Clock
      <3>1. MaxRequests \in Nat /\ MaxBuilds \in Nat /\ MaxSettings \in Nat /\ 1 \in Full
        BY Constants
      <3>2. served = 1 /\ arrived = 0 /\ built = 0 /\ limits = 0 /\ torn = FALSE
        BY <2>1 DEF Init
      <3>3. served \in Full /\ torn \in BOOLEAN
        BY <3>1, <3>2
      <3>4. 0 \in 0..MaxRequests /\ 0 \in 0..MaxBuilds /\ 0 \in 0..MaxSettings
        BY <3>1
      <3>5. QED BY <3>2, <3>3, <3>4, Zenon DEF Clock
    <2>7. ThreadTypes
      BY <2>1, Constants DEF Init, ThreadTypes, Stage
    <2>3. Programs
      BY <2>1 DEF Init, Programs, Program
    <2>4. Entries
      <3>1. schemas \in Seq(Cached) /\ Len(schemas) = 0 /\ DOMAIN schemas = {} /\ forgotten = {}
        BY <2>1 DEF Init
      <3>2. QED BY <3>1, Constants DEF Entries, Keyed
    <2>5. Addresses
      <3>1. PICK a \in Address : addressOf = [f \in Full |-> IF f = 1 THEN a ELSE None]
        BY <2>1 DEF Init
      <3>2. served = 1 /\ \A t \in Thread : request[t] = None
        BY <2>1 DEF Init
      <3>3. \A f \in Full : InUse(f) => f = 1
        BY <3>2 DEF InUse, UsedBy
      <3>4. Full \subseteq Nat /\ None \notin Address
        BY Constants
      <3>5. QED BY <3>1, <3>2, <3>3, <3>4 DEF Addresses
    <2>6. QED BY <2>2, <2>3, <2>4, <2>5, <2>7 DEF Base
  <1>2. Base /\ [Next]_vars => Base'
    <2>1. ASSUME Base, Next PROVE Base'
      BY <2>1, ClockStep, ThreadTypesStep, AddressesStep, ProgramsStep, EntriesStep DEF Base
    <2>2. ASSUME Base, UNCHANGED vars PROVE Base'
      BY <2>2 DEF vars, Base, Clock, ThreadTypes, Addresses, InUse, UsedBy, Programs, Program,
                  Entries, Pruned, Keyed
    <2>3. QED BY <2>1, <2>2
  <1>3. QED BY <1>1, <1>2, PTL DEF Spec

(* A caller gets the schema of its own permissions (OwnSchema).             *)
THEOREM OwnSchemas ==
    Spec => []OwnSchema
  <1>1. Base => OwnSchema
    BY DEF Base, Programs, Program, OwnSchema
  <1>2. QED BY <1>1, BaseHolds, PTL

-----------------------------------------------------------------------------
(* One build: the schemas that are used are those that are remembered, or    *)
(* they were forgotten, and who builds has found none.                      *)
Building == \A t \in Thread : pc[t] = "build" => Live(t) = {}
Remembered(o) == o \in forgotten \/ \E i \in DOMAIN schemas : schemas[i].pruned = o
Kept == \A t \in Thread : schema[t] # None /\ schema[t].n # 0 => Remembered(schema[t])
Sharing == Base /\ Building /\ Kept /\ OneBuild

(* Where the schemas and the entries of a step come from.                   *)
LEMMA Sources ==
    ASSUME Base, Next
    PROVE  /\ \A u \in Thread : \/ schema'[u] \in {None, schema[u]}
                                \/ \E i \in DOMAIN schemas, k \in DOMAIN schemas' :
                                      schemas'[k] = schemas[i] /\ schema'[u] = schemas[i].pruned
                                \/ schema'[u].n = 0
                                \/ Build(u) /\ schema'[u] = NewSchema(u)
           /\ \A k \in DOMAIN schemas' : \/ \E j \in DOMAIN schemas : schemas'[k] = schemas[j]
                                         \/ \E t \in Thread : Build(t) /\ schemas'[k] = NewEntry(t)
           /\ \A j \in DOMAIN schemas :
                 \/ \E k \in DOMAIN schemas' : schemas'[k] = schemas[j]
                 \/ schemas[j].pruned \in forgotten'
                 \/ \E t \in Thread : (Live(t) = {} \/ Build(t)) /\ pc[t] # "idle"
                                      /\ schemas[j].key = Key(t)
           /\ forgotten \subseteq forgotten'
  <1> DEFINE Given(u) == \/ schema'[u] \in {None, schema[u]}
                         \/ \E i \in DOMAIN schemas, k \in DOMAIN schemas' :
                               schemas'[k] = schemas[i] /\ schema'[u] = schemas[i].pruned
                         \/ schema'[u].n = 0
                         \/ Build(u) /\ schema'[u] = NewSchema(u)
             Old == \A k \in DOMAIN schemas' : \E j \in DOMAIN schemas : schemas'[k] = schemas[j]
             Same == \A j \in DOMAIN schemas : \E k \in DOMAIN schemas' : schemas'[k] = schemas[j]
             Gone(j) == \/ \E k \in DOMAIN schemas' : schemas'[k] = schemas[j]
                        \/ schemas[j].pruned \in forgotten'
                        \/ \E t \in Thread : (Live(t) = {} \/ Build(t)) /\ pc[t] # "idle"
                                             /\ schemas[j].key = Key(t)
             Come(k) == \/ \E j \in DOMAIN schemas : schemas'[k] = schemas[j]
                        \/ \E t \in Thread : Build(t) /\ schemas'[k] = NewEntry(t)
             All == /\ \A u \in Thread : Given(u)
                    /\ \A k \in DOMAIN schemas' : Come(k)
                    /\ \A j \in DOMAIN schemas : Gone(j)
                    /\ forgotten \subseteq forgotten'
  <1>1. /\ schema \in [Thread -> Schema \cup {None}] /\ request \in [Thread -> Request \cup {None}]
        /\ pc \in [Thread -> Stage]
    BY DEF Base, ThreadTypes
  <1>2. ASSUME NEW t \in Thread, pc[t] \in {"select", "wait"}, Hit(t), UNCHANGED forgotten
        PROVE  All
    <2>1. PICK i \in DOMAIN schemas : schema' = [schema EXCEPT ![t] = schemas[i].pruned]
      BY <1>2, HitFacts
    <2>2. Old /\ Same
      BY <1>2, HitFacts
    <2>3. ASSUME NEW u \in Thread PROVE Given(u)
      <3>1. CASE u = t
        BY <1>1, <1>2, <2>1, <2>2, <3>1
      <3>2. CASE u # t
        BY <1>1, <2>1, <3>2
      <3>3. QED BY <3>1, <3>2
    <2>4. QED BY <1>2, <2>2, <2>3
  <1>3. ASSUME NEW t \in Thread, pc[t] # "idle", Miss(t), UNCHANGED <<schema, forgotten>>
        PROVE  All
    <2>1. /\ Live(t) = {} /\ Old
          /\ \A j \in DOMAIN schemas :
                 schemas[j].key # Key(t) => \E k \in DOMAIN schemas' : schemas'[k] = schemas[j]
      BY <1>3, MissFacts
    <2>2. QED BY <1>3, <2>1
  <1>4. ASSUME UNCHANGED <<schemas, forgotten>>, \A u \in Thread : Given(u) PROVE All
    BY <1>4
  <1>5. ASSUME NEW t \in Thread, Select(t) PROVE All
    <2>1. pc[t] = "select" /\ UNCHANGED forgotten
      BY <1>5 DEF Select
    <2>3. CASE request[t].sig = Everything
      <3>1. UNCHANGED schemas /\ schema' = [schema EXCEPT ![t] = FullSchema(request[t].full)]
        BY <1>5, <2>3 DEF Select
      <3>2. ASSUME NEW u \in Thread PROVE Given(u)
        BY <1>1, <3>1 DEF FullSchema
      <3>3. QED BY <1>4, <2>1, <3>1, <3>2
    <2>4. CASE Hit(t)
      BY <1>2, <2>1, <2>4
    <2>5. CASE Miss(t) /\ UNCHANGED schema
      BY <1>3, <2>1, <2>5
    <2>6. QED BY <1>5, <2>3, <2>4, <2>5 DEF Select
  <1>6. ASSUME NEW t \in Thread, Acquire(t) PROVE All
    <2>1. pc[t] = "wait" /\ UNCHANGED forgotten
      BY <1>6 DEF Acquire
    <2>3. CASE Hit(t)
      BY <1>2, <2>1, <2>3
    <2>4. CASE Miss(t) /\ UNCHANGED schema
      BY <1>3, <2>1, <2>4
    <2>5. QED BY <1>6, <2>3, <2>4 DEF Acquire, SecondLook
  <1>7. ASSUME NEW t \in Thread, Build(t) PROVE All
    <2>1. /\ schema' = [schema EXCEPT ![t] = NewSchema(t)]
          /\ \A k \in DOMAIN schemas' :
                 schemas'[k] = NewEntry(t) \/ \E j \in DOMAIN schemas : schemas'[k] = schemas[j]
          /\ \A j \in DOMAIN schemas : schemas[j].key # Key(t) =>
                 \/ \E k \in DOMAIN schemas' : schemas'[k] = schemas[j]
                 \/ schemas[j].pruned \in forgotten'
          /\ forgotten \subseteq forgotten'
      BY <1>7, BuildFacts
    <2>2. ASSUME NEW u \in Thread PROVE Given(u)
      BY <1>1, <1>7, <2>1
    <2>3. pc[t] = "build"
      BY <1>7 DEF Build
    <2>4. QED BY <1>7, <2>1, <2>2, <2>3
  <1>8. ASSUME Clear PROVE All
    <2>1. schemas' = <<>> /\ forgotten' = forgotten \cup {e.pruned : e \in ToSet(schemas)}
          /\ UNCHANGED schema
      BY <1>8 DEF Clear, threads
    <2>2. \A j \in DOMAIN schemas : schemas[j].pruned \in forgotten'
      BY <2>1 DEF ToSet
    <2>3. DOMAIN schemas' = {}
      BY <2>1
    <2>4. QED BY <2>1, <2>2, <2>3
  <1>9. ASSUME NEW t \in Thread, GiveUp(t) \/ Answer(t) PROVE All
    <2>1. UNCHANGED <<schemas, forgotten>> /\ schema' = [schema EXCEPT ![t] = None]
      BY <1>9 DEF GiveUp, Answer
    <2>2. ASSUME NEW u \in Thread PROVE Given(u)
      BY <1>1, <2>1
    <2>3. QED BY <1>4, <2>1, <2>2
  <1>10. ASSUME UNCHANGED <<schemas, forgotten, schema>> PROVE All
    BY <1>4, <1>10
  <1>11. ASSUME NEW t \in Thread,
                Arrive(t) \/ Parse(t) \/ AdmitDocument(t) \/ Validate(t) \/ Judge(t)
         PROVE  All
    <2>1. UNCHANGED <<schemas, forgotten, schema>>
      BY <1>11 DEF Arrive, Parse, AdmitDocument, Validate, Judge, caches
    <2>2. QED BY <1>10, <2>1
  <1>12. ASSUME ClearDocuments \/ SetLimits \/ \E f \in Full, a \in Address : Serve(f, a)
         PROVE  All
    <2>1. UNCHANGED <<schemas, forgotten, schema>>
      BY <1>12 DEF ClearDocuments, SetLimits, Serve, threads, caches
    <2>2. QED BY <1>10, <2>1
  <1> HIDE DEF All, Given, Old, Same, Gone, Come
  <1>13. All
    <2>1. CASE \E t \in Thread :
                  \/ Arrive(t) \/ Select(t) \/ Acquire(t) \/ Build(t) \/ GiveUp(t)
                  \/ Parse(t) \/ AdmitDocument(t) \/ Validate(t) \/ Judge(t) \/ Answer(t)
      BY <1>5, <1>6, <1>7, <1>9, <1>11, <2>1
    <2>2. CASE Clear
      BY <1>8, <2>2
    <2>3. CASE ClearDocuments \/ SetLimits \/ \E f \in Full, a \in Address : Serve(f, a)
      BY <1>12, <2>3
    <2>4. QED BY <2>1, <2>2, <2>3 DEF Next
  <1>14. QED BY <1>13 DEF All, Given, Gone, Come

(* An entry that gave way to a new one of its key is of a schema that is not *)
(* used any more.                                                           *)
LEMMA StaleIsUnused ==
    ASSUME Base, NEW t \in Thread, pc[t] # "idle", NEW j \in DOMAIN schemas,
           schemas[j].key = Key(t), Live(t) = {}
    PROVE  ~InUse(schemas[j].ref)
  <1>1. schemas[j] \in Cached /\ Pruned(schemas[j])
    BY DEF Base, Entries
  <1>2. schemas[j].ref \in Full /\ addressOf[schemas[j].ref] \in {None, schemas[j].key[1]}
    BY <1>1 DEF Cached, Pruned
  <1>3. schemas[j].ref # request[t].full
    BY DEF Live
  <1>4. schemas[j].key[1] = addressOf[request[t].full] /\ request[t].full \in Full
    BY Asked DEF Key
  <1>5. addressOf[schemas[j].ref] = None
    BY <1>2, <1>3, <1>4 DEF Base, Addresses
  <1>6. QED BY <1>2, <1>5 DEF Base, Addresses

LEMMA BuildingStep ==
    ASSUME Sharing, Next
    PROVE  Building'
  <1>1. Base /\ Base' /\ None \notin Request
    BY ClockStep, ThreadTypesStep, AddressesStep, ProgramsStep, EntriesStep, Constants
       DEF Sharing, Base
  <1>2. /\ pc \in [Thread -> Stage] /\ request \in [Thread -> Request \cup {None}]
        /\ \A t \in Thread : pc[t] = "build" <=> buildLock = t
    BY <1>1 DEF Base, ThreadTypes
  <1>3. SUFFICES ASSUME NEW u \in Thread, pc'[u] = "build" PROVE Live(u)' = {}
    BY DEF Building
  <1>4. CASE pc[u] = "build"
    <2>1. Live(u) = {}
      BY <1>4 DEF Sharing, Building
    <2>2. request'[u] = request[u] /\ ~\E t \in Thread : Build(t)
      <3>1. ASSUME NEW t \in Thread, Build(t) PROVE FALSE
        <4>1. pc[t] = "build" /\ pc' = [pc EXCEPT ![t] = "parse"]
          BY <3>1 DEF Build
        <4>2. t = u
          BY <1>2, <1>4, <4>1
        <4>3. QED BY <1>2, <1>3, <4>1, <4>2
      <3>2. ASSUME NEW t \in Thread,
                   Arrive(t) \/ Select(t) \/ Acquire(t) \/ GiveUp(t)
            PROVE  request'[u] = request[u]
        BY <1>2, <1>3, <1>4, <3>2 DEF Arrive, Select, Acquire, GiveUp
      <3>3. ASSUME NEW t \in Thread,
                   Parse(t) \/ AdmitDocument(t) \/ Validate(t) \/ Judge(t) \/ Answer(t)
            PROVE  request'[u] = request[u]
        BY <1>2, <1>3, <1>4, <3>3 DEF Parse, AdmitDocument, Validate, Judge, Answer
      <3>4. ASSUME Clear \/ ClearDocuments \/ SetLimits \/ \E f \in Full, a \in Address : Serve(f, a)
            PROVE  request'[u] = request[u]
        BY <3>4 DEF Clear, ClearDocuments, SetLimits, Serve, threads
      <3>5. QED BY <3>1, <3>2, <3>3, <3>4 DEF Sharing, Next
    <2>3. addressOf'[request[u].full] = addressOf[request[u].full]
      <3>1. request[u] \in Request /\ request[u].full \in Full /\ request[u].full <= served
        BY <1>1, <1>4, Asked
      <3>2. PICK f \in Full : f = request[u].full
        BY <3>1
      <3>3. InUse(f) /\ InUse(f)'
        BY <1>1, <2>2, <3>1, <3>2 DEF InUse, UsedBy
      <3>4. QED BY <1>1, <3>1, <3>2, <3>3, AddressStays
    <2>4. Key(u)' = Key(u)
      BY <2>2, <2>3 DEF Key
    <2>5. \A k \in DOMAIN schemas' : \E j \in DOMAIN schemas : schemas'[k] = schemas[j]
      BY <1>1, <2>2, Sources
    <2>6. QED BY <2>1, <2>2, <2>4, <2>5 DEF Live
  <1>5. CASE pc[u] # "build"
    <2>1. PICK t \in Thread : Acquire(t) /\ Miss(t) /\ pc' = [pc EXCEPT ![t] = "build"]
      <3>1. ASSUME NEW t \in Thread,
                   Arrive(t) \/ Select(t) \/ Build(t) \/ GiveUp(t)
            PROVE  FALSE
        BY <1>2, <1>3, <1>5, <3>1 DEF Arrive, Select, Build, GiveUp
      <3>2. ASSUME NEW t \in Thread,
                   Parse(t) \/ AdmitDocument(t) \/ Validate(t) \/ Judge(t) \/ Answer(t)
            PROVE  FALSE
        BY <1>2, <1>3, <1>5, <3>2 DEF Parse, AdmitDocument, Validate, Judge, Answer
      <3>3. ASSUME Clear \/ ClearDocuments \/ SetLimits \/ \E f \in Full, a \in Address : Serve(f, a)
            PROVE  FALSE
        BY <1>2, <1>3, <1>5, <3>3 DEF Clear, ClearDocuments, SetLimits, Serve, threads
      <3>4. PICK t \in Thread : Acquire(t)
        BY <3>1, <3>2, <3>3 DEF Sharing, Next
      <3>5. Miss(t) /\ pc' = [pc EXCEPT ![t] = "build"]
        BY <1>2, <1>3, <1>5, <3>4 DEF Acquire, SecondLook
      <3>6. QED BY <3>4, <3>5
    <2>2. t = u /\ UNCHANGED <<addressOf, request>>
      BY <1>2, <1>3, <1>5, <2>1 DEF Acquire
    <2>3. Key(u)' = Key(u)
      BY <2>2 DEF Key
    <2>4. \A k \in DOMAIN schemas' : schemas'[k].key # Key(u)
      BY <1>1, <2>1, <2>2, MissFacts
    <2>5. QED BY <2>3, <2>4 DEF Live
  <1>6. QED BY <1>4, <1>5

(* What is known of a schema object in the process. *)
LEMMA InProcessFacts ==
    ASSUME Base, NEW o \in InProcess, o # None
    PROVE  o \in Schema /\ o.n \in 0..built /\ (o.n = 0 <=> o.for = Everything)
  <1>1. ASSUME NEW i \in DOMAIN schemas, o = schemas[i].pruned
        PROVE  o \in Schema /\ o.n \in 0..built /\ (o.n = 0 <=> o.for = Everything)
    <2>1. schemas[i] \in Cached /\ Pruned(schemas[i])
      BY DEF Base, Entries
    <2>2. o \in Schema /\ o.n \in 1..built /\ o.for \in Signature
      BY <1>1, <2>1 DEF Cached, Pruned
    <2>3. o.n \in 0..built /\ o.n # 0 /\ o.for # Everything
      BY <2>2, Constants DEF Base, Clock
    <2>4. QED BY <2>2, <2>3
  <1>2. ASSUME NEW t \in Thread, o = schema[t]
        PROVE  o \in Schema /\ o.n \in 0..built /\ (o.n = 0 <=> o.for = Everything)
    <2>1. o \in Schema /\ o.n <= built /\ (o.n = 0 <=> o.for = Everything)
      BY <1>2 DEF Base, ThreadTypes, Programs, Program
    <2>2. o.n \in 0..MaxBuilds
      BY <2>1 DEF Schema
    <2>3. built \in Nat /\ MaxBuilds \in Nat
      BY Constants DEF Base, Clock
    <2>4. QED BY <2>1, <2>2, <2>3
  <1>3. QED BY <1>1, <1>2 DEF InProcess

LEMMA KeptStep ==
    ASSUME Sharing, Next
    PROVE  Kept'
  <1>1. Base /\ Base'
    BY ClockStep, ThreadTypesStep, AddressesStep, ProgramsStep, EntriesStep DEF Sharing, Base
  <1>2. SUFFICES ASSUME NEW u \in Thread, schema'[u] # None, schema'[u].n # 0
                 PROVE  \/ schema'[u] \in forgotten'
                        \/ \E k \in DOMAIN schemas' : schemas'[k].pruned = schema'[u]
    BY DEF Kept, Remembered
  <1>3. CASE schema'[u] = schema[u]
    <2>1. CASE schema[u] \in forgotten
      BY <1>1, <1>3, <2>1, Sources
    <2>2. CASE schema[u] \notin forgotten
      <3>1. PICK j \in DOMAIN schemas : schemas[j].pruned = schema[u]
        BY <1>2, <1>3, <2>2 DEF Sharing, Kept, Remembered
      <3>2. CASE \E k \in DOMAIN schemas' : schemas'[k] = schemas[j]
        BY <1>3, <3>1, <3>2
      <3>3. CASE schemas[j].pruned \in forgotten'
        BY <1>3, <3>1, <3>3
      <3>4. ASSUME NEW t \in Thread, Live(t) = {} \/ Build(t), pc[t] # "idle",
                   schemas[j].key = Key(t)
            PROVE  FALSE
        <4>1. Live(t) = {}
          BY <3>4 DEF Build, Sharing, Building
        <4>2. ~InUse(schemas[j].ref)
          BY <1>1, <3>4, <4>1, StaleIsUnused
        <4>3. schema[u] # None /\ schema[u].of = request[u].full /\ request[u] # None
          BY <1>1, <1>2, <1>3 DEF Base, Programs, Program
        <4>4. schemas[j].ref = schema[u].of
          BY <1>1, <3>1 DEF Base, Entries, Pruned
        <4>5. QED BY <4>2, <4>3, <4>4 DEF InUse, UsedBy
      <3>5. QED BY <1>1, <3>2, <3>3, <3>4, Sources
    <2>3. QED BY <2>1, <2>2
  <1>4. CASE schema'[u] # schema[u]
    <2>1. CASE \E i \in DOMAIN schemas, k \in DOMAIN schemas' :
                  schemas'[k] = schemas[i] /\ schema'[u] = schemas[i].pruned
      BY <2>1
    <2>2. CASE Build(u) /\ schema'[u] = NewSchema(u)
      <3>1. (\E k \in DOMAIN schemas' : schemas'[k] = NewEntry(u)) \/ NewSchema(u) \in forgotten'
        BY <1>1, <2>2, BuildFacts
      <3>2. NewEntry(u).pruned = NewSchema(u)
        BY DEF NewEntry
      <3>3. QED BY <2>2, <3>1, <3>2
    <2>3. QED BY <1>1, <1>2, <1>4, <2>1, <2>2, Sources
  <1>5. QED BY <1>3, <1>4

LEMMA OneBuildStep ==
    ASSUME Sharing, Next
    PROVE  OneBuild'
  <1>1. Base /\ Base' /\ forgotten \subseteq forgotten'
    <2>1. Base /\ Base'
      BY ClockStep, ThreadTypesStep, AddressesStep, ProgramsStep, EntriesStep DEF Sharing, Base
    <2>2. QED BY <2>1, Sources
  <1>2. ASSUME NEW o, o \in InProcess', o # None
        PROVE  /\ o \in Schema /\ o.n \in 0..built' /\ (o.n = 0 <=> o.for = Everything)
               /\ \/ o.n = 0
                  \/ o \in InProcess
                  \/ \E t \in Thread : Build(t) /\ o = NewSchema(t)
    <2>1. o \in Schema /\ o.n \in 0..built' /\ (o.n = 0 <=> o.for = Everything)
      <3>1. ASSUME NEW i \in DOMAIN schemas', o = schemas'[i].pruned
            PROVE  o \in Schema /\ o.n \in 0..built' /\ (o.n = 0 <=> o.for = Everything)
        <4>1. schemas'[i] \in Cached /\ Pruned(schemas[i])'
          BY <1>1 DEF Base, Entries
        <4>2. o \in Schema /\ o.n \in 1..built' /\ o.for \in Signature
          BY <3>1, <4>1 DEF Cached, Pruned
        <4>3. built' \in 0..MaxBuilds /\ MaxBuilds \in Nat
          BY <1>1, Constants DEF Base, Clock
        <4>4. o.n \in 0..built' /\ o.n # 0 /\ o.for # Everything
          BY <4>2, <4>3, Constants
        <4>5. QED BY <4>2, <4>4
      <3>2. ASSUME NEW t \in Thread, o = schema'[t]
            PROVE  o \in Schema /\ o.n \in 0..built' /\ (o.n = 0 <=> o.for = Everything)
        <4>1. o \in Schema /\ o.n <= built' /\ (o.n = 0 <=> o.for = Everything)
          BY <1>1, <1>2, <3>2 DEF Base, ThreadTypes, Programs, Program
        <4>2. o.n \in 0..MaxBuilds
          BY <4>1 DEF Schema
        <4>3. built' \in 0..MaxBuilds /\ MaxBuilds \in Nat
          BY <1>1, Constants DEF Base, Clock
        <4>4. o.n \in 0..built'
          BY <4>1, <4>2, <4>3
        <4>5. QED BY <4>1, <4>4
      <3>3. QED BY <1>2, <3>1, <3>2 DEF InProcess
    <2>2. \/ o.n = 0
          \/ o \in InProcess
          \/ \E t \in Thread : Build(t) /\ o = NewSchema(t)
      <3>1. ASSUME NEW i \in DOMAIN schemas', o = schemas'[i].pruned
            PROVE  o \in InProcess \/ \E t \in Thread : Build(t) /\ o = NewSchema(t)
        <4>1. CASE \E j \in DOMAIN schemas : schemas'[i] = schemas[j]
          BY <3>1, <4>1 DEF InProcess
        <4>2. CASE \E t \in Thread : Build(t) /\ schemas'[i] = NewEntry(t)
          BY <3>1, <4>2 DEF NewEntry
        <4>3. QED BY <1>1, <4>1, <4>2, Sources
      <3>2. ASSUME NEW t \in Thread, o = schema'[t]
            PROVE  \/ o.n = 0
                   \/ o \in InProcess
                   \/ \E u \in Thread : Build(u) /\ o = NewSchema(u)
        <4>1. \/ schema'[t] \in {None, schema[t]}
              \/ \E i \in DOMAIN schemas : schema'[t] = schemas[i].pruned
              \/ schema'[t].n = 0
              \/ Build(t) /\ schema'[t] = NewSchema(t)
          BY <1>1, Sources
        <4>2. QED BY <1>2, <3>2, <4>1 DEF InProcess
      <3>3. QED BY <1>2, <3>1, <3>2 DEF InProcess
    <2>3. QED BY <2>1, <2>2
  <1>3. SUFFICES ASSUME NEW x \in InProcess', NEW y \in InProcess', x # None, y # None,
                        x.of = y.of, x.for = y.for, x.n < y.n
                 PROVE  x \in forgotten'
    BY DEF OneBuild
  <1>4. /\ x.n \in 0..built' /\ (x.n = 0 <=> x.for = Everything)
        /\ y.n \in 0..built' /\ (y.n = 0 <=> y.for = Everything)
    BY <1>2, <1>3
  <1>5. x.n # 0 /\ y.n # 0
    BY <1>3, <1>4
  <1>6. CASE x \in InProcess /\ y \in InProcess
    BY <1>1, <1>3, <1>6 DEF Sharing, OneBuild
  <1>7. ASSUME NEW t \in Thread, Build(t)
        PROVE  /\ built' = built + 1 /\ built \in Nat /\ NewSchema(t).n = built + 1
               /\ pc[t] = "build" /\ NewSchema(t).of = request[t].full
               /\ NewSchema(t).for = request[t].sig
    BY <1>1, <1>7, Constants DEF Build, Base, Clock, NewSchema
  <1>8. CASE \E t \in Thread : Build(t) /\ x = NewSchema(t)
    BY <1>3, <1>4, <1>7, <1>8
  <1>9. ASSUME NEW t \in Thread, Build(t), y = NewSchema(t), x \in InProcess
        PROVE  x \in forgotten'
    <2>1. x.of = request[t].full /\ x.for = request[t].sig /\ Live(t) = {}
      BY <1>3, <1>7, <1>9 DEF Sharing, Building
    <2>2. SUFFICES ASSUME x \notin forgotten PROVE FALSE
      BY <1>1
    <2>3. PICK i \in DOMAIN schemas : schemas[i].pruned = x
      BY <1>3, <1>5, <1>9, <2>2 DEF InProcess, Sharing, Kept, Remembered
    <2>4. /\ schemas[i] \in Cached /\ schemas[i].ref = x.of /\ schemas[i].key[2] = x.for
          /\ addressOf[schemas[i].ref] \in {None, schemas[i].key[1]}
      BY <1>1, <2>3 DEF Base, Entries, Pruned
    <2>5. addressOf[request[t].full] # None
      BY <1>1, <1>7, <1>9, Asked, Constants
    <2>6. schemas[i].key[1] = addressOf[request[t].full] /\ schemas[i].key[2] = request[t].sig
          /\ schemas[i].ref = request[t].full
      BY <2>1, <2>4, <2>5
    <2>7. schemas[i].key = Key(t)
      BY <2>4, <2>6 DEF Cached, Key
    <2>8. QED BY <2>1, <2>6, <2>7 DEF Live
  <1>10. QED BY <1>2, <1>3, <1>5, <1>6, <1>8, <1>9

(* A schema is built once while it is remembered (OneBuild).                *)
THEOREM BuildsOnce ==
    Spec => []OneBuild
  <1>1. Init /\ Base => Sharing
    <2>1. SUFFICES ASSUME Init, Base PROVE Sharing
      OBVIOUS
    <2>2. Building /\ Kept
      BY <2>1 DEF Init, Building, Kept
    <2>3. InProcess \ {None} = {}
      BY <2>1 DEF Init, InProcess
    <2>4. QED BY <2>1, <2>2, <2>3 DEF Sharing, OneBuild
  <1>2. Sharing /\ Base' /\ [Next]_vars => Sharing'
    <2>1. ASSUME Sharing, Base', Next PROVE Sharing'
      BY <2>1, BuildingStep, KeptStep, OneBuildStep DEF Sharing
    <2>2. ASSUME Sharing, Base', UNCHANGED vars PROVE Sharing'
      BY <2>2 DEF vars, Sharing, Building, Live, Key, Kept, Remembered, OneBuild, InProcess
    <2>3. QED BY <2>1, <2>2
  <1>3. Sharing => OneBuild
    BY DEF Sharing
  <1>4. QED BY <1>1, <1>2, <1>3, BaseHolds, PTL DEF Spec

-----------------------------------------------------------------------------
(* The documents and the verdicts.                                          *)
Filled(lru) == Keyed(lru.entries) /\ TrueTotal(lru) /\ Within(lru, EntryBound, TokenBudget)
DocumentsOk == documents \in LRU(Query, Query) /\ Filled(documents)

(* A verdict that is kept for a schema object is about that schema and the   *)
(* query of its key, and, unless the limits changed while one was computed,  *)
(* about the limits of its key.                                             *)
Sound(o, e) ==
    /\ e.value.of = o.of /\ e.value.for = o.for /\ e.value.query = e.key[1]
    /\ ~torn => e.value.limits = e.key[2]
VerdictsOk(o, lru) ==
    /\ lru \in LRU(VerdictKey, Verdict) /\ Filled(lru)
    /\ \A i \in DOMAIN lru.entries : Sound(o, lru.entries[i])

(* Between the lookup and the store a thread remembers the key, and when it  *)
(* is done it has the verdict of its own request.                           *)
Asking(t) ==
    /\ pc[t] = "validating" => request[t].key = request[t].limits
                               /\ (~torn => limits = request[t].limits)
    /\ pc[t] = "done" => /\ verdict[t] \in Verdict
                         /\ verdict[t].of = request[t].full /\ verdict[t].for = request[t].sig
                         /\ verdict[t].query = request[t].query
                         /\ ~torn => verdict[t].limits = request[t].limits
Judged ==
    /\ DocumentsOk
    /\ DOMAIN verdicts \subseteq Schema
    /\ \A o \in DOMAIN verdicts : VerdictsOk(o, verdicts[o])
    /\ verdict \in [Thread -> Verdict \cup {None}]
    /\ \A t \in Thread : Asking(t)

(* One LRU through the operations on it.                                    *)
LEMMA Touched ==
    ASSUME NEW E, Sized(E), NEW lru \in Caches(E), Filled(lru), NEW key, Has(lru, key),
           NEW new, new = Touch(lru, key)
    PROVE  /\ new \in Caches(E) /\ Filled(new)
           /\ Entry(lru, key).key = key
           /\ \E j \in DOMAIN lru.entries : Entry(lru, key) = lru.entries[j]
           /\ \A i \in DOMAIN new.entries : \E j \in DOMAIN lru.entries :
                  new.entries[i] = lru.entries[j]
  <1>1. /\ new \in Caches(E) /\ Keyed(new.entries)
        /\ Entry(lru, key).key = key
        /\ \E j \in DOMAIN lru.entries : Entry(lru, key) = lru.entries[j]
        /\ new.tokens = lru.tokens /\ Len(new.entries) = Len(lru.entries)
        /\ Size(new.entries) = Size(lru.entries)
        /\ \A i \in DOMAIN new.entries : \E j \in DOMAIN lru.entries :
               new.entries[i] = lru.entries[j]
    BY TouchFacts DEF Filled
  <1>2. Filled(new)
    BY <1>1 DEF Filled, TrueTotal, Within, Fits
  <1>3. QED BY <1>1, <1>2

LEMMA Admitted ==
    ASSUME NEW E, Sized(E), NEW lru \in Caches(E), Filled(lru),
           NEW key, NEW value, NEW size, [key |-> key, value |-> value, size |-> size] \in E,
           NEW new, new = Admit(lru, key, value, size, EntryBound, TokenBudget)
    PROVE  /\ new \in Caches(E) /\ Filled(new)
           /\ \A i \in DOMAIN new.entries :
                  \/ new.entries[i] = [key |-> key, value |-> value, size |-> size]
                  \/ \E j \in DOMAIN lru.entries : new.entries[i] = lru.entries[j]
  <1>1. EntryBound \in Nat /\ TokenBudget \in Nat
    BY Constants
  <1>2. Keyed(lru.entries) /\ TrueTotal(lru)
    BY DEF Filled
  <1>3. new \in Caches(E) /\ Keyed(new.entries)
    BY <1>1, <1>2, AdmitFacts
  <1>4. TrueTotal(new) /\ Within(new, EntryBound, TokenBudget)
    BY <1>1, <1>2, AdmitFacts
  <1>5. \A i \in DOMAIN new.entries :
            \/ new.entries[i] = [key |-> key, value |-> value, size |-> size]
            \/ \E j \in DOMAIN lru.entries : new.entries[i] = lru.entries[j]
    BY <1>1, <1>2, AdmitFacts
  <1>6. QED BY <1>3, <1>4, <1>5 DEF Filled

LEMMA Emptied ==
    ASSUME NEW E, Sized(E)
    PROVE  EmptyLRU \in Caches(E) /\ Filled(EmptyLRU) /\ DOMAIN EmptyLRU.entries = {}
  <1>1. EmptyLRU.entries = <<>> /\ EmptyLRU.tokens = 0
    BY DEF EmptyLRU
  <1>2. EmptyLRU \in Caches(E)
    BY DEF EmptyLRU, Caches
  <1>3. Size(<<>>) = 0 /\ Len(<<>>) = 0 /\ DOMAIN <<>> = {}
    BY SizeBase
  <1>4. Keyed(<<>>)
    BY <1>3 DEF Keyed
  <1>5. EntryBound \in Nat /\ TokenBudget \in Nat
    BY Constants
  <1>6. TrueTotal(EmptyLRU) /\ Within(EmptyLRU, EntryBound, TokenBudget)
    BY <1>1, <1>3, <1>5 DEF TrueTotal, Within, Fits
  <1>7. QED BY <1>1, <1>2, <1>3, <1>4, <1>6 DEF Filled

LEMMA DocumentsStep ==
    ASSUME Base, Judged, Next
    PROVE  DocumentsOk'
  <1> DEFINE E == [key : Query, value : Query, size : Nat]
  <1>1. Sized(E) /\ LRU(Query, Query) = Caches(E)
    BY DEF Sized, LRU, Caches
  <1>2. DocumentsOk /\ documents \in Caches(E) /\ Filled(documents)
    BY <1>1 DEF Judged, DocumentsOk
  <1>3. CASE UNCHANGED documents
    BY <1>2, <1>3 DEF DocumentsOk, Filled
  <1>4. ASSUME NEW x, x = documents', x \in Caches(E), Filled(x) PROVE DocumentsOk'
    BY <1>1, <1>4 DEF DocumentsOk, Filled
  <1>5. ASSUME NEW t \in Thread, Parse(t) PROVE DocumentsOk'
    <2>1. CASE Has(documents, request[t].query)
      <3> DEFINE x == Touch(documents, request[t].query)
      <3>1. documents' = x
        BY <1>5, <2>1 DEF Parse
      <3> HIDE DEF E
      <3>2. x \in Caches(E) /\ Filled(x)
        BY <1>1, <1>2, <2>1, Touched
      <3> HIDE DEF x
      <3>3. QED BY <1>4, <3>1, <3>2
    <2>2. QED BY <1>3, <1>5, <2>1 DEF Parse
  <1>6. ASSUME NEW t \in Thread, AdmitDocument(t) PROVE DocumentsOk'
    <2> DEFINE q == request[t].query
               x == Admit(documents, q, q, TokensOf[q], EntryBound, TokenBudget)
    <2>1. CASE EntryBound > 0 /\ Retained(q)
      <3>1. documents' = x
        BY <1>6, <2>1 DEF AdmitDocument
      <3>2. request[t] \in Request
        BY <1>6, Asked DEF AdmitDocument
      <3>3. q \in Query /\ TokensOf[q] \in Nat
        BY <3>2, Constants DEF Request
      <3> HIDE DEF q
      <3>4. [key |-> q, value |-> q, size |-> TokensOf[q]] \in E
        BY <3>3
      <3> HIDE DEF E
      <3>5. x \in Caches(E) /\ Filled(x)
        BY <1>1, <1>2, <3>4, Admitted
      <3> HIDE DEF x
      <3>6. QED BY <1>4, <3>1, <3>5
    <2>2. QED BY <1>3, <1>6, <2>1 DEF AdmitDocument
  <1>7. CASE ClearDocuments
    <2>1. documents' = EmptyLRU
      BY <1>7 DEF ClearDocuments
    <2> HIDE DEF E
    <2>2. QED BY <1>1, <1>4, <2>1, Emptied
  <1>8. ASSUME NEW t \in Thread, \/ Arrive(t) \/ Select(t) \/ Acquire(t) \/ Build(t)
        PROVE  DocumentsOk'
    BY <1>3, <1>8 DEF Arrive, Select, Acquire, Build, caches
  <1>9. ASSUME NEW t \in Thread, \/ Validate(t) \/ Judge(t) \/ GiveUp(t) \/ Answer(t)
        PROVE  DocumentsOk'
    BY <1>3, <1>9 DEF Validate, Judge, GiveUp, Answer
  <1>10. ASSUME Clear \/ SetLimits \/ \E f \in Full, a \in Address : Serve(f, a)
         PROVE  DocumentsOk'
    BY <1>3, <1>10 DEF Clear, SetLimits, Serve, caches
  <1>11. QED BY <1>5, <1>6, <1>7, <1>8, <1>9, <1>10 DEF Next

VEntry == [key : VerdictKey, value : Verdict, size : Nat]

LEMMA VerdictEntries ==
    Sized(VEntry) /\ LRU(VerdictKey, Verdict) = Caches(VEntry)
  BY DEF Sized, VEntry, LRU, Caches

LEMMA StaysTorn ==
    ASSUME Base, Next, torn
    PROVE  torn'
  <1>1. ASSUME NEW t \in Thread, Arrive(t) \/ Select(t) \/ Acquire(t) \/ Build(t) \/ GiveUp(t)
        PROVE  torn'
    BY <1>1 DEF Arrive, Select, Acquire, Build, GiveUp
  <1>2. ASSUME NEW t \in Thread,
               Parse(t) \/ AdmitDocument(t) \/ Validate(t) \/ Judge(t) \/ Answer(t)
        PROVE  torn'
    BY <1>2 DEF Parse, AdmitDocument, Validate, Judge, Answer
  <1>3. ASSUME Clear \/ ClearDocuments \/ SetLimits \/ \E f \in Full, a \in Address : Serve(f, a)
        PROVE  torn'
    BY <1>3 DEF Clear, ClearDocuments, SetLimits, Serve
  <1>4. QED BY <1>1, <1>2, <1>3 DEF Next

(* The sub-cache of a schema object, kept or new. *)
LEMMA SubCacheFacts ==
    ASSUME Judged, NEW o
    PROVE  SubCache(o) \in Caches(VEntry) /\ VerdictsOk(o, SubCache(o))
  <1>1. CASE o \in DOMAIN verdicts
    BY <1>1, VerdictEntries DEF SubCache, Judged, VerdictsOk
  <1>2. CASE o \notin DOMAIN verdicts
    <2>1. SubCache(o) = EmptyLRU
      BY <1>2 DEF SubCache
    <2>2. EmptyLRU \in Caches(VEntry) /\ Filled(EmptyLRU) /\ DOMAIN EmptyLRU.entries = {}
      BY VerdictEntries, Emptied
    <2>3. QED BY <2>1, <2>2, VerdictEntries DEF VerdictsOk
  <1>3. QED BY <1>1, <1>2

(* A hit answers with the verdict of the schema and the key. *)
LEMMA VerdictHit ==
    ASSUME Judged, NEW o, NEW key, Has(SubCache(o), key)
    PROVE  /\ o \in DOMAIN verdicts
           /\ Entry(SubCache(o), key).value \in Verdict
           /\ Entry(SubCache(o), key).key = key /\ Sound(o, Entry(SubCache(o), key))
           /\ VerdictsOk(o, Touch(SubCache(o), key))
  <1> DEFINE lru == SubCache(o)
             new == Touch(lru, key)
  <1>1. o \in DOMAIN verdicts
    BY DEF SubCache, Has, Keys, EmptyLRU
  <1>2. lru \in Caches(VEntry) /\ VerdictsOk(o, lru) /\ Has(lru, key)
    BY SubCacheFacts
  <1> HIDE DEF lru
  <1>3. Filled(lru) /\ \A i \in DOMAIN lru.entries : Sound(o, lru.entries[i]) /\ lru.entries[i] \in VEntry
    BY <1>2 DEF VerdictsOk, Caches
  <1>4. /\ new \in Caches(VEntry) /\ Filled(new)
        /\ Entry(lru, key).key = key
        /\ \E j \in DOMAIN lru.entries : Entry(lru, key) = lru.entries[j]
        /\ \A i \in DOMAIN new.entries : \E j \in DOMAIN lru.entries :
               new.entries[i] = lru.entries[j]
    BY <1>2, <1>3, VerdictEntries, Touched
  <1> HIDE DEF new
  <1>5. VerdictsOk(o, new)
    BY <1>3, <1>4, VerdictEntries DEF VerdictsOk
  <1>6. Entry(lru, key) \in VEntry /\ Sound(o, Entry(lru, key))
    BY <1>3, <1>4
  <1>7. QED BY <1>1, <1>4, <1>5, <1>6 DEF VEntry, lru, new

(* A store keeps the verdicts of a schema sound. *)
LEMMA VerdictStored ==
    ASSUME Judged, NEW o, NEW key \in VerdictKey, NEW value \in Verdict, NEW size \in Nat,
           Sound(o, [key |-> key, value |-> value, size |-> size])
    PROVE  VerdictsOk(o, Admit(SubCache(o), key, value, size, EntryBound, TokenBudget))
  <1> DEFINE lru == SubCache(o)
             new == Admit(lru, key, value, size, EntryBound, TokenBudget)
             e == [key |-> key, value |-> value, size |-> size]
  <1>1. lru \in Caches(VEntry) /\ VerdictsOk(o, lru)
    BY SubCacheFacts
  <1>2. e \in VEntry
    BY DEF VEntry
  <1> HIDE DEF lru
  <1>3. Filled(lru) /\ \A i \in DOMAIN lru.entries : Sound(o, lru.entries[i])
    BY <1>1 DEF VerdictsOk
  <1>4. /\ new \in Caches(VEntry) /\ Filled(new)
        /\ \A i \in DOMAIN new.entries :
               new.entries[i] = e \/ \E j \in DOMAIN lru.entries : new.entries[i] = lru.entries[j]
    BY <1>1, <1>2, <1>3, VerdictEntries, Admitted
  <1>5. Sound(o, e)
    OBVIOUS
  <1> HIDE DEF new, e
  <1>6. VerdictsOk(o, new)
    BY <1>3, <1>4, <1>5, VerdictEntries DEF VerdictsOk
  <1>7. QED BY <1>6 DEF new, lru

LEMMA VerdictsStep ==
    ASSUME Base, Judged, Next
    PROVE  DOMAIN verdicts' \subseteq Schema
           /\ \A o \in DOMAIN verdicts' : VerdictsOk(o, verdicts[o])'
  <1> DEFINE Goal == DOMAIN verdicts' \subseteq Schema
                     /\ \A o \in DOMAIN verdicts' : VerdictsOk(o, verdicts[o])'
  <1>1. DOMAIN verdicts \subseteq Schema /\ \A o \in DOMAIN verdicts : VerdictsOk(o, verdicts[o])
    BY DEF Judged
  <1>2. ASSUME NEW o, NEW x, VerdictsOk(o, x), verdicts'[o] = x PROVE VerdictsOk(o, verdicts[o])'
    BY <1>2, StaysTorn DEF VerdictsOk, Sound, Filled
  <1>3. ASSUME DOMAIN verdicts' \subseteq DOMAIN verdicts,
               \A o \in DOMAIN verdicts' : verdicts'[o] = verdicts[o]
        PROVE  Goal
    BY <1>1, <1>2, <1>3
  <1>4. ASSUME Collect PROVE Goal
    BY <1>3, <1>4 DEF Collect
  <1>5. ASSUME UNCHANGED verdicts PROVE Goal
    BY <1>3, <1>5
  <1>6. ASSUME NEW t \in Thread, Validate(t) PROVE Goal
    <2> DEFINE key == <<request[t].query, LimitsKey>>
               o == schema[t]
    <2>1. CASE Has(SubCache(o), key)
      <3>1. o \in DOMAIN verdicts /\ VerdictsOk(o, Touch(SubCache(o), key))
        BY <2>1, VerdictHit
      <3>2. verdicts' = [verdicts EXCEPT ![o] = Touch(@, key)]
        BY <1>6, <2>1 DEF Validate
      <3>3. SubCache(o) = verdicts[o]
        BY <3>1 DEF SubCache
      <3>4. /\ DOMAIN verdicts' = DOMAIN verdicts
            /\ verdicts'[o] = Touch(SubCache(o), key)
            /\ \A p \in DOMAIN verdicts : p # o => verdicts'[p] = verdicts[p]
        BY <3>1, <3>2, <3>3
      <3> HIDE DEF o, key
      <3>5. ASSUME NEW p \in DOMAIN verdicts' PROVE VerdictsOk(p, verdicts[p])'
        <4>1. CASE p = o
          <5>1. PICK x : x = Touch(SubCache(o), key) /\ VerdictsOk(o, x)
            BY <3>1
          <5>2. PICK q : q = o /\ q = p
            BY <4>1
          <5>3. VerdictsOk(p, x) /\ verdicts'[p] = x
            BY <3>4, <4>1, <5>1
          <5>4. QED BY <1>2, <5>3
        <4>2. CASE p # o
          BY <1>1, <1>2, <3>4, <4>2
        <4>3. QED BY <4>1, <4>2
      <3>6. QED BY <1>1, <3>4, <3>5
    <2>2. QED BY <1>5, <1>6, <2>1 DEF Validate
  <1>7. ASSUME NEW t \in Thread, Judge(t) PROVE Goal
    <2> DEFINE q == request[t].query
               o == schema[t]
               value == [of |-> o.of, for |-> o.for, query |-> q, limits |-> limits]
               new == Admit(SubCache(o), <<q, request[t].key>>, value, TokensOf[q], EntryBound,
                            TokenBudget)
    <2>1. CASE EntryBound > 0 /\ Retained(q)
      <3>1. /\ pc[t] = "validating" /\ request[t] \in Request
        BY <1>7, Asked DEF Judge
      <3>2. o \in Schema
        BY <3>1 DEF Base, ThreadTypes, Programs, Program
      <3>3. q \in Query /\ request[t].key \in 0..MaxSettings /\ limits \in 0..MaxSettings
            /\ TokensOf[q] \in Nat
        BY <3>1, Constants DEF Request, Base, Clock
      <3>4. value \in Verdict /\ <<q, request[t].key>> \in VerdictKey
        BY <3>2, <3>3 DEF Schema, Verdict, VerdictKey
      <3>5. verdict' = [verdict EXCEPT ![t] = value] /\ t \in DOMAIN verdict
        BY <1>7 DEF Judge, Judged
      <3>6. verdicts' = [p \in DOMAIN verdicts \cup {o} |-> IF p = o THEN new ELSE verdicts[p]]
        <4>1. verdict'[t] = value
          BY <3>5
        <4>2. QED BY <1>7, <2>1, <4>1 DEF Judge
      <3>7. Sound(o, [key |-> <<q, request[t].key>>, value |-> value, size |-> TokensOf[q]])
        BY <3>1 DEF Judged, Asking, Sound
      <3> HIDE DEF o, value, q
      <3>8. VerdictsOk(o, new)
        BY <3>3, <3>4, <3>7, VerdictStored
      <3> HIDE DEF new
      <3>9. /\ DOMAIN verdicts' = DOMAIN verdicts \cup {o}
            /\ verdicts'[o] = new
            /\ \A p \in DOMAIN verdicts : p # o => verdicts'[p] = verdicts[p]
        BY <3>6
      <3>10. ASSUME NEW p \in DOMAIN verdicts' PROVE VerdictsOk(p, verdicts[p])'
        <4>1. CASE p = o
          <5>1. PICK x : x = new /\ VerdictsOk(o, x)
            BY <3>8
          <5>2. VerdictsOk(p, x) /\ verdicts'[p] = x
            BY <3>9, <4>1, <5>1
          <5>3. QED BY <1>2, <5>2
        <4>2. CASE p # o
          BY <1>1, <1>2, <3>9, <4>2
        <4>3. QED BY <4>1, <4>2
      <3>11. QED BY <1>1, <3>2, <3>9, <3>10
    <2>2. QED BY <1>5, <1>7, <2>1 DEF Judge
  <1>8. ASSUME ClearDocuments PROVE Goal
    <2>1. verdicts' = <<>>
      BY <1>8 DEF ClearDocuments
    <2>2. DOMAIN verdicts' = {}
      BY <2>1
    <2>3. QED BY <2>2
  <1>9. ASSUME NEW t \in Thread, Arrive(t) \/ Parse(t) \/ AdmitDocument(t) PROVE Goal
    <2>1. UNCHANGED verdicts
      BY <1>9 DEF Arrive, Parse, AdmitDocument, caches
    <2>2. QED BY <1>5, <2>1
  <1>10. ASSUME NEW t \in Thread,
                Select(t) \/ Acquire(t) \/ Build(t) \/ GiveUp(t) \/ Answer(t)
         PROVE  Goal
    <2>1. Collect
      BY <1>10 DEF Select, Acquire, Build, GiveUp, Answer
    <2>2. QED BY <1>4, <2>1
  <1>11. ASSUME Clear \/ \E f \in Full, a \in Address : Serve(f, a) PROVE Goal
    <2>1. Collect
      BY <1>11 DEF Clear, Serve
    <2>2. QED BY <1>4, <2>1
  <1>12. ASSUME SetLimits PROVE Goal
    <2>1. UNCHANGED verdicts
      BY <1>12 DEF SetLimits, caches
    <2>2. QED BY <1>5, <2>1
  <1> HIDE DEF Goal
  <1>13. Goal
    BY <1>6, <1>7, <1>8, <1>9, <1>10, <1>11, <1>12 DEF Next
  <1>14. QED BY <1>13 DEF Goal

LEMMA AskingStep ==
    ASSUME Base, Judged, Next
    PROVE  verdict' \in [Thread -> Verdict \cup {None}] /\ \A u \in Thread : Asking(u)'
  <1> DEFINE Typed == verdict' \in [Thread -> Verdict \cup {None}]
  <1>1. /\ pc \in [Thread -> Stage] /\ request \in [Thread -> Request \cup {None}]
        /\ verdict \in [Thread -> Verdict \cup {None}]
        /\ \A u \in Thread : Asking(u)
    BY DEF Base, ThreadTypes, Judged
  <1>2. ASSUME NEW u \in Thread, pc'[u] = pc[u], request'[u] = request[u], verdict'[u] = verdict[u],
               limits' = limits
        PROVE  Asking(u)'
    BY <1>1, <1>2, StaysTorn DEF Asking
  <1>3. ASSUME NEW u \in Thread, pc'[u] \notin {"validating", "done"} PROVE Asking(u)'
    BY <1>3 DEF Asking
  <1>4. ASSUME NEW t \in Thread, pc'[t] \notin {"validating", "done"}, limits' = limits,
               \A u \in Thread : u # t => pc'[u] = pc[u] /\ request'[u] = request[u],
               verdict' = verdict \/ verdict' = [verdict EXCEPT ![t] = None]
        PROVE  Typed /\ \A u \in Thread : Asking(u)'
    <2>1. \A u \in Thread : u # t => verdict'[u] = verdict[u]
      BY <1>1, <1>4
    <2>2. \A u \in Thread : Asking(u)'
      BY <1>2, <1>3, <1>4, <2>1
    <2>3. QED BY <1>1, <1>4, <2>2
  <1>5. ASSUME NEW t \in Thread, Arrive(t) \/ Select(t) \/ Acquire(t) \/ Build(t) \/ GiveUp(t)
        PROVE  Typed /\ \A u \in Thread : Asking(u)'
    <2>1. /\ pc'[t] \notin {"validating", "done"} /\ limits' = limits
          /\ \A u \in Thread : u # t => pc'[u] = pc[u] /\ request'[u] = request[u]
          /\ verdict' = verdict
      BY <1>1, <1>5 DEF Arrive, Select, Acquire, SecondLook, Build, GiveUp
    <2>2. QED BY <1>4, <2>1
  <1>6. ASSUME NEW t \in Thread, Parse(t) \/ AdmitDocument(t) \/ Answer(t)
        PROVE  Typed /\ \A u \in Thread : Asking(u)'
    <2>1. /\ pc'[t] \notin {"validating", "done"} /\ limits' = limits
          /\ \A u \in Thread : u # t => pc'[u] = pc[u] /\ request'[u] = request[u]
          /\ verdict' = verdict \/ verdict' = [verdict EXCEPT ![t] = None]
      BY <1>1, <1>6 DEF Parse, AdmitDocument, Answer
    <2>2. QED BY <1>4, <2>1
  <1>7. ASSUME NEW t \in Thread, Validate(t) PROVE Typed /\ \A u \in Thread : Asking(u)'
    <2> DEFINE key == <<request[t].query, LimitsKey>>
               value == Entry(SubCache(schema[t]), key).value
    <2>1. /\ pc[t] = "validate" /\ limits' = limits /\ torn' = torn
          /\ request' = [request EXCEPT ![t].key = LimitsKey, ![t].limits = limits]
      BY <1>7 DEF Validate
    <2>2. request[t] \in Request
      BY <2>1, Asked
    <2>3. /\ request'[t].full = request[t].full /\ request'[t].sig = request[t].sig
          /\ request'[t].query = request[t].query /\ request'[t].key = limits
          /\ request'[t].limits = limits
      BY <1>1, <2>1, <2>2 DEF Request, LimitsKey
    <2>4. \A u \in Thread : u # t => request'[u] = request[u]
      BY <1>1, <2>1
    <2>5. CASE Has(SubCache(schema[t]), key)
      <3>1. /\ verdict' = [verdict EXCEPT ![t] = value] /\ pc' = [pc EXCEPT ![t] = "done"]
        BY <1>7, <2>5 DEF Validate
      <3>2. /\ value \in Verdict /\ Entry(SubCache(schema[t]), key).key = key
            /\ Sound(schema[t], Entry(SubCache(schema[t]), key))
        BY <2>5, VerdictHit
      <3>3. /\ value.of = schema[t].of /\ value.for = schema[t].for
            /\ value.query = request[t].query /\ (~torn => value.limits = limits)
        BY <3>2 DEF Sound, LimitsKey
      <3>4. schema[t].of = request[t].full /\ schema[t].for = request[t].sig
        BY <2>1 DEF Base, Programs, Program
      <3> HIDE DEF value
      <3>5. verdict'[t] = value /\ pc'[t] = "done" /\ Typed
        BY <1>1, <3>1, <3>2
      <3>6. Asking(t)'
        BY <2>1, <2>3, <3>2, <3>3, <3>4, <3>5 DEF Asking
      <3>7. ASSUME NEW u \in Thread, u # t PROVE Asking(u)'
        BY <1>1, <1>2, <2>1, <2>4, <3>1, <3>7
      <3>8. QED BY <3>5, <3>6, <3>7
    <2>6. CASE ~Has(SubCache(schema[t]), key)
      <3>1. verdict' = verdict /\ pc' = [pc EXCEPT ![t] = "validating"]
        BY <1>7, <2>6 DEF Validate
      <3>2. Asking(t)'
        BY <1>1, <2>1, <2>3, <3>1 DEF Asking
      <3>3. ASSUME NEW u \in Thread, u # t PROVE Asking(u)'
        BY <1>1, <1>2, <2>1, <2>4, <3>1, <3>3
      <3>4. QED BY <1>1, <3>1, <3>2, <3>3
    <2>7. QED BY <2>5, <2>6
  <1>8. ASSUME NEW t \in Thread, Judge(t) PROVE Typed /\ \A u \in Thread : Asking(u)'
    <2> DEFINE value == [of |-> schema[t].of, for |-> schema[t].for, query |-> request[t].query,
                         limits |-> limits]
    <2>1. /\ pc[t] = "validating" /\ limits' = limits /\ torn' = torn /\ request' = request
          /\ verdict' = [verdict EXCEPT ![t] = value] /\ pc' = [pc EXCEPT ![t] = "done"]
      BY <1>8 DEF Judge
    <2>2. schema[t] \in Schema /\ schema[t].of = request[t].full /\ schema[t].for = request[t].sig
          /\ request[t] \in Request /\ limits \in 0..MaxSettings
      BY <2>1, Asked DEF Base, Clock, ThreadTypes, Programs, Program
    <2>3. value \in Verdict
      BY <2>2 DEF Schema, Request, Verdict
    <2>4. ~torn => limits = request[t].limits
      BY <1>1, <2>1 DEF Asking
    <2>5. /\ value.of = request[t].full /\ value.for = request[t].sig
          /\ value.query = request[t].query /\ value.limits = limits
      BY <2>2
    <2> HIDE DEF value
    <2>6. verdict'[t] = value /\ pc'[t] = "done" /\ Typed
      BY <1>1, <2>1, <2>3
    <2>7. Asking(t)'
      BY <2>1, <2>3, <2>4, <2>5, <2>6 DEF Asking
    <2>8. ASSUME NEW u \in Thread, u # t PROVE Asking(u)'
      BY <1>1, <1>2, <2>1, <2>8
    <2>9. QED BY <2>6, <2>7, <2>8
  <1>9. ASSUME Clear \/ ClearDocuments \/ \E f \in Full, a \in Address : Serve(f, a)
        PROVE  Typed /\ \A u \in Thread : Asking(u)'
    <2>1. UNCHANGED <<pc, request, verdict, limits>>
      BY <1>9 DEF Clear, ClearDocuments, Serve, threads
    <2>2. QED BY <1>1, <1>2, <2>1
  <1>10. ASSUME SetLimits PROVE Typed /\ \A u \in Thread : Asking(u)'
    <2>1. /\ UNCHANGED <<pc, request, verdict>>
          /\ torn' = (torn \/ \E t \in Thread : pc[t] = "validating")
      BY <1>10 DEF SetLimits, threads
    <2>2. ASSUME NEW u \in Thread PROVE Asking(u)'
      BY <1>1, <2>1 DEF Asking
    <2>3. QED BY <1>1, <2>1, <2>2
  <1> HIDE DEF Typed
  <1>11. Typed /\ \A u \in Thread : Asking(u)'
    BY <1>5, <1>6, <1>7, <1>8, <1>9, <1>10 DEF Next
  <1>12. QED BY <1>11 DEF Typed

LEMMA JudgedHolds ==
    Spec => []Judged
  <1>1. Init => Judged
    <2>1. SUFFICES ASSUME Init PROVE Judged
      OBVIOUS
    <2>2. DocumentsOk
      <3> DEFINE E == [key : Query, value : Query, size : Nat]
      <3>1. Sized(E) /\ LRU(Query, Query) = Caches(E)
        BY DEF Sized, LRU, Caches
      <3> HIDE DEF E
      <3>2. documents = EmptyLRU
        BY <2>1 DEF Init
      <3>3. QED BY <3>1, <3>2, Emptied DEF DocumentsOk
    <2>3. DOMAIN verdicts = {}
      BY <2>1 DEF Init
    <2>4. verdict \in [Thread -> Verdict \cup {None}] /\ \A t \in Thread : Asking(t)
      BY <2>1 DEF Init, Asking
    <2>5. QED BY <2>2, <2>3, <2>4 DEF Judged
  <1>2. Base /\ Judged /\ [Next]_vars => Judged'
    <2>1. ASSUME Base, Judged, Next PROVE Judged'
      BY <2>1, DocumentsStep, VerdictsStep, AskingStep DEF Judged
    <2>2. ASSUME Judged, UNCHANGED vars PROVE Judged'
      BY <2>2 DEF vars, Judged, DocumentsOk, VerdictsOk, Filled, Sound, Asking
    <2>3. QED BY <2>1, <2>2
  <1>3. QED BY <1>1, <1>2, BaseHolds, PTL DEF Spec

(* Types (TypeOK). *)
THEOREM QueryCachesTypes ==
    Spec => []TypeOK
  <1>1. Base /\ Judged => TypeOK
    BY DEF Base, Clock, ThreadTypes, Stage, Addresses, Entries, Judged, DocumentsOk, VerdictsOk,
           TypeOK
  <1>2. QED BY <1>1, BaseHolds, JudgedHolds, PTL

(* A verdict is about the schema and the query of its request (OwnVerdict).  *)
THEOREM OwnVerdicts ==
    Spec => []OwnVerdict
  <1>1. Judged => OwnVerdict
    BY DEF Judged, Asking, OwnVerdict
  <1>2. QED BY <1>1, JudgedHolds, PTL

(* Every cache keeps to its bounds and knows its total (WithinBounds).       *)
THEOREM KeptWithinBounds ==
    Spec => []WithinBounds
  <1>1. Base /\ Judged => WithinBounds
    BY DEF Base, Entries, Keyed, Judged, DocumentsOk, VerdictsOk, Filled, WithinBounds
  <1>2. QED BY <1>1, BaseHolds, JudgedHolds, PTL

-----------------------------------------------------------------------------
(* The pruning of a schema: SchemaPruner, for every schema that the         *)
(* compiler hands over and every grants.                                    *)
INSTANCE SchemaPruner

(* A loop that replaces c by next[c] until nothing changes, as a function.  *)
IsLoop(D, next, g) == g = [c \in D |-> IF next[c] = c THEN c ELSE g[next[c]]]

(* There is one: what every set that holds c and is closed under the step   *)
(* holds is on the way from c, and the loop ends where the way does.        *)
Onward(D, next, c) ==
    {d \in D : \A T \in SUBSET D : c \in T /\ (\A e \in T : next[e] \in T) => d \in T}
Ends(D, next, c) == {d \in Onward(D, next, c) : next[d] = d}
LoopOf(D, next) == [c \in D |-> CHOOSE d : d \in Ends(D, next, c)]

LEMMA LoopExists ==
    ASSUME NEW D, NEW next \in [D -> D]
    PROVE  IsLoop(D, next, LoopOf(D, next))
  <1>1. ASSUME NEW c \in D, next[c] = c PROVE Ends(D, next, c) = {c}
    <2>1. c \in Onward(D, next, c)
      BY DEF Onward
    <2>2. Onward(D, next, c) \subseteq {c}
      BY <1>1 DEF Onward
    <2>3. QED BY <1>1, <2>1, <2>2 DEF Ends
  <1>2. ASSUME NEW c \in D, next[c] # c PROVE Ends(D, next, c) = Ends(D, next, next[c])
    <2>1. ASSUME NEW d \in Onward(D, next, c), next[d] = d PROVE d \in Onward(D, next, next[c])
      <3> SUFFICES ASSUME NEW T \in SUBSET D, next[c] \in T, \A e \in T : next[e] \in T
                   PROVE  d \in T
        BY DEF Onward
      <3>1. T \cup {c} \in SUBSET D /\ \A e \in T \cup {c} : next[e] \in T \cup {c}
        OBVIOUS
      <3>2. d \in T \cup {c}
        BY <3>1 DEF Onward
      <3>3. d # c
        BY <1>2, <2>1
      <3>4. QED BY <3>2, <3>3
    <2>2. Onward(D, next, next[c]) \subseteq Onward(D, next, c)
      BY DEF Onward
    <2>3. QED BY <2>1, <2>2 DEF Ends
  <1> DEFINE g == LoopOf(D, next)
  <1>3. ASSUME NEW c \in D
        PROVE  (CHOOSE d : d \in Ends(D, next, c)) = IF next[c] = c THEN c ELSE g[next[c]]
    <2>1. CASE next[c] = c
      <3>1. (CHOOSE d : d \in Ends(D, next, c)) = CHOOSE d : d \in {c}
        BY <1>1, <2>1
      <3>2. (CHOOSE d : d \in {c}) = c
        OBVIOUS
      <3>3. QED BY <2>1, <3>1, <3>2
    <2>2. CASE next[c] # c
      <3>1. g[next[c]] = CHOOSE d : d \in Ends(D, next, next[c])
        BY DEF LoopOf
      <3>2. QED BY <1>2, <2>2, <3>1
    <2>3. QED BY <2>1, <2>2
  <1>4. g = [c \in D |-> CHOOSE d : d \in Ends(D, next, c)]
    BY DEF LoopOf
  <1> HIDE DEF g
  <1>5. g = [c \in D |-> IF next[c] = c THEN c ELSE g[next[c]]]
    <2> DEFINE h == [c \in D |-> IF next[c] = c THEN c ELSE g[next[c]]]
    <2>1. ASSUME NEW c \in D PROVE g[c] = h[c]
      <3>1. h[c] = IF next[c] = c THEN c ELSE g[next[c]]
        OBVIOUS
      <3>2. g[c] = CHOOSE d : d \in Ends(D, next, c)
        BY <1>4
      <3> HIDE DEF h
      <3>3. QED BY <1>3, <3>1, <3>2
    <2>2. h = [c \in D |-> h[c]]
      OBVIOUS
    <2>3. g = [c \in D |-> g[c]]
      BY <1>4
    <2> HIDE DEF h
    <2>4. g = h
      BY <2>1, <2>2, <2>3
    <2>5. QED BY <2>4 DEF h
  <1>6. IsLoop(D, next, g)
    BY <1>5 DEF IsLoop
  <1>7. QED BY <1>6 DEF g

(* What every step from it keeps holds where it ends, and it does end, if   *)
(* the steps count down.                                                    *)
LEMMA LoopEnds ==
    ASSUME NEW D, NEW next \in [D -> D], NEW g, IsLoop(D, next, g),
           NEW T \in SUBSET D, \A c \in T : next[c] \in T,
           NEW rank \in [T -> Nat], \A c \in T : next[c] = c \/ rank[next[c]] < rank[c],
           NEW start \in T
    PROVE  g[start] \in T /\ next[g[start]] = g[start]
  <1> DEFINE Fine(c) == g[c] \in T /\ next[g[c]] = g[c]
             Open == {n \in Nat : \E c \in T : rank[c] = n /\ ~Fine(c)}
  <1>1. SUFFICES ASSUME Open # {} PROVE FALSE
    <2>1. ASSUME Open = {} PROVE Fine(start)
      <3>1. rank[start] \in Nat
        OBVIOUS
      <3>2. QED BY <2>1, <3>1
    <2>2. QED BY <1>1, <2>1
  <1>2. PICK n \in Open : \A k \in Open : n <= k
    <2>1. Open \in SUBSET Nat
      OBVIOUS
    <2> HIDE DEF Open
    <2>2. QED BY <1>1, <2>1, Least
  <1>3. PICK c \in T : rank[c] = n /\ ~Fine(c)
    OBVIOUS
  <1>4. g[c] = IF next[c] = c THEN c ELSE g[next[c]]
    <2> DEFINE f == [x \in D |-> IF next[x] = x THEN x ELSE g[next[x]]]
    <2>1. f[c] = IF next[c] = c THEN c ELSE g[next[c]]
      OBVIOUS
    <2>2. g = f
      BY DEF IsLoop
    <2> HIDE DEF f
    <2>3. QED BY <2>1, <2>2
  <1>5. next[c] # c
    BY <1>3, <1>4
  <1>6. next[c] \in T /\ rank[next[c]] < n /\ rank[next[c]] \in Nat /\ ~Fine(next[c])
    BY <1>3, <1>4, <1>5
  <1>7. rank[next[c]] \in Open
    BY <1>6
  <1>8. QED BY <1>2, <1>6, <1>7

-----------------------------------------------------------------------------
(* What survives is the most that supports itself, in whatever order the    *)
(* empty types are discarded.                                               *)
Greatest(schm, filtered, alive) ==
    /\ alive \subseteq NamesOf(schm) /\ NotEmpty(schm, filtered, alive) = alive
    /\ \A names \in SUBSET NamesOf(schm) :
          names \subseteq NotEmpty(schm, filtered, names) => names \subseteq alive

LEMMA FewerIsEmptier ==
    ASSUME NEW schm, NEW filtered, NEW t, NEW more, NEW names \in SUBSET more,
           Empty(schm, filtered, t, more)
    PROVE  Empty(schm, filtered, t, names)
  BY DEF Empty, FieldSurvives

(* The function that Survivors is defined from is a loop.                   *)
LEMMA SurvivorsLoop ==
    ASSUME NEW schm, NEW filtered, NEW D, D = SUBSET NamesOf(schm),
           NEW next, next = [c \in D |-> NotEmpty(schm, filtered, c)]
    PROVE  \E g : IsLoop(D, next, g) /\ Survivors(schm, filtered) = g[NamesOf(schm)]
  <1> DEFINE IsIt(g) == g = [c \in SUBSET NamesOf(schm) |->
                               IF NotEmpty(schm, filtered, c) = c THEN c
                               ELSE g[NotEmpty(schm, filtered, c)]]
             it == CHOOSE g : IsIt(g)
  <1>1. ASSUME NEW g, IsLoop(D, next, g) PROVE IsIt(g)
    BY <1>1 DEF IsLoop
  <1>2. ASSUME NEW g, IsIt(g) PROVE IsLoop(D, next, g)
    BY <1>2 DEF IsLoop
  <1>3. next \in [D -> D]
    BY DEF NotEmpty
  <1>4. \E g : IsIt(g)
    <2>1. IsLoop(D, next, LoopOf(D, next))
      BY <1>3, LoopExists
    <2> HIDE DEF IsIt
    <2>2. QED BY <1>1, <2>1
  <1>5. Survivors(schm, filtered) = it[NamesOf(schm)]
    BY DEF Survivors
  <1> HIDE DEF IsIt
  <1>6. IsIt(it)
    BY <1>4
  <1> HIDE DEF it
  <1>7. QED BY <1>2, <1>5, <1>6

LEMMA SurvivorsAreGreatest ==
    ASSUME NEW schm, NEW filtered, IsFiniteSet(NamesOf(schm))
    PROVE  Greatest(schm, filtered, Survivors(schm, filtered))
  <1> DEFINE N == NamesOf(schm)
             D == SUBSET N
             left(c) == NotEmpty(schm, filtered, c)
             next == [c \in D |-> left(c)]
             T == {c \in D : \A names \in D : names \subseteq left(names) => names \subseteq c}
             rank == [c \in T |-> Cardinality(c)]
  <1>1. PICK g : IsLoop(D, next, g) /\ Survivors(schm, filtered) = g[N]
    BY SurvivorsLoop
  <1>2. \A c \in D : left(c) \subseteq c
    BY DEF NotEmpty
  <1>3. next \in [D -> D]
    BY <1>2
  <1>4. ASSUME NEW c \in T PROVE next[c] \in T
    <2>1. ASSUME NEW names \in D, names \subseteq left(names) PROVE names \subseteq left(c)
      <3>1. names \subseteq c
        BY <2>1
      <3>2. ASSUME NEW t \in names PROVE t \in left(c)
        BY <2>1, <3>1, <3>2, FewerIsEmptier DEF NotEmpty
      <3>3. QED BY <3>2
    <2>2. QED BY <1>2, <2>1
  <1>5. \A c \in D : Cardinality(c) \in Nat /\ IsFiniteSet(c)
    BY FS_Subset, FS_CardinalityType
  <1>6. ASSUME NEW c \in T, next[c] # c PROVE rank[next[c]] < rank[c]
    <2>1. next[c] \subseteq c /\ IsFiniteSet(c) /\ next[c] \in T
      BY <1>2, <1>4, <1>5
    <2>2. Cardinality(next[c]) < Cardinality(c)
      <3>1. PICK d \in SUBSET c : d = next[c]
        BY <2>1
      <3>2. d # c /\ Cardinality(d) <= Cardinality(c) /\ (Cardinality(c) = Cardinality(d) => c = d)
        BY <1>6, <2>1, <3>1, FS_Subset
      <3>3. Cardinality(c) \in Nat /\ Cardinality(d) \in Nat
        BY <1>5
      <3>4. Cardinality(d) < Cardinality(c)
        BY <3>2, <3>3
      <3>5. QED BY <3>1, <3>4
    <2>3. QED BY <2>1, <2>2
  <1>7. N \in T
    OBVIOUS
  <1>8. rank \in [T -> Nat] /\ T \in SUBSET D /\ \A c \in T : next[c] = c \/ rank[next[c]] < rank[c]
    BY <1>5, <1>6
  <1>9. g[N] \in T /\ next[g[N]] = g[N]
    <2>1. \A c \in T : next[c] \in T
      BY <1>4
    <2> HIDE DEF T, next, rank, D, N
    <2>2. QED BY <1>1, <1>3, <1>7, <1>8, <2>1, LoopEnds
  <1>10. QED BY <1>1, <1>9 DEF Greatest

(* _compute_survivors discards a type as soon as it finds it empty, in the  *)
(* order of the type map, and not all empty ones at once: what is left      *)
(* always has every survivor, and when nothing in it is empty it is them.   *)
THEOREM DiscardedInAnyOrder ==
    ASSUME NEW schm, NEW filtered, IsFiniteSet(NamesOf(schm)),
           NEW candidates \in SUBSET NamesOf(schm), Survivors(schm, filtered) \subseteq candidates
    PROVE  /\ \A t \in candidates : Empty(schm, filtered, t, candidates) =>
                 Survivors(schm, filtered) \subseteq candidates \ {t}
           /\ (\A t \in candidates : ~Empty(schm, filtered, t, candidates)) =>
                 candidates = Survivors(schm, filtered)
  <1> DEFINE alive == Survivors(schm, filtered)
  <1>1. Greatest(schm, filtered, alive)
    BY SurvivorsAreGreatest
  <1>2. ASSUME NEW t \in candidates, Empty(schm, filtered, t, candidates) PROVE t \notin alive
    <2>1. ASSUME t \in alive PROVE Empty(schm, filtered, t, alive)
      BY <1>2, FewerIsEmptier
    <2>2. QED BY <1>1, <2>1 DEF Greatest, NotEmpty
  <1>3. ASSUME \A t \in candidates : ~Empty(schm, filtered, t, candidates)
        PROVE  candidates \subseteq alive
    <2>1. candidates \subseteq NotEmpty(schm, filtered, candidates)
      BY <1>3 DEF NotEmpty
    <2>2. QED BY <1>1, <2>1 DEF Greatest
  <1>4. QED BY <1>2, <1>3

-----------------------------------------------------------------------------
(* What is reached holds what it began with and all that it refers to.      *)
Space(types, names) == SUBSET (names \cup Named(types, DOMAIN types))
Step(types, names) == [c \in Space(types, names) |-> Named(types, c)]

LEMMA ReachedLoop ==
    ASSUME NEW types, NEW names
    PROVE  /\ Step(types, names) \in [Space(types, names) -> Space(types, names)]
           /\ \E g : /\ IsLoop(Space(types, names), Step(types, names), g)
                     /\ Reached(types, names) = g[names]
  <1> USE DEF Space, Step
  <1> DEFINE D == Space(types, names)
             next == Step(types, names)
             IsIt(g) == g = [c \in SUBSET (names \cup Named(types, DOMAIN types)) |->
                               IF Named(types, c) = c THEN c ELSE g[Named(types, c)]]
             it == CHOOSE g : IsIt(g)
  <1>1. ASSUME NEW g, IsLoop(D, next, g) PROVE IsIt(g)
    BY <1>1 DEF IsLoop
  <1>2. ASSUME NEW g, IsIt(g) PROVE IsLoop(D, next, g)
    BY <1>2 DEF IsLoop
  <1>3. next \in [D -> D]
    <2>1. ASSUME NEW c \in D PROVE Named(types, c) \in D
      BY DEF Named
    <2>2. QED BY <2>1
  <1>4. \E g : IsIt(g)
    <2>1. IsLoop(D, next, LoopOf(D, next))
      BY <1>3, LoopExists
    <2> HIDE DEF IsIt
    <2>2. QED BY <1>1, <2>1
  <1>5. Reached(types, names) = it[names]
    BY DEF Reached
  <1> HIDE DEF IsIt
  <1>6. IsIt(it)
    BY <1>4
  <1> HIDE DEF it
  <1>7. QED BY <1>2, <1>3, <1>5, <1>6

LEMMA ReachedIsClosed ==
    ASSUME NEW types, NEW V, IsFiniteSet(V), DOMAIN types \subseteq V,
           \A t \in DOMAIN types : References(types[t]) \subseteq V, NEW names \in SUBSET V
    PROVE  /\ names \subseteq Reached(types, names) /\ Reached(types, names) \subseteq V
           /\ \A t \in Reached(types, names) \cap DOMAIN types :
                 References(types[t]) \subseteq Reached(types, names)
  <1> DEFINE U == names \cup Named(types, DOMAIN types)
             D == SUBSET U
             next == [c \in D |-> Named(types, c)]
             T == {c \in D : names \subseteq c}
             rank == [c \in T |-> Cardinality(U \ c)]
  <1>1. next \in [D -> D] /\ \E g : IsLoop(D, next, g) /\ Reached(types, names) = g[names]
    BY ReachedLoop DEF Space, Step
  <1>2. PICK g : IsLoop(D, next, g) /\ Reached(types, names) = g[names]
    BY <1>1
  <1>3. U \subseteq V /\ IsFiniteSet(U)
    <2>1. U \subseteq V
      BY DEF Named
    <2>2. QED BY <2>1, FS_Subset
  <1>4. \A c \in D : c \subseteq next[c]
    BY DEF Named
  <1>5. \A c \in T : next[c] \in T
    <2> HIDE DEF next, U
    <2>1. QED BY <1>1, <1>4
  <1> HIDE DEF U, next
  <1>6. ASSUME NEW c \in T
        PROVE  Cardinality(U \ c) \in Nat
    BY <1>3, FS_Subset, FS_CardinalityType
  <1>7. ASSUME NEW c \in T, next[c] # c PROVE rank[next[c]] < rank[c]
    <2>1. PICK d \in T : d = next[c]
      BY <1>5
    <2>2. c \subseteq d /\ d # c
      BY <1>4, <1>7, <2>1
    <2>3. U \ d \in SUBSET (U \ c) /\ U \ d # U \ c /\ IsFiniteSet(U \ c)
      BY <1>3, <2>1, <2>2, FS_Subset
    <2>4. Cardinality(U \ d) <= Cardinality(U \ c) /\ Cardinality(U \ d) # Cardinality(U \ c)
      BY <2>3, FS_Subset
    <2>5. Cardinality(U \ d) < Cardinality(U \ c)
      BY <1>6, <2>1, <2>4
    <2>6. QED BY <2>1, <2>5
  <1>8. rank \in [T -> Nat] /\ T \in SUBSET D /\ \A c \in T : next[c] = c \/ rank[next[c]] < rank[c]
    BY <1>6, <1>7
  <1>9. names \in T
    BY DEF U
  <1>10. g[names] \in T /\ next[g[names]] = g[names]
    <2> HIDE DEF T, rank, D
    <2>1. QED BY <1>1, <1>2, <1>5, <1>8, <1>9, LoopEnds
  <1>11. PICK found \in T : found = Reached(types, names) /\ next[found] = found
    BY <1>2, <1>10
  <1>12. Named(types, found) = found
    BY <1>11 DEF next
  <1>13. \A t \in found \cap DOMAIN types : References(types[t]) \subseteq found
    BY <1>12 DEF Named
  <1>14. QED BY <1>3, <1>11, <1>13

-----------------------------------------------------------------------------
(* The parts of a pruned schema.                                            *)
Left(full, g) == Survivors(full, Filtered(full, g))
KeptFields(full, g, t) ==
    {x \in Filtered(full, g)[t] : FieldSurvives(FieldsOf(full, t)[x], Left(full, g))}
Clone(full, g, t) == CloneOf(full, t, Filtered(full, g), Left(full, g), g)
Clones(full, g) == [t \in Left(full, g) |-> Clone(full, g, t)]
Mounted(full, g) ==
    Reached(Clones(full, g), (full.roots \cap Left(full, g)) \cup Forwarded(full, Left(full, g)))

LEMMA LeftIsGreatest ==
    ASSUME NEW full, NEW g, Prunable(full)
    PROVE  Greatest(full, Filtered(full, g), Left(full, g)) /\ IsFiniteSet(Left(full, g))
  <1>1. IsFiniteSet(NamesOf(full))
    BY DEF Prunable
  <1>2. Greatest(full, Filtered(full, g), Left(full, g))
    BY <1>1, SurvivorsAreGreatest DEF Left
  <1>3. QED BY <1>1, <1>2, FS_Subset DEF Greatest

LEMMA FieldsPermitted ==
    ASSUME NEW full, NEW g, NEW t \in NamesOf(full)
    PROVE  \A x : x \in Filtered(full, g)[t] <=>
                  /\ x \in DOMAIN FieldsOf(full, t)
                  /\ Permitted(full, t, FieldsOf(full, t)[x], g)
  BY DEF Filtered

(* A nested input, and whatever that nests, has no field to lose: together   *)
(* with the leaves they support themselves.                                 *)
LEMMA NestedInputsSurvive ==
    ASSUME NEW full, NEW g, Prunable(full), NEW t \in NamesOf(full), full.types[t].kind = "input",
           NEW x \in DOMAIN FieldsOf(full, t)
    PROVE  FieldSurvives(FieldsOf(full, t)[x], Left(full, g))
  <1> DEFINE leaves == {u \in NamesOf(full) : full.types[u].kind = "leaf"}
             whole == {u \in NamesOf(full) : full.types[u].kind = "input" /\
                          \A y \in DOMAIN FieldsOf(full, u) : Unstamped(FieldsOf(full, u)[y])}
             filtered == Filtered(full, g)
  <1>1. ASSUME NEW u \in NamesOf(full), full.types[u].kind = "input",
               NEW y \in DOMAIN FieldsOf(full, u)
        PROVE  FieldSurvives(FieldsOf(full, u)[y], leaves \cup whole)
    <2>1. FieldsOf(full, u)[y].type \in NamesOf(full)
      BY <1>1 DEF Prunable, IsSchema, References, FieldsOf
    <2>2. QED BY <1>1, <2>1 DEF Prunable, FlatInputs, FieldSurvives
  <1>2. ASSUME NEW u \in leaves \cup whole PROVE ~Empty(full, filtered, u, leaves \cup whole)
    <2>1. CASE u \in leaves
      BY <2>1 DEF Empty
    <2>2. CASE u \in whole
      <3>1. PICK y : y \in DOMAIN FieldsOf(full, u)
        BY <2>2 DEF Prunable, IsSchema, FieldsOf
      <3>2. y \in filtered[u]
        BY <2>2, <3>1, FieldsPermitted DEF Permitted, StampHeld, Unstamped
      <3>3. FieldSurvives(FieldsOf(full, u)[y], leaves \cup whole)
        BY <1>1, <2>2, <3>1
      <3> HIDE DEF filtered, leaves
      <3>4. QED BY <2>2, <3>2, <3>3 DEF Empty
    <2>3. QED BY <2>1, <2>2
  <1>3. leaves \cup whole \subseteq Left(full, g)
    <2>1. leaves \cup whole \subseteq NotEmpty(full, filtered, leaves \cup whole)
      BY <1>2 DEF NotEmpty
    <2>2. leaves \cup whole \in SUBSET NamesOf(full)
      OBVIOUS
    <2> HIDE DEF leaves, whole
    <2>3. QED BY <2>1, <2>2, LeftIsGreatest DEF Greatest
  <1>4. FieldSurvives(FieldsOf(full, t)[x], leaves \cup whole)
    BY <1>1
  <1> HIDE DEF leaves, whole
  <1>5. QED BY <1>3, <1>4 DEF FieldSurvives

(* What cloning changes of a field, and of a type.                          *)
LEMMA Offered ==
    ASSUME NEW f, NEW g, DOMAIN f = {"type", "args", "stamp", "actions", "values"}
    PROVE  /\ Offering(f, g).type = f.type /\ Offering(f, g).args = f.args
           /\ Offering(f, g).stamp = f.stamp /\ Offering(f, g).actions = f.actions
           /\ Offering(f, g).values =
                 IF DOMAIN f.actions = {} THEN f.values ELSE f.values \cap SurvivingActions(f, g)
  BY DEF Offering

LEMMA Cloned ==
    ASSUME NEW full, NEW g, Prunable(full), NEW t \in Left(full, g)
    PROVE  /\ Clone(full, g, t).kind = full.types[t].kind
           /\ Clone(full, g, t).members = full.types[t].members \cap Left(full, g)
           /\ Clone(full, g, t).interfaces = full.types[t].interfaces \cap Left(full, g)
  <1>1. t \in NamesOf(full)
    BY LeftIsGreatest DEF Greatest
  <1>2. DOMAIN full.types[t] = {"kind", "model", "fields", "members", "interfaces"}
    BY <1>1 DEF Prunable, WellFormed
  <1>3. QED BY <1>2 DEF Clone, CloneOf

LEMMA ClonedFields ==
    ASSUME NEW full, NEW g, Prunable(full), NEW t \in Left(full, g)
    PROVE  Clone(full, g, t).fields =
               [x \in KeptFields(full, g, t) |-> Offering(FieldsOf(full, t)[x], g)]
  <1> DEFINE type == full.types[t]
             filtered == Filtered(full, g)
             kept == {x \in filtered[t] :
                         type.kind = "input" \/ FieldSurvives(type.fields[x], Left(full, g))}
  <1>1. t \in NamesOf(full)
    BY LeftIsGreatest DEF Greatest
  <1>2. DOMAIN type = {"kind", "model", "fields", "members", "interfaces"}
    BY <1>1 DEF Prunable, WellFormed
  <1>3. kept = KeptFields(full, g, t)
    <2>1. ASSUME NEW x \in filtered[t], type.kind = "input"
          PROVE  FieldSurvives(type.fields[x], Left(full, g))
      <3>1. x \in DOMAIN FieldsOf(full, t)
        BY <1>1, <2>1, FieldsPermitted
      <3>2. FieldSurvives(FieldsOf(full, t)[x], Left(full, g))
        BY <1>1, <2>1, <3>1, NestedInputsSurvive
      <3>3. QED BY <3>2 DEF FieldsOf
    <2>2. QED BY <2>1 DEF KeptFields, FieldsOf
  <1>4. Clone(full, g, t) =
           [type EXCEPT !.fields = [x \in kept |-> Offering(type.fields[x], g)],
                        !.members = @ \cap Left(full, g), !.interfaces = @ \cap Left(full, g)]
    BY DEF Clone, CloneOf
  <1> HIDE DEF kept, type
  <1>5. Clone(full, g, t).fields = [x \in KeptFields(full, g, t) |-> Offering(type.fields[x], g)]
    BY <1>2, <1>3, <1>4
  <1>6. QED BY <1>5 DEF type, FieldsOf

LEMMA ReferencesSurvive ==
    ASSUME NEW full, NEW g, Prunable(full), NEW t \in Left(full, g)
    PROVE  References(Clone(full, g, t)) \subseteq Left(full, g)
  <1> DEFINE clone == Clone(full, g, t)
             left == Left(full, g)
  <1>1. /\ clone.members \subseteq left /\ clone.interfaces \subseteq left
        /\ clone.fields = [x \in KeptFields(full, g, t) |-> Offering(FieldsOf(full, t)[x], g)]
    BY Cloned, ClonedFields
  <1>2. ASSUME NEW x \in DOMAIN clone.fields
        PROVE  clone.fields[x].type \in left /\ clone.fields[x].args \subseteq left
    <2>1. x \in KeptFields(full, g, t) /\ clone.fields[x] = Offering(FieldsOf(full, t)[x], g)
      BY <1>1, <1>2
    <2>2. t \in NamesOf(full)
      BY LeftIsGreatest DEF Greatest
    <2>3. DOMAIN FieldsOf(full, t)[x] = {"type", "args", "stamp", "actions", "values"}
      BY <2>1, <2>2, FieldsPermitted DEF KeptFields, Prunable, WellFormed, FieldsOf
    <2>4. FieldSurvives(FieldsOf(full, t)[x], left)
      BY <2>1 DEF KeptFields
    <2>5. PICK f : f = FieldsOf(full, t)[x]
      OBVIOUS
    <2>6. f.type \in left /\ f.args \subseteq left
      BY <2>4, <2>5 DEF FieldSurvives
    <2>7. clone.fields[x].type = f.type /\ clone.fields[x].args = f.args
      <3>1. Offering(f, g).type = f.type /\ Offering(f, g).args = f.args
        BY <2>3, <2>5, Offered
      <3>2. clone.fields[x] = Offering(f, g)
        BY <2>1, <2>5
      <3> HIDE DEF clone
      <3>3. QED BY <3>1, <3>2
    <2>8. QED BY <2>6, <2>7
  <1> HIDE DEF clone, left
  <1>3. References(clone) \subseteq left
    BY <1>1, <1>2 DEF References
  <1>4. QED BY <1>3 DEF clone, left

LEMMA MountedIsClosed ==
    ASSUME NEW full, NEW g, Prunable(full)
    PROVE  /\ Mounted(full, g) \subseteq Left(full, g)
           /\ (full.roots \cap Left(full, g)) \cup Forwarded(full, Left(full, g))
                 \subseteq Mounted(full, g)
           /\ \A t \in Mounted(full, g) : References(Clone(full, g, t)) \subseteq Mounted(full, g)
  <1> DEFINE left == Left(full, g)
             names == (full.roots \cap left) \cup Forwarded(full, left)
             types == Clones(full, g)
  <1>1. IsFiniteSet(left) /\ names \in SUBSET left
    BY LeftIsGreatest DEF Forwarded
  <1>2. DOMAIN types = left /\ \A t \in left : types[t] = Clone(full, g, t)
    BY DEF Clones
  <1>3. \A t \in DOMAIN types : References(types[t]) \subseteq left
    BY <1>2, ReferencesSurvive
  <1>4. Mounted(full, g) = Reached(types, names)
    BY DEF Mounted
  <1> HIDE DEF left, names, types
  <1>5. /\ names \subseteq Reached(types, names) /\ Reached(types, names) \subseteq left
        /\ \A t \in Reached(types, names) \cap DOMAIN types :
              References(types[t]) \subseteq Reached(types, names)
    BY <1>1, <1>2, <1>3, ReachedIsClosed
  <1>6. \A t \in Mounted(full, g) : References(Clone(full, g, t)) \subseteq Mounted(full, g)
    BY <1>2, <1>4, <1>5
  <1>7. names \subseteq Mounted(full, g) /\ Mounted(full, g) \subseteq left
    BY <1>4, <1>5
  <1>8. QED BY <1>6, <1>7 DEF left, names

(* The pruned schema, by its parts. *)
LEMMA PrunedParts ==
    ASSUME NEW full, NEW grants, Prunable(full)
    PROVE  /\ DOMAIN Prune(full, grants) = DOMAIN full
           /\ Prune(full, grants).roots = full.roots \cap Left(full, Granted(full, grants))
           /\ Prune(full, grants).grants = Granted(full, grants)
           /\ NamesOf(Prune(full, grants)) = Mounted(full, Granted(full, grants))
           /\ \A t \in Mounted(full, Granted(full, grants)) :
                 Prune(full, grants).types[t] = Clone(full, Granted(full, grants), t)
           /\ Prune(full, grants).types =
                 [t \in Mounted(full, Granted(full, grants)) |-> Prune(full, grants).types[t]]
  <1>0. PICK g : g = Granted(full, grants)
    OBVIOUS
  <1> DEFINE schm == Prune(full, grants)
  <1> DEFINE types == [t \in Mounted(full, g) \cap Left(full, g) |-> Clones(full, g)[t]]
  <1>1. schm = [full EXCEPT !.types = types, !.roots = @ \cap Left(full, g), !.grants = g]
    BY <1>0 DEF Prune, Left, Clones, Clone, Mounted
  <1>2. /\ DOMAIN types = Mounted(full, g) /\ types = [t \in Mounted(full, g) |-> types[t]]
        /\ \A t \in Mounted(full, g) : types[t] = Clone(full, g, t)
    <2>1. Mounted(full, g) \cap Left(full, g) = Mounted(full, g)
      BY MountedIsClosed
    <2>2. \A t \in Left(full, g) : Clones(full, g)[t] = Clone(full, g, t)
      BY DEF Clones
    <2>3. QED BY <2>1, <2>2
  <1> HIDE DEF types
  <1>3. DOMAIN full = {"types", "roots", "grants", "registered"}
    BY DEF Prunable
  <1>4. /\ schm.types = types /\ schm.roots = full.roots \cap Left(full, g)
        /\ schm.grants = g /\ DOMAIN schm = DOMAIN full
    BY <1>1, <1>3
  <1>5. QED BY <1>0, <1>2, <1>4 DEF NamesOf

LEMMA PrunedFields ==
    ASSUME NEW full, Prunable(full), NEW grants, NEW g, g = Granted(full, grants),
           NEW schm, schm = Prune(full, grants), NEW t \in NamesOf(schm)
    PROVE  /\ t \in NamesOf(full) /\ t \in Left(full, g)
           /\ FieldsOf(schm, t) =
                 [x \in KeptFields(full, g, t) |-> Offering(FieldsOf(full, t)[x], g)]
           /\ schm.types[t] = Clone(full, g, t)
  <1>1. /\ NamesOf(schm) = Mounted(full, g)
        /\ \A u \in Mounted(full, g) : schm.types[u] = Clone(full, g, u)
    <2>1. NamesOf(Prune(full, grants)) = Mounted(full, Granted(full, grants))
      BY PrunedParts
    <2>2. \A u \in Mounted(full, Granted(full, grants)) :
             Prune(full, grants).types[u] = Clone(full, Granted(full, grants), u)
      BY PrunedParts
    <2>3. QED BY <2>1, <2>2
  <1>2. t \in Left(full, g) /\ t \in NamesOf(full)
    BY <1>1, MountedIsClosed, LeftIsGreatest DEF Greatest
  <1>3. schm.types[t] = Clone(full, g, t)
    BY <1>1
  <1>4. QED BY <1>2, <1>3, ClonedFields DEF FieldsOf

(* The actions that a field offers before it is pruned; fewer permissions   *)
(* leave fewer of them.                                                     *)
Offers(full, f) ==
    IF full.grants = None THEN DOMAIN f.actions ELSE SurvivingActions(f, full.grants)

LEMMA FewerActions ==
    ASSUME NEW full, NEW f, NEW grants, NEW g, g = Granted(full, grants)
    PROVE  Offers(full, f) \cap SurvivingActions(f, g) = SurvivingActions(f, g)
  <1>1. SurvivingActions(f, g) \subseteq DOMAIN f.actions
    BY DEF SurvivingActions
  <1>2. full.grants # None => SurvivingActions(f, g) \subseteq SurvivingActions(f, full.grants)
    BY DEF SurvivingActions, Granted
  <1>3. QED BY <1>1, <1>2 DEF Offers

(* A kept field, before and after it was cloned. *)
LEMMA KeptField ==
    ASSUME NEW full, NEW g, Prunable(full), NEW t \in NamesOf(full),
           NEW x \in KeptFields(full, g, t)
    PROVE  /\ x \in DOMAIN FieldsOf(full, t) /\ Permitted(full, t, FieldsOf(full, t)[x], g)
           /\ FieldSurvives(FieldsOf(full, t)[x], Left(full, g))
           /\ DOMAIN FieldsOf(full, t)[x] = {"type", "args", "stamp", "actions", "values"}
           /\ FieldsOf(full, t)[x].values = Offers(full, FieldsOf(full, t)[x])
           /\ DOMAIN FieldsOf(full, t)[x].actions # {} =>
                 FieldsOf(full, t)[x].stamp = None /\ full.types[t].kind # "input"
  <1> DEFINE f == FieldsOf(full, t)[x]
  <1>1. x \in Filtered(full, g)[t] /\ FieldSurvives(f, Left(full, g))
    BY DEF KeptFields
  <1>2. x \in DOMAIN FieldsOf(full, t) /\ Permitted(full, t, f, g)
    BY <1>1, FieldsPermitted
  <1>3. QED BY <1>1, <1>2 DEF Prunable, WellFormed, FieldsOf, Offers

LEMMA KeptOffers ==
    ASSUME NEW full, NEW g, Prunable(full), NEW t \in NamesOf(full),
           NEW x \in KeptFields(full, g, t)
    PROVE  FieldsOf(full, t)[x].values = Offers(full, FieldsOf(full, t)[x])
  BY KeptField

(* No field returns rows that the caller may not read, and nothing is shown *)
(* whose stamp is not held, all_actions only beside every action: the       *)
(* second part of what TLC checks of a caller's schema.                     *)
THEOREM PrunedShowsOnly ==
    ASSUME NEW full, Prunable(full), NEW grants
    PROVE  ShowsOnly(full, Prune(full, grants), Granted(full, grants))
  <1> DEFINE schm == Prune(full, grants)
  <1>0. PICK g : g = Granted(full, grants)
    OBVIOUS
  <1>1. ASSUME NEW t \in NamesOf(schm), NEW x \in DOMAIN FieldsOf(schm, t),
               NEW h, h = FieldsOf(schm, t)[x]
        PROVE  /\ h.stamp # None => h.stamp \subseteq g
               /\ h.stamp = None /\ DOMAIN h.actions = {} /\ full.types[t].kind # "input" =>
                      \A m \in Models(full, h.type) : <<"view", m>> \in g
               /\ \A a \in h.values : h.actions[a] \subseteq g
               /\ DOMAIN h.actions # {} => h.values # {}
               /\ "all_actions" \in h.values => h.values = DOMAIN h.actions
    <2>1. PICK f : f = FieldsOf(full, t)[x]
      OBVIOUS
    <2>2. t \in NamesOf(full) /\ x \in KeptFields(full, g, t) /\ h = Offering(f, g)
      BY <1>0, <1>1, <2>1, PrunedFields
    <2>3. /\ Permitted(full, t, f, g)
          /\ DOMAIN f = {"type", "args", "stamp", "actions", "values"} /\ f.values = Offers(full, f)
          /\ DOMAIN f.actions # {} => f.stamp = None /\ full.types[t].kind # "input"
      <3>1. t \in NamesOf(full) /\ x \in KeptFields(full, g, t)
        BY <2>2
      <3> HIDE DEF schm
      <3>2. Permitted(full, t, f, g)
        BY <2>1, <3>1, KeptField
      <3>3. DOMAIN f = {"type", "args", "stamp", "actions", "values"}
        BY <2>1, <3>1, KeptField
      <3>4. f.values = Offers(full, f)
        BY <2>1, <3>1, KeptField
      <3>5. DOMAIN f.actions # {} => f.stamp = None /\ full.types[t].kind # "input"
        <4>1. x \in DOMAIN FieldsOf(full, t)
          BY <3>1, KeptField
        <4>2. QED BY <2>1, <3>1, <4>1 DEF Prunable, WellFormed, FieldsOf
      <3>6. QED BY <3>2, <3>3, <3>4, <3>5
    <2>4. /\ h.type = f.type /\ h.stamp = f.stamp /\ h.actions = f.actions
          /\ h.values = IF DOMAIN f.actions = {} THEN f.values
                        ELSE SurvivingActions(f, g)
      BY <1>0, <2>2, <2>3, Offered, FewerActions
    <2>5. f.stamp # None => f.stamp \subseteq g
      BY <2>3 DEF Permitted, StampHeld
    <2>6. ASSUME f.stamp = None, DOMAIN f.actions = {}, full.types[t].kind # "input",
                 NEW m \in Models(full, f.type)
          PROVE  <<"view", m>> \in g
      <3>1. Implicit(full, f.type) \subseteq g
        BY <2>3, <2>6 DEF Permitted
      <3>2. Required(m, ActionVerbs.retrieve) \subseteq Implicit(full, f.type)
        BY <2>6 DEF Implicit
      <3>3. <<"view", m>> \in Required(m, ActionVerbs.retrieve)
        BY DEF Required, ActionVerbs
      <3>4. QED BY <3>1, <3>2, <3>3
    <2>7. CASE DOMAIN f.actions = {}
      <3>1. h.values = {}
        BY <2>3, <2>4, <2>7 DEF Offers, SurvivingActions
      <3>2. QED BY <2>4, <2>5, <2>6, <2>7, <3>1
    <2>8. CASE DOMAIN f.actions # {}
      <3>1. h.values = SurvivingActions(f, g)
        BY <2>4, <2>8
      <3>2. SurvivingActions(f, g) # {}
        BY <2>3, <2>8 DEF Permitted
      <3>3. \A a \in SurvivingActions(f, g) : f.actions[a] \subseteq g
        BY DEF SurvivingActions
      <3>4. "all_actions" \in SurvivingActions(f, g) => SurvivingActions(f, g) = DOMAIN f.actions
        BY DEF SurvivingActions
      <3>5. QED BY <2>3, <2>4, <2>5, <2>8, <3>1, <3>2, <3>3, <3>4
    <2>9. QED BY <2>7, <2>8
  <1> HIDE DEF schm
  <1>2. ShowsOnly(full, schm, g)
    BY <1>1 DEF ShowsOnly
  <1>3. QED BY <1>0, <1>2 DEF schm

(* A caller loses no more than that: no dropped types would support         *)
(* themselves if they were brought back together, a permitted field whose   *)
(* types are left stays, and an interface keeps its implementors.           *)
THEOREM PrunedKeepsAll ==
    ASSUME NEW full, Prunable(full), NEW grants
    PROVE  KeepsAll(full, Prune(full, grants), Granted(full, grants))
  <1>0. PICK g : g = Granted(full, grants)
    OBVIOUS
  <1> DEFINE filtered == Filtered(full, g)
             alive == Left(full, g)
             Supported(names) == NotEmpty(full, filtered, names) = names
  <1>1. PICK schm : schm = Prune(full, grants)
    OBVIOUS
  <1>2. Greatest(full, filtered, alive)
    BY LeftIsGreatest
  <1>3. Supported(alive)
    BY <1>2 DEF Greatest
  <1>4. ASSUME NEW back \in SUBSET (NamesOf(full) \ alive), Supported(alive \cup back)
        PROVE  back = {}
    <2>1. alive \cup back \in SUBSET NamesOf(full)
      BY <1>2 DEF Greatest
    <2> HIDE DEF alive
    <2>2. alive \cup back \subseteq alive
      BY <1>2, <1>4, <2>1 DEF Greatest
    <2>3. QED BY <2>2
  <1>5. schm.roots = full.roots \cap alive /\ NamesOf(schm) = Mounted(full, g)
    BY <1>0, <1>1, PrunedParts
  <1>6. ASSUME NEW t \in NamesOf(schm), NEW x \in filtered[t],
               FieldsOf(full, t)[x].type \in alive, FieldsOf(full, t)[x].args \subseteq alive
        PROVE  x \in DOMAIN FieldsOf(schm, t)
    <2>1. x \in KeptFields(full, g, t)
      BY <1>6 DEF KeptFields, FieldSurvives
    <2>2. FieldsOf(schm, t) = [y \in KeptFields(full, g, t) |-> Offering(FieldsOf(full, t)[y], g)]
      BY <1>0, <1>1, PrunedFields
    <2>3. QED BY <2>1, <2>2
  <1>7. ASSUME NEW t \in alive, full.types[t].interfaces \cap NamesOf(schm) # {}
        PROVE  t \in NamesOf(schm)
    <2>1. Mounted(full, g) \subseteq alive /\ Forwarded(full, alive) \subseteq Mounted(full, g)
      BY MountedIsClosed
    <2>2. t \in NamesOf(full)
      BY <1>2 DEF Greatest
    <2>3. full.types[t].kind = "object"
      BY <1>7, <2>2 DEF Prunable, WellFormed
    <2>4. t \in Forwarded(full, alive)
      BY <1>5, <1>7, <2>1, <2>3 DEF Forwarded
    <2>5. QED BY <1>5, <2>1, <2>4
  <1>8. KeepsAll(full, schm, g)
    <2> DEFINE survivors == Survivors(full, filtered)
    <2>1. survivors = alive
      BY DEF Left
    <2> HIDE DEF alive
    <2>2. QED BY <1>3, <1>4, <1>5, <1>6, <1>7, <2>1 DEF KeepsAll
  <1>9. QED BY <1>0, <1>1, <1>8

(* A field of an interface that an object keeps is one of its own fields,   *)
(* permitted and usable whenever the interface's is.                        *)
LEMMA InterfaceFieldsAreKept ==
    ASSUME NEW full, NEW g, Prunable(full), NEW t \in Left(full, g),
           NEW i \in full.types[t].interfaces, NEW x \in KeptFields(full, g, i), i \in Left(full, g)
    PROVE  x \in KeptFields(full, g, t)
  <1>1. t \in NamesOf(full) /\ i \in NamesOf(full)
    BY LeftIsGreatest DEF Greatest
  <1>2. PICK f : f = FieldsOf(full, i)[x]
    OBVIOUS
  <1>3. PICK h : h = FieldsOf(full, t)[x]
    OBVIOUS
  <1>4. /\ x \in DOMAIN FieldsOf(full, i) /\ Permitted(full, i, f, g)
        /\ FieldSurvives(f, Left(full, g))
    BY <1>1, <1>2, KeptField
  <1>5. /\ full.types[i].kind = "interface" /\ full.types[t].kind = "object"
        /\ t \notin full.roots /\ i \notin full.roots
    BY <1>1 DEF Prunable, WellFormed
  <1>6. x \in DOMAIN FieldsOf(full, t)
    BY <1>1, <1>4 DEF Prunable, IsSchema, FieldsOf
  <1>7. Unstamped(f) /\ Unstamped(h)
    BY <1>1, <1>2, <1>3, <1>4, <1>5, <1>6 DEF Prunable, StampedAtRoots
  <1>8. /\ h.args = f.args
        /\ h.type = f.type \/ (h.type = t /\ t \in Possible(full, f.type))
    BY <1>1, <1>2, <1>3, <1>4 DEF Prunable, Inherits
  <1>9. Implicit(full, h.type) \subseteq Implicit(full, f.type)
    <2>1. CASE h.type = f.type
      BY <2>1
    <2>2. CASE h.type = t /\ t \in Possible(full, f.type)
      <3>1. Possible(full, t) = {t}
        BY <1>5 DEF Possible
      <3>2. Models(full, t) \subseteq Models(full, f.type)
        BY <2>2, <3>1 DEF Models
      <3>3. Implicit(full, t) = UNION {Required(m, ActionVerbs.retrieve) : m \in Models(full, t)}
        BY <1>5 DEF Implicit
      <3>4. Models(full, f.type) # {} =>
              Implicit(full, f.type) =
                 UNION {Required(m, ActionVerbs.retrieve) : m \in Models(full, f.type)}
        BY DEF Implicit
      <3>5. QED BY <2>2, <3>2, <3>3, <3>4
    <2>3. QED BY <1>8, <2>1, <2>2
  <1>10. Permitted(full, t, h, g)
    <2>1. Implicit(full, f.type) \subseteq g
      BY <1>4, <1>5, <1>7 DEF Permitted, Unstamped
    <2>2. QED BY <1>5, <1>7, <1>9, <2>1 DEF Permitted, Unstamped
  <1>11. FieldSurvives(h, Left(full, g))
    BY <1>4, <1>8 DEF FieldSurvives
  <1>12. x \in Filtered(full, g)[t]
    BY <1>1, <1>3, <1>6, <1>10, FieldsPermitted
  <1>13. QED BY <1>3, <1>11, <1>12 DEF KeptFields

(* What is built from the clones is a schema: nothing that it names is      *)
(* missing or empty, and objects have the fields of their interfaces.       *)
THEOREM PrunedIsSchema ==
    ASSUME NEW full, Prunable(full), NEW grants
    PROVE  IsSchema(Prune(full, grants))
  <1>0. PICK g : g = Granted(full, grants)
    OBVIOUS
  <1> DEFINE left == Left(full, g)
  <1>1. PICK schm : schm = Prune(full, grants)
    OBVIOUS
  <1>2. NamesOf(schm) = Mounted(full, g)
    BY <1>0, <1>1, PrunedParts
  <1>3. ASSUME NEW t \in NamesOf(schm), NEW type, type = schm.types[t]
        PROVE  /\ References(type) \subseteq NamesOf(schm)
               /\ type.kind = "union" => type.members # {}
               /\ type.kind \in {"object", "interface", "input"} => DOMAIN type.fields # {}
               /\ \A i \in type.interfaces : DOMAIN FieldsOf(schm, i) \subseteq DOMAIN type.fields
    <2>1. t \in left /\ t \in NamesOf(full) /\ type = Clone(full, g, t)
      BY <1>0, <1>1, <1>3, PrunedFields
    <2>2. References(type) \subseteq NamesOf(schm)
      BY <1>2, <2>1, MountedIsClosed
    <2>3. /\ type.kind = full.types[t].kind
          /\ type.members = full.types[t].members \cap left
          /\ type.interfaces = full.types[t].interfaces \cap left
          /\ DOMAIN type.fields = KeptFields(full, g, t)
      <3>1. /\ Clone(full, g, t).kind = full.types[t].kind
            /\ Clone(full, g, t).members = full.types[t].members \cap left
            /\ Clone(full, g, t).interfaces = full.types[t].interfaces \cap left
        BY <2>1, Cloned
      <3>2. FieldsOf(schm, t) = [x \in KeptFields(full, g, t) |-> Offering(FieldsOf(full, t)[x], g)]
        BY <1>0, <1>1, <1>3, PrunedFields
      <3> HIDE DEF left
      <3>3. QED BY <1>3, <2>1, <3>1, <3>2 DEF FieldsOf
    <2>4. ~Empty(full, Filtered(full, g), t, left)
      BY <2>1, LeftIsGreatest DEF Greatest, NotEmpty
    <2> HIDE DEF left
    <2>5. type.kind = "union" => type.members # {}
      BY <2>3, <2>4 DEF Empty, left
    <2>6. type.kind \in {"object", "interface", "input"} => KeptFields(full, g, t) # {}
      <3>1. ASSUME type.kind \in {"object", "interface", "input"}
            PROVE  \E x \in Filtered(full, g)[t] : FieldSurvives(FieldsOf(full, t)[x], left)
        BY <2>3, <2>4, <3>1 DEF Empty
      <3>2. QED BY <3>1 DEF KeptFields, left
    <2>7. ASSUME NEW i \in type.interfaces, NEW x \in DOMAIN FieldsOf(schm, i)
          PROVE  x \in DOMAIN type.fields
      <3>1. i \in NamesOf(schm)
        BY <2>2 DEF References
      <3>2. FieldsOf(schm, i) = [y \in KeptFields(full, g, i) |-> Offering(FieldsOf(full, i)[y], g)]
            /\ i \in Left(full, g)
        BY <1>0, <1>1, <3>1, PrunedFields
      <3>3. x \in KeptFields(full, g, i) /\ i \in full.types[t].interfaces
        BY <2>3, <2>7, <3>2
      <3>4. x \in KeptFields(full, g, t)
        BY <2>1, <3>2, <3>3, InterfaceFieldsAreKept DEF left
      <3>5. QED BY <2>3, <3>4
    <2>8. QED BY <2>2, <2>3, <2>5, <2>6, <2>7
  <1>4. IsSchema(schm)
    BY <1>3 DEF IsSchema
  <1>5. QED BY <1>1, <1>4

(* A field and a type of the pruned schema, and what they were. *)
LEMMA PrunedField ==
    ASSUME NEW full, Prunable(full), NEW grants, NEW t \in NamesOf(Prune(full, grants)),
           NEW x \in DOMAIN FieldsOf(Prune(full, grants), t)
    PROVE  LET f == FieldsOf(full, t)[x]
               h == FieldsOf(Prune(full, grants), t)[x]
           IN  /\ t \in NamesOf(full) /\ x \in DOMAIN FieldsOf(full, t)
               /\ t \in Left(full, Granted(full, grants))
               /\ x \in KeptFields(full, Granted(full, grants), t)
               /\ DOMAIN f = {"type", "args", "stamp", "actions", "values"}
               /\ h = Offering(f, Granted(full, grants))
               /\ h.type = f.type /\ h.args = f.args /\ h.stamp = f.stamp /\ h.actions = f.actions
  <1>1. PICK g : g = Granted(full, grants)
    OBVIOUS
  <1>2. PICK schm : schm = Prune(full, grants)
    OBVIOUS
  <1>3. PICK f : f = FieldsOf(full, t)[x]
    OBVIOUS
  <1>4. t \in NamesOf(full) /\ t \in Left(full, g) /\ x \in KeptFields(full, g, t)
        /\ FieldsOf(schm, t)[x] = Offering(f, g)
    BY <1>1, <1>2, <1>3, PrunedFields
  <1>5. x \in DOMAIN FieldsOf(full, t) /\ DOMAIN f = {"type", "args", "stamp", "actions", "values"}
    BY <1>3, <1>4, KeptField
  <1>6. /\ Offering(f, g).type = f.type /\ Offering(f, g).args = f.args
        /\ Offering(f, g).stamp = f.stamp /\ Offering(f, g).actions = f.actions
    BY <1>5, Offered
  <1>7. QED BY <1>1, <1>2, <1>3, <1>4, <1>5, <1>6

LEMMA PrunedType ==
    ASSUME NEW full, Prunable(full), NEW grants, NEW t \in NamesOf(Prune(full, grants))
    PROVE  /\ t \in NamesOf(full)
           /\ DOMAIN Prune(full, grants).types[t] = DOMAIN full.types[t]
           /\ Prune(full, grants).types[t].kind = full.types[t].kind
           /\ Prune(full, grants).types[t].members =
                 full.types[t].members \cap Left(full, Granted(full, grants))
           /\ Prune(full, grants).types[t].interfaces =
                 full.types[t].interfaces \cap Left(full, Granted(full, grants))
  <1>1. PICK g : g = Granted(full, grants)
    OBVIOUS
  <1>2. PICK schm : schm = Prune(full, grants)
    OBVIOUS
  <1>3. t \in NamesOf(full) /\ t \in Left(full, g) /\ schm.types[t] = Clone(full, g, t)
    BY <1>1, <1>2, PrunedFields
  <1>4. DOMAIN Clone(full, g, t) = DOMAIN full.types[t]
    BY DEF Clone, CloneOf
  <1>5. /\ Clone(full, g, t).kind = full.types[t].kind
        /\ Clone(full, g, t).members = full.types[t].members \cap Left(full, g)
        /\ Clone(full, g, t).interfaces = full.types[t].interfaces \cap Left(full, g)
    BY <1>3, Cloned
  <1>6. QED BY <1>1, <1>2, <1>3, <1>4, <1>5

(* Pruning leaves a schema that may be pruned again: all that the theorems  *)
(* above ask of a schema holds of the one that _Pruner.run returns.         *)
THEOREM PrunedIsPrunable ==
    ASSUME NEW full, Prunable(full), NEW grants, Granted(full, grants) # None
    PROVE  Prunable(Prune(full, grants))
  <1>1. PICK g : g = Granted(full, grants)
    OBVIOUS
  <1>2. PICK schm : schm = Prune(full, grants)
    OBVIOUS
  <1> DEFINE left == Left(full, g)
  <1>3. /\ DOMAIN schm = DOMAIN full /\ schm.roots = full.roots \cap left /\ schm.grants = g
        /\ NamesOf(schm) = Mounted(full, g)
    BY <1>1, <1>2, PrunedParts
  <1>4. /\ IsFiniteSet(NamesOf(schm)) /\ schm.roots \subseteq NamesOf(schm)
        /\ NamesOf(schm) \subseteq left
    <2>1. Mounted(full, g) \subseteq left /\ IsFiniteSet(left)
          /\ full.roots \cap left \subseteq Mounted(full, g)
      BY MountedIsClosed, LeftIsGreatest
    <2> HIDE DEF left
    <2>2. QED BY <1>3, <2>1, FS_Subset
  <1>5. IsSchema(schm)
    BY <1>2, PrunedIsSchema
  <1>6. ASSUME NEW t \in NamesOf(schm)
        PROVE  /\ t \in NamesOf(full) /\ t \in left
               /\ DOMAIN schm.types[t] = DOMAIN full.types[t]
               /\ schm.types[t].kind = full.types[t].kind
               /\ schm.types[t].members = full.types[t].members \cap left
               /\ schm.types[t].interfaces = full.types[t].interfaces \cap left
    BY <1>1, <1>2, <1>4, PrunedType
  <1>7. ASSUME NEW t \in NamesOf(schm), NEW x \in DOMAIN FieldsOf(schm, t),
               NEW f, f = FieldsOf(full, t)[x], NEW h, h = FieldsOf(schm, t)[x]
        PROVE  /\ x \in DOMAIN FieldsOf(full, t) /\ x \in KeptFields(full, g, t)
               /\ DOMAIN f = {"type", "args", "stamp", "actions", "values"}
               /\ h = Offering(f, g)
               /\ h.type = f.type /\ h.args = f.args /\ h.stamp = f.stamp /\ h.actions = f.actions
    BY <1>1, <1>2, <1>7, PrunedField
  <1> HIDE DEF left
  <1>8. WellFormed(schm)
    <2>1. ASSUME NEW t \in NamesOf(schm), NEW type, type = schm.types[t]
          PROVE  /\ DOMAIN type = {"kind", "model", "fields", "members", "interfaces"}
                 /\ type.interfaces # {} => type.kind = "object" /\ t \notin schm.roots
                 /\ \A i \in type.interfaces : schm.types[i].kind = "interface"
                 /\ t \in schm.roots => type.kind = "object"
      <3>1. /\ DOMAIN full.types[t] = {"kind", "model", "fields", "members", "interfaces"}
            /\ full.types[t].interfaces # {} => full.types[t].kind = "object" /\ t \notin full.roots
            /\ \A i \in full.types[t].interfaces : full.types[i].kind = "interface"
            /\ t \in full.roots => full.types[t].kind = "object"
        BY <1>6 DEF Prunable, WellFormed
      <3>2. \A i \in type.interfaces : i \in NamesOf(schm)
        BY <1>5, <2>1 DEF IsSchema, References
      <3>3. \A i \in type.interfaces : schm.types[i].kind = "interface"
        BY <1>6, <2>1, <3>1, <3>2
      <3>4. QED BY <1>3, <1>6, <2>1, <3>1, <3>3
    <2>2. ASSUME NEW t \in NamesOf(schm), NEW x \in DOMAIN FieldsOf(schm, t),
                 NEW h, h = FieldsOf(schm, t)[x]
          PROVE  /\ DOMAIN h = {"type", "args", "stamp", "actions", "values"}
                 /\ h.values = SurvivingActions(h, g)
                 /\ DOMAIN h.actions # {} => h.stamp = None /\ schm.types[t].kind # "input"
      <3>1. PICK f : f = FieldsOf(full, t)[x]
        OBVIOUS
      <3>2. /\ x \in DOMAIN FieldsOf(full, t) /\ x \in KeptFields(full, g, t)
            /\ DOMAIN f = {"type", "args", "stamp", "actions", "values"}
            /\ h = Offering(f, g) /\ h.stamp = f.stamp /\ h.actions = f.actions
        BY <1>7, <2>2, <3>1
      <3>3. t \in NamesOf(full) /\ schm.types[t].kind = full.types[t].kind
        BY <1>6
      <3>4. f.values = Offers(full, f)
        <4>1. FieldsOf(full, t)[x].values = Offers(full, FieldsOf(full, t)[x])
          BY <3>2, <3>3, KeptOffers
        <4>2. QED BY <3>1, <4>1
      <3>5. DOMAIN f.actions # {} => f.stamp = None /\ full.types[t].kind # "input"
        BY <3>1, <3>2, <3>3 DEF Prunable, WellFormed, FieldsOf
      <3>6. Offers(full, f) \cap SurvivingActions(f, g) = SurvivingActions(f, g)
        BY <1>1, FewerActions
      <3>7. h.values = IF DOMAIN f.actions = {} THEN f.values
                       ELSE f.values \cap SurvivingActions(f, g)
        BY <3>2, Offered
      <3>8. DOMAIN f.actions = {} => Offers(full, f) = {} /\ SurvivingActions(f, g) = {}
        BY DEF Offers, SurvivingActions
      <3>9. h.values = SurvivingActions(f, g)
        BY <3>4, <3>6, <3>7, <3>8
      <3>10. SurvivingActions(h, g) = SurvivingActions(f, g)
        BY <3>2 DEF SurvivingActions
      <3>11. DOMAIN h = DOMAIN f
        BY <3>2 DEF Offering
      <3>12. QED BY <3>2, <3>3, <3>5, <3>9, <3>10, <3>11
    <2>3. schm.grants = g /\ schm.grants # None
      BY <1>1, <1>3
    <2>4. QED BY <2>1, <2>2, <2>3 DEF WellFormed, FieldsOf
  <1>9. StampedAtRoots(schm)
    <2>1. ASSUME NEW t \in NamesOf(schm) \ schm.roots, schm.types[t].kind # "input",
                 NEW x \in DOMAIN FieldsOf(schm, t)
          PROVE  Unstamped(FieldsOf(schm, t)[x])
      <3>1. t \in NamesOf(full) \ full.roots /\ full.types[t].kind # "input"
        BY <1>3, <1>6, <2>1
      <3>2. PICK f : f = FieldsOf(full, t)[x]
        OBVIOUS
      <3>3. PICK h : h = FieldsOf(schm, t)[x]
        OBVIOUS
      <3>4. x \in DOMAIN FieldsOf(full, t) /\ h.stamp = f.stamp /\ h.actions = f.actions
        BY <1>7, <2>1, <3>2, <3>3
      <3>5. Unstamped(f)
        BY <3>1, <3>2, <3>4 DEF Prunable, StampedAtRoots
      <3>6. QED BY <3>3, <3>4, <3>5 DEF Unstamped
    <2>2. QED BY <2>1 DEF StampedAtRoots
  <1>10. FlatInputs(schm)
    <2>1. ASSUME NEW t \in NamesOf(schm), schm.types[t].kind = "input",
                 NEW x \in DOMAIN FieldsOf(schm, t), NEW h, h = FieldsOf(schm, t)[x]
          PROVE  /\ h.args = {} /\ schm.types[h.type].kind \in {"input", "leaf"}
                 /\ schm.types[h.type].kind = "input" =>
                       \A y \in DOMAIN FieldsOf(schm, h.type) : Unstamped(FieldsOf(schm, h.type)[y])
      <3>1. PICK f : f = FieldsOf(full, t)[x]
        OBVIOUS
      <3>2. x \in DOMAIN FieldsOf(full, t) /\ h.type = f.type /\ h.args = f.args
        BY <1>7, <2>1, <3>1
      <3>3. t \in NamesOf(full) /\ full.types[t].kind = "input"
        BY <1>6, <2>1
      <3>4. /\ f.args = {} /\ full.types[f.type].kind \in {"input", "leaf"}
            /\ full.types[f.type].kind = "input" =>
                  \A y \in DOMAIN FieldsOf(full, f.type) : Unstamped(FieldsOf(full, f.type)[y])
        BY <3>1, <3>2, <3>3 DEF Prunable, FlatInputs
      <3>5. h.type \in NamesOf(schm)
        BY <1>5, <2>1 DEF IsSchema, References, FieldsOf
      <3>6. schm.types[h.type].kind = full.types[f.type].kind
        BY <1>6, <3>2, <3>5
      <3>7. ASSUME full.types[f.type].kind = "input", NEW y \in DOMAIN FieldsOf(schm, h.type)
            PROVE  Unstamped(FieldsOf(schm, h.type)[y])
        <4>1. PICK u : u = h.type
          OBVIOUS
        <4>2. PICK k : k = FieldsOf(full, u)[y]
          OBVIOUS
        <4>3. PICK l : l = FieldsOf(schm, u)[y]
          OBVIOUS
        <4>4. y \in DOMAIN FieldsOf(full, u) /\ l.stamp = k.stamp /\ l.actions = k.actions
          BY <1>7, <3>5, <3>7, <4>1, <4>2, <4>3
        <4>5. Unstamped(k)
          BY <3>2, <3>4, <3>7, <4>1, <4>2, <4>4
        <4>6. QED BY <4>1, <4>3, <4>4, <4>5 DEF Unstamped
      <3>8. QED BY <3>2, <3>4, <3>6, <3>7
    <2>2. QED BY <2>1 DEF FlatInputs
  <1>11. Inherits(schm)
    <2>1. ASSUME NEW t \in NamesOf(schm), NEW i \in schm.types[t].interfaces,
                 NEW x \in DOMAIN FieldsOf(schm, i),
                 NEW f, f = FieldsOf(schm, i)[x], NEW h, h = FieldsOf(schm, t)[x]
          PROVE  /\ h.args = f.args
                 /\ h.type = f.type \/ (h.type = t /\ t \in Possible(schm, f.type))
      <3>1. i \in NamesOf(schm) /\ i \in full.types[t].interfaces /\ t \in NamesOf(full)
        BY <1>5, <1>6, <2>1 DEF IsSchema, References
      <3>2. x \in DOMAIN FieldsOf(schm, t)
        BY <1>5, <2>1 DEF IsSchema, FieldsOf
      <3>3. PICK a : a = FieldsOf(full, i)[x]
        OBVIOUS
      <3>4. PICK b : b = FieldsOf(full, t)[x]
        OBVIOUS
      <3>5. x \in DOMAIN FieldsOf(full, i) /\ f.type = a.type /\ f.args = a.args
        BY <1>7, <2>1, <3>1, <3>3
      <3>6. h.type = b.type /\ h.args = b.args
        BY <1>7, <2>1, <3>2, <3>4
      <3>7. b.args = a.args /\ (b.type = a.type \/ (b.type = t /\ t \in Possible(full, a.type)))
        BY <3>1, <3>3, <3>4, <3>5 DEF Prunable, Inherits
      <3>8. f.type \in NamesOf(schm)
        BY <1>5, <2>1, <3>1 DEF IsSchema, References, FieldsOf
      <3>9. ASSUME t \in Possible(full, f.type) PROVE t \in Possible(schm, f.type)
        <4>1. t \in left /\ f.type \in left
          BY <1>6, <3>8
        <4>2. QED BY <1>6, <3>8, <3>9, <4>1 DEF Possible
      <3>10. QED BY <3>5, <3>6, <3>7, <3>9
    <2>2. QED BY <2>1 DEF Inherits
  <1>12. DOMAIN schm = {"types", "roots", "grants", "registered"}
    BY <1>3 DEF Prunable
  <1>13. Prunable(schm)
    BY <1>4, <1>5, <1>8, <1>9, <1>10, <1>11, <1>12 DEF Prunable
  <1>14. QED BY <1>2, <1>13

(* So a schema that is pruned again, to whatever grants, shows no more than *)
(* before, only what both grants allow, and once more is a schema: the      *)
(* grants it was pruned to are remembered, and intersected with the later.  *)
THEOREM PrunedAgain ==
    ASSUME NEW full, Compiled(full), NEW grants, grants # None, NEW later,
           later \cap grants # None, NEW schm, schm = Prune(full, grants),
           NEW again, again = Prune(schm, later)
    PROVE  /\ IsSchema(again) /\ ShowsOnly(schm, again, later \cap grants)
           /\ KeepsAll(schm, again, later \cap grants)
           /\ NamesOf(again) \subseteq NamesOf(schm)
           /\ \A t \in NamesOf(again) : DOMAIN FieldsOf(again, t) \subseteq DOMAIN FieldsOf(schm, t)
  <1>1. Prunable(full) /\ Granted(full, grants) = grants
    BY DEF Compiled, Granted
  <1>2. Prunable(schm)
    BY <1>1, PrunedIsPrunable
  <1>3. schm.grants = grants
    BY <1>1, PrunedParts
  <1>4. Granted(schm, later) = later \cap grants
    BY <1>3 DEF Granted
  <1>5. IsSchema(Prune(schm, later)) /\ ShowsOnly(schm, Prune(schm, later), Granted(schm, later))
        /\ KeepsAll(schm, Prune(schm, later), Granted(schm, later))
    BY <1>2, PrunedIsSchema, PrunedShowsOnly, PrunedKeepsAll
  <1>6. ASSUME NEW t \in NamesOf(again), NEW x \in DOMAIN FieldsOf(again, t)
        PROVE  x \in DOMAIN FieldsOf(schm, t)
    BY <1>2, <1>6, PrunedField
  <1>7. NamesOf(again) \subseteq NamesOf(schm)
    BY <1>2, PrunedType
  <1>8. QED BY <1>4, <1>5, <1>6, <1>7

-----------------------------------------------------------------------------
(* The signature of a caller.                                               *)

(* A field whose stamps, or whose rows' permissions, are all among those    *)
(* that the signature keeps is permitted to both or to neither, and offers  *)
(* the same.                                                                *)
LEMMA SignaturePermits ==
    ASSUME NEW full, NEW t, NEW f, NEW g, NEW labels, StampsOf(f) \subseteq labels,
           full.types[t].kind = "input" \/ Implicit(full, f.type) \subseteq labels
    PROVE  /\ Permitted(full, t, f, g) <=> Permitted(full, t, f, g \cap labels)
           /\ SurvivingActions(f, g) = SurvivingActions(f, g \cap labels)
  <1>1. \A a \in DOMAIN f.actions : f.actions[a] \subseteq labels
    BY DEF StampsOf
  <1>2. SurvivingActions(f, g) = SurvivingActions(f, g \cap labels)
    BY <1>1 DEF SurvivingActions
  <1>3. StampHeld(f, g) <=> StampHeld(f, g \cap labels)
    BY DEF StampsOf, StampHeld
  <1>4. QED BY <1>2, <1>3 DEF Permitted

(* The schema asks for no permission but those of its labels: the fields    *)
(* that are stamped are those of its roots and of its inputs.               *)
LEMMA LabelsCover ==
    ASSUME NEW full, Prunable(full), NEW t \in NamesOf(full), NEW x \in DOMAIN FieldsOf(full, t)
    PROVE  /\ StampsOf(FieldsOf(full, t)[x]) \subseteq LabelSet(full)
           /\ \/ full.types[t].kind = "input"
              \/ Implicit(full, FieldsOf(full, t)[x].type) \subseteq LabelSet(full)
  <1> DEFINE f == FieldsOf(full, t)[x]
  <1>1. ASSUME NEW names, t \in names PROVE StampsOf(f) \subseteq Stamps(full, names)
    BY <1>1 DEF Stamps
  <1>2. CASE full.types[t].kind = "input"
    <2>1. t \in {u \in NamesOf(full) : full.types[u].kind = "input"}
      BY <1>2
    <2>2. StampsOf(f) \subseteq InputLabels(full)
      BY <1>1, <2>1 DEF InputLabels
    <2>3. QED BY <1>2, <2>2 DEF LabelSet
  <1>3. CASE full.types[t].kind # "input"
    <2>1. f.type \in NamesOf(full)
      BY DEF Prunable, IsSchema, References, FieldsOf
    <2>2. Implicit(full, f.type) \subseteq LabelSet(full)
      BY <2>1 DEF LabelSet
    <2>3. CASE t \in full.roots
      <3>1. StampsOf(f) \subseteq Stamps(full, full.roots)
        BY <1>1, <2>3
      <3>2. QED BY <2>2, <3>1 DEF LabelSet
    <2>4. CASE t \notin full.roots
      <3>1. Unstamped(f)
        BY <1>3, <2>4 DEF Prunable, StampedAtRoots
      <3>2. StampsOf(f) = {}
        BY <3>1 DEF Unstamped, StampsOf
      <3>3. QED BY <2>2, <3>2
    <2>5. QED BY <2>3, <2>4
  <1>4. QED BY <1>2, <1>3

(* Pruned to the permissions that its signature keeps, or to all that the   *)
(* caller has, the schema shows the same types.                             *)
THEOREM SignatureSuffices ==
    ASSUME NEW full, Compiled(full), NEW grants
    PROVE  /\ Prune(full, SignatureGrants(full, grants)).types = Prune(full, grants).types
           /\ Prune(full, SignatureGrants(full, grants)).roots = Prune(full, grants).roots
  <1>1. PICK few : few = grants \cap LabelSet(full)
    OBVIOUS
  <1> Prunable(full)
    BY DEF Compiled
  <1>0. Granted(full, few) = few /\ Granted(full, grants) = grants
    BY DEF Compiled, Granted
  <1>2. ASSUME NEW t \in NamesOf(full), NEW x \in DOMAIN FieldsOf(full, t)
        PROVE  /\ Permitted(full, t, FieldsOf(full, t)[x], grants) <=>
                     Permitted(full, t, FieldsOf(full, t)[x], few)
               /\ SurvivingActions(FieldsOf(full, t)[x], grants) =
                     SurvivingActions(FieldsOf(full, t)[x], few)
    <2>1. PICK f : f = FieldsOf(full, t)[x]
      OBVIOUS
    <2>2. /\ StampsOf(f) \subseteq LabelSet(full)
          /\ full.types[t].kind = "input" \/ Implicit(full, f.type) \subseteq LabelSet(full)
      <3>1. StampsOf(f) \subseteq LabelSet(full)
        BY <2>1, LabelsCover
      <3>2. full.types[t].kind = "input" \/ Implicit(full, f.type) \subseteq LabelSet(full)
        BY <2>1, LabelsCover
      <3>3. QED BY <3>1, <3>2
    <2>3. /\ Permitted(full, t, f, grants) <=> Permitted(full, t, f, grants \cap LabelSet(full))
          /\ SurvivingActions(f, grants) = SurvivingActions(f, grants \cap LabelSet(full))
      BY <2>2, SignaturePermits
    <2>4. QED BY <1>1, <2>1, <2>3
  <1>3. Filtered(full, few) = Filtered(full, grants)
    <2>1. ASSUME NEW t \in NamesOf(full) PROVE Filtered(full, few)[t] = Filtered(full, grants)[t]
      <3>1. \A x : x \in Filtered(full, few)[t] <=> x \in Filtered(full, grants)[t]
        BY <1>2, FieldsPermitted
      <3>2. QED BY <3>1 DEF Filtered
    <2>2. \A h : Filtered(full, h) = [t \in NamesOf(full) |-> Filtered(full, h)[t]]
      BY DEF Filtered
    <2>3. QED BY <2>1, <2>2
  <1>4. Left(full, few) = Left(full, grants)
    BY <1>3 DEF Left
  <1>5. ASSUME NEW t \in Left(full, grants) PROVE Clone(full, few, t) = Clone(full, grants, t)
    <2>1. t \in NamesOf(full)
      BY LeftIsGreatest DEF Greatest
    <2>2. \A x \in Filtered(full, grants)[t] :
             Offering(FieldsOf(full, t)[x], few) = Offering(FieldsOf(full, t)[x], grants)
      BY <1>2, <2>1, FieldsPermitted DEF Offering
    <2>3. QED BY <1>3, <1>4, <2>2 DEF Clone, CloneOf, FieldsOf
  <1>6. Clones(full, few) = Clones(full, grants)
    BY <1>4, <1>5 DEF Clones
  <1>7. Mounted(full, few) = Mounted(full, grants)
    BY <1>4, <1>6 DEF Mounted
  <1>8. Prune(full, few).types = Prune(full, grants).types
    <2>1. \A t \in Mounted(full, grants) : Clone(full, few, t) = Clone(full, grants, t)
      BY <1>5, MountedIsClosed
    <2>2. PICK a : a = Prune(full, few).types
      OBVIOUS
    <2>3. PICK b : b = Prune(full, grants).types
      OBVIOUS
    <2>4. /\ a = [t \in Mounted(full, grants) |-> a[t]]
          /\ \A t \in Mounted(full, grants) : a[t] = Clone(full, few, t)
      <3>1. /\ a = [t \in Mounted(full, Granted(full, few)) |-> a[t]]
            /\ \A t \in Mounted(full, Granted(full, few)) :
                  a[t] = Clone(full, Granted(full, few), t)
        BY <2>2, PrunedParts
      <3>2. QED BY <1>0, <1>7, <3>1
    <2>5. /\ b = [t \in Mounted(full, grants) |-> b[t]]
          /\ \A t \in Mounted(full, grants) : b[t] = Clone(full, grants, t)
      <3>1. /\ b = [t \in Mounted(full, Granted(full, grants)) |-> b[t]]
            /\ \A t \in Mounted(full, Granted(full, grants)) :
                  b[t] = Clone(full, Granted(full, grants), t)
        BY <2>3, PrunedParts
      <3>2. QED BY <1>0, <3>1
    <2>6. a = b
      BY <2>1, <2>4, <2>5
    <2>7. QED BY <2>2, <2>3, <2>6
  <1>9. Prune(full, few).roots = Prune(full, grants).roots
    <2>1. Prune(full, few).roots = full.roots \cap Left(full, Granted(full, few))
      BY PrunedParts
    <2>2. Prune(full, grants).roots = full.roots \cap Left(full, Granted(full, grants))
      BY PrunedParts
    <2>3. QED BY <1>0, <1>4, <2>1, <2>2
  <1>10. SignatureGrants(full, grants) = few
    BY <1>1 DEF SignatureGrants
  <1>11. QED BY <1>8, <1>9, <1>10

(* So callers of one signature may share what was built for any of them.    *)
THEOREM OneSignatureOneSchema ==
    ASSUME NEW full, Compiled(full), NEW grants, NEW others,
           SignatureGrants(full, grants) = SignatureGrants(full, others)
    PROVE  /\ Prune(full, grants).types = Prune(full, others).types
           /\ Prune(full, grants).roots = Prune(full, others).roots
  <1>1. \A g : /\ Prune(full, SignatureGrants(full, g)).types = Prune(full, g).types
               /\ Prune(full, SignatureGrants(full, g)).roots = Prune(full, g).roots
    BY SignatureSuffices
  <1>2. QED BY <1>1

(* What a thread got for its caller, when fullOf are the full schemas and   *)
(* grantsOf the permissions that a signature stands for: the types that     *)
(* pruning to the caller's own permissions would show.                      *)
CallersSeeTheirs(fullOf, grantsOf) ==
    \A t \in Thread : schema[t] # None /\ request[t].sig # Everything =>
        \A grants :
            SignatureGrants(fullOf[request[t].full], grants) =
                    grantsOf[<<request[t].full, request[t].sig>>] =>
                LET full == fullOf[request[t].full]
                    shown == Prune(fullOf[schema[t].of], grantsOf[<<schema[t].of, schema[t].for>>])
                IN  shown.types = Prune(full, grants).types /\ ShowsOnly(full, shown, grants)

(* The cache and the pruning together, for whatever full schemas the view   *)
(* serves and whatever permissions the signatures stand for: what a thread  *)
(* found in the cache or built shows its caller what the caller may see,    *)
(* and is what pruning for that caller alone would have made.               *)
THEOREM CachedForTheCaller ==
    ASSUME NEW CONSTANT fullOf, NEW CONSTANT grantsOf, \A f \in Full : Compiled(fullOf[f])
    PROVE  Spec => []CallersSeeTheirs(fullOf, grantsOf)
  <1>1. ASSUME NEW full, Compiled(full), NEW grants, NEW shown,
               shown = Prune(full, SignatureGrants(full, grants))
        PROVE  shown.types = Prune(full, grants).types /\ ShowsOnly(full, shown, grants)
    <2>1. PICK own : own = Prune(full, grants)
      OBVIOUS
    <2>2. shown.types = own.types
      BY <1>1, <2>1, SignatureSuffices
    <2>3. ShowsOnly(full, own, grants)
      <3>1. Prunable(full) /\ Granted(full, grants) = grants
        BY <1>1 DEF Compiled, Granted
      <3>2. ShowsOnly(full, Prune(full, grants), Granted(full, grants))
        BY <3>1, PrunedShowsOnly
      <3>3. QED BY <2>1, <3>1, <3>2
    <2>4. NamesOf(shown) = NamesOf(own) /\ \A u : FieldsOf(shown, u) = FieldsOf(own, u)
      BY <2>2 DEF NamesOf, FieldsOf
    <2>5. ShowsOnly(full, shown, grants)
      BY <2>3, <2>4 DEF ShowsOnly
    <2>6. QED BY <2>1, <2>2, <2>5
  <1>2. TypeOK /\ OwnSchema => CallersSeeTheirs(fullOf, grantsOf)
    <2>1. SUFFICES ASSUME TypeOK, OwnSchema, NEW t \in Thread, schema[t] # None, NEW grants,
                          SignatureGrants(fullOf[request[t].full], grants) =
                              grantsOf[<<request[t].full, request[t].sig>>],
                          NEW full, full = fullOf[request[t].full], NEW shown,
                          shown = Prune(fullOf[schema[t].of],
                                        grantsOf[<<schema[t].of, schema[t].for>>])
                   PROVE  shown.types = Prune(full, grants).types /\ ShowsOnly(full, shown, grants)
      BY DEF CallersSeeTheirs
    <2>2. schema[t].of = request[t].full /\ schema[t].for = request[t].sig
      BY <2>1 DEF OwnSchema
    <2>3. schema[t].of \in Full
      BY <2>1 DEF TypeOK, Schema
    <2>4. shown = Prune(full, SignatureGrants(full, grants)) /\ Compiled(full)
      BY <2>1, <2>2, <2>3
    <2>5. QED BY <1>1, <2>4
  <1>3. QED BY <1>2, OwnSchemas, QueryCachesTypes, PTL
=============================================================================
