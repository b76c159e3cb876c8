----------------------- MODULE MutationWrites_proofs ------------------------
(***************************************************************************)
(* Proofs about MutationWrites, for every set of requests whose root fields *)
(* are planned as save_with_nested plans them, every table and every        *)
(* statement that fails: what a root field writes is kept as a whole or not *)
(* at all, what is kept is what the answers say, and no existing row is     *)
(* rewritten or given away to a caller who may not.                         *)
(***************************************************************************)
EXTENDS MutationWrites, SequenceTheorems, TLAPS

Elements(s) == {s[i] : i \in DOMAIN s}

-----------------------------------------------------------------------------
(* The stack of atomic blocks.                                              *)
Tag == {"request", "entry", "mutation", "nested", "save"}
Depth(tag) == CASE tag = "request" -> 1 [] tag = "entry" -> 2 [] tag = "mutation" -> 3
                [] tag = "nested" -> 4 [] tag = "save" -> 5
Ordered(s) == \A i, j \in DOMAIN s : i < j => Depth(s[i].tag) < Depth(s[j].tag)
Open(tag) == \E b \in Elements(blocks) : b.tag = tag

LEMMA Depths ==
    /\ Depth("request") = 1 /\ Depth("entry") = 2 /\ Depth("mutation") = 3
    /\ Depth("nested") = 4 /\ Depth("save") = 5
    /\ \A t \in Tag : Depth(t) \in 1..5
  BY DEF Depth, Tag

LEMMA ElementFacts ==
    ASSUME NEW E, NEW s \in Seq(E)
    PROVE  \A e \in Elements(s) : e \in E
  BY DEF Elements

LEMMA PushFacts ==
    ASSUME NEW E, NEW s \in Seq(E), NEW b \in E, Ordered(s),
           \A d \in Elements(s) : Depth(d.tag) < Depth(b.tag)
    PROVE  /\ Append(s, b) \in Seq(E) /\ Append(s, b) # <<>>
           /\ Ordered(Append(s, b))
           /\ Elements(Append(s, b)) = Elements(s) \cup {b}
  <1> DEFINE t == Append(s, b)
             m == Len(s)
  <1>1. /\ t \in Seq(E) /\ t # <<>> /\ m \in Nat /\ DOMAIN s = 1..m
        /\ DOMAIN t = 1..(m + 1) /\ t[m + 1] = b /\ \A i \in 1..m : t[i] = s[i]
    OBVIOUS
  <1> HIDE DEF t, m
  <1>2. \A i \in 1..(m + 1) : i = m + 1 \/ i \in 1..m
    BY <1>1
  <1>3. Elements(t) = Elements(s) \cup {b}
    <2>1. \A x \in Elements(t) : x \in Elements(s) \cup {b}
      BY <1>1, <1>2 DEF Elements
    <2>2. \A x \in Elements(s) : x \in Elements(t)
      <3>1. ASSUME NEW i \in 1..m PROVE i \in 1..(m + 1) /\ t[i] = s[i]
        BY <1>1
      <3>2. QED BY <1>1, <3>1 DEF Elements
    <2>3. b \in Elements(t)
      BY <1>1 DEF Elements
    <2>4. QED BY <2>1, <2>2, <2>3
  <1>4. Ordered(t)
    <2>1. SUFFICES ASSUME NEW i \in 1..(m + 1), NEW j \in 1..(m + 1), i < j
                   PROVE  Depth(t[i].tag) < Depth(t[j].tag)
      BY <1>1 DEF Ordered
    <2>2. i \in 1..m /\ t[i] = s[i]
      BY <1>1, <2>1
    <2>3. CASE j \in 1..m
      BY <1>1, <2>1, <2>2, <2>3 DEF Ordered
    <2>4. CASE j = m + 1
      BY <1>1, <2>2, <2>4 DEF Elements
    <2>5. QED BY <1>2, <2>3, <2>4
  <1>5. QED BY <1>1, <1>3, <1>4 DEF t

LEMMA PopFacts ==
    ASSUME NEW E, NEW s \in Seq(E), s # <<>>, Ordered(s)
    PROVE  /\ Last(s) \in E /\ Last(s) \in Elements(s)
           /\ Front(s) \in Seq(E) /\ Ordered(Front(s))
           /\ Elements(s) = Elements(Front(s)) \cup {Last(s)}
           /\ \A d \in Elements(Front(s)) : Depth(d.tag) < Depth(Last(s).tag)
  <1> DEFINE t == Front(s)
             m == Len(s) - 1
  <1>1. Len(s) \in Nat \ {0} /\ DOMAIN s = 1..Len(s) /\ \A i \in DOMAIN s : s[i] \in E
    <2>1. Len(s) # 0
      BY EmptySeq
    <2>2. QED BY <2>1, LenProperties
  <1>2. /\ m \in Nat /\ DOMAIN s = 1..(m + 1) /\ Last(s) = s[m + 1]
        /\ \A i \in 1..(m + 1) : s[i] \in E
    BY <1>1 DEF Last
  <1>3. t = SubSeq(s, 1, m)
    BY DEF Front
  <1>4. t \in Seq(E) /\ DOMAIN t = 1..m /\ \A i \in 1..m : t[i] = s[i]
    <2>1. \A i \in 1..m : s[i] \in E
      BY <1>2
    <2>2. SubSeq(s, 1, m) = [i \in 1..m |-> s[i]]
      BY <1>2
    <2>3. SubSeq(s, 1, m) \in Seq(E)
      BY <1>2, <2>1, <2>2
    <2>4. QED BY <1>3, <2>2, <2>3
  <1> HIDE DEF t, m
  <1>5. \A i \in 1..(m + 1) : i = m + 1 \/ i \in 1..m
    BY <1>2
  <1>6. \A i \in 1..m : i \in 1..(m + 1) /\ i < m + 1
    BY <1>2
  <1>7. Last(s) \in E /\ Last(s) \in Elements(s) /\ m + 1 \in DOMAIN s
    BY <1>2 DEF Elements
  <1>8. Elements(s) = Elements(t) \cup {Last(s)}
    <2>1. \A x \in Elements(s) : x \in Elements(t) \cup {Last(s)}
      BY <1>2, <1>4, <1>5 DEF Elements
    <2>2. \A x \in Elements(t) : x \in Elements(s)
      BY <1>2, <1>4, <1>6 DEF Elements
    <2>3. QED BY <1>7, <2>1, <2>2
  <1>9. Ordered(t)
    BY <1>2, <1>4, <1>6 DEF Ordered
  <1>10. \A d \in Elements(t) : Depth(d.tag) < Depth(Last(s).tag)
    BY <1>2, <1>4, <1>6, <1>7 DEF Ordered, Elements
  <1>11. QED BY <1>4, <1>7, <1>8, <1>9, <1>10 DEF t

LEMMA BlockFacts ==
    ASSUME blocks \in Seq(Block)
    PROVE  \A b \in Elements(blocks) : b \in Block /\ b.tag \in Tag /\ b.saved \in Database
  <1>1. \A b \in Elements(blocks) : b \in Block
    BY ElementFacts
  <1>2. \A b \in Block : b.tag \in Tag /\ b.saved \in Database
    BY DEF Block, Tag
  <1>3. QED BY <1>1, <1>2

(* Entering a block. *)
LEMMA Entering ==
    ASSUME blocks \in Seq(Block), Ordered(blocks), db \in Database, NEW tag \in Tag,
           \A t \in Tag : Open(t) => Depth(t) < Depth(tag), blocks' = Opened(tag)
    PROVE  /\ blocks' \in Seq(Block) /\ blocks' # <<>> /\ Ordered(blocks')
           /\ Elements(blocks') = Elements(blocks) \cup {[tag |-> tag, saved |-> db]}
           /\ \A t \in Tag : Open(t)' <=> Open(t) \/ t = tag
  <1>1. PICK b : b = [tag |-> tag, saved |-> db]
    OBVIOUS
  <1>2. b \in Block /\ b.tag = tag
    BY <1>1 DEF Block, Tag
  <1>3. \A d \in Elements(blocks) : d.tag \in Tag
    BY BlockFacts
  <1>4. \A d \in Elements(blocks) : Depth(d.tag) < Depth(b.tag)
    BY <1>2, <1>3 DEF Open
  <1>5. blocks' = Append(blocks, b)
    BY <1>1 DEF Opened
  <1>6. /\ blocks' \in Seq(Block) /\ blocks' # <<>> /\ Ordered(blocks')
        /\ Elements(blocks') = Elements(blocks) \cup {b}
    BY <1>2, <1>4, <1>5, PushFacts
  <1>7. \A t \in Tag : Open(t)' <=> Open(t) \/ t = tag
    BY <1>2, <1>6 DEF Open
  <1>8. QED BY <1>1, <1>6, <1>7

(* The innermost block, and leaving it. *)
LEMMA TopFacts ==
    ASSUME blocks \in Seq(Block), Ordered(blocks), blocks # <<>>, NEW top, top = Last(blocks)
    PROVE  /\ top \in Block /\ top \in Elements(blocks)
           /\ top.tag \in Tag /\ top.saved \in Database /\ Open(top.tag)
           /\ \A t \in Tag : Open(t) => Depth(t) <= Depth(top.tag)
  <1>1. /\ top \in Block /\ top \in Elements(blocks)
        /\ Elements(blocks) = Elements(Front(blocks)) \cup {top}
        /\ \A d \in Elements(Front(blocks)) : Depth(d.tag) < Depth(top.tag)
    BY PopFacts
  <1>2. top.tag \in Tag /\ top.saved \in Database /\ Open(top.tag)
    BY <1>1, BlockFacts DEF Open
  <1>3. \A t \in Tag : Open(t) => Depth(t) <= Depth(top.tag)
    BY <1>1, <1>2, Depths DEF Open
  <1>4. QED BY <1>1, <1>2, <1>3

LEMMA Leaving ==
    ASSUME blocks \in Seq(Block), Ordered(blocks), blocks # <<>>, db \in Database,
           NEW kept \in BOOLEAN, Leave(kept), NEW top, top = Last(blocks)
    PROVE  /\ top \in Block /\ top \in Elements(blocks)
           /\ top.tag \in Tag /\ top.saved \in Database /\ Open(top.tag)
           /\ \A t \in Tag : Open(t) => Depth(t) <= Depth(top.tag)
           /\ blocks' \in Seq(Block) /\ Ordered(blocks')
           /\ Elements(blocks) = Elements(blocks') \cup {top} /\ top \notin Elements(blocks')
           /\ \A t \in Tag : Open(t)' <=> Open(t) /\ t # top.tag
           /\ db' = (IF kept THEN db ELSE top.saved) /\ db' \in Database
           /\ broken' = (kept /\ broken) /\ ~doomed'
  <1>1. /\ top \in Block /\ top \in Elements(blocks)
        /\ blocks' \in Seq(Block) /\ Ordered(blocks')
        /\ Elements(blocks) = Elements(blocks') \cup {top}
        /\ \A d \in Elements(blocks') : Depth(d.tag) < Depth(top.tag)
    BY PopFacts DEF Leave
  <1>2. top.tag \in Tag /\ top.saved \in Database /\ Open(top.tag)
    BY <1>1 DEF Block, Tag, Open
  <1>3. Depth(top.tag) \in Nat
    BY <1>2, Depths
  <1>4. top \notin Elements(blocks')
    BY <1>1, <1>3
  <1>5. \A t \in Tag : Open(t) => Depth(t) <= Depth(top.tag)
    BY <1>1, <1>3, Depths DEF Open
  <1>6. \A t \in Tag : Open(t)' <=> Open(t) /\ t # top.tag
    BY <1>1, <1>3 DEF Open
  <1>7. /\ db' = (IF kept THEN db ELSE top.saved)
        /\ broken' = (kept /\ broken) /\ ~doomed'
    BY DEF Leave
  <1>8. QED BY <1>1, <1>2, <1>4, <1>5, <1>6, <1>7

LEMMA NoBlocks ==
    ASSUME blocks \in Seq(Block)
    PROVE  /\ blocks = <<>> <=> \A t \in Tag : ~Open(t)
           /\ \A b \in Elements(blocks) : b \in Block /\ b.tag \in Tag /\ b.saved \in Database
           /\ blocks # <<>> => blocks[1] \in Elements(blocks)
  <1>1. \A b \in Elements(blocks) : b \in Block /\ b.tag \in Tag /\ b.saved \in Database
    BY BlockFacts
  <1>2. Len(blocks) \in Nat /\ DOMAIN blocks = 1..Len(blocks) /\ (Len(blocks) = 0 <=> blocks = <<>>)
    BY EmptySeq, LenProperties
  <1>3. blocks # <<>> => 1 \in DOMAIN blocks
    BY <1>2
  <1>4. blocks # <<>> => blocks[1] \in Elements(blocks)
    BY <1>3 DEF Elements
  <1>5. blocks = <<>> => Elements(blocks) = {}
    BY <1>2 DEF Elements
  <1>6. blocks # <<>> => \E t \in Tag : Open(t)
    BY <1>1, <1>4 DEF Open
  <1>7. blocks = <<>> => \A t \in Tag : ~Open(t)
    BY <1>5 DEF Open
  <1>8. QED BY <1>1, <1>4, <1>6, <1>7

-----------------------------------------------------------------------------
(* Where the request is, and which blocks are open there: an exception may  *)
(* come from inside a save or not.                                          *)
Stepping == {"item", "second", "leave"}
Failing == {"diagnose", "unwind"}
Writing == Stepping \cup Failing \cup {"reread"}
Operating == Writing \cup {"root"}
Nests == HasNestedWork(Items)

Shape ==
    /\ Ordered(blocks)
    /\ Open("request") <=> atomic.requests /\ phase # "done"
    /\ Open("entry") <=> atomic.requests /\ request.batch
                            /\ phase \in Operating \cup {"operation", "exit"}
    /\ Open("mutation") <=> atomic.mutations /\ phase \in Operating
    /\ Open("nested") <=> phase \in Stepping \cup Failing /\ Nests
    /\ phase \in {"second", "leave"} => Open("save")
    /\ Open("save") => phase \in {"second", "leave", "unwind"}

Position ==
    /\ at[1] \in Nat \ {0} /\ at[2] \in Nat \ {0}
    /\ phase \in Operating \cup {"operation", "exit"} => at[1] \in DOMAIN request.entries
    /\ phase \notin Operating \cup {"exit"} => at[2] = 1
    /\ phase \in Writing => at[2] \in DOMAIN Roots /\ Roots[at[2]].op # "custom"
    /\ phase \in Writing => left <= Len(Items)
    /\ phase \in {"second", "leave"} \cup Failing => left > 0
    /\ phase = "reread" => left = 0
    /\ phase \in {"finish", "done"} => at[1] > Len(request.entries)
    /\ raising # None <=> phase \in Failing
    /\ phase = "second" => Current.set
    /\ Open("save") => Current.kind \notin {"add", "delete", "plain"}

Base == TypeOK /\ Shape /\ Position

LEMMA RequestFacts ==
    ASSUME TypeOK
    PROVE  /\ request.batch \in BOOLEAN /\ request.entries \in Seq(Seq(Root))
           /\ Len(request.entries) \in Nat /\ DOMAIN request.entries = 1..Len(request.entries)
           /\ ~request.batch => Len(request.entries) = 1
           /\ at[1] \in Nat /\ at[2] \in Nat /\ at = <<at[1], at[2]>>
           /\ \A p \in Parent : /\ p = <<p[1], p[2]>>
                                /\ p[1] \in Nat \ {0} /\ p[2] \in Nat \ {0}
  <1>1. request \in Requests /\ at \in Nat \X Nat
    BY DEF TypeOK
  <1>2. /\ request.batch \in BOOLEAN /\ request.entries \in Seq(Seq(Root))
        /\ ~request.batch => Len(request.entries) = 1
    BY <1>1, MutationWritesAssumption
  <1>3. Len(request.entries) \in Nat /\ DOMAIN request.entries = 1..Len(request.entries)
    BY <1>2, LenProperties
  <1>4. \A p \in Parent : p = <<p[1], p[2]>> /\ p[1] \in Nat \ {0} /\ p[2] \in Nat \ {0}
    BY MutationWritesAssumption
  <1>5. QED BY <1>1, <1>2, <1>3, <1>4

LEMMA RootsFacts ==
    ASSUME TypeOK, at[1] \in DOMAIN request.entries
    PROVE  Roots \in Seq(Root) /\ Len(Roots) \in Nat /\ DOMAIN Roots = 1..Len(Roots)
  <1>1. request.entries \in Seq(Seq(Root))
    BY RequestFacts
  <1>2. Roots \in Seq(Root)
    BY <1>1, ElementOfSeq DEF Roots
  <1>3. QED BY <1>2, LenProperties

LEMMA ItemsFacts ==
    ASSUME TypeOK, at[1] \in DOMAIN request.entries, at[2] \in DOMAIN Roots
    PROVE  /\ at \in Parent
           /\ Roots[at[2]].op \in {"create", "update", "delete", "custom"}
           /\ Items \in Seq(Item) /\ Len(Items) \in Nat /\ DOMAIN Items = 1..Len(Items)
           /\ Planned(Roots[at[2]])
  <1>1. request \in Requests /\ at = <<at[1], at[2]>>
    BY RequestFacts DEF TypeOK
  <1>2. at \in Parent /\ Planned(Roots[at[2]])
    BY <1>1, MutationWritesAssumption DEF Roots
  <1>3. Roots[at[2]] \in Root
    BY RootsFacts, ElementOfSeq
  <1>4. /\ Roots[at[2]].op \in {"create", "update", "delete", "custom"}
        /\ Items \in Seq(Item)
    BY <1>3 DEF Root, Items
  <1>5. QED BY <1>2, <1>4, LenProperties

LEMMA CurrentFacts ==
    ASSUME TypeOK, Position, phase \in Writing
    PROVE  /\ at \in Parent /\ at[1] \in DOMAIN request.entries /\ at[2] \in DOMAIN Roots
           /\ Roots[at[2]].op \in {"create", "update", "delete"}
           /\ Items \in Seq(Item) /\ Len(Items) \in Nat /\ DOMAIN Items = 1..Len(Items)
           /\ Planned(Roots[at[2]])
           /\ left \in 0..Len(Items)
           /\ left > 0 => /\ Index \in 1..Len(Items) /\ Current = Items[Index]
                          /\ Current \in Item
                          /\ Current.kind \in Kind /\ Current.pk \in Child \cup {None}
                          /\ Current.set \in BOOLEAN
  <1>1. /\ at[1] \in DOMAIN request.entries /\ at[2] \in DOMAIN Roots
        /\ Roots[at[2]].op # "custom" /\ left <= Len(Items)
    BY DEF Position, Operating
  <1>2. /\ at \in Parent /\ Roots[at[2]].op \in {"create", "update", "delete"}
        /\ Items \in Seq(Item) /\ Len(Items) \in Nat /\ DOMAIN Items = 1..Len(Items)
        /\ Planned(Roots[at[2]])
    BY <1>1, ItemsFacts
  <1>3. left \in 0..Len(Items)
    BY <1>1, <1>2 DEF TypeOK
  <1>4. ASSUME left > 0 PROVE Index \in 1..Len(Items) /\ Current = Items[Index]
    BY <1>2, <1>3, <1>4 DEF Index, Current
  <1>5. ASSUME left > 0 PROVE Current \in Item
    BY <1>2, <1>4, <1>5, ElementOfSeq
  <1>6. \A i \in Item : i.kind \in Kind /\ i.pk \in Child \cup {None} /\ i.set \in BOOLEAN
    BY DEF Item
  <1>7. QED BY <1>1, <1>2, <1>3, <1>4, <1>5, <1>6

LEMMA SameRoot ==
    ASSUME UNCHANGED <<request, at>>
    PROVE  Roots' = Roots /\ Items' = Items /\ Nests' = Nests
  <1>1. Roots' = Roots /\ Items' = Items
    BY DEF Roots, Items
  <1>2. QED BY <1>1 DEF Nests, HasNestedWork

LEMMA SameItem ==
    ASSUME UNCHANGED <<request, at, left>>
    PROVE  Index' = Index /\ Current' = Current
  BY SameRoot DEF Index, Current

LEMMA SameBlocks ==
    ASSUME UNCHANGED blocks
    PROVE  /\ Elements(blocks)' = Elements(blocks) /\ (Ordered(blocks) <=> Ordered(blocks)')
           /\ \A t \in Tag : Open(t)' <=> Open(t)
  BY DEF Elements, Open, Ordered

(* Which blocks enclose which.                                              *)
LEMMA TopTag ==
    ASSUME Shape, NEW top, top \in Tag, Open(top), \A t \in Tag : Open(t) => Depth(t) <= Depth(top)
    PROVE  /\ Open("save") => top = "save"
           /\ Open("nested") /\ ~Open("save") => top = "nested"
           /\ Open("mutation") /\ ~Open("save") /\ ~Open("nested") => top = "mutation"
           /\ Open("entry") /\ phase \in {"operation", "exit"} => top = "entry"
           /\ phase \in {"entry", "finish"} => top = "request"
  <1>1. top \in Tag /\ Open(top) /\ \A t \in Tag : Open(t) => Depth(t) <= Depth(top)
    OBVIOUS
  <1>2. /\ "save" \in Tag /\ "nested" \in Tag /\ "mutation" \in Tag /\ "entry" \in Tag
        /\ top \in {"request", "entry", "mutation", "nested", "save"}
    BY DEF Tag
  <1>3. phase \in {"operation", "exit", "entry", "finish"} =>
            ~Open("mutation") /\ ~Open("nested") /\ ~Open("save")
    BY DEF Shape, Operating, Writing, Stepping, Failing
  <1>4. phase \in {"entry", "finish"} => ~Open("entry")
    BY DEF Shape, Operating, Writing, Stepping, Failing
  <1>5. QED BY <1>1, <1>2, <1>3, <1>4, Depths

LEMMA InitBase == Init => Base
  <1> SUFFICES ASSUME Init PROVE Base
    OBVIOUS
  <1>1. db \in Database
    <2>1. db.saved = {} /\ db.touched = {} /\ db.tables \in Tables
          /\ db = [saved |-> db.saved, touched |-> db.touched, tables |-> db.tables]
      BY DEF Init
    <2>2. QED BY <2>1 DEF Database
  <1>2. /\ blocks \in Seq(Block) /\ Ordered(blocks)
        /\ \A t \in Tag : Open(t) <=> t = "request" /\ atomic.requests
    <2>1. <<>> \in Seq(Block) /\ Ordered(<<>>) /\ Elements(<<>>) = {}
      BY DEF Ordered, Elements
    <2>2. CASE ~atomic.requests
      BY <2>1, <2>2 DEF Init, Open
    <2>3. CASE atomic.requests
      <3>1. PICK b : b = [tag |-> "request", saved |-> db]
        OBVIOUS
      <3>2. b \in Block /\ b.tag = "request"
        BY <1>1, <3>1 DEF Block
      <3>3. blocks = <<b>>
        BY <2>3, <3>1 DEF Init
      <3>4. blocks \in Seq(Block) /\ Ordered(blocks) /\ Elements(blocks) = {b}
        BY <3>2, <3>3 DEF Ordered, Elements
      <3>5. QED BY <2>3, <3>2, <3>4 DEF Open
    <2>4. QED BY <2>2, <2>3
  <1>3. TypeOK
    <2>1. /\ atomic \in [requests : BOOLEAN, mutations : BOOLEAN] /\ request \in Requests
          /\ at \in Nat \X Nat /\ phase = "entry" /\ left \in Nat /\ joining \subseteq Child
          /\ raising = None /\ broken \in BOOLEAN /\ doomed \in BOOLEAN /\ flag \in BOOLEAN
          /\ failed \in BOOLEAN /\ marked \in BOOLEAN /\ wrote = {}
      BY DEF Init
    <2>2. before \in Tables
      BY DEF Init
    <2>3. outcome \in [Parent -> Outcome]
      BY DEF Init, Outcome
    <2>4. QED BY <1>1, <1>2, <2>1, <2>2, <2>3 DEF TypeOK
  <1>4. Shape
    BY <1>2 DEF Shape, Init, Tag, Operating, Writing, Stepping, Failing
  <1>5. Position
    BY <1>2 DEF Position, Init, Tag, Operating, Writing, Stepping, Failing
  <1>6. QED BY <1>3, <1>4, <1>5 DEF Base

(* At first, every block would restore what is there.                       *)
LEMMA InitBlocks == ASSUME Init PROVE \A b \in Elements(blocks) : b.saved = db /\ b.tag = "request"
  <1>1. CASE atomic.requests
    <2>1. PICK b : b = [tag |-> "request", saved |-> db]
      OBVIOUS
    <2>2. blocks = <<b>>
      BY <1>1, <2>1 DEF Init
    <2>3. \A d \in Elements(blocks) : d = b
      BY <2>2 DEF Elements
    <2>4. QED BY <2>1, <2>3
  <1>2. CASE ~atomic.requests
    <2>1. blocks = <<>>
      BY <1>2 DEF Init
    <2>2. QED BY <2>1 DEF Elements
  <1>3. QED BY <1>1, <1>2
(* One step keeps the shape: first the entries and the operations.          *)
LEMMA EndsFacts ==
    ASSUME TypeOK, at \in Parent, NEW how \in Outcome, Ends(how)
    PROVE  /\ outcome' \in [Parent -> Outcome] /\ outcome'[at] = how
           /\ \A p \in Parent : p # at => outcome'[p] = outcome[p]
           /\ failed' = (failed \/ how \in {"error", "late", "unusable"})
           /\ at' = <<at[1], at[2] + 1>> /\ at' \in Nat \X Nat
           /\ at'[1] = at[1] /\ at'[2] = at[2] + 1
           /\ phase' = "root"
  <1>1. at[1] \in Nat /\ at[2] \in Nat
    BY RequestFacts
  <1>2. outcome \in [Parent -> Outcome]
    BY DEF TypeOK
  <1>3. QED BY <1>1, <1>2 DEF Ends

LEMMA EnterEntryBase == ASSUME Base, EnterEntry PROVE Base'
  <1>1. /\ phase = "entry" /\ phase' \in {"operation", "exit", "finish"}
        /\ phase' # "finish" <=> at[1] <= Len(request.entries)
        /\ blocks' = (IF phase' # "finish" /\ request.batch /\ atomic.requests THEN Opened("entry")
                      ELSE blocks)
        /\ UNCHANGED <<atomic, request, at, left, joining, raising, db, broken, doomed, marked,
                       wrote, before>>
    BY DEF EnterEntry, ItemSavepoints, progress
  <1>2. /\ flag' \in BOOLEAN /\ failed' \in BOOLEAN /\ outcome' \in [Parent -> Outcome]
    BY <1>1 DEF EnterEntry, Base, TypeOK, Outcome
  <1>3. /\ \A t \in {"mutation", "nested", "save", "entry"} : t \in Tag /\ ~Open(t)
        /\ "request" \in Tag
    BY <1>1 DEF Base, Shape, Tag, Operating, Writing, Stepping, Failing
  <1>4. \A t \in Tag : Open(t) => Depth(t) < Depth("entry")
    BY <1>3, Depths DEF Tag
  <1>5. /\ blocks' \in Seq(Block) /\ Ordered(blocks')
        /\ \A t \in Tag : Open(t)' <=> Open(t) \/ (t = "entry" /\ phase' # "finish"
                                                   /\ request.batch /\ atomic.requests)
    <2>1. CASE phase' # "finish" /\ request.batch /\ atomic.requests
      BY <1>1, <1>3, <1>4, <2>1, Entering DEF Base, TypeOK, Shape
    <2>2. CASE ~(phase' # "finish" /\ request.batch /\ atomic.requests)
      BY <1>1, <2>2, SameBlocks DEF Base, TypeOK, Shape
    <2>3. QED BY <2>1, <2>2
  <1>6. TypeOK'
    BY <1>1, <1>2, <1>5 DEF Base, TypeOK
  <1>7. Shape'
    BY <1>1, <1>3, <1>5 DEF Base, Shape, Operating, Writing, Stepping, Failing
  <1>8. Position'
    <2>1. /\ at[1] \in Nat \ {0} /\ at[2] = 1 /\ raising = None
          /\ phase' # "finish" => at[1] \in DOMAIN request.entries
          /\ phase' = "finish" => at[1] > Len(request.entries)
      BY <1>1, RequestFacts DEF Base, Position, Operating, Writing, Stepping, Failing
    <2>2. ~Open("save")'
      BY <1>3, <1>5
    <2>3. QED BY <1>1, <2>1, <2>2 DEF Position, Operating, Writing, Stepping, Failing
  <1>9. QED BY <1>6, <1>7, <1>8 DEF Base

LEMMA BeginOperationBase == ASSUME Base, BeginOperation PROVE Base'
  <1>1. /\ phase = "operation" /\ phase' = "root"
        /\ blocks' = (IF atomic.mutations THEN Opened("mutation") ELSE blocks)
        /\ marked' = (marked \/ ~atomic.mutations)
        /\ UNCHANGED <<atomic, request, at, left, joining, raising, db, broken, doomed, flag,
                       failed, outcome, wrote, before>>
    BY DEF BeginOperation, MarkedBefore, progress
  <1>2. marked' \in BOOLEAN
    BY <1>1 DEF Base, TypeOK
  <1>3. /\ \A t \in {"mutation", "nested", "save"} : t \in Tag /\ ~Open(t)
        /\ "request" \in Tag /\ "entry" \in Tag
    BY <1>1 DEF Base, Shape, Tag, Operating, Writing, Stepping, Failing
  <1>4. \A t \in Tag : Open(t) => Depth(t) < Depth("mutation")
    BY <1>3, Depths DEF Tag
  <1>5. /\ blocks' \in Seq(Block) /\ Ordered(blocks')
        /\ \A t \in Tag : Open(t)' <=> Open(t) \/ (t = "mutation" /\ atomic.mutations)
    <2>1. CASE atomic.mutations
      BY <1>1, <1>3, <1>4, <2>1, Entering DEF Base, TypeOK, Shape
    <2>2. CASE ~atomic.mutations
      BY <1>1, <2>2, SameBlocks DEF Base, TypeOK, Shape
    <2>3. QED BY <2>1, <2>2
  <1>6. TypeOK'
    BY <1>1, <1>2, <1>5 DEF Base, TypeOK
  <1>7. Shape'
    BY <1>1, <1>3, <1>5 DEF Base, Shape, Operating, Writing, Stepping, Failing
  <1>8. Position'
    <2>1. /\ at[1] \in Nat \ {0} /\ at[2] = 1 /\ raising = None
          /\ at[1] \in DOMAIN request.entries /\ ~Open("save")'
      BY <1>1, <1>3, <1>5 DEF Base, Position, Operating, Writing, Stepping, Failing
    <2>2. QED BY <1>1, <2>1 DEF Position, Operating, Writing, Stepping, Failing
  <1>9. QED BY <1>6, <1>7, <1>8 DEF Base

LEMMA EndOperationBase == ASSUME Base, EndOperation PROVE Base'
  <1>1. /\ phase = "root" /\ phase' = "exit"
        /\ IF atomic.mutations
           THEN Leave(~RollsBack) /\ marked' = (marked \/ ~RollsBack)
           ELSE UNCHANGED <<db, blocks, broken, doomed, marked>>
        /\ UNCHANGED <<atomic, request, at, left, joining, raising, flag, failed, outcome, wrote,
                       before>>
    BY DEF EndOperation, transaction, progress
  <1>2. /\ \A t \in {"nested", "save"} : t \in Tag /\ ~Open(t)
        /\ "request" \in Tag /\ "entry" \in Tag /\ "mutation" \in Tag
        /\ Open("mutation") <=> atomic.mutations
    BY <1>1 DEF Base, Shape, Tag, Operating, Writing, Stepping, Failing
  <1>3. /\ blocks' \in Seq(Block) /\ Ordered(blocks') /\ db' \in Database
        /\ broken' \in BOOLEAN /\ doomed' \in BOOLEAN /\ marked' \in BOOLEAN
        /\ \A t \in Tag : Open(t)' <=> Open(t) /\ t # "mutation"
    <2>1. CASE atomic.mutations
      <3>1. blocks # <<>> /\ RollsBack \in BOOLEAN
        BY <1>2, <2>1, NoBlocks DEF Base, TypeOK, RollsBack
      <3>2. PICK top : top = Last(blocks)
        OBVIOUS
      <3>3. /\ top.tag \in Tag /\ Open(top.tag)
            /\ \A t \in Tag : Open(t) => Depth(t) <= Depth(top.tag)
            /\ blocks' \in Seq(Block) /\ Ordered(blocks')
            /\ \A t \in Tag : Open(t)' <=> Open(t) /\ t # top.tag
            /\ db' \in Database /\ broken' = (~RollsBack /\ broken) /\ ~doomed'
        BY <1>1, <2>1, <3>1, <3>2, Leaving DEF Base, TypeOK, Shape
      <3>4. top.tag = "mutation"
        BY <1>2, <2>1, <3>3, TopTag DEF Base
      <3>5. broken' \in BOOLEAN /\ doomed' \in BOOLEAN /\ marked' \in BOOLEAN
        BY <1>1, <2>1, <3>1, <3>3 DEF Base, TypeOK, Leave
      <3>6. QED BY <3>3, <3>4, <3>5
    <2>2. CASE ~atomic.mutations
      BY <1>1, <1>2, <2>2, SameBlocks DEF Base, TypeOK, Shape
    <2>3. QED BY <2>1, <2>2
  <1>4. TypeOK'
    BY <1>1, <1>3 DEF Base, TypeOK
  <1>5. Shape'
    BY <1>1, <1>2, <1>3 DEF Base, Shape, Operating, Writing, Stepping, Failing
  <1>6. Position'
    <2>1. /\ at[1] \in Nat \ {0} /\ at[2] \in Nat \ {0} /\ raising = None
          /\ at[1] \in DOMAIN request.entries /\ ~Open("save")'
      BY <1>1, <1>2, <1>3 DEF Base, Position, Operating, Writing, Stepping, Failing
    <2>2. QED BY <1>1, <2>1 DEF Position, Operating, Writing, Stepping, Failing
  <1>7. QED BY <1>4, <1>5, <1>6 DEF Base

LEMMA ExitEntryFacts ==
    ASSUME Base, ExitEntry
    PROVE  /\ phase = "exit" /\ phase' = "entry" /\ at' = <<at[1] + 1, 1>>
           /\ at'[1] = at[1] + 1 /\ at'[2] = 1 /\ at' \in Nat \X Nat
           /\ UNCHANGED <<atomic, request, left, joining, raising, flag, failed, outcome, marked,
                          wrote, before>>
           /\ \/ /\ atomic.requests /\ request.batch /\ Leave(~(flag \/ failed))
                 /\ Last(blocks).tag = "entry" /\ blocks # <<>>
              \/ /\ ~(atomic.requests /\ request.batch)
                 /\ doomed' = (atomic.requests /\ (flag \/ failed))
                 /\ UNCHANGED <<db, blocks, broken>>
  <1>1. /\ phase = "exit" /\ phase' = "entry" /\ at' = <<at[1] + 1, 1>>
        /\ UNCHANGED <<atomic, request, left, joining, raising, flag, failed, outcome, marked,
                       wrote, before>>
        /\ IF blocks # <<>> /\ Last(blocks).tag = "entry"
           THEN Leave(~(atomic.requests /\ (flag \/ failed)))
           ELSE /\ doomed' = (atomic.requests /\ (flag \/ failed))
                /\ UNCHANGED <<db, blocks, broken>>
    BY DEF ExitEntry, progress
  <1>2. at[1] \in Nat /\ at[2] \in Nat
    BY RequestFacts DEF Base
  <1>3. Open("entry") <=> atomic.requests /\ request.batch
    BY <1>1 DEF Base, Shape
  <1>4. blocks # <<>> /\ Last(blocks).tag = "entry" <=> atomic.requests /\ request.batch
    <2>1. PICK top : top = Last(blocks)
      OBVIOUS
    <2>2. ASSUME blocks # <<>>
          PROVE  /\ top.tag \in Tag /\ Open(top.tag)
                 /\ \A t \in Tag : Open(t) => Depth(t) <= Depth(top.tag)
      BY <2>1, <2>2, TopFacts DEF Base, TypeOK, Shape
    <2>3. Open("entry") => blocks # <<>>
      BY NoBlocks DEF Base, TypeOK, Tag
    <2>4. blocks # <<>> /\ Open("entry") => top.tag = "entry"
      BY <1>1, <2>2, TopTag DEF Base
    <2>5. blocks # <<>> /\ top.tag = "entry" => Open("entry")
      BY <2>2
    <2>6. QED BY <1>3, <2>1, <2>3, <2>4, <2>5
  <1>5. atomic.requests \in BOOLEAN /\ flag \in BOOLEAN /\ failed \in BOOLEAN
    BY DEF Base, TypeOK
  <1>6. /\ \/ /\ atomic.requests /\ request.batch /\ Leave(~(flag \/ failed))
              /\ Last(blocks).tag = "entry" /\ blocks # <<>>
           \/ /\ ~(atomic.requests /\ request.batch)
              /\ doomed' = (atomic.requests /\ (flag \/ failed))
              /\ UNCHANGED <<db, blocks, broken>>
    <2>1. CASE atomic.requests /\ request.batch
      <3>1. (~(atomic.requests /\ (flag \/ failed))) = (~(flag \/ failed))
        BY <1>5, <2>1
      <3>2. Leave(~(atomic.requests /\ (flag \/ failed)))
        BY <1>1, <1>4, <2>1
      <3>3. Leave(~(flag \/ failed))
        BY <3>1, <3>2
      <3>4. QED BY <1>4, <2>1, <3>3
    <2>2. CASE ~(atomic.requests /\ request.batch)
      BY <1>1, <1>4, <2>2
    <2>3. QED BY <2>1, <2>2
  <1>7. QED BY <1>1, <1>2, <1>6

LEMMA ExitEntryBase == ASSUME Base, ExitEntry PROVE Base'
  <1>1. /\ phase = "exit" /\ phase' = "entry" /\ at'[1] = at[1] + 1 /\ at'[2] = 1
        /\ at' \in Nat \X Nat
        /\ UNCHANGED <<atomic, request, left, joining, raising, flag, failed, outcome, marked,
                       wrote, before>>
    BY ExitEntryFacts
  <1>2. /\ \A t \in {"mutation", "nested", "save"} : t \in Tag /\ ~Open(t)
        /\ "request" \in Tag /\ "entry" \in Tag
        /\ Open("entry") <=> atomic.requests /\ request.batch
    BY <1>1 DEF Base, Shape, Tag, Operating, Writing, Stepping, Failing
  <1>3. /\ blocks' \in Seq(Block) /\ Ordered(blocks') /\ db' \in Database
        /\ broken' \in BOOLEAN /\ doomed' \in BOOLEAN
        /\ \A t \in Tag : Open(t)' <=> Open(t) /\ t # "entry"
    <2>1. CASE atomic.requests /\ request.batch
      <3>1. PICK top : top = Last(blocks)
        OBVIOUS
      <3>2. PICK kept \in BOOLEAN : kept = ~(flag \/ failed)
        OBVIOUS
      <3>3. Leave(kept) /\ blocks # <<>> /\ top.tag = "entry"
        BY <2>1, <3>1, <3>2, ExitEntryFacts
      <3>4. /\ blocks' \in Seq(Block) /\ Ordered(blocks')
            /\ \A t \in Tag : Open(t)' <=> Open(t) /\ t # top.tag
            /\ db' \in Database /\ broken' = (kept /\ broken)
        BY <3>1, <3>3, Leaving DEF Base, TypeOK, Shape
      <3>5. broken' \in BOOLEAN /\ doomed' \in BOOLEAN
        BY <3>3, <3>4 DEF Base, TypeOK, Leave
      <3>6. QED BY <3>3, <3>4, <3>5
    <2>2. CASE ~(atomic.requests /\ request.batch)
      <3>1. UNCHANGED <<db, blocks, broken>> /\ doomed' \in BOOLEAN
        BY <2>2, ExitEntryFacts DEF Base, TypeOK
      <3>2. QED BY <1>2, <2>2, <3>1, SameBlocks DEF Base, TypeOK, Shape
    <2>3. QED BY <2>1, <2>2
  <1>4. TypeOK'
    BY <1>1, <1>3 DEF Base, TypeOK
  <1>5. Shape'
    BY <1>1, <1>2, <1>3 DEF Base, Shape, Operating, Writing, Stepping, Failing
  <1>6. Position'
    <2>1. at'[1] \in Nat \ {0} /\ raising = None /\ ~Open("save")'
      BY <1>1, <1>2, <1>3, RequestFacts DEF Base, Position, Operating, Writing, Stepping, Failing
    <2>2. QED BY <1>1, <2>1 DEF Position, Operating, Writing, Stepping, Failing
  <1>7. QED BY <1>4, <1>5, <1>6 DEF Base

LEMMA FinishBase == ASSUME Base, Finish PROVE Base'
  <1>1. /\ phase = "finish" /\ phase' = "done"
        /\ IF blocks # <<>> THEN Leave(~doomed) ELSE UNCHANGED <<db, blocks, broken, doomed>>
        /\ UNCHANGED <<atomic, request, at, left, joining, raising, flag, failed, outcome, marked,
                       wrote, before>>
    BY DEF Finish, transaction, progress
  <1>2. \A t \in Tag : Open(t) => t = "request"
    BY <1>1 DEF Base, Shape, Tag, Operating, Writing, Stepping, Failing
  <1>3. /\ blocks' \in Seq(Block) /\ Ordered(blocks') /\ db' \in Database
        /\ broken' \in BOOLEAN /\ doomed' \in BOOLEAN
        /\ \A t \in Tag : ~Open(t)'
    <2>1. CASE blocks # <<>>
      <3>1. PICK top : top = Last(blocks)
        OBVIOUS
      <3>2. PICK kept \in BOOLEAN : kept = ~doomed
        OBVIOUS
      <3>3. /\ top.tag \in Tag /\ Open(top.tag)
            /\ blocks' \in Seq(Block) /\ Ordered(blocks')
            /\ \A t \in Tag : Open(t)' <=> Open(t) /\ t # top.tag
            /\ db' \in Database /\ broken' = (kept /\ broken)
        BY <1>1, <2>1, <3>1, <3>2, Leaving DEF Base, TypeOK, Shape
      <3>4. broken' \in BOOLEAN /\ doomed' \in BOOLEAN
        BY <1>1, <2>1, <3>3 DEF Base, TypeOK, Leave
      <3>5. QED BY <1>2, <3>3, <3>4
    <2>2. CASE blocks = <<>>
      <3>1. UNCHANGED <<db, blocks, broken, doomed>>
        BY <1>1, <2>2
      <3>2. \A t \in Tag : ~Open(t)
        BY <2>2, NoBlocks DEF Base, TypeOK
      <3>3. QED BY <3>1, <3>2, SameBlocks DEF Base, TypeOK, Shape
    <2>3. QED BY <2>1, <2>2
  <1>4. TypeOK'
    BY <1>1, <1>3 DEF Base, TypeOK
  <1>5. Shape'
    BY <1>1, <1>3 DEF Shape, Tag, Operating, Writing, Stepping, Failing
  <1>6. Position'
    <2>1. /\ at[1] \in Nat \ {0} /\ at[2] = 1 /\ raising = None /\ ~Open("save")'
          /\ at[1] > Len(request.entries)
      BY <1>1, <1>3 DEF Base, Position, Tag, Operating, Writing, Stepping, Failing
    <2>2. QED BY <1>1, <2>1 DEF Position, Operating, Writing, Stepping, Failing
  <1>7. QED BY <1>4, <1>5, <1>6 DEF Base

(* What a statement does to the tables.                                     *)
Scopes(t) == <<t.hosts, t.hostHides, t.scopedType, t.outputHides>>

WithKey(t, p, k) == [t EXCEPT !.key[p] = k]
WithOwner(t, p, c) == [t EXCEPT !.owner[c] = p]
WithLinks(t, more) == [t EXCEPT !.links = @ \cup more]

LEMMA KeySet ==
    ASSUME NEW t \in Tables, NEW p \in Parent, NEW k \in Child \cup {None},
           NEW u, u = WithKey(t, p, k)
    PROVE  /\ u \in Tables /\ Scopes(u) = Scopes(t) /\ u.owner = t.owner
           /\ u.links = t.links
  BY DEF Tables, Scopes, WithKey

LEMMA OwnerSet ==
    ASSUME NEW t \in Tables, NEW p \in Parent, NEW c \in Child,
           NEW u, u = WithOwner(t, p, c)
    PROVE  /\ u \in Tables /\ Scopes(u) = Scopes(t) /\ u.key = t.key
           /\ u.links = t.links /\ u.owner[c] = p
           /\ \A d \in Child : d # c => u.owner[d] = t.owner[d]
  BY DEF Tables, Scopes, WithOwner

LEMMA LinksAdded ==
    ASSUME NEW t \in Tables, NEW more \in SUBSET (Parent \X Child),
           NEW u, u = WithLinks(t, more)
    PROVE  /\ u \in Tables /\ Scopes(u) = Scopes(t) /\ u.key = t.key /\ u.owner = t.owner
           /\ u.links = t.links \cup more
  BY DEF Tables, Scopes, WithLinks

LEMMA WrittenFacts ==
    ASSUME TypeOK, Position, phase \in Writing, NEW item \in Item, NEW u, u = Written(item)
    PROVE  /\ u \in Tables /\ Scopes(u) = Scopes(db.tables) /\ u.links = db.tables.links
           /\ item.kind # "parent" => u.key = db.tables.key
           /\ IF item.kind = "reverse" /\ item.pk # None
              THEN /\ u.owner[item.pk] = at
                   /\ \A d \in Child : d # item.pk => u.owner[d] = db.tables.owner[d]
              ELSE u.owner = db.tables.owner
  <1>1. PICK t, p : t = db.tables /\ p = at
    OBVIOUS
  <1>7. t \in Tables /\ item.pk \in Child \cup {None}
    BY <1>1 DEF TypeOK, Database, Item
  <1>2. p \in Parent /\ Items \in Seq(Item) /\ DOMAIN Items = 1..Len(Items)
    BY <1>1, CurrentFacts
  <1>3. CASE item.kind = "parent"
    <2> DEFINE keys == {Items[i].pk : i \in {j \in DOMAIN Items :
                              Items[j].kind \in {"forward", "plain"}}} \ {None}
    <2>1. \A i \in DOMAIN Items : Items[i].pk \in Child \cup {None}
      <3>1. \A i \in DOMAIN Items : Items[i] \in Item
        BY <1>2, ElementOfSeq
      <3>2. QED BY <3>1 DEF Item
    <2>2. keys \subseteq Child
      BY <2>1
    <2>3. PICK k : k = (IF keys = {} THEN db.tables.key[at] ELSE CHOOSE c \in keys : TRUE)
      OBVIOUS
    <2>4. k \in Child \cup {None}
      BY <1>1, <1>7, <1>2, <2>2, <2>3 DEF Tables
    <2> HIDE DEF keys
    <2>5. u = WithKey(t, p, k)
      BY <1>1, <1>3, <2>3 DEF Written, WithKey, keys
    <2>6. u \in Tables /\ Scopes(u) = Scopes(t) /\ u.owner = t.owner /\ u.links = t.links
      BY <1>7, <1>2, <2>4, <2>5, KeySet
    <2>7. QED BY <1>1, <1>3, <2>6
  <1>4. CASE item.kind = "reverse" /\ item.pk # None
    <2>1. PICK c \in Child : c = item.pk
      BY <1>7, <1>4
    <2>2. u = WithOwner(t, p, c)
      BY <1>1, <1>4, <2>1 DEF Written, WithOwner
    <2>3. /\ u \in Tables /\ Scopes(u) = Scopes(t) /\ u.key = t.key
          /\ u.links = t.links /\ u.owner[c] = p
          /\ \A d \in Child : d # c => u.owner[d] = t.owner[d]
      BY <1>7, <1>2, <2>2, OwnerSet
    <2>4. QED BY <1>1, <1>4, <2>1, <2>3
  <1>5. CASE item.kind # "parent" /\ ~(item.kind = "reverse" /\ item.pk # None)
    <2>1. u = db.tables
      BY <1>5 DEF Written
    <2>2. QED BY <1>1, <1>7, <1>5, <2>1
  <1>6. QED BY <1>3, <1>4, <1>5

(* The steps that write: a statement succeeds, an exception is raised, or   *)
(* an existing row is only linked.                                          *)
Statements == \* a statement of the current item fails
    \/ Usable /\ broken' = (blocks' # <<>>) /\ raising' = "integrity"
    \/ ~Usable /\ broken' = broken /\ raising' = "unusable"
Plainly == phase = "second" \/ Current.kind \in {"add", "delete"} \* no save is entered
Enters == \* a save is entered, if there is something to protect
    \/ blocks' = Opened("save")
    \/ blocks' = blocks /\ blocks = <<>> /\ ~Current.set
Succeeds ==
    /\ Usable /\ UNCHANGED <<broken, doomed, raising>>
    /\ phase = "item" => Current.kind # "plain"
    /\ \E n \in {1, 2} : /\ wrote' = wrote \cup {<<at, Index, n>>}
                         /\ db'.saved = db.saved \cup {<<at, Index, n>>}
    /\ db' \in Database /\ Scopes(db'.tables) = Scopes(db.tables)
    /\ \/ /\ phase = "item" /\ ~Plainly /\ blocks' = Opened("save") /\ left' = left
          /\ phase' \in {"second", "leave"} /\ (phase' = "second" => Current.set)
       \/ /\ phase = "item" /\ (Plainly \/ blocks = <<>>) /\ UNCHANGED blocks
          /\ phase' = "item" /\ left' = left - 1
       \/ /\ phase = "second" /\ phase' = "leave" /\ UNCHANGED <<blocks, left>>
Fails ==
    /\ phase' = "unwind" /\ UNCHANGED <<db, wrote, doomed, left>>
    /\ \/ UNCHANGED <<blocks, broken>> /\ raising' \in {"nested", "error"}
       \/ Statements /\ Plainly /\ UNCHANGED blocks
       \/ Statements /\ ~Plainly /\ Current.kind # "plain" /\ Enters
Links ==
    /\ phase = "item" /\ ~Plainly /\ Current.kind # "parent"
    /\ phase' = "item" /\ left' = left - 1 /\ UNCHANGED <<db, blocks, broken, doomed, raising, wrote>>
Writes == WriteItem \/ AddLinks \/ Delete \/ SecondStatement

LEMMA StatementFacts ==
    ASSUME Base, phase \in Writing, left > 0, NEW n \in {1, 2}, NEW tables \in Tables,
           Scopes(tables) = Scopes(db.tables),
           NEW touched \in SUBSET (Parent \X Kind \X Child), Statement(n, tables, touched)
    PROVE  \/ /\ Usable /\ UNCHANGED <<broken, raising>>
              /\ wrote' = wrote \cup {<<at, Index, n>>}
              /\ db'.saved = db.saved \cup {<<at, Index, n>>}
              /\ db'.tables = tables /\ db'.touched = db.touched \cup touched
              /\ db' \in Database /\ Scopes(db'.tables) = Scopes(db.tables)
           \/ Statements /\ phase' = "unwind" /\ UNCHANGED <<db, wrote>> /\ raising' # None
  <1>1. at \in Parent /\ Index \in Nat
    BY CurrentFacts DEF Base
  <1>2. PICK w : w = <<at, Index, n>>
    OBVIOUS
  <1>3. w \in Parent \X Nat \X {1, 2}
    BY <1>1, <1>2
  <1>4. CASE /\ Usable /\ UNCHANGED <<broken, raising>>
             /\ db' = [saved |-> db.saved \cup {w}, tables |-> tables,
                       touched |-> db.touched \cup touched]
             /\ wrote' = wrote \cup {w}
    <2>1. db' \in Database
      <3>1. db.saved \cup {w} \in SUBSET (Parent \X Nat \X {1, 2})
        BY <1>3 DEF Base, TypeOK, Database
      <3>2. db.touched \cup touched \in SUBSET (Parent \X Kind \X Child)
        BY DEF Base, TypeOK, Database
      <3>3. QED BY <1>4, <3>1, <3>2 DEF Database
    <2>2. QED BY <1>2, <1>4, <2>1
  <1>5. CASE Usable /\ broken' = (blocks' # <<>>) /\ Raise("integrity") /\ UNCHANGED <<db, wrote>>
    BY <1>5, MutationWritesAssumption DEF Statements, Raise
  <1>6. CASE ~Usable /\ Raise("unusable") /\ UNCHANGED <<db, wrote, broken>>
    BY <1>6, MutationWritesAssumption DEF Statements, Raise
  <1>7. QED BY <1>2, <1>4, <1>5, <1>6 DEF Statement

LEMMA WriteItemSteps ==
    ASSUME Base, WriteItem
    PROVE  /\ phase = "item" /\ left > 0 /\ raising = None /\ ~Plainly
           /\ UNCHANGED <<atomic, request, at, flag, failed, outcome, marked, before>>
           /\ joining' \subseteq Child
           /\ Succeeds \/ Fails \/ Links
  <1>1. /\ phase = "item" /\ left > 0 /\ Current.kind \notin {"add", "delete"}
        /\ UNCHANGED <<atomic, request, at, flag, failed, outcome, marked, before>>
    BY DEF WriteItem
  <1>2. /\ raising = None /\ ~Plainly /\ phase \in Writing /\ joining \subseteq Child
        /\ Current \in Item /\ Current.kind \in Kind /\ Current.pk \in Child \cup {None}
        /\ at \in Parent
    BY <1>1, CurrentFacts DEF Base, TypeOK, Position, Plainly, Writing, Stepping, Failing
  <1>3. PICK decision : decision = (IF Current.kind = "parent" THEN "update"
                                    ELSE Decide(db.tables, at, Current))
    OBVIOUS
  <1>9. Current.kind = "plain" => decision = "link"
    <2>1. Planned(Roots[at[2]]) /\ Current = Items[Index] /\ Index \in DOMAIN Items
      BY <1>1, <1>2, CurrentFacts DEF Base
    <2>2. Current.kind = "plain" => Current.pk # None
      BY <2>1 DEF Planned, Items
    <2>3. QED BY <1>3, <2>2 DEF Decide, DecideForward
  <1>4. CASE /\ Save /\ UNCHANGED doomed /\ decision \in {"create", "update"}
             /\ joining' = IF Current.kind = "m2m" THEN joining \cup ({Current.pk} \ {None})
                           ELSE joining
    <2>1. joining' \subseteq Child /\ Current.kind # "plain"
      BY <1>2, <1>4, <1>9
    <2>2. PICK tables : tables = Written(Current)
      OBVIOUS
    <2>3. PICK touched : touched = IF Current.kind # "parent" /\ Current.pk # None
                                   THEN {<<at, Current.kind, Current.pk>>} ELSE {}
      OBVIOUS
    <2>4. tables \in Tables /\ Scopes(tables) = Scopes(db.tables)
      BY <1>2, <2>2, WrittenFacts DEF Base
    <2>5. touched \in SUBSET (Parent \X Kind \X Child)
      BY <1>2, <2>3
    <2>6. /\ blocks' = SaveBoundary /\ Statement(1, tables, touched)
          /\ \/ raising' # None /\ UNCHANGED left
             \/ /\ raising' = None
                /\ phase' = IF Current.set THEN "second"
                            ELSE IF blocks' # blocks THEN "leave" ELSE "item"
                /\ IF phase' = "item" THEN left' = left - 1 ELSE UNCHANGED left
      BY <1>4, <2>2, <2>3 DEF Save, Skip
    <2>7. Enters
      BY <2>6 DEF Enters, SaveBoundary
    <2>8. \/ /\ Usable /\ UNCHANGED <<broken, raising>>
             /\ wrote' = wrote \cup {<<at, Index, 1>>}
             /\ db'.saved = db.saved \cup {<<at, Index, 1>>}
             /\ db' \in Database /\ Scopes(db'.tables) = Scopes(db.tables)
          \/ Statements /\ phase' = "unwind" /\ UNCHANGED <<db, wrote>> /\ raising' # None
      BY <1>1, <1>2, <2>4, <2>5, <2>6, StatementFacts
    <2>9. CASE Statements /\ phase' = "unwind" /\ UNCHANGED <<db, wrote>> /\ raising' # None
      BY <1>1, <1>2, <1>4, <2>1, <2>6, <2>7, <2>9 DEF Fails
    <2>10. CASE /\ Usable /\ UNCHANGED <<broken, raising>>
                /\ wrote' = wrote \cup {<<at, Index, 1>>}
                /\ db'.saved = db.saved \cup {<<at, Index, 1>>}
                /\ db' \in Database /\ Scopes(db'.tables) = Scopes(db.tables)
      <3>1. raising' = None
        BY <1>2, <2>10
      <3>2. CASE blocks' = Opened("save")
        <4>1. blocks' # blocks
          <5>1. blocks \in Seq(Block) /\ Len(blocks) \in Nat
            BY LenProperties DEF Base, TypeOK
          <5>2. Len(blocks') = Len(blocks) + 1
            BY <3>2, <5>1 DEF Opened
          <5>3. QED BY <5>1, <5>2
        <4>2. phase' \in {"second", "leave"} /\ (phase' = "second" => Current.set)
              /\ UNCHANGED left
          BY <2>6, <3>1, <4>1
        <4>3. QED BY <1>1, <1>2, <1>4, <2>1, <2>10, <3>2, <4>2 DEF Succeeds
      <3>3. CASE blocks' = blocks /\ blocks = <<>> /\ ~Current.set
        <4>1. phase' = "item" /\ left' = left - 1
          BY <2>6, <3>1, <3>3
        <4>2. QED BY <1>1, <1>2, <1>4, <2>1, <2>10, <3>3, <4>1 DEF Succeeds
      <3>4. QED BY <2>7, <3>2, <3>3 DEF Enters
    <2>11. QED BY <2>8, <2>9, <2>10
  <1>5. ASSUME NEW what \in {"nested", "error"}, Raise(what),
               UNCHANGED <<db, blocks, broken, doomed, left, joining, wrote>>
        PROVE  joining' \subseteq Child /\ Fails
    BY <1>2, <1>5 DEF Fails, Raise
  <1>6. CASE /\ decision = "link"
             /\ joining' = IF Current.kind = "m2m" THEN joining \cup {Current.pk} ELSE joining
             /\ left' = left - 1
             /\ UNCHANGED <<db, blocks, broken, doomed, phase, raising, wrote>>
    <2>1. Current.kind # "parent" /\ (Current.kind = "m2m" => Current.pk # None)
      BY <1>3, <1>6 DEF Decide, DecideM2M
    <2>2. joining' \subseteq Child
      BY <1>2, <1>6, <2>1
    <2>3. QED BY <1>1, <1>2, <1>6, <2>1, <2>2 DEF Links
  <1>7. \/ /\ Save /\ UNCHANGED doomed /\ decision \in {"create", "update"}
           /\ joining' = IF Current.kind = "m2m" THEN joining \cup ({Current.pk} \ {None})
                         ELSE joining
        \/ /\ Raise("nested") \/ Raise("error")
           /\ UNCHANGED <<db, blocks, broken, doomed, left, joining, wrote>>
        \/ /\ decision = "link"
           /\ joining' = IF Current.kind = "m2m" THEN joining \cup {Current.pk} ELSE joining
           /\ left' = left - 1
           /\ UNCHANGED <<db, blocks, broken, doomed, phase, raising, wrote>>
    BY <1>3 DEF WriteItem, transaction, progress, Skip
  <1>8. QED BY <1>1, <1>2, <1>4, <1>5, <1>6, <1>7

LEMMA WriteSteps ==
    ASSUME Base, Writes
    PROVE  /\ phase \in {"item", "second"} /\ left > 0 /\ raising = None
           /\ UNCHANGED <<atomic, request, at, flag, failed, outcome, marked, before>>
           /\ joining' \subseteq Child
           /\ Succeeds \/ Fails \/ Links
  <1> USE DEF transaction, progress, Skip
  <1>0. raising # None <=> phase \in Failing
    BY DEF Base, Position
  <1>1. CASE WriteItem
    BY <1>1, WriteItemSteps
  <1>2. CASE AddLinks
    <2>1. phase = "item" /\ left > 0 /\ Current.kind = "add" /\ raising = None
          /\ phase \in Writing /\ joining \subseteq Child /\ db.tables \in Tables /\ at \in Parent
      BY <1>0, <1>2, CurrentFacts
         DEF AddLinks, Base, TypeOK, Database, Writing, Stepping, Failing
    <2>2. PICK t, more : t = db.tables /\ more = {<<at, c>> : c \in joining}
      OBVIOUS
    <2>7. PICK tables : tables = WithLinks(t, more)
      OBVIOUS
    <2>3. tables \in Tables /\ Scopes(tables) = Scopes(db.tables)
      <3>1. more \in SUBSET (Parent \X Child)
        BY <2>1, <2>2
      <3>2. tables \in Tables /\ Scopes(tables) = Scopes(t)
        BY <2>1, <2>2, <2>7, <3>1, LinksAdded
      <3>3. QED BY <2>2, <3>2
    <2>4. Statement(1, tables, {}) /\ {} \in SUBSET (Parent \X Kind \X Child)
      BY <1>2, <2>2, <2>7 DEF AddLinks, WithLinks
    <2>5. \/ /\ Usable /\ UNCHANGED <<broken, raising>>
             /\ wrote' = wrote \cup {<<at, Index, 1>>}
             /\ db'.saved = db.saved \cup {<<at, Index, 1>>}
             /\ db' \in Database /\ Scopes(db'.tables) = Scopes(db.tables)
          \/ Statements /\ phase' = "unwind" /\ UNCHANGED <<db, wrote>> /\ raising' # None
      BY <2>1, <2>3, <2>4, StatementFacts
    <2>6. QED BY <1>2, <2>1, <2>5 DEF AddLinks, Succeeds, Fails, Plainly
  <1>3. CASE Delete
    <2>1. phase = "item" /\ left > 0 /\ Current.kind = "delete" /\ raising = None
          /\ phase \in Writing /\ joining \subseteq Child /\ db.tables \in Tables
      BY <1>0, <1>3 DEF Delete, Base, TypeOK, Database, Writing, Stepping, Failing
    <2>2. CASE Raise("error") /\ UNCHANGED <<transaction, progress, wrote>>
      BY <1>3, <2>1, <2>2 DEF Delete, Raise, Fails
    <2>3. CASE /\ UNCHANGED <<blocks, doomed, joining>> /\ Statement(1, db.tables, {})
               /\ IF raising' = None THEN Skip /\ UNCHANGED phase ELSE UNCHANGED left
      <3>1. \/ /\ Usable /\ UNCHANGED <<broken, raising>>
               /\ wrote' = wrote \cup {<<at, Index, 1>>}
               /\ db'.saved = db.saved \cup {<<at, Index, 1>>}
               /\ db' \in Database /\ Scopes(db'.tables) = Scopes(db.tables)
            \/ Statements /\ phase' = "unwind" /\ UNCHANGED <<db, wrote>> /\ raising' # None
        BY <2>1, <2>3, StatementFacts
      <3>2. QED BY <1>3, <2>1, <2>3, <3>1 DEF Delete, Succeeds, Fails, Plainly
    <2>4. QED BY <1>3, <2>2, <2>3 DEF Delete
  <1>4. CASE SecondStatement
    <2>1. phase = "second" /\ left > 0 /\ raising = None
          /\ phase \in Writing /\ joining \subseteq Child /\ db.tables \in Tables
      BY <1>0, <1>4 DEF SecondStatement, Base, TypeOK, Database, Position,
                        Writing, Stepping, Failing
    <2>2. \/ /\ Usable /\ UNCHANGED <<broken, raising>>
             /\ wrote' = wrote \cup {<<at, Index, 2>>}
             /\ db'.saved = db.saved \cup {<<at, Index, 2>>}
             /\ db' \in Database /\ Scopes(db'.tables) = Scopes(db.tables)
          \/ Statements /\ phase' = "unwind" /\ UNCHANGED <<db, wrote>> /\ raising' # None
      <3>1. Statement(2, db.tables, {}) /\ {} \in SUBSET (Parent \X Kind \X Child)
        BY <1>4 DEF SecondStatement
      <3>2. QED BY <2>1, <3>1, StatementFacts
    <2>3. QED BY <1>4, <2>1, <2>2 DEF SecondStatement, Succeeds, Fails, Plainly
  <1>5. QED BY <1>1, <1>2, <1>3, <1>4 DEF Writes

LEMMA Innermost ==
    ASSUME Base
    PROVE  /\ blocks # <<>> /\ Last(blocks).tag = "save" <=> Open("save")
           /\ ~Open("save") => (blocks # <<>> /\ Last(blocks).tag = "nested" <=> Open("nested"))
  <1>1. PICK top : top = Last(blocks)
    OBVIOUS
  <1>2. blocks # <<>> => /\ top.tag \in Tag /\ Open(top.tag)
                         /\ \A t \in Tag : Open(t) => Depth(t) <= Depth(top.tag)
    BY <1>1, TopFacts DEF Base, TypeOK, Shape
  <1>3. /\ Open("save") => blocks # <<>>
        /\ Open("nested") => blocks # <<>>
    BY NoBlocks DEF Base, TypeOK, Tag
  <1>4. /\ blocks # <<>> /\ Open("save") => top.tag = "save"
        /\ blocks # <<>> /\ Open("nested") /\ ~Open("save") => top.tag = "nested"
    BY <1>2, TopTag DEF Base
  <1>5. /\ blocks # <<>> /\ top.tag = "save" => Open("save")
        /\ blocks # <<>> /\ top.tag = "nested" => Open("nested")
    BY <1>2
  <1>6. QED BY <1>1, <1>3, <1>4, <1>5

(* A root field is answered at once, or begins to write.                    *)
AnswersAtOnce ==
    /\ UNCHANGED <<blocks, left>>
    /\ \E how \in {"error", "unusable", "refused", "ok", "flagged"} :
          /\ Ends(how) /\ flag' = (flag \/ how = "flagged")
          /\ how = "unusable" => ~Usable
          /\ how = "ok" => Roots[at[2]].op = "custom"
StartsWriting ==
    /\ Roots[at[2]].op # "custom" /\ Usable
    /\ \A i \in DOMAIN Items : LinkIsVisible(db.tables, at, Items[i])
    /\ blocks' = (IF Nests THEN Opened("nested") ELSE blocks)
    /\ left' = Len(Items) /\ phase' = "item" /\ UNCHANGED <<at, outcome, failed, flag>>

LEMMA BeginRootSteps ==
    ASSUME Base, BeginRoot
    PROVE  /\ phase = "root" /\ at[1] \in DOMAIN request.entries /\ at[2] \in DOMAIN Roots
           /\ at \in Parent /\ before' = db.tables /\ raising = None
           /\ UNCHANGED <<atomic, request, joining, raising, db, broken, doomed, marked, wrote>>
           /\ AnswersAtOnce \/ StartsWriting
  <1>1. /\ phase = "root" /\ at[2] <= Len(Roots) /\ before' = db.tables
        /\ UNCHANGED <<atomic, request, joining, raising, db, broken, doomed, marked, wrote>>
    BY DEF BeginRoot
  <1>2. /\ at[1] \in DOMAIN request.entries /\ at[2] \in DOMAIN Roots /\ raising = None
    BY <1>1, RootsFacts DEF Base, Position, Operating, Writing, Stepping, Failing
  <1>3. at \in Parent
    BY <1>2, ItemsFacts DEF Base
  <1>4. flag \in BOOLEAN
    BY DEF Base, TypeOK
  <1>5. AnswersAtOnce \/ StartsWriting
    <2>1. ASSUME NEW how \in {"error", "refused"}, Ends(how), UNCHANGED <<blocks, left, flag>>
          PROVE  AnswersAtOnce
      BY <1>4, <2>1 DEF AnswersAtOnce
    <2>2. ASSUME ~Usable, Ends("unusable"), UNCHANGED <<blocks, left, flag>>
          PROVE  AnswersAtOnce
      BY <1>4, <2>2 DEF AnswersAtOnce
    <2>3. ASSUME Roots[at[2]].op = "custom", NEW how \in {"ok", "flagged"}, Ends(how),
                 flag' = (flag \/ how = "flagged"), UNCHANGED <<blocks, left>>
          PROVE  AnswersAtOnce
      BY <2>3 DEF AnswersAtOnce
    <2>4. ASSUME Roots[at[2]].op # "custom", Usable, blocks' = NestedBoundary,
                 \A i \in DOMAIN Items : LinkIsVisible(db.tables, at, Items[i]),
                 left' = Len(Items), phase' = "item", UNCHANGED <<at, outcome, failed, flag>>
          PROVE  StartsWriting
      BY <2>4 DEF StartsWriting, NestedBoundary, Nests
    <2>5. \/ Ends("error") /\ UNCHANGED <<blocks, left, flag>>
          \/ ~Usable /\ Ends("unusable") /\ UNCHANGED <<blocks, left, flag>>
          \/ Ends("refused") /\ UNCHANGED <<blocks, left, flag>>
          \/ /\ Roots[at[2]].op = "custom" /\ UNCHANGED <<blocks, left>>
             /\ \E how \in {"ok", "flagged"} : Ends(how) /\ flag' = (flag \/ how = "flagged")
          \/ /\ Roots[at[2]].op # "custom" /\ Usable /\ blocks' = NestedBoundary
             /\ \A i \in DOMAIN Items : LinkIsVisible(db.tables, at, Items[i])
             /\ left' = Len(Items) /\ phase' = "item" /\ UNCHANGED <<at, outcome, failed, flag>>
      BY DEF BeginRoot
    <2>6. QED BY <2>1, <2>2, <2>3, <2>4, <2>5
  <1>6. QED BY <1>1, <1>2, <1>3, <1>5

LEMMA BeginRootBase == ASSUME Base, BeginRoot PROVE Base'
  <1>1. /\ phase = "root" /\ at[1] \in DOMAIN request.entries /\ at[2] \in DOMAIN Roots
        /\ at \in Parent /\ before' = db.tables /\ raising = None
        /\ UNCHANGED <<atomic, request, joining, raising, db, broken, doomed, marked, wrote>>
        /\ AnswersAtOnce \/ StartsWriting
    BY BeginRootSteps
  <1>2. /\ \A t \in {"nested", "save"} : t \in Tag /\ ~Open(t)
        /\ "request" \in Tag /\ "entry" \in Tag /\ "mutation" \in Tag
        /\ at[1] \in Nat \ {0} /\ at[2] \in Nat \ {0} /\ before' \in Tables
    BY <1>1 DEF Base, TypeOK, Database, Shape, Position, Tag, Operating, Writing, Stepping, Failing
  <1>3. CASE AnswersAtOnce
    <2>1. PICK how \in {"error", "unusable", "refused", "ok", "flagged"} :
              Ends(how) /\ flag' = (flag \/ how = "flagged") /\ UNCHANGED <<blocks, left>>
      BY <1>3 DEF AnswersAtOnce
    <2>2. how \in Outcome
      BY DEF Outcome
    <2>3. /\ outcome' \in [Parent -> Outcome] /\ at' \in Nat \X Nat
          /\ at'[1] = at[1] /\ at'[2] = at[2] + 1 /\ phase' = "root"
          /\ failed' = (failed \/ how \in {"error", "late", "unusable"})
      BY <1>1, <2>1, <2>2, EndsFacts DEF Base
    <2>4. failed' \in BOOLEAN /\ flag' \in BOOLEAN
      BY <2>1, <2>3 DEF Base, TypeOK
    <2>5. TypeOK'
      BY <1>1, <1>2, <2>1, <2>3, <2>4 DEF Base, TypeOK
    <2>6. /\ Ordered(blocks') /\ \A t \in Tag : Open(t)' <=> Open(t)
      BY <2>1, SameBlocks DEF Base, Shape
    <2>7. Shape'
      BY <1>1, <1>2, <2>3, <2>6 DEF Base, Shape, Operating, Writing, Stepping, Failing
    <2>8. Position'
      BY <1>1, <1>2, <2>3, <2>6 DEF Position, Operating, Writing, Stepping, Failing
    <2>9. QED BY <2>5, <2>7, <2>8 DEF Base
  <1>4. CASE StartsWriting
    <2>1. /\ Roots[at[2]].op # "custom" /\ left' = Len(Items) /\ phase' = "item"
          /\ blocks' = (IF Nests THEN Opened("nested") ELSE blocks)
          /\ UNCHANGED <<at, outcome, failed, flag>>
      BY <1>4 DEF StartsWriting
    <2>2. Roots' = Roots /\ Items' = Items /\ Nests' = Nests /\ Len(Items) \in Nat
      BY <1>1, <2>1, SameRoot, ItemsFacts DEF Base
    <2>3. \A t \in Tag : Open(t) => Depth(t) < Depth("nested")
      BY <1>2, Depths DEF Tag
    <2>4. /\ blocks' \in Seq(Block) /\ Ordered(blocks')
          /\ \A t \in Tag : Open(t)' <=> Open(t) \/ (t = "nested" /\ Nests)
      <3>1. CASE Nests
        BY <1>2, <2>1, <2>3, <3>1, Entering DEF Base, TypeOK, Shape
      <3>2. CASE ~Nests
        BY <2>1, <3>2, SameBlocks DEF Base, TypeOK, Shape
      <3>3. QED BY <3>1, <3>2
    <2>5. TypeOK'
      BY <1>1, <1>2, <2>1, <2>2, <2>4 DEF Base, TypeOK
    <2>6. Shape'
      BY <1>1, <1>2, <2>1, <2>2, <2>4
         DEF Base, Shape, Operating, Writing, Stepping, Failing
    <2>7. Position'
      BY <1>1, <1>2, <2>1, <2>2, <2>4 DEF Position, Operating, Writing, Stepping, Failing
    <2>8. QED BY <2>5, <2>6, <2>7 DEF Base
  <1>5. QED BY <1>1, <1>3, <1>4

LEMMA WritesBase == ASSUME Base, Writes PROVE Base'
  <1>1. /\ phase \in {"item", "second"} /\ left > 0 /\ raising = None
        /\ UNCHANGED <<atomic, request, at, flag, failed, outcome, marked, before>>
        /\ joining' \subseteq Child
        /\ Succeeds \/ Fails \/ Links
    BY WriteSteps
  <1>2. /\ at \in Parent /\ at[1] \in DOMAIN request.entries /\ at[2] \in DOMAIN Roots
        /\ Roots[at[2]].op # "custom" /\ left \in 0..Len(Items) /\ Len(Items) \in Nat
        /\ at[1] \in Nat \ {0} /\ at[2] \in Nat \ {0} /\ Index \in Nat
    BY <1>1, CurrentFacts DEF Base, Position, Writing, Stepping, Failing
  <1>3. Roots' = Roots /\ Items' = Items /\ Nests' = Nests
    BY <1>1, SameRoot
  <1>4. \A t \in Tag : Open(t) /\ phase = "item" => Depth(t) < Depth("save")
    <2>1. phase = "item" => ~Open("save")
      BY DEF Base, Shape
    <2>2. QED BY <2>1, Depths DEF Tag
  <1>5. "save" \in Tag /\ "nested" \in Tag /\ "mutation" \in Tag /\ "entry" \in Tag
        /\ "request" \in Tag /\ (phase = "item" => ~Open("save"))
        /\ (phase = "second" => Open("save"))
    BY DEF Base, Shape, Tag
  <1>6. ASSUME UNCHANGED blocks
        PROVE  blocks' \in Seq(Block) /\ Ordered(blocks') /\ \A t \in Tag : Open(t)' <=> Open(t)
    BY <1>6, SameBlocks DEF Base, TypeOK, Shape
  <1>7. ASSUME blocks' = Opened("save"), phase = "item"
        PROVE  /\ blocks' \in Seq(Block) /\ Ordered(blocks')
               /\ \A t \in Tag : Open(t)' <=> Open(t) \/ t = "save"
    BY <1>4, <1>5, <1>7, Entering DEF Base, TypeOK, Shape
  <1>8. CASE Succeeds
    <2>1. PICK n \in {1, 2} : wrote' = wrote \cup {<<at, Index, n>>}
      BY <1>8 DEF Succeeds
    <2>2. wrote' \subseteq Parent \X Nat \X {1, 2}
      BY <1>2, <2>1 DEF Base, TypeOK
    <2>3. /\ UNCHANGED <<broken, doomed, raising>> /\ db' \in Database
          /\ phase = "item" => Current.kind # "plain"
          /\ \/ /\ phase = "item" /\ ~Plainly /\ blocks' = Opened("save") /\ left' = left
                /\ phase' \in {"second", "leave"} /\ (phase' = "second" => Current.set)
             \/ /\ phase = "item" /\ UNCHANGED blocks
                /\ phase' = "item" /\ left' = left - 1
             \/ /\ phase = "second" /\ phase' = "leave" /\ UNCHANGED <<blocks, left>>
      BY <1>8 DEF Succeeds
    <2>4. blocks' \in Seq(Block) /\ Ordered(blocks') /\ left' \in 0..Len(Items)
      BY <1>1, <1>2, <1>6, <1>7, <2>3
    <2>5. TypeOK'
      BY <1>1, <2>2, <2>3, <2>4 DEF Base, TypeOK
    <2>6. Shape'
      BY <1>1, <1>3, <1>5, <1>6, <1>7, <2>3, <2>4
         DEF Base, Shape, Operating, Writing, Stepping, Failing
    <2>7. left' = left => Current' = Current
      BY <1>1, SameItem
    <2>8. /\ phase' = "second" => Current'.set /\ left' > 0
          /\ phase' = "leave" => left' > 0
          /\ Open("save")' => Current'.kind \notin {"add", "delete", "plain"}
      BY <1>1, <1>5, <1>6, <1>7, <2>3, <2>7 DEF Base, Position, Plainly
    <2>9. Position'
      BY <1>1, <1>2, <1>3, <2>3, <2>4, <2>8 DEF Position, Operating, Writing, Stepping, Failing
    <2>10. QED BY <2>5, <2>6, <2>9 DEF Base
  <1>9. CASE Fails
    <2>1. /\ phase' = "unwind" /\ UNCHANGED <<db, wrote, doomed, left>>
          /\ raising' \in {"nested", "integrity", "error", "unusable"} /\ raising' # None
          /\ broken' \in BOOLEAN
          /\ \/ UNCHANGED blocks
             \/ phase = "item" /\ ~Plainly /\ Current.kind # "plain" /\ blocks' = Opened("save")
      BY <1>1, <1>9, MutationWritesAssumption
         DEF Fails, Statements, Enters, Plainly, Base, TypeOK
    <2>2. blocks' \in Seq(Block) /\ Ordered(blocks') /\ Current' = Current
      BY <1>1, <1>6, <1>7, <2>1, SameItem
    <2>3. TypeOK'
      BY <1>1, <2>1, <2>2 DEF Base, TypeOK
    <2>4. Shape'
      BY <1>1, <1>3, <1>5, <1>6, <1>7, <2>1, <2>2
         DEF Base, Shape, Operating, Writing, Stepping, Failing
    <2>5. Open("save")' => Current'.kind \notin {"add", "delete", "plain"}
      BY <1>5, <1>6, <1>7, <2>1, <2>2 DEF Base, Position, Plainly
    <2>6. Position'
      BY <1>1, <1>2, <1>3, <2>1, <2>5 DEF Position, Operating, Writing, Stepping, Failing
    <2>7. QED BY <2>3, <2>4, <2>6 DEF Base
  <1>10. CASE Links
    <2>1. /\ phase = "item" /\ phase' = "item" /\ left' = left - 1
          /\ UNCHANGED <<db, blocks, broken, doomed, raising, wrote>>
      BY <1>10 DEF Links
    <2>2. left' \in 0..Len(Items) /\ ~Open("save")'
      BY <1>1, <1>2, <1>5, <1>6, <2>1
    <2>3. TypeOK'
      BY <1>1, <2>1, <2>2 DEF Base, TypeOK
    <2>4. Shape'
      BY <1>1, <1>3, <1>5, <1>6, <2>1 DEF Base, Shape, Operating, Writing, Stepping, Failing
    <2>5. Position'
      BY <1>1, <1>2, <1>3, <2>1, <2>2 DEF Position, Operating, Writing, Stepping, Failing
    <2>6. QED BY <2>3, <2>4, <2>5 DEF Base
  <1>11. QED BY <1>1, <1>8, <1>9, <1>10

(* The steps that leave a save or a root field.                             *)
LEMMA WorkFacts ==
    ASSUME Base, phase \in Writing
    PROVE  /\ at \in Parent /\ at[1] \in DOMAIN request.entries /\ at[2] \in DOMAIN Roots
           /\ Roots[at[2]].op # "custom" /\ left \in 0..Len(Items) /\ Len(Items) \in Nat
           /\ at[1] \in Nat \ {0} /\ at[2] \in Nat \ {0}
           /\ raising # None <=> phase \in Failing
           /\ phase = "leave" \/ phase \in Failing => left > 0
           /\ "save" \in Tag /\ "nested" \in Tag /\ "mutation" \in Tag /\ "entry" \in Tag
           /\ "request" \in Tag
  BY CurrentFacts DEF Base, Position, Writing, Tag

LEMMA LeaveSaveBase == ASSUME Base, LeaveSave PROVE Base'
  <1>1. /\ phase = "leave"
        /\ UNCHANGED <<atomic, request, at, joining, flag, failed, outcome, marked, wrote, before>>
        /\ \/ Leave(TRUE) /\ left' = left - 1 /\ phase' = "item" /\ UNCHANGED raising
           \/ Raise("integrity") /\ UNCHANGED <<db, blocks, broken, doomed, left>>
    BY DEF LeaveSave, transaction, Skip
  <1>2. /\ at \in Parent /\ at[1] \in DOMAIN request.entries /\ at[2] \in DOMAIN Roots
        /\ Roots[at[2]].op # "custom" /\ left \in 0..Len(Items) /\ Len(Items) \in Nat
        /\ at[1] \in Nat \ {0} /\ at[2] \in Nat \ {0} /\ left > 0 /\ raising = None
        /\ "save" \in Tag /\ "nested" \in Tag /\ "mutation" \in Tag /\ "entry" \in Tag
        /\ "request" \in Tag
    BY <1>1, WorkFacts DEF Writing, Stepping, Failing
  <1>3. Roots' = Roots /\ Items' = Items /\ Nests' = Nests /\ Open("save")
    BY <1>1, SameRoot DEF Base, Shape
  <1>4. CASE Leave(TRUE) /\ left' = left - 1 /\ phase' = "item" /\ UNCHANGED raising
    <2>1. PICK top : top = Last(blocks)
      OBVIOUS
    <2>2. blocks # <<>> /\ top.tag = "save"
      BY <1>3, <2>1, Innermost
    <2>3. /\ blocks' \in Seq(Block) /\ Ordered(blocks')
          /\ \A t \in Tag : Open(t)' <=> Open(t) /\ t # "save"
          /\ db' \in Database /\ broken' = (TRUE /\ broken) /\ ~doomed'
      BY <1>4, <2>1, <2>2, Leaving DEF Base, TypeOK, Shape
    <2>4. broken' \in BOOLEAN /\ doomed' \in BOOLEAN
      BY <1>4, <2>3 DEF Base, TypeOK, Leave
    <2>5. TypeOK'
      BY <1>1, <1>2, <1>4, <2>3, <2>4 DEF Base, TypeOK
    <2>6. Shape'
      BY <1>1, <1>2, <1>3, <1>4, <2>3 DEF Base, Shape, Operating, Writing, Stepping, Failing
    <2>7. Position'
      BY <1>1, <1>2, <1>3, <1>4, <2>3 DEF Position, Operating, Writing, Stepping, Failing
    <2>8. QED BY <2>5, <2>6, <2>7 DEF Base
  <1>5. CASE Raise("integrity") /\ UNCHANGED <<db, blocks, broken, doomed, left>>
    <2>1. raising' = "integrity" /\ raising' # None /\ phase' = "unwind"
      BY <1>5, MutationWritesAssumption DEF Raise
    <2>2. /\ blocks' \in Seq(Block) /\ Ordered(blocks') /\ Current' = Current
          /\ \A t \in Tag : Open(t)' <=> Open(t)
      BY <1>1, <1>5, SameBlocks, SameItem DEF Base, TypeOK, Shape
    <2>3. TypeOK'
      BY <1>1, <1>5, <2>1, <2>2 DEF Base, TypeOK
    <2>4. Shape'
      BY <1>1, <1>2, <1>3, <2>1, <2>2 DEF Base, Shape, Operating, Writing, Stepping, Failing
    <2>5. Open("save")' => Current'.kind \notin {"add", "delete", "plain"}
      BY <1>2, <2>2 DEF Base, Position
    <2>6. Position'
      BY <1>1, <1>2, <1>3, <1>5, <2>1, <2>5 DEF Position, Operating, Writing, Stepping, Failing
    <2>7. QED BY <2>3, <2>4, <2>6 DEF Base
  <1>6. QED BY <1>1, <1>4, <1>5

LeavesSave ==
    /\ Open("save") /\ Leave(FALSE) /\ Last(blocks).tag = "save" /\ blocks # <<>>
    /\ phase' = (IF raising = "integrity" THEN "diagnose" ELSE "unwind")
    /\ UNCHANGED <<at, raising, outcome, failed, left, joining>>
StartsDiagnosis ==
    /\ ~Open("save") /\ raising = "integrity" /\ Current.kind \notin {"add", "delete"}
    /\ phase' = "diagnose"
    /\ UNCHANGED <<db, blocks, broken, doomed, at, raising, outcome, failed, left, joining>>
GivesUp ==
    /\ ~Open("save") /\ ~(raising = "integrity" /\ Current.kind \notin {"add", "delete"})
    /\ \/ /\ Open("nested") /\ Leave(FALSE) /\ Last(blocks).tag = "nested" /\ blocks # <<>>
       \/ ~Open("nested") /\ UNCHANGED <<db, blocks, broken, doomed>>
    /\ \E how \in {"refused", "unusable", "error"} :
          /\ Ends(how) /\ (how = "unusable" <=> raising = "unusable")
          /\ how = "refused" <=> raising = "nested"
    /\ raising' = None /\ left' = 0 /\ joining' = {}

LEMMA UnwindSteps ==
    ASSUME Base, Unwind
    PROVE  /\ phase = "unwind"
           /\ UNCHANGED <<atomic, request, flag, marked, wrote, before>>
           /\ LeavesSave \/ StartsDiagnosis \/ GivesUp
  <1>1. /\ phase = "unwind"
        /\ UNCHANGED <<atomic, request, flag, marked, wrote, before>>
    BY DEF Unwind
  <1>2. CASE Open("save")
    <2>1. blocks # <<>> /\ Last(blocks).tag = "save"
      BY <1>2, Innermost
    <2>2. /\ Leave(FALSE)
          /\ phase' = (IF raising = "integrity" THEN "diagnose" ELSE "unwind")
          /\ UNCHANGED <<at, raising, outcome, failed, left, joining>>
      BY <1>1, <2>1 DEF Unwind, progress
    <2>3. QED BY <1>1, <1>2, <2>1, <2>2 DEF LeavesSave
  <1>3. CASE ~Open("save") /\ raising = "integrity" /\ Current.kind \notin {"add", "delete"}
    <2>1. ~(blocks # <<>> /\ Last(blocks).tag = "save")
      BY <1>3, Innermost
    <2>2. /\ phase' = "diagnose"
          /\ UNCHANGED <<db, blocks, broken, doomed, at, raising, outcome, failed, left, joining>>
      BY <1>3, <2>1 DEF Unwind, transaction, progress
    <2>3. QED BY <1>1, <1>3, <2>2 DEF StartsDiagnosis
  <1>4. CASE ~Open("save") /\ ~(raising = "integrity" /\ Current.kind \notin {"add", "delete"})
    <2>1. ~(blocks # <<>> /\ Last(blocks).tag = "save")
      BY <1>4, Innermost
    <2>2. PICK how : how = IF raising = "nested" THEN "refused"
                           ELSE IF raising = "unusable" THEN "unusable" ELSE "error"
      OBVIOUS
    <2>3. /\ IF blocks # <<>> /\ Last(blocks).tag = "nested"
             THEN Leave(FALSE) ELSE UNCHANGED <<db, blocks, broken, doomed>>
          /\ Ends(how) /\ raising' = None /\ left' = 0 /\ joining' = {}
      BY <1>4, <2>1, <2>2 DEF Unwind, transaction, progress
    <2>4. blocks # <<>> /\ Last(blocks).tag = "nested" <=> Open("nested")
      BY <1>4, Innermost
    <2>5. /\ how \in {"refused", "unusable", "error"}
          /\ how = "unusable" <=> raising = "unusable"
          /\ how = "refused" <=> raising = "nested"
      BY <2>2
    <2>6. QED BY <1>1, <1>4, <2>3, <2>4, <2>5 DEF GivesUp
  <1>5. QED BY <1>1, <1>2, <1>3, <1>4

LEMMA UnwindBase == ASSUME Base, Unwind PROVE Base'
  <1>1. /\ phase = "unwind"
        /\ UNCHANGED <<atomic, request, flag, marked, wrote, before>>
        /\ LeavesSave \/ StartsDiagnosis \/ GivesUp
    BY UnwindSteps
  <1>2. /\ at \in Parent /\ at[1] \in DOMAIN request.entries /\ at[2] \in DOMAIN Roots
        /\ Roots[at[2]].op # "custom" /\ left \in 0..Len(Items) /\ Len(Items) \in Nat
        /\ at[1] \in Nat \ {0} /\ at[2] \in Nat \ {0} /\ left > 0 /\ raising # None
        /\ "save" \in Tag /\ "nested" \in Tag /\ "mutation" \in Tag /\ "entry" \in Tag
        /\ "request" \in Tag
    BY <1>1, WorkFacts DEF Writing, Stepping, Failing
  <1>3. CASE LeavesSave
    <2>1. PICK top : top = Last(blocks)
      OBVIOUS
    <2>2. /\ Leave(FALSE) /\ blocks # <<>> /\ top.tag = "save"
          /\ phase' \in {"diagnose", "unwind"}
          /\ UNCHANGED <<at, raising, outcome, failed, left, joining>>
      BY <1>3, <2>1 DEF LeavesSave
    <2>3. /\ blocks' \in Seq(Block) /\ Ordered(blocks')
          /\ \A t \in Tag : Open(t)' <=> Open(t) /\ t # "save"
          /\ db' \in Database /\ broken' = (FALSE /\ broken) /\ ~doomed'
      BY <2>1, <2>2, Leaving DEF Base, TypeOK, Shape
    <2>4. broken' \in BOOLEAN /\ doomed' \in BOOLEAN
      BY <2>2, <2>3 DEF Leave
    <2>5. Roots' = Roots /\ Items' = Items /\ Nests' = Nests
      BY <1>1, <2>2, SameRoot
    <2>6. TypeOK'
      BY <1>1, <2>2, <2>3, <2>4 DEF Base, TypeOK
    <2>7. Shape'
      BY <1>1, <1>2, <2>2, <2>3, <2>5 DEF Base, Shape, Operating, Writing, Stepping, Failing
    <2>8. Position'
      BY <1>1, <1>2, <2>2, <2>3, <2>5 DEF Position, Operating, Writing, Stepping, Failing
    <2>9. QED BY <2>6, <2>7, <2>8 DEF Base
  <1>4. CASE StartsDiagnosis
    <2>1. /\ ~Open("save") /\ phase' = "diagnose"
          /\ UNCHANGED <<db, blocks, broken, doomed, at, raising, outcome, failed, left, joining>>
      BY <1>4 DEF StartsDiagnosis
    <2>2. /\ blocks' \in Seq(Block) /\ Ordered(blocks')
          /\ \A t \in Tag : Open(t)' <=> Open(t)
      BY <2>1, SameBlocks DEF Base, TypeOK, Shape
    <2>3. Roots' = Roots /\ Items' = Items /\ Nests' = Nests
      BY <1>1, <2>1, SameRoot
    <2>4. TypeOK'
      BY <1>1, <2>1, <2>2 DEF Base, TypeOK
    <2>5. Shape'
      BY <1>1, <1>2, <2>1, <2>2, <2>3 DEF Base, Shape, Operating, Writing, Stepping, Failing
    <2>6. Position'
      BY <1>1, <1>2, <2>1, <2>2, <2>3 DEF Position, Operating, Writing, Stepping, Failing
    <2>7. QED BY <2>4, <2>5, <2>6 DEF Base
  <1>5. CASE GivesUp
    <2>1. PICK how \in {"refused", "unusable", "error"} : Ends(how)
      BY <1>5 DEF GivesUp
    <2>2. /\ outcome' \in [Parent -> Outcome] /\ at' \in Nat \X Nat
          /\ at'[1] = at[1] /\ at'[2] = at[2] + 1 /\ phase' = "root"
          /\ failed' = (failed \/ how \in {"error", "late", "unusable"})
      <3>1. how \in Outcome
        BY DEF Outcome
      <3>2. QED BY <1>2, <2>1, <3>1, EndsFacts DEF Base
    <2>3. failed' \in BOOLEAN
      BY <2>2 DEF Base, TypeOK
    <2>4. raising' = None /\ left' = 0 /\ joining' = {} /\ ~Open("save")
      BY <1>5 DEF GivesUp
    <2>5. /\ blocks' \in Seq(Block) /\ Ordered(blocks') /\ db' \in Database
          /\ broken' \in BOOLEAN /\ doomed' \in BOOLEAN
          /\ \A t \in Tag : Open(t)' <=> Open(t) /\ t # "nested"
      <3>1. CASE Open("nested")
        <4>1. PICK top : top = Last(blocks)
          OBVIOUS
        <4>2. Leave(FALSE) /\ blocks # <<>> /\ top.tag = "nested"
          BY <1>5, <3>1, <4>1 DEF GivesUp
        <4>3. /\ blocks' \in Seq(Block) /\ Ordered(blocks')
              /\ \A t \in Tag : Open(t)' <=> Open(t) /\ t # "nested"
              /\ db' \in Database
          BY <4>1, <4>2, Leaving DEF Base, TypeOK, Shape
        <4>4. broken' \in BOOLEAN /\ doomed' \in BOOLEAN
          BY <4>2 DEF Leave
        <4>5. QED BY <4>3, <4>4
      <3>2. CASE ~Open("nested")
        <4>1. UNCHANGED <<db, blocks, broken, doomed>>
          BY <1>5, <3>2 DEF GivesUp
        <4>2. QED BY <3>2, <4>1, SameBlocks DEF Base, TypeOK, Shape
      <3>3. QED BY <3>1, <3>2
    <2>6. TypeOK'
      BY <1>1, <2>2, <2>3, <2>4, <2>5 DEF Base, TypeOK
    <2>7. Shape'
      BY <1>1, <1>2, <2>2, <2>4, <2>5 DEF Base, Shape, Operating, Writing, Stepping, Failing
    <2>8. Position'
      BY <1>1, <1>2, <2>2, <2>4, <2>5 DEF Position, Operating, Writing, Stepping, Failing
    <2>9. QED BY <2>6, <2>7, <2>8 DEF Base
  <1>6. QED BY <1>1, <1>3, <1>4, <1>5

LEMMA DiagnoseBase == ASSUME Base, Diagnose PROVE Base'
  <1>1. /\ phase = "diagnose" /\ phase' = "unwind"
        /\ raising' \in {"unusable", "nested", "error"} /\ raising' # None
        /\ UNCHANGED <<atomic, request, at, left, joining, db, blocks, broken, doomed, flag,
                       failed, outcome, marked, wrote, before>>
    <2>1. raising' \in {"unusable", "nested", "error"}
      BY DEF Diagnose
    <2>2. QED BY <2>1, MutationWritesAssumption DEF Diagnose, transaction, progress
  <1>2. /\ at \in Parent /\ at[1] \in DOMAIN request.entries /\ at[2] \in DOMAIN Roots
        /\ Roots[at[2]].op # "custom" /\ left \in 0..Len(Items)
        /\ at[1] \in Nat \ {0} /\ at[2] \in Nat \ {0} /\ left > 0
        /\ "save" \in Tag /\ "nested" \in Tag /\ "mutation" \in Tag /\ "entry" \in Tag
        /\ "request" \in Tag /\ ~Open("save")
    BY <1>1, WorkFacts DEF Base, Shape, Writing, Stepping, Failing
  <1>3. /\ blocks' \in Seq(Block) /\ Ordered(blocks') /\ \A t \in Tag : Open(t)' <=> Open(t)
        /\ Roots' = Roots /\ Items' = Items /\ Nests' = Nests
    BY <1>1, SameBlocks, SameRoot DEF Base, TypeOK, Shape
  <1>4. TypeOK'
    BY <1>1, <1>3 DEF Base, TypeOK
  <1>5. Shape'
    BY <1>1, <1>2, <1>3 DEF Base, Shape, Operating, Writing, Stepping, Failing
  <1>6. Position'
    BY <1>1, <1>2, <1>3 DEF Position, Operating, Writing, Stepping, Failing
  <1>7. QED BY <1>4, <1>5, <1>6 DEF Base

LEMMA EndWritesSteps ==
    ASSUME Base, EndWrites
    PROVE  /\ phase = "item" /\ left = 0 /\ phase' = "reread"
           /\ UNCHANGED <<atomic, request, at, left, joining, raising, flag, failed, outcome,
                          marked, wrote, before>>
           /\ \/ Open("nested") /\ Leave(TRUE) /\ Last(blocks).tag = "nested" /\ blocks # <<>>
              \/ ~Open("nested") /\ UNCHANGED <<db, blocks, broken, doomed>>
  <1>1. /\ phase = "item" /\ left = 0 /\ phase' = "reread"
        /\ IF blocks # <<>> /\ Last(blocks).tag = "nested"
           THEN Leave(TRUE) ELSE UNCHANGED <<db, blocks, broken, doomed>>
        /\ UNCHANGED <<atomic, request, at, left, joining, raising, flag, failed, outcome,
                       marked, wrote, before>>
    BY DEF EndWrites, transaction, progress
  <1>2. ~Open("save")
    BY <1>1 DEF Base, Shape
  <1>3. blocks # <<>> /\ Last(blocks).tag = "nested" <=> Open("nested")
    BY <1>2, Innermost
  <1>4. QED BY <1>1, <1>3

LEMMA EndWritesBase == ASSUME Base, EndWrites PROVE Base'
  <1>1. /\ phase = "item" /\ left = 0 /\ phase' = "reread"
        /\ UNCHANGED <<atomic, request, at, left, joining, raising, flag, failed, outcome,
                       marked, wrote, before>>
    BY EndWritesSteps
  <1>2. /\ at \in Parent /\ at[1] \in DOMAIN request.entries /\ at[2] \in DOMAIN Roots
        /\ Roots[at[2]].op # "custom" /\ Len(Items) \in Nat
        /\ at[1] \in Nat \ {0} /\ at[2] \in Nat \ {0} /\ raising = None
        /\ "save" \in Tag /\ "nested" \in Tag /\ "mutation" \in Tag /\ "entry" \in Tag
        /\ "request" \in Tag /\ ~Open("save")
    BY <1>1, WorkFacts DEF Base, Shape, Writing, Stepping, Failing
  <1>3. /\ blocks' \in Seq(Block) /\ Ordered(blocks') /\ db' \in Database
        /\ broken' \in BOOLEAN /\ doomed' \in BOOLEAN
        /\ \A t \in Tag : Open(t)' <=> Open(t) /\ t # "nested"
    <2>1. CASE Open("nested")
      <3>1. PICK top : top = Last(blocks)
        OBVIOUS
      <3>2. Leave(TRUE) /\ blocks # <<>> /\ top.tag = "nested"
        BY <2>1, <3>1, EndWritesSteps
      <3>3. /\ blocks' \in Seq(Block) /\ Ordered(blocks')
            /\ \A t \in Tag : Open(t)' <=> Open(t) /\ t # "nested"
            /\ db' \in Database
        BY <3>1, <3>2, Leaving DEF Base, TypeOK, Shape
      <3>4. broken' \in BOOLEAN /\ doomed' \in BOOLEAN
        BY <3>2 DEF Leave, Base, TypeOK
      <3>5. QED BY <3>3, <3>4
    <2>2. CASE ~Open("nested")
      <3>1. UNCHANGED <<db, blocks, broken, doomed>>
        BY <2>2, EndWritesSteps
      <3>2. QED BY <2>2, <3>1, SameBlocks DEF Base, TypeOK, Shape
    <2>3. QED BY <2>1, <2>2
  <1>4. Roots' = Roots /\ Items' = Items /\ Nests' = Nests
    BY <1>1, SameRoot
  <1>5. TypeOK'
    BY <1>1, <1>3 DEF Base, TypeOK
  <1>6. Shape'
    BY <1>1, <1>2, <1>3, <1>4 DEF Base, Shape, Operating, Writing, Stepping, Failing
  <1>7. Position'
    BY <1>1, <1>2, <1>3, <1>4 DEF Position, Operating, Writing, Stepping, Failing
  <1>8. QED BY <1>5, <1>6, <1>7 DEF Base

LEMMA RereadSteps ==
    ASSUME Base, Reread
    PROVE  /\ phase = "reread" /\ at \in Parent
           /\ UNCHANGED <<atomic, request, left, joining, raising, db, blocks, broken, doomed,
                          flag, marked, wrote, before>>
           /\ \E how \in {"ok", "late", "unusable"} : Ends(how) /\ (how = "unusable" => ~Usable)
  <1>1. /\ phase = "reread"
        /\ UNCHANGED <<atomic, request, left, joining, raising, db, blocks, broken, doomed,
                       flag, marked, wrote, before>>
        /\ Ends(IF Usable THEN "ok" ELSE "unusable") \/ Ends("late")
    BY DEF Reread, transaction, progress
  <1>2. at \in Parent
    BY <1>1, WorkFacts DEF Writing
  <1>3. QED BY <1>1, <1>2

LEMMA RereadBase == ASSUME Base, Reread PROVE Base'
  <1>1. /\ phase = "reread" /\ at \in Parent
        /\ UNCHANGED <<atomic, request, left, joining, raising, db, blocks, broken, doomed,
                       flag, marked, wrote, before>>
    BY RereadSteps
  <1>2. PICK how \in {"ok", "late", "unusable"} : Ends(how)
    BY RereadSteps
  <1>3. /\ outcome' \in [Parent -> Outcome] /\ at' \in Nat \X Nat
        /\ at'[1] = at[1] /\ at'[2] = at[2] + 1 /\ phase' = "root"
        /\ failed' = (failed \/ how \in {"error", "late", "unusable"})
    <2>1. how \in Outcome
      BY DEF Outcome
    <2>2. QED BY <1>1, <1>2, <2>1, EndsFacts DEF Base
  <1>4. failed' \in BOOLEAN
    BY <1>3 DEF Base, TypeOK
  <1>5. /\ at[1] \in DOMAIN request.entries
        /\ at[1] \in Nat \ {0} /\ at[2] \in Nat \ {0} /\ raising = None
        /\ "save" \in Tag /\ "nested" \in Tag /\ "mutation" \in Tag /\ "entry" \in Tag
        /\ "request" \in Tag /\ ~Open("save") /\ ~Open("nested")
    BY <1>1, WorkFacts DEF Base, Shape, Writing, Stepping, Failing
  <1>6. /\ blocks' \in Seq(Block) /\ Ordered(blocks') /\ \A t \in Tag : Open(t)' <=> Open(t)
    BY <1>1, SameBlocks DEF Base, TypeOK, Shape
  <1>7. TypeOK'
    BY <1>1, <1>3, <1>4, <1>6 DEF Base, TypeOK
  <1>8. Shape'
    BY <1>1, <1>3, <1>5, <1>6 DEF Base, Shape, Operating, Writing, Stepping, Failing
  <1>9. Position'
    BY <1>1, <1>3, <1>5, <1>6 DEF Position, Operating, Writing, Stepping, Failing
  <1>10. QED BY <1>7, <1>8, <1>9 DEF Base

LEMMA BaseStep == ASSUME Base, [Next]_vars PROVE Base'
  <1>1. CASE UNCHANGED vars
    <2>1. UNCHANGED <<blocks, request, at, left>>
      BY <1>1 DEF vars
    <2>2. /\ Items' = Items /\ Roots' = Roots /\ Nests' = Nests /\ Current' = Current
          /\ Ordered(blocks') /\ \A t \in Tag : Open(t)' <=> Open(t)
      BY <2>1, SameRoot, SameItem, SameBlocks DEF Base, Shape
    <2>3. TypeOK'
      BY <1>1 DEF vars, Base, TypeOK
    <2>4. Shape'
      BY <1>1, <2>2 DEF vars, Base, Shape, Tag
    <2>5. Position'
      BY <1>1, <2>2 DEF vars, Base, Position, Tag
    <2>6. QED BY <2>3, <2>4, <2>5 DEF Base
  <1>2. CASE Next
    BY <1>2, EnterEntryBase, BeginOperationBase, EndOperationBase, ExitEntryBase, FinishBase,
       BeginRootBase, WritesBase, LeaveSaveBase, UnwindBase, DiagnoseBase, EndWritesBase,
       RereadBase DEF Next, Writes
  <1>3. QED BY <1>1, <1>2

LEMMA BaseHolds == Spec => []Base
  BY InitBase, BaseStep, PTL DEF Spec

(* The variables keep their types, for every set of requests.               *)
THEOREM Typing == Spec => []TypeOK
  <1>1. Base => TypeOK
    BY DEF Base
  <1>2. QED BY <1>1, BaseHolds, PTL


-----------------------------------------------------------------------------
(* A connection is broken only on the way out of a block, or for the rest   *)
(* of the operation after a delete that failed; it is doomed only once the  *)
(* entries are over.                                                        *)
Earlier(p, q) == p[1] < q[1] \/ (p[1] = q[1] /\ p[2] < q[2])
Bad == {"error", "late", "flagged", "unusable"}
Answered(e, hows) == \E p \in Parent : p[1] = e /\ outcome[p] \in hows
DeleteFailed(e, n) == \E r \in 1..n : /\ <<e, r>> \in Parent
                                      /\ request.entries[e][r].op = "delete"
                                      /\ outcome[<<e, r>>] = "error"
Health ==
    /\ doomed => /\ ~request.batch /\ atomic.requests /\ phase \in {"entry", "finish"}
                 /\ at[1] = 2 /\ Answered(1, Bad)
    /\ broken => blocks # <<>>
    /\ broken => phase \notin Stepping \cup {"operation", "diagnose", "reread"}
    /\ broken /\ phase = "unwind" => \/ Open("save")
                                     \/ Current.kind = "add" /\ Open("nested")
                                     \/ Current.kind = "delete" /\ raising = "integrity"
    /\ broken /\ phase \in {"root", "exit"} => DeleteFailed(at[1], at[2] - 1)
    /\ broken /\ phase \in {"entry", "finish"} => doomed
    /\ raising # "unusable"

(* The flags are what the root fields of the entry answered, and the others *)
(* have not been reached.                                                   *)
Answers ==
    /\ \A p \in Parent : ~Earlier(p, at) =>
          \/ outcome[p] = "waiting"
          \/ phase = "exit" /\ p[1] = at[1] /\ outcome[p] = "skipped"
    /\ phase \in Operating \cup {"operation", "exit"} =>
          /\ failed <=> Answered(at[1], {"error", "late", "unusable"})
          /\ flag <=> Answered(at[1], {"flagged"})
    /\ phase = "entry" /\ ~request.batch /\ at[1] = 1 => ~flag

(* An answer is final.                                                      *)
Settled == \A p \in Parent : outcome[p] \notin {"waiting", "skipped"} => outcome'[p] = outcome[p]

LEMMA DeleteStillFailed ==
    ASSUME Settled, UNCHANGED request, NEW e, NEW n, DeleteFailed(e, n)
    PROVE  DeleteFailed(e, n)'
  <1>1. PICK r \in 1..n : /\ <<e, r>> \in Parent /\ request.entries[e][r].op = "delete"
                          /\ outcome[<<e, r>>] = "error"
    BY DEF DeleteFailed
  <1>2. outcome'[<<e, r>>] = "error" /\ request'.entries[e][r].op = "delete"
    BY <1>1 DEF Settled
  <1>3. QED BY <1>1, <1>2 DEF DeleteFailed

LEMMA SameAnswers ==
    ASSUME Answers, phase \in Operating \cup {"operation"},
           phase' \in Operating \cup {"operation", "exit"},
           UNCHANGED <<request, at, flag, failed, outcome>>
    PROVE  Answers' /\ Settled
  <1>1. /\ failed <=> Answered(at[1], {"error", "late", "unusable"})
        /\ flag <=> Answered(at[1], {"flagged"})
    BY DEF Answers
  <1>2. phase # "exit" /\ phase' # "entry"
    BY DEF Operating, Writing, Stepping, Failing
  <1>3. \A p \in Parent : ~Earlier(p, at) => outcome[p] = "waiting"
    BY <1>2 DEF Answers
  <1>4. QED BY <1>1, <1>2, <1>3 DEF Answers, Answered, Earlier, Settled

LEMMA EndsAnswers ==
    ASSUME Base, Answers, phase \in Operating, at \in Parent,
           NEW how \in Outcome \ {"waiting", "skipped"}, Ends(how),
           flag' = (flag \/ how = "flagged"), UNCHANGED request
    PROVE  Answers' /\ Settled /\ outcome'[at] = how
  <1>1. /\ outcome'[at] = how
        /\ \A p \in Parent : p # at => outcome'[p] = outcome[p]
        /\ failed' = (failed \/ how \in {"error", "late", "unusable"})
        /\ at'[1] = at[1] /\ at'[2] = at[2] + 1 /\ phase' = "root"
    BY EndsFacts DEF Base
  <1>2. /\ failed <=> Answered(at[1], {"error", "late", "unusable"})
        /\ flag <=> Answered(at[1], {"flagged"})
    BY DEF Answers
  <1>3. phase # "exit" /\ at[1] \in Nat /\ at[2] \in Nat
        /\ \A p \in Parent : p = <<p[1], p[2]>> /\ p[1] \in Nat /\ p[2] \in Nat
        /\ at = <<at[1], at[2]>>
    BY RequestFacts DEF Base, Operating, Writing, Stepping, Failing
  <1>4. \A p \in Parent : ~Earlier(p, at) => outcome[p] = "waiting"
    BY <1>3 DEF Answers
  <1>5. outcome[at] = "waiting"
    BY <1>3, <1>4 DEF Earlier
  <1>6. Settled
    BY <1>1, <1>5 DEF Settled
  <1>7. \A p \in Parent : p[1] = at[1] /\ p[2] = at[2] => p = at
    BY <1>3
  <1>8. \A p \in Parent : ~Earlier(p, at') => p # at /\ ~Earlier(p, at)
    BY <1>1, <1>3 DEF Earlier
  <1>9. \A p \in Parent : ~Earlier(p, at') => outcome'[p] = "waiting"
    BY <1>1, <1>4, <1>8
  <1>10. ASSUME NEW S, "waiting" \notin S
         PROVE  Answered(at[1], S)' <=> Answered(at[1], S) \/ how \in S
    <2>1. (\E p \in Parent : p[1] = at[1] /\ outcome'[p] \in S)
             <=> (\E p \in Parent : p[1] = at[1] /\ outcome[p] \in S) \/ how \in S
      BY <1>1, <1>5, <1>10
    <2>2. QED BY <1>1, <2>1 DEF Answered
  <1>11. /\ Answered(at[1], {"flagged"})' <=> flag \/ how = "flagged"
         /\ Answered(at[1], {"error", "late", "unusable"})'
               <=> failed \/ how \in {"error", "late", "unusable"}
    BY <1>2, <1>10
  <1>12. QED BY <1>1, <1>6, <1>9, <1>11 DEF Answers

LEMMA EnterEntryHealth ==
    ASSUME Base, Health, Answers, EnterEntry PROVE Health' /\ Answers' /\ Settled
  <1>1. /\ phase = "entry" /\ phase' \in {"operation", "exit", "finish"}
        /\ phase' # "finish" <=> at[1] <= Len(request.entries)
        /\ phase' = "finish" => UNCHANGED <<flag, failed, outcome, blocks>>
        /\ phase' # "finish" => /\ flag' = (IF request.batch THEN FALSE ELSE flag)
                                /\ failed' = FALSE
        /\ outcome' = [p \in Parent |-> IF p[1] = at[1] /\ phase' = "exit"
                                        THEN "skipped" ELSE outcome[p]]
        /\ UNCHANGED <<atomic, request, at, raising, broken, doomed>>
    <2>1. phase = "entry" /\ UNCHANGED <<atomic, request, at, raising, broken, doomed>>
      BY DEF EnterEntry
    <2>2. CASE at[1] <= Len(request.entries)
      BY <2>1, <2>2 DEF EnterEntry
    <2>3. CASE ~(at[1] <= Len(request.entries))
      <3>1. phase' = "finish" /\ UNCHANGED <<blocks, flag, failed, outcome>>
        BY <2>3 DEF EnterEntry
      <3>2. outcome = [p \in Parent |-> outcome[p]]
        BY DEF Base, TypeOK
      <3>3. QED BY <2>1, <2>3, <3>1, <3>2
    <2>4. QED BY <2>2, <2>3
  <1>2. /\ ~request.batch => Len(request.entries) = 1
        /\ at[1] \in Nat \ {0} /\ at[2] = 1
        /\ \A p \in Parent : p[1] \in Nat /\ p[2] \in Nat \ {0}
    BY <1>1, RequestFacts DEF Base, Position, Operating, Writing, Stepping, Failing
  <1>3. \A p \in Parent : ~Earlier(p, at) => outcome[p] = "waiting"
    BY <1>1 DEF Answers
  <1>4. \A p \in Parent : p[1] = at[1] => outcome[p] = "waiting" /\ outcome'[p] \in {"waiting", "skipped"}
    BY <1>1, <1>2, <1>3 DEF Earlier
  <1>5. Settled
    BY <1>1, <1>4 DEF Settled
  <1>6. doomed => phase' = "finish"
    BY <1>1, <1>2 DEF Health
  <1>7. broken => doomed
    BY <1>1 DEF Health
  <1>8. ASSUME phase' # "finish" PROVE ~flag' /\ ~failed'
    <2>1. flag' = (IF request.batch THEN FALSE ELSE flag) /\ failed' = FALSE
      BY <1>1, <1>8
    <2>2. ASSUME ~request.batch PROVE at[1] = 1
      <3>1. at[1] <= Len(request.entries)
        BY <1>1, <1>8
      <3>2. Len(request.entries) = 1
        BY <1>2, <2>2
      <3>3. QED BY <1>2, <3>1, <3>2
    <2>3. ~request.batch => ~flag
      BY <1>1, <2>2 DEF Answers
    <2>4. QED BY <2>1, <2>3
  <1>9. \A p \in Parent : ~Earlier(p, at') =>
           \/ outcome'[p] = "waiting"
           \/ phase' = "exit" /\ p[1] = at'[1] /\ outcome'[p] = "skipped"
    BY <1>1, <1>3 DEF Earlier
  <1>10. /\ ~Answered(at[1], {"error", "late", "unusable"})'
         /\ ~Answered(at[1], {"flagged"})'
    BY <1>1, <1>4 DEF Answered
  <1>11. Answers'
    BY <1>1, <1>8, <1>9, <1>10 DEF Answers, Operating, Writing, Stepping, Failing
  <1>12. Health'
    <2>1. CASE broken \/ doomed
      <3>1. phase' = "finish" /\ UNCHANGED <<outcome, blocks>> /\ doomed
        BY <1>1, <1>6, <1>7, <2>1
      <3>2. QED BY <1>1, <3>1 DEF Health, Answered, Stepping
    <2>2. CASE ~broken /\ ~doomed
      BY <1>1, <2>2 DEF Health
    <2>3. QED BY <2>1, <2>2
  <1>13. QED BY <1>5, <1>11, <1>12

LEMMA BeginOperationHealth ==
    ASSUME Base, Health, Answers, BeginOperation PROVE Health' /\ Answers' /\ Settled
  <1>1. /\ phase = "operation" /\ phase' = "root"
        /\ UNCHANGED <<request, at, raising, broken, doomed, flag, failed, outcome>>
    BY DEF BeginOperation
  <1>2. ~broken /\ ~doomed
    BY <1>1 DEF Health
  <1>3. Health'
    BY <1>1, <1>2 DEF Health
  <1>4. QED BY <1>1, <1>3, SameAnswers DEF Operating, Writing, Stepping, Failing

LEMMA EndOperationHealth ==
    ASSUME Base, Health, Answers, EndOperation PROVE Health' /\ Answers' /\ Settled
  <1>1. /\ phase = "root" /\ phase' = "exit"
        /\ UNCHANGED <<request, at, raising, flag, failed, outcome>>
        /\ IF atomic.mutations THEN Leave(~RollsBack) ELSE UNCHANGED <<blocks, broken, doomed>>
    BY DEF EndOperation, transaction
  <1>2. /\ ~doomed /\ broken => DeleteFailed(at[1], at[2] - 1)
        /\ ~doomed /\ raising # "unusable"
    BY <1>1 DEF Health
  <1>3. broken => failed
    <2>1. broken => Answered(at[1], {"error", "late", "unusable"})
      BY <1>2 DEF DeleteFailed, Answered
    <2>2. QED BY <1>1, <2>1 DEF Answers, Operating
  <1>4. ~doomed'
    BY <1>1, <1>2 DEF Leave
  <1>5. broken' => broken /\ blocks' = blocks
    BY <1>1, <1>3 DEF Leave, RollsBack
  <1>6. broken' => blocks' # <<>> /\ DeleteFailed(at[1], at[2] - 1)'
    BY <1>1, <1>2, <1>5 DEF Health, DeleteFailed
  <1>7. Health'
    BY <1>1, <1>2, <1>4, <1>6 DEF Health, Stepping
  <1>8. QED BY <1>1, <1>7, SameAnswers DEF Operating, Writing, Stepping, Failing

LEMMA ExitEntryHealth ==
    ASSUME Base, Health, Answers, ExitEntry PROVE Health' /\ Answers' /\ Settled
  <1>1. /\ phase = "exit" /\ phase' = "entry" /\ at'[1] = at[1] + 1 /\ at'[2] = 1
        /\ UNCHANGED <<atomic, request, raising, flag, failed, outcome>>
        /\ \/ atomic.requests /\ request.batch /\ Leave(~(flag \/ failed))
           \/ /\ ~(atomic.requests /\ request.batch)
              /\ doomed' = (atomic.requests /\ (flag \/ failed)) /\ UNCHANGED <<db, blocks, broken>>
    BY ExitEntryFacts
  <1>2. /\ at[1] \in Nat \ {0} /\ at[2] \in Nat /\ at[1] \in DOMAIN request.entries
        /\ ~request.batch => Len(request.entries) = 1
        /\ DOMAIN request.entries = 1..Len(request.entries)
        /\ \A p \in Parent : p[1] \in Nat /\ p[2] \in Nat \ {0}
    BY <1>1, RequestFacts DEF Base, Position
  <1>3. Settled
    BY <1>1 DEF Settled
  <1>4. /\ failed <=> Answered(at[1], {"error", "late", "unusable"})
        /\ flag <=> Answered(at[1], {"flagged"})
    BY <1>1 DEF Answers
  <1>5. broken => failed
    <2>1. broken => DeleteFailed(at[1], at[2] - 1)
      BY <1>1 DEF Health
    <2>2. QED BY <1>4, <2>1 DEF DeleteFailed, Answered
  <1>6. broken' => /\ broken /\ blocks' = blocks /\ ~(atomic.requests /\ request.batch)
                   /\ doomed' = (atomic.requests /\ (flag \/ failed))
    BY <1>1, <1>5 DEF Leave
  <1>7. broken' => atomic.requests
    <2>1. \A t \in Tag : Open(t) => t \in {"request", "entry"}
      BY <1>1 DEF Base, Shape, Tag, Operating, Writing, Stepping, Failing
    <2>2. Open("request") \/ Open("entry") => atomic.requests
      BY DEF Base, Shape
    <2>3. broken => \E t \in Tag : Open(t)
      BY NoBlocks DEF Health, Base, TypeOK
    <2>4. QED BY <1>6, <2>1, <2>2, <2>3
  <1>8. broken' => doomed' /\ blocks' # <<>>
    BY <1>5, <1>6, <1>7 DEF Health
  <1>9. doomed' => ~request.batch /\ atomic.requests /\ (flag \/ failed)
    BY <1>1 DEF Leave
  <1>10. doomed' => at'[1] = 2 /\ Answered(1, Bad)'
    <2>1. ASSUME doomed' PROVE at[1] = 1
      <3>1. Len(request.entries) = 1
        BY <1>2, <1>9, <2>1
      <3>2. QED BY <1>2, <3>1
    <2>2. flag \/ failed => Answered(at[1], Bad)
      BY <1>4 DEF Answered, Bad
    <2>3. QED BY <1>1, <1>9, <2>1, <2>2 DEF Answered
  <1>11. Health'
    BY <1>1, <1>8, <1>9, <1>10 DEF Health, Stepping
  <1>12. \A p \in Parent : ~Earlier(p, at') => ~Earlier(p, at) /\ p[1] # at[1]
    BY <1>1, <1>2 DEF Earlier
  <1>13. \A p \in Parent : ~Earlier(p, at') => outcome'[p] = "waiting"
    BY <1>1, <1>12 DEF Answers
  <1>14. Answers'
    BY <1>1, <1>2, <1>13 DEF Answers, Operating, Writing, Stepping, Failing
  <1>15. QED BY <1>3, <1>11, <1>14

LEMMA FinishHealth ==
    ASSUME Base, Health, Answers, Finish PROVE Health' /\ Answers' /\ Settled
  <1>1. /\ phase = "finish" /\ phase' = "done"
        /\ IF blocks # <<>> THEN Leave(~doomed) ELSE UNCHANGED <<db, blocks, broken, doomed>>
        /\ UNCHANGED <<request, at, raising, flag, failed, outcome>>
    BY DEF Finish, transaction
  <1>2. broken => doomed /\ blocks # <<>>
    BY <1>1 DEF Health
  <1>3. ~broken'
    BY <1>1, <1>2 DEF Leave
  <1>4. ~doomed'
    <2>1. doomed => Open("request")
      BY <1>1 DEF Health, Base, Shape
    <2>2. doomed => blocks # <<>>
      BY <2>1, NoBlocks DEF Base, TypeOK, Tag
    <2>3. QED BY <1>1, <2>2 DEF Leave
  <1>5. Health'
    BY <1>1, <1>3, <1>4 DEF Health
  <1>6. Answers' /\ Settled
    BY <1>1 DEF Answers, Settled, Earlier, Operating, Writing, Stepping, Failing
  <1>7. QED BY <1>5, <1>6

LEMMA BeginRootHealth ==
    ASSUME Base, Health, Answers, BeginRoot PROVE Health' /\ Answers' /\ Settled
  <1>1. /\ phase = "root" /\ at \in Parent /\ raising = None
        /\ UNCHANGED <<request, raising, broken, doomed>>
        /\ AnswersAtOnce \/ StartsWriting
    BY BeginRootSteps
  <1>2. CASE AnswersAtOnce
    <2>1. PICK how \in {"error", "unusable", "refused", "ok", "flagged"} :
              Ends(how) /\ flag' = (flag \/ how = "flagged") /\ UNCHANGED blocks
      BY <1>2 DEF AnswersAtOnce
    <2>2. how \in Outcome \ {"waiting", "skipped"} /\ phase \in Operating
      BY <1>1 DEF Outcome, Operating
    <2>3. Answers' /\ Settled
      BY <1>1, <2>1, <2>2, EndsAnswers
    <2>4. /\ at'[1] = at[1] /\ at'[2] = at[2] + 1 /\ phase' = "root"
          /\ at[2] \in Nat
      BY <1>1, <2>1, <2>2, EndsFacts, RequestFacts DEF Base
    <2>5. broken => DeleteFailed(at[1], at[2] - 1)
      BY <1>1 DEF Health
    <2>6. broken => DeleteFailed(at[1], at[2] - 1)'
      <3>1. PICK e, n : e = at[1] /\ n = at[2] - 1
        OBVIOUS
      <3>2. DeleteFailed(e, n) => DeleteFailed(e, n + 1)
        BY <2>4, <3>1 DEF DeleteFailed
      <3>3. DeleteFailed(e, n + 1) => DeleteFailed(e, n + 1)'
        BY <1>1, <2>3, DeleteStillFailed
      <3>4. n + 1 = at'[2] - 1 /\ e = at'[1]
        BY <2>4, <3>1
      <3>5. QED BY <2>5, <3>1, <3>2, <3>3, <3>4 DEF DeleteFailed
    <2>7. ~doomed
      BY <1>1 DEF Health
    <2>8. Health'
      BY <1>1, <2>1, <2>4, <2>6, <2>7 DEF Health, Stepping
    <2>9. QED BY <2>3, <2>8
  <1>3. CASE StartsWriting
    <2>1. phase' = "item" /\ ~broken /\ ~doomed /\ UNCHANGED <<at, outcome, failed, flag>>
      BY <1>3 DEF StartsWriting, Usable
    <2>2. Health'
      BY <1>1, <2>1 DEF Health
    <2>3. QED BY <1>1, <2>1, <2>2, SameAnswers DEF Operating, Writing, Stepping
  <1>4. QED BY <1>1, <1>2, <1>3

(* What the plan of a root field says of the item that is written.          *)
LEMMA PlanFacts ==
    ASSUME Base, phase \in Writing, left > 0
    PROVE  /\ Current.kind = "add" => Nests
           /\ Current.kind = "delete" => Roots[at[2]].op = "delete" /\ ~Nests /\ Len(Items) = 1
  <1>1. /\ Planned(Roots[at[2]]) /\ Roots[at[2]].op \in {"create", "update", "delete"}
        /\ DOMAIN Items = 1..Len(Items) /\ Index \in 1..Len(Items) /\ Current = Items[Index]
    BY CurrentFacts DEF Base
  <1>2. CASE Roots[at[2]].op \in {"create", "update"}
    <2>1. InOrder(Items)
      BY <1>1, <1>2 DEF Planned, Items
    <2>2. Current.kind # "delete"
      BY <1>1, <2>1 DEF InOrder
    <2>3. Current.kind = "add" => \E k \in DOMAIN Items : Items[k].kind = "m2m"
      BY <1>1, <2>1 DEF InOrder
    <2>4. QED BY <2>2, <2>3 DEF Nests, HasNestedWork
  <1>3. CASE Roots[at[2]].op = "delete"
    <2>1. Len(Items) = 1 /\ Items[1].kind = "delete"
      BY <1>1, <1>3 DEF Planned, Items
    <2>2. \A k \in DOMAIN Items : Items[k].kind = "delete"
      BY <1>1, <2>1
    <2>3. QED BY <1>1, <1>3, <2>1, <2>2 DEF Nests, HasNestedWork
  <1>4. QED BY <1>1, <1>2, <1>3

LEMMA WritesHealth ==
    ASSUME Base, Health, Answers, Writes PROVE Health' /\ Answers' /\ Settled
  <1>1. /\ phase \in {"item", "second"} /\ left > 0 /\ raising = None
        /\ UNCHANGED <<atomic, request, at, flag, failed, outcome, marked, before>>
        /\ Succeeds \/ Fails \/ Links
    BY WriteSteps
  <1>2. ~broken /\ ~doomed /\ Usable
    BY <1>1 DEF Health, Stepping, Usable
  <1>3. phase' \in Stepping \cup {"unwind"}
    BY <1>1 DEF Succeeds, Fails, Links, Stepping
  <1>4. Answers' /\ Settled
    BY <1>1, <1>3, SameAnswers DEF Operating, Writing, Stepping, Failing
  <1>5. CASE Succeeds \/ Links
    <2>1. UNCHANGED <<broken, doomed, raising>>
      BY <1>5 DEF Succeeds, Links
    <2>2. Health'
      BY <1>2, <2>1 DEF Health
    <2>3. QED BY <1>4, <2>2
  <1>6. CASE Fails
    <2>1. phase' = "unwind" /\ UNCHANGED <<doomed, left>> /\ Current' = Current
      BY <1>1, <1>6, SameItem DEF Fails
    <2>2. \/ UNCHANGED broken /\ raising' \in {"nested", "error"}
          \/ /\ broken' = (blocks' # <<>>) /\ raising' = "integrity"
             /\ (Plainly /\ UNCHANGED blocks) \/ (~Plainly /\ Enters)
      BY <1>2, <1>6 DEF Fails, Statements
    <2>3. CASE UNCHANGED broken /\ raising' \in {"nested", "error"}
      <3>1. Health'
        BY <1>2, <2>1, <2>3 DEF Health
      <3>2. QED BY <1>4, <3>1
    <2>4. CASE /\ broken' = (blocks' # <<>>) /\ raising' = "integrity"
               /\ Plainly /\ UNCHANGED blocks
      <3>1. phase = "second" => Open("save")'
        <4>1. phase = "second" => Open("save")
          BY DEF Base, Shape
        <4>2. QED BY <2>4, <4>1, SameBlocks DEF Tag
      <3>2. phase # "second" /\ Current.kind = "add" => Open("nested")'
        <4>1. Current.kind = "add" => Nests
          BY <1>1, PlanFacts DEF Writing, Stepping
        <4>2. Current.kind = "add" => Open("nested")
          BY <1>1, <4>1 DEF Base, Shape, Stepping
        <4>3. QED BY <2>4, <4>2, SameBlocks DEF Tag
      <3>3. phase = "second" \/ Current.kind = "add" \/ Current.kind = "delete"
        BY <2>4 DEF Plainly
      <3>4. Health'
        BY <1>2, <2>1, <2>4, <3>1, <3>2, <3>3 DEF Health, Stepping
      <3>5. QED BY <1>4, <3>4
    <2>5. CASE /\ broken' = (blocks' # <<>>) /\ raising' = "integrity"
               /\ ~Plainly /\ Enters
      <3>1. blocks' # <<>> => Open("save")'
        <4>1. CASE blocks' = Opened("save")
          <5>1. "save" \in Tag /\ phase = "item"
            BY <1>1, <2>5 DEF Tag, Plainly
          <5>2. \A t \in Tag : Open(t) => Depth(t) < Depth("save")
            <6>1. ~Open("save")
              BY <5>1 DEF Base, Shape
            <6>2. QED BY <6>1, Depths DEF Tag
          <5>3. QED BY <4>1, <5>1, <5>2, Entering DEF Base, TypeOK, Shape
        <4>2. CASE blocks' = blocks /\ blocks = <<>>
          BY <4>2
        <4>3. QED BY <2>5, <4>1, <4>2 DEF Enters
      <3>2. Health'
        BY <1>2, <2>1, <2>5, <3>1 DEF Health, Stepping
      <3>3. QED BY <1>4, <3>2
    <2>6. QED BY <2>2, <2>3, <2>4, <2>5
  <1>7. QED BY <1>1, <1>5, <1>6

LEMMA LeaveSaveHealth ==
    ASSUME Base, Health, Answers, LeaveSave PROVE Health' /\ Answers' /\ Settled
  <1>1. /\ phase = "leave" /\ phase' \in {"item", "unwind"}
        /\ UNCHANGED <<request, at, flag, failed, outcome>>
        /\ \/ Leave(TRUE) /\ UNCHANGED raising
           \/ raising' = "integrity" /\ UNCHANGED <<blocks, broken, doomed>>
    BY DEF LeaveSave, transaction, Raise
  <1>2. ~broken /\ ~doomed /\ raising # "unusable"
    BY <1>1 DEF Health, Stepping
  <1>3. ~broken' /\ ~doomed' /\ raising' # "unusable"
    <2>1. CASE Leave(TRUE) /\ UNCHANGED raising
      <3>1. broken' = (TRUE /\ broken) /\ doomed' = FALSE
        BY <2>1 DEF Leave
      <3>2. QED BY <1>2, <2>1, <3>1, Zenon
    <2>2. CASE raising' = "integrity" /\ UNCHANGED <<blocks, broken, doomed>>
      BY <1>2, <2>2
    <2>3. QED BY <1>1, <2>1, <2>2
  <1>4. Health'
    BY <1>3 DEF Health
  <1>5. QED BY <1>1, <1>4, SameAnswers DEF Operating, Writing, Stepping, Failing

LEMMA UnwindHealth ==
    ASSUME Base, Health, Answers, Unwind PROVE Health' /\ Answers' /\ Settled
  <1>1. /\ phase = "unwind" /\ UNCHANGED <<request, flag>>
        /\ LeavesSave \/ StartsDiagnosis \/ GivesUp
    BY UnwindSteps
  <1>2. ~doomed /\ raising # "unusable" /\ at \in Parent /\ left > 0
    BY <1>1, WorkFacts DEF Health, Writing, Failing
  <1>3. CASE LeavesSave
    <2>1. /\ Leave(FALSE) /\ phase' \in {"diagnose", "unwind"}
          /\ UNCHANGED <<at, raising, outcome, failed>>
      BY <1>3 DEF LeavesSave
    <2>2. ~broken' /\ ~doomed'
      BY <2>1 DEF Leave
    <2>3. Health'
      BY <1>2, <2>1, <2>2 DEF Health
    <2>4. QED BY <1>1, <2>1, <2>3, SameAnswers DEF Operating, Writing, Stepping, Failing
  <1>4. CASE StartsDiagnosis
    <2>1. /\ phase' = "diagnose" /\ UNCHANGED <<broken, doomed, at, raising, outcome, failed>>
      BY <1>4 DEF StartsDiagnosis
    <2>2. ~broken
      BY <1>1, <1>4 DEF Health, StartsDiagnosis
    <2>3. Health'
      BY <1>2, <2>1, <2>2 DEF Health
    <2>4. QED BY <1>1, <2>1, <2>3, SameAnswers DEF Operating, Writing, Stepping, Failing
  <1>5. CASE GivesUp
    <2>1. PICK how \in {"refused", "unusable", "error"} :
              /\ Ends(how) /\ (how = "unusable" <=> raising = "unusable")
              /\ how = "refused" <=> raising = "nested"
      BY <1>5 DEF GivesUp
    <2>2. how \in Outcome \ {"waiting", "skipped"} /\ phase \in Operating /\ how # "flagged"
      BY <1>1 DEF Outcome, Operating, Writing, Failing
    <2>3. flag' = (flag \/ how = "flagged")
      BY <1>1, <2>2 DEF Base, TypeOK
    <2>4. Answers' /\ Settled /\ outcome'[at] = how
      BY <1>1, <1>2, <2>1, <2>2, <2>3, EndsAnswers
    <2>5. /\ at'[1] = at[1] /\ at'[2] = at[2] + 1 /\ phase' = "root"
          /\ at[2] \in Nat \ {0} /\ at = <<at[1], at[2]>> /\ raising' = None
      BY <1>1, <1>2, <1>5, <2>1, <2>2, EndsFacts, RequestFacts, WorkFacts
         DEF Base, GivesUp, Writing, Failing
    <2>6. ~doomed'
      BY <1>2, <1>5 DEF GivesUp, Leave
    <2>7. broken' => broken /\ blocks' = blocks /\ ~Open("nested")
      BY <1>5 DEF GivesUp, Leave
    <2>8. broken' => Current.kind = "delete" /\ raising = "integrity"
      BY <1>1, <1>5, <2>7 DEF Health, GivesUp
    <2>9. broken' => how = "error"
      <3>1. "integrity" # "nested" /\ "integrity" # "unusable"
        OBVIOUS
      <3>2. QED BY <2>1, <2>8, <3>1
    <2>10. broken' => Roots[at[2]].op = "delete"
      BY <1>1, <1>2, <2>8, PlanFacts DEF Writing, Failing
    <2>11. broken' => DeleteFailed(at[1], at[2] - 1)'
      <3>1. PICK e, r : e = at[1] /\ r = at[2]
        OBVIOUS
      <3>2. /\ at'[2] - 1 = r /\ at'[1] = e /\ r \in 1..r /\ <<e, r>> \in Parent
            /\ <<e, r>> = at
        BY <1>2, <2>5, <3>1
      <3>3. broken' => request'.entries[e][r].op = "delete" /\ outcome'[<<e, r>>] = "error"
        BY <1>1, <2>4, <2>9, <2>10, <3>1, <3>2 DEF Roots
      <3>4. QED BY <3>2, <3>3 DEF DeleteFailed
    <2>12. broken' => blocks' # <<>>
      BY <2>7 DEF Health
    <2>13. raising' # "unusable"
      BY <2>5, MutationWritesAssumption
    <2>14. Health'
      BY <2>5, <2>6, <2>11, <2>12, <2>13 DEF Health, Stepping
    <2>15. QED BY <2>4, <2>14
  <1>6. QED BY <1>1, <1>3, <1>4, <1>5

LEMMA DiagnoseHealth ==
    ASSUME Base, Health, Answers, Diagnose PROVE Health' /\ Answers' /\ Settled
  <1>1. /\ phase = "diagnose" /\ phase' = "unwind"
        /\ raising' \in IF ~Usable THEN {"unusable"}
                        ELSE IF Violates THEN {"nested"} ELSE {"nested", "error"}
        /\ UNCHANGED <<request, at, broken, doomed, flag, failed, outcome>>
    BY DEF Diagnose, transaction
  <1>2. ~broken /\ ~doomed
    BY <1>1 DEF Health
  <1>3. raising' # "unusable"
    BY <1>1, <1>2 DEF Usable
  <1>4. Health'
    BY <1>1, <1>2, <1>3 DEF Health
  <1>5. QED BY <1>1, <1>4, SameAnswers DEF Operating, Writing, Stepping, Failing

LEMMA EndWritesHealth ==
    ASSUME Base, Health, Answers, EndWrites PROVE Health' /\ Answers' /\ Settled
  <1>1. /\ phase = "item" /\ phase' = "reread"
        /\ UNCHANGED <<request, at, raising, flag, failed, outcome>>
        /\ Leave(TRUE) \/ UNCHANGED <<broken, doomed>>
    BY EndWritesSteps
  <1>2. ~broken /\ ~doomed
    BY <1>1 DEF Health, Stepping
  <1>3. ~broken' /\ ~doomed'
    <2>1. CASE Leave(TRUE)
      <3>1. broken' = (TRUE /\ broken) /\ doomed' = FALSE
        BY <2>1 DEF Leave
      <3>2. QED BY <1>2, <3>1, Zenon
    <2>2. CASE UNCHANGED <<broken, doomed>>
      BY <1>2, <2>2
    <2>3. QED BY <1>1, <2>1, <2>2
  <1>4. Health'
    BY <1>1, <1>3 DEF Health
  <1>5. QED BY <1>1, <1>4, SameAnswers DEF Operating, Writing, Stepping, Failing

LEMMA RereadHealth ==
    ASSUME Base, Health, Answers, Reread PROVE Health' /\ Answers' /\ Settled
  <1>1. /\ phase = "reread" /\ at \in Parent
        /\ UNCHANGED <<request, raising, blocks, broken, doomed, flag>>
    BY RereadSteps
  <1>2. PICK how \in {"ok", "late", "unusable"} : Ends(how)
    BY RereadSteps
  <1>3. how \in Outcome \ {"waiting", "skipped"} /\ phase \in Operating /\ how # "flagged"
    BY <1>1 DEF Outcome, Operating, Writing
  <1>4. flag' = (flag \/ how = "flagged")
    BY <1>1, <1>3 DEF Base, TypeOK
  <1>5. Answers' /\ Settled
    BY <1>1, <1>2, <1>3, <1>4, EndsAnswers
  <1>6. ~broken /\ ~doomed
    BY <1>1 DEF Health
  <1>7. Health'
    BY <1>1, <1>6 DEF Health
  <1>8. QED BY <1>5, <1>7

LEMMA HealthStep ==
    ASSUME Base, Health, Answers, [Next]_vars PROVE Health' /\ Answers' /\ Settled
  <1>1. CASE UNCHANGED vars
    <2>1. UNCHANGED <<atomic, request, at, phase, left, raising, blocks, broken, doomed, flag,
                      failed, outcome>> /\ Current' = Current
      BY <1>1, SameItem DEF vars
    <2>2. \A t \in Tag : Open(t)' <=> Open(t)
      BY <2>1, SameBlocks
    <2>3. Health'
      BY <2>1, <2>2 DEF Health, Answered, DeleteFailed, Tag
    <2>4. Answers' /\ Settled
      BY <2>1 DEF Answers, Answered, Settled, Earlier
    <2>5. QED BY <2>3, <2>4
  <1>2. CASE Next
    BY <1>2, EnterEntryHealth, BeginOperationHealth, EndOperationHealth, ExitEntryHealth,
       FinishHealth, BeginRootHealth, WritesHealth, LeaveSaveHealth, UnwindHealth,
       DiagnoseHealth, EndWritesHealth, RereadHealth DEF Next, Writes
  <1>3. QED BY <1>1, <1>2

LEMMA HealthHolds == Spec => [](Health /\ Answers)
  <1>1. Init => Health /\ Answers
    <2>1. Init => Health
      BY MutationWritesAssumption DEF Init, Health
    <2>2. Init => Answers
      BY DEF Init, Answers, Operating, Writing, Stepping, Failing
    <2>3. QED BY <2>1, <2>2
  <1>2. Base /\ (Health /\ Answers) /\ [Next]_vars => (Health /\ Answers)'
    BY HealthStep
  <1>3. QED BY <1>1, <1>2, BaseHolds, PTL DEF Spec

(* The error of an unusable connection replaces a root field's answer only  *)
(* behind a delete that failed, and whose operation is undone.              *)
Own == \A p \in Parent : outcome[p] = "unusable" =>
            DeleteFailed(p[1], p[2] - 1) /\ Undone(p[1])

LEMMA UndoneStays ==
    ASSUME Settled, UNCHANGED atomic, NEW e, Undone(e)
    PROVE  Undone(e)'
  <1>1. PICK q \in Parent : q[1] = e /\ outcome[q] \in {"error", "late", "flagged", "unusable"}
    BY DEF Undone
  <1>2. outcome'[q] = outcome[q]
    BY <1>1 DEF Settled
  <1>3. QED BY <1>1, <1>2 DEF Undone

(* A step that answers with the error of an unusable connection finds the   *)
(* connection broken, or is on its way out with that exception.             *)
LEMMA NewlyUnusable ==
    ASSUME Base, [Next]_vars,
           NEW p \in Parent, outcome[p] # "unusable", outcome'[p] = "unusable"
    PROVE  /\ p = at /\ at'[1] = at[1] /\ at'[2] = at[2] + 1
           /\ \/ phase \in {"root", "reread"} /\ ~Usable
              \/ raising = "unusable"
  <1> USE DEF Outcome
  <1>1. ASSUME at \in Parent, NEW how \in Outcome, Ends(how)
        PROVE  p = at /\ how = "unusable" /\ at'[1] = at[1] /\ at'[2] = at[2] + 1
    BY <1>1, EndsFacts DEF Base
  <1>2. CASE BeginRoot
    <2>1. phase = "root" /\ at \in Parent /\ (AnswersAtOnce \/ StartsWriting)
      BY <1>2, BeginRootSteps
    <2>2. AnswersAtOnce
      BY <2>1 DEF StartsWriting
    <2>3. PICK how \in {"error", "unusable", "refused", "ok", "flagged"} :
              Ends(how) /\ (how = "unusable" => ~Usable)
      BY <2>2 DEF AnswersAtOnce
    <2>4. QED BY <1>1, <2>1, <2>3
  <1>3. CASE Unwind
    <2>1. phase = "unwind" /\ at \in Parent /\ (LeavesSave \/ StartsDiagnosis \/ GivesUp)
      BY <1>3, UnwindSteps, WorkFacts DEF Writing, Failing
    <2>2. GivesUp
      BY <2>1 DEF LeavesSave, StartsDiagnosis
    <2>3. PICK how \in {"refused", "unusable", "error"} :
              Ends(how) /\ (how = "unusable" <=> raising = "unusable")
      BY <2>2 DEF GivesUp
    <2>4. QED BY <1>1, <2>1, <2>3
  <1>4. CASE Reread
    <2>1. phase = "reread" /\ at \in Parent
      BY <1>4, RereadSteps
    <2>2. PICK how \in {"ok", "late", "unusable"} : Ends(how) /\ (how = "unusable" => ~Usable)
      BY <1>4, RereadSteps
    <2>3. QED BY <1>1, <2>1, <2>2
  <1>5. CASE EnterEntry
    BY <1>5 DEF EnterEntry
  <1>6. CASE \/ UNCHANGED vars \/ BeginOperation \/ EndOperation \/ ExitEntry \/ Finish
             \/ Writes \/ LeaveSave \/ Diagnose \/ EndWrites
    <2>1. UNCHANGED outcome
      BY <1>6, WriteSteps
         DEF vars, BeginOperation, EndOperation, ExitEntry, Finish, LeaveSave, Diagnose, EndWrites
    <2>2. QED BY <2>1
  <1>7. QED BY <1>2, <1>3, <1>4, <1>5, <1>6 DEF Next, Writes

LEMMA OwnStep ==
    ASSUME Base, Health, Answers, Own, [Next]_vars PROVE Own'
  <1>1. Settled /\ UNCHANGED <<atomic, request>>
    <2>1. UNCHANGED <<atomic, request>>
      BY WriteSteps DEF Next, Writes, vars, EnterEntry, BeginOperation, EndOperation, ExitEntry,
         Finish, BeginRoot, LeaveSave, Unwind, Diagnose, EndWrites, Reread
    <2>2. QED BY <2>1, HealthStep
  <1>2. ASSUME NEW p \in Parent, outcome'[p] = "unusable"
        PROVE  (DeleteFailed(p[1], p[2] - 1) /\ Undone(p[1]))'
    <2>1. DeleteFailed(p[1], p[2] - 1) /\ Undone(p[1])
      <3>1. CASE outcome[p] = "unusable"
        BY <3>1 DEF Own
      <3>2. CASE outcome[p] # "unusable"
        <4>1. /\ p = at
              /\ \/ phase \in {"root", "reread"} /\ ~Usable
                 \/ raising = "unusable"
          BY <1>2, <3>2, NewlyUnusable
        <4>2. phase = "root" /\ broken /\ blocks # <<>>
          BY <4>1 DEF Health, Usable, Stepping
        <4>3. DeleteFailed(p[1], p[2] - 1)
          BY <4>1, <4>2 DEF Health
        <4>4. atomic.requests \/ atomic.mutations
          <5>1. \E t \in Tag : Open(t)
            BY <4>2, NoBlocks DEF Base, TypeOK
          <5>2. Open("request") \/ Open("entry") \/ Open("mutation")
            BY <4>2, <5>1 DEF Base, Shape, Tag, Stepping, Failing
          <5>3. QED BY <5>2 DEF Base, Shape
        <4>5. Undone(p[1])
          BY <4>3, <4>4 DEF DeleteFailed, Undone
        <4>6. QED BY <4>3, <4>5
      <3>3. QED BY <3>1, <3>2
    <2>2. PICK e, n : e = p[1] /\ n = p[2] - 1
      OBVIOUS
    <2>3. DeleteFailed(e, n)' /\ Undone(e)'
      BY <1>1, <2>1, <2>2, DeleteStillFailed, UndoneStays
    <2>4. QED BY <2>2, <2>3
  <1>3. QED BY <1>2 DEF Own

LEMMA OwnHolds == Spec => []Own
  <1>1. Init => Own
    BY DEF Init, Own
  <1>2. Base /\ Health /\ Answers /\ Own /\ [Next]_vars => Own'
    BY OwnStep
  <1>3. QED BY <1>1, <1>2, BaseHolds, HealthHolds, PTL DEF Spec

(* A failed save is undone before anything is read, nothing is written      *)
(* after a transaction was given up, and no root field is answered with     *)
(* another one's failure unless the operation is undone anyway.             *)
THEOREM ErrorsOwn == Spec => []ErrorsAreTheirOwn
  <1>1. Own => ErrorsAreTheirOwn
    BY DEF Own, ErrorsAreTheirOwn, DeleteFailed
  <1>2. QED BY <1>1, OwnHolds, PTL

-----------------------------------------------------------------------------
(* What a database holds of each root field.  Past entries are final; within *)
(* an operation, a root field that returned normally has everything it       *)
(* wrote, the others have nothing.                                           *)
Past(p) == p[1] < at[1] \/ (p[1] = at[1] /\ phase = "exit" /\ atomic.mutations)
Final(p) == IF Kept(p) THEN Of(p, wrote) ELSE {}
Due(p) == IF Past(p) THEN Final(p)
          ELSE IF outcome[p] \in {"ok", "late"} THEN Of(p, wrote) ELSE {}
AtStart(s) == \A p \in Parent : Of(p, s) = IF p[1] < at[1] THEN Final(p) ELSE {}
Stable(s) == \A p \in Parent : p # at => Of(p, s) = Due(p)

Reached == \A x \in wrote : Earlier(x[1], at) \/ (x[1] = at /\ phase \in Writing)
Holds(b) == \* what a block would restore
    /\ b.saved.saved \subseteq wrote
    /\ b.tag = "request" => b.saved.saved = {}
    /\ b.tag \in {"entry", "mutation"} => AtStart(b.saved.saved)
    /\ b.tag \in {"nested", "save"} => Stable(b.saved.saved)
    /\ b.tag = "nested" \/ (b.tag = "save" /\ ~Nests) => Of(at, b.saved.saved) = {}
Contents ==
    /\ \A b \in Elements(blocks) : Holds(b)
    /\ db.saved \subseteq wrote
    /\ ~doomed => Stable(db.saved)
    /\ phase \in Writing \ Failing => Of(at, db.saved) = Of(at, wrote)
    /\ phase \in Failing /\ ~Nests /\ ~Open("save") => Of(at, db.saved) = {}
    /\ phase = "item" /\ left > 0 /\ ~Nests => Of(at, wrote) = {}

LEMMA OfFacts ==
    ASSUME NEW p, NEW s, NEW w, s \subseteq w
    PROVE  Of(p, s) \subseteq Of(p, w)
  BY DEF Of

(* Nothing is written for a root field that has not been reached. *)
LEMMA NotReached ==
    ASSUME Reached, NEW p, ~Earlier(p, at), p # at \/ phase \notin Writing
    PROVE  Of(p, wrote) = {}
  BY DEF Reached, Of

LEMMA EarlierFacts ==
    ASSUME Base
    PROVE  /\ \A p \in Parent : p = <<p[1], p[2]>> /\ p[1] \in Nat \ {0} /\ p[2] \in Nat \ {0}
           /\ at = <<at[1], at[2]>> /\ at[1] \in Nat \ {0} /\ at[2] \in Nat \ {0}
           /\ ~Earlier(at, at)
           /\ \A p \in Parent : p[1] < at[1] => p # at
           /\ \A p \in Parent : p[1] > at[1] => ~Earlier(p, at)
           /\ \A p \in Parent : p # at /\ p[1] = at[1] => p[2] # at[2]
  BY RequestFacts DEF Base, Position, Earlier

(* Steps that do not move on leave the meaning of a block alone. *)
KeepsFinal == at'[1] = at[1] /\ \A p \in Parent : p[1] < at[1] => Final(p)' = Final(p)
KeepsDue == at' = at /\ \A p \in Parent : p # at => Due(p)' = Due(p)

LEMMA Finals ==
    ASSUME Base, UNCHANGED atomic, at'[1] = at[1],
           \A p \in Parent : p[1] < at[1] => outcome'[p] = outcome[p] /\ Of(p, wrote') = Of(p, wrote)
    PROVE  KeepsFinal
  <1>1. ASSUME NEW e, e < at[1] PROVE Undone(e)' <=> Undone(e)
    BY <1>1 DEF Undone
  <1>2. ASSUME NEW p \in Parent, p[1] < at[1] PROVE Final(p)' = Final(p)
    <2>1. PICK e : e = p[1]
      OBVIOUS
    <2>2. Undone(e)' <=> Undone(e)
      BY <1>1, <1>2, <2>1
    <2>3. Undone(p[1])' <=> Undone(p[1])
      BY <2>1, <2>2
    <2>4. outcome'[p] = outcome[p] /\ Of(p, wrote') = Of(p, wrote)
      BY <1>2
    <2>5. Kept(p)' <=> Kept(p)
      BY <2>3, <2>4 DEF Kept
    <2>6. Of(p, wrote)' = Of(p, wrote)
      BY <2>4 DEF Of
    <2>7. QED BY <2>5, <2>6 DEF Final
  <1>3. QED BY <1>2 DEF KeepsFinal

LEMMA Dues ==
    ASSUME Base, UNCHANGED <<atomic, at, outcome>>, phase' = "exit" <=> phase = "exit",
           \A p \in Parent : p # at => Of(p, wrote') = Of(p, wrote)
    PROVE  KeepsFinal /\ KeepsDue
  <1>1. KeepsFinal
    BY EarlierFacts, Finals
  <1>2. ASSUME NEW p \in Parent, p # at PROVE Due(p)' = Due(p)
    <2>1. Past(p)' <=> Past(p)
      BY DEF Past
    <2>2. Kept(p)' <=> Kept(p)
      BY DEF Kept, Undone
    <2>3. Of(p, wrote)' = Of(p, wrote)
      BY <1>2 DEF Of
    <2>4. Final(p)' = Final(p)
      BY <2>2, <2>3 DEF Final
    <2>5. QED BY <2>1, <2>3, <2>4 DEF Due
  <1>3. QED BY <1>1, <1>2 DEF KeepsDue

LEMMA StartKept == ASSUME KeepsFinal, NEW s, AtStart(s) PROVE AtStart(s)'
  <1>1. ASSUME NEW p \in Parent PROVE Of(p, s) = IF p[1] < at'[1] THEN Final(p)' ELSE {}
    BY DEF KeepsFinal, AtStart
  <1>2. QED BY <1>1 DEF AtStart, Of

LEMMA StableKept == ASSUME KeepsDue, NEW s, Stable(s) PROVE Stable(s)'
  <1>1. ASSUME NEW p \in Parent, p # at' PROVE Of(p, s) = Due(p)'
    BY <1>1 DEF KeepsDue, Stable
  <1>2. QED BY <1>1 DEF Stable, Of

LEMMA BlockKept ==
    ASSUME NEW b, Holds(b), wrote \subseteq wrote', KeepsFinal,
           b.tag \in {"nested", "save"} => KeepsDue /\ (Nests <=> Nests')
    PROVE  Holds(b)'
  <1>1. PICK s : s = b.saved.saved
    OBVIOUS
  <1>2. s \subseteq wrote' /\ (b.tag = "request" => s = {})
    BY <1>1 DEF Holds
  <1>3. b.tag \in {"entry", "mutation"} => AtStart(s)'
    BY <1>1, StartKept DEF Holds
  <1>4. b.tag \in {"nested", "save"} => Stable(s)'
    BY <1>1, StableKept DEF Holds
  <1>5. b.tag = "nested" \/ (b.tag = "save" /\ ~Nests') => Of(at', s) = {}
    BY <1>1 DEF Holds, KeepsDue
  <1>6. QED BY <1>1, <1>2, <1>3, <1>4, <1>5 DEF Holds, AtStart, Stable, Of

(* A step inside of a root field. *)
LEMMA Inside ==
    ASSUME Base, Contents, UNCHANGED <<atomic, request, at, outcome>>,
           phase # "exit", phase' # "exit",
           wrote \subseteq wrote', \A p \in Parent : p # at => Of(p, wrote') = Of(p, wrote)
    PROVE  /\ KeepsFinal /\ KeepsDue
           /\ \A b \in Elements(blocks) : Holds(b)'
           /\ \A s : Stable(s) => Stable(s)'
  <1>1. KeepsFinal /\ KeepsDue
    BY Dues
  <1>2. Nests' <=> Nests
    BY SameRoot
  <1>3. ASSUME NEW b \in Elements(blocks) PROVE Holds(b)'
    BY <1>1, <1>2, BlockKept DEF Contents
  <1>4. ASSUME NEW s, Stable(s) PROVE Stable(s)'
    BY <1>1, <1>4, StableKept
  <1>5. QED BY <1>1, <1>3, <1>4

LEMMA InsideQuiet ==
    ASSUME Base, Reached, Contents, UNCHANGED <<atomic, request, at, outcome, wrote>>,
           phase # "exit", phase' # "exit", phase \in Writing => phase' \in Writing
    PROVE  /\ KeepsFinal /\ KeepsDue
           /\ \A b \in Elements(blocks) : Holds(b)'
           /\ \A s : Stable(s) => Stable(s)'
           /\ Reached'
  BY Inside DEF Reached, Earlier

(* The steps within a root field.                                           *)
LEMMA OnlyParent == \* a root field without nested work ends with the row itself
    ASSUME Base, phase \in Writing, left > 0, ~Nests, Current.kind # "plain"
    PROVE  left = 1
  <1>1. /\ Planned(Roots[at[2]]) /\ Roots[at[2]].op \in {"create", "update", "delete"}
        /\ DOMAIN Items = 1..Len(Items) /\ Len(Items) \in Nat
        /\ Index \in 1..Len(Items) /\ Current = Items[Index]
        /\ \A k \in 1..Len(Items) : Items[k].kind \in Kind
        /\ left \in 0..Len(Items) /\ Index = Len(Items) + 1 - left
    <2>1. /\ Planned(Roots[at[2]]) /\ Roots[at[2]].op \in {"create", "update", "delete"}
          /\ DOMAIN Items = 1..Len(Items) /\ Len(Items) \in Nat /\ Items \in Seq(Item)
          /\ Index \in 1..Len(Items) /\ Current = Items[Index] /\ left \in 0..Len(Items)
      BY CurrentFacts DEF Base
    <2>2. \A k \in 1..Len(Items) : Items[k] \in Item
      BY <2>1, ElementOfSeq
    <2>3. QED BY <2>1, <2>2 DEF Item, Index
  <1>2. CASE Roots[at[2]].op \in {"create", "update"}
    <2>1. InOrder(Items)
      BY <1>1, <1>2 DEF Planned, Items
    <2>2. \A k \in 1..Len(Items) : Items[k].kind \notin {"forward", "reverse", "m2m"}
      BY <1>1 DEF Nests, HasNestedWork
    <2>3. \A k \in 1..Len(Items) : Items[k].kind \notin {"delete", "add"}
      BY <1>1, <2>1, <2>2 DEF InOrder
    <2>4. \A k \in 1..Len(Items) : Items[k].kind \in {"plain", "parent"}
      BY <1>1, <2>2, <2>3 DEF Kind
    <2>5. Items[Index].kind = "parent"
      BY <1>1, <2>4
    <2>6. ASSUME NEW k \in 1..Len(Items), Index < k PROVE FALSE
      <3>1. Place(Items[Index].kind) <= Place(Items[k].kind) /\ Items[k].kind # "parent"
        BY <1>1, <2>1, <2>5, <2>6 DEF InOrder
      <3>2. Items[k].kind = "plain"
        BY <2>4, <3>1
      <3>3. Place("parent") = 2 /\ Place("plain") = 1
        BY DEF Place
      <3>4. QED BY <2>5, <3>1, <3>2, <3>3
    <2>7. ~(Index < Len(Items))
      BY <1>1, <2>6
    <2>8. QED BY <1>1, <2>7
  <1>3. CASE Roots[at[2]].op = "delete"
    <2>1. Len(Items) = 1
      BY <1>1, <1>3 DEF Planned, Items
    <2>2. QED BY <1>1, <2>1
  <1>4. QED BY <1>1, <1>2, <1>3

(* The block that is entered for nested work or for a save.                 *)
LEMMA BlockEntered ==
    ASSUME Base, Contents, ~doomed, wrote \subseteq wrote', NEW b,
           b.saved = db, b.tag \in {"nested", "save"},
           \A s : Stable(s) => Stable(s)', at' = at, Nests' <=> Nests,
           b.tag = "nested" \/ ~Nests => Of(at, db.saved) = {}
    PROVE  Holds(b)'
  <1>1. PICK s : s = db.saved
    OBVIOUS
  <1>2. s \subseteq wrote' /\ Stable(s)'
    BY <1>1 DEF Contents
  <1>3. b.saved.saved = s /\ b.tag \notin {"request", "entry", "mutation"}
    BY <1>1
  <1>4. b.tag = "nested" \/ ~Nests' => Of(at', s) = {}
    BY <1>1
  <1>5. QED BY <1>2, <1>3, <1>4 DEF Holds, Stable, Of

LEMMA BeginOperationContents ==
    ASSUME Base, Base', Health, Answers, Reached, Contents, BeginOperation
    PROVE  Reached' /\ Contents'
  <1>1. /\ phase = "operation" /\ phase' = "root" /\ at[2] = 1
        /\ blocks' = (IF atomic.mutations THEN Opened("mutation") ELSE blocks)
        /\ UNCHANGED <<atomic, request, at, db, doomed, outcome, wrote>>
    BY DEF BeginOperation, Base, Position, Operating, Writing, Stepping, Failing
  <1>2. phase \notin Writing /\ phase' \notin Writing /\ phase' # "exit" /\ ~doomed
    BY <1>1 DEF Writing, Stepping, Failing, Health
  <1>3. /\ KeepsFinal /\ KeepsDue /\ Reached'
        /\ \A b \in Elements(blocks) : Holds(b)'
        /\ \A s : Stable(s) => Stable(s)'
    BY <1>1, <1>2, InsideQuiet
  <1>4. PICK s : s = db.saved
    OBVIOUS
  <1>5. s \subseteq wrote /\ Stable(s)
    BY <1>2, <1>4 DEF Contents
  <1>6. AtStart(s)
    <2>1. ASSUME NEW p \in Parent PROVE Of(p, s) = IF p[1] < at[1] THEN Final(p) ELSE {}
      <3>1. CASE p[1] < at[1]
        BY <1>5, <3>1, EarlierFacts DEF Stable, Due, Past
      <3>2. CASE ~(p[1] < at[1])
        <4>1. ~Earlier(p, at)
          BY <1>1, <3>2, EarlierFacts DEF Earlier
        <4>2. Of(p, wrote) = {}
          BY <1>2, <4>1, NotReached
        <4>3. QED BY <1>5, <3>2, <4>2, OfFacts
      <3>3. QED BY <3>1, <3>2
    <2>2. QED BY <2>1 DEF AtStart
  <1>7. AtStart(s)'
    BY <1>3, <1>6, StartKept
  <1>8. \A b \in Elements(blocks') : Holds(b)'
    <2>1. CASE atomic.mutations
      <3>1. PICK b : b = [tag |-> "mutation", saved |-> db]
        OBVIOUS
      <3>2. /\ "mutation" \in Tag /\ \A t \in Tag : Open(t) => Depth(t) < Depth("mutation")
        <4>1. \A t \in {"mutation", "nested", "save"} : ~Open(t)
          BY <1>1 DEF Base, Shape, Operating, Writing, Stepping, Failing
        <4>2. QED BY <4>1, Depths DEF Tag
      <3>3. Elements(blocks') = Elements(blocks) \cup {b}
        BY <1>1, <2>1, <3>1, <3>2, Entering DEF Base, TypeOK, Shape
      <3>4. Holds(b)'
        <4>1. b.tag = "mutation" /\ b.saved.saved = s
          BY <1>4, <3>1
        <4>2. s \subseteq wrote'
          BY <1>1, <1>5
        <4>3. QED BY <1>7, <4>1, <4>2 DEF Holds, AtStart, Of
      <3>5. QED BY <1>3, <3>3, <3>4
    <2>2. CASE ~atomic.mutations
      BY <1>1, <1>3, <2>2
    <2>3. QED BY <2>1, <2>2
  <1>9. Stable(s)'
    BY <1>3, <1>5
  <1>10. db'.saved = s
    BY <1>1, <1>4
  <1>11. Contents'
    BY <1>1, <1>2, <1>5, <1>8, <1>9, <1>10 DEF Contents, Stable, Of, Writing, Stepping, Failing
  <1>12. QED BY <1>3, <1>11

LEMMA StartsWritingContents ==
    ASSUME Base, Base', Health, Answers, Reached, Contents, BeginRoot, StartsWriting
    PROVE  Reached' /\ Contents'
  <1>1. /\ phase = "root" /\ phase' = "item"
        /\ blocks' = (IF Nests THEN Opened("nested") ELSE blocks)
        /\ UNCHANGED <<atomic, request, at, db, doomed, outcome, wrote>>
    BY BeginRootSteps DEF StartsWriting
  <1>2. phase \notin Writing /\ phase' \in Writing \ Failing /\ phase' # "exit" /\ ~doomed
    BY <1>1 DEF Writing, Stepping, Failing, Health
  <1>3. /\ KeepsFinal /\ KeepsDue /\ Reached'
        /\ \A b \in Elements(blocks) : Holds(b)'
        /\ \A s : Stable(s) => Stable(s)'
    BY <1>1, <1>2, InsideQuiet
  <1>4. Of(at, wrote) = {} /\ Of(at, db.saved) = {}
    <2>1. Of(at, wrote) = {}
      BY <1>2, NotReached, EarlierFacts
    <2>2. QED BY <2>1, OfFacts DEF Contents
  <1>5. \A b \in Elements(blocks') : Holds(b)'
    <2>1. CASE Nests
      <3>1. PICK b : b = [tag |-> "nested", saved |-> db]
        OBVIOUS
      <3>2. /\ "nested" \in Tag /\ \A t \in Tag : Open(t) => Depth(t) < Depth("nested")
        <4>1. \A t \in {"nested", "save"} : ~Open(t)
          BY <1>1 DEF Base, Shape, Operating, Writing, Stepping, Failing
        <4>2. QED BY <4>1, Depths DEF Tag
      <3>3. Elements(blocks') = Elements(blocks) \cup {b}
        BY <1>1, <2>1, <3>1, <3>2, Entering DEF Base, TypeOK, Shape
      <3>4. Holds(b)'
        <4>1. b.tag = "nested" /\ b.saved = db
          BY <3>1
        <4>2. wrote \subseteq wrote' /\ at' = at /\ (Nests' <=> Nests)
          BY <1>1, SameRoot
        <4>3. QED BY <1>2, <1>3, <1>4, <4>1, <4>2, BlockEntered
      <3>5. QED BY <1>3, <3>3, <3>4
    <2>2. CASE ~Nests
      BY <1>1, <1>3, <2>2
    <2>3. QED BY <2>1, <2>2
  <1>6. PICK s : s = db.saved
    OBVIOUS
  <1>7. s \subseteq wrote' /\ Stable(s)' /\ db'.saved = s
    BY <1>1, <1>2, <1>3, <1>6 DEF Contents
  <1>8. Of(at', wrote') = {} /\ Of(at', s) = {}
    BY <1>1, <1>4, <1>6
  <1>9. Contents'
    BY <1>2, <1>5, <1>7, <1>8 DEF Contents, Stable, Of, Failing
  <1>10. QED BY <1>3, <1>9

LEMMA WritesContents ==
    ASSUME Base, Base', Health, Answers, Reached, Contents, Writes
    PROVE  Reached' /\ Contents'
  <1>1. /\ phase \in {"item", "second"} /\ left > 0
        /\ UNCHANGED <<atomic, request, at, outcome>>
        /\ Succeeds \/ Fails \/ Links
    BY WriteSteps
  <1>2. /\ phase \in Writing \ Failing /\ phase # "exit" /\ ~doomed /\ Usable
        /\ at \in Parent /\ left \in Nat /\ (Nests' <=> Nests)
        /\ at[1] \in Nat /\ at[2] \in Nat
    <2>1. phase \in Writing \ Failing /\ phase # "exit"
      BY <1>1 DEF Writing, Stepping, Failing
    <2>2. ~doomed /\ Usable
      BY <1>1 DEF Health, Stepping, Usable
    <2>3. QED BY <1>1, <2>1, <2>2, SameRoot, WorkFacts, RequestFacts DEF Base
  <1>3. phase' \in Writing /\ phase' # "exit"
    BY <1>1 DEF Succeeds, Fails, Links, Writing, Stepping, Failing
  <1>4. /\ Stable(db.saved) /\ Of(at, db.saved) = Of(at, wrote) /\ db.saved \subseteq wrote
        /\ phase = "item" /\ ~Nests => Of(at, wrote) = {}
    BY <1>1, <1>2 DEF Contents
  (* a save that is entered remembers nothing of the root field, if no nested block does *)
  <1>5. ASSUME NEW b, b = [tag |-> "save", saved |-> db], phase = "item",
               wrote \subseteq wrote', \A s : Stable(s) => Stable(s)'
        PROVE  Holds(b)'
    <2>1. b.tag = "save" /\ b.saved = db
      BY <1>5
    <2>2. ~Nests => Of(at, db.saved) = {}
      BY <1>4, <1>5
    <2>3. QED BY <1>1, <1>2, <1>5, <2>1, <2>2, BlockEntered
  <1>6. ASSUME blocks' = blocks \/ (phase = "item" /\ blocks' = Opened("save")),
               wrote \subseteq wrote', \A s : Stable(s) => Stable(s)',
               \A b \in Elements(blocks) : Holds(b)'
        PROVE  \A b \in Elements(blocks') : Holds(b)'
    <2>1. CASE phase = "item" /\ blocks' = Opened("save")
      <3>1. PICK b : b = [tag |-> "save", saved |-> db]
        OBVIOUS
      <3>2. /\ "save" \in Tag /\ \A t \in Tag : Open(t) => Depth(t) < Depth("save")
        <4>1. ~Open("save")
          BY <2>1 DEF Base, Shape
        <4>2. QED BY <4>1, Depths DEF Tag
      <3>3. Elements(blocks') = Elements(blocks) \cup {b}
        BY <2>1, <3>1, <3>2, Entering DEF Base, TypeOK, Shape
      <3>4. Holds(b)'
        BY <1>5, <1>6, <2>1, <3>1
      <3>5. QED BY <1>6, <3>3, <3>4
    <2>2. QED BY <1>6, <2>1
  <1>7. CASE Succeeds
    <2>1. PICK w : /\ w[1] = at /\ wrote' = wrote \cup {w}
                   /\ db'.saved = db.saved \cup {w}
      <3>1. PICK n : /\ wrote' = wrote \cup {<<at, Index, n>>}
                     /\ db'.saved = db.saved \cup {<<at, Index, n>>}
        BY <1>7 DEF Succeeds
      <3>2. PICK w : w = <<at, Index, n>>
        OBVIOUS
      <3>3. QED BY <3>1, <3>2
    <2>2. /\ phase' \in Writing \ Failing /\ UNCHANGED doomed
          /\ blocks' = blocks \/ (phase = "item" /\ blocks' = Opened("save"))
          /\ phase' = "item" => phase = "item" /\ Current.kind # "plain" /\ left' = left - 1
      BY <1>7 DEF Succeeds, Writing, Stepping, Failing
    <2>3. /\ wrote \subseteq wrote' /\ \A p : p # at => Of(p, wrote') = Of(p, wrote)
      <3>1. PICK u : u = wrote'
        OBVIOUS
      <3>2. u = wrote \cup {w}
        BY <2>1, <3>1
      <3>3. \A p : p # at => Of(p, u) = Of(p, wrote)
        BY <2>1, <3>2 DEF Of
      <3>4. QED BY <3>1, <3>2, <3>3
    <2>4. /\ KeepsFinal /\ KeepsDue
          /\ \A b \in Elements(blocks) : Holds(b)'
          /\ \A s : Stable(s) => Stable(s)'
      BY <1>1, <1>2, <1>3, <2>3, Inside
    <2>5. \A b \in Elements(blocks') : Holds(b)'
      BY <1>6, <2>2, <2>3, <2>4
    <2>6. Reached'
      <3>1. ASSUME NEW x \in wrote'
            PROVE  Earlier(x[1], at) \/ x[1] = at
        BY <2>1, <3>1 DEF Reached
      <3>2. QED BY <1>1, <1>3, <3>1 DEF Reached, Earlier
    <2>7. PICK s, t : s = db.saved /\ t = db'.saved
      OBVIOUS
    <2>8. Stable(t)
      <3>1. t = s \cup {w} /\ Stable(s)
        BY <1>4, <2>1, <2>7
      <3>2. \A p : p # at => Of(p, t) = Of(p, s)
        BY <2>1, <3>1 DEF Of
      <3>3. QED BY <3>1, <3>2 DEF Stable
    <2>9. Stable(t)' /\ t \subseteq wrote'
      BY <1>4, <2>1, <2>4, <2>7, <2>8
    <2>10. Of(at, t) = Of(at, wrote')
      <3>1. PICK u : u = wrote'
        OBVIOUS
      <3>2. t = s \cup {w} /\ u = wrote \cup {w} /\ Of(at, s) = Of(at, wrote)
        BY <1>4, <2>1, <2>7, <3>1
      <3>3. Of(at, t) = Of(at, s) \cup {w}
        BY <2>1, <3>2 DEF Of
      <3>4. Of(at, u) = Of(at, wrote) \cup {w}
        BY <2>1, <3>2 DEF Of
      <3>5. QED BY <3>1, <3>2, <3>3, <3>4
    <2>11. ~(phase' = "item" /\ left' > 0 /\ ~Nests')
      <3>1. phase' = "item" /\ ~Nests => left = 1
        BY <1>1, <1>2, <2>2, OnlyParent
      <3>2. QED BY <1>2, <2>2, <3>1
    <2>12. Contents'
      <3>1. Of(at', t) = Of(at', wrote')
        BY <1>1, <2>10
      <3>2. QED BY <2>2, <2>5, <2>7, <2>9, <2>11, <3>1 DEF Contents, Stable, Of
    <2>13. QED BY <2>6, <2>12
  <1>8. CASE Fails \/ Links
    <2>1. /\ UNCHANGED <<db, wrote, doomed>>
          /\ blocks' = blocks \/ (phase = "item" /\ blocks' = Opened("save"))
          /\ phase' = "unwind" \/ (phase = "item" /\ phase' = "item")
      BY <1>1, <1>8 DEF Fails, Links, Enters, Plainly
    <2>2. /\ KeepsFinal /\ KeepsDue /\ Reached'
          /\ \A b \in Elements(blocks) : Holds(b)'
          /\ \A s : Stable(s) => Stable(s)'
      BY <1>1, <1>2, <1>3, <2>1, InsideQuiet
    <2>3. \A b \in Elements(blocks') : Holds(b)'
      BY <1>6, <2>1, <2>2
    <2>4. PICK s : s = db.saved
      OBVIOUS
    <2>5. Stable(s)' /\ s \subseteq wrote' /\ db'.saved = s
      BY <1>4, <2>1, <2>2, <2>4
    <2>6. phase' \notin Failing => Of(at', s) = Of(at', wrote')
      BY <1>1, <1>4, <2>1, <2>4
    <2>7. phase' = "unwind" /\ ~Nests' /\ ~Open("save")' => Of(at', s) = {}
      <3>1. phase = "second" => Open("save")' \/ phase' # "unwind"
        <4>1. phase = "second" => Open("save") /\ blocks' = blocks
          BY <2>1 DEF Base, Shape
        <4>2. QED BY <4>1, SameBlocks DEF Tag
      <3>2. phase = "item" /\ ~Nests => Of(at, s) = {}
        BY <1>4, <2>4
      <3>3. QED BY <1>1, <1>2, <3>1, <3>2
    <2>8. phase' = "item" /\ left' > 0 /\ ~Nests' => Of(at', wrote') = {}
      BY <1>1, <1>2, <1>4, <2>1
    <2>9. Contents'
      <3>1. phase' \in {"item", "unwind"}
        BY <2>1
      <3>2. QED BY <2>3, <2>5, <2>6, <2>7, <2>8, <3>1
               DEF Contents, Stable, Of, Failing, Writing, Stepping
    <2>10. QED BY <2>2, <2>9
  <1>9. QED BY <1>1, <1>7, <1>8

LEMMA LeaveSaveContents ==
    ASSUME Base, Base', Health, Answers, Reached, Contents, LeaveSave
    PROVE  Reached' /\ Contents'
  <1>1. /\ phase = "leave" /\ UNCHANGED <<atomic, request, at, outcome, wrote>>
        /\ \/ Leave(TRUE) /\ left' = left - 1 /\ phase' = "item"
           \/ phase' = "unwind" /\ UNCHANGED <<db, blocks, doomed, left>>
    BY DEF LeaveSave, transaction, Raise, Skip
  <1>2. /\ phase \in Writing \ Failing /\ phase # "exit" /\ phase' \in Writing /\ phase' # "exit"
        /\ ~doomed /\ Open("save") /\ (Nests' <=> Nests) /\ left > 0 /\ left \in Nat
    BY <1>1, SameRoot, WorkFacts
       DEF Base, Shape, TypeOK, Health, Writing, Stepping, Failing
  <1>3. /\ KeepsFinal /\ KeepsDue /\ Reached'
        /\ \A b \in Elements(blocks) : Holds(b)'
        /\ \A s : Stable(s) => Stable(s)'
    BY <1>1, <1>2, InsideQuiet
  <1>4. PICK s : s = db.saved
    OBVIOUS
  <1>5. s \subseteq wrote /\ Stable(s)' /\ Of(at, s) = Of(at, wrote)
    BY <1>2, <1>3, <1>4 DEF Contents
  <1>6. CASE Leave(TRUE) /\ left' = left - 1 /\ phase' = "item"
    <2>1. PICK top : top = Last(blocks)
      OBVIOUS
    <2>2. blocks # <<>>
      BY <1>2, NoBlocks DEF Base, TypeOK, Tag
    <2>3. Elements(blocks) = Elements(blocks') \cup {top} /\ db' = db
      BY <1>6, <2>1, <2>2, Leaving DEF Base, TypeOK, Shape
    <2>4. \A b \in Elements(blocks') : Holds(b)'
      BY <1>3, <2>3
    <2>5. ~(left' > 0 /\ ~Nests')
      <3>1. Current.kind # "plain"
        BY <1>2 DEF Base, Position
      <3>2. ~Nests => left = 1
        BY <1>2, <3>1, OnlyParent
      <3>3. QED BY <1>2, <1>6, <3>2
    <2>6. Contents'
      BY <1>1, <1>4, <1>5, <1>6, <2>3, <2>4, <2>5
         DEF Contents, Stable, Of, Writing, Stepping, Failing
    <2>7. QED BY <1>3, <2>6
  <1>7. CASE phase' = "unwind" /\ UNCHANGED <<db, blocks, doomed, left>>
    <2>1. Open("save")'
      BY <1>2, <1>7, SameBlocks DEF Tag
    <2>2. Contents'
      BY <1>1, <1>3, <1>4, <1>5, <1>7, <2>1 DEF Contents, Stable, Of, Writing, Stepping, Failing
    <2>3. QED BY <1>3, <2>2
  <1>8. QED BY <1>1, <1>6, <1>7

LEMMA DiagnoseContents ==
    ASSUME Base, Base', Health, Answers, Reached, Contents, Diagnose
    PROVE  Reached' /\ Contents'
  <1>1. /\ phase = "diagnose" /\ phase' = "unwind"
        /\ UNCHANGED <<atomic, request, at, outcome, wrote, db, blocks, doomed, left>>
    BY DEF Diagnose, transaction, progress
  <1>2. phase \in Failing /\ phase # "exit" /\ phase' \in Writing /\ phase' # "exit"
    BY <1>1 DEF Writing, Failing
  <1>3. /\ Reached' /\ \A b \in Elements(blocks) : Holds(b)'
        /\ \A s : Stable(s) => Stable(s)'
    BY <1>1, <1>2, InsideQuiet
  <1>4. PICK s : s = db.saved
    OBVIOUS
  <1>5. /\ s \subseteq wrote /\ (~doomed => Stable(s)')
        /\ ~Nests /\ ~Open("save") => Of(at, s) = {}
    BY <1>2, <1>3, <1>4 DEF Contents
  <1>6. (Nests' <=> Nests) /\ (Open("save")' <=> Open("save"))
    BY <1>1, SameRoot, SameBlocks DEF Tag
  <1>7. Contents'
    BY <1>1, <1>3, <1>4, <1>5, <1>6 DEF Contents, Stable, Of, Writing, Stepping, Failing
  <1>8. QED BY <1>3, <1>7

LEMMA EndWritesContents ==
    ASSUME Base, Base', Health, Answers, Reached, Contents, EndWrites
    PROVE  Reached' /\ Contents'
  <1>1. /\ phase = "item" /\ phase' = "reread"
        /\ UNCHANGED <<atomic, request, at, outcome, wrote>>
        /\ \/ Leave(TRUE) /\ blocks # <<>>
           \/ UNCHANGED <<db, blocks, doomed>>
    BY EndWritesSteps
  <1>2. /\ phase \in Writing \ Failing /\ phase # "exit" /\ phase' \in Writing /\ phase' # "exit"
        /\ ~doomed
    BY <1>1 DEF Health, Writing, Stepping, Failing
  <1>3. /\ Reached' /\ \A b \in Elements(blocks) : Holds(b)'
        /\ \A s : Stable(s) => Stable(s)'
    BY <1>1, <1>2, InsideQuiet
  <1>4. PICK s : s = db.saved
    OBVIOUS
  <1>5. s \subseteq wrote /\ Stable(s)' /\ Of(at, s) = Of(at, wrote)
    BY <1>2, <1>3, <1>4 DEF Contents
  <1>6. /\ \A b \in Elements(blocks') : b \in Elements(blocks)
        /\ db' = db
    <2>1. CASE Leave(TRUE) /\ blocks # <<>>
      <3>1. PICK top : top = Last(blocks)
        OBVIOUS
      <3>2. Elements(blocks) = Elements(blocks') \cup {top} /\ db' = db
        BY <2>1, <3>1, Leaving DEF Base, TypeOK, Shape
      <3>3. QED BY <3>2
    <2>2. CASE UNCHANGED <<db, blocks, doomed>>
      BY <2>2
    <2>3. QED BY <1>1, <2>1, <2>2
  <1>7. Contents'
    BY <1>1, <1>3, <1>4, <1>5, <1>6 DEF Contents, Stable, Of, Writing, Stepping, Failing
  <1>8. QED BY <1>3, <1>7

(* A root field is answered.                                                *)
LEMMA AnsweredContents ==
    ASSUME Base, Base', Health, Answers, Reached, Contents, phase \in Operating, at \in Parent,
           NEW how \in Outcome, Ends(how), UNCHANGED <<atomic, request, wrote>>,
           \A b \in Elements(blocks') : b \in Elements(blocks),
           NEW s, s = db'.saved, s \subseteq wrote, Stable(s),
           Of(at, s) = IF how \in {"ok", "late"} THEN Of(at, wrote) ELSE {}
    PROVE  Reached' /\ Contents'
  <1>1. /\ outcome'[at] = how /\ \A p \in Parent : p # at => outcome'[p] = outcome[p]
        /\ at'[1] = at[1] /\ at'[2] = at[2] + 1 /\ phase' = "root"
    BY EndsFacts DEF Base
  <1>2. KeepsFinal
    BY <1>1, EarlierFacts, Finals
  <1>3. ~Open("nested")' /\ ~Open("save")'
    BY <1>1 DEF Base, Shape, Operating, Writing, Stepping, Failing
  <1>4. ASSUME NEW b \in Elements(blocks') PROVE Holds(b)'
    <2>1. b.tag \notin {"nested", "save"}
      BY <1>3 DEF Open
    <2>2. QED BY <1>2, <2>1, BlockKept DEF Contents
  <1>5. Reached'
    <2>1. ASSUME NEW x \in wrote, Earlier(x[1], at) \/ x[1] = at
          PROVE  Earlier(x[1], at')
      <3>1. x[1] \in Parent
        BY DEF Base, TypeOK
      <3>2. QED BY <1>1, <2>1, <3>1, EarlierFacts DEF Earlier
    <2>2. QED BY <2>1 DEF Reached, Earlier
  <1>6. Stable(s)'
    <2>1. phase # "exit" /\ phase' # "exit"
      BY <1>1 DEF Operating, Writing, Stepping, Failing
    <2>2. ASSUME NEW p \in Parent PROVE Of(p, s) = Due(p)'
      <3>1. CASE p[1] < at[1]
        <4>1. p # at /\ Past(p) /\ Past(p)'
          BY <1>1, <3>1, EarlierFacts DEF Past
        <4>2. Of(p, s) = Final(p) /\ Final(p)' = Final(p)
          BY <1>2, <3>1, <4>1 DEF Stable, Due, KeepsFinal
        <4>3. QED BY <4>1, <4>2 DEF Due
      <3>2. CASE ~(p[1] < at[1])
        <4>1. ~Past(p) /\ ~Past(p)'
          BY <1>1, <2>1, <3>2 DEF Past
        <4>2. CASE p = at
          BY <1>1, <4>1, <4>2 DEF Due, Of
        <4>3. CASE p # at
          BY <1>1, <4>1, <4>3 DEF Due, Of, Stable
        <4>4. QED BY <4>2, <4>3
      <3>3. QED BY <3>1, <3>2
    <2>3. QED BY <2>2 DEF Stable, Of
  <1>7. Contents'
    BY <1>1, <1>4, <1>6 DEF Contents, Stable, Of, Writing, Stepping, Failing
  <1>8. QED BY <1>5, <1>7

LEMMA AnswersAtOnceContents ==
    ASSUME Base, Base', Health, Answers, Reached, Contents, BeginRoot, AnswersAtOnce
    PROVE  Reached' /\ Contents'
  <1>1. phase = "root" /\ at \in Parent /\ UNCHANGED <<atomic, request, db, wrote, blocks>>
    BY BeginRootSteps DEF AnswersAtOnce
  <1>2. PICK how \in {"error", "unusable", "refused", "ok", "flagged"} : Ends(how)
    BY DEF AnswersAtOnce
  <1>3. PICK s : s = db.saved
    OBVIOUS
  <1>4. phase \notin Writing /\ phase \in Operating /\ ~doomed
    BY <1>1 DEF Operating, Writing, Stepping, Failing, Health
  <1>5. Of(at, wrote) = {}
    BY <1>4, NotReached, EarlierFacts
  <1>6. s \subseteq wrote /\ Stable(s) /\ Of(at, s) = {}
    BY <1>3, <1>4, <1>5, OfFacts DEF Contents
  <1>7. how \in Outcome /\ s = db'.saved /\ \A b \in Elements(blocks') : b \in Elements(blocks)
    BY <1>1, <1>3 DEF Outcome
  <1>8. QED BY <1>1, <1>2, <1>4, <1>5, <1>6, <1>7, AnsweredContents

LEMMA RereadContents ==
    ASSUME Base, Base', Health, Answers, Reached, Contents, Reread
    PROVE  Reached' /\ Contents'
  <1>1. phase = "reread" /\ at \in Parent /\ UNCHANGED <<atomic, request, db, wrote, blocks>>
    BY RereadSteps
  <1>2. Usable
    BY <1>1 DEF Health, Usable
  <1>3. PICK how \in {"ok", "late", "unusable"} : Ends(how) /\ (how = "unusable" => ~Usable)
    BY RereadSteps
  <1>4. PICK s : s = db.saved
    OBVIOUS
  <1>5. phase \in Writing \ Failing /\ phase \in Operating
    BY <1>1 DEF Operating, Writing, Stepping, Failing
  <1>6. s \subseteq wrote /\ Stable(s) /\ Of(at, s) = Of(at, wrote)
    BY <1>2, <1>4, <1>5 DEF Contents, Usable
  <1>7. /\ how \in {"ok", "late"} /\ how \in Outcome /\ s = db'.saved
        /\ \A b \in Elements(blocks') : b \in Elements(blocks)
    BY <1>1, <1>2, <1>3, <1>4 DEF Outcome
  <1>8. QED BY <1>1, <1>3, <1>5, <1>6, <1>7, AnsweredContents

LEMMA UnwindContents ==
    ASSUME Base, Base', Health, Answers, Reached, Contents, Unwind
    PROVE  Reached' /\ Contents'
  <1>1. /\ phase = "unwind" /\ UNCHANGED <<atomic, request, wrote>>
        /\ LeavesSave \/ StartsDiagnosis \/ GivesUp
    BY UnwindSteps
  <1>2. /\ phase \in Failing /\ phase \in Writing /\ phase \in Operating /\ phase # "exit"
        /\ at \in Parent /\ ~doomed
    BY <1>1, WorkFacts DEF Health, Operating, Writing, Failing
  <1>3. PICK top : top = Last(blocks)
    OBVIOUS
  <1>4. ASSUME Leave(FALSE), blocks # <<>>
        PROVE  /\ top \in Elements(blocks) /\ db' = top.saved
               /\ Elements(blocks) = Elements(blocks') \cup {top}
               /\ \A t \in Tag : Open(t)' <=> Open(t) /\ t # top.tag
               /\ Holds(top)
    BY <1>3, <1>4, Leaving DEF Base, TypeOK, Shape, Contents
  <1>5. CASE LeavesSave
    <2>1. /\ Leave(FALSE) /\ blocks # <<>> /\ top.tag = "save"
          /\ phase' \in Failing /\ UNCHANGED <<at, outcome>>
      BY <1>3, <1>5 DEF LeavesSave, Failing
    <2>2. /\ Reached' /\ \A b \in Elements(blocks) : Holds(b)'
          /\ \A s : Stable(s) => Stable(s)'
      BY <1>1, <1>2, <2>1, InsideQuiet DEF Writing, Failing
    <2>3. PICK s : s = top.saved.saved
      OBVIOUS
    <2>4. s \subseteq wrote /\ Stable(s)' /\ (~Nests => Of(at, s) = {}) /\ db'.saved = s
      BY <1>4, <2>1, <2>2, <2>3 DEF Holds
    <2>5. (Nests' <=> Nests) /\ \A b \in Elements(blocks') : Holds(b)'
      BY <1>1, <1>4, <2>1, <2>2, SameRoot
    <2>6. Contents'
      BY <1>1, <2>1, <2>4, <2>5 DEF Contents, Stable, Of, Failing
    <2>7. QED BY <2>2, <2>6
  <1>6. CASE StartsDiagnosis
    <2>1. /\ ~Open("save") /\ phase' = "diagnose"
          /\ UNCHANGED <<at, outcome, db, blocks, doomed>>
      BY <1>6 DEF StartsDiagnosis
    <2>2. /\ Reached' /\ \A b \in Elements(blocks) : Holds(b)'
          /\ \A s : Stable(s) => Stable(s)'
      BY <1>1, <1>2, <2>1, InsideQuiet DEF Writing, Failing
    <2>3. PICK s : s = db.saved
      OBVIOUS
    <2>4. s \subseteq wrote /\ Stable(s)' /\ (~Nests => Of(at, s) = {})
      BY <1>2, <2>1, <2>2, <2>3 DEF Contents
    <2>5. Nests' <=> Nests
      BY <1>1, <2>1, SameRoot
    <2>6. Contents'
      BY <1>1, <2>1, <2>2, <2>3, <2>4, <2>5 DEF Contents, Stable, Of, Failing
    <2>7. QED BY <2>2, <2>6
  <1>7. CASE GivesUp
    <2>1. PICK how \in {"refused", "unusable", "error"} : Ends(how)
      BY <1>7 DEF GivesUp
    <2>2. ~Open("save") /\ (Open("nested") <=> Nests)
      BY <1>1, <1>7 DEF GivesUp, Base, Shape, Failing
    <2>3. PICK s : s = db'.saved
      OBVIOUS
    <2>4. /\ s \subseteq wrote /\ Stable(s) /\ Of(at, s) = {}
          /\ \A b \in Elements(blocks') : b \in Elements(blocks)
      <3>1. CASE Open("nested")
        <4>1. Leave(FALSE) /\ blocks # <<>> /\ top.tag = "nested"
          BY <1>3, <1>7, <3>1 DEF GivesUp
        <4>2. QED BY <1>4, <2>3, <4>1 DEF Holds
      <3>2. CASE ~Open("nested")
        <4>1. UNCHANGED <<db, blocks>>
          BY <1>7, <3>2 DEF GivesUp
        <4>2. QED BY <1>2, <2>2, <2>3, <3>2, <4>1 DEF Contents
      <3>3. QED BY <3>1, <3>2
    <2>5. how \in Outcome /\ how \notin {"ok", "late"}
      BY DEF Outcome
    <2>6. QED BY <1>1, <1>2, <2>1, <2>3, <2>4, <2>5, AnsweredContents
  <1>8. QED BY <1>1, <1>5, <1>6, <1>7

(* The steps between root fields.                                           *)
LEMMA EnterEntryContents ==
    ASSUME Base, Base', Health, Answers, Reached, Contents, EnterEntry
    PROVE  Reached' /\ Contents'
  <1>1. /\ phase = "entry" /\ phase' \in {"operation", "exit", "finish"} /\ at[2] = 1
        /\ blocks' = (IF phase' # "finish" /\ request.batch /\ atomic.requests THEN Opened("entry")
                      ELSE blocks)
        /\ \A p \in Parent : outcome'[p] = IF p[1] = at[1] /\ phase' = "exit"
                                           THEN "skipped" ELSE outcome[p]
        /\ UNCHANGED <<atomic, request, at, db, doomed, wrote>>
    <2>1. phase = "entry" /\ UNCHANGED <<atomic, request, at, db, doomed, wrote>> /\ at[2] = 1
      BY DEF EnterEntry, Base, Position, Operating, Writing, Stepping, Failing
    <2>2. CASE at[1] <= Len(request.entries)
      BY <2>1, <2>2 DEF EnterEntry, ItemSavepoints
    <2>3. CASE ~(at[1] <= Len(request.entries))
      BY <2>1, <2>3 DEF EnterEntry
    <2>4. QED BY <2>1, <2>2, <2>3
  <1>2. phase \notin Writing /\ phase' \notin Writing /\ phase # "exit"
    BY <1>1 DEF Writing, Stepping, Failing
  <1>3. \A p \in Parent : ~Earlier(p, at) => outcome[p] = "waiting" /\ Of(p, wrote) = {}
    BY <1>1, <1>2, NotReached DEF Answers
  <1>4. \A p \in Parent : ~(p[1] < at[1]) => ~Earlier(p, at)
    BY <1>1, EarlierFacts DEF Earlier
  <1>5. KeepsFinal
    BY <1>1, EarlierFacts, Finals
  <1>6. Reached'
    BY <1>1, <1>2 DEF Reached, Earlier
  <1>7. ASSUME NEW s, s \subseteq wrote, Stable(s) PROVE AtStart(s) /\ AtStart(s)' /\ Stable(s)'
    <2>1. ASSUME NEW p \in Parent
          PROVE  Of(p, s) = IF p[1] < at[1] THEN Final(p) ELSE {}
      <3>1. CASE p[1] < at[1]
        BY <1>7, <3>1, EarlierFacts DEF Stable, Due, Past
      <3>2. CASE ~(p[1] < at[1])
        BY <1>3, <1>4, <1>7, <3>2, OfFacts
      <3>3. QED BY <3>1, <3>2
    <2>2. AtStart(s)
      BY <2>1 DEF AtStart
    <2>3. AtStart(s)'
      BY <1>5, <2>2, StartKept
    <2>4. ASSUME NEW p \in Parent PROVE Of(p, s) = Due(p)'
      <3>1. CASE p[1] < at[1]
        <4>1. Past(p)'
          BY <1>1, <3>1 DEF Past
        <4>2. Of(p, s) = Final(p)'
          BY <1>5, <2>1, <3>1 DEF KeepsFinal
        <4>3. QED BY <4>1, <4>2 DEF Due
      <3>2. CASE ~(p[1] < at[1])
        <4>1. Of(p, s) = {} /\ outcome'[p] \notin {"ok", "late"}
          BY <1>1, <1>3, <1>4, <2>1, <3>2
        <4>2. QED BY <4>1 DEF Due, Final, Kept
      <3>3. QED BY <3>1, <3>2
    <2>5. Stable(s)'
      BY <2>4 DEF Stable, Of
    <2>6. QED BY <2>2, <2>3, <2>5
  <1>8. \A t \in {"entry", "mutation", "nested", "save"} : ~Open(t) /\ t \in Tag
    BY <1>1 DEF Base, Shape, Tag, Operating, Writing, Stepping, Failing
  <1>9. \A b \in Elements(blocks) : Holds(b)'
    <2>1. ASSUME NEW b \in Elements(blocks) PROVE b.tag \notin {"nested", "save"}
      BY <1>8 DEF Open
    <2>2. QED BY <1>1, <1>5, <2>1, BlockKept DEF Contents
  <1>10. PICK s : s = db.saved
    OBVIOUS
  <1>11. s \subseteq wrote /\ (~doomed => Stable(s) /\ AtStart(s)' /\ Stable(s)')
    BY <1>7, <1>10 DEF Contents
  <1>12. \A b \in Elements(blocks') : Holds(b)'
    <2>1. CASE phase' # "finish" /\ request.batch /\ atomic.requests
      <3>1. PICK b : b = [tag |-> "entry", saved |-> db]
        OBVIOUS
      <3>2. \A t \in Tag : Open(t) => Depth(t) < Depth("entry")
        BY <1>8, Depths DEF Tag
      <3>3. Elements(blocks') = Elements(blocks) \cup {b}
        BY <1>1, <1>8, <2>1, <3>1, <3>2, Entering DEF Base, TypeOK, Shape
      <3>4. Holds(b)'
        <4>1. ~doomed
          BY <2>1 DEF Health
        <4>2. b.tag = "entry" /\ b.saved.saved = s /\ s \subseteq wrote' /\ AtStart(s)'
          BY <1>1, <1>10, <1>11, <3>1, <4>1
        <4>3. QED BY <4>2 DEF Holds, AtStart, Of
      <3>5. QED BY <1>9, <3>3, <3>4
    <2>2. CASE ~(phase' # "finish" /\ request.batch /\ atomic.requests)
      BY <1>1, <1>9, <2>2
    <2>3. QED BY <2>1, <2>2
  <1>13. Contents'
    BY <1>1, <1>2, <1>10, <1>11, <1>12 DEF Contents, Stable, Of, Writing, Stepping, Failing
  <1>14. QED BY <1>6, <1>13

LEMMA EndOperationContents ==
    ASSUME Base, Base', Health, Answers, Reached, Contents, EndOperation
    PROVE  Reached' /\ Contents'
  <1>1. /\ phase = "root" /\ phase' = "exit"
        /\ UNCHANGED <<atomic, request, at, outcome, wrote, flag, failed>>
        /\ IF atomic.mutations THEN Leave(~RollsBack) ELSE UNCHANGED <<db, blocks, doomed>>
    BY DEF EndOperation, transaction
  <1>2. phase \notin Writing /\ phase' \notin Writing /\ ~doomed
    BY <1>1 DEF Health, Writing, Stepping, Failing
  <1>3. KeepsFinal /\ Reached'
    BY <1>1, <1>2, EarlierFacts, Finals DEF Reached, Earlier
  <1>4. \A t \in {"nested", "save"} : ~Open(t) /\ t \in Tag
    BY <1>1 DEF Base, Shape, Tag, Operating, Writing, Stepping, Failing
  <1>5. \A b \in Elements(blocks) : Holds(b)'
    <2>1. ASSUME NEW b \in Elements(blocks) PROVE b.tag \notin {"nested", "save"}
      BY <1>4 DEF Open
    <2>2. QED BY <1>1, <1>3, <2>1, BlockKept DEF Contents
  <1>6. RollsBack <=> Answered(at[1], Bad)
    <2>1. /\ failed <=> Answered(at[1], {"error", "late", "unusable"})
          /\ flag <=> Answered(at[1], {"flagged"})
      BY <1>1 DEF Answers, Operating
    <2>2. QED BY <2>1 DEF RollsBack, Answered, Bad
  <1>7. \A p \in Parent : Final(p)' = Final(p)
    <2>1. \A p \in Parent : (Kept(p)' <=> Kept(p)) /\ Of(p, wrote)' = Of(p, wrote)
      BY <1>1 DEF Kept, Undone, Of
    <2>2. QED BY <2>1 DEF Final
  <1>8. \A p \in Parent : p[1] > at[1] => outcome[p] = "waiting" /\ Of(p, wrote) = {}
    BY <1>2, EarlierFacts, NotReached DEF Answers
  <1>9. PICK s : s = db'.saved
    OBVIOUS
  <1>10. /\ s \subseteq wrote /\ Stable(s)' /\ ~doomed'
         /\ \A b \in Elements(blocks') : b \in Elements(blocks)
    <2>1. CASE ~atomic.mutations
      <3>1. s \subseteq wrote /\ Stable(s)
        BY <1>1, <1>2, <1>9, <2>1 DEF Contents
      <3>2. \A p \in Parent : Due(p)' = Due(p)
        <4>1. \A p \in Parent : Past(p)' <=> Past(p)
          BY <1>1, <2>1 DEF Past
        <4>2. QED BY <1>1, <1>7, <4>1 DEF Due, Of
      <3>3. QED BY <1>1, <1>2, <2>1, <3>1, <3>2 DEF Stable, Of
    <2>2. CASE atomic.mutations
      <3>1. PICK top : top = Last(blocks)
        OBVIOUS
      <3>2. PICK kept \in BOOLEAN : kept = ~RollsBack
        OBVIOUS
      <3>3. blocks # <<>> /\ Open("mutation")
        BY <1>1, <2>2, NoBlocks DEF Base, TypeOK, Shape, Operating, Tag
      <3>4. /\ top \in Elements(blocks) /\ top.tag \in Tag /\ Open(top.tag)
            /\ \A t \in Tag : Open(t) => Depth(t) <= Depth(top.tag)
            /\ Elements(blocks) = Elements(blocks') \cup {top}
            /\ db' = (IF kept THEN db ELSE top.saved) /\ ~doomed'
        BY <1>1, <2>2, <3>1, <3>2, <3>3, Leaving DEF Base, TypeOK, Shape
      <3>5. top.tag = "mutation"
        BY <1>4, <3>3, <3>4, TopTag DEF Base
      <3>6. ASSUME NEW p \in Parent, p # at PROVE Of(p, s) = Due(p)'
        <4>1. CASE p[1] > at[1]
          <5>1. Of(p, s) = {}
            <6>1. s \subseteq wrote
              BY <1>9, <3>4 DEF Contents, Holds
            <6>2. QED BY <1>8, <4>1, <6>1, OfFacts
          <5>2. outcome'[p] \notin {"ok", "late"}
            BY <1>1, <1>8, <4>1
          <5>3. QED BY <5>1, <5>2 DEF Due, Final, Kept
        <4>2. CASE ~(p[1] > at[1])
          <5>1. Past(p)' /\ Due(p)' = Final(p)
            <6>1. p[1] < at[1] \/ p[1] = at[1]
              BY <4>2, EarlierFacts
            <6>2. Past(p)'
              BY <1>1, <2>2, <6>1 DEF Past
            <6>3. QED BY <1>7, <6>2 DEF Due
          <5>2. CASE kept
            <6>1. db'.saved = db.saved /\ Of(p, s) = Due(p)
              BY <1>2, <1>9, <3>4, <3>6, <5>2 DEF Contents, Stable
            <6>2. ~Undone(at[1])
              BY <1>6, <3>2, <5>2 DEF Undone, Answered, Bad
            <6>3. Due(p) = Final(p)
              <7>1. CASE p[1] < at[1]
                BY <7>1 DEF Due, Past
              <7>2. CASE p[1] = at[1]
                BY <6>2, <7>2, <1>1 DEF Due, Past, Final, Kept
              <7>3. QED BY <4>2, <7>1, <7>2, EarlierFacts
            <6>4. QED BY <5>1, <6>1, <6>3
          <5>3. CASE ~kept
            <6>1. s = top.saved.saved
              BY <1>9, <3>4, <5>3
            <6>2. AtStart(s)
              BY <3>4, <3>5, <6>1 DEF Contents, Holds
            <6>3. Undone(at[1])
              BY <1>6, <2>2, <3>2, <5>3 DEF Undone, Answered, Bad
            <6>4. Of(p, s) = Final(p)
              <7>1. CASE p[1] < at[1]
                BY <6>2, <7>1 DEF AtStart
              <7>2. CASE p[1] = at[1]
                <8>1. Of(p, s) = {}
                  BY <6>2, <7>2, EarlierFacts DEF AtStart
                <8>2. QED BY <6>3, <7>2, <8>1 DEF Final, Kept
              <7>3. QED BY <4>2, <7>1, <7>2, EarlierFacts
            <6>5. QED BY <5>1, <6>4
          <5>4. QED BY <5>2, <5>3
        <4>3. QED BY <4>1, <4>2
      <3>7. s \subseteq wrote
        BY <1>9, <3>4 DEF Contents, Holds
      <3>8. Stable(s)'
        BY <1>1, <3>6 DEF Stable, Of
      <3>9. QED BY <3>4, <3>7, <3>8
    <2>3. QED BY <2>1, <2>2
  <1>11. Contents'
    BY <1>1, <1>2, <1>5, <1>9, <1>10 DEF Contents, Stable, Of, Writing, Stepping, Failing
  <1>12. QED BY <1>3, <1>11

LEMMA OpenNext ==
    ASSUME Base'
    PROVE  \A b \in Elements(blocks') : b.tag \in Tag /\ Open(b.tag)'
  <1>1. PICK s : s = blocks'
    OBVIOUS
  <1>2. s \in Seq(Block)
    BY <1>1 DEF Base, TypeOK
  <1>3. \A b \in Elements(s) : b \in Block
    BY <1>2, ElementFacts
  <1>4. \A b \in Elements(blocks') : b.tag \in Tag
    BY <1>1, <1>3 DEF Block, Tag
  <1>5. \A b \in Elements(blocks') : Open(b.tag)'
    BY DEF Open, Elements
  <1>6. QED BY <1>4, <1>5

LEMMA ExitEntryContents ==
    ASSUME Base, Base', Health, Answers, Reached, Contents, ExitEntry
    PROVE  Reached' /\ Contents'
  <1>1. /\ phase = "exit" /\ phase' = "entry" /\ at'[1] = at[1] + 1 /\ at'[2] = 1
        /\ UNCHANGED <<atomic, request, outcome, wrote, flag, failed>>
        /\ \/ /\ atomic.requests /\ request.batch /\ Leave(~(flag \/ failed))
              /\ Last(blocks).tag = "entry" /\ blocks # <<>>
           \/ /\ ~(atomic.requests /\ request.batch)
              /\ doomed' = (atomic.requests /\ (flag \/ failed))
              /\ UNCHANGED <<db, blocks, broken>>
    BY ExitEntryFacts
  <1>2. phase \notin Writing /\ phase' \notin Writing /\ ~doomed /\ phase' # "exit"
    BY <1>1 DEF Health, Writing, Stepping, Failing
  <1>3. /\ at[1] \in Nat \ {0} /\ at[2] \in Nat \ {0}
        /\ \A p \in Parent : p[1] \in Nat /\ p[2] \in Nat
        /\ at = <<at[1], at[2]>>
    BY EarlierFacts
  <1>4. Reached'
    <2>1. ASSUME NEW x \in wrote PROVE Earlier(x[1], at')
      <3>1. x[1] \in Parent /\ Earlier(x[1], at)
        BY <1>2 DEF Reached, Base, TypeOK
      <3>2. QED BY <1>1, <1>3, <3>1 DEF Earlier
    <2>2. QED BY <1>1, <2>1 DEF Reached, Earlier
  <1>5. flag \/ failed <=> Answered(at[1], Bad)
    <2>1. /\ failed <=> Answered(at[1], {"error", "late", "unusable"})
          /\ flag <=> Answered(at[1], {"flagged"})
      BY <1>1 DEF Answers
    <2>2. QED BY <2>1 DEF Answered, Bad
  <1>6. \A p \in Parent : Final(p)' = Final(p)
    <2>1. \A p \in Parent : (Kept(p)' <=> Kept(p)) /\ Of(p, wrote)' = Of(p, wrote)
      BY <1>1 DEF Kept, Undone, Of
    <2>2. QED BY <2>1 DEF Final
  <1>7. \A p \in Parent : ~Earlier(p, at) =>
            outcome[p] \notin {"ok", "late"} /\ Of(p, wrote) = {}
    BY <1>2, NotReached DEF Answers
  <1>8. PICK s : s = db'.saved
    OBVIOUS
  (* what was kept of the entry is what it wrote, and what was undone left nothing *)
  <1>9. ASSUME s \subseteq wrote,
               \/ s = db.saved /\ (Undone(at[1]) => atomic.mutations)
               \/ AtStart(s) /\ Undone(at[1])
        PROVE  Stable(s)'
    <2>1. ASSUME NEW p \in Parent PROVE Of(p, s) = Due(p)'
      <3>1. CASE p[1] > at[1]
        <4>1. ~Earlier(p, at) /\ ~Past(p)'
          BY <1>1, <1>2, <1>3, <3>1 DEF Earlier, Past
        <4>2. Of(p, s) = {}
          BY <1>7, <1>9, <4>1, OfFacts
        <4>3. QED BY <1>1, <1>7, <4>1, <4>2 DEF Due
      <3>2. CASE ~(p[1] > at[1])
        <4>1. p[1] < at[1] \/ p[1] = at[1]
          BY <1>3, <3>2
        <4>2. Due(p)' = Final(p)
          <5>1. Past(p)'
            BY <1>1, <1>3, <4>1 DEF Past
          <5>2. QED BY <1>6, <5>1 DEF Due
        <4>3. CASE AtStart(s) /\ Undone(at[1])
          <5>1. CASE p[1] < at[1]
            BY <4>2, <4>3, <5>1 DEF AtStart
          <5>2. CASE p[1] = at[1]
            <6>1. Of(p, s) = {}
              BY <1>3, <4>3, <5>2 DEF AtStart
            <6>2. QED BY <4>2, <4>3, <5>2, <6>1 DEF Final, Kept
          <5>3. QED BY <4>1, <5>1, <5>2
        <4>4. CASE s = db.saved /\ (Undone(at[1]) => atomic.mutations)
          <5>1. CASE p = at
            <6>1. ~Earlier(p, at)
              BY <5>1, EarlierFacts
            <6>2. Of(p, s) = {} /\ Final(p) = {}
              BY <1>7, <1>9, <6>1, OfFacts DEF Final
            <6>3. QED BY <4>2, <6>2
          <5>2. CASE p # at
            <6>1. Of(p, s) = Due(p)
              BY <1>2, <4>4, <5>2 DEF Contents, Stable
            <6>2. Due(p) = Final(p)
              BY <1>1, <4>1, <4>4 DEF Due, Past, Final, Kept
            <6>3. QED BY <4>2, <6>1, <6>2
          <5>3. QED BY <5>1, <5>2
        <4>5. QED BY <1>9, <4>3, <4>4
      <3>3. QED BY <3>1, <3>2
    <2>2. QED BY <2>1 DEF Stable, Of
  <1>10. /\ s \subseteq wrote /\ (~doomed' => Stable(s)')
         /\ \A b \in Elements(blocks') : b \in Elements(blocks)
    <2>1. CASE /\ atomic.requests /\ request.batch /\ Leave(~(flag \/ failed))
               /\ Last(blocks).tag = "entry" /\ blocks # <<>>
      <3>1. PICK top : top = Last(blocks)
        OBVIOUS
      <3>2. PICK kept \in BOOLEAN : kept = ~(flag \/ failed)
        OBVIOUS
      <3>3. /\ top \in Elements(blocks) /\ top.tag = "entry"
            /\ Elements(blocks) = Elements(blocks') \cup {top}
            /\ db' = (IF kept THEN db ELSE top.saved)
        BY <2>1, <3>1, <3>2, Leaving DEF Base, TypeOK, Shape
      <3>4. s \subseteq wrote
        BY <1>8, <3>3 DEF Contents, Holds
      <3>5. CASE kept
        <4>1. s = db.saved
          BY <1>8, <3>3, <3>5
        <4>2. ~Undone(at[1])
          BY <1>5, <3>2, <3>5 DEF Undone, Answered, Bad
        <4>3. QED BY <1>9, <3>3, <3>4, <4>1, <4>2
      <3>6. CASE ~kept
        <4>1. s = top.saved.saved
          BY <1>8, <3>3, <3>6
        <4>2. AtStart(s)
          BY <3>3, <4>1 DEF Contents, Holds
        <4>3. Undone(at[1])
          BY <1>5, <2>1, <3>2, <3>6 DEF Undone, Answered, Bad
        <4>4. QED BY <1>9, <3>3, <3>4, <4>2, <4>3
      <3>7. QED BY <3>5, <3>6
    <2>2. CASE /\ doomed' = (atomic.requests /\ (flag \/ failed))
               /\ UNCHANGED <<db, blocks, broken>>
      <3>1. s = db.saved /\ s \subseteq wrote
        BY <1>8, <2>2 DEF Contents
      <3>2. ~doomed' => (Undone(at[1]) => atomic.mutations)
        BY <1>5, <2>2 DEF Undone, Answered, Bad
      <3>3. QED BY <1>9, <2>2, <3>1, <3>2
    <2>3. QED BY <1>1, <2>1, <2>2
  <1>11. ASSUME NEW b \in Elements(blocks') PROVE Holds(b)'
    <2>1. b.tag = "request"
      <3>1. /\ b.tag \in Tag /\ Open(b.tag)'
        BY OpenNext
      <3>2. \A t \in Tag : Open(t)' => t = "request"
        BY <1>1 DEF Base, Shape, Tag, Operating, Writing, Stepping, Failing
      <3>3. QED BY <3>1, <3>2
    <2>2. Holds(b)
      BY <1>10 DEF Contents
    <2>3. b.saved.saved = {}
      BY <2>1, <2>2 DEF Holds
    <2>4. QED BY <2>1, <2>3 DEF Holds
  <1>12. Contents'
    BY <1>1, <1>8, <1>10, <1>11 DEF Contents, Stable, Of, Writing, Stepping, Failing
  <1>13. QED BY <1>4, <1>12

LEMMA FinishContents ==
    ASSUME Base, Base', Health, Answers, Reached, Contents, Finish
    PROVE  Reached' /\ Contents'
  <1>1. /\ phase = "finish" /\ phase' = "done"
        /\ UNCHANGED <<atomic, request, at, outcome, wrote>>
        /\ IF blocks # <<>> THEN Leave(~doomed) ELSE UNCHANGED <<db, blocks, broken, doomed>>
    BY DEF Finish, transaction
  <1>2. phase \notin Writing /\ phase' \notin Writing /\ phase # "exit" /\ phase' # "exit"
    BY <1>1 DEF Writing, Stepping, Failing
  <1>3. KeepsFinal /\ KeepsDue /\ Reached'
    BY <1>1, <1>2, Dues DEF Reached, Earlier
  <1>4. \A t \in Tag : Open(t) => t = "request"
    BY <1>1 DEF Base, Shape, Tag, Operating, Writing, Stepping, Failing
  <1>5. \A t \in Tag : ~Open(t)'
    BY <1>1 DEF Base, Shape, Tag, Operating, Writing, Stepping, Failing
  <1>6. \A b \in Elements(blocks') : FALSE
    <2>1. ASSUME NEW b \in Elements(blocks') PROVE FALSE
      <3>1. b.tag \in Tag /\ Open(b.tag)'
        BY OpenNext
      <3>2. QED BY <1>5, <3>1
    <2>2. QED BY <2>1
  <1>7. PICK s : s = db'.saved
    OBVIOUS
  <1>8. s \subseteq wrote /\ Stable(s)
    <2>1. CASE blocks # <<>>
      <3>1. PICK top : top = Last(blocks)
        OBVIOUS
      <3>2. PICK kept \in BOOLEAN : kept = ~doomed
        OBVIOUS
      <3>3. /\ top \in Elements(blocks) /\ top.tag \in Tag /\ Open(top.tag)
            /\ db' = (IF kept THEN db ELSE top.saved)
        BY <1>1, <2>1, <3>1, <3>2, Leaving DEF Base, TypeOK, Shape
      <3>4. CASE kept
        BY <1>7, <3>2, <3>3, <3>4 DEF Contents
      <3>5. CASE ~kept
        <4>1. s = {}
          BY <1>4, <1>7, <3>3, <3>5 DEF Contents, Holds
        <4>2. doomed /\ at[1] = 2 /\ Undone(1)
          BY <3>2, <3>5 DEF Health, Undone, Answered, Bad
        <4>3. ASSUME NEW p \in Parent PROVE Due(p) = {}
          <5>1. CASE p[1] = 1
            BY <4>2, <5>1 DEF Due, Past, Final, Kept
          <5>2. CASE p[1] # 1
            <6>1. ~(p[1] < at[1]) /\ ~Earlier(p, at)
              <7>1. at[2] = 1
                BY <1>1 DEF Base, Position, Operating, Writing, Stepping, Failing
              <7>2. QED BY <4>2, <5>2, <7>1, EarlierFacts DEF Earlier
            <6>2. outcome[p] = "waiting"
              BY <1>2, <6>1 DEF Answers
            <6>3. QED BY <1>2, <6>1, <6>2 DEF Due, Past
          <5>3. QED BY <5>1, <5>2
        <4>4. QED BY <4>1, <4>3 DEF Stable, Of
      <3>6. QED BY <3>4, <3>5
    <2>2. CASE blocks = <<>>
      <3>1. UNCHANGED <<db, doomed>>
        BY <1>1, <2>2
      <3>2. ~doomed
        <4>1. ~Open("request")
          BY <2>2, NoBlocks DEF Base, TypeOK, Tag
        <4>2. QED BY <1>1, <4>1 DEF Health, Base, Shape
      <3>3. QED BY <1>7, <3>1, <3>2 DEF Contents
    <2>3. QED BY <2>1, <2>2
  <1>9. Stable(s)'
    BY <1>3, <1>8, StableKept
  <1>10. Contents'
    BY <1>1, <1>6, <1>7, <1>8, <1>9 DEF Contents, Stable, Of, Writing, Stepping, Failing
  <1>11. QED BY <1>3, <1>10

LEMMA ContentsStep ==
    ASSUME Base, Health, Answers, Reached, Contents, [Next]_vars
    PROVE  Reached' /\ Contents'
  <1>1. Base'
    BY BaseStep
  <1>2. CASE UNCHANGED vars
    <2>1. UNCHANGED <<atomic, request, at, phase, left, db, blocks, doomed, outcome, wrote>>
      BY <1>2 DEF vars
    <2>2. \A b \in Elements(blocks) : Holds(b)'
      <3>1. KeepsFinal /\ KeepsDue /\ (Nests' <=> Nests)
        BY <2>1, Dues, SameRoot
      <3>2. QED BY <2>1, <3>1, BlockKept DEF Contents
    <2>3. PICK s : s = db.saved
      OBVIOUS
    <2>4. ~doomed => Stable(s)'
      <3>1. KeepsDue
        BY <2>1, Dues
      <3>2. QED BY <2>3, <3>1, StableKept DEF Contents
    <2>5. (Nests' <=> Nests) /\ (Open("save")' <=> Open("save"))
      BY <2>1, SameRoot, SameBlocks DEF Tag
    <2>6. Reached'
      BY <2>1 DEF Reached, Earlier
    <2>7. Contents'
      BY <2>1, <2>2, <2>3, <2>4, <2>5 DEF Contents, Stable, Of
    <2>8. QED BY <2>6, <2>7
  <1>3. CASE BeginRoot
    <2>1. AnswersAtOnce \/ StartsWriting
      BY <1>3, BeginRootSteps
    <2>2. QED BY <1>1, <1>3, <2>1, AnswersAtOnceContents, StartsWritingContents
  <1>4. CASE Next /\ ~BeginRoot
    BY <1>1, <1>4, EnterEntryContents, BeginOperationContents, EndOperationContents,
       ExitEntryContents, FinishContents, WritesContents, LeaveSaveContents, UnwindContents,
       DiagnoseContents, EndWritesContents, RereadContents DEF Next, Writes
  <1>5. QED BY <1>2, <1>3, <1>4

LEMMA ContentsHolds == Spec => [](Reached /\ Contents)
  <1>1. ASSUME Init PROVE Reached /\ Contents
    <2>1. wrote = {} /\ db.saved = {} /\ phase = "entry" /\ at[1] = 1
          /\ \A p \in Parent : outcome[p] = "waiting"
      BY <1>1 DEF Init
    <2>2. \A p \in Parent : Due(p) = {} /\ Of(p, db.saved) = {}
      BY <2>1 DEF Due, Final, Kept, Of
    <2>3. \A b \in Elements(blocks) : b.saved.saved = {} /\ b.tag = "request"
      BY <1>1, <2>1, InitBlocks
    <2>4. \A b \in Elements(blocks) : Holds(b)
      BY <2>3 DEF Holds
    <2>5. QED BY <2>1, <2>2, <2>4 DEF Reached, Contents, Stable, Writing, Stepping, Failing
  <1>2. Base /\ (Health /\ Answers) /\ (Reached /\ Contents) /\ [Next]_vars
            => (Reached /\ Contents)'
    BY ContentsStep
  <1>3. QED BY <1>1, <1>2, BaseHolds, HealthHolds, PTL DEF Spec

LEMMA WholeOrNothing ==
    ASSUME Base, Health, Answers, Reached, Contents
    PROVE  AllOrNothing
  <1>1. ASSUME NEW p \in Parent, NEW s, s = Durable.saved, Of(p, s) # {}
        PROVE  /\ Of(p, s) = Of(p, wrote)
               /\ outcome[p] \in {"ok", "late"} \/ (p = at /\ left = 0)
    <2>1. ASSUME Of(p, s) = Due(p)
          PROVE  Of(p, s) = Of(p, wrote) /\ outcome[p] \in {"ok", "late"}
      BY <1>1, <2>1 DEF Due, Final, Kept
    <2>2. CASE blocks = <<>>
      <3>1. s = db.saved
        BY <1>1, <2>2 DEF Durable
      <3>2. \A t \in Tag : ~Open(t)
        BY <2>2, NoBlocks DEF Base, TypeOK
      <3>3. ~doomed
        BY <3>2 DEF Health, Base, Shape, Tag
      <3>4. CASE p # at
        BY <2>1, <3>1, <3>3, <3>4 DEF Contents, Stable
      <3>5. CASE p = at
        <4>1. CASE phase \notin Writing
          <5>1. Of(at, wrote) = {}
            BY <4>1, EarlierFacts, NotReached
          <5>2. QED BY <1>1, <3>1, <3>5, <5>1, OfFacts DEF Contents
        <4>2. CASE phase \in Failing
          <5>1. ~Nests /\ ~Open("save")
            BY <3>2, <4>2 DEF Base, Shape, Tag
          <5>2. QED BY <1>1, <3>1, <3>5, <4>2, <5>1 DEF Contents
        <4>3. CASE phase \in Writing \ Failing
          <5>1. Of(at, s) = Of(at, wrote)
            BY <3>1, <4>3 DEF Contents
          <5>2. phase \in {"item", "reread"}
            BY <3>2, <4>3 DEF Base, Shape, Tag, Writing, Stepping
          <5>3. phase = "reread" => left = 0
            BY DEF Base, Position
          <5>4. phase = "item" /\ left > 0 => FALSE
            <6>1. phase = "item" => ~Nests
              BY <3>2 DEF Base, Shape, Tag, Stepping
            <6>2. QED BY <1>1, <3>5, <5>1, <6>1 DEF Contents
          <5>5. left \in Nat
            BY DEF Base, TypeOK
          <5>6. QED BY <3>5, <5>1, <5>2, <5>3, <5>4, <5>5
        <4>4. QED BY <4>1, <4>2, <4>3
      <3>6. QED BY <3>4, <3>5
    <2>3. CASE blocks # <<>>
      <3>1. PICK b : b = blocks[1]
        OBVIOUS
      <3>2. b \in Elements(blocks) /\ b.tag \in Tag /\ s = b.saved.saved
        BY <1>1, <2>3, <3>1, NoBlocks DEF Base, TypeOK, Durable
      <3>3. Holds(b)
        BY <3>2 DEF Contents
      <3>4. CASE b.tag = "request"
        BY <1>1, <3>2, <3>3, <3>4 DEF Holds, Of
      <3>5. CASE b.tag \in {"entry", "mutation"}
        BY <1>1, <3>2, <3>3, <3>5 DEF Holds, AtStart, Final, Kept
      <3>6. CASE b.tag \in {"nested", "save"}
        <4>1. b.tag = "save" => ~Nests
          <5>1. ASSUME b.tag = "save" PROVE ~Open("nested")
            <6>1. ASSUME NEW j \in DOMAIN blocks, blocks[j].tag = "nested" PROVE FALSE
              <7>1. /\ DOMAIN blocks = 1..Len(blocks) /\ Len(blocks) \in Nat
                    /\ 1 \in DOMAIN blocks
                BY <2>3, EmptySeq, LenProperties DEF Base, TypeOK
              <7>2. 1 < j
                BY <3>1, <5>1, <6>1, <7>1
              <7>3. Depth(blocks[1].tag) < Depth(blocks[j].tag)
                BY <7>1, <7>2 DEF Base, Shape, Ordered
              <7>4. QED BY <3>1, <5>1, <6>1, <7>3, Depths
            <6>2. QED BY <6>1 DEF Open, Elements
          <5>2. ASSUME b.tag = "save" PROVE phase \in Stepping \cup Failing
            <6>1. Open("save")
              BY <3>2, <5>2 DEF Open
            <6>2. QED BY <6>1 DEF Base, Shape, Stepping, Failing
          <5>3. QED BY <5>1, <5>2 DEF Base, Shape
        <4>2. Of(at, s) = {}
          BY <3>2, <3>3, <3>6, <4>1 DEF Holds
        <4>3. p # at
          BY <1>1, <4>2
        <4>4. Of(p, s) = Due(p)
          BY <3>2, <3>3, <3>6, <4>3 DEF Holds, Stable
        <4>5. QED BY <2>1, <4>4
      <3>7. QED BY <3>2, <3>4, <3>5, <3>6 DEF Tag
    <2>4. QED BY <2>2, <2>3
  <1>2. QED BY <1>1 DEF AllOrNothing

(* At no time, so also if the process dies, does the database hold a part   *)
(* of what a root field writes.                                             *)
THEOREM Atomicity == Spec => []AllOrNothing
  <1>1. Base /\ (Health /\ Answers) /\ (Reached /\ Contents) => AllOrNothing
    BY WholeOrNothing
  <1>2. QED BY <1>1, BaseHolds, HealthHolds, ContentsHolds, PTL

LEMMA WhatIsKept ==
    ASSUME Base, Health, Answers, Reached, Contents
    PROVE  KeptAsAnswered
  <1>1. ASSUME phase = "done", NEW p \in Parent
        PROVE  Of(p, db.saved) = Final(p)
    <2>1. ~doomed /\ phase \notin Writing /\ at[2] = 1
      BY <1>1 DEF Health, Base, Position, Operating, Writing, Stepping, Failing
    <2>2. CASE p[1] < at[1]
      <3>1. p # at
        BY <2>2, EarlierFacts
      <3>2. Of(p, db.saved) = Due(p)
        BY <2>1, <3>1 DEF Contents, Stable
      <3>3. QED BY <2>2, <3>2 DEF Due, Past
    <2>3. CASE ~(p[1] < at[1])
      <3>1. ~Earlier(p, at)
        BY <2>1, <2>3, EarlierFacts DEF Earlier
      <3>2. Of(p, wrote) = {} /\ outcome[p] = "waiting"
        BY <1>1, <2>1, <3>1, NotReached DEF Answers
      <3>3. QED BY <3>2, OfFacts DEF Final, Contents
    <2>4. QED BY <2>2, <2>3
  <1>2. QED BY <1>1 DEF KeptAsAnswered, Final

(* When the request has been answered, the writes of a root field are kept  *)
(* exactly if it wrote and no error of its own operation undid them.        *)
THEOREM Keeping == Spec => []KeptAsAnswered
  <1>1. Base /\ (Health /\ Answers) /\ (Reached /\ Contents) => KeptAsAnswered
    BY WhatIsKept
  <1>2. QED BY <1>1, BaseHolds, HealthHolds, ContentsHolds, PTL

-----------------------------------------------------------------------------
(* Without the mark nothing can become durable: the blocks around the       *)
(* operations hold nothing, and a root field runs only in a block of its    *)
(* mutation.                                                                *)
Mark == ~marked =>
    /\ \A b \in Elements(blocks) : b.tag \in {"request", "entry", "mutation"} =>
          b.saved.saved = {}
    /\ ~Open("mutation") => db.saved = {} /\ phase \notin Operating

(* The steps of root fields enter only blocks of their own. *)
LEMMA RootSteps ==
    ASSUME Base, BeginRoot \/ Writes \/ LeaveSave \/ Unwind \/ Diagnose \/ EndWrites \/ Reread
    PROVE  /\ phase \in Operating /\ phase' \in Operating /\ UNCHANGED <<atomic, request, marked>>
           /\ \A b \in Elements(blocks') :
                 b \in Elements(blocks) \/ (b.tag \in {"nested", "save"} /\ b.saved = db)
  <1> USE DEF Operating, Writing, Stepping, Failing
  <1>1. ASSUME NEW tag \in {"nested", "save"}, blocks' = Opened(tag),
               \A t \in Tag : Open(t) => Depth(t) < Depth(tag)
        PROVE  \A b \in Elements(blocks') :
                  b \in Elements(blocks) \/ (b.tag \in {"nested", "save"} /\ b.saved = db)
    <2>1. tag \in Tag
      BY DEF Tag
    <2>2. Elements(blocks') = Elements(blocks) \cup {[tag |-> tag, saved |-> db]}
      BY <1>1, <2>1, Entering DEF Base, TypeOK, Shape
    <2>3. QED BY <2>2
  <1>2. ASSUME NEW kept \in BOOLEAN, Leave(kept), blocks # <<>>
        PROVE  \A b \in Elements(blocks') : b \in Elements(blocks)
    <2>1. PICK top : top = Last(blocks)
      OBVIOUS
    <2>2. Elements(blocks) = Elements(blocks') \cup {top}
      BY <1>2, <2>1, Leaving DEF Base, TypeOK, Shape
    <2>3. QED BY <2>2
  <1>3. CASE BeginRoot
    <2>1. /\ phase = "root" /\ UNCHANGED <<atomic, request, marked>>
          /\ AnswersAtOnce \/ StartsWriting
      BY <1>3, BeginRootSteps
    <2>2. CASE AnswersAtOnce
      BY <2>1, <2>2 DEF AnswersAtOnce, Ends
    <2>3. CASE StartsWriting
      <3>1. phase' = "item" /\ blocks' = (IF Nests THEN Opened("nested") ELSE blocks)
        BY <2>3 DEF StartsWriting
      <3>2. \A t \in Tag : Open(t) => Depth(t) < Depth("nested")
        <4>1. \A t \in {"nested", "save"} : ~Open(t)
          BY <2>1 DEF Base, Shape
        <4>2. QED BY <4>1, Depths DEF Tag
      <3>3. QED BY <1>1, <2>1, <3>1, <3>2
    <2>4. QED BY <2>1, <2>2, <2>3
  <1>4. CASE Writes
    <2>1. /\ phase \in {"item", "second"} /\ UNCHANGED <<atomic, request, marked>>
          /\ Succeeds \/ Fails \/ Links
      BY <1>4, WriteSteps
    <2>2. /\ phase' \in Operating
          /\ blocks' = blocks \/ (phase = "item" /\ blocks' = Opened("save"))
      BY <2>1 DEF Succeeds, Fails, Links, Enters, Plainly
    <2>3. phase = "item" => \A t \in Tag : Open(t) => Depth(t) < Depth("save")
      <3>1. phase = "item" => ~Open("save")
        BY DEF Base, Shape
      <3>2. QED BY <3>1, Depths DEF Tag
    <2>4. QED BY <1>1, <2>1, <2>2, <2>3
  <1>5. CASE LeaveSave
    <2>1. /\ phase = "leave" /\ phase' \in Operating /\ UNCHANGED <<atomic, request, marked>>
          /\ Leave(TRUE) \/ UNCHANGED blocks
      BY <1>5 DEF LeaveSave, transaction, Raise
    <2>2. Open("save")
      BY <2>1 DEF Base, Shape
    <2>3. blocks # <<>>
      BY <2>2, NoBlocks DEF Base, TypeOK, Tag
    <2>4. QED BY <1>2, <2>1, <2>3
  <1>6. CASE Unwind
    <2>1. /\ phase = "unwind" /\ UNCHANGED <<atomic, request, marked>>
          /\ LeavesSave \/ StartsDiagnosis \/ GivesUp
      BY <1>6, UnwindSteps
    <2>2. /\ phase' \in Operating
          /\ (Leave(FALSE) /\ blocks # <<>>) \/ UNCHANGED blocks
      BY <2>1 DEF LeavesSave, StartsDiagnosis, GivesUp, Ends
    <2>3. QED BY <1>2, <2>1, <2>2
  <1>7. CASE Diagnose
    BY <1>7 DEF Diagnose, transaction
  <1>8. CASE EndWrites
    <2>1. /\ phase = "item" /\ phase' = "reread" /\ UNCHANGED <<atomic, request, marked>>
          /\ (Leave(TRUE) /\ blocks # <<>>) \/ UNCHANGED blocks
      BY <1>8, EndWritesSteps
    <2>2. QED BY <1>2, <2>1
  <1>9. CASE Reread
    <2>1. phase = "reread" /\ UNCHANGED <<atomic, request, marked, blocks>> /\ \E how : Ends(how)
      BY <1>9, RereadSteps
    <2>2. QED BY <2>1 DEF Ends
  <1>10. QED BY <1>3, <1>4, <1>5, <1>6, <1>7, <1>8, <1>9

LEMMA MarkStep == ASSUME Base, Mark, [Next]_vars PROVE Mark'
  <1> USE DEF Operating, Writing, Stepping, Failing
  <1>0. Base'
    BY BaseStep
  <1>1. CASE UNCHANGED vars
    BY <1>1, SameBlocks DEF vars, Mark, Tag
  <1>2. CASE BeginRoot \/ Writes \/ LeaveSave \/ Unwind \/ Diagnose \/ EndWrites \/ Reread
    <2>1. /\ phase \in Operating /\ phase' \in Operating /\ UNCHANGED <<atomic, marked>>
          /\ \A b \in Elements(blocks') : b \in Elements(blocks) \/ b.tag \in {"nested", "save"}
      BY <1>2, RootSteps
    <2>2. (Open("mutation") <=> atomic.mutations) /\ (Open("mutation")' <=> atomic.mutations)
      BY <1>0, <2>1 DEF Base, Shape
    <2>3. QED BY <2>1, <2>2 DEF Mark
  <1>3. CASE EnterEntry
    <2>1. /\ phase = "entry" /\ phase' \in {"operation", "exit", "finish"}
          /\ blocks' = Opened("entry") \/ blocks' = blocks
          /\ UNCHANGED <<db, marked>>
      BY <1>3 DEF EnterEntry, ItemSavepoints
    <2>2. \A t \in {"entry", "mutation", "nested", "save"} : ~Open(t) /\ t \in Tag
      BY <2>1 DEF Base, Shape, Tag
    <2>3. ~marked => db.saved = {}
      BY <2>2 DEF Mark
    <2>4. CASE blocks' = Opened("entry")
      <3>1. PICK b : b = [tag |-> "entry", saved |-> db]
        OBVIOUS
      <3>2. \A t \in Tag : Open(t) => Depth(t) < Depth("entry")
        BY <2>2, Depths DEF Tag
      <3>3. Elements(blocks') = Elements(blocks) \cup {b}
        BY <2>2, <2>4, <3>1, <3>2, Entering DEF Base, TypeOK, Shape
      <3>4. QED BY <2>1, <2>3, <3>1, <3>3 DEF Mark
    <2>5. CASE blocks' = blocks
      BY <2>1, <2>3, <2>5 DEF Mark
    <2>6. QED BY <2>1, <2>4, <2>5
  <1>4. CASE BeginOperation
    <2>1. /\ phase = "operation" /\ phase' = "root" /\ UNCHANGED db
          /\ marked' = (marked \/ ~atomic.mutations)
          /\ blocks' = (IF atomic.mutations THEN Opened("mutation") ELSE blocks)
          /\ UNCHANGED atomic
      BY <1>4 DEF BeginOperation, MarkedBefore
    <2>2. \A t \in {"mutation", "nested", "save"} : ~Open(t) /\ t \in Tag
      BY <2>1 DEF Base, Shape, Tag
    <2>3. ~marked => db.saved = {}
      BY <2>2 DEF Mark
    <2>4. CASE atomic.mutations
      <3>1. PICK b : b = [tag |-> "mutation", saved |-> db]
        OBVIOUS
      <3>2. \A t \in Tag : Open(t) => Depth(t) < Depth("mutation")
        BY <2>2, Depths DEF Tag
      <3>3. Elements(blocks') = Elements(blocks) \cup {b}
        BY <2>1, <2>2, <2>4, <3>1, <3>2, Entering DEF Base, TypeOK, Shape
      <3>4. Open("mutation")'
        BY <1>0, <2>1, <2>4 DEF Base, Shape
      <3>5. marked' <=> marked
        BY <2>1, <2>4
      <3>6. QED BY <2>3, <3>1, <3>3, <3>4, <3>5 DEF Mark
    <2>5. CASE ~atomic.mutations
      BY <2>1, <2>5 DEF Mark
    <2>6. QED BY <2>4, <2>5
  <1>5. CASE EndOperation
    <2>1. /\ phase = "root" /\ phase' = "exit" /\ UNCHANGED atomic
          /\ IF atomic.mutations THEN Leave(~RollsBack) /\ marked' = (marked \/ ~RollsBack)
             ELSE UNCHANGED marked
      BY <1>5 DEF EndOperation
    <2>2. SUFFICES ASSUME ~marked' PROVE Mark'
      BY DEF Mark
    <2>3. ~marked
      BY <2>1, <2>2
    <2>4. Open("mutation") /\ atomic.mutations /\ RollsBack
      BY <2>1, <2>2, <2>3 DEF Mark, Base, Shape
    <2>5. PICK top : top = Last(blocks)
      OBVIOUS
    <2>6. PICK kept \in BOOLEAN : kept = ~RollsBack
      OBVIOUS
    <2>7. /\ blocks # <<>> /\ ~Open("nested") /\ ~Open("save") /\ "mutation" \in Tag
      BY <2>1, <2>4, NoBlocks DEF Base, TypeOK, Shape, Tag
    <2>8. /\ top \in Elements(blocks) /\ top.tag \in Tag /\ Open(top.tag)
          /\ \A t \in Tag : Open(t) => Depth(t) <= Depth(top.tag)
          /\ Elements(blocks) = Elements(blocks') \cup {top}
          /\ db' = (IF kept THEN db ELSE top.saved)
      BY <2>1, <2>4, <2>5, <2>6, <2>7, Leaving DEF Base, TypeOK, Shape
    <2>9. top.tag = "mutation"
      BY <2>4, <2>7, <2>8, TopTag DEF Base
    <2>10. db'.saved = {}
      BY <2>3, <2>4, <2>6, <2>8, <2>9 DEF Mark
    <2>11. QED BY <2>1, <2>3, <2>8, <2>10 DEF Mark
  <1>6. CASE ExitEntry \/ Finish
    <2>1. /\ phase \in {"exit", "finish"} /\ phase' \in {"entry", "done"} /\ UNCHANGED marked
          /\ \/ \E kept \in BOOLEAN : Leave(kept) /\ blocks # <<>>
             \/ UNCHANGED <<db, blocks>>
      <3>1. CASE ExitEntry
        <4>1. PICK kept \in BOOLEAN : kept = ~(flag \/ failed)
          OBVIOUS
        <4>2. QED BY <3>1, <4>1, ExitEntryFacts
      <3>2. CASE Finish
        <4>1. PICK kept \in BOOLEAN : kept = ~doomed
          OBVIOUS
        <4>2. QED BY <3>2, <4>1 DEF Finish, transaction
      <3>3. QED BY <1>6, <3>1, <3>2
    <2>2. \A t \in {"mutation", "nested", "save"} : ~Open(t)
      BY <2>1 DEF Base, Shape
    <2>3. ~marked => db.saved = {}
      BY <2>2 DEF Mark
    <2>4. CASE UNCHANGED <<db, blocks>>
      BY <2>1, <2>3, <2>4 DEF Mark
    <2>5. ASSUME NEW kept \in BOOLEAN, Leave(kept), blocks # <<>> PROVE Mark'
      <3>1. PICK top : top = Last(blocks)
        OBVIOUS
      <3>2. /\ top \in Elements(blocks) /\ top.tag \in Tag /\ Open(top.tag)
            /\ Elements(blocks) = Elements(blocks') \cup {top}
            /\ db' = (IF kept THEN db ELSE top.saved)
        BY <2>5, <3>1, Leaving DEF Base, TypeOK, Shape
      <3>3. top.tag \in {"request", "entry"}
        BY <2>2, <3>2 DEF Tag
      <3>4. ~marked => db'.saved = {}
        BY <2>3, <3>2, <3>3 DEF Mark
      <3>5. QED BY <2>1, <3>2, <3>4 DEF Mark
    <2>6. QED BY <2>1, <2>4, <2>5
  <1>7. QED BY <1>1, <1>2, <1>3, <1>4, <1>5, <1>6 DEF Next, Writes

(* Whatever reached the database marks the request, so that the response    *)
(* cache is invalidated.                                                    *)
THEOREM Marking == Spec => []DurableIsMarked
  <1>1. Init => Mark
    <2>1. SUFFICES ASSUME Init PROVE Mark
      OBVIOUS
    <2>2. db.saved = {} /\ phase = "entry"
      BY <2>1 DEF Init
    <2>3. \A b \in Elements(blocks) : b.saved = db
      BY <2>1, InitBlocks
    <2>4. QED BY <2>2, <2>3 DEF Mark, Operating, Writing, Stepping, Failing
  <1>2. Base /\ Mark /\ [Next]_vars => Mark'
    BY MarkStep
  <1>3. Base /\ Mark => DurableIsMarked
    BY DEF Base, Shape, Mark, DurableIsMarked, Operating, Writing, Stepping, Failing
  <1>4. QED BY <1>1, <1>2, <1>3, BaseHolds, PTL DEF Spec

-----------------------------------------------------------------------------
(* What a nested write may read and rewrite.  A view is what the connection  *)
(* sees, or would see once a block is undone.                               *)
Views == {db} \cup {b.saved : b \in Elements(blocks)}

(* A step shows what was in view before, or a statement succeeds.           *)
LEMMA NewViews ==
    ASSUME Base, [Next]_vars
    PROVE  /\ db' \in Views \/ (Writes /\ Succeeds)
           /\ \A v \in Views' : v \in Views \/ v = db'
  <1> DEFINE Old == \A b \in Elements(blocks') : b.saved \in Views
  <1>0. SUFFICES Old /\ (db' \in Views \/ (Writes /\ Succeeds))
    <2>1. Views' = {db'} \cup {b.saved : b \in Elements(blocks')}
      BY DEF Views, Elements
    <2>2. QED BY <2>1
  <1>1. /\ db \in Views
        /\ \A b \in Elements(blocks) : b.saved \in Views
    BY DEF Views
  <1>2. ASSUME UNCHANGED blocks PROVE Old
    BY <1>1, <1>2
  <1>3. ASSUME NEW tag \in Tag, blocks' = Opened(tag),
               \A t \in Tag : Open(t) => Depth(t) < Depth(tag)
        PROVE  Old
    <2>1. Elements(blocks') = Elements(blocks) \cup {[tag |-> tag, saved |-> db]}
      BY <1>3, Entering DEF Base, TypeOK, Shape
    <2>2. QED BY <1>1, <2>1
  <1>4. ASSUME NEW kept \in BOOLEAN, Leave(kept), blocks # <<>>
        PROVE  Old /\ db' \in Views
    <2>1. PICK top : top = Last(blocks)
      OBVIOUS
    <2>2. /\ top \in Elements(blocks)
          /\ Elements(blocks) = Elements(blocks') \cup {top}
          /\ db' = (IF kept THEN db ELSE top.saved)
      BY <1>4, <2>1, Leaving DEF Base, TypeOK, Shape
    <2>3. QED BY <1>1, <2>2
  <1>5. CASE UNCHANGED vars
    BY <1>1, <1>2, <1>5 DEF vars
  <1>6. CASE EnterEntry
    <2>1. /\ phase = "entry" /\ UNCHANGED db
          /\ blocks' = Opened("entry") \/ blocks' = blocks
      BY <1>6 DEF EnterEntry, ItemSavepoints
    <2>2. \A t \in {"entry", "mutation", "nested", "save"} : ~Open(t) /\ t \in Tag
      BY <2>1 DEF Base, Shape, Tag, Operating, Writing, Stepping, Failing
    <2>3. \A t \in Tag : Open(t) => Depth(t) < Depth("entry")
      BY <2>2, Depths DEF Tag
    <2>4. QED BY <1>1, <1>2, <1>3, <2>1, <2>2, <2>3
  <1>7. CASE BeginOperation
    <2>1. /\ phase = "operation" /\ UNCHANGED db
          /\ blocks' = Opened("mutation") \/ blocks' = blocks
      BY <1>7 DEF BeginOperation
    <2>2. \A t \in {"mutation", "nested", "save"} : ~Open(t) /\ t \in Tag
      BY <2>1 DEF Base, Shape, Tag, Operating, Writing, Stepping, Failing
    <2>3. \A t \in Tag : Open(t) => Depth(t) < Depth("mutation")
      BY <2>2, Depths DEF Tag
    <2>4. QED BY <1>1, <1>2, <1>3, <2>1, <2>2, <2>3
  <1>8. CASE EndOperation
    <2>1. /\ phase = "root"
          /\ IF atomic.mutations THEN Leave(~RollsBack) ELSE UNCHANGED <<db, blocks>>
      BY <1>8 DEF EndOperation, transaction
    <2>2. PICK kept \in BOOLEAN : kept = ~RollsBack
      OBVIOUS
    <2>3. atomic.mutations => blocks # <<>>
      BY <2>1, NoBlocks DEF Base, TypeOK, Shape, Tag, Operating
    <2>4. QED BY <1>1, <1>2, <1>4, <2>1, <2>2, <2>3
  <1>9. CASE ExitEntry
    <2>1. PICK kept \in BOOLEAN : kept = ~(flag \/ failed)
      OBVIOUS
    <2>2. (Leave(kept) /\ blocks # <<>>) \/ UNCHANGED <<db, blocks>>
      BY <1>9, <2>1, ExitEntryFacts
    <2>3. QED BY <1>1, <1>2, <1>4, <2>2
  <1>10. CASE Finish
    <2>1. PICK kept \in BOOLEAN : kept = ~doomed
      OBVIOUS
    <2>2. (Leave(kept) /\ blocks # <<>>) \/ UNCHANGED <<db, blocks>>
      BY <1>10, <2>1 DEF Finish, transaction
    <2>3. QED BY <1>1, <1>2, <1>4, <2>2
  <1>11. CASE BeginRoot \/ Writes \/ LeaveSave \/ Unwind \/ Diagnose \/ EndWrites \/ Reread
    <2>1. Old
      <3>1. \A b \in Elements(blocks') : b \in Elements(blocks) \/ b.saved = db
        BY <1>11, RootSteps
      <3>2. QED BY <1>1, <3>1
    <2>2. db' \in Views \/ (Writes /\ Succeeds)
      <3>1. CASE BeginRoot \/ Diagnose
        BY <1>1, <3>1 DEF BeginRoot, Diagnose, transaction
      <3>2. CASE Writes
        BY <1>1, <3>2, WriteSteps DEF Fails, Links
      <3>3. CASE LeaveSave
        <4>1. db' = db
          BY <3>3 DEF LeaveSave, Leave, transaction
        <4>2. QED BY <1>1, <4>1
      <3>4. CASE Unwind
        <4>1. (Leave(FALSE) /\ blocks # <<>>) \/ UNCHANGED db
          BY <3>4, UnwindSteps DEF LeavesSave, StartsDiagnosis, GivesUp
        <4>2. QED BY <1>1, <1>4, <4>1
      <3>5. CASE EndWrites
        <4>1. (Leave(TRUE) /\ blocks # <<>>) \/ UNCHANGED db
          BY <3>5, EndWritesSteps
        <4>2. QED BY <1>1, <1>4, <4>1
      <3>6. CASE Reread
        BY <1>1, <3>6, RereadSteps
      <3>7. QED BY <1>11, <3>1, <3>2, <3>3, <3>4, <3>5, <3>6
    <2>3. QED BY <2>1, <2>2
  <1>12. QED BY <1>5, <1>6, <1>7, <1>8, <1>9, <1>10, <1>11 DEF Next, Writes

(* A root field is left for the next one, and until then sees the tables it *)
(* found.                                                                   *)
LEMMA MovesOn ==
    ASSUME Base, [Next]_vars
    PROVE  /\ \/ /\ at' = at /\ (phase \in Writing => phase' \in Writing)
              \/ at'[1] > at[1]
              \/ at'[1] = at[1] /\ at'[2] > at[2]
           /\ \/ before' = before
              \/ phase = "root" /\ before' = db.tables
           /\ UNCHANGED <<atomic, request>>
  <1> USE DEF Writing, Stepping, Failing
  <1>0. at[1] \in Nat /\ at[2] \in Nat
    BY RequestFacts DEF Base
  <1>1. ASSUME NEW how, Ends(how) PROVE at'[1] = at[1] /\ at'[2] > at[2]
    <2>1. at' = <<at[1], at[2] + 1>>
      BY <1>1 DEF Ends
    <2>2. QED BY <1>0, <2>1
  <1>2. CASE UNCHANGED vars
    BY <1>2 DEF vars
  <1>3. CASE EnterEntry \/ BeginOperation \/ EndOperation \/ Finish
    BY <1>3 DEF EnterEntry, BeginOperation, EndOperation, Finish
  <1>4. CASE ExitEntry
    BY <1>0, <1>4, ExitEntryFacts
  <1>5. CASE BeginRoot
    <2>1. /\ phase = "root" /\ before' = db.tables /\ UNCHANGED <<atomic, request>>
          /\ AnswersAtOnce \/ StartsWriting
      BY <1>5, BeginRootSteps
    <2>2. QED BY <1>1, <2>1 DEF AnswersAtOnce, StartsWriting
  <1>6. CASE Writes
    BY <1>6, WriteSteps DEF Succeeds, Fails, Links
  <1>7. CASE LeaveSave \/ Diagnose \/ EndWrites
    BY <1>7 DEF LeaveSave, Raise, Diagnose, EndWrites
  <1>8. CASE Unwind
    <2>1. /\ UNCHANGED <<atomic, request, before>>
          /\ LeavesSave \/ StartsDiagnosis \/ GivesUp
      BY <1>8, UnwindSteps
    <2>2. QED BY <1>1, <2>1 DEF LeavesSave, StartsDiagnosis, GivesUp
  <1>9. CASE Reread
    <2>1. UNCHANGED <<atomic, request, before>> /\ \E how : Ends(how)
      BY <1>9, RereadSteps
    <2>2. QED BY <1>1, <2>1
  <1>10. QED BY <1>2, <1>3, <1>4, <1>5, <1>6, <1>7, <1>8, <1>9 DEF Next, Writes

(* The scopes of the hosts and of the output type stay what they are.       *)
Scoped ==
    /\ \A v \in Views : Scopes(v.tables) = Scopes(before)
    /\ ~before.hosts => before.hostHides = {}
    /\ ~before.scopedType => before.outputHides = {}

LEMMA SameScopes ==
    ASSUME NEW t, NEW u, Scopes(t) = Scopes(u)
    PROVE  /\ t.hosts = u.hosts /\ t.hostHides = u.hostHides
           /\ t.scopedType = u.scopedType /\ t.outputHides = u.outputHides
  BY DEF Scopes

LEMMA ScopedStep == ASSUME Base, Scoped, [Next]_vars PROVE Scoped'
  <1>1. Scopes(db.tables) = Scopes(before)
    BY DEF Scoped, Views
  <1>2. PICK b : b = before'
    OBVIOUS
  <1>3. b = before \/ b = db.tables
    BY <1>2, MovesOn
  <1>4. Scopes(b) = Scopes(before)
    BY <1>1, <1>3
  <1>5. PICK d : d = db'
    OBVIOUS
  <1>6. Scopes(d.tables) = Scopes(before)
    <2>1. d \in Views => Scopes(d.tables) = Scopes(before)
      BY DEF Scoped
    <2>2. Succeeds => Scopes(d.tables) = Scopes(db.tables)
      BY <1>5 DEF Succeeds
    <2>3. d \in Views \/ Succeeds
      BY <1>5, NewViews
    <2>4. QED BY <1>1, <2>1, <2>2, <2>3
  <1>7. \A v \in Views' : Scopes(v.tables) = Scopes(before)
    BY <1>5, <1>6, NewViews DEF Scoped
  <1>8. (~b.hosts => b.hostHides = {}) /\ (~b.scopedType => b.outputHides = {})
    BY <1>4, SameScopes DEF Scoped
  <1>9. QED BY <1>2, <1>4, <1>7, <1>8 DEF Scoped, Scopes

LEMMA ScopedHolds == Spec => []Scoped
  <1>1. ASSUME Init PROVE Scoped
    <2>1. \A b \in Elements(blocks) : b.saved = db
      BY <1>1, InitBlocks
    <2>2. \A v \in Views : v = db
      BY <2>1 DEF Views
    <2>3. /\ before = db.tables
          /\ ~db.tables.hosts => db.tables.hostHides = {}
          /\ ~db.tables.scopedType => db.tables.outputHides = {}
      BY <1>1 DEF Init
    <2>4. QED BY <2>2, <2>3 DEF Scoped
  <1>2. Init => Scoped
    BY <1>1
  <1>3. Base /\ Scoped /\ [Next]_vars => Scoped'
    BY ScopedStep
  <1>4. QED BY <1>2, <1>3, BaseHolds, PTL DEF Spec

LEMMA RemovedFacts ==
    ASSUME NEW t \in Tables, NEW c \in Child, NEW u, u = Removed(t, c)
    PROVE  /\ u.owner[c] = Absent /\ u.links = t.links /\ u.key = t.key
           /\ u.hosts = t.hosts /\ u.hostHides = t.hostHides
           /\ u.scopedType = t.scopedType /\ u.outputHides = t.outputHides
  BY DEF Removed, Tables

(* The rules alone: every row that scopes hide looks missing, if scopes are  *)
(* all that hides a row, but for the one that is told apart.                *)
LEMMA RulesHide ==
    ASSUME NEW t \in Tables, NEW p \in Parent, NEW item \in Item,
           ~t.hosts => t.hostHides = {}, ~t.scopedType => t.outputHides = {},
           item.kind \in {"parent", "add", "delete"} => item.pk = None
    PROVE  LooksMissing(t, p, item)
  <1>1. SUFFICES ASSUME Secret(t, p, item)
                 PROVE  Verdict(t, p, item) = Verdict(Removed(t, item.pk), p, item)
                            <=> ~ToldApart(t, item)
    BY DEF LooksMissing
  <1>2. PICK c : c = item.pk
    OBVIOUS
  <1>3. c \in Child /\ c # None /\ item.kind \in {"forward", "plain", "reverse", "m2m"}
    BY <1>1, <1>2 DEF Item, Kind, Secret
  <1>4. PICK u : u = Removed(t, c)
    OBVIOUS
  <1>5. /\ u.owner[c] = Absent /\ u.links = t.links /\ u.key = t.key
        /\ u.hosts = t.hosts /\ u.hostHides = t.hostHides
        /\ u.scopedType = t.scopedType /\ u.outputHides = t.outputHides
    BY <1>3, <1>4, RemovedFacts
  <1>6. ~Exists(u, c) /\ ~Linked(t, p, c) /\ ~Linked(u, p, c) /\ t.key[p] # c /\ u.key[p] # c
    BY <1>1, <1>2, <1>5 DEF Exists, Linked, Secret
  <1>7. c \in t.hostHides \/ c \in t.outputHides
    BY <1>1, <1>2 DEF Secret
  <1>8. CASE item.kind = "plain"
    <2>1. c \in t.outputHides /\ t.scopedType /\ u.scopedType /\ c \in u.outputHides
      BY <1>1, <1>2, <1>5, <1>8 DEF Secret
    <2>2. NamesUnlinked(t, p, item) /\ NamesUnlinked(u, p, item)
      BY <1>2, <1>3, <1>8 DEF NamesUnlinked
    <2>3. ~LinkIsVisible(t, p, item) /\ ~LinkIsVisible(u, p, item)
      BY <1>2, <2>1, <2>2 DEF LinkIsVisible
    <2>4. Verdict(t, p, item) = "invalid pk" /\ Verdict(u, p, item) = "invalid pk"
      BY <2>3 DEF Verdict
    <2>5. QED BY <1>2, <1>4, <1>8, <2>4 DEF ToldApart
  <1>9. CASE item.kind = "forward"
    <2>1. NamesUnlinked(t, p, item) /\ NamesUnlinked(u, p, item)
      BY <1>2, <1>3, <1>6, <1>9 DEF NamesUnlinked
    <2>2. t.scopedType \/ (t.hosts /\ u.hosts /\ c \in t.hostHides /\ c \in u.hostHides)
      BY <1>5, <1>7
    <2>3. CASE t.scopedType
      <3>1. ~LinkIsVisible(u, p, item)
        BY <1>2, <1>5, <1>6, <2>1, <2>3 DEF LinkIsVisible
      <3>2. ~LinkIsVisible(t, p, item) \/ Decide(t, p, item) = "invalid pk"
        <4>1. CASE c \in t.outputHides
          BY <1>2, <2>1, <2>3, <4>1 DEF LinkIsVisible
        <4>2. CASE c \in t.hostHides
          BY <1>2, <1>3, <1>6, <1>9, <4>2 DEF Decide, DecideForward, Hidden
        <4>3. QED BY <1>7, <4>1, <4>2
      <3>3. Verdict(t, p, item) = "invalid pk" /\ Verdict(u, p, item) = "invalid pk"
        BY <3>1, <3>2 DEF Verdict
      <3>4. QED BY <1>2, <1>4, <1>9, <3>3 DEF ToldApart
    <2>4. CASE t.hosts /\ u.hosts /\ c \in t.hostHides /\ c \in u.hostHides
      <3>1. Decide(t, p, item) = "invalid pk" /\ Decide(u, p, item) = "invalid pk"
        BY <1>2, <1>3, <1>6, <1>9, <2>4 DEF Decide, DecideForward, Hidden
      <3>2. Verdict(t, p, item) = "invalid pk" /\ Verdict(u, p, item) = "invalid pk"
        BY <3>1 DEF Verdict
      <3>3. QED BY <1>2, <1>4, <1>9, <3>2 DEF ToldApart
    <2>5. QED BY <2>2, <2>3, <2>4
  <1>10. CASE item.kind = "reverse"
    <2>1. LinkIsVisible(t, p, item) /\ LinkIsVisible(u, p, item)
      BY <1>10 DEF LinkIsVisible, NamesUnlinked
    <2>2. Decide(t, p, item) = "not found" /\ Decide(u, p, item) = "not found"
      BY <1>2, <1>3, <1>6, <1>7, <1>10 DEF Decide, DecideReverse, Hidden
    <2>3. Verdict(t, p, item) = "not found" /\ Verdict(u, p, item) = "not found"
      BY <2>1, <2>2 DEF Verdict
    <2>4. QED BY <1>2, <1>4, <1>10, <2>3 DEF ToldApart
  <1>11. CASE item.kind = "m2m"
    <2>1. NamesUnlinked(t, p, item) /\ NamesUnlinked(u, p, item)
      BY <1>2, <1>3, <1>6, <1>11 DEF NamesUnlinked
    <2>2. CASE ~t.scopedType
      <3>1. LinkIsVisible(t, p, item) /\ LinkIsVisible(u, p, item) /\ c \in t.hostHides
        BY <1>5, <1>7, <2>2 DEF LinkIsVisible
      <3>2. Decide(t, p, item) = "not found" /\ Decide(u, p, item) = "not found"
        BY <1>2, <1>3, <1>6, <1>11, <3>1 DEF Decide, DecideM2M, Hidden
      <3>3. Verdict(t, p, item) = "not found" /\ Verdict(u, p, item) = "not found"
        BY <3>1, <3>2 DEF Verdict
      <3>4. QED BY <1>2, <1>4, <2>2, <3>3 DEF ToldApart
    <2>3. CASE t.scopedType
      <3>1. ~LinkIsVisible(u, p, item)
        BY <1>2, <1>5, <1>6, <2>1, <2>3 DEF LinkIsVisible
      <3>2. Verdict(u, p, item) = "invalid pk"
        BY <3>1 DEF Verdict
      <3>3. CASE ~ToldApart(t, item)
        <4>1. ~LinkIsVisible(t, p, item)
          BY <1>2, <1>7, <1>11, <2>1, <2>3, <3>3 DEF LinkIsVisible, ToldApart
        <4>2. Verdict(t, p, item) = "invalid pk"
          BY <4>1 DEF Verdict
        <4>3. QED BY <1>2, <1>4, <3>2, <3>3, <4>2
      <3>4. CASE ToldApart(t, item)
        <4>1. LinkIsVisible(t, p, item) /\ Exists(t, c) /\ c \in t.hostHides
          BY <1>2, <3>4 DEF LinkIsVisible, ToldApart
        <4>2. Decide(t, p, item) = "not found"
          BY <1>2, <1>3, <1>6, <1>11, <4>1 DEF Decide, DecideM2M, Hidden
        <4>3. Verdict(t, p, item) = "not found"
          BY <4>1, <4>2 DEF Verdict
        <4>4. QED BY <1>2, <1>4, <3>2, <3>4, <4>3
      <3>5. QED BY <3>3, <3>4
    <2>4. QED BY <2>2, <2>3
  <1>12. QED BY <1>3, <1>8, <1>9, <1>10, <1>11

LEMMA NamedRowsHide == ASSUME Base, Scoped PROVE HiddenLooksMissing
  <1>1. SUFFICES ASSUME phase = "root", at[2] <= Len(Roots), NEW i \in DOMAIN Items
                 PROVE  LooksMissing(db.tables, at, Items[i])
    BY DEF HiddenLooksMissing
  <1>2. at[1] \in DOMAIN request.entries /\ at[2] \in Nat \ {0}
    BY <1>1 DEF Base, Position, Operating
  <1>3. at[2] \in DOMAIN Roots
    BY <1>1, <1>2, RootsFacts DEF Base
  <1>4. at \in Parent /\ Items \in Seq(Item) /\ Planned(Roots[at[2]])
    BY <1>2, <1>3, ItemsFacts DEF Base
  <1>5. PICK t, item : t = db.tables /\ item = Items[i]
    OBVIOUS
  <1>6. item \in Item
    BY <1>1, <1>4, <1>5, ElementOfSeq
  <1>7. item.kind \in {"parent", "add", "delete"} => item.pk = None
    BY <1>1, <1>4, <1>5 DEF Planned, Items
  <1>8. t \in Tables /\ Scopes(t) = Scopes(before)
    BY <1>5 DEF Base, TypeOK, Database, Scoped, Views
  <1>9. (~t.hosts => t.hostHides = {}) /\ (~t.scopedType => t.outputHides = {})
    BY <1>8, SameScopes DEF Scoped
  <1>10. QED BY <1>4, <1>5, <1>6, <1>7, <1>8, <1>9, RulesHide

(* An id that the parent is not linked with and that a caller may not see   *)
(* is answered like one that does not exist, except for a many-to-many id   *)
(* that the hosts hide and a scoped output type shows, whose answer differs.*)
THEOREM Secrecy == Spec => []HiddenLooksMissing
  BY BaseHolds, ScopedHolds, NamedRowsHide, PTL

-----------------------------------------------------------------------------
(* An existing row is rewritten by a save that its rule calls an update.    *)
Rewrites ==
    /\ phase = "item" /\ left > 0
    /\ Current.kind \in {"forward", "reverse", "m2m"} /\ Current.pk # None
    /\ Decide(db.tables, at, Current) = "update"

(* What the statements of a root field change.                              *)
LEMMA Effects ==
    ASSUME Base, Writes
    PROVE  /\ \A x \in db'.touched :
                 x \in db.touched \/ (Rewrites /\ x = <<at, Current.kind, Current.pk>>)
           /\ \A row \in Child :
                 \/ db'.tables.owner[row] = db.tables.owner[row]
                 \/ /\ Rewrites /\ Current.kind = "reverse" /\ row = Current.pk
                    /\ db'.tables.owner[row] = at
           /\ db'.tables.key = db.tables.key \/ (phase = "item" /\ Current.kind = "parent")
           /\ \/ db'.tables.links = db.tables.links
              \/ phase = "item" /\ Current.kind = "add" /\ (raising' = None => left' = left - 1)
  <1>1. CASE db' = db
    BY <1>1
  <1>2. /\ phase \in {"item", "second"} /\ phase \in Writing /\ left > 0
        /\ Current \in Item /\ Current.kind \in Kind /\ Current.pk \in Child \cup {None}
        /\ db.tables \in Tables
    BY WriteSteps, CurrentFacts DEF Base, TypeOK, Database, Writing, Stepping
  <1>3. CASE WriteItem /\ db' # db
    <2>1. phase = "item" /\ Current.kind \notin {"add", "delete"}
      BY <1>3 DEF WriteItem
    <2>2. PICK decision : decision = (IF Current.kind = "parent" THEN "update"
                                      ELSE Decide(db.tables, at, Current))
      OBVIOUS
    <2>3. decision \in {"create", "update"} /\ Save
      BY <1>3, <2>2 DEF WriteItem, transaction
    <2>4. /\ db'.tables = Written(Current)
          /\ db'.touched = db.touched \cup (IF Current.kind # "parent" /\ Current.pk # None
                                            THEN {<<at, Current.kind, Current.pk>>} ELSE {})
      BY <1>3, <2>3 DEF Save, Statement
    <2>5. Current.kind # "parent" /\ Current.pk # None => Rewrites
      <3>1. SUFFICES ASSUME Current.kind # "parent", Current.pk # None PROVE Rewrites
        OBVIOUS
      <3>2. Current.kind \in {"forward", "plain", "reverse", "m2m"}
        BY <1>2, <2>1, <3>1 DEF Kind
      <3>3. decision = "update" /\ Current.kind # "plain"
        BY <2>2, <2>3, <3>1, <3>2 DEF Decide, DecideForward, DecideReverse, DecideM2M
      <3>4. QED BY <1>2, <2>1, <2>2, <3>1, <3>2, <3>3 DEF Rewrites
    <2>6. PICK tables : tables = Written(Current)
      OBVIOUS
    <2>7. /\ tables.links = db.tables.links
          /\ Current.kind # "parent" => tables.key = db.tables.key
          /\ IF Current.kind = "reverse" /\ Current.pk # None
             THEN /\ tables.owner[Current.pk] = at
                  /\ \A d \in Child : d # Current.pk => tables.owner[d] = db.tables.owner[d]
             ELSE tables.owner = db.tables.owner
      BY <1>2, <2>6, WrittenFacts DEF Base
    <2>8. \A x \in db'.touched :
             x \in db.touched \/ (Rewrites /\ x = <<at, Current.kind, Current.pk>>)
      BY <2>4, <2>5
    <2>9. QED BY <2>1, <2>4, <2>5, <2>6, <2>7, <2>8
  <1>4. CASE AddLinks /\ db' # db
    <2>1. phase = "item" /\ Current.kind = "add" /\ (raising' = None => left' = left - 1)
      BY <1>4 DEF AddLinks, Skip
    <2>2. PICK t, more : t = db.tables /\ more = {<<at, c>> : c \in joining}
      OBVIOUS
    <2>3. PICK tables : tables = WithLinks(t, more)
      OBVIOUS
    <2>4. db'.tables = tables /\ db'.touched = db.touched
      <3>1. Statement(1, tables, {})
        BY <1>4, <2>2, <2>3 DEF AddLinks, WithLinks
      <3>2. QED BY <1>4, <3>1 DEF Statement
    <2>5. more \in SUBSET (Parent \X Child)
      <3>1. at \in Parent /\ joining \subseteq Child
        BY <1>2, CurrentFacts DEF Base, TypeOK
      <3>2. QED BY <2>2, <3>1
    <2>6. tables.key = t.key /\ tables.owner = t.owner
      BY <1>2, <2>2, <2>3, <2>5, LinksAdded
    <2>7. QED BY <2>1, <2>2, <2>4, <2>6
  <1>5. CASE (Delete \/ SecondStatement) /\ db' # db
    <2>1. db'.tables = db.tables /\ db'.touched = db.touched
      <3>1. \E n \in {1, 2} : Statement(n, db.tables, {})
        BY <1>5 DEF Delete, SecondStatement, transaction
      <3>2. QED BY <1>5, <3>1 DEF Statement
    <2>2. QED BY <2>1
  <1>6. QED BY <1>1, <1>3, <1>4, <1>5 DEF Writes

(* The forward targets come before the row, and the many-to-many children   *)
(* before their links.                                                      *)
Remaining(kind) == \E i \in DOMAIN Items : Index <= i /\ Items[i].kind = kind

LEMMA OrderFacts ==
    ASSUME Base, phase \in Writing, left > 0, NEW i \in DOMAIN Items, Index < i
    PROVE  /\ Current.kind = "parent" => Items[i].kind # "forward"
           /\ Current.kind = "add" => Items[i].kind # "m2m"
  <1>1. /\ Planned(Roots[at[2]]) /\ Roots[at[2]].op \in {"create", "update", "delete"}
        /\ DOMAIN Items = 1..Len(Items) /\ Index \in DOMAIN Items /\ Current = Items[Index]
    BY CurrentFacts DEF Base
  <1>2. CASE Roots[at[2]].op \in {"create", "update"}
    <2>1. InOrder(Items)
      BY <1>1, <1>2 DEF Planned, Items
    <2>2. /\ Place(Current.kind) <= Place(Items[i].kind)
          /\ Current.kind = "add" => Items[i].kind # "m2m"
      BY <1>1, <2>1 DEF InOrder
    <2>3. QED BY <2>2 DEF Place
  <1>3. CASE Roots[at[2]].op = "delete"
    <2>1. Len(Items) = 1
      BY <1>1, <1>3 DEF Planned, Items
    <2>2. QED BY <1>1, <2>1
  <1>4. QED BY <1>1, <1>2, <1>3

(* What the rules of the items still to come read is what the root field    *)
(* found: it has changed no more than the owner of the orphans it adopted.  *)
Owned == \A row \in Child :
    \/ db.tables.owner[row] = before.owner[row]
    \/ /\ before.owner[row] = Orphan /\ Exists(before, row) /\ before.hosts
       /\ db.tables.owner[row] = at
Found ==
    /\ Owned
    /\ left > 0 /\ Remaining("forward") => db.tables.key[at] = before.key[at]
    /\ left > 0 /\ Remaining("m2m") => \A row \in Child :
          Linked(db.tables, at, row) <=> Linked(before, at, row)
Touches == \A v \in Views : \A x \in v.touched :
    \/ Earlier(x[1], at)
    \/ x[1] = at /\ phase \in Writing /\ MayRewrite(x[2], x[3])
Rows == (phase \in Stepping => Found) /\ Touches

LEMMA RewritesAllowed ==
    ASSUME Base, Scoped, Found, Rewrites
    PROVE  MayRewrite(Current.kind, Current.pk)
  <1>1. /\ phase \in Writing /\ left > 0
        /\ Current.kind \in {"forward", "reverse", "m2m"}
        /\ Current.pk # None /\ Decide(db.tables, at, Current) = "update"
    BY DEF Rewrites, Writing, Stepping
  <1>2. /\ Index \in DOMAIN Items /\ Index <= Index /\ Current = Items[Index] /\ at \in Parent
        /\ Current.pk \in Child \cup {None}
    BY <1>1, CurrentFacts DEF Base
  <1>3. PICK t, c : t = db.tables /\ c = Current.pk
    OBVIOUS
  <1>4. c \in Child /\ c # None
    BY <1>1, <1>2, <1>3
  <1>5. Scopes(t) = Scopes(before)
    BY <1>3 DEF Scoped, Views
  <1>6. /\ t.hosts = before.hosts
        /\ Hidden(t, c, TRUE) <=> Hidden(before, c, TRUE)
    BY <1>5, SameScopes DEF Hidden
  <1>7. \/ t.owner[c] = before.owner[c]
        \/ before.owner[c] = Orphan /\ Exists(before, c) /\ before.hosts /\ t.owner[c] = at
    BY <1>3, <1>4 DEF Found, Owned
  <1>8. Exists(t, c) /\ ~Hidden(t, c, TRUE)
    BY <1>1, <1>3, <1>4 DEF Decide, DecideForward, DecideReverse, DecideM2M
  <1>9. Exists(before, c) /\ ~Hidden(before, c, TRUE)
    BY <1>6, <1>7, <1>8 DEF Exists
  <1>10. CASE Current.kind = "forward"
    <2>1. t.key[at] = c
      BY <1>1, <1>3, <1>10 DEF Decide, DecideForward
    <2>2. Remaining("forward")
      BY <1>2, <1>10 DEF Remaining
    <2>3. before.key[at] = c
      BY <1>1, <1>3, <2>1, <2>2 DEF Found
    <2>4. QED BY <1>3, <1>9, <1>10, <2>3 DEF MayRewrite
  <1>11. CASE Current.kind = "reverse"
    <2>1. t.owner[c] = at \/ (t.owner[c] = Orphan /\ t.hosts)
      BY <1>1, <1>3, <1>11 DEF Decide, DecideReverse
    <2>2. before.owner[c] = at \/ (before.owner[c] = Orphan /\ before.hosts)
      BY <1>6, <1>7, <2>1
    <2>3. QED BY <1>3, <1>9, <1>11, <2>2 DEF MayRewrite
  <1>12. CASE Current.kind = "m2m"
    <2>1. Linked(t, at, c)
      BY <1>1, <1>3, <1>12 DEF Decide, DecideM2M
    <2>2. Remaining("m2m")
      BY <1>2, <1>12 DEF Remaining
    <2>3. Linked(before, at, c)
      BY <1>1, <1>3, <1>4, <2>1, <2>2 DEF Found
    <2>4. QED BY <1>3, <1>9, <1>12, <2>3 DEF MayRewrite
  <1>13. QED BY <1>1, <1>10, <1>11, <1>12

LEMMA RemainingLater ==
    ASSUME Base, phase \in Writing, left > 0, UNCHANGED <<request, at>>,
           left' \in {left, left - 1}, NEW kind, Remaining(kind)'
    PROVE  /\ \E i \in DOMAIN Items : /\ Index <= i /\ Items[i].kind = kind
                                      /\ left' = left - 1 => Index < i
           /\ Remaining(kind)
  <1>1. Items' = Items
    BY SameRoot
  <1>2. left \in Nat /\ Len(Items) \in Nat /\ DOMAIN Items = 1..Len(Items)
    BY CurrentFacts DEF Base
  <1>3. PICK i \in DOMAIN Items : Index' <= i /\ Items[i].kind = kind
    BY <1>1 DEF Remaining
  <1>4. Index' = Len(Items) + 1 - left'
    BY <1>1 DEF Index
  <1>5. Index <= i /\ (left' = left - 1 => Index < i)
    BY <1>2, <1>3, <1>4 DEF Index
  <1>6. QED BY <1>3, <1>5 DEF Remaining

LEMMA FoundWrites ==
    ASSUME Base, Scoped, Found, Writes, phase' \in Stepping
    PROVE  Found'
  <1>1. /\ phase \in Writing /\ left > 0 /\ raising = None
        /\ UNCHANGED <<request, at, before>> /\ left' \in {left, left - 1} /\ raising' = None
    BY WriteSteps DEF Succeeds, Fails, Links, Writing, Stepping
  <1>2. at \in Parent /\ Index \in DOMAIN Items /\ Index \in Nat /\ DOMAIN Items \subseteq Nat
        /\ Current = Items[Index]
    BY <1>1, CurrentFacts DEF Base
  <1>3. PICK t, u : t = db.tables /\ u = db'.tables
    OBVIOUS
  <1>4. /\ \A row \in Child :
              \/ u.owner[row] = t.owner[row]
              \/ /\ Rewrites /\ Current.kind = "reverse" /\ row = Current.pk
                 /\ u.owner[row] = at
        /\ u.key = t.key \/ Current.kind = "parent"
        /\ u.links = t.links \/ (Current.kind = "add" /\ left' = left - 1)
    BY <1>1, <1>3, Effects
  <1>5. \A row \in Child :
            \/ u.owner[row] = before.owner[row]
            \/ before.owner[row] = Orphan /\ Exists(before, row) /\ before.hosts /\ u.owner[row] = at
    <2>1. SUFFICES ASSUME NEW row \in Child
                   PROVE  \/ u.owner[row] = before.owner[row]
                          \/ /\ before.owner[row] = Orphan /\ Exists(before, row)
                             /\ before.hosts /\ u.owner[row] = at
      OBVIOUS
    <2>2. CASE u.owner[row] = t.owner[row]
      BY <1>3, <2>2 DEF Found, Owned
    <2>3. CASE Rewrites /\ Current.kind = "reverse" /\ row = Current.pk /\ u.owner[row] = at
      <3>1. MayRewrite("reverse", row)
        BY <2>3, RewritesAllowed
      <3>2. QED BY <2>3, <3>1 DEF MayRewrite
    <2>4. QED BY <1>4, <2>2, <2>3
  <1>6. ASSUME Remaining("forward")' PROVE u.key[at] = before.key[at]
    <2>1. PICK i \in DOMAIN Items : Index <= i /\ Items[i].kind = "forward"
      BY <1>1, <1>6, RemainingLater
    <2>2. Current.kind # "parent"
      <3>1. CASE i = Index
        BY <1>2, <2>1, <3>1
      <3>2. CASE Index < i
        BY <1>1, <2>1, <3>2, OrderFacts
      <3>3. QED BY <1>2, <2>1, <3>1, <3>2
    <2>3. Remaining("forward")
      BY <2>1 DEF Remaining
    <2>4. QED BY <1>1, <1>3, <1>4, <2>2, <2>3 DEF Found
  <1>7. ASSUME Remaining("m2m")'
        PROVE  \A row \in Child : Linked(u, at, row) <=> Linked(before, at, row)
    <2>1. PICK i \in DOMAIN Items : /\ Index <= i /\ Items[i].kind = "m2m"
                                    /\ left' = left - 1 => Index < i
      BY <1>1, <1>7, RemainingLater
    <2>2. u.links = t.links
      BY <1>1, <1>4, <2>1, OrderFacts
    <2>3. Remaining("m2m")
      BY <2>1 DEF Remaining
    <2>4. QED BY <1>1, <1>3, <2>2, <2>3 DEF Found, Linked
  <1>8. QED BY <1>1, <1>3, <1>5, <1>6, <1>7 DEF Found, Owned, Linked, Exists

LEMMA FoundStep ==
    ASSUME Base, Scoped, phase \in Stepping => Found, [Next]_vars, phase' \in Stepping
    PROVE  Found'
  <1> USE DEF Writing, Stepping, Failing
  <1>1. CASE UNCHANGED vars
    <2>1. /\ UNCHANGED <<db, before, at, left, phase, request>>
      BY <1>1 DEF vars, progress
    <2>2. \A kind : Remaining(kind)' => Remaining(kind)
      BY <2>1, SameRoot, SameItem DEF Remaining
    <2>3. QED BY <2>1, <2>2 DEF Found, Owned, Linked, Exists
  <1>2. CASE EnterEntry \/ BeginOperation \/ EndOperation \/ ExitEntry \/ Finish
    BY <1>2, ExitEntryFacts DEF EnterEntry, BeginOperation, EndOperation, Finish
  <1>3. CASE BeginRoot
    <2>1. before' = db.tables /\ UNCHANGED db
      BY <1>3, BeginRootSteps
    <2>2. PICK t : t = db.tables
      OBVIOUS
    <2>3. db'.tables = t /\ before' = t
      BY <2>1, <2>2
    <2>4. QED BY <2>3 DEF Found, Owned, Linked
  <1>4. CASE Writes
    <2>1. phase \in Stepping
      BY <1>4, WriteSteps
    <2>2. QED BY <1>4, <2>1, FoundWrites
  <1>5. CASE LeaveSave
    <2>1. /\ phase = "leave" /\ UNCHANGED <<request, at, before, db>> /\ left' = left - 1
      BY <1>5 DEF LeaveSave, Leave, Raise, transaction, Skip
    <2>2. Found /\ left > 0
      BY <2>1, WorkFacts
    <2>3. ASSUME NEW kind, Remaining(kind)' PROVE Remaining(kind)
      BY <2>1, <2>2, <2>3, RemainingLater
    <2>4. QED BY <2>1, <2>2, <2>3 DEF Found, Owned, Linked, Exists
  <1>6. CASE Unwind
    BY <1>6, UnwindSteps DEF LeavesSave, StartsDiagnosis, GivesUp, Ends
  <1>7. CASE Diagnose \/ EndWrites \/ Reread
    BY <1>7 DEF Diagnose, EndWrites, Reread, Ends
  <1>8. QED BY <1>1, <1>2, <1>3, <1>4, <1>5, <1>6, <1>7 DEF Next, Writes

LEMMA TouchesStep ==
    ASSUME Base, Scoped, Rows, [Next]_vars
    PROVE  Touches'
  <1>1. /\ \/ /\ at' = at /\ (phase \in Writing => phase' \in Writing)
           \/ at'[1] > at[1]
           \/ at'[1] = at[1] /\ at'[2] > at[2]
        /\ \/ before' = before
           \/ phase = "root" /\ before' = db.tables
    BY MovesOn
  <1>2. /\ at = <<at[1], at[2]>> /\ at[1] \in Nat /\ at[2] \in Nat
        /\ at'[1] \in Nat /\ at'[2] \in Nat
        /\ \A p \in Parent : p[1] \in Nat /\ p[2] \in Nat
    <2>1. Base'
      BY BaseStep
    <2>2. at' \in Nat \X Nat
      BY <2>1 DEF Base, TypeOK
    <2>3. QED BY <2>2, RequestFacts DEF Base
  <1>3. \A v \in Views : \A x \in v.touched : x[1] \in Parent
    <2>1. \A v \in Views : v \in Database
      BY NoBlocks DEF Views, Base, TypeOK
    <2>2. QED BY <2>1 DEF Database
  <1>4. ASSUME NEW x, x[1] \in Parent,
               \/ Earlier(x[1], at)
               \/ x[1] = at /\ phase \in Writing /\ MayRewrite(x[2], x[3])
        PROVE  \/ Earlier(x[1], at')
               \/ x[1] = at' /\ phase' \in Writing /\ MayRewrite(x[2], x[3])'
    <2>1. CASE Earlier(x[1], at)
      BY <1>1, <1>2, <1>4, <2>1 DEF Earlier
    <2>2. CASE x[1] = at /\ phase \in Writing /\ MayRewrite(x[2], x[3])
      <3>1. CASE at' = at
        <4>1. phase' \in Writing /\ before' = before
          BY <1>1, <1>2, <2>2, <3>1 DEF Writing, Stepping, Failing
        <4>2. MayRewrite(x[2], x[3])'
          BY <2>2, <3>1, <4>1 DEF MayRewrite, Hidden, Exists, Linked
        <4>3. QED BY <2>2, <3>1, <4>1, <4>2
      <3>2. CASE at'[1] > at[1] \/ (at'[1] = at[1] /\ at'[2] > at[2])
        BY <1>2, <2>2, <3>2 DEF Earlier
      <3>3. QED BY <1>1, <3>1, <3>2
    <2>3. QED BY <1>4, <2>1, <2>2
  <1>5. \A v \in Views : \A x \in v.touched :
            \/ Earlier(x[1], at')
            \/ x[1] = at' /\ phase' \in Writing /\ MayRewrite(x[2], x[3])'
    BY <1>3, <1>4 DEF Rows, Touches
  <1>6. \A x \in db'.touched :
            \/ Earlier(x[1], at')
            \/ x[1] = at' /\ phase' \in Writing /\ MayRewrite(x[2], x[3])'
    <2>1. CASE db' \in Views
      BY <1>5, <2>1
    <2>2. CASE Writes /\ Succeeds
      <3>1. /\ phase \in Stepping /\ phase' \in Stepping /\ UNCHANGED <<at, before>>
        BY <2>2, WriteSteps DEF Succeeds, Stepping
      <3>2. SUFFICES ASSUME NEW x \in db'.touched
                     PROVE  \/ Earlier(x[1], at')
                            \/ x[1] = at' /\ phase' \in Writing /\ MayRewrite(x[2], x[3])'
        OBVIOUS
      <3>3. x \in db.touched \/ (Rewrites /\ x = <<at, Current.kind, Current.pk>>)
        BY <2>2, Effects
      <3>4. CASE x \in db.touched
        BY <1>5, <3>4 DEF Views
      <3>5. CASE Rewrites /\ x = <<at, Current.kind, Current.pk>>
        <4>1. PICK k, c : k = Current.kind /\ c = Current.pk
          OBVIOUS
        <4>2. MayRewrite(k, c)
          BY <3>1, <3>5, <4>1, RewritesAllowed DEF Rows
        <4>3. x[1] = at /\ x[2] = k /\ x[3] = c
          BY <3>5, <4>1
        <4>4. MayRewrite(x[2], x[3])
          BY <4>2, <4>3
        <4>5. MayRewrite(x[2], x[3])'
          BY <3>1, <4>4 DEF MayRewrite, Hidden, Exists, Linked
        <4>6. QED BY <3>1, <4>3, <4>5 DEF Writing
      <3>6. QED BY <3>3, <3>4, <3>5
    <2>3. QED BY <2>1, <2>2, NewViews
  <1>7. \A v \in Views' : \A x \in v.touched :
            \/ Earlier(x[1], at')
            \/ x[1] = at' /\ phase' \in Writing /\ MayRewrite(x[2], x[3])'
    BY <1>5, <1>6, NewViews
  <1>8. QED BY <1>7 DEF Touches, Earlier

(* An existing row is rewritten only if the parent owned, linked or named   *)
(* it before, or adopts an orphan that a host may update, and only if the   *)
(* scopes of its hosts and its output type show it.                         *)
THEOREM Rewriting == Spec => []RewritesOwnRows
  <1>1. ASSUME Init PROVE Rows
    <2>1. db.touched = {} /\ phase = "entry"
      BY <1>1 DEF Init
    <2>2. \A b \in Elements(blocks) : b.saved = db
      BY <1>1, InitBlocks
    <2>3. \A v \in Views : v = db
      BY <2>2 DEF Views
    <2>4. QED BY <2>1, <2>3 DEF Rows, Touches, Stepping
  <1>2. Init => Rows
    BY <1>1
  <1>3. Base /\ Scoped /\ Rows /\ [Next]_vars => Rows'
    <2>1. ASSUME Base, Scoped, Rows, [Next]_vars PROVE phase' \in Stepping => Found'
      BY <2>1, FoundStep DEF Rows
    <2>2. ASSUME Base, Scoped, Rows, [Next]_vars PROVE Touches'
      BY <2>2, TouchesStep
    <2>3. ASSUME Base, Scoped, Rows, [Next]_vars PROVE Rows'
      BY <2>1, <2>2, <2>3 DEF Rows, Stepping
    <2>4. QED BY <2>3
  <1>4. Base /\ Rows => RewritesOwnRows
    <2>1. SUFFICES ASSUME Base, Rows, NEW w \in db.touched, w[1] = at
                   PROVE  MayRewrite(w[2], w[3])
      BY DEF RewritesOwnRows
    <2>2. ~Earlier(at, at)
      BY <2>1, EarlierFacts
    <2>3. QED BY <2>1, <2>2 DEF Rows, Touches, Views
  <1>5. QED BY <1>2, <1>3, <1>4, BaseHolds, ScopedHolds, PTL DEF Spec
=============================================================================
