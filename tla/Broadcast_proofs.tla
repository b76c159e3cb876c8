-------------------------- MODULE Broadcast_proofs --------------------------
(***************************************************************************)
(* Proofs about Broadcast, for every number of rows, writers, subscribers,  *)
(* changes and faults and every configuration: what a subscriber is told    *)
(* was committed, is told once, is within its filters, and is all it asked  *)
(* for.                                                                     *)
(***************************************************************************)
EXTENDS Broadcast, SequenceTheorems, TLAPS

Elements(s) == {s[i] : i \in DOMAIN s}
Distinct(s) == \A i, j \in DOMAIN s : s[i] = s[j] => i = j

(* Taking the first element of a sequence. *)
LEMMA HeadFacts ==
    ASSUME NEW E, NEW s \in Seq(E), s # <<>>
    PROVE  /\ Head(s) \in E /\ Tail(s) \in Seq(E)
           /\ Elements(s) = {Head(s)} \cup Elements(Tail(s))
           /\ Distinct(s) => Distinct(Tail(s)) /\ Head(s) \notin Elements(Tail(s))
  <1> DEFINE t == Tail(s)
             m == Len(t)
  <1>1. /\ t \in Seq(E) /\ m \in Nat /\ DOMAIN t = 1..m /\ DOMAIN s = 1..(m + 1)
        /\ Head(s) = s[1] /\ Head(s) \in E
        /\ \A i \in 1..m : t[i] = s[i + 1]
    OBVIOUS
  <1> HIDE DEF t, m
  <1>2. \A i \in 1..(m + 1) : i # 1 => i - 1 \in 1..m /\ s[i] = t[i - 1]
    BY <1>1
  <1>3. Elements(s) = {Head(s)} \cup Elements(t)
    <2>1. ASSUME NEW x \in Elements(s) PROVE x \in {Head(s)} \cup Elements(t)
      <3>1. PICK i \in 1..(m + 1) : x = s[i]
        BY <1>1 DEF Elements
      <3>2. CASE i = 1
        BY <1>1, <3>1, <3>2
      <3>3. CASE i # 1
        BY <1>1, <1>2, <3>1, <3>3 DEF Elements
      <3>4. QED BY <3>2, <3>3
    <2>2. ASSUME NEW x \in Elements(t) PROVE x \in Elements(s)
      <3>1. PICK i \in 1..m : x = t[i]
        BY <1>1 DEF Elements
      <3>2. i + 1 \in DOMAIN s /\ x = s[i + 1]
        BY <1>1, <3>1
      <3>3. QED BY <3>2 DEF Elements
    <2>3. Head(s) \in Elements(s)
      BY <1>1 DEF Elements
    <2>4. QED BY <2>1, <2>2, <2>3
  <1>4. ASSUME Distinct(s) PROVE Distinct(t) /\ Head(s) \notin Elements(t)
    <2>1. \A i \in 1..m : i + 1 \in DOMAIN s /\ t[i] = s[i + 1] /\ 1 # i + 1
      BY <1>1
    <2>2. ASSUME NEW i \in DOMAIN t, NEW j \in DOMAIN t, t[i] = t[j] PROVE i = j
      <3>1. i + 1 = j + 1
        BY <1>1, <1>4, <2>1, <2>2 DEF Distinct
      <3>2. QED BY <1>1, <3>1
    <2>3. ASSUME NEW i \in DOMAIN t, t[i] = Head(s) PROVE FALSE
      BY <1>1, <1>4, <2>1, <2>3 DEF Distinct
    <2>4. QED BY <2>2, <2>3 DEF Distinct, Elements
  <1>5. QED BY <1>1, <1>3, <1>4 DEF t

(* Adding an element at the end. *)
LEMMA AppendFacts ==
    ASSUME NEW E, NEW s \in Seq(E), NEW e \in E
    PROVE  /\ Append(s, e) \in Seq(E)
           /\ Elements(Append(s, e)) = Elements(s) \cup {e}
           /\ Distinct(s) /\ e \notin Elements(s) => Distinct(Append(s, e))
  <1> DEFINE t == Append(s, e)
             m == Len(s)
  <1>1. /\ t \in Seq(E) /\ m \in Nat /\ DOMAIN s = 1..m /\ DOMAIN t = 1..(m + 1)
        /\ t[m + 1] = e
        /\ \A i \in 1..m : t[i] = s[i]
    OBVIOUS
  <1> HIDE DEF t, m
  <1>2. \A i \in 1..(m + 1) : i \in 1..m \/ i = m + 1
    BY <1>1
  <1>3. 1..m \subseteq 1..(m + 1) /\ m + 1 \in 1..(m + 1)
    BY <1>1
  <1>4. Elements(t) = Elements(s) \cup {e}
    <2>1. ASSUME NEW x \in Elements(t) PROVE x \in Elements(s) \cup {e}
      BY <1>1, <1>2 DEF Elements
    <2>2. ASSUME NEW x \in Elements(s) PROVE x \in Elements(t)
      BY <1>1, <1>3 DEF Elements
    <2>3. e \in Elements(t)
      BY <1>1, <1>3 DEF Elements
    <2>4. QED BY <2>1, <2>2, <2>3
  <1>5. ASSUME Distinct(s), e \notin Elements(s) PROVE Distinct(t)
    <2>1. ASSUME NEW i \in DOMAIN t, NEW j \in DOMAIN t, t[i] = t[j] PROVE i = j
      <3>1. CASE i \in 1..m /\ j \in 1..m
        BY <1>1, <1>5, <2>1, <3>1 DEF Distinct
      <3>2. ASSUME NEW k \in 1..m, t[k] = e PROVE FALSE
        BY <1>1, <1>5, <3>2 DEF Elements
      <3>3. QED BY <1>1, <1>2, <2>1, <3>1, <3>2
    <2>2. QED BY <2>1 DEF Distinct
  <1>6. QED BY <1>1, <1>4, <1>5 DEF t

(* Nothing in it. *)
LEMMA EmptyFacts == Elements(<<>>) = {} /\ Distinct(<<>>)
  BY DEF Elements, Distinct

(* The elements are of the type. *)
LEMMA ElementsTyped ==
    ASSUME NEW E, NEW s \in Seq(E)
    PROVE  Elements(s) \subseteq E
  BY DEF Elements

-----------------------------------------------------------------------------
(* The groups of a change: how many, and which. *)
LEMMA TargetsFacts ==
    ASSUME NEW c \in Change
    PROVE  /\ Len(Targets(c)) = IF mode.indexed THEN 4 ELSE 2
           /\ DOMAIN Targets(c) = 1..Len(Targets(c))
           /\ Targets(c)[1] = GroupName(c.action, None, None)
           /\ Targets(c)[2] = GroupName(c.action, ProducerId(c.row), None)
           /\ mode.indexed => /\ Targets(c)[3] = GroupName(c.action, None, c.owner)
                              /\ Targets(c)[4] = GroupName(c.action, ProducerId(c.row), c.owner)
  <1>1. CASE mode.indexed
    BY <1>1 DEF Targets
  <1>2. CASE ~mode.indexed
    BY <1>2 DEF Targets
  <1>3. QED BY <1>1, <1>2

(* What is sent to them. *)
LEMMA MessagesFacts ==
    ASSUME NEW c \in Change
    PROVE  /\ Messages(c) \in Seq(Message)
           /\ DOMAIN Messages(c) = DOMAIN Targets(c)
           /\ \A k \in DOMAIN Messages(c) :
                 /\ Messages(c)[k].what = c /\ Messages(c)[k].k = k
                 /\ Messages(c)[k].to = Targets(c)[k]
           /\ Distinct(Messages(c))
  <1> DEFINE n == Len(Targets(c))
  <1>1. n \in Nat /\ n \in {2, 4} /\ (n = 4 <=> mode.indexed)
        /\ DOMAIN Targets(c) = 1..n
    BY TargetsFacts
  <1>2. c.action \in Action /\ c.owner \in Owner /\ ProducerId(c.row) \in Row \cup {None}
    BY DEF Change, ProducerId
  <1>3. ASSUME NEW k \in 1..n PROVE Targets(c)[k] \in Group /\ k \in 1..4
    <2>1. k \in 1..4 /\ (k > 2 => mode.indexed)
      BY <1>1
    <2>2. Targets(c)[k] \in {GroupName(c.action, i, o) : i \in Row \cup {None},
                                                         o \in Owner \cup {None}}
      BY <1>2, <2>1, TargetsFacts
    <2>3. QED BY <1>2, <2>1, <2>2 DEF Group, GroupName
  <1>4. \A k \in 1..n : [to |-> Targets(c)[k], what |-> c, k |-> k] \in Message
    BY <1>3 DEF Message
  <1> HIDE DEF n
  <1>5. Messages(c) = [k \in 1..n |-> [to |-> Targets(c)[k], what |-> c, k |-> k]]
    BY DEF Messages, n
  <1>6. Messages(c) \in Seq(Message)
    BY <1>1, <1>4, <1>5
  <1>7. \A k \in 1..n : /\ Messages(c)[k].what = c /\ Messages(c)[k].k = k
                        /\ Messages(c)[k].to = Targets(c)[k]
    BY <1>5
  <1>8. DOMAIN Messages(c) = 1..n
    BY <1>5
  <1>9. QED BY <1>1, <1>6, <1>7, <1>8 DEF Distinct

-----------------------------------------------------------------------------
(* Types.                                                                   *)

(* A change is known by its place in the history. *)
Numbered == \A n \in DOMAIN log : log[n].n = n
Base == TypeOK /\ Numbered

LEMMA LogFacts ==
    ASSUME Base
    PROVE  /\ Len(log) \in Nat /\ DOMAIN log = 1..Len(log)
           /\ \A n \in DOMAIN log : log[n] \in Change /\ log[n].n = n /\ n \in Number
  <1>1. log \in Seq(Change) /\ \A n \in DOMAIN log : log[n].n = n
    BY DEF Base, Numbered, TypeOK
  <1>2. \A c \in Change : c.n \in Number
    BY DEF Change
  <1>3. Len(log) \in Nat /\ DOMAIN log = 1..Len(log) /\ \A n \in DOMAIN log : log[n] \in Change
    BY <1>1
  <1>4. QED BY <1>1, <1>2, <1>3

(* Whatever ends, the history of the changes keeps its type. *)
LEMMA SettleTyped ==
    ASSUME TypeOK, NEW w, NEW mark, NEW state \in {"undone", "committed"},
           Settle(w, mark, state)
    PROVE  fate' \in [Number -> {"pending", "undone", "committed"}]
  BY DEF TypeOK, Settle

(* A savepoint restores what has the types of what it replaces.             *)
LEMMA RestoreTyped ==
    ASSUME TypeOK, NEW w \in Writer, savepoint[w] # None, Restore(w)
    PROVE  /\ view' \in [Writer -> [Row -> Owner \cup {None}]]
           /\ own' \in [Writer -> SUBSET Row] /\ hooks' \in [Writer -> Seq(Change)]
           /\ broken' \in [Writer -> BOOLEAN]
           /\ fate' \in [Number -> {"pending", "undone", "committed"}]
  <1>1. savepoint[w] \in Saved
    BY DEF TypeOK
  <1>2. /\ savepoint[w].view \in [Row -> Owner \cup {None}]
        /\ savepoint[w].own \in SUBSET Row /\ savepoint[w].hooks \in Seq(Change)
    BY <1>1 DEF Saved
  <1>3. fate' \in [Number -> {"pending", "undone", "committed"}]
    BY SettleTyped DEF Restore
  <1>4. QED BY <1>2, <1>3 DEF Restore, TypeOK

(* Nothing is left of a transaction that is undone. *)
LEMMA UndoTyped ==
    ASSUME TypeOK, NEW w \in Writer, Undo(w)
    PROVE  /\ view' \in [Writer -> [Row -> Owner \cup {None}]]
           /\ own' \in [Writer -> SUBSET Row] /\ hooks' \in [Writer -> Seq(Change)]
           /\ broken' \in [Writer -> BOOLEAN]
           /\ phase' \in [Writer -> {"idle", "open", "raising", "announcing"}]
           /\ fate' \in [Number -> {"pending", "undone", "committed"}]
  <1>1. fate' \in [Number -> {"pending", "undone", "committed"}]
    BY SettleTyped DEF Undo
  <1>2. QED BY <1>1 DEF Undo, TypeOK

(* What a writer sees of a row. *)
LEMMA VisibleTyped ==
    ASSUME TypeOK, NEW w \in Writer, NEW r \in Row
    PROVE  Visible(w, r) \in Owner \cup {None}
  BY DEF TypeOK, Visible

(* The change that a save or a delete announces. *)
NewChange(w, r, o) ==
    [n |-> Len(log) + 1, by |-> w, row |-> r,
     action |-> IF o = None THEN "delete"
                ELSE IF Visible(w, r) = None THEN "create" ELSE "update",
     owner |-> IF o = None THEN Visible(w, r) ELSE o]

LEMMA NewChangeFacts ==
    ASSUME TypeOK, NEW w \in Writer, NEW r \in Row, NEW o \in Owner \cup {None},
           Write(w, r, o)
    PROVE  /\ NewChange(w, r, o) \in Change
           /\ NewChange(w, r, o).n = Len(log) + 1 /\ NewChange(w, r, o).by = w
           /\ Len(log) \in Nat /\ Len(log) + 1 \in Number /\ Len(log) + 1 \notin DOMAIN log
           /\ log' = Append(log, NewChange(w, r, o))
           /\ fate' = [fate EXCEPT ![Len(log) + 1] = "pending"]
           /\ \/ /\ hooks' = [hooks EXCEPT ![w] = Append(@, NewChange(w, r, o))]
                 /\ UNCHANGED <<sends, phase, broken, dropped, faults>>
              \/ /\ faults < MaxFaults /\ faults' = faults + 1
                 /\ dropped' = dropped \cup {Len(log) + 1}
                 /\ \E breaks \in BOOLEAN :
                       /\ broken' = [broken EXCEPT ![w] = breaks]
                       /\ phase' = [phase EXCEPT ![w] = IF breaks THEN "raising" ELSE "open"]
                 /\ UNCHANGED <<hooks, sends>>
  <1> DEFINE c == NewChange(w, r, o)
  <1>1. Len(log) \in Nat /\ Len(log) < MaxChanges /\ DOMAIN log = 1..Len(log)
        /\ (o # None \/ Visible(w, r) # None)
    BY DEF Write, TypeOK
  <1>2. Len(log) + 1 \in Number /\ Len(log) + 1 \notin DOMAIN log
    BY <1>1, BroadcastAssumption DEF Number
  <1>3. c \in Change
    BY <1>1, <1>2, VisibleTyped DEF NewChange, Change, Action
  <1>4. c.n = Len(log) + 1 /\ c.by = w
    BY DEF NewChange
  <1>5. /\ log' = Append(log, c)
        /\ fate' = [fate EXCEPT ![c.n] = "pending"]
        /\ \/ Defer(w, c) /\ UNCHANGED <<phase, broken, dropped, faults>>
           \/ /\ faults < MaxFaults /\ faults' = faults + 1
              /\ dropped' = dropped \cup {c.n}
              /\ \E breaks \in BOOLEAN :
                    /\ broken' = [broken EXCEPT ![w] = breaks]
                    /\ phase' = [phase EXCEPT ![w] = IF Propagates(breaks)
                                                     THEN "raising" ELSE "open"]
              /\ UNCHANGED <<hooks, sends>>
    BY DEF Write, NewChange
  <1> HIDE DEF c
  <1>6. QED BY <1>1, <1>2, <1>3, <1>4, <1>5 DEF Defer, Propagates, c

(* A send appends a change to mailboxes, or loses it. *)
LEMMA SendTyped ==
    ASSUME TypeOK, NEW m \in Message, Send(m)
    PROVE  /\ mailbox' \in [Subscriber -> Seq(Change)]
           /\ dropped' \subseteq Number /\ faults' \in 0..MaxFaults
  <1>1. m.what \in Change /\ m.what.n \in Number
    BY DEF Message, Change
  <1>2. CASE UNCHANGED <<dropped, faults>>
            /\ mailbox' = [s \in Subscriber |-> IF s \in Members(m.to)
                               THEN Append(mailbox[s], m.what) ELSE mailbox[s]]
    BY <1>1, <1>2 DEF TypeOK
  <1>3. CASE /\ faults < MaxFaults /\ faults' = faults + 1
             /\ dropped' = dropped \cup {m.what.n} /\ UNCHANGED mailbox
    BY <1>1, <1>3, BroadcastAssumption DEF TypeOK
  <1>4. QED BY <1>2, <1>3 DEF Send

(* Every step keeps the types. *)
LEMMA TypeStep ==
    ASSUME Base, [Next]_vars
    PROVE  TypeOK'
  <1>0. TypeOK
    BY DEF Base
  <1> USE <1>0 DEF writing, sending, past
  <1>1. ASSUME NEW w \in Writer, Begin(w) \/ Raise(w) PROVE TypeOK'
    BY <1>1 DEF Begin, Raise, TypeOK
  <1>2. ASSUME NEW w \in Writer, OpenSavepoint(w) PROVE TypeOK'
    <2>1. [view |-> view[w], own |-> own[w], hooks |-> hooks[w], mark |-> Len(log)] \in Saved
      BY <1>2, BroadcastAssumption DEF OpenSavepoint, TypeOK, Saved
    <2>2. savepoint' \in [Writer -> Saved \cup {None}]
      BY <1>2, <2>1 DEF OpenSavepoint, TypeOK
    <2>3. QED BY <1>2, <2>2 DEF OpenSavepoint, TypeOK
  <1>3. ASSUME NEW w \in Writer, ReleaseSavepoint(w) PROVE TypeOK'
    <2>1. savepoint' \in [Writer -> Saved \cup {None}]
      BY <1>3 DEF ReleaseSavepoint, TypeOK
    <2>2. CASE Restore(w)
      BY <1>3, <2>1, <2>2, RestoreTyped DEF ReleaseSavepoint, TypeOK
    <2>3. CASE UNCHANGED <<view, own, hooks, broken, fate>>
      BY <1>3, <2>1, <2>3 DEF ReleaseSavepoint, TypeOK
    <2>4. QED BY <1>3, <2>2, <2>3 DEF ReleaseSavepoint
  <1>4. ASSUME NEW w \in Writer, Unwind(w) PROVE TypeOK'
    <2>1. CASE savepoint[w] # None
      <3>1. /\ Restore(w) /\ savepoint' = [savepoint EXCEPT ![w] = None]
            /\ \E caught \in BOOLEAN :
                  phase' = [phase EXCEPT ![w] = IF caught THEN "open" ELSE "raising"]
        BY <1>4, <2>1 DEF Unwind
      <3>2. savepoint' \in [Writer -> Saved \cup {None}]
            /\ phase' \in [Writer -> {"idle", "open", "raising", "announcing"}]
        BY <3>1 DEF TypeOK
      <3>3. QED BY <1>4, <2>1, <3>1, <3>2, RestoreTyped DEF Unwind, TypeOK
    <2>2. CASE savepoint[w] = None
      <3>1. Undo(w) /\ UNCHANGED savepoint
        BY <1>4, <2>2 DEF Unwind
      <3>2. QED BY <1>4, <3>1, UndoTyped DEF Unwind, TypeOK
    <2>3. QED BY <2>1, <2>2
  <1>5. ASSUME NEW w \in Writer, Commit(w) PROVE TypeOK'
    <2>1. CASE broken[w]
      BY <1>5, <2>1, UndoTyped DEF Commit, TypeOK
    <2>2. CASE ~broken[w]
      <3>1. db' \in [Row -> Owner \cup {None}]
        BY <1>5, <2>2, VisibleTyped DEF Commit
      <3>2. fate' \in [Number -> {"pending", "undone", "committed"}]
        BY <1>5, <2>2, SettleTyped DEF Commit
      <3>3. \A n \in DOMAIN log : n \in Number
        BY LogFacts DEF Base
      <3>4. audience' \in [Subscriber -> SUBSET Number]
        <4>1. audience' = [s \in Subscriber |->
                  IF s \in Listening
                  THEN audience[s] \cup {n \in DOMAIN log : log[n].by = w /\ fate[n] = "pending"}
                  ELSE audience[s]]
          BY <1>5, <2>2 DEF Commit
        <4>2. {n \in DOMAIN log : log[n].by = w /\ fate[n] = "pending"} \in SUBSET Number
          BY <3>3
        <4> HIDE <3>3
        <4>3. QED BY <4>1, <4>2 DEF TypeOK
      <3>5. /\ own' = [own EXCEPT ![w] = {}] /\ view' = [view EXCEPT ![w] = [r \in Row |-> None]]
            /\ phase' = [phase EXCEPT ![w] = "announcing"]
            /\ UNCHANGED <<hooks, broken, mode, savepoint, sends, tasks, mailbox, request,
                           received, log, dropped, faults>>
        BY <1>5, <2>2 DEF Commit
      <3>6. /\ own' \in [Writer -> SUBSET Row]
            /\ view' \in [Writer -> [Row -> Owner \cup {None}]]
            /\ phase' \in [Writer -> {"idle", "open", "raising", "announcing"}]
        BY <3>5 DEF TypeOK
      <3>7. QED BY <3>1, <3>2, <3>4, <3>5, <3>6 DEF TypeOK
    <2>3. QED BY <2>1, <2>2
  <1>6. ASSUME NEW w \in Writer, NEW r \in Row, NEW o \in Owner \cup {None}, Write(w, r, o)
        PROVE  TypeOK'
    <2> DEFINE c == NewChange(w, r, o)
    <2>1. /\ own' = [own EXCEPT ![w] = @ \cup {r}] /\ view' = [view EXCEPT ![w][r] = o]
          /\ UNCHANGED <<mode, db, savepoint, tasks, mailbox, request, received, audience>>
      BY <1>6 DEF Write
    <2>2. own' \in [Writer -> SUBSET Row] /\ view' \in [Writer -> [Row -> Owner \cup {None}]]
      BY <2>1 DEF TypeOK
    <2>3. log' \in Seq(Change) /\ fate' \in [Number -> {"pending", "undone", "committed"}]
      <3>1. Len(log) + 1 \in Number /\ log' = Append(log, c)
            /\ fate' = [fate EXCEPT ![Len(log) + 1] = "pending"] /\ c \in Change
        BY <1>6, NewChangeFacts
      <3> HIDE DEF c
      <3>2. QED BY <3>1 DEF TypeOK
    <2>4. /\ hooks' \in [Writer -> Seq(Change)] /\ sends' = sends
          /\ phase' \in [Writer -> {"idle", "open", "raising", "announcing"}]
          /\ broken' \in [Writer -> BOOLEAN]
          /\ dropped' \subseteq Number /\ faults' \in 0..MaxFaults
      <3>1. CASE /\ hooks' = [hooks EXCEPT ![w] = Append(@, c)]
                 /\ UNCHANGED <<sends, phase, broken, dropped, faults>>
        <4>1. c \in Change
          BY <1>6, NewChangeFacts
        <4> HIDE DEF c
        <4>2. Append(hooks[w], c) \in Seq(Change)
          BY <4>1 DEF TypeOK
        <4>3. hooks' \in [Writer -> Seq(Change)]
          BY <3>1, <4>2 DEF TypeOK
        <4>4. QED BY <3>1, <4>3 DEF TypeOK
      <3>2. CASE /\ faults < MaxFaults /\ faults' = faults + 1
                 /\ dropped' = dropped \cup {Len(log) + 1}
                 /\ \E breaks \in BOOLEAN :
                       /\ broken' = [broken EXCEPT ![w] = breaks]
                       /\ phase' = [phase EXCEPT ![w] = IF breaks THEN "raising" ELSE "open"]
                 /\ UNCHANGED <<hooks, sends>>
        <4>1. faults' \in 0..MaxFaults /\ dropped' \subseteq Number
          BY <1>6, <3>2, NewChangeFacts, BroadcastAssumption DEF TypeOK
        <4>2. QED BY <3>2, <4>1 DEF TypeOK
      <3>3. QED BY <1>6, <3>1, <3>2, NewChangeFacts
    <2>5. QED BY <2>1, <2>2, <2>3, <2>4 DEF TypeOK
  <1>7. ASSUME NEW w \in Writer, Announce(w) PROVE TypeOK'
    <2>1. CASE hooks[w] = <<>>
      BY <1>7, <2>1 DEF Announce, TypeOK
    <2>2. CASE hooks[w] # <<>>
      <3> DEFINE out == Messages(Head(hooks[w]))
      <3>1. hooks[w] \in Seq(Change)
        BY DEF TypeOK
      <3>2. Head(hooks[w]) \in Change /\ Tail(hooks[w]) \in Seq(Change)
        BY <2>2, <3>1, HeadFacts
      <3>3. out \in Seq(Message)
        BY <3>2, MessagesFacts
      <3> HIDE DEF out
      <3>4. /\ hooks' = [hooks EXCEPT ![w] = Tail(@)] /\ UNCHANGED phase
            /\ \/ tasks' = tasks \cup {out[k] : k \in DOMAIN out} /\ UNCHANGED sends
               \/ sends' = [sends EXCEPT ![w] = out] /\ UNCHANGED tasks
        BY <1>7, <2>2 DEF Announce, Snapshot, out
      <3>5. hooks' \in [Writer -> Seq(Change)] /\ sends' \in [Writer -> Seq(Message)]
            /\ tasks' \subseteq Message
        <4>1. hooks' \in [Writer -> Seq(Change)]
          BY <3>2, <3>4 DEF TypeOK
        <4>2. {out[k] : k \in DOMAIN out} \subseteq Message
          BY <3>3
        <4>3. tasks \subseteq Message /\ sends \in [Writer -> Seq(Message)]
          BY DEF TypeOK
        <4>4. CASE tasks' = tasks \cup {out[k] : k \in DOMAIN out} /\ UNCHANGED sends
          BY <4>1, <4>2, <4>3, <4>4
        <4>5. CASE sends' = [sends EXCEPT ![w] = out] /\ UNCHANGED tasks
          BY <3>3, <4>1, <4>3, <4>5
        <4>6. QED BY <3>4, <4>4, <4>5
      <3>6. QED BY <1>7, <3>4, <3>5 DEF Announce, TypeOK
    <2>3. QED BY <2>1, <2>2
  <1>8. ASSUME NEW w \in Writer, SendNow(w) PROVE TypeOK'
    <2>1. sends[w] \in Seq(Message) /\ sends[w] # <<>>
      BY <1>8 DEF SendNow, TypeOK
    <2>2. Head(sends[w]) \in Message /\ Tail(sends[w]) \in Seq(Message)
      BY <2>1, HeadFacts
    <2>3. sends' \in [Writer -> Seq(Message)]
      BY <1>8, <2>2 DEF SendNow, RestOfSends, TypeOK
    <2>4. QED BY <1>8, <2>2, <2>3, SendTyped DEF SendNow, TypeOK
  <1>9. ASSUME NEW m \in tasks, RunTask(m) PROVE TypeOK'
    <2>1. m \in Message /\ tasks' \subseteq Message
      BY <1>9 DEF RunTask, TypeOK
    <2>2. QED BY <1>9, <2>1, SendTyped DEF RunTask, TypeOK
  <1>10. ASSUME NEW s \in Subscriber, Receive(s) PROVE TypeOK'
    <2>1. mailbox[s] \in Seq(Change) /\ mailbox[s] # <<>> /\ received[s] \in Seq(Change)
      BY <1>10 DEF Receive, TypeOK
    <2>2. Head(mailbox[s]) \in Change /\ Tail(mailbox[s]) \in Seq(Change)
      BY <2>1, HeadFacts
    <2>3. Append(received[s], Head(mailbox[s])) \in Seq(Change)
      BY <2>1, <2>2
    <2>4. mailbox' \in [Subscriber -> Seq(Change)] /\ received' \in [Subscriber -> Seq(Change)]
      BY <1>10, <2>2, <2>3 DEF Receive, TypeOK
    <2>5. QED BY <1>10, <2>4 DEF Receive, TypeOK
  <1>11. ASSUME NEW s \in Subscriber, NEW q \in Asked, Subscribe(s, q) PROVE TypeOK'
    BY <1>11 DEF Subscribe, TypeOK
  <1>12. CASE UNCHANGED vars
    BY <1>12 DEF vars, TypeOK
  <1>13. QED
    BY <1>1, <1>2, <1>3, <1>4, <1>5, <1>6, <1>7, <1>8, <1>9, <1>10, <1>11, <1>12
       DEF Next, Transaction, Delivery

(* Every step keeps what was written in the history, and committed changes  *)
(* stay committed.                                                          *)
Remembers ==
    /\ DOMAIN log \subseteq DOMAIN log'
    /\ \A n \in DOMAIN log : log'[n] = log[n]
    /\ \A n \in DOMAIN log : fate[n] = "committed" => fate'[n] = "committed"
    /\ \A n \in DOMAIN log : fate[n] = "undone" => fate'[n] = "undone"

(* The steps that add nothing to the history. *)
LEMMA SettleRemembers ==
    ASSUME Base, NEW w, NEW mark, NEW state, Settle(w, mark, state), UNCHANGED log
    PROVE  Remembers
  BY LogFacts DEF Settle, Remembers

LEMMA HistoryStep ==
    ASSUME Base, [Next]_vars
    PROVE  Remembers /\ Numbered'
  <1> USE DEF writing, sending, past
  <1>1. TypeOK /\ Numbered
    BY DEF Base
  <1>2. ASSUME UNCHANGED <<log, fate>> PROVE Remembers
    BY <1>2 DEF Remembers
  <1>3. ASSUME UNCHANGED log PROVE Numbered'
    BY <1>1, <1>3 DEF Numbered
  <1>4. ASSUME NEW w \in Writer,
               Begin(w) \/ OpenSavepoint(w) \/ Raise(w) \/ Announce(w) \/ SendNow(w)
        PROVE  Remembers /\ Numbered'
    BY <1>2, <1>3, <1>4 DEF Begin, OpenSavepoint, Raise, Announce, SendNow
  <1>5. ASSUME NEW w \in Writer, ReleaseSavepoint(w) \/ Unwind(w) \/ Commit(w)
        PROVE  Remembers /\ Numbered'
    <2>1. UNCHANGED log
      BY <1>5 DEF ReleaseSavepoint, Unwind, Commit
    <2>2. \/ \E mark, state : Settle(w, mark, state)
          \/ UNCHANGED fate
      BY <1>5 DEF ReleaseSavepoint, Unwind, Commit, Restore, Undo
    <2>3. QED BY <1>2, <1>3, <2>1, <2>2, SettleRemembers
  <1>6. ASSUME NEW w \in Writer, NEW r \in Row, NEW o \in Owner \cup {None}, Write(w, r, o)
        PROVE  Remembers /\ Numbered'
    <2> DEFINE c == NewChange(w, r, o)
    <2>1. /\ c \in Change /\ c.n = Len(log) + 1 /\ log' = Append(log, c)
          /\ Len(log) \in Nat /\ Len(log) + 1 \in Number
          /\ fate' = [fate EXCEPT ![Len(log) + 1] = "pending"]
      BY <1>1, <1>6, NewChangeFacts
    <2> HIDE DEF c
    <2>2. /\ DOMAIN log = 1..Len(log) /\ DOMAIN log' = 1..(Len(log) + 1)
          /\ \A n \in DOMAIN log : log'[n] = log[n] /\ n # Len(log) + 1
          /\ log'[Len(log) + 1] = c
      BY <1>1, <2>1 DEF TypeOK
    <2>3. DOMAIN log \subseteq DOMAIN log'
      BY <2>1, <2>2
    <2>4. \A n \in DOMAIN log : fate'[n] = fate[n]
      BY <1>1, <2>1, <2>2 DEF TypeOK
    <2>5. Remembers
      BY <2>2, <2>3, <2>4 DEF Remembers
    <2>6. ASSUME NEW n \in DOMAIN log' PROVE log'[n].n = n
      <3>1. CASE n \in DOMAIN log
        BY <1>1, <2>2, <3>1 DEF Numbered
      <3>2. CASE n = Len(log) + 1
        BY <2>1, <2>2, <3>2
      <3>3. QED BY <2>1, <2>2, <3>1, <3>2
    <2>7. QED BY <2>5, <2>6 DEF Numbered
  <1>7. ASSUME NEW m \in tasks, RunTask(m) PROVE Remembers /\ Numbered'
    BY <1>2, <1>3, <1>7 DEF RunTask
  <1>8. ASSUME NEW s \in Subscriber, NEW q \in Asked, Subscribe(s, q)
        PROVE  Remembers /\ Numbered'
    BY <1>2, <1>3, <1>8 DEF Subscribe
  <1>9. ASSUME NEW s \in Subscriber, Receive(s)
        PROVE  Remembers /\ Numbered'
    BY <1>2, <1>3, <1>9 DEF Receive
  <1>10. CASE UNCHANGED vars
    BY <1>2, <1>3, <1>10 DEF vars
  <1>11. QED
    BY <1>4, <1>5, <1>6, <1>7, <1>8, <1>9, <1>10 DEF Next, Transaction, Delivery

(* Both hold initially. *)
LEMMA InitBase == Init => Base
  <1> SUFFICES ASSUME Init PROVE TypeOK /\ Numbered
    BY DEF Base
  <1>1. TypeOK
    BY BroadcastAssumption, EmptySeq DEF Init, TypeOK
  <1>2. Numbered
    BY DEF Init, Numbered
  <1>3. QED BY <1>1, <1>2

(* The base is kept. *)
LEMMA BaseStep == Base /\ [Next]_vars => Base'
  BY TypeStep, HistoryStep DEF Base

-----------------------------------------------------------------------------
(* Transactions.                                                            *)

(* A savepoint and a need to roll back belong to a running transaction, and *)
(* only an exception leaves one.                                            *)
Transactions ==
    \A w \in Writer :
        /\ broken[w] => phase[w] = "raising"
        /\ savepoint[w] # None => phase[w] \in {"open", "raising"}

LEMMA TransactionsStep ==
    ASSUME TypeOK, Transactions, [Next]_vars
    PROVE  Transactions'
  <1> USE DEF TypeOK, Transactions, writing, sending, past
  <1>1. ASSUME NEW w \in Writer, Begin(w) \/ Raise(w) \/ OpenSavepoint(w)
        PROVE  Transactions'
    BY <1>1 DEF Begin, Raise, OpenSavepoint
  <1>2. ASSUME NEW w \in Writer, ReleaseSavepoint(w) \/ Unwind(w) \/ Commit(w)
        PROVE  Transactions'
    <2>1. CASE ReleaseSavepoint(w)
      BY <2>1 DEF ReleaseSavepoint
    <2>2. CASE Unwind(w) /\ savepoint[w] # None
      BY <2>2 DEF Unwind, Restore
    <2>3. CASE Unwind(w) /\ savepoint[w] = None
      <3>1. /\ broken' = [broken EXCEPT ![w] = FALSE] /\ phase' = [phase EXCEPT ![w] = "idle"]
            /\ UNCHANGED savepoint
        BY <2>3 DEF Unwind, Undo
      <3>2. QED BY <2>3, <3>1
    <2>4. CASE Commit(w)
      BY <2>4 DEF Commit, Undo
    <2>5. QED BY <1>2, <2>1, <2>2, <2>3, <2>4
  <1>3. ASSUME NEW w \in Writer, NEW r \in Row, NEW o \in Owner \cup {None}, Write(w, r, o)
        PROVE  Transactions'
    <2>1. phase[w] = "open" /\ UNCHANGED savepoint
      BY <1>3 DEF Write
    <2>2. \/ UNCHANGED <<phase, broken>>
          \/ \E breaks \in BOOLEAN :
                /\ broken' = [broken EXCEPT ![w] = breaks]
                /\ phase' = [phase EXCEPT ![w] = IF breaks THEN "raising" ELSE "open"]
      BY <1>3 DEF Write, Propagates
    <2>3. QED BY <2>1, <2>2
  <1>4. ASSUME NEW w \in Writer, Announce(w) \/ SendNow(w) PROVE Transactions'
    BY <1>4 DEF Announce, SendNow
  <1>5. ASSUME NEW m \in tasks, RunTask(m) PROVE Transactions'
    BY <1>5 DEF RunTask
  <1>6. ASSUME NEW s \in Subscriber, Receive(s) PROVE Transactions'
    BY <1>6 DEF Receive
  <1>7. ASSUME NEW s \in Subscriber, NEW q \in Asked, Subscribe(s, q) PROVE Transactions'
    BY <1>7 DEF Subscribe
  <1>8. CASE UNCHANGED vars
    BY <1>8 DEF vars
  <1>9. QED
    BY <1>1, <1>2, <1>3, <1>4, <1>5, <1>6, <1>7, <1>8 DEF Next, Transaction, Delivery

(* Types, numbers and transactions are an invariant. *)
LEMMA TransactionsHold == Spec => [](Base /\ Transactions)
  <1>1. Init => Base /\ Transactions
    BY InitBase DEF Init, Transactions
  <1>2. Base /\ Transactions /\ [Next]_vars => (Base /\ Transactions)'
    BY BaseStep, TransactionsStep DEF Base
  <1>3. QED BY <1>1, <1>2, PTL DEF Spec

(* The variables of the broadcast keep their types.                         *)
THEOREM Typing == Spec => []TypeOK
  BY TransactionsHold, PTL DEF Base

(* A notification that fails never undoes the writes of a block that ends   *)
(* without an exception: only an exception undoes a change.                 *)
THEOREM SuccessKept == Spec => SuccessIsKept
  <1> DEFINE Kept == \A n \in DOMAIN log : fate[n] = "pending" /\ fate'[n] = "undone" =>
                         phase[log[n].by] = "raising"
  <1> USE DEF writing, sending, past
  <1>1. ASSUME Base, Transactions, Next PROVE Kept
    <2>0. TypeOK /\ \A n \in DOMAIN log : n \in Number /\ log[n] \in Change /\ log[n].by \in Writer
      BY <1>1, LogFacts DEF Base, Change
    <2>1. ASSUME UNCHANGED fate PROVE Kept
      BY <2>1
    <2>2. ASSUME NEW w \in Writer, NEW mark, NEW state, Settle(w, mark, state),
                 state = "committed" \/ phase[w] = "raising"
          PROVE  Kept
      BY <2>0, <2>2 DEF Settle
    <2> HIDE DEF Kept
    <2>3. ASSUME NEW w \in Writer,
                 \/ Begin(w) \/ OpenSavepoint(w) \/ Raise(w) \/ Announce(w) \/ SendNow(w)
                 \/ ReleaseSavepoint(w)
          PROVE  Kept
      BY <1>1, <2>1, <2>3 DEF Begin, OpenSavepoint, Raise, Announce, SendNow,
                              ReleaseSavepoint, Transactions
    <2>4. ASSUME NEW w \in Writer, Unwind(w) PROVE Kept
      BY <2>2, <2>4 DEF Unwind, Restore, Undo
    <2>5. ASSUME NEW w \in Writer, Commit(w) PROVE Kept
      BY <1>1, <2>2, <2>5 DEF Commit, Transactions
    <2>6. ASSUME NEW w \in Writer, NEW r \in Row, NEW o \in Owner \cup {None}, Write(w, r, o)
          PROVE  Kept
      <3>1. \A n \in DOMAIN log : fate'[n] \in {fate[n], "pending"}
        BY <2>0, <2>6, NewChangeFacts DEF TypeOK
      <3>2. QED BY <3>1 DEF Kept
    <2>7. ASSUME NEW m \in tasks, RunTask(m) PROVE Kept
      BY <2>1, <2>7 DEF RunTask
    <2>8. ASSUME NEW s \in Subscriber, Receive(s) PROVE Kept
      BY <2>1, <2>8 DEF Receive
    <2>9. ASSUME NEW s \in Subscriber, NEW q \in Asked, Subscribe(s, q) PROVE Kept
      BY <2>1, <2>9 DEF Subscribe
    <2>10. QED
      BY <1>1, <2>3, <2>4, <2>5, <2>6, <2>7, <2>8, <2>9 DEF Next, Transaction, Delivery
  <1>2. ASSUME UNCHANGED vars PROVE Kept
    BY <1>2 DEF vars
  <1> HIDE DEF Kept
  <1>3. Base /\ Transactions /\ [Next]_vars => Kept
    BY <1>1, <1>2
  <1>4. (Base /\ Transactions /\ [Next]_vars) => [Kept]_vars
    BY <1>3
  <1>5. QED BY <1>4, TransactionsHold, PTL DEF Spec, SuccessIsKept, Kept

-----------------------------------------------------------------------------
(* From the hooks of a transaction to the mailboxes.                        *)

Known(c) == c.n \in DOMAIN log /\ log[c.n] = c
Stands(c) == Known(c) /\ fate[c.n] = "committed"
InFlight == tasks \cup UNION {Elements(sends[w]) : w \in Writer}
Got(s) == Elements(mailbox[s]) \cup Elements(received[s])

(* A snapshot that waits belongs to a change that is pending, or committed  *)
(* once the callbacks run; a savepoint restores those registered before it. *)
Waits(c, w, state) == Known(c) /\ c.by = w /\ fate[c.n] = state
HookOK(w) ==
    /\ \A c \in Elements(hooks[w]) :
          Waits(c, w, IF phase[w] = "announcing" THEN "committed" ELSE "pending")
    /\ Distinct(hooks[w])
    /\ phase[w] = "idle" => hooks[w] = <<>>
Hooks == \A w \in Writer : HookOK(w)
Marked(w, p) ==
    /\ p.mark \in 0..Len(log) /\ Distinct(p.hooks)
    /\ \A c \in Elements(p.hooks) : Waits(c, w, "pending") /\ c.n <= p.mark
Marks == \A w \in Writer : savepoint[w] # None => Marked(w, savepoint[w])

(* What is being sent was committed, by the writer that sends it, and goes  *)
(* to one of its groups; its snapshot has been taken from the hooks.        *)
Sent ==
    /\ \A m \in InFlight :
          /\ Stands(m.what)
          /\ m.k \in DOMAIN Targets(m.what) /\ m.to = Targets(m.what)[m.k]
    /\ \A w \in Writer :
          /\ Distinct(sends[w])
          /\ \A m \in Elements(sends[w]) : m.what.by = w
          /\ mode.loop => sends[w] = <<>>
          /\ \A c \in Elements(hooks[w]), m \in InFlight : m.what # c
    /\ ~mode.loop => tasks = {}

(* A subscriber gets what was committed, and its channel only what concerns *)
(* its object and cannot contradict its scope.                              *)
Mail ==
    \A s \in Subscriber :
        /\ \A c \in Got(s) : Stands(c)
        /\ request[s] = None => mailbox[s] = <<>> /\ received[s] = <<>>
        /\ \A c \in Elements(mailbox[s]) :
              ~Contradicts(request[s]) /\ request[s].id \in {None, c.row}

(* It gets each change once, because at most one of the change's groups is  *)
(* one of its own.                                                          *)
Once ==
    \A s \in Subscriber :
        /\ Distinct(mailbox[s]) /\ Distinct(received[s])
        /\ Elements(mailbox[s]) \cap Elements(received[s]) = {}
        /\ \A w \in Writer : Elements(hooks[w]) \cap Got(s) = {}
        /\ \A m \in InFlight : s \in Members(m.to) => m.what \notin Got(s)

(* Nothing is forgotten on the way: a change that did not fail is a hook of *)
(* its writer, of the savepoint too if it is older, then a message to a     *)
(* group of each subscriber that wants it, then in the channel.             *)
OnItsWay(c, s) ==
    \/ c \in Elements(hooks[c.by])
    \/ \E m \in InFlight : m.what = c /\ s \in Members(m.to)
    \/ c \in Got(s)
Registered ==
    \A n \in DOMAIN log : fate[n] = "pending" /\ n \notin dropped =>
        /\ log[n] \in Elements(hooks[log[n].by])
        /\ savepoint[log[n].by] # None /\ n <= savepoint[log[n].by].mark =>
               log[n] \in Elements(savepoint[log[n].by].hooks)
Reaches ==
    \A s \in Subscriber : \A n \in audience[s] :
        /\ n \in DOMAIN log /\ fate[n] = "committed" /\ request[s] # None
        /\ n \notin dropped /\ Decidable(log[n], request[s]) /\ Wanted(log[n], request[s]) =>
               OnItsWay(log[n], s)

-----------------------------------------------------------------------------
(* The hooks keep their places.                                             *)

(* A change in the history is one that was written. *)
LEMMA KnownFacts ==
    ASSUME Base, NEW c, Known(c)
    PROVE  c \in Change /\ c.n \in Number /\ c.n \in Nat /\ c.n \in DOMAIN log
           /\ c.by \in Writer
  <1>1. c.n \in DOMAIN log /\ log[c.n] = c
    BY DEF Known
  <1>2. c \in Change
    BY <1>1, LogFacts
  <1>3. QED BY <1>1, <1>2, BroadcastAssumption DEF Change, Number

(* It stays there, and committed. *)
LEMMA KnownStays ==
    ASSUME Base, [Next]_vars, NEW c, Known(c)
    PROVE  Known(c)' /\ (Stands(c) => Stands(c)')
  <1>1. Remembers /\ c.n \in DOMAIN log
    BY HistoryStep, KnownFacts
  <1>2. QED BY <1>1 DEF Remembers, Known, Stands

(* What the end of a block decides of a change. *)
LEMMA SettleFacts ==
    ASSUME Base, NEW w, NEW mark, NEW state, Settle(w, mark, state),
           NEW c, Known(c)
    PROVE  fate'[c.n] = IF c.n > mark /\ c.by = w /\ fate[c.n] = "pending"
                        THEN state ELSE fate[c.n]
  <1>1. c.n \in Number /\ c.n \in DOMAIN log /\ log[c.n] = c
    BY KnownFacts DEF Known
  <1>2. QED BY <1>1 DEF Settle

(* Nothing is new about the hooks of a writer. *)
LEMMA HookStays ==
    ASSUME Base, [Next]_vars, NEW x \in Writer, HookOK(x), hooks'[x] = hooks[x],
           \/ phase'[x] = phase[x]
           \/ phase[x] # "announcing" /\ phase'[x] \in {"open", "raising"},
           \A c \in Elements(hooks[x]) : fate'[c.n] = fate[c.n]
    PROVE  HookOK(x)'
  <1>1. ASSUME NEW c \in Elements(hooks[x])
        PROVE  Waits(c, x, IF phase[x] = "announcing" THEN "committed" ELSE "pending")'
    <2>1. Waits(c, x, IF phase[x] = "announcing" THEN "committed" ELSE "pending")
      BY DEF HookOK
    <2>2. Known(c)'
      BY <2>1, KnownStays DEF Waits
    <2>3. fate'[c.n] = fate[c.n]
      OBVIOUS
    <2>4. QED BY <2>1, <2>2, <2>3 DEF Waits
  <1>2. phase'[x] = "idle" => hooks'[x] = <<>>
    BY DEF HookOK
  <1>3. QED BY <1>1, <1>2 DEF HookOK

(* Nor about its savepoint. *)
LEMMA MarkedStays ==
    ASSUME Base, [Next]_vars, NEW x, NEW p, Marked(x, p),
           \A c \in Elements(p.hooks) : fate'[c.n] = fate[c.n]
    PROVE  Marked(x, p)'
  <1>1. Base'
    BY BaseStep
  <1>2. /\ Len(log) \in Nat /\ Len(log') \in Nat
        /\ DOMAIN log = 1..Len(log) /\ DOMAIN log' = 1..Len(log')
    BY <1>1, LogFacts
  <1>3. DOMAIN log \subseteq DOMAIN log'
    BY HistoryStep DEF Remembers
  <1>4. Len(log) <= Len(log')
    <2>1. CASE Len(log) = 0
      BY <1>2, <2>1
    <2>2. CASE Len(log) # 0
      <3>1. Len(log) \in DOMAIN log'
        BY <1>2, <1>3, <2>2
      <3>2. QED BY <1>2, <3>1
    <2>3. QED BY <2>1, <2>2
  <1>5. p.mark \in 0..Len(log')
    BY <1>2, <1>4 DEF Marked
  <1>6. ASSUME NEW c \in Elements(p.hooks) PROVE Waits(c, x, "pending")' /\ c.n <= p.mark
    <2>1. Waits(c, x, "pending") /\ c.n <= p.mark
      BY DEF Marked
    <2>2. Known(c)'
      BY <2>1, KnownStays DEF Waits
    <2>3. QED BY <2>1, <2>2 DEF Waits
  <1>7. QED BY <1>5, <1>6 DEF Marked

(* A block that ends decides about the changes of its writer only. *)
LEMMA OthersStay ==
    ASSUME Base, [Next]_vars, Hooks, Marks, NEW w \in Writer, NEW mark, NEW state,
           Settle(w, mark, state), NEW x \in Writer, x # w
    PROVE  /\ \A c \in Elements(hooks[x]) : fate'[c.n] = fate[c.n]
           /\ savepoint[x] # None =>
                 \A c \in Elements(savepoint[x].hooks) : fate'[c.n] = fate[c.n]
  <1>1. ASSUME NEW c, NEW st, Waits(c, x, st) PROVE fate'[c.n] = fate[c.n]
    BY <1>1, SettleFacts DEF Waits
  <1>2. QED BY <1>1 DEF Hooks, HookOK, Marks, Marked

(* A rollback to a savepoint leaves the hooks registered before it. *)
LEMMA RestoreHooks ==
    ASSUME Base, [Next]_vars, Hooks, Marks, NEW w \in Writer, savepoint[w] # None,
           Restore(w), phase'[w] \in {"open", "raising"},
           \A x \in Writer \ {w} : phase'[x] = phase[x]
    PROVE  Hooks'
  <1>1. Marked(w, savepoint[w]) /\ Settle(w, savepoint[w].mark, "undone")
        /\ hooks' = [hooks EXCEPT ![w] = savepoint[w].hooks]
    BY DEF Marks, Restore
  <1>2. TypeOK
    BY DEF Base
  <1>3. ASSUME NEW c \in Elements(savepoint[w].hooks) PROVE Waits(c, w, "pending")'
    <2>1. Waits(c, w, "pending") /\ c.n <= savepoint[w].mark /\ savepoint[w].mark \in Nat
      BY <1>1, LogFacts DEF Marked
    <2>2. c.n \in Nat /\ Known(c)'
      BY <2>1, KnownFacts, KnownStays DEF Waits
    <2>3. fate'[c.n] = fate[c.n]
      BY <1>1, <2>1, <2>2, SettleFacts DEF Waits
    <2>4. QED BY <2>1, <2>2, <2>3 DEF Waits
  <1>4. HookOK(w)'
    <2>1. hooks'[w] = savepoint[w].hooks /\ Distinct(savepoint[w].hooks)
      BY <1>1, <1>2 DEF TypeOK, Marked
    <2>2. QED BY <1>3, <2>1 DEF HookOK
  <1>5. ASSUME NEW x \in Writer, x # w PROVE HookOK(x)'
    <2>1. hooks'[x] = hooks[x] /\ phase'[x] = phase[x] /\ HookOK(x)
      BY <1>1, <1>2, <1>5 DEF TypeOK, Hooks
    <2>2. \A c \in Elements(hooks[x]) : fate'[c.n] = fate[c.n]
      BY <1>1, <1>5, OthersStay
    <2>3. QED BY <2>1, <2>2, HookStays
  <1>6. QED BY <1>4, <1>5 DEF Hooks

(* A transaction that is undone leaves none. *)
LEMMA UndoHooks ==
    ASSUME Base, [Next]_vars, Hooks, Marks, NEW w \in Writer, Undo(w)
    PROVE  Hooks'
  <1>1. TypeOK /\ Settle(w, 0, "undone")
        /\ hooks' = [hooks EXCEPT ![w] = <<>>] /\ phase' = [phase EXCEPT ![w] = "idle"]
    BY DEF Base, Undo
  <1>2. HookOK(w)'
    <2>1. hooks'[w] = <<>>
      BY <1>1 DEF TypeOK
    <2>2. QED BY <2>1, EmptyFacts DEF HookOK
  <1>3. ASSUME NEW x \in Writer, x # w PROVE HookOK(x)'
    <2>1. hooks'[x] = hooks[x] /\ phase'[x] = phase[x] /\ HookOK(x)
      BY <1>1, <1>3 DEF TypeOK, Hooks
    <2>2. \A c \in Elements(hooks[x]) : fate'[c.n] = fate[c.n]
      BY <1>1, <1>3, OthersStay
    <2>3. QED BY <2>1, <2>2, HookStays
  <1>4. QED BY <1>2, <1>3 DEF Hooks

(* Every step keeps the hooks. *)
LEMMA HooksStep ==
    ASSUME Base, Transactions, Hooks, Marks, [Next]_vars
    PROVE  Hooks'
  <1> USE DEF writing, sending, past
  <1>1. TypeOK
    BY DEF Base
  <1>2. ASSUME UNCHANGED <<hooks, fate>>,
               \A x \in Writer : \/ phase'[x] = phase[x]
                                 \/ phase[x] # "announcing" /\ phase'[x] \in {"open", "raising"}
        PROVE  Hooks'
    BY <1>2, HookStays DEF Hooks
  <1>3. ASSUME NEW w \in Writer, Begin(w) \/ OpenSavepoint(w) \/ Raise(w) \/ SendNow(w)
        PROVE  Hooks'
    <2>1. \A x \in Writer : \/ phase'[x] = phase[x]
                            \/ phase[x] # "announcing" /\ phase'[x] \in {"open", "raising"}
      BY <1>1, <1>3 DEF Begin, OpenSavepoint, Raise, SendNow, TypeOK
    <2>2. UNCHANGED <<hooks, fate>>
      BY <1>3 DEF Begin, OpenSavepoint, Raise, SendNow
    <2>3. QED BY <1>2, <2>1, <2>2
  <1>4. ASSUME NEW w \in Writer, ReleaseSavepoint(w) PROVE Hooks'
    <2>1. phase[w] = "open" /\ savepoint[w] # None /\ UNCHANGED phase
      BY <1>4 DEF ReleaseSavepoint
    <2>2. CASE Restore(w)
      BY <2>1, <2>2, RestoreHooks
    <2>3. CASE UNCHANGED <<hooks, fate>>
      BY <1>2, <2>1, <2>3
    <2>4. QED BY <1>4, <2>2, <2>3 DEF ReleaseSavepoint
  <1>5. ASSUME NEW w \in Writer, Unwind(w) PROVE Hooks'
    <2>1. CASE savepoint[w] = None
      BY <1>5, <2>1, UndoHooks DEF Unwind
    <2>2. CASE savepoint[w] # None
      <3>1. PICK caught \in BOOLEAN :
                phase' = [phase EXCEPT ![w] = IF caught THEN "open" ELSE "raising"]
        BY <1>5, <2>2 DEF Unwind
      <3>2. phase'[w] \in {"open", "raising"} /\ \A x \in Writer \ {w} : phase'[x] = phase[x]
        BY <1>1, <3>1 DEF TypeOK
      <3>3. QED BY <1>5, <2>2, <3>2, RestoreHooks DEF Unwind
    <2>3. QED BY <2>1, <2>2
  <1>6. ASSUME NEW w \in Writer, Commit(w) PROVE Hooks'
    <2>1. CASE broken[w]
      BY <1>6, <2>1, UndoHooks DEF Commit
    <2>2. CASE ~broken[w]
      <3>1. /\ phase[w] = "open" /\ phase' = [phase EXCEPT ![w] = "announcing"]
            /\ Settle(w, 0, "committed") /\ UNCHANGED hooks
        BY <1>6, <2>2 DEF Commit
      <3>2. phase'[w] = "announcing" /\ \A x \in Writer \ {w} : phase'[x] = phase[x]
        BY <1>1, <3>1 DEF TypeOK
      <3>3. ASSUME NEW c \in Elements(hooks[w]) PROVE Waits(c, w, "committed")'
        <4>1. Waits(c, w, "pending")
          BY <3>1 DEF Hooks, HookOK
        <4>2. Known(c)' /\ c.n > 0
          BY <4>1, KnownStays, KnownFacts DEF Waits, Number
        <4>3. fate'[c.n] = "committed"
          BY <3>1, <4>1, <4>2, SettleFacts DEF Waits
        <4>4. QED BY <4>1, <4>2, <4>3 DEF Waits
      <3>4. HookOK(w)'
        BY <3>1, <3>2, <3>3 DEF HookOK, Hooks
      <3>5. ASSUME NEW x \in Writer, x # w PROVE HookOK(x)'
        <4>1. \A c \in Elements(hooks[x]) : fate'[c.n] = fate[c.n]
          BY <3>1, <3>5, OthersStay
        <4>2. QED BY <3>1, <3>2, <3>5, <4>1, HookStays DEF Hooks
      <3>6. QED BY <3>4, <3>5 DEF Hooks
    <2>3. QED BY <2>1, <2>2
  <1>7. ASSUME NEW w \in Writer, NEW r \in Row, NEW o \in Owner \cup {None}, Write(w, r, o)
        PROVE  Hooks'
    <2>0. PICK d : d = NewChange(w, r, o)
      OBVIOUS
    <2>1. /\ d \in Change /\ d.n = Len(log) + 1 /\ d.by = w /\ d.n \in Number
          /\ Len(log) + 1 \notin DOMAIN log
          /\ fate' = [fate EXCEPT ![d.n] = "pending"] /\ log' = Append(log, d)
          /\ \/ hooks' = [hooks EXCEPT ![w] = Append(@, d)] /\ UNCHANGED phase
             \/ /\ UNCHANGED hooks
                /\ \E breaks \in BOOLEAN :
                      phase' = [phase EXCEPT ![w] = IF breaks THEN "raising" ELSE "open"]
      BY <1>1, <1>7, <2>0, NewChangeFacts
    <2>2. phase[w] = "open"
      BY <1>7 DEF Write
    <2>3. ASSUME NEW c, Known(c) PROVE fate'[c.n] = fate[c.n] /\ c # d
      BY <1>1, <2>1, <2>3, KnownFacts DEF TypeOK
    <2>4. ASSUME NEW x \in Writer, hooks'[x] = hooks[x] PROVE HookOK(x)'
      <3>1. \/ phase'[x] = phase[x]
            \/ phase[x] # "announcing" /\ phase'[x] \in {"open", "raising"}
        BY <1>1, <2>1, <2>2 DEF TypeOK
      <3>2. HookOK(x) /\ \A c \in Elements(hooks[x]) : fate'[c.n] = fate[c.n]
        BY <2>3 DEF Hooks, HookOK, Waits
      <3>3. QED BY <2>4, <3>1, <3>2, HookStays
    <2>5. CASE UNCHANGED hooks
      BY <2>4, <2>5 DEF Hooks
    <2>6. CASE hooks' = [hooks EXCEPT ![w] = Append(@, d)] /\ UNCHANGED phase
      <3>1. hooks'[w] = Append(hooks[w], d) /\ \A x \in Writer \ {w} : hooks'[x] = hooks[x]
        BY <1>1, <2>6 DEF TypeOK
      <3>2. hooks[w] \in Seq(Change)
        BY <1>1 DEF TypeOK
      <3>3. d \notin Elements(hooks[w]) /\ HookOK(w)
        BY <2>3 DEF Hooks, HookOK, Waits
      <3>4. Elements(hooks'[w]) = Elements(hooks[w]) \cup {d} /\ Distinct(hooks'[w])
        BY <2>1, <3>1, <3>2, <3>3, AppendFacts DEF HookOK
      <3>5. Waits(d, w, "pending")'
        <4>1. d.n \in DOMAIN log' /\ log'[d.n] = d
          BY <1>1, <2>1 DEF TypeOK
        <4>2. fate'[d.n] = "pending"
          BY <1>1, <2>1 DEF TypeOK
        <4>3. QED BY <2>1, <4>1, <4>2 DEF Waits, Known
      <3>6. ASSUME NEW c \in Elements(hooks[w]) PROVE Waits(c, w, "pending")'
        <4>1. Waits(c, w, "pending")
          BY <2>2, <3>3 DEF HookOK
        <4>2. Known(c)' /\ fate'[c.n] = fate[c.n]
          BY <2>3, <4>1, KnownStays DEF Waits
        <4>3. QED BY <4>1, <4>2 DEF Waits
      <3>7. phase'[w] = "open"
        BY <2>2, <2>6
      <3>8. HookOK(w)'
        BY <3>4, <3>5, <3>6, <3>7 DEF HookOK
      <3>9. QED BY <2>4, <3>1, <3>8 DEF Hooks
    <2>7. QED BY <2>1, <2>5, <2>6
  <1>8. ASSUME NEW w \in Writer, Announce(w) PROVE Hooks'
    <2>1. CASE hooks[w] = <<>>
      <3>1. /\ phase' = [phase EXCEPT ![w] = "idle"] /\ UNCHANGED <<hooks, fate>>
        BY <1>8, <2>1 DEF Announce
      <3>2. HookOK(w)'
        BY <2>1, <3>1, EmptyFacts DEF HookOK
      <3>3. ASSUME NEW x \in Writer, x # w PROVE HookOK(x)'
        <4>1. phase'[x] = phase[x]
          BY <1>1, <3>1, <3>3 DEF TypeOK
        <4>2. QED BY <3>1, <4>1, HookStays DEF Hooks
      <3>4. QED BY <3>2, <3>3 DEF Hooks
    <2>2. CASE hooks[w] # <<>>
      <3>1. phase' = phase /\ fate' = fate /\ hooks' = [hooks EXCEPT ![w] = Tail(@)]
        BY <1>8, <2>2 DEF Announce
      <3>2. hooks[w] \in Seq(Change) /\ hooks'[w] = Tail(hooks[w])
            /\ \A x \in Writer \ {w} : hooks'[x] = hooks[x]
        BY <1>1, <3>1 DEF TypeOK
      <3>3. HookOK(w) /\ Elements(hooks'[w]) \subseteq Elements(hooks[w])
            /\ Distinct(hooks'[w])
        <4>1. HookOK(w) /\ Distinct(hooks[w])
          BY DEF Hooks, HookOK
        <4>2. Elements(hooks[w]) = {Head(hooks[w])} \cup Elements(Tail(hooks[w]))
              /\ Distinct(Tail(hooks[w]))
          BY <2>2, <3>2, <4>1, HeadFacts
        <4>3. QED BY <3>2, <4>1, <4>2
      <3>4. ASSUME NEW c \in Elements(hooks'[w])
            PROVE  Waits(c, w, IF phase[w] = "announcing" THEN "committed" ELSE "pending")'
        <4>1. Waits(c, w, IF phase[w] = "announcing" THEN "committed" ELSE "pending")
          BY <3>3 DEF HookOK
        <4>2. Known(c)'
          BY <4>1, KnownStays DEF Waits
        <4>3. QED BY <3>1, <4>1, <4>2 DEF Waits
      <3>5. phase'[w] # "idle"
        BY <1>8, <3>1 DEF Announce
      <3>6. HookOK(w)'
        BY <3>3, <3>4, <3>5 DEF HookOK
      <3>7. ASSUME NEW x \in Writer, x # w PROVE HookOK(x)'
        BY <3>1, <3>2, <3>7, HookStays DEF Hooks
      <3>8. QED BY <3>6, <3>7 DEF Hooks
    <2>3. QED BY <2>1, <2>2
  <1>9. ASSUME NEW m \in tasks, RunTask(m) PROVE Hooks'
    BY <1>2, <1>9 DEF RunTask
  <1>10. ASSUME NEW s \in Subscriber, Receive(s) PROVE Hooks'
    BY <1>2, <1>10 DEF Receive
  <1>11. ASSUME NEW s \in Subscriber, NEW q \in Asked, Subscribe(s, q) PROVE Hooks'
    BY <1>2, <1>11 DEF Subscribe
  <1>12. CASE UNCHANGED vars
    BY <1>2, <1>12 DEF vars
  <1>13. QED
    BY <1>3, <1>4, <1>5, <1>6, <1>7, <1>8, <1>9, <1>10, <1>11, <1>12
       DEF Next, Transaction, Delivery

(* A savepoint of which nothing changed. *)
LEMMA MarkStays ==
    ASSUME Base, [Next]_vars, Marks, NEW x \in Writer, savepoint'[x] = savepoint[x],
           savepoint[x] # None =>
               \A c \in Elements(savepoint[x].hooks) : fate'[c.n] = fate[c.n]
    PROVE  savepoint'[x] # None => Marked(x, savepoint[x])'
  <1>1. PICK p : p = savepoint[x]
    OBVIOUS
  <1>2. CASE p # None
    <2>1. Marked(x, p)'
      BY <1>1, <1>2, MarkedStays DEF Marks
    <2>2. savepoint'[x] = p
      BY <1>1
    <2>3. QED BY <2>1, <2>2 DEF Marked
  <1>3. QED BY <1>1, <1>2

(* Every step keeps the savepoints. *)
LEMMA MarksStep ==
    ASSUME Base, Transactions, Hooks, Marks, [Next]_vars
    PROVE  Marks'
  <1> USE DEF writing, sending, past
  <1>1. TypeOK
    BY DEF Base
  <1>2. ASSUME NEW w \in Writer, NEW mark, NEW state, Settle(w, mark, state),
               savepoint'[w] = None, \A x \in Writer \ {w} : savepoint'[x] = savepoint[x]
        PROVE  Marks'
    <2>1. ASSUME NEW x \in Writer, x # w
          PROVE  savepoint'[x] # None => Marked(x, savepoint[x])'
      BY <1>2, <2>1, OthersStay, MarkStays
    <2>2. QED BY <1>2, <2>1 DEF Marks
  <1>3. ASSUME UNCHANGED <<savepoint, fate>> PROVE Marks'
    BY <1>3, MarkStays DEF Marks
  <1>4. ASSUME NEW w \in Writer, Begin(w) \/ Raise(w) \/ Announce(w) \/ SendNow(w)
        PROVE  Marks'
    BY <1>3, <1>4 DEF Begin, Raise, Announce, SendNow
  <1>5. ASSUME NEW w \in Writer, OpenSavepoint(w) PROVE Marks'
    <2>1. PICK p : p = [view |-> view[w], own |-> own[w], hooks |-> hooks[w],
                        mark |-> Len(log)]
      OBVIOUS
    <2>2. /\ phase[w] = "open" /\ savepoint' = [savepoint EXCEPT ![w] = p]
          /\ UNCHANGED <<fate, log, hooks>>
      BY <1>5, <2>1 DEF OpenSavepoint
    <2>3. savepoint'[w] = p /\ \A x \in Writer \ {w} : savepoint'[x] = savepoint[x]
      BY <1>1, <2>2 DEF TypeOK
    <2>4. Len(log) \in Nat /\ DOMAIN log = 1..Len(log)
      BY LogFacts
    <2>5. ASSUME NEW c \in Elements(hooks[w])
          PROVE  Waits(c, w, "pending")' /\ c.n <= Len(log)
      <3>1. Waits(c, w, "pending")
        BY <2>2 DEF Hooks, HookOK
      <3>2. c.n <= Len(log)
        BY <2>4, <3>1, KnownFacts DEF Waits
      <3>3. QED BY <2>2, <3>1, <3>2 DEF Waits, Known
    <2>6. Marked(w, p)'
      <3>1. p.hooks = hooks[w] /\ p.mark = Len(log)
        BY <2>1
      <3>2. Distinct(p.hooks) /\ p.mark \in 0..Len(log')
        BY <2>2, <2>4, <3>1 DEF Hooks, HookOK
      <3>3. QED BY <2>5, <3>1, <3>2 DEF Marked
    <2>7. (savepoint[w] # None => Marked(w, savepoint[w]))'
      BY <2>3, <2>6 DEF Marked
    <2>8. ASSUME NEW x \in Writer, x # w
          PROVE  (savepoint[x] # None => Marked(x, savepoint[x]))'
      BY <2>2, <2>3, <2>8, MarkStays
    <2>9. QED BY <2>7, <2>8 DEF Marks
  <1>6. ASSUME NEW w \in Writer, ReleaseSavepoint(w) PROVE Marks'
    <2>1. savepoint'[w] = None /\ \A x \in Writer \ {w} : savepoint'[x] = savepoint[x]
      BY <1>1, <1>6 DEF ReleaseSavepoint, TypeOK
    <2>2. CASE Settle(w, savepoint[w].mark, "undone")
      BY <1>2, <2>1, <2>2
    <2>3. CASE UNCHANGED fate
      <3>1. ASSUME NEW x \in Writer, x # w
            PROVE  (savepoint[x] # None => Marked(x, savepoint[x]))'
        BY <2>1, <2>3, <3>1, MarkStays
      <3>2. QED BY <2>1, <3>1 DEF Marks
    <2>4. QED BY <1>6, <2>2, <2>3 DEF ReleaseSavepoint, Restore
  <1>7. ASSUME NEW w \in Writer, Unwind(w) PROVE Marks'
    <2>1. savepoint'[w] = None /\ \A x \in Writer \ {w} : savepoint'[x] = savepoint[x]
      BY <1>1, <1>7 DEF Unwind, TypeOK
    <2>2. \E mark : Settle(w, mark, "undone")
      BY <1>7 DEF Unwind, Restore, Undo
    <2>3. QED BY <1>2, <2>1, <2>2
  <1>8. ASSUME NEW w \in Writer, Commit(w) PROVE Marks'
    <2>1. savepoint'[w] = None /\ \A x \in Writer \ {w} : savepoint'[x] = savepoint[x]
      BY <1>8 DEF Commit
    <2>2. \E state : Settle(w, 0, state)
      BY <1>8 DEF Commit, Undo
    <2>3. QED BY <1>2, <2>1, <2>2
  <1>9. ASSUME NEW w \in Writer, NEW r \in Row, NEW o \in Owner \cup {None}, Write(w, r, o)
        PROVE  Marks'
    <2>1. /\ UNCHANGED savepoint /\ fate' = [fate EXCEPT ![Len(log) + 1] = "pending"]
          /\ Len(log) + 1 \notin DOMAIN log
      BY <1>1, <1>9, NewChangeFacts DEF Write
    <2>2. ASSUME NEW c, Known(c) PROVE fate'[c.n] = fate[c.n]
      BY <1>1, <2>1, <2>2, KnownFacts DEF TypeOK
    <2>3. ASSUME NEW x \in Writer
          PROVE  (savepoint[x] # None => Marked(x, savepoint[x]))'
      <3>1. savepoint[x] # None =>
                \A c \in Elements(savepoint[x].hooks) : fate'[c.n] = fate[c.n]
        BY <2>2 DEF Marks, Marked, Waits
      <3>2. QED BY <2>1, <3>1, MarkStays
    <2>4. QED BY <2>3 DEF Marks
  <1>10. ASSUME NEW m \in tasks, RunTask(m) PROVE Marks'
    BY <1>3, <1>10 DEF RunTask
  <1>11. ASSUME NEW s \in Subscriber, Receive(s) PROVE Marks'
    BY <1>3, <1>11 DEF Receive
  <1>12. ASSUME NEW s \in Subscriber, NEW q \in Asked, Subscribe(s, q) PROVE Marks'
    BY <1>3, <1>12 DEF Subscribe
  <1>13. CASE UNCHANGED vars
    BY <1>3, <1>13 DEF vars
  <1>14. QED
    BY <1>4, <1>5, <1>6, <1>7, <1>8, <1>9, <1>10, <1>11, <1>12, <1>13
       DEF Next, Transaction, Delivery

-----------------------------------------------------------------------------
(* What a step does to what is sent.                                        *)

(* Transactions send nothing, and leave the hooks of running callbacks.     *)
LEMMA TransactionFrame ==
    ASSUME TypeOK, NEW w \in Writer, Transaction(w)
    PROVE  /\ UNCHANGED <<mode, sends, tasks, request, mailbox, received>>
           /\ \A x \in Writer : "announcing" \in {phase[x], phase'[x]} => hooks'[x] = hooks[x]
  <1> USE DEF writing, sending, past, TypeOK
  <1>1. CASE Begin(w) \/ OpenSavepoint(w) \/ Raise(w)
    BY <1>1 DEF Begin, OpenSavepoint, Raise
  <1>2. CASE ReleaseSavepoint(w)
    BY <1>2 DEF ReleaseSavepoint, Restore
  <1>3. CASE Unwind(w) /\ savepoint[w] # None
    BY <1>3 DEF Unwind, Restore
  <1>4. CASE Unwind(w) /\ savepoint[w] = None
    <2>1. /\ hooks' = [hooks EXCEPT ![w] = <<>>] /\ phase' = [phase EXCEPT ![w] = "idle"]
          /\ UNCHANGED <<mode, sends, tasks, request, mailbox, received>>
      BY <1>4 DEF Unwind, Undo
    <2>2. phase[w] = "raising" /\ phase'[w] = "idle"
      BY <1>4, <2>1 DEF Unwind
    <2>3. \A x \in Writer \ {w} : hooks'[x] = hooks[x]
      BY <2>1
    <2>4. QED BY <2>1, <2>2, <2>3
  <1>5. CASE Commit(w)
    <2>1. UNCHANGED <<mode, sends, tasks, request, mailbox, received>>
      BY <1>5 DEF Commit
    <2>2. CASE hooks' = [hooks EXCEPT ![w] = <<>>] /\ phase' = [phase EXCEPT ![w] = "idle"]
      <3>1. phase[w] = "open" /\ phase'[w] = "idle"
        BY <1>5, <2>2 DEF Commit
      <3>2. \A x \in Writer \ {w} : hooks'[x] = hooks[x]
        BY <2>2
      <3>3. QED BY <2>1, <3>1, <3>2
    <2>3. CASE UNCHANGED hooks
      BY <2>1, <2>3
    <2>4. QED BY <1>5, <2>2, <2>3 DEF Commit, Undo
  <1>6. ASSUME NEW r \in Row, NEW o \in Owner \cup {None}, Write(w, r, o)
        PROVE  /\ UNCHANGED <<mode, sends, tasks, request, mailbox, received>>
               /\ \A x \in Writer : "announcing" \in {phase[x], phase'[x]} => hooks'[x] = hooks[x]
    <2>1. UNCHANGED <<mode, sends, tasks, request, mailbox, received>> /\ phase[w] = "open"
      BY <1>6, NewChangeFacts DEF Write
    <2>2. CASE UNCHANGED hooks
      BY <2>1, <2>2
    <2>3. CASE (\E d : hooks' = [hooks EXCEPT ![w] = d]) /\ UNCHANGED phase
      <3>1. \A x \in Writer \ {w} : hooks'[x] = hooks[x]
        BY <2>3
      <3>2. QED BY <2>1, <2>3, <3>1
    <2>4. QED BY <1>6, <2>2, <2>3, NewChangeFacts
  <1>7. QED BY <1>1, <1>2, <1>3, <1>4, <1>5, <1>6 DEF Transaction

(* A group_send, of a callback or of a task, takes one message. *)
Transmits(m) ==
    /\ m \in InFlight /\ Send(m) /\ InFlight' = InFlight \ {m}
    /\ tasks' \subseteq tasks
    /\ \A w \in Writer : /\ Distinct(sends'[w]) /\ Elements(sends'[w]) \subseteq Elements(sends[w])
                         /\ sends[w] = <<>> => sends'[w] = <<>>
    /\ UNCHANGED <<mode, db, phase, hooks, savepoint, request, received, log, fate, audience>>

LEMMA SendNowFrame ==
    ASSUME Base, Sent, NEW w \in Writer, SendNow(w)
    PROVE  \E m \in Message : Transmits(m)
  <1>1. TypeOK /\ sends[w] # <<>> /\ sends[w] \in Seq(Message)
    BY DEF Base, TypeOK, SendNow
  <1>2. PICK m : m = Head(sends[w])
    OBVIOUS
  <1>3. /\ m \in Message /\ Elements(sends[w]) = {m} \cup Elements(Tail(sends[w]))
        /\ Distinct(Tail(sends[w])) /\ m \notin Elements(Tail(sends[w]))
    <2>1. Distinct(sends[w])
      BY DEF Sent
    <2>2. QED BY <1>1, <1>2, <2>1, HeadFacts
  <1>4. /\ Send(m) /\ sends' = [sends EXCEPT ![w] = Tail(sends[w])] /\ UNCHANGED tasks
        /\ UNCHANGED <<mode, db, phase, hooks, savepoint, request, received, log, fate, audience>>
    BY <1>2 DEF SendNow, RestOfSends, writing
  <1>5. sends'[w] = Tail(sends[w]) /\ \A x \in Writer \ {w} : sends'[x] = sends[x]
    BY <1>1, <1>4 DEF TypeOK
  <1>6. tasks = {}
    BY <1>1 DEF Sent
  <1>7. ASSUME NEW x \in Writer, x # w PROVE m \notin Elements(sends[x])
    BY <1>3, <1>7 DEF Sent
  <1>8. InFlight = UNION {Elements(sends[x]) : x \in Writer}
        /\ InFlight' = UNION {Elements(sends'[x]) : x \in Writer}
    BY <1>4, <1>6 DEF InFlight
  <1>9. InFlight' = InFlight \ {m}
    BY <1>3, <1>5, <1>7, <1>8
  <1>10. \A x \in Writer : /\ Distinct(sends'[x]) /\ Elements(sends'[x]) \subseteq Elements(sends[x])
                           /\ sends[x] = <<>> => sends'[x] = <<>>
    BY <1>1, <1>3, <1>5 DEF Sent
  <1>11. QED BY <1>3, <1>4, <1>8, <1>9, <1>10 DEF Transmits

LEMMA RunTaskFrame ==
    ASSUME Base, Sent, NEW m \in tasks, RunTask(m)
    PROVE  m \in Message /\ Transmits(m)
  <1>1. TypeOK /\ m \in Message
    BY DEF Base, TypeOK
  <1>2. /\ Send(m) /\ tasks' = tasks \ {m} /\ UNCHANGED sends
        /\ UNCHANGED <<mode, db, phase, hooks, savepoint, request, received, log, fate, audience>>
    BY DEF RunTask, writing
  <1>3. \A w \in Writer : sends[w] = <<>>
    BY <1>1 DEF Sent
  <1>4. InFlight = tasks /\ InFlight' = tasks'
    BY <1>2, <1>3, EmptyFacts DEF InFlight
  <1>5. \A w \in Writer : Distinct(sends'[w]) /\ Elements(sends'[w]) \subseteq Elements(sends[w])
    BY <1>2 DEF Sent
  <1>6. QED BY <1>1, <1>2, <1>4, <1>5 DEF Transmits

(* A callback turns its snapshot into messages. *)
LEMMA AnnounceFrame ==
    ASSUME Base, Sent, NEW w \in Writer, Announce(w), hooks[w] # <<>>
    PROVE  \E c \in Change :
               /\ c = Head(hooks[w]) /\ hooks[w] \in Seq(Change)
               /\ Elements(hooks[w]) = {c} \cup Elements(hooks'[w])
               /\ hooks' = [hooks EXCEPT ![w] = Tail(@)]
               /\ InFlight' = InFlight \cup Elements(Messages(c))
               /\ mode.loop => UNCHANGED sends
               /\ ~mode.loop => sends' = [sends EXCEPT ![w] = Messages(c)] /\ UNCHANGED tasks
               /\ phase[w] = "announcing"
               /\ UNCHANGED <<mode, db, phase, mailbox, request, received, log, fate,
                              audience, dropped, savepoint>>
  <1>1. TypeOK /\ hooks[w] \in Seq(Change)
    BY DEF Base, TypeOK
  <1>2. PICK c : c = Head(hooks[w])
    OBVIOUS
  <1>3. c \in Change /\ Elements(hooks[w]) = {c} \cup Elements(Tail(hooks[w]))
    BY <1>1, <1>2, HeadFacts
  <1>4. /\ sends[w] = <<>> /\ hooks' = [hooks EXCEPT ![w] = Tail(@)]
        /\ IF mode.loop
           THEN tasks' = tasks \cup Elements(Messages(c)) /\ UNCHANGED sends
           ELSE sends' = [sends EXCEPT ![w] = Messages(c)] /\ UNCHANGED tasks
        /\ phase[w] = "announcing"
        /\ UNCHANGED <<mode, db, phase, mailbox, request, received, log, fate,
                       audience, dropped, savepoint>>
    BY <1>2 DEF Announce, Snapshot, Elements, past
  <1>5. hooks'[w] = Tail(hooks[w])
    BY <1>1, <1>4 DEF TypeOK
  <1>6. InFlight' = InFlight \cup Elements(Messages(c))
    <2>1. CASE mode.loop
      BY <1>4, <2>1 DEF InFlight
    <2>2. CASE ~mode.loop
      <3>1. sends'[w] = Messages(c) /\ \A x \in Writer \ {w} : sends'[x] = sends[x]
        BY <1>1, <1>4, <2>2 DEF TypeOK
      <3>2. Elements(sends[w]) = {}
        BY <1>4, EmptyFacts
      <3>3. UNION {Elements(sends'[x]) : x \in Writer}
                = Elements(Messages(c)) \cup UNION {Elements(sends[x]) : x \in Writer}
        BY <3>1, <3>2
      <3>4. QED BY <1>4, <2>2, <3>3 DEF InFlight
    <2>3. QED BY <2>1, <2>2
  <1>7. QED BY <1>1, <1>2, <1>3, <1>4, <1>5, <1>6

(* The other steps leave everything that is sent or received alone. *)
Silent ==
    /\ UNCHANGED <<mode, sends, tasks, request, mailbox, received>>
    /\ \A x \in Writer : "announcing" \in {phase[x], phase'[x]} => hooks'[x] = hooks[x]
Announces(w) == Announce(w) /\ hooks[w] # <<>>

LEMMA StepKinds ==
    ASSUME Base, Sent, [Next]_vars
    PROVE  \/ Silent
           \/ \E w \in Writer : Announces(w)
           \/ \E m \in Message : Transmits(m)
           \/ \E s \in Subscriber : Receive(s) \/ \E q \in Asked : Subscribe(s, q)
  <1>1. ASSUME NEW w \in Writer, Transaction(w) PROVE Silent
    BY <1>1, TransactionFrame DEF Base, Silent
  <1>2. ASSUME NEW w \in Writer, Announce(w), hooks[w] = <<>> PROVE Silent
    BY <1>2 DEF Announce, Silent
  <1>3. CASE UNCHANGED vars
    BY <1>3 DEF vars, Silent
  <1>4. ASSUME NEW w \in Writer, SendNow(w) PROVE \E m \in Message : Transmits(m)
    BY <1>4, SendNowFrame
  <1>5. ASSUME NEW m \in tasks, RunTask(m) PROVE \E n \in Message : Transmits(n)
    BY <1>5, RunTaskFrame
  <1>6. QED BY <1>1, <1>2, <1>3, <1>4, <1>5 DEF Next, Delivery, Announces

(* A snapshot that waits is not of a change that is being sent. *)
LEMMA HooksApart ==
    ASSUME Base, [Next]_vars, Hooks', Silent, NEW x \in Writer,
           NEW c \in Elements(hooks'[x]), NEW d, Stands(d),
           c \in Elements(hooks[x]) => c # d
    PROVE  c # d
  <1>1. CASE phase'[x] = "announcing"
    BY <1>1 DEF Silent
  <1>2. CASE phase'[x] # "announcing"
    <2>1. Waits(c, x, "pending")'
      BY <1>2 DEF Hooks, HookOK
    <2>2. Stands(d)'
      BY KnownStays DEF Stands
    <2>3. QED BY <2>1, <2>2 DEF Waits, Stands
  <1>3. QED BY <1>1, <1>2

(* Every step keeps what is being sent. *)
LEMMA SentStep ==
    ASSUME Base, Hooks, Sent, Hooks', [Next]_vars
    PROVE  Sent'
  <1>1. TypeOK
    BY DEF Base
  <1>2. ASSUME NEW m, UNCHANGED mode, Stands(m.what),
               m.k \in DOMAIN Targets(m.what), m.to = Targets(m.what)[m.k]
        PROVE  /\ Stands(m.what)'
               /\ m.k \in (DOMAIN Targets(m.what))' /\ m.to = Targets(m.what)[m.k]'
    <2>1. Stands(m.what)'
      BY <1>2, KnownStays DEF Stands
    <2>2. Targets(m.what)' = Targets(m.what)
      BY <1>2 DEF Targets
    <2>3. QED BY <1>2, <2>1, <2>2
  <1>3. CASE Silent
    <2>1. InFlight' = InFlight /\ UNCHANGED <<mode, sends, tasks>>
      BY <1>3 DEF Silent, InFlight
    <2>2. ASSUME NEW m \in InFlight
          PROVE  /\ Stands(m.what)'
                 /\ m.k \in (DOMAIN Targets(m.what))' /\ m.to = Targets(m.what)[m.k]'
      BY <1>2, <2>1 DEF Sent
    <2>3. ASSUME NEW w \in Writer, NEW c \in Elements(hooks'[w]), NEW m \in InFlight
          PROVE  m.what # c
      <3>1. Stands(m.what) /\ (c \in Elements(hooks[w]) => c # m.what)
        BY DEF Sent
      <3>2. QED BY <1>3, <3>1, HooksApart
    <2>4. QED BY <2>1, <2>2, <2>3 DEF Sent
  <1>4. ASSUME NEW n \in Message, Transmits(n) PROVE Sent'
    <2>1. InFlight' \subseteq InFlight /\ tasks' \subseteq tasks /\ UNCHANGED <<mode, hooks>>
      BY <1>4 DEF Transmits
    <2>2. ASSUME NEW m \in InFlight
          PROVE  /\ Stands(m.what)'
                 /\ m.k \in (DOMAIN Targets(m.what))' /\ m.to = Targets(m.what)[m.k]'
      BY <1>2, <2>1 DEF Sent
    <2>3. \A w \in Writer : /\ Distinct(sends'[w])
                            /\ \A m \in Elements(sends'[w]) : m.what.by = w
                            /\ mode.loop => sends'[w] = <<>>
                            /\ \A c \in Elements(hooks[w]), m \in InFlight' : m.what # c
      BY <1>4, <2>1 DEF Transmits, Sent
    <2>4. ~mode.loop => tasks' = {}
      BY <2>1 DEF Sent
    <2>5. QED BY <2>1, <2>2, <2>3, <2>4 DEF Sent
  <1>5. ASSUME NEW w \in Writer, Announces(w) PROVE Sent'
    <2>1. PICK c \in Change :
               /\ c = Head(hooks[w]) /\ hooks[w] \in Seq(Change)
               /\ Elements(hooks[w]) = {c} \cup Elements(hooks'[w])
               /\ hooks' = [hooks EXCEPT ![w] = Tail(@)]
               /\ InFlight' = InFlight \cup Elements(Messages(c))
               /\ mode.loop => UNCHANGED sends
               /\ ~mode.loop => sends' = [sends EXCEPT ![w] = Messages(c)] /\ UNCHANGED tasks
               /\ phase[w] = "announcing"
               /\ UNCHANGED <<mode, phase, fate, log>>
      BY <1>5, AnnounceFrame DEF Announces
    <2>2. Stands(c) /\ c.by = w /\ c \notin Elements(hooks'[w])
      <3>1. c \in Elements(hooks[w]) /\ HookOK(w)
        BY <2>1 DEF Hooks
      <3>2. Waits(c, w, "committed") /\ Distinct(hooks[w])
        BY <2>1, <3>1 DEF HookOK
      <3>3. hooks'[w] = Tail(hooks[w]) /\ hooks[w] # <<>>
        BY <1>1, <1>5, <2>1 DEF TypeOK, Announces
      <3>4. c \notin Elements(Tail(hooks[w]))
        BY <2>1, <3>2, <3>3, HeadFacts
      <3>5. QED BY <3>2, <3>3, <3>4 DEF Waits, Stands
    <2>3. ASSUME NEW m \in Elements(Messages(c))
          PROVE  m.what = c /\ m.k \in DOMAIN Targets(c) /\ m.to = Targets(c)[m.k]
      <3>1. PICK k \in DOMAIN Messages(c) : m = Messages(c)[k]
        BY DEF Elements
      <3>2. QED BY <3>1, MessagesFacts
    <2>4. ASSUME NEW m \in InFlight'
          PROVE  /\ Stands(m.what)'
                 /\ m.k \in (DOMAIN Targets(m.what))' /\ m.to = Targets(m.what)[m.k]'
      <3>1. /\ Stands(m.what)
            /\ m.k \in DOMAIN Targets(m.what) /\ m.to = Targets(m.what)[m.k]
        BY <2>1, <2>2, <2>3, <2>4 DEF Sent
      <3>2. QED BY <1>2, <2>1, <3>1
    <2>5. ASSUME NEW x \in Writer
          PROVE  /\ Distinct(sends'[x])
                 /\ \A m \in Elements(sends'[x]) : m.what.by = x
                 /\ mode.loop => sends'[x] = <<>>
      <3>1. CASE sends'[x] = sends[x]
        BY <3>1 DEF Sent
      <3>2. CASE sends'[x] # sends[x]
        <4>1. ~mode.loop /\ sends' = [sends EXCEPT ![w] = Messages(c)]
          BY <2>1, <3>2
        <4>2. x = w /\ sends'[x] = Messages(c)
          BY <1>1, <3>2, <4>1 DEF TypeOK
        <4>3. QED BY <2>2, <2>3, <4>1, <4>2, MessagesFacts
      <3>3. QED BY <3>1, <3>2
    <2>6. ASSUME NEW x \in Writer, NEW d \in Elements(hooks'[x]), NEW m \in InFlight'
          PROVE  m.what # d
      <3>1. d \in Elements(hooks[x])
        BY <1>1, <2>1 DEF TypeOK
      <3>2. CASE m \in InFlight
        BY <3>1, <3>2 DEF Sent
      <3>3. CASE m \in Elements(Messages(c))
        <4>1. m.what = c
          BY <2>3, <3>3
        <4>2. CASE x = w
          BY <2>2, <4>1, <4>2
        <4>3. CASE x # w
          BY <2>2, <3>1, <4>1, <4>3 DEF Hooks, HookOK, Waits
        <4>4. QED BY <4>2, <4>3
      <3>4. QED BY <2>1, <3>2, <3>3
    <2>7. ~mode.loop => tasks' = {}
      BY <2>1 DEF Sent
    <2>8. QED BY <2>1, <2>4, <2>5, <2>6, <2>7 DEF Sent
  <1>6. ASSUME NEW s \in Subscriber, Receive(s) \/ \E q \in Asked : Subscribe(s, q)
        PROVE  Sent'
    <2>1. UNCHANGED <<mode, hooks, sends, tasks>>
      BY <1>6 DEF Receive, Subscribe, writing, sending
    <2>2. InFlight' = InFlight
      BY <2>1 DEF InFlight
    <2>3. ASSUME NEW m \in InFlight
          PROVE  /\ Stands(m.what)'
                 /\ m.k \in (DOMAIN Targets(m.what))' /\ m.to = Targets(m.what)[m.k]'
      BY <1>2, <2>1 DEF Sent
    <2>4. QED BY <2>1, <2>2, <2>3 DEF Sent
  <1>7. QED BY <1>3, <1>4, <1>5, <1>6, StepKinds

-----------------------------------------------------------------------------
(* What subscribers get.                                                    *)

(* A message comes for the subscriber's object, if it names one, and never  *)
(* to one whose filter contradicts its scope.                               *)
LEMMA Routed ==
    ASSUME Base, Sent, NEW m \in InFlight, m \in Message, NEW s \in Members(m.to)
    PROVE  /\ s \in Subscriber /\ request[s] # None /\ ~Contradicts(request[s])
           /\ m.to.id = request[s].id /\ m.to.index = Index(request[s])
           /\ m.to.id \in {None, m.what.row}
  <1>1. s \in Subscriber /\ request[s] # None /\ m.to \in Groups(request[s])
    BY DEF Members
  <1>2. ~Contradicts(request[s])
    BY <1>1 DEF Groups
  <1>3. PICK a \in ActionsFor(request[s].action) :
            m.to = GroupName(a, request[s].id, Index(request[s]))
    BY <1>1, <1>2 DEF Groups
  <1>4. m.to.id = request[s].id /\ m.to.index = Index(request[s])
    BY <1>3 DEF GroupName
  <1>5. m.what \in Change /\ m.k \in DOMAIN Targets(m.what) /\ m.to = Targets(m.what)[m.k]
    BY DEF Message, Sent
  <1>6. m.k \in 1..4 /\ (m.k \in {3, 4} => mode.indexed)
    BY <1>5, TargetsFacts
  <1>7. m.to.id \in {None, ProducerId(m.what.row)}
    <2> DEFINE c == m.what
    <2>1. c \in Change /\ m.to = Targets(c)[m.k] /\ m.k \in 1..4
          /\ (m.k \in {3, 4} => mode.indexed)
      BY <1>5, <1>6
    <2> HIDE DEF c
    <2>2. /\ Targets(c)[1].id = None /\ Targets(c)[2].id = ProducerId(c.row)
          /\ mode.indexed => Targets(c)[3].id = None /\ Targets(c)[4].id = ProducerId(c.row)
      <3>1. Targets(c)[1] = GroupName(c.action, None, None)
            /\ Targets(c)[2] = GroupName(c.action, ProducerId(c.row), None)
        BY <2>1, TargetsFacts
      <3>2. ASSUME mode.indexed
            PROVE  Targets(c)[3].id = None /\ Targets(c)[4].id = ProducerId(c.row)
        <4>1. Targets(c)[3] = GroupName(c.action, None, c.owner)
              /\ Targets(c)[4] = GroupName(c.action, ProducerId(c.row), c.owner)
          BY <2>1, <3>2, TargetsFacts
        <4>2. QED BY <4>1 DEF GroupName
      <3>3. QED BY <3>1, <3>2 DEF GroupName
    <2>3. m.k \in {1, 2, 3, 4}
      BY <2>1
    <2>4. m.to.id \in {None, ProducerId(c.row)}
      BY <2>1, <2>2, <2>3
    <2>5. QED BY <2>4 DEF c
  <1>8. QED BY <1>1, <1>2, <1>4, <1>7 DEF ProducerId

(* A send changes the mailboxes of its group. *)
LEMMA SendFacts ==
    ASSUME Base, Sent, NEW m \in Message, Transmits(m), NEW s \in Subscriber
    PROVE  /\ mailbox[s] \in Seq(Change) /\ m.what \in Change
           /\ \/ mailbox'[s] = mailbox[s]
              \/ s \in Members(m.to) /\ mailbox'[s] = Append(mailbox[s], m.what)
           /\ Elements(mailbox'[s]) \subseteq Elements(mailbox[s]) \cup {m.what}
  <1>1. mailbox[s] \in Seq(Change) /\ m.what \in Change
    BY DEF Base, TypeOK, Message
  <1>2. \/ mailbox'[s] = mailbox[s]
        \/ s \in Members(m.to) /\ mailbox'[s] = Append(mailbox[s], m.what)
    BY DEF Transmits, Send
  <1>3. Elements(Append(mailbox[s], m.what)) = Elements(mailbox[s]) \cup {m.what}
    BY <1>1, AppendFacts
  <1>4. QED BY <1>1, <1>2, <1>3

(* Every step keeps what is in the channels. *)
LEMMA MailStep ==
    ASSUME Base, Sent, Mail, [Next]_vars
    PROVE  Mail'
  <1>1. TypeOK
    BY DEF Base
  <1>2. ASSUME NEW c, Stands(c) PROVE Stands(c)'
    BY <1>2, KnownStays DEF Stands
  <1>3. CASE Silent
    <2>1. UNCHANGED <<request, mailbox, received>>
      BY <1>3 DEF Silent
    <2>2. QED BY <1>2, <2>1 DEF Mail, Got, Contradicts, Equality
  <1>4. ASSUME NEW w \in Writer, Announces(w) PROVE Mail'
    <2>1. UNCHANGED <<request, mailbox, received>>
      BY <1>4 DEF Announces, Announce
    <2>2. QED BY <1>2, <2>1 DEF Mail, Got, Contradicts, Equality
  <1>5. ASSUME NEW m \in Message, Transmits(m) PROVE Mail'
    <2>1. UNCHANGED <<request, received>> /\ Stands(m.what) /\ m \in InFlight
      BY <1>5 DEF Transmits, Sent
    <2>2. ASSUME NEW s \in Subscriber
          PROVE  /\ \A c \in Got(s)' : Stands(c)'
                 /\ request'[s] = None => mailbox'[s] = <<>> /\ received'[s] = <<>>
                 /\ \A c \in Elements(mailbox'[s]) :
                       ~Contradicts(request[s]) /\ request[s].id \in {None, c.row}
      <3>1. CASE mailbox'[s] = mailbox[s]
        BY <1>2, <2>1, <3>1 DEF Mail, Got
      <3>2. CASE s \in Members(m.to) /\ mailbox'[s] = Append(mailbox[s], m.what)
        <4>1. /\ request[s] # None /\ ~Contradicts(request[s])
              /\ request[s].id \in {None, m.what.row}
          BY <2>1, <3>2, Routed
        <4>2. Elements(mailbox'[s]) \subseteq Elements(mailbox[s]) \cup {m.what}
          BY <1>5, SendFacts
        <4>3. QED BY <1>2, <2>1, <4>1, <4>2 DEF Mail, Got
      <3>3. QED BY <1>5, <3>1, <3>2, SendFacts
    <2>3. QED BY <2>1, <2>2 DEF Mail, Contradicts, Equality
  <1>6. ASSUME NEW s \in Subscriber, Receive(s) PROVE Mail'
    <2>1. /\ mailbox[s] # <<>> /\ mailbox' = [mailbox EXCEPT ![s] = Tail(@)]
          /\ received' \in {received, [received EXCEPT ![s] = Append(@, Head(mailbox[s]))]}
          /\ UNCHANGED request
      BY <1>6 DEF Receive
    <2>2. mailbox[s] \in Seq(Change) /\ received[s] \in Seq(Change)
      BY <1>1 DEF TypeOK
    <2>3. /\ mailbox'[s] = Tail(mailbox[s]) /\ Head(mailbox[s]) \in Change
          /\ Elements(mailbox[s]) = {Head(mailbox[s])} \cup Elements(mailbox'[s])
      <3>1. mailbox'[s] = Tail(mailbox[s])
        BY <1>1, <2>1 DEF TypeOK
      <3>2. QED BY <2>1, <2>2, <3>1, HeadFacts
    <2>4. received'[s] \in {received[s], Append(received[s], Head(mailbox[s]))}
      BY <1>1, <2>1 DEF TypeOK
    <2>5. Elements(received'[s]) \subseteq Elements(received[s]) \cup {Head(mailbox[s])}
      <3>1. Elements(Append(received[s], Head(mailbox[s])))
                = Elements(received[s]) \cup {Head(mailbox[s])}
        BY <2>2, <2>3, AppendFacts
      <3>2. QED BY <2>4, <3>1
    <2>6. request[s] # None
      BY <2>1 DEF Mail
    <2>7. Got(s)' \subseteq Got(s)
      BY <2>3, <2>5 DEF Got
    <2>8. ASSUME NEW x \in Subscriber, x # s
          PROVE  mailbox'[x] = mailbox[x] /\ received'[x] = received[x]
      BY <1>1, <2>1, <2>8 DEF TypeOK
    <2>9. ASSUME NEW x \in Subscriber
          PROVE  /\ \A c \in Got(x)' : Stands(c)'
                 /\ request[x] = None => mailbox'[x] = <<>> /\ received'[x] = <<>>
                 /\ \A c \in Elements(mailbox'[x]) :
                       ~Contradicts(request[x]) /\ request[x].id \in {None, c.row}
      <3>1. CASE x = s
        BY <1>2, <2>3, <2>6, <2>7, <3>1 DEF Mail
      <3>2. CASE x # s
        BY <1>2, <2>8, <3>2 DEF Mail, Got
      <3>3. QED BY <3>1, <3>2
    <2>10. QED BY <2>1, <2>9 DEF Mail, Contradicts, Equality
  <1>7. ASSUME NEW s \in Subscriber, NEW q \in Asked, Subscribe(s, q) PROVE Mail'
    <2>1. /\ request[s] = None /\ request' = [request EXCEPT ![s] = q]
          /\ UNCHANGED <<mailbox, received>>
      BY <1>7 DEF Subscribe, sending
    <2>2. mailbox[s] = <<>> /\ received[s] = <<>>
      BY <2>1 DEF Mail
    <2>3. \A x \in Subscriber \ {s} : request'[x] = request[x]
      BY <1>1, <2>1 DEF TypeOK
    <2>4. ASSUME NEW x \in Subscriber
          PROVE  /\ \A c \in Got(x)' : Stands(c)'
                 /\ request'[x] = None => mailbox'[x] = <<>> /\ received'[x] = <<>>
                 /\ \A c \in Elements(mailbox'[x]) :
                       ~Contradicts(request'[x]) /\ request'[x].id \in {None, c.row}
      <3>1. CASE x = s
        BY <2>1, <2>2, <3>1, EmptyFacts DEF Got
      <3>2. CASE x # s
        <4>1. request'[x] = request[x] /\ mailbox'[x] = mailbox[x] /\ Got(x)' = Got(x)
          BY <2>1, <2>3, <3>2 DEF Got
        <4>2. QED BY <1>2, <2>1, <4>1 DEF Mail
      <3>3. QED BY <3>1, <3>2
    <2>5. QED BY <2>4 DEF Mail, Contradicts, Equality
  <1>8. QED BY <1>3, <1>4, <1>5, <1>6, <1>7, StepKinds

-----------------------------------------------------------------------------
(* The invariant of the way of a change, for whatever keys and requests.    *)
Way == Base /\ Transactions /\ Hooks /\ Marks /\ Sent /\ Mail

LEMMA InitWay == Init => Way
  <1> SUFFICES ASSUME Init PROVE Way
    OBVIOUS
  <1>1. Base /\ Transactions
    BY InitBase DEF Init, Transactions
  <1>2. InFlight = {}
    BY EmptyFacts DEF Init, InFlight
  <1>3. Hooks /\ Marks
    BY EmptyFacts DEF Init, Hooks, HookOK, Marks
  <1>4. Sent
    BY <1>2, EmptyFacts DEF Init, Sent
  <1>5. Mail
    BY EmptyFacts DEF Init, Mail, Got
  <1>6. QED BY <1>1, <1>3, <1>4, <1>5 DEF Way

LEMMA WayStep == Way /\ [Next]_vars => Way'
  <1> SUFFICES ASSUME Way, [Next]_vars PROVE Way'
    OBVIOUS
  <1> USE DEF Way
  <1>1. Base' /\ Transactions'
    BY BaseStep, TransactionsStep DEF Base
  <1>2. Hooks' /\ Marks'
    BY HooksStep, MarksStep
  <1>3. Sent' /\ Mail'
    BY <1>2, SentStep, MailStep
  <1>4. QED BY <1>1, <1>2, <1>3

LEMMA WayHolds == Spec => []Way
  BY InitWay, WayStep, PTL DEF Spec

(* What passes satisfies the scope, the equality and the lookup. *)
LEMMA PassesFacts ==
    ASSUME BroadcastAssumption, NEW c, NEW q, ~Contradicts(q), Passes(c, q)
    PROVE  Satisfied(c, q.scope) /\ Satisfied(c, Equality(q)) /\ Satisfied(c, Lookup(q))
  <1> DEFINE remaining == {IF InMemory(c) THEN None ELSE Merged(q), Lookup(q)} \ {None}
  <1>1. /\ InMemory(c) /\ Merged(q) # None => c.owner = Merged(q)
        /\ \A o \in remaining : db[c.row] = o
    <2>1. remaining # {} => remaining = {db[c.row]}
      BY DEF Passes
    <2>2. InMemory(c) /\ Merged(q) # None => c.owner = Merged(q)
      BY DEF Passes
    <2> HIDE DEF remaining
    <2>3. QED BY <2>1, <2>2
  <1>2. Lookup(q) # None => db[c.row] = Lookup(q)
    BY <1>1
  <1>3. Satisfied(c, Merged(q))
    BY <1>1 DEF Satisfied
  <1>4. q.scope # None => q.scope = Merged(q) /\ Equality(q) \in {None, q.scope}
    BY DEF Merged, Contradicts
  <1>5. q.scope = None => Merged(q) = Equality(q)
    BY DEF Merged
  <1>6. QED BY <1>2, <1>3, <1>4, <1>5 DEF Satisfied

(* What a subscriber is handed passed its filters. *)
LEMMA ReceiveFacts ==
    ASSUME Base, NEW s \in Subscriber, Receive(s)
    PROVE  /\ mailbox[s] # <<>> /\ Head(mailbox[s]) \in Change
           /\ Elements(mailbox[s]) = {Head(mailbox[s])} \cup Elements(mailbox'[s])
           /\ Distinct(mailbox[s]) =>
                 Distinct(mailbox'[s]) /\ Head(mailbox[s]) \notin Elements(mailbox'[s])
           /\ received[s] \in Seq(Change)
           /\ \A x \in Subscriber \ {s} : mailbox'[x] = mailbox[x] /\ received'[x] = received[x]
           /\ \/ received' = received /\ ~Passes(Head(mailbox[s]), request[s])
              \/ /\ received' = [received EXCEPT ![s] = Append(@, Head(mailbox[s]))]
                 /\ received'[s] = Append(received[s], Head(mailbox[s]))
                 /\ Passes(Head(mailbox[s]), request[s])
  <1>1. TypeOK /\ mailbox[s] \in Seq(Change) /\ received[s] \in Seq(Change)
    BY DEF Base, TypeOK
  <1>2. mailbox[s] # <<>> /\ mailbox' = [mailbox EXCEPT ![s] = Tail(@)]
    BY DEF Receive
  <1>3. \/ received' = received /\ ~Passes(Head(mailbox[s]), request[s])
        \/ /\ received' = [received EXCEPT ![s] = Append(@, Head(mailbox[s]))]
           /\ Passes(Head(mailbox[s]), request[s])
    BY DEF Receive
  <1>4. mailbox'[s] = Tail(mailbox[s]) /\ \A x \in Subscriber \ {s} : mailbox'[x] = mailbox[x]
    BY <1>1, <1>2 DEF TypeOK
  <1>5. \A x \in Subscriber \ {s} : received'[x] = received[x]
    BY <1>1, <1>3 DEF TypeOK
  <1>6. received' = [received EXCEPT ![s] = Append(@, Head(mailbox[s]))] =>
            received'[s] = Append(received[s], Head(mailbox[s]))
    BY <1>1 DEF TypeOK
  <1>7. /\ Head(mailbox[s]) \in Change
        /\ Elements(mailbox[s]) = {Head(mailbox[s])} \cup Elements(Tail(mailbox[s]))
        /\ Distinct(mailbox[s]) =>
              Distinct(Tail(mailbox[s])) /\ Head(mailbox[s]) \notin Elements(Tail(mailbox[s]))
    BY <1>1, <1>2, HeadFacts
  <1>8. QED BY <1>1, <1>2, <1>3, <1>4, <1>5, <1>6, <1>7

(* A client can narrow its scope and never widen it, and hears of no object *)
(* but the one it asked for.                                                *)
THEOREM Filtered == Spec => WithinFilters
  <1> DEFINE Right(s) ==
          LET c == received'[s][Len(received'[s])]
              q == request[s]
          IN  /\ Satisfied(c, q.scope) /\ Satisfied(c, Equality(q)) /\ Satisfied(c, Lookup(q))
              /\ q.id \in {None, c.row}
      AllRight == \A s \in Subscriber : received'[s] # received[s] => Right(s)
  <1>1. ASSUME Way, [Next]_vars PROVE AllRight
    <2>1. Base /\ Sent /\ Mail
      BY <1>1 DEF Way
    <2>2. ASSUME received' = received PROVE AllRight
      BY <2>2
    <2>3. ASSUME NEW s \in Subscriber, Receive(s) PROVE AllRight
      <3>1. PICK c : c = Head(mailbox[s])
        OBVIOUS
      <3>2. CASE received' = received
        BY <2>2, <3>2
      <3>3. CASE received'[s] = Append(received[s], c) /\ Passes(c, request[s])
        <4>1. c \in Change /\ received[s] \in Seq(Change) /\ c \in Elements(mailbox[s])
          BY <2>1, <2>3, <3>1, ReceiveFacts
        <4>2. received'[s][Len(received'[s])] = c
          BY <3>3, <4>1
        <4>3. ~Contradicts(request[s]) /\ request[s].id \in {None, c.row}
          BY <2>1, <4>1 DEF Mail
        <4>4. Right(s)
          BY <3>3, <4>2, <4>3, PassesFacts, BroadcastAssumption
        <4> HIDE DEF Right
        <4>5. QED BY <2>1, <2>3, <4>4, ReceiveFacts
      <3>4. QED BY <2>1, <2>3, <3>1, <3>2, <3>3, ReceiveFacts
    <2>4. ASSUME NEW s \in Subscriber, NEW q \in Asked, Subscribe(s, q) PROVE AllRight
      BY <2>2, <2>4 DEF Subscribe
    <2> HIDE DEF AllRight
    <2>5. CASE Silent
      BY <2>2, <2>5 DEF Silent
    <2>6. ASSUME NEW w \in Writer, Announces(w) PROVE AllRight
      BY <2>2, <2>6 DEF Announces, Announce
    <2>7. ASSUME NEW m \in Message, Transmits(m) PROVE AllRight
      BY <2>2, <2>7 DEF Transmits
    <2>8. QED BY <1>1, <2>1, <2>3, <2>4, <2>5, <2>6, <2>7, StepKinds
  <1> HIDE DEF AllRight
  <1>2. Way /\ [Next]_vars => [AllRight]_vars
    BY <1>1
  <1>3. QED BY <1>2, WayHolds, PTL DEF Spec, WithinFilters, AllRight, Right

-----------------------------------------------------------------------------
(* Each change once.  A key that is false sends a change to the coarse      *)
(* group twice, so this holds where no key is.                              *)

(* Two messages of a change do not come to one subscriber. *)
LEMMA OneGroup ==
    ASSUME Falsy = {}, Base, Sent, NEW m \in InFlight, NEW n \in InFlight,
           m \in Message, n \in Message, m.what = n.what,
           NEW s, s \in Members(m.to), s \in Members(n.to)
    PROVE  m = n
  <1> DEFINE c == m.what
  <1>1. /\ c \in Change /\ m.k \in DOMAIN Targets(c) /\ m.to = Targets(c)[m.k]
        /\ n.k \in DOMAIN Targets(c) /\ n.to = Targets(c)[n.k]
    BY DEF Sent, Message
  <1>2. m.to.id = n.to.id /\ m.to.index = n.to.index
    BY Routed
  <1> HIDE DEF c
  <1>3. /\ c.row # None /\ c.owner # None /\ ProducerId(c.row) = c.row
    BY <1>1, BroadcastAssumption DEF Change, ProducerId
  <1>4. \A k \in DOMAIN Targets(c) : k \in {1, 2, 3, 4} /\ (k \in {3, 4} => mode.indexed)
    BY <1>1, TargetsFacts
  <1>5. ASSUME NEW k \in DOMAIN Targets(c)
        PROVE  /\ (Targets(c)[k].index = None) <=> k \in {1, 2}
               /\ (Targets(c)[k].id = None) <=> k \in {1, 3}
    <2>1. k \in {1, 2, 3, 4} /\ (k \in {3, 4} => mode.indexed)
      BY <1>4
    <2>2. CASE k = 1
      <3>1. Targets(c)[k] = GroupName(c.action, None, None)
        BY <1>1, <2>2, TargetsFacts
      <3>2. QED BY <2>2, <3>1 DEF GroupName
    <2>3. CASE k = 2
      <3>1. Targets(c)[k] = GroupName(c.action, c.row, None)
        BY <1>1, <1>3, <2>3, TargetsFacts
      <3>2. QED BY <1>3, <2>3, <3>1 DEF GroupName
    <2>4. CASE k = 3
      <3>1. Targets(c)[k] = GroupName(c.action, None, c.owner)
        BY <1>1, <2>1, <2>4, TargetsFacts
      <3>2. QED BY <1>3, <2>4, <3>1 DEF GroupName
    <2>5. CASE k = 4
      <3>1. Targets(c)[k] = GroupName(c.action, c.row, c.owner)
        BY <1>1, <1>3, <2>1, <2>5, TargetsFacts
      <3>2. QED BY <1>3, <2>5, <3>1 DEF GroupName
    <2>6. QED BY <2>1, <2>2, <2>3, <2>4, <2>5
  <1>6. m.k = n.k
    <2>1. m.k \in {1, 2} <=> n.k \in {1, 2}
      BY <1>1, <1>2, <1>5
    <2>2. m.k \in {1, 3} <=> n.k \in {1, 3}
      BY <1>1, <1>2, <1>5
    <2>3. m.k \in {1, 2, 3, 4} /\ n.k \in {1, 2, 3, 4}
      BY <1>1, <1>4
    <2>4. QED BY <2>1, <2>2, <2>3
  <1>7. m.to = n.to
    BY <1>1, <1>6
  <1>8. m = [to |-> m.to, what |-> m.what, k |-> m.k]
        /\ n = [to |-> n.to, what |-> n.what, k |-> n.k]
    BY DEF Message
  <1>9. QED BY <1>6, <1>7, <1>8

(* Who is in a group depends on the requests. *)
LEMMA MembersStay ==
    ASSUME UNCHANGED mode, NEW x \in Subscriber, request'[x] = request[x], NEW g
    PROVE  (x \in Members(g)') <=> (x \in Members(g))
  <1>1. Groups(request[x])' = Groups(request[x])
    <2>1. PICK q : q = request[x]
      OBVIOUS
    <2>2. Groups(q)' = Groups(q)
      BY DEF Groups, Index, Contradicts, Equality
    <2>3. Groups(request[x])' = Groups(q)'
      BY <2>1 DEF Groups, Index, Contradicts, Equality
    <2>4. QED BY <2>1, <2>2, <2>3
  <1>2. QED BY <1>1 DEF Members

(* The part of Once about one subscriber. *)
OnceFor(s) ==
    /\ Distinct(mailbox[s]) /\ Distinct(received[s])
    /\ Elements(mailbox[s]) \cap Elements(received[s]) = {}
    /\ \A w \in Writer : Elements(hooks[w]) \cap Got(s) = {}
    /\ \A m \in InFlight : s \in Members(m.to) => m.what \notin Got(s)

LEMMA OnceStep ==
    ASSUME Falsy = {}, Way, Once, [Next]_vars
    PROVE  Once'
  <1>1. /\ TypeOK /\ Base /\ Hooks /\ Sent /\ Mail /\ Hooks' /\ Sent'
        /\ \A s \in Subscriber : OnceFor(s)
    BY WayStep DEF Way, Base, Once, OnceFor
  <1>2. SUFFICES ASSUME NEW s \in Subscriber PROVE OnceFor(s)'
    BY DEF Once, OnceFor
  <1>3. OnceFor(s) /\ InFlight \subseteq Message
    BY <1>1 DEF InFlight, TypeOK, Elements
  <1>4. CASE Silent
    <2>1. /\ UNCHANGED <<mode, request, mailbox, received, sends, tasks>>
          /\ InFlight' = InFlight /\ Got(s)' = Got(s)
      BY <1>4 DEF Silent, InFlight, Got
    <2>2. ASSUME NEW w \in Writer, NEW c \in Elements(hooks'[w]), NEW d \in Got(s)
          PROVE  c # d
      <3>1. Stands(d) /\ (c \in Elements(hooks[w]) => c # d)
        BY <1>1, <1>3 DEF Mail, OnceFor
      <3>2. QED BY <1>1, <1>4, <3>1, HooksApart
    <2>3. \A m \in InFlight : (s \in Members(m.to)') <=> (s \in Members(m.to))
      BY <2>1, MembersStay
    <2>4. QED BY <1>3, <2>1, <2>2, <2>3 DEF OnceFor
  <1>5. ASSUME NEW w \in Writer, Announces(w) PROVE OnceFor(s)'
    <2>1. PICK c \in Change :
               /\ Elements(hooks[w]) = {c} \cup Elements(hooks'[w])
               /\ hooks' = [hooks EXCEPT ![w] = Tail(@)]
               /\ InFlight' = InFlight \cup Elements(Messages(c))
               /\ UNCHANGED <<mode, mailbox, request, received>>
      BY <1>1, <1>5, AnnounceFrame DEF Announces
    <2>2. Got(s)' = Got(s) /\ c \notin Got(s)
      BY <1>3, <2>1 DEF Got, OnceFor
    <2>3. \A x \in Writer : Elements(hooks'[x]) \subseteq Elements(hooks[x])
      BY <1>1, <2>1 DEF TypeOK
    <2>4. ASSUME NEW m \in InFlight', s \in Members(m.to) PROVE m.what \notin Got(s)
      <3>1. CASE m \in InFlight
        BY <1>3, <2>4, <3>1 DEF OnceFor
      <3>2. CASE m \in Elements(Messages(c))
        BY <2>2, <3>2, MessagesFacts DEF Elements
      <3>3. QED BY <2>1, <3>1, <3>2
    <2>5. \A m \in InFlight' : (s \in Members(m.to)') <=> (s \in Members(m.to))
      BY <2>1, MembersStay
    <2>6. QED BY <1>3, <2>1, <2>2, <2>3, <2>4, <2>5 DEF OnceFor
  <1>6. ASSUME NEW m \in Message, Transmits(m) PROVE OnceFor(s)'
    <2>1. /\ m \in InFlight /\ InFlight' = InFlight \ {m}
          /\ UNCHANGED <<mode, hooks, request, received>>
      BY <1>6 DEF Transmits
    <2>2. \A n \in InFlight' : (s \in Members(n.to)') <=> (s \in Members(n.to))
      BY <2>1, MembersStay
    <2>3. CASE mailbox'[s] = mailbox[s]
      <3>1. Got(s)' = Got(s)
        BY <2>1, <2>3 DEF Got
      <3>2. QED BY <1>3, <2>1, <2>2, <2>3, <3>1 DEF OnceFor
    <2>4. CASE s \in Members(m.to) /\ mailbox'[s] = Append(mailbox[s], m.what)
      <3>1. m.what \notin Got(s) /\ mailbox[s] \in Seq(Change) /\ m.what \in Change
        BY <1>1, <1>3, <1>6, <2>1, <2>4, SendFacts DEF OnceFor
      <3>2. /\ Elements(mailbox'[s]) = Elements(mailbox[s]) \cup {m.what}
            /\ Distinct(mailbox'[s])
        BY <1>3, <2>4, <3>1, AppendFacts DEF OnceFor, Got
      <3>3. Got(s)' = Got(s) \cup {m.what}
        BY <2>1, <3>2 DEF Got
      <3>4. ASSUME NEW w \in Writer PROVE Elements(hooks'[w]) \cap Got(s)' = {}
        BY <1>1, <1>3, <2>1, <3>3 DEF OnceFor, Sent
      <3>5. ASSUME NEW n \in InFlight', s \in Members(n.to)
            PROVE  n.what \notin Got(s)'
        <4>1. n \in InFlight /\ n # m /\ n \in Message
          BY <1>3, <2>1
        <4>2. n.what # m.what
          BY <1>1, <2>1, <2>4, <3>5, <4>1, OneGroup
        <4>3. n.what \notin Got(s)
          BY <1>3, <3>5, <4>1 DEF OnceFor
        <4>4. QED BY <3>3, <4>2, <4>3
      <3>6. Elements(mailbox'[s]) \cap Elements(received[s]) = {}
        BY <1>3, <3>1, <3>2 DEF OnceFor, Got
      <3>7. QED BY <1>3, <2>1, <2>2, <3>2, <3>4, <3>5, <3>6 DEF OnceFor
    <2>5. QED BY <1>1, <1>6, <2>3, <2>4, SendFacts
  <1>7. ASSUME NEW x \in Subscriber, Receive(x) PROVE OnceFor(s)'
    <2>1. UNCHANGED <<mode, hooks, request, sends, tasks>>
      BY <1>7 DEF Receive, writing
    <2>2. InFlight' = InFlight
      BY <2>1 DEF InFlight
    <2>3. \A m \in InFlight : (s \in Members(m.to)') <=> (s \in Members(m.to))
      BY <2>1, MembersStay
    <2>4. CASE x # s
      <3>1. mailbox'[s] = mailbox[s] /\ received'[s] = received[s]
        BY <1>1, <1>7, <2>4, ReceiveFacts
      <3>2. Got(s)' = Got(s)
        BY <3>1 DEF Got
      <3>3. QED BY <1>3, <2>1, <2>2, <2>3, <3>1, <3>2 DEF OnceFor
    <2>5. CASE x = s
      <3>1. PICK c : c = Head(mailbox[s])
        OBVIOUS
      <3>2. /\ c \in Change /\ Elements(mailbox[s]) = {c} \cup Elements(mailbox'[s])
            /\ Distinct(mailbox'[s]) /\ c \notin Elements(mailbox'[s])
            /\ received[s] \in Seq(Change)
        BY <1>1, <1>3, <1>7, <2>5, <3>1, ReceiveFacts DEF OnceFor
      <3>3. /\ Distinct(received'[s])
            /\ Elements(received'[s]) \subseteq Elements(received[s]) \cup {c}
        <4>1. CASE received' = received
          BY <1>3, <4>1 DEF OnceFor
        <4>2. CASE received'[s] = Append(received[s], c)
          BY <1>3, <3>2, <4>2, AppendFacts DEF OnceFor
        <4>3. QED BY <1>1, <1>7, <2>5, <3>1, <4>1, <4>2, ReceiveFacts
      <3>4. Got(s)' \subseteq Got(s)
        BY <3>2, <3>3 DEF Got
      <3>5. Elements(mailbox'[s]) \cap Elements(received'[s]) = {}
        BY <1>3, <3>2, <3>3 DEF OnceFor
      <3>6. QED BY <1>3, <2>1, <2>2, <2>3, <3>2, <3>3, <3>4, <3>5 DEF OnceFor
    <2>6. QED BY <2>4, <2>5
  <1>8. ASSUME NEW x \in Subscriber, NEW q \in Asked, Subscribe(x, q) PROVE OnceFor(s)'
    <2>1. /\ request[x] = None /\ request' = [request EXCEPT ![x] = q]
          /\ UNCHANGED <<mode, hooks, sends, tasks, mailbox, received>>
      BY <1>8 DEF Subscribe, writing, sending
    <2>2. InFlight' = InFlight /\ Got(s)' = Got(s)
      BY <2>1 DEF InFlight, Got
    <2>3. CASE x # s
      <3>1. request'[s] = request[s]
        BY <1>1, <2>1, <2>3 DEF TypeOK
      <3>2. \A m \in InFlight : (s \in Members(m.to)') <=> (s \in Members(m.to))
        BY <2>1, <3>1, MembersStay
      <3>3. QED BY <1>3, <2>1, <2>2, <3>2 DEF OnceFor
    <2>4. CASE x = s
      <3>1. Got(s) = {}
        BY <1>1, <2>1, <2>4, EmptyFacts DEF Mail, Got
      <3>2. QED BY <1>3, <2>1, <2>2, <3>1 DEF OnceFor
    <2>5. QED BY <2>3, <2>4
  <1>9. QED BY <1>1, <1>4, <1>5, <1>6, <1>7, <1>8, StepKinds

LEMMA InitOnce == Init => Once
  <1> SUFFICES ASSUME Init PROVE Once
    OBVIOUS
  <1>1. InFlight = {} /\ \A s \in Subscriber : Got(s) = {}
    BY EmptyFacts DEF Init, InFlight, Got
  <1>2. QED BY <1>1, EmptyFacts DEF Init, Once

LEMMA OnceHolds ==
    ASSUME Falsy = {}
    PROVE  Spec => [](Way /\ Once)
  <1>1. Init => Way /\ Once
    BY InitWay, InitOnce
  <1>2. Way /\ Once /\ [Next]_vars => (Way /\ Once)'
    BY WayStep, OnceStep
  <1>3. QED BY <1>1, <1>2, PTL DEF Spec

(* Committed changes are those that stand, and only a receipt tells one. *)
LEMMA CommittedFacts ==
    ASSUME Base
    PROVE  Committed \subseteq Change /\ \A c : Stands(c) => c \in Committed
  BY LogFacts DEF Committed, Stands, Known

LEMMA CommittedGrows ==
    ASSUME Base, [Next]_vars
    PROVE  Committed \subseteq Committed' /\ Committed' \subseteq Change
  <1>1. Base' /\ Remembers
    BY BaseStep, HistoryStep
  <1>2. Committed \subseteq Committed'
    BY <1>1 DEF Committed, Remembers
  <1>3. Committed' \subseteq Change
    <2>1. log' \in Seq(Change)
      BY <1>1 DEF Base, TypeOK
    <2>2. \A n \in DOMAIN log' : log'[n] \in Change
      BY <2>1
    <2>3. QED BY <2>2 DEF Committed
  <1>4. QED BY <1>2, <1>3

LEMMA AnnouncementsStep ==
    ASSUME Way, Once, [Next]_vars
    PROVE  Abstract!Next \/ UNCHANGED <<Committed, received>>
  <1>1. Base /\ Sent /\ Mail
    BY DEF Way
  <1>2. ASSUME UNCHANGED received PROVE Abstract!Next
    BY <1>1, <1>2, CommittedGrows DEF Abstract!Next, Abstract!Commit
  <1>3. ASSUME NEW s \in Subscriber, Receive(s)
        PROVE  Abstract!Next
    <2>1. PICK c : c = Head(mailbox[s])
      OBVIOUS
    <2>2. CASE received' = received
      BY <1>2, <2>2
    <2>3. CASE received' = [received EXCEPT ![s] = Append(@, c)]
      <3>1. c \in Change /\ c \in Elements(mailbox[s])
        BY <1>1, <1>3, <2>1, ReceiveFacts
      <3>2. c \in Committed
        BY <1>1, <3>1, CommittedFacts DEF Mail, Got
      <3>3. c \notin Abstract!Told(s)
        BY <3>1 DEF Once, Abstract!Told, Elements
      <3>4. UNCHANGED Committed
        BY <1>3 DEF Receive, past, Committed
      <3>5. Abstract!Tell(s, c)
        BY <2>3, <3>2, <3>3, <3>4 DEF Abstract!Tell
      <3>6. QED BY <3>1, <3>5 DEF Abstract!Next
    <2>4. QED BY <1>1, <1>3, <2>1, <2>2, <2>3, ReceiveFacts
  <1>4. CASE Silent
    BY <1>2, <1>4 DEF Silent
  <1>5. ASSUME NEW w \in Writer, Announces(w) PROVE Abstract!Next
    BY <1>2, <1>5 DEF Announces, Announce
  <1>6. ASSUME NEW m \in Message, Transmits(m) PROVE Abstract!Next
    BY <1>2, <1>6 DEF Transmits
  <1>7. ASSUME NEW s \in Subscriber, NEW q \in Asked, Subscribe(s, q) PROVE Abstract!Next
    BY <1>2, <1>7 DEF Subscribe
  <1>8. QED BY <1>1, <1>3, <1>4, <1>5, <1>6, <1>7, StepKinds

(* Where no key is false, subscribers are told of committed changes only,   *)
(* of each once, and as they were when the signal fired.                    *)
THEOREM Announcements ==
    ASSUME Falsy = {}
    PROVE  Spec => AnnouncementsSpec
  <1>1. Init => Abstract!Init
    BY DEF Init, Abstract!Init, Committed
  <1>2. Way /\ Once /\ [Next]_vars => [Abstract!Next]_(Abstract!vars)
    BY AnnouncementsStep DEF Abstract!vars
  <1>3. QED
    BY <1>1, <1>2, OnceHolds, PTL DEF Spec, AnnouncementsSpec, Abstract!Spec

-----------------------------------------------------------------------------
(* Nothing is missed, again where no key is false.                          *)

(* A snapshot waits with every change that did not fail.                    *)
LEMMA RegisteredStep ==
    ASSUME Way, Registered, [Next]_vars
    PROVE  Registered'
  <1> USE DEF writing, sending, past
  <1>1. TypeOK /\ Base /\ Hooks /\ Marks /\ Transactions /\ Remembers
    BY HistoryStep DEF Way, Base
  <1> DEFINE Has(n, c) == /\ c \in Elements(hooks'[c.by])
                          /\ savepoint'[c.by] # None /\ n <= savepoint'[c.by].mark =>
                                 c \in Elements(savepoint'[c.by].hooks)
  (* A change of before, and its writer. *)
  <1>2. ASSUME NEW n \in DOMAIN log, fate'[n] = "pending", n \notin dropped
        PROVE  \E c \in Change, x \in Writer :
                   /\ c = log[n] /\ x = c.by /\ c.n = n /\ n \in Number /\ log'[n] = c
                   /\ fate[n] = "pending" /\ phase[x] # "announcing"
                   /\ c \in Elements(hooks[x])
                   /\ savepoint[x] # None /\ n <= savepoint[x].mark =>
                          c \in Elements(savepoint[x].hooks)
    <2>1. PICK c : c = log[n]
      OBVIOUS
    <2>2. c \in Change /\ c.n = n /\ n \in Number /\ log'[n] = c
      BY <1>1, <2>1, LogFacts DEF Remembers
    <2>3. fate[n] = "pending"
      BY <1>1, <1>2, <2>2 DEF Remembers, TypeOK
    <2>4. c.by \in Writer
      BY <2>2 DEF Change
    <2>5. /\ c \in Elements(hooks[c.by])
          /\ savepoint[c.by] # None /\ n <= savepoint[c.by].mark =>
                 c \in Elements(savepoint[c.by].hooks)
      BY <1>2, <2>1, <2>3 DEF Registered
    <2>6. phase[c.by] # "announcing"
      BY <1>1, <2>2, <2>3, <2>4, <2>5 DEF Hooks, HookOK, Waits
    <2>7. QED BY <2>1, <2>2, <2>3, <2>4, <2>5, <2>6
  <1>3. ASSUME UNCHANGED <<log, hooks, savepoint>>, dropped \subseteq dropped'
        PROVE  Registered'
    <2>1. ASSUME NEW n \in DOMAIN log', fate'[n] = "pending", n \notin dropped'
          PROVE  Has(n, log'[n])
      BY <1>2, <1>3, <2>1
    <2>2. QED BY <2>1 DEF Registered
  <1>4. ASSUME NEW w \in Writer, NEW mark, Settle(w, mark, "undone"), mark = 0,
               hooks' = [hooks EXCEPT ![w] = <<>>], UNCHANGED <<log, savepoint, dropped>>
        PROVE  Registered'
    <2>1. ASSUME NEW n \in DOMAIN log', fate'[n] = "pending", n \notin dropped'
          PROVE  Has(n, log'[n])
      <3>1. PICK c \in Change, x \in Writer :
                   /\ c = log[n] /\ x = c.by /\ c.n = n /\ n \in Number /\ log'[n] = c
                   /\ fate[n] = "pending"
                   /\ c \in Elements(hooks[x])
                   /\ savepoint[x] # None /\ n <= savepoint[x].mark =>
                          c \in Elements(savepoint[x].hooks)
        BY <1>2, <1>4, <2>1
      <3>2. n > 0
        BY <3>1 DEF Number
      <3>3. x # w
        BY <1>4, <2>1, <3>1, <3>2 DEF Settle
      <3>4. hooks'[x] = hooks[x]
        BY <1>1, <1>4, <3>3 DEF TypeOK
      <3>5. QED BY <1>4, <3>1, <3>4
    <2>2. QED BY <2>1 DEF Registered
  <1>5. ASSUME NEW w \in Writer, savepoint[w] # None, Restore(w),
               savepoint' = [savepoint EXCEPT ![w] = None], UNCHANGED <<log, dropped>>
        PROVE  Registered'
    <2>1. ASSUME NEW n \in DOMAIN log', fate'[n] = "pending", n \notin dropped'
          PROVE  Has(n, log'[n])
      <3>1. PICK c \in Change, x \in Writer :
                   /\ c = log[n] /\ x = c.by /\ c.n = n /\ n \in Number /\ log'[n] = c
                   /\ fate[n] = "pending"
                   /\ c \in Elements(hooks[x])
                   /\ savepoint[x] # None /\ n <= savepoint[x].mark =>
                          c \in Elements(savepoint[x].hooks)
        BY <1>2, <1>5, <2>1
      <3>2. CASE x = w
        <4>1. hooks'[w] = savepoint[w].hooks /\ savepoint'[w] = None
          BY <1>1, <1>5 DEF Restore, TypeOK
        <4>2. ~(n > savepoint[w].mark)
          BY <1>5, <2>1, <3>1, <3>2 DEF Restore, Settle
        <4>3. n \in Nat /\ savepoint[w].mark \in Nat
          BY <1>1, <1>5, <3>1, LogFacts, BroadcastAssumption DEF Marks, Marked, Number
        <4>4. n <= savepoint[w].mark
          BY <4>2, <4>3
        <4>5. QED BY <1>5, <3>1, <3>2, <4>1, <4>4
      <3>3. CASE x # w
        <4>1. hooks'[x] = hooks[x] /\ savepoint'[x] = savepoint[x]
          BY <1>1, <1>5, <3>3 DEF Restore, TypeOK
        <4>2. QED BY <3>1, <4>1
      <3>4. QED BY <3>2, <3>3
    <2>2. QED BY <2>1 DEF Registered
  <1>6. ASSUME NEW w \in Writer, Begin(w) \/ Raise(w) \/ SendNow(w) PROVE Registered'
    BY <1>3, <1>6 DEF Begin, Raise, SendNow, Send
  <1>7. ASSUME NEW w \in Writer, OpenSavepoint(w) PROVE Registered'
    <2>1. /\ UNCHANGED <<log, hooks, dropped>>
          /\ \A x \in Writer \ {w} : savepoint'[x] = savepoint[x]
          /\ savepoint'[w].hooks = hooks[w]
      BY <1>1, <1>7 DEF OpenSavepoint, TypeOK
    <2>2. ASSUME NEW n \in DOMAIN log', fate'[n] = "pending", n \notin dropped'
          PROVE  Has(n, log'[n])
      BY <1>2, <2>1, <2>2
    <2>3. QED BY <2>2 DEF Registered
  <1>8. ASSUME NEW w \in Writer, ReleaseSavepoint(w) PROVE Registered'
    <2>1. /\ savepoint[w] # None /\ savepoint' = [savepoint EXCEPT ![w] = None]
          /\ UNCHANGED <<log, dropped>>
      BY <1>8 DEF ReleaseSavepoint
    <2>2. CASE Restore(w)
      BY <1>5, <2>1, <2>2
    <2>3. CASE UNCHANGED hooks
      <3>1. savepoint'[w] = None /\ \A x \in Writer \ {w} : savepoint'[x] = savepoint[x]
        BY <1>1, <2>1 DEF TypeOK
      <3>2. ASSUME NEW n \in DOMAIN log', fate'[n] = "pending", n \notin dropped'
            PROVE  Has(n, log'[n])
        BY <1>2, <2>1, <2>3, <3>1, <3>2
      <3>3. QED BY <3>2 DEF Registered
    <2>4. QED BY <1>8, <2>2, <2>3 DEF ReleaseSavepoint
  <1>9. ASSUME NEW w \in Writer, Unwind(w) PROVE Registered'
    <2>1. CASE savepoint[w] # None
      BY <1>5, <1>9, <2>1 DEF Unwind
    <2>2. CASE savepoint[w] = None
      BY <1>4, <1>9, <2>2 DEF Unwind, Undo
    <2>3. QED BY <2>1, <2>2
  <1>10. ASSUME NEW w \in Writer, Commit(w) PROVE Registered'
    <2>1. CASE UNCHANGED hooks
      BY <1>3, <1>10, <2>1 DEF Commit
    <2>2. CASE Undo(w)
      BY <1>4, <1>10, <2>2 DEF Commit, Undo
    <2>3. QED BY <1>10, <2>1, <2>2 DEF Commit
  <1>11. ASSUME NEW w \in Writer, NEW r \in Row, NEW o \in Owner \cup {None}, Write(w, r, o)
         PROVE  Registered'
    <2>1. PICK d : d = NewChange(w, r, o)
      OBVIOUS
    <2>2. /\ d \in Change /\ d.by = w /\ Len(log) \in Nat
          /\ log' = Append(log, d) /\ UNCHANGED savepoint
          /\ \/ hooks' = [hooks EXCEPT ![w] = Append(@, d)] /\ UNCHANGED dropped
             \/ UNCHANGED hooks /\ dropped' = dropped \cup {Len(log) + 1}
      <3>1. UNCHANGED savepoint
        BY <1>11 DEF Write
      <3>2. QED BY <1>1, <1>11, <2>1, <3>1, NewChangeFacts
    <2>3. /\ DOMAIN log = 1..Len(log) /\ DOMAIN log' = 1..(Len(log) + 1)
          /\ log'[Len(log) + 1] = d
      BY <1>1, <2>2 DEF TypeOK
    <2>4. \A x \in Writer : Elements(hooks[x]) \subseteq Elements(hooks'[x])
      <3>1. CASE hooks' = [hooks EXCEPT ![w] = Append(@, d)]
        <4>1. hooks[w] \in Seq(Change) /\ hooks'[w] = Append(hooks[w], d)
              /\ \A x \in Writer \ {w} : hooks'[x] = hooks[x]
          BY <1>1, <3>1 DEF TypeOK
        <4>2. Elements(Append(hooks[w], d)) = Elements(hooks[w]) \cup {d}
          BY <2>2, <4>1, AppendFacts
        <4>3. QED BY <4>1, <4>2
      <3>2. QED BY <2>2, <3>1
    <2>5. ASSUME NEW n \in DOMAIN log', fate'[n] = "pending", n \notin dropped'
          PROVE  Has(n, log'[n])
      <3>1. CASE n \in DOMAIN log
        <4>1. n \notin dropped
          BY <2>2, <2>5
        <4>2. PICK c \in Change, x \in Writer :
                   /\ x = c.by /\ log'[n] = c
                   /\ c \in Elements(hooks[x])
                   /\ savepoint[x] # None /\ n <= savepoint[x].mark =>
                          c \in Elements(savepoint[x].hooks)
          BY <1>2, <2>5, <3>1, <4>1
        <4>3. QED BY <2>2, <2>4, <4>2
      <3>2. CASE n = Len(log) + 1
        <4>1. hooks' = [hooks EXCEPT ![w] = Append(@, d)] /\ log'[n] = d
          BY <2>2, <2>3, <2>5, <3>2
        <4>2. hooks[w] \in Seq(Change) /\ hooks'[w] = Append(hooks[w], d)
          BY <1>1, <4>1 DEF TypeOK
        <4>3. d \in Elements(hooks'[w])
          BY <2>2, <4>2, AppendFacts
        <4>4. savepoint[w] # None => savepoint[w].mark \in 0..Len(log)
          BY <1>1 DEF Marks, Marked
        <4>5. savepoint[w] # None => ~(n <= savepoint[w].mark)
          BY <2>2, <3>2, <4>4
        <4>6. QED BY <2>2, <4>1, <4>3, <4>5
      <3>3. QED BY <2>2, <2>3, <3>1, <3>2
    <2>6. QED BY <2>5 DEF Registered
  <1>12. ASSUME NEW w \in Writer, Announce(w) PROVE Registered'
    <2>1. CASE hooks[w] = <<>>
      BY <1>3, <1>12, <2>1 DEF Announce
    <2>2. CASE hooks[w] # <<>>
      <3>1. /\ phase[w] = "announcing" /\ hooks' = [hooks EXCEPT ![w] = Tail(@)]
            /\ UNCHANGED <<log, savepoint, dropped>>
        BY <1>12, <2>2 DEF Announce
      <3>2. \A x \in Writer : phase[x] # "announcing" => hooks'[x] = hooks[x]
        BY <1>1, <3>1 DEF TypeOK
      <3>3. ASSUME NEW n \in DOMAIN log', fate'[n] = "pending", n \notin dropped'
            PROVE  Has(n, log'[n])
        BY <1>2, <3>1, <3>2, <3>3
      <3>4. QED BY <3>3 DEF Registered
    <2>3. QED BY <2>1, <2>2
  <1>13. ASSUME NEW m \in tasks, RunTask(m) PROVE Registered'
    BY <1>3, <1>13 DEF RunTask, Send
  <1>14. ASSUME NEW s \in Subscriber, Receive(s) PROVE Registered'
    BY <1>3, <1>14 DEF Receive
  <1>15. ASSUME NEW s \in Subscriber, NEW q \in Asked, Subscribe(s, q) PROVE Registered'
    BY <1>3, <1>15 DEF Subscribe
  <1>16. CASE UNCHANGED vars
    BY <1>3, <1>16 DEF vars
  <1>17. QED
    BY <1>6, <1>7, <1>8, <1>9, <1>10, <1>11, <1>12, <1>13, <1>14, <1>15, <1>16
       DEF Next, Transaction, Delivery

(* What a subscriber decides and wants passes its filters. *)
LEMMA WantedPasses ==
    ASSUME NEW c, NEW q, Decidable(c, q), Wanted(c, q)
    PROVE  Passes(c, q) /\ ~Contradicts(q)
  <1>1. Lookup(q) = None /\ (Merged(q) = None \/ InMemory(c))
    BY DEF Decidable
  <1>2. \A o \in {q.scope, Equality(q)} : o # None => c.owner = o
    BY DEF Wanted
  <1>3. Merged(q) # None => c.owner = Merged(q)
    BY <1>2 DEF Merged
  <1>4. {IF InMemory(c) THEN None ELSE Merged(q), Lookup(q)} \ {None} = {}
    BY <1>1
  <1>5. Passes(c, q)
    BY <1>3, <1>4 DEF Passes
  <1>6. ~Contradicts(q)
    BY <1>2 DEF Contradicts
  <1>7. QED BY <1>5, <1>6

(* And one of its groups is among those that the change is sent to.         *)
LEMMA WantedSent ==
    ASSUME Falsy = {}, Base, NEW c \in Change, NEW s \in Subscriber, request[s] # None,
           Decidable(c, request[s]), Wanted(c, request[s])
    PROVE  \E m \in Elements(Messages(c)) : m.what = c /\ s \in Members(m.to)
  <1>1. PICK q : q = request[s]
    OBVIOUS
  <1>2. /\ ~Contradicts(q) /\ c.action \in ActionsFor(q.action) /\ q.id \in {None, c.row}
        /\ q.scope # None => c.owner = q.scope
    BY <1>1, WantedPasses DEF Wanted
  <1>3. ProducerId(c.row) = c.row
    BY DEF ProducerId
  <1>4. PICK k \in DOMAIN Targets(c) : Targets(c)[k] = GroupName(c.action, q.id, Index(q))
    <2>1. Index(q) = None \/ (mode.indexed /\ Index(q) = c.owner)
      BY <1>2 DEF Index
    <2>2. 1 \in DOMAIN Targets(c) /\ 2 \in DOMAIN Targets(c)
          /\ (mode.indexed => 3 \in DOMAIN Targets(c) /\ 4 \in DOMAIN Targets(c))
      BY TargetsFacts
    <2>3. CASE q.id = None /\ Index(q) = None
      BY <2>2, <2>3, TargetsFacts
    <2>4. CASE q.id = c.row /\ Index(q) = None
      BY <1>3, <2>2, <2>4, TargetsFacts
    <2>5. CASE q.id = None /\ mode.indexed /\ Index(q) = c.owner
      BY <2>2, <2>5, TargetsFacts
    <2>6. CASE q.id = c.row /\ mode.indexed /\ Index(q) = c.owner
      BY <1>3, <2>2, <2>6, TargetsFacts
    <2>7. QED BY <1>2, <2>1, <2>3, <2>4, <2>5, <2>6
  <1>5. Targets(c)[k] \in Groups(q)
    BY <1>2, <1>4 DEF Groups
  <1>6. s \in Members(Targets(c)[k])
    BY <1>1, <1>5 DEF Members
  <1>7. /\ k \in DOMAIN Messages(c) /\ Messages(c)[k].what = c
        /\ Messages(c)[k].to = Targets(c)[k]
    BY MessagesFacts
  <1>8. Messages(c)[k] \in Elements(Messages(c))
    BY <1>7 DEF Elements
  <1>9. QED BY <1>6, <1>7, <1>8

(* What no step takes back. *)
LEMMA Persists ==
    ASSUME TypeOK, [Next]_vars
    PROVE  /\ mode' = mode /\ dropped \subseteq dropped'
           /\ \A s \in Subscriber : request[s] # None => request'[s] = request[s]
  <1> USE DEF writing, sending, past
  <1>1. ASSUME NEW w \in Writer, Begin(w) \/ OpenSavepoint(w) \/ ReleaseSavepoint(w)
                                 \/ Raise(w) \/ Unwind(w) \/ Commit(w)
        PROVE  UNCHANGED <<mode, dropped, request>>
    BY <1>1 DEF Begin, OpenSavepoint, ReleaseSavepoint, Raise, Unwind, Commit
  <1>2. ASSUME NEW w \in Writer, NEW r \in Row, NEW o \in Owner \cup {None}, Write(w, r, o)
        PROVE  UNCHANGED <<mode, request>> /\ dropped \subseteq dropped'
    BY <1>2 DEF Write
  <1>3. ASSUME NEW w \in Writer, Announce(w) PROVE UNCHANGED <<mode, dropped, request>>
    BY <1>3 DEF Announce
  <1>4. ASSUME NEW w \in Writer, SendNow(w)
        PROVE  UNCHANGED <<mode, request>> /\ dropped \subseteq dropped'
    BY <1>4 DEF SendNow, Send
  <1>5. ASSUME NEW m \in tasks, RunTask(m)
        PROVE  UNCHANGED <<mode, request>> /\ dropped \subseteq dropped'
    BY <1>5 DEF RunTask, Send
  <1>6. ASSUME NEW s \in Subscriber, Receive(s) PROVE UNCHANGED <<mode, dropped, request>>
    BY <1>6 DEF Receive
  <1>7. ASSUME NEW s \in Subscriber, NEW q \in Asked, Subscribe(s, q)
        PROVE  /\ UNCHANGED <<mode, dropped>>
               /\ \A x \in Subscriber : request[x] # None => request'[x] = request[x]
    BY <1>7 DEF Subscribe, TypeOK
  <1>8. CASE UNCHANGED vars
    BY <1>8 DEF vars
  <1>9. QED
    BY <1>1, <1>2, <1>3, <1>4, <1>5, <1>6, <1>7, <1>8 DEF Next, Transaction, Delivery

(* An audience grows when a change is committed that waits to be announced. *)
LEMMA AudienceStep ==
    ASSUME Way, [Next]_vars, NEW s \in Subscriber, NEW n \in audience'[s], n \notin audience[s]
    PROVE  /\ Silent /\ UNCHANGED <<hooks, log, request>> /\ request[s] # None
           /\ n \in DOMAIN log /\ fate[n] = "pending" /\ fate'[n] = "committed"
  <1> USE DEF writing, sending, past
  <1>1. ASSUME NEW w \in Writer, Commit(w)
        PROVE  /\ Silent /\ UNCHANGED <<hooks, log, request>> /\ request[s] # None
               /\ n \in DOMAIN log /\ fate[n] = "pending" /\ fate'[n] = "committed"
    <2>1. /\ audience' = [x \in Subscriber |->
                 IF x \in Listening
                 THEN audience[x] \cup {k \in DOMAIN log : log[k].by = w /\ fate[k] = "pending"}
                 ELSE audience[x]]
          /\ Settle(w, 0, "committed") /\ UNCHANGED <<hooks, log, request>>
      BY <1>1 DEF Commit
    <2>2. /\ s \in Listening /\ n \in DOMAIN log /\ log[n].by = w /\ fate[n] = "pending"
      BY <2>1
    <2>3. n \in Number /\ n > 0
      BY <2>2, LogFacts DEF Way, Number
    <2>4. fate'[n] = "committed"
      BY <2>1, <2>2, <2>3 DEF Settle
    <2>5. Silent
      BY <1>1, TransactionFrame DEF Way, Base, Transaction, Silent
    <2>6. QED BY <2>1, <2>2, <2>4, <2>5 DEF Listening
  <1>2. ASSUME UNCHANGED audience PROVE FALSE
    BY <1>2
  <1>3. ASSUME NEW w \in Writer, Begin(w) \/ OpenSavepoint(w) \/ ReleaseSavepoint(w)
                                 \/ Raise(w) \/ Unwind(w) \/ Announce(w) \/ SendNow(w)
        PROVE  FALSE
    BY <1>2, <1>3 DEF Begin, OpenSavepoint, ReleaseSavepoint, Raise, Unwind, Announce, SendNow
  <1>4. ASSUME NEW w \in Writer, NEW r \in Row, NEW o \in Owner \cup {None}, Write(w, r, o)
        PROVE  FALSE
    BY <1>2, <1>4 DEF Write
  <1>5. ASSUME NEW m \in tasks, RunTask(m) PROVE FALSE
    BY <1>2, <1>5 DEF RunTask
  <1>6. ASSUME NEW x \in Subscriber, Receive(x) PROVE FALSE
    BY <1>2, <1>6 DEF Receive
  <1>7. ASSUME NEW x \in Subscriber, NEW q \in Asked, Subscribe(x, q) PROVE FALSE
    BY <1>2, <1>7 DEF Subscribe
  <1>8. CASE UNCHANGED vars
    BY <1>2, <1>8 DEF vars
  <1>9. QED
    BY <1>1, <1>3, <1>4, <1>5, <1>6, <1>7, <1>8 DEF Next, Transaction, Delivery

(* A committed change that is wanted goes on until it has been received.    *)
LEMMA OnItsWayStep ==
    ASSUME Falsy = {}, Way, [Next]_vars, NEW s \in Subscriber, request[s] # None,
           NEW c, Stands(c), c.n \notin dropped', OnItsWay(c, s),
           Decidable(c, request[s]), Wanted(c, request[s])
    PROVE  OnItsWay(c, s)'
  <1>1. /\ TypeOK /\ Base /\ Hooks /\ Sent /\ Mail /\ mode' = mode
        /\ request'[s] = request[s] /\ c \in Change /\ c.by \in Writer
    BY Persists, KnownFacts DEF Way, Base, Stands
  <1>2. \A g : (s \in Members(g)') <=> (s \in Members(g))
    BY <1>1, MembersStay
  <1>3. c \in Elements(hooks[c.by]) => phase[c.by] = "announcing"
    BY <1>1 DEF Hooks, HookOK, Waits, Stands
  <1>4. CASE Silent
    <2>1. InFlight' = InFlight /\ Got(s)' = Got(s)
      BY <1>4 DEF Silent, InFlight, Got
    <2>2. c \in Elements(hooks[c.by]) => c \in Elements(hooks'[c.by])
      BY <1>1, <1>3, <1>4 DEF Silent
    <2>3. QED BY <1>2, <2>1, <2>2 DEF OnItsWay
  <1>5. ASSUME NEW w \in Writer, Announces(w) PROVE OnItsWay(c, s)'
    <2>1. PICK d \in Change :
               /\ Elements(hooks[w]) = {d} \cup Elements(hooks'[w])
               /\ hooks' = [hooks EXCEPT ![w] = Tail(@)]
               /\ InFlight' = InFlight \cup Elements(Messages(d))
               /\ UNCHANGED <<mode, mailbox, request, received>>
      BY <1>1, <1>5, AnnounceFrame DEF Announces
    <2>2. Got(s)' = Got(s)
      BY <2>1 DEF Got
    <2>3. CASE c \in Elements(hooks[c.by]) /\ c = d
      <3>1. \E m \in Elements(Messages(c)) : m.what = c /\ s \in Members(m.to)
        BY <1>1, WantedSent
      <3>2. \E m \in InFlight' : m.what = c /\ s \in Members(m.to)'
        BY <1>2, <2>1, <2>3, <3>1
      <3>3. QED BY <3>2 DEF OnItsWay
    <2>4. CASE c \in Elements(hooks[c.by]) /\ c # d
      <3>1. c \in Elements(hooks'[c.by])
        <4>1. CASE c.by = w
          BY <2>1, <2>4, <4>1
        <4>2. CASE c.by # w
          BY <1>1, <2>1, <2>4, <4>2 DEF TypeOK
        <4>3. QED BY <4>1, <4>2
      <3>2. QED BY <3>1 DEF OnItsWay
    <2>5. CASE c \notin Elements(hooks[c.by])
      BY <1>2, <2>1, <2>2, <2>5 DEF OnItsWay
    <2>6. QED BY <2>3, <2>4, <2>5
  <1>6. ASSUME NEW m \in Message, Transmits(m) PROVE OnItsWay(c, s)'
    <2>1. /\ InFlight' = InFlight \ {m} /\ UNCHANGED <<hooks, received>>
          /\ \/ mailbox' = [x \in Subscriber |-> IF x \in Members(m.to)
                               THEN Append(mailbox[x], m.what) ELSE mailbox[x]]
             \/ dropped' = dropped \cup {m.what.n} /\ UNCHANGED mailbox
      BY <1>6 DEF Transmits, Send
    <2>2. mailbox[s] \in Seq(Change) /\ m.what \in Change
      BY <1>1 DEF TypeOK, Message
    <2>3. Elements(Append(mailbox[s], m.what)) = Elements(mailbox[s]) \cup {m.what}
      BY <2>2, AppendFacts
    <2>4. Got(s) \subseteq Got(s)'
      BY <2>1, <2>3 DEF Got
    <2>5. CASE m.what = c /\ s \in Members(m.to)
      <3>1. mailbox'[s] = Append(mailbox[s], m.what)
        BY <2>1, <2>5
      <3>2. c \in Got(s)'
        BY <2>3, <2>5, <3>1 DEF Got
      <3>3. QED BY <3>2 DEF OnItsWay
    <2>6. CASE ~(m.what = c /\ s \in Members(m.to))
      <3>1. ASSUME NEW n \in InFlight, n.what = c, s \in Members(n.to)
            PROVE  n \in InFlight'
        BY <2>1, <2>6, <3>1
      <3>2. QED BY <1>2, <2>1, <2>4, <3>1 DEF OnItsWay
    <2>7. QED BY <2>5, <2>6
  <1>7. ASSUME NEW x \in Subscriber, Receive(x) PROVE OnItsWay(c, s)'
    <2>1. UNCHANGED <<hooks, sends, tasks>>
      BY <1>7 DEF Receive, writing
    <2>2. InFlight' = InFlight
      BY <2>1 DEF InFlight
    <2>3. CASE x # s
      <3>1. Got(s)' = Got(s)
        BY <1>1, <1>7, <2>3, ReceiveFacts DEF Got
      <3>2. QED BY <1>2, <2>1, <2>2, <3>1 DEF OnItsWay
    <2>4. CASE x = s
      <3>1. PICK d : d = Head(mailbox[s])
        OBVIOUS
      <3>2. /\ d \in Change /\ received[s] \in Seq(Change)
            /\ Elements(mailbox[s]) = {d} \cup Elements(mailbox'[s])
            /\ \/ received' = received /\ ~Passes(d, request[s])
               \/ received'[s] = Append(received[s], d)
        BY <1>1, <1>7, <2>4, <3>1, ReceiveFacts
      <3>3. Elements(Append(received[s], d)) = Elements(received[s]) \cup {d}
        BY <3>2, AppendFacts
      <3>4. Elements(received[s]) \subseteq Elements(received'[s])
        BY <3>2, <3>3
      <3>5. c = d => c \in Elements(received'[s])
        BY <3>2, <3>3, WantedPasses
      <3>6. c \in Got(s) => c \in Got(s)'
        BY <3>2, <3>4, <3>5 DEF Got
      <3>7. QED BY <1>2, <2>1, <2>2, <3>6 DEF OnItsWay
    <2>5. QED BY <2>3, <2>4
  <1>8. ASSUME NEW x \in Subscriber, NEW q \in Asked, Subscribe(x, q) PROVE OnItsWay(c, s)'
    <2>1. UNCHANGED <<hooks, sends, tasks, mailbox, received>>
      BY <1>8 DEF Subscribe, writing, sending
    <2>2. InFlight' = InFlight /\ Got(s)' = Got(s)
      BY <2>1 DEF InFlight, Got
    <2>3. QED BY <1>2, <2>1, <2>2 DEF OnItsWay
  <1>9. QED BY <1>1, <1>4, <1>5, <1>6, <1>7, <1>8, StepKinds

LEMMA ReachesStep ==
    ASSUME Falsy = {}, Way, Registered, Reaches, [Next]_vars
    PROVE  Reaches'
  <1>1. TypeOK /\ Base /\ Remembers
    BY HistoryStep DEF Way, Base
  <1>2. /\ mode' = mode /\ dropped \subseteq dropped'
        /\ \A s \in Subscriber : request[s] # None => request'[s] = request[s]
    BY <1>1, Persists
  <1>3. ASSUME NEW s \in Subscriber, NEW n \in audience'[s], NEW c, NEW q,
               c = log'[n], q = request'[s]
        PROVE  /\ n \in DOMAIN log' /\ fate'[n] = "committed" /\ q # None
               /\ n \notin dropped' /\ Decidable(c, q)' /\ Wanted(c, q) => OnItsWay(c, s)'
    <2>1. CASE n \in audience[s]
      <3>1. n \in DOMAIN log /\ fate[n] = "committed" /\ request[s] # None
        BY <2>1 DEF Reaches
      <3>2. /\ n \in DOMAIN log' /\ fate'[n] = "committed" /\ log[n] = c
            /\ request[s] = q
        BY <1>1, <1>2, <1>3, <3>1 DEF Remembers
      <3>3. c.n = n /\ Stands(c)
        BY <1>1, <3>1, <3>2, LogFacts DEF Stands, Known
      <3>4. ASSUME n \notin dropped', Decidable(c, q)', Wanted(c, q)
            PROVE  OnItsWay(c, s)'
        <4>1. Decidable(c, q)
          BY <1>2, <3>4 DEF Decidable, InMemory, Lookup, Merged, Equality
        <4>2. n \notin dropped
          BY <1>2, <3>4
        <4>3. OnItsWay(c, s)
          BY <2>1, <3>2, <3>4, <4>1, <4>2 DEF Reaches
        <4>4. Decidable(c, request[s]) /\ Wanted(c, request[s]) /\ c.n \notin dropped'
          BY <3>2, <3>3, <3>4, <4>1
        <4>5. QED BY <3>1, <3>3, <4>3, <4>4, OnItsWayStep
      <3>5. QED BY <3>1, <3>2, <3>4
    <2>2. CASE n \notin audience[s]
      <3>1. /\ Silent /\ UNCHANGED <<hooks, log, request>> /\ request[s] # None
            /\ n \in DOMAIN log /\ fate[n] = "pending" /\ fate'[n] = "committed"
        BY <1>3, <2>2, AudienceStep
      <3>2. c = log[n] /\ q = request[s] /\ hooks' = hooks
        BY <1>3, <3>1
      <3>3. n \notin dropped' => c \in Elements(hooks[c.by])
        BY <1>2, <3>1, <3>2 DEF Registered
      <3>4. n \notin dropped' => c \in Elements(hooks'[c.by])
        BY <3>2, <3>3
      <3>5. n \notin dropped' => OnItsWay(c, s)'
        BY <3>4 DEF OnItsWay
      <3>6. QED BY <3>1, <3>2, <3>5
    <2>3. QED BY <2>1, <2>2
  <1>4. SUFFICES ASSUME NEW s \in Subscriber, NEW n \in audience'[s]
                 PROVE  (/\ n \in DOMAIN log /\ fate[n] = "committed" /\ request[s] # None
                         /\ n \notin dropped /\ Decidable(log[n], request[s])
                            /\ Wanted(log[n], request[s]) => OnItsWay(log[n], s))'
    BY DEF Reaches
  <1>5. PICK c, q : c = log'[n] /\ q = request'[s]
    OBVIOUS
  <1>6. /\ n \in DOMAIN log' /\ fate'[n] = "committed" /\ q # None
        /\ n \notin dropped' /\ Decidable(c, q)' /\ Wanted(c, q) => OnItsWay(c, s)'
    BY <1>3, <1>5
  <1>7. QED
    BY <1>5, <1>6 DEF Decidable, InMemory, Lookup, Merged, Equality, Wanted, OnItsWay, Got

LEMMA ReachesHolds ==
    ASSUME Falsy = {}
    PROVE  Spec => [](Way /\ Registered /\ Reaches)
  <1>1. Init => Way /\ Registered /\ Reaches
    BY InitWay DEF Init, Registered, Reaches
  <1>2. Way /\ Registered /\ Reaches /\ [Next]_vars => (Way /\ Registered /\ Reaches)'
    BY WayStep, RegisteredStep, ReachesStep
  <1>3. QED BY <1>1, <1>2, PTL DEF Spec

(* Where no key is false, a subscriber has, once all is sent, every change  *)
(* committed while it listened that its scope and filters select and for    *)
(* which nothing failed, with or without index fields.                      *)
THEOREM NothingIsMissed ==
    ASSUME Falsy = {}
    PROVE  Spec => []NothingMissed
  <1>1. Way /\ Registered /\ Reaches => NothingMissed
    <2> SUFFICES ASSUME Way, Reaches, NEW s \in Subscriber, Settled(s),
                        NEW n \in audience[s] \ dropped,
                        Decidable(log[n], request[s]), Wanted(log[n], request[s])
                 PROVE  \E i \in DOMAIN received[s] : received[s][i].n = n
      BY DEF NothingMissed
    <2>1. PICK c : c = log[n]
      OBVIOUS
    <2>2. n \in DOMAIN log /\ fate[n] = "committed" /\ OnItsWay(c, s)
      BY <2>1 DEF Reaches
    <2>3. c.n = n /\ c.by \in Writer
      BY <2>1, <2>2, LogFacts DEF Way, Change
    <2>4. c \notin Elements(hooks[c.by])
      BY <2>2, <2>3 DEF Way, Hooks, HookOK, Waits, Settled
    <2>5. InFlight = {}
      BY EmptyFacts DEF Settled, InFlight
    <2>6. c \in Elements(received[s])
      BY <2>2, <2>4, <2>5, EmptyFacts DEF OnItsWay, Got, Settled
    <2>7. QED BY <2>3, <2>6 DEF Elements
  <1>2. QED BY <1>1, ReachesHolds, PTL
=============================================================================
