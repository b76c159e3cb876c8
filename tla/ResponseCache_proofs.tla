------------------------ MODULE ResponseCache_proofs ------------------------
(***************************************************************************)
(* Proofs about ResponseCache: for any number of requests, callers and      *)
(* namespaces, a response is as new as the last bump its reader could have  *)
(* seen, it is the reader's own, and no commit goes without a bump.         *)
(***************************************************************************)
EXTENDS ResponseCache, TLAPS

Holding == {"lookup", "executing", "storing"}
Reading == Holding \cup {"version", "seeding", "answered"}

(* A request knows its caller; a version it holds is not ahead of the       *)
(* counter of the same era; what it is about to store is not older than the *)
(* last bump if its version is still current, nor than what it must see.    *)
Requests ==
    \A r \in Request :
        /\ pc[r] # "idle" => who[r] \in Identity
        /\ pc[r] \in Reading => floor[r] <= bumped[Home(r)]
        /\ pc[r] \in Holding =>
              /\ version[r] \in 1..MaxVersion
              /\ seen[r] <= era[Home(r)]
              /\ seen[r] = era[Home(r)] /\ counter[Home(r)] # Absent
                    => version[r] <= counter[Home(r)]
        /\ pc[r] \in {"storing", "answered"} =>
              body[r] # Absent /\ body[r].owner = who[r]
        /\ pc[r] = "storing" =>
              /\ body[r].era = seen[r]
              /\ floor[r] <= body[r].data
              /\ seen[r] = era[Home(r)] /\ version[r] = counter[Home(r)]
                    => bumped[Home(r)] <= body[r].data

(* A response of the current era is stored under no later version than the  *)
(* counter, and under the counter itself only if it is as new as the last   *)
(* bump.                                                                    *)
Stored ==
    \A i \in Identity, v \in 1..MaxVersion :
        entries[<<i, v>>] # Absent =>
            /\ entries[<<i, v>>].owner = i
            /\ entries[<<i, v>>].era <= era[NamespaceOf[i]]
            /\ entries[<<i, v>>].era = era[NamespaceOf[i]]
                  /\ counter[NamespaceOf[i]] # Absent => v <= counter[NamespaceOf[i]]
            /\ entries[<<i, v>>].era = era[NamespaceOf[i]]
                  /\ v = counter[NamespaceOf[i]]
                     => bumped[NamespaceOf[i]] <= entries[<<i, v>>].data

(* What a lookup may find, now or after a store that is under way, is not   *)
(* older than what the request must see.                                    *)
Lookups ==
    \A q \in Request :
        pc[q] = "lookup" =>
            /\ entries[<<who[q], version[q]>>] # Absent
                  /\ entries[<<who[q], version[q]>>].era = seen[q]
                     => floor[q] <= entries[<<who[q], version[q]>>].data
            /\ \A r \in Request :
                  pc[r] = "storing" /\ who[r] = who[q] /\ version[r] = version[q]
                     /\ seen[r] = seen[q] => floor[q] <= body[r].data

(* Between the miss of a bump and its heal: once somebody has made the      *)
(* counter anew, what is current, stored or about to be, is as new as what  *)
(* the mutation wrote, for the query that stored it ran after the miss.     *)
Healings ==
    \A r \in Request :
        pc[r] = "healing" /\ body[r] # Absent /\ counter[Home(r)] # Absent =>
            /\ \A i \in Identity, v \in 1..MaxVersion :
                  entries[<<i, v>>] # Absent /\ NamespaceOf[i] = Home(r)
                     /\ entries[<<i, v>>].era = era[Home(r)] /\ v = counter[Home(r)]
                     => body[r].data <= entries[<<i, v>>].data
            /\ \A q \in Request :
                  pc[q] = "storing" /\ Home(q) = Home(r)
                     /\ seen[q] = era[Home(r)] /\ version[q] = counter[Home(r)]
                     => body[r].data <= body[q].data

(* No bump and no write is ahead of the database, and a last write that is  *)
(* not bumped yet is in the hands of the mutation that made it.             *)
Pending ==
    \A n \in Namespace :
        /\ bumped[n] <= db
        /\ written[n] <= db
        /\ \/ lost
           \/ written[n] <= bumped[n]
           \/ \E r \in Request :
                 /\ pc[r] \in Writing /\ Home(r) = n
                 /\ body[r] # Absent /\ body[r].data = written[n]

(* What a mutation has written is in the database. *)
Unbumped ==
    \A r \in Request :
        pc[r] \notin Reading /\ body[r] # Absent => body[r].data <= db

Parts ==
    /\ Requests /\ Stored /\ Lookups /\ AnswersFresh
    /\ Healings /\ Pending /\ Unbumped
Inductive ==
    /\ TypeOK /\ Requests /\ Stored /\ Lookups /\ AnswersFresh
    /\ Healings /\ Pending /\ Unbumped

(* A slot of an identity and a version. *)
LEMMA KeyInSlot ==
    ASSUME NEW i \in Identity, NEW v \in 1..MaxVersion
    PROVE  Key(i, v) = <<i, v>> /\ <<i, v>> \in Slot
  BY DEF Key, Slot

(* The inductive invariant holds initially. *)
LEMMA InitInductive == Init => Inductive
  <1> SUFFICES ASSUME Init PROVE Inductive
    OBVIOUS
  <1> USE CacheAssumption DEF Init
  <1>1. TypeOK
    <2>1. entries \in [Slot -> Body \cup {Absent}] /\ db = 0 /\ 0 \in 0..MaxWrites
      OBVIOUS
    <2>2. QED BY <2>1 DEF TypeOK, PCs
  <1>2. Requests /\ Lookups /\ AnswersFresh
    BY DEF Requests, Reading, Holding, Lookups, AnswersFresh
  <1>3. Stored
    BY KeyInSlot DEF Stored
  <1>4. Pending /\ Healings /\ Unbumped
    BY DEF Pending, Healings, Unbumped
  <1>5. QED BY <1>1, <1>2, <1>3, <1>4 DEF Inductive

(* The namespace of a request under way. *)
LEMMA HomeType ==
    ASSUME Inductive, NEW r \in Request, pc[r] # "idle"
    PROVE  who[r] \in Identity /\ Home(r) \in Namespace
  BY CacheAssumption DEF Inductive, Requests, Home, Namespace

(* Every step keeps the types. *)
LEMMA TypeStep == Inductive /\ [Next]_vars => TypeOK'
  <1> SUFFICES ASSUME Inductive, [Next]_vars PROVE TypeOK'
    OBVIOUS
  <1> TypeOK
    BY DEF Inductive
  <1> USE CacheAssumption DEF TypeOK, Goto, store, past, request
  <1>1. ASSUME NEW r \in Request, Arrive(r) PROVE TypeOK'
    <2>1. PICK i \in Identity :
              who' = [who EXCEPT ![r] = i] /\ (ArriveQuery(r, i) \/ ArriveMutation(r))
      BY <1>1 DEF Arrive
    <2>2. NamespaceOf[i] \in Namespace
      BY DEF Namespace
    <2>3. QED BY <1>1, <2>1, <2>2 DEF Arrive, ArriveQuery, ArriveMutation, PCs, Writing
  <1>2. ASSUME NEW r \in Request, ReadVersion(r) PROVE TypeOK'
    <2>1. Home(r) \in Namespace
      BY <1>2, HomeType DEF ReadVersion
    <2>2. QED BY <1>2, <2>1 DEF ReadVersion, PCs
  <1>3. ASSUME NEW r \in Request, Seed(r) PROVE TypeOK'
    <2>1. Home(r) \in Namespace
      BY <1>3, HomeType DEF Seed
    <2>2. QED BY <1>3, <2>1 DEF Seed, Restart, FirstVersion, PCs
  <1>4. ASSUME NEW r \in Request, Lookup(r) PROVE TypeOK'
    <2>1. Key(who[r], version[r]) \in Slot
      <3>1. who[r] \in Identity /\ version[r] \in 1..MaxVersion
        BY <1>4, HomeType DEF Lookup, Inductive, Requests, Holding
      <3>2. QED BY <3>1 DEF Key, Slot
    <2>2. entries[Key(who[r], version[r])] \in Body \cup {Absent}
      BY <2>1
    <2>3. body' \in [Request -> Body \cup {Absent}]
      BY <1>4, <2>2 DEF Lookup
    <2>4. pc' \in [Request -> PCs]
      BY <1>4 DEF Lookup, PCs
    <2>5. QED BY <1>4, <2>3, <2>4 DEF Lookup
  <1>5. ASSUME NEW r \in Request, Execute(r) PROVE TypeOK'
    <2>1. who[r] \in Identity
      BY <1>5, HomeType DEF Execute
    <2>2. [owner |-> who[r], data |-> db, era |-> seen[r]] \in Body
      BY <2>1 DEF Body
    <2>3. QED BY <1>5, <2>2 DEF Execute, PCs
  <1>6. ASSUME NEW r \in Request, Store(r) PROVE TypeOK'
    <2>1. entries' \in [Slot -> Body \cup {Absent}]
      BY <1>6 DEF Store
    <2>2. QED BY <1>6, <2>1 DEF Store, PCs
  <1>7. ASSUME NEW r \in Request, Write(r) PROVE TypeOK'
    <2>1. who[r] \in Identity /\ Home(r) \in Namespace
      BY <1>7, HomeType DEF Write
    <2>2. db + 1 \in 0..MaxWrites
      BY <1>7 DEF Write
    <2>3. [owner |-> who[r], data |-> db + 1, era |-> 0] \in Body
      BY <2>1, <2>2 DEF Body
    <2>4. QED BY <1>7, <2>1, <2>2, <2>3 DEF Write
  <1>8. ASSUME NEW r \in Request, Return(r) \/ Finish(r) \/ Fail(r) PROVE TypeOK'
    <2>1. CASE Leave(r)
      <3>1. lost' \in BOOLEAN
        BY <1>8 DEF Return, Finish, Fail
      <3>2. QED BY <1>8, <2>1, <3>1 DEF Return, Finish, Fail, Leave, PCs
    <2>2. CASE Finish(r) /\ Goto(r, "bumping") /\ UNCHANGED request
      BY <2>2 DEF Finish, PCs, Writing
    <2>3. QED BY <1>8, <2>1, <2>2 DEF Return, Finish, Fail
  <1>9. ASSUME NEW r \in Request, Bump(r) PROVE TypeOK'
    <2>1. Home(r) \in Namespace
      BY <1>9, HomeType DEF Bump
    <2>2. QED BY <1>9, <2>1 DEF Bump, Leave, PCs
  <1>10. ASSUME NEW r \in Request, BumpMisses(r) PROVE TypeOK'
    BY <1>10 DEF BumpMisses, PCs, Writing
  <1>11. ASSUME NEW r \in Request, Heal(r) PROVE TypeOK'
    <2>1. Home(r) \in Namespace
      BY <1>11, HomeType DEF Heal
    <2>2. Vouched(r) \in 0..MaxWrites
      BY <2>1 DEF Vouched, Body
    <2>3. bumped' \in [Namespace -> 0..MaxWrites]
      BY <1>11, <2>2 DEF Heal
    <2>4. QED BY <1>11, <2>1, <2>3 DEF Heal, Restart, FirstVersion, Leave, PCs
  <1>12. ASSUME NEW s \in Slot, Expire(s) PROVE TypeOK'
    BY <1>12 DEF Expire
  <1>13. ASSUME NEW n \in Namespace, EvictCounter(n) PROVE TypeOK'
    BY <1>13 DEF EvictCounter
  <1>14. CASE UNCHANGED vars
    BY <1>14 DEF vars
  <1>15. QED
    BY <1>1, <1>2, <1>3, <1>4, <1>5, <1>6, <1>7, <1>8, <1>9, <1>10, <1>11, <1>12,
       <1>13, <1>14
    DEF Next, Query, Mutation

(* What request r does leaves the others alone. *)
Others(r) ==
    \A q \in Request \ {r} :
        /\ pc'[q] = pc[q] /\ who'[q] = who[q] /\ version'[q] = version[q]
        /\ body'[q] = body[q] /\ seen'[q] = seen[q] /\ floor'[q] = floor[q]

(* A request that stops reading, or never was, cannot break anything.       *)
LEMMA NotReading ==
    ASSUME Inductive, NEW r \in Request, Others(r),
           pc'[r] \notin Reading, pc'[r] # "idle" => who'[r] \in Identity,
           UNCHANGED <<counter, entries, era, bumped>>
    PROVE  Requests' /\ Stored' /\ Lookups' /\ AnswersFresh'
  <1>1. Requests'
    BY DEF Inductive, Requests, Others, Reading, Holding, Home
  <1>2. Stored'
    BY DEF Inductive, Stored
  <1>3. Lookups'
    BY DEF Inductive, Lookups, Others, Reading, Holding
  <1>4. AnswersFresh'
    BY DEF Inductive, AnswersFresh, Others, Reading
  <1>5. QED BY <1>1, <1>2, <1>3, <1>4

(* Nor can it break what a heal relies on, if it is not one to store.       *)
LEMMA HealingsKept ==
    ASSUME Inductive, NEW r \in Request, Others(r), pc'[r] # "storing",
           pc'[r] = "healing" => counter'[NamespaceOf[who'[r]]] = Absent,
           UNCHANGED <<counter, entries, era>>
    PROVE  Healings'
  <1> SUFFICES ASSUME NEW h \in Request, pc'[h] = "healing", body'[h] # Absent,
                      counter'[Home(h)'] # Absent
               PROVE  /\ \A i \in Identity, v \in 1..MaxVersion :
                            entries'[<<i, v>>] # Absent /\ NamespaceOf[i] = Home(h)'
                               /\ entries'[<<i, v>>].era = era'[Home(h)']
                               /\ v = counter'[Home(h)']
                               => body'[h].data <= entries'[<<i, v>>].data
                      /\ \A q \in Request :
                            pc'[q] = "storing" /\ Home(q)' = Home(h)'
                               /\ seen'[q] = era'[Home(h)']
                               /\ version'[q] = counter'[Home(h)']
                               => body'[h].data <= body'[q].data
    BY DEF Healings
  <1>1. h # r
    BY DEF Home
  <1>2. /\ pc[h] = "healing" /\ body'[h] = body[h] /\ body[h] # Absent
        /\ Home(h)' = Home(h) /\ counter[Home(h)] # Absent
    BY <1>1 DEF Others, Home
  <1>3. \A q \in Request : pc'[q] = "storing" =>
            /\ pc[q] = "storing" /\ Home(q)' = Home(q) /\ seen'[q] = seen[q]
            /\ version'[q] = version[q] /\ body'[q] = body[q]
    BY DEF Others, Home
  <1>4. QED BY <1>2, <1>3 DEF Inductive, Healings

(* The steps that set or lose the position of a request without touching    *)
(* what is shared.                                                          *)
LEMMA ArriveStep ==
    ASSUME Inductive, NEW r \in Request, Arrive(r)
    PROVE  Parts'
  <1> USE DEF Arrive, store, past
  <1>1. PICK i \in Identity :
            who' = [who EXCEPT ![r] = i] /\ (ArriveQuery(r, i) \/ ArriveMutation(r))
    OBVIOUS
  <1>2. /\ pc[r] = "idle" /\ who'[r] = i /\ Others(r)
        /\ UNCHANGED <<counter, entries, era, bumped, db, written, lost, body>>
    BY <1>1 DEF ArriveQuery, ArriveMutation, Goto, Inductive, TypeOK, Others
  <1>3. Pending' /\ Healings'
    <2>1. pc'[r] \in {"version", "writing"}
      BY <1>1 DEF ArriveQuery, ArriveMutation, Goto, Inductive, TypeOK
    <2>2. Pending'
      BY <1>2 DEF Inductive, Pending, Others, Writing, Home
    <2>3. QED BY <1>2, <2>1, <2>2, HealingsKept
  <1>4. Unbumped'
    BY <1>2 DEF Inductive, Unbumped, Others, Reading, Holding
  <1>5. CASE ArriveMutation(r)
    <2>1. pc'[r] = "writing"
      BY <1>5 DEF ArriveMutation, Goto, Inductive, TypeOK
    <2>2. QED BY <1>2, <1>3, <1>4, <2>1, NotReading DEF Parts, Reading, Holding
  <1>6. CASE ArriveQuery(r, i)
    <2>1. pc'[r] = "version" /\ floor'[r] = bumped[NamespaceOf[i]]
      BY <1>6 DEF ArriveQuery, Goto, Inductive, TypeOK
    <2>2. bumped[NamespaceOf[i]] \in Nat
      BY CacheAssumption DEF Inductive, TypeOK, Namespace
    <2>3. Requests'
      BY <1>2, <2>1, <2>2 DEF Inductive, Requests, Others, Reading, Holding, Home
    <2>4. Stored' /\ Lookups' /\ AnswersFresh'
      BY <1>2, <2>1 DEF Inductive, Stored, Lookups, AnswersFresh, Others
    <2>5. QED BY <1>3, <1>4, <2>3, <2>4 DEF Parts
  <1>7. QED BY <1>1, <1>5, <1>6

(* Leaving, ending the execution and writing are no reading either. *)
LEMMA MutationStep ==
    ASSUME Inductive, NEW r \in Request,
           Return(r) \/ Finish(r) \/ Fail(r) \/ Write(r)
    PROVE  Parts'
  <1>1. CASE Leave(r) /\ (Return(r) \/ Finish(r) \/ Fail(r))
    <2>1. /\ pc'[r] = "idle" /\ body'[r] = Absent /\ Others(r)
          /\ UNCHANGED <<counter, entries, era, bumped, db, written>>
      BY <1>1 DEF Leave, Return, Finish, Fail, Goto, Inductive, TypeOK, Others, store, past
    <2>2. lost' \/ ((lost' = lost) /\ ~(pc[r] \in Writing /\ body[r] # Absent))
      BY <1>1 DEF Leave, Return, Finish, Fail, Goto, Inductive, TypeOK, Writing,
                  Marked, request, past
    <2>3. Pending'
      BY <2>1, <2>2 DEF Inductive, Pending, Others, Home
    <2>4. Healings' /\ Unbumped'
      BY <2>1, HealingsKept DEF Inductive, Unbumped, Others
    <2>5. QED BY <2>1, <2>3, <2>4, NotReading DEF Parts, Reading, Holding
  <1>2. CASE Finish(r) /\ Goto(r, "bumping") /\ UNCHANGED request
    <2>1. /\ pc[r] = "writing" /\ pc'[r] = "bumping" /\ Others(r)
          /\ UNCHANGED <<counter, entries, era, bumped, db, written, lost, who, body>>
      BY <1>2 DEF Finish, Goto, Inductive, TypeOK, Others, store, past, request
    <2>2. who[r] \in Identity
      BY <2>1, HomeType
    <2>3. Pending'
      BY <2>1 DEF Inductive, Pending, Others, Home, Writing
    <2>4. Healings' /\ Unbumped'
      BY <2>1, HealingsKept DEF Inductive, Unbumped, Others, Reading, Holding
    <2>5. QED BY <2>1, <2>2, <2>3, <2>4, NotReading DEF Parts, Reading, Holding
  <1>3. CASE Write(r)
    <2>1. /\ pc[r] = "writing" /\ pc'[r] = "writing" /\ Others(r)
          /\ db' = db + 1 /\ written' = [written EXCEPT ![Home(r)] = db + 1]
          /\ body'[r] = [owner |-> who[r], data |-> db + 1, era |-> 0]
          /\ UNCHANGED <<counter, entries, era, bumped, lost, who>>
      BY <1>3 DEF Write, Inductive, TypeOK, Others, store
    <2>2. who[r] \in Identity /\ Home(r) \in Namespace
      BY <2>1, HomeType
    <2>3. body'[r] # Absent
      BY <2>1, <2>2, CacheAssumption DEF Inductive, TypeOK
    <2>4. Pending'
      BY <2>1, <2>2, <2>3, CacheAssumption
      DEF Inductive, TypeOK, Pending, Others, Home, Writing
    <2>5. Unbumped'
      <3>1. \A q \in Request : body[q] # Absent => body[q].data \in Nat
        BY CacheAssumption DEF Inductive, TypeOK, Body
      <3>2. db \in Nat
        BY CacheAssumption DEF Inductive, TypeOK
      <3>3. QED BY <2>1, <3>1, <3>2 DEF Inductive, Unbumped, Others
    <2>6. Healings'
      BY <2>1, HealingsKept
    <2>7. QED BY <2>1, <2>2, <2>4, <2>5, <2>6, NotReading DEF Parts, Reading, Holding
  <1>4. QED BY <1>1, <1>2, <1>3 DEF Return, Finish, Fail

(* Reading the version: what is stored under the counter is fresh enough.   *)
LEMMA ReadVersionStep ==
    ASSUME Inductive, NEW r \in Request, ReadVersion(r)
    PROVE  Parts'
  <1>1. /\ pc[r] = "version" /\ Others(r)
        /\ UNCHANGED <<counter, entries, era, bumped, db, written, lost, who, body, floor>>
    BY DEF ReadVersion, Goto, Inductive, TypeOK, Others, store, past
  <1>2. who[r] \in Identity /\ Home(r) \in Namespace
    BY <1>1, HomeType
  <1>3. Stored' /\ Pending' /\ Unbumped' /\ Healings'
    <2>1. pc'[r] \in {"seeding", "lookup"}
      BY DEF ReadVersion, Goto, Inductive, TypeOK
    <2>2. Stored' /\ Pending' /\ Unbumped'
      BY <1>1, <2>1
      DEF Inductive, Stored, Pending, Unbumped, Others, Home, Writing, Reading, Holding
    <2>3. QED BY <1>1, <2>1, <2>2, HealingsKept
  <1>4. CASE counter[Home(r)] = Absent
    <2>1. pc'[r] = "seeding" /\ UNCHANGED <<version, seen>>
      BY <1>4 DEF ReadVersion, Goto, Inductive, TypeOK
    <2>2. Requests' /\ Lookups' /\ AnswersFresh'
      BY <1>1, <2>1 DEF Inductive, Requests, Lookups, AnswersFresh, Others, Reading, Holding, Home
    <2>3. QED BY <1>3, <2>2 DEF Parts
  <1>5. CASE counter[Home(r)] # Absent
    <2>1. /\ pc'[r] = "lookup" /\ version'[r] = counter[Home(r)]
          /\ seen'[r] = era[Home(r)]
      BY <1>5 DEF ReadVersion, Goto, Inductive, TypeOK
    <2>2. version'[r] \in 1..MaxVersion /\ seen'[r] \in Nat
      BY <1>2, <1>5, <2>1 DEF Inductive, TypeOK
    <2>3. Requests'
      BY <1>1, <1>2, <2>1, <2>2, CacheAssumption
      DEF Inductive, Requests, Others, Reading, Holding, Home
    <2>4. floor[r] <= bumped[Home(r)] /\ floor[r] \in Nat /\ bumped[Home(r)] \in Nat
      BY <1>1, <1>2 DEF Inductive, TypeOK, Requests, Reading
    <2>5. ASSUME entries[<<who[r], version'[r]>>] # Absent,
                 entries[<<who[r], version'[r]>>].era = seen'[r]
          PROVE  floor[r] <= entries[<<who[r], version'[r]>>].data
      <3>1. entries[<<who[r], version'[r]>>] \in Body
        BY <1>2, <2>2, <2>5, KeyInSlot DEF Inductive, TypeOK
      <3>2. bumped[Home(r)] <= entries[<<who[r], version'[r]>>].data
        BY <1>2, <2>1, <2>2, <2>5 DEF Inductive, Stored, Home
      <3>3. QED BY <2>4, <3>1, <3>2, CacheAssumption DEF Body
    <2>6. ASSUME NEW q \in Request, pc[q] = "storing", who[q] = who[r],
                 version[q] = version'[r], seen[q] = seen'[r]
          PROVE  floor[r] <= body[q].data
      <3>1. body[q] \in Body
        BY <2>6 DEF Inductive, TypeOK, Requests
      <3>2. bumped[Home(q)] <= body[q].data /\ Home(q) = Home(r)
        BY <2>1, <2>6 DEF Inductive, Requests, Home
      <3>3. QED BY <2>4, <3>1, <3>2, CacheAssumption DEF Body
    <2>7. Lookups'
      BY <1>1, <2>1, <2>5, <2>6 DEF Inductive, Lookups, Others
    <2>8. AnswersFresh'
      BY <1>1, <2>1 DEF Inductive, AnswersFresh, Others
    <2>9. QED BY <1>3, <2>3, <2>7, <2>8 DEF Parts
  <1>6. QED BY <1>4, <1>5

(* A counter that is restarted, advanced with a bump, or lost, keeps what   *)
(* is said about the requests and responses that are there: what had the    *)
(* counter's value has it no longer, or belongs to an earlier era.          *)
Moves(n) ==
    /\ \A m \in Namespace \ {n} :
          counter'[m] = counter[m] /\ era'[m] = era[m] /\ bumped'[m] = bumped[m]
    /\ \/ era'[n] = era[n] + 1
       \/ /\ era'[n] = era[n] /\ counter[n] # Absent
          /\ counter'[n] = Absent \/ counter'[n] = counter[n] + 1
    /\ bumped'[n] >= bumped[n]

(* Stored responses. *)
LEMMA MovesStored ==
    ASSUME Inductive, NEW n \in Namespace, Moves(n), UNCHANGED entries, TypeOK'
    PROVE  Stored'
  <1> SUFFICES ASSUME NEW i \in Identity, NEW v \in 1..MaxVersion,
                      entries[<<i, v>>] # Absent
               PROVE  /\ entries[<<i, v>>].owner = i
                      /\ entries[<<i, v>>].era <= era'[NamespaceOf[i]]
                      /\ entries[<<i, v>>].era = era'[NamespaceOf[i]]
                            /\ counter'[NamespaceOf[i]] # Absent
                               => v <= counter'[NamespaceOf[i]]
                      /\ entries[<<i, v>>].era = era'[NamespaceOf[i]]
                            /\ v = counter'[NamespaceOf[i]]
                               => bumped'[NamespaceOf[i]] <= entries[<<i, v>>].data
    BY DEF Stored
  <1> DEFINE e == entries[<<i, v>>]
             m == NamespaceOf[i]
  <1>1. e \in Body /\ m \in Namespace
    BY KeyInSlot DEF Inductive, TypeOK, Namespace
  <1>2. /\ e.owner = i /\ e.era <= era[m]
        /\ e.era = era[m] /\ counter[m] # Absent => v <= counter[m]
        /\ e.era = era[m] /\ v = counter[m] => bumped[m] <= e.data
    BY DEF Inductive, Stored
  <1>3. /\ e.era \in Nat /\ era[m] \in Nat
        /\ counter[m] # Absent => counter[m] \in Nat
        /\ Absent \notin Nat
    BY <1>1, CacheAssumption DEF Inductive, TypeOK, Body
  <1>4. CASE m # n
    BY <1>1, <1>2, <1>4 DEF Moves
  <1>5. CASE m = n
    BY <1>2, <1>3, <1>5 DEF Moves
  <1>6. QED BY <1>4, <1>5

(* Requests. *)
LEMMA MovesRequest ==
    ASSUME Inductive, NEW n \in Namespace, Moves(n), TypeOK',
           NEW q \in Request, pc'[q] = pc[q], who'[q] = who[q],
           version'[q] = version[q], body'[q] = body[q], seen'[q] = seen[q],
           floor'[q] = floor[q]
    PROVE
        /\ pc'[q] # "idle" => who'[q] \in Identity
        /\ pc'[q] \in Reading => floor'[q] <= bumped'[Home(q)']
        /\ pc'[q] \in Holding =>
              /\ version'[q] \in 1..MaxVersion
              /\ seen'[q] <= era'[Home(q)']
              /\ seen'[q] = era'[Home(q)'] /\ counter'[Home(q)'] # Absent
                    => version'[q] <= counter'[Home(q)']
        /\ pc'[q] \in {"storing", "answered"} =>
              body'[q] # Absent /\ body'[q].owner = who'[q]
        /\ pc'[q] = "storing" =>
              /\ body'[q].era = seen'[q]
              /\ floor'[q] <= body'[q].data
              /\ seen'[q] = era'[Home(q)'] /\ version'[q] = counter'[Home(q)']
                    => bumped'[Home(q)'] <= body'[q].data
  <1>1. CASE pc[q] = "idle"
    BY <1>1 DEF Reading, Holding
  <1>2. CASE pc[q] # "idle"
    <2> DEFINE m == Home(q)
    <2>1. m \in Namespace /\ Home(q)' = m
      BY <1>2, HomeType DEF Home
    <2>2. /\ seen[q] \in Nat /\ era[m] \in Nat /\ floor[q] \in Nat
          /\ bumped[m] \in Nat /\ bumped'[m] \in Nat
          /\ counter[m] # Absent => counter[m] \in Nat
          /\ Absent \notin Nat
      BY <2>1, CacheAssumption DEF Inductive, TypeOK
    <2>3. CASE m # n
      BY <2>1, <2>3 DEF Moves, Inductive, Requests
    <2>4. CASE m = n
      BY <2>1, <2>2, <2>4 DEF Moves, Inductive, Requests, Holding
    <2>5. QED BY <2>3, <2>4
  <1>3. QED BY <1>1, <1>2

(* Heals under way. *)
LEMMA MovesHealings ==
    ASSUME Inductive, NEW n \in Namespace, Moves(n), UNCHANGED entries,
           \A q \in Request : pc'[q] \in {"storing", "healing"} =>
              /\ pc[q] = pc'[q] /\ Home(q)' = Home(q) /\ version'[q] = version[q]
              /\ body'[q] = body[q] /\ seen'[q] = seen[q]
    PROVE  Healings'
  <1> SUFFICES ASSUME NEW h \in Request, pc'[h] = "healing", body'[h] # Absent,
                      counter'[Home(h)'] # Absent
               PROVE  /\ \A i \in Identity, v \in 1..MaxVersion :
                            entries'[<<i, v>>] # Absent /\ NamespaceOf[i] = Home(h)'
                               /\ entries'[<<i, v>>].era = era'[Home(h)']
                               /\ v = counter'[Home(h)']
                               => body'[h].data <= entries'[<<i, v>>].data
                      /\ \A q \in Request :
                            pc'[q] = "storing" /\ Home(q)' = Home(h)'
                               /\ seen'[q] = era'[Home(h)']
                               /\ version'[q] = counter'[Home(h)']
                               => body'[h].data <= body'[q].data
    BY DEF Healings
  <1> DEFINE m == Home(h)
  <1>1. /\ pc[h] = "healing" /\ body'[h] = body[h] /\ body[h] # Absent
        /\ Home(h)' = m /\ counter'[m] # Absent /\ m \in Namespace
    BY HomeType
  <1>2. CASE m # n
    <2>1. counter'[m] = counter[m] /\ era'[m] = era[m]
      BY <1>1, <1>2 DEF Moves
    <2>2. QED BY <1>1, <2>1 DEF Inductive, Healings
  <1>3. CASE m = n
    <2>1. era[n] \in Nat /\ (counter[n] # Absent => counter[n] \in Nat)
      BY CacheAssumption DEF Inductive, TypeOK
    <2>2. \/ era'[n] = era[n] + 1
          \/ era'[n] = era[n] /\ counter[n] # Absent /\ counter'[n] = counter[n] + 1
      BY <1>1, <1>3 DEF Moves
    <2>3. ASSUME NEW i \in Identity, NEW v \in 1..MaxVersion,
                 entries[<<i, v>>] # Absent, NamespaceOf[i] = n
          PROVE  ~(entries[<<i, v>>].era = era'[n] /\ v = counter'[n])
      <3>1. /\ entries[<<i, v>>].era <= era[n]
            /\ entries[<<i, v>>].era = era[n] /\ counter[n] # Absent => v <= counter[n]
        BY <2>3 DEF Inductive, Stored
      <3>2. entries[<<i, v>>].era \in Nat
        BY <2>3, KeyInSlot DEF Inductive, TypeOK, Body
      <3>3. QED BY <2>1, <2>2, <3>1, <3>2
    <2>4. ASSUME NEW q \in Request, pc'[q] = "storing", Home(q) = n
          PROVE  ~(seen[q] = era'[n] /\ version[q] = counter'[n])
      <3>1. /\ seen[q] <= era[n] /\ seen[q] \in Nat /\ version[q] \in Nat
            /\ seen[q] = era[n] /\ counter[n] # Absent => version[q] <= counter[n]
        BY <2>4, CacheAssumption DEF Inductive, TypeOK, Requests, Holding
      <3>2. QED BY <2>1, <2>2, <3>1
    <2>5. QED BY <1>1, <1>3, <2>3, <2>4
  <1>4. QED BY <1>2, <1>3

(* A seed that moves the counter begins an era; one that does not is a read.*)
LEMMA SeedStep ==
    ASSUME Inductive, NEW r \in Request, Seed(r), TypeOK'
    PROVE  Parts'
  <1> DEFINE n == Home(r)
  <1>1. /\ pc[r] = "seeding" /\ pc'[r] = "lookup" /\ Others(r)
        /\ who' = who /\ body' = body /\ floor' = floor /\ version'[r] = 1
        /\ seen'[r] = era'[n] /\ Restart(n)
        /\ UNCHANGED <<entries, bumped, db, written, lost>>
    BY DEF Seed, Goto, FirstVersion, Inductive, TypeOK, Others
  <1>2. who[r] \in Identity /\ n \in Namespace
    BY <1>1, HomeType
  <1>3. /\ counter'[n] = 1 /\ era[n] \in Nat /\ 1 \in 1..MaxVersion
        /\ \A m \in Namespace \ {n} : counter'[m] = counter[m] /\ era'[m] = era[m]
        /\ era'[n] = IF counter[n] = 1 THEN era[n] ELSE era[n] + 1
    BY <1>1, <1>2, CacheAssumption DEF Restart, FirstVersion, Inductive, TypeOK
  <1>4. /\ floor[r] <= bumped[n] /\ floor[r] \in Nat
        /\ \A m \in Namespace : bumped[m] \in Nat
    BY <1>1, <1>2 DEF Inductive, TypeOK, Requests, Reading
  <1>5. Pending' /\ Unbumped'
    BY <1>1 DEF Inductive, Pending, Unbumped, Others, Home, Writing, Reading, Holding
  <1>6. AnswersFresh'
    BY <1>1 DEF Inductive, AnswersFresh, Others
  <1>7. CASE counter[n] = 1
    <2>1. UNCHANGED <<counter, era>>
      BY <1>1, <1>2, <1>7 DEF Restart, FirstVersion, Inductive, TypeOK
    <2>2. Stored'
      BY <1>1, <2>1 DEF Inductive, Stored
    <2>3. Requests'
      BY <1>1, <1>2, <1>3, <1>7, <2>1 DEF Inductive, Requests, Others, Reading, Holding, Home
    <2>4. ASSUME entries[<<who[r], 1>>] # Absent, entries[<<who[r], 1>>].era = era[n]
          PROVE  floor[r] <= entries[<<who[r], 1>>].data
      <3>1. entries[<<who[r], 1>>] \in Body
        BY <1>2, <1>3, <2>4, KeyInSlot DEF Inductive, TypeOK
      <3>2. bumped[n] <= entries[<<who[r], 1>>].data
        BY <1>2, <1>3, <1>7, <2>4 DEF Inductive, Stored, Home
      <3>3. QED BY <1>2, <1>4, <3>1, <3>2, CacheAssumption DEF Body
    <2>5. ASSUME NEW q \in Request, pc[q] = "storing", who[q] = who[r],
                 version[q] = 1, seen[q] = era[n]
          PROVE  floor[r] <= body[q].data
      <3>1. body[q] \in Body
        BY <2>5 DEF Inductive, TypeOK, Requests
      <3>2. bumped[n] <= body[q].data
        BY <1>7, <2>5 DEF Inductive, Requests, Home
      <3>3. QED BY <1>2, <1>4, <3>1, <3>2, CacheAssumption DEF Body
    <2>6. Lookups'
      BY <1>1, <2>1, <2>4, <2>5 DEF Inductive, Lookups, Others
    <2>7. Healings'
      BY <1>1, <2>1, HealingsKept
    <2>8. QED BY <1>5, <1>6, <2>2, <2>3, <2>6, <2>7 DEF Parts
  <1>8. CASE counter[n] # 1
    <2>1. Moves(n)
      BY <1>1, <1>2, <1>3, <1>4, <1>8 DEF Moves
    <2>2. Stored'
      BY <1>1, <1>2, <2>1, MovesStored
    <2>3. Requests'
      <3>1. Home(r)' = n
        BY <1>1 DEF Home
      <3>2. ASSUME NEW q \in Request, q # r
            PROVE  pc'[q] = pc[q] /\ who'[q] = who[q] /\ version'[q] = version[q]
                   /\ body'[q] = body[q] /\ seen'[q] = seen[q] /\ floor'[q] = floor[q]
        BY <1>1, <3>2 DEF Others
      <3>3. QED
        BY <1>1, <1>2, <1>3, <1>4, <2>1, <3>1, <3>2, MovesRequest
        DEF Requests, Reading, Holding
    <2>4. entries[<<who[r], 1>>] # Absent => entries[<<who[r], 1>>].era # era'[n]
      <3>1. entries[<<who[r], 1>>] # Absent =>
                entries[<<who[r], 1>>].era <= era[n] /\ entries[<<who[r], 1>>] \in Body
        BY <1>2, <1>3, KeyInSlot DEF Inductive, Stored, TypeOK, Home
      <3>2. QED BY <1>3, <1>8, <3>1 DEF Body
    <2>5. \A q \in Request : pc[q] = "storing" /\ who[q] = who[r] => seen[q] # era'[n]
      <3>1. \A q \in Request : pc[q] = "storing" /\ who[q] = who[r] =>
                seen[q] <= era[n] /\ seen[q] \in Nat
        BY DEF Inductive, Requests, TypeOK, Holding, Home
      <3>2. QED BY <1>3, <1>8, <3>1
    <2>6. Lookups'
      BY <1>1, <2>4, <2>5 DEF Inductive, Lookups, Others
    <2>7. Healings'
      <3>1. \A q \in Request : pc'[q] \in {"storing", "healing"} =>
                /\ pc[q] = pc'[q] /\ Home(q)' = Home(q) /\ version'[q] = version[q]
                /\ body'[q] = body[q] /\ seen'[q] = seen[q]
        BY <1>1 DEF Others, Home
      <3>2. QED BY <1>1, <1>2, <2>1, <3>1, MovesHealings
    <2>8. QED BY <1>5, <1>6, <2>2, <2>3, <2>6, <2>7 DEF Parts
  <1>9. QED BY <1>7, <1>8

(* What a lookup finds is the caller's own and fresh enough. *)
LEMMA LookupStep ==
    ASSUME Inductive, NEW r \in Request, Lookup(r)
    PROVE  Parts'
  <1> DEFINE found == entries[<<who[r], version[r]>>]
  <1>1. /\ pc[r] = "lookup" /\ Others(r)
        /\ IF found = Absent
           THEN pc'[r] = "executing" /\ body'[r] = body[r]
           ELSE pc'[r] = "answered" /\ body'[r] = found
        /\ UNCHANGED <<counter, entries, era, bumped, db, written, lost, who,
                       version, seen, floor>>
    BY DEF Lookup, Key, Goto, Inductive, TypeOK, Others, store, past
  <1>2. who[r] \in Identity /\ version[r] \in 1..MaxVersion
    BY <1>1, HomeType DEF Inductive, Requests, Holding
  <1>3. found # Absent => found.owner = who[r]
    BY <1>2 DEF Inductive, Stored
  <1>4. found # Absent /\ found.era = seen[r] => floor[r] <= found.data
    BY <1>1 DEF Inductive, Lookups
  <1>5. Requests'
    BY <1>1, <1>2, <1>3 DEF Inductive, Requests, Others, Reading, Holding, Home
  <1>6. Stored'
    BY <1>1 DEF Inductive, Stored
  <1>7. Lookups'
    BY <1>1 DEF Inductive, Lookups, Others
  <1>8. AnswersFresh'
    <2> SUFFICES ASSUME NEW q \in Request, pc'[q] = "answered", body'[q].era = seen'[q]
                 PROVE  body'[q].data >= floor'[q]
      BY DEF AnswersFresh
    <2>1. CASE q # r
      BY <1>1, <2>1 DEF Inductive, AnswersFresh, Others
    <2>2. CASE q = r
      <3>1. found \in Body /\ floor[r] \in Nat
        BY <1>1, <1>2, <2>2, KeyInSlot DEF Inductive, TypeOK
      <3>2. floor[r] <= found.data /\ body'[r] = found /\ floor'[r] = floor[r]
        BY <1>1, <1>4, <2>2
      <3>3. QED BY <2>2, <3>1, <3>2, CacheAssumption DEF Body
    <2>3. QED BY <2>1, <2>2
  <1>9. Pending' /\ Unbumped'
    BY <1>1 DEF Inductive, Pending, Unbumped, Others, Home, Writing, Reading, Holding
  <1>10. Healings'
    BY <1>1, HealingsKept
  <1>11. QED BY <1>5, <1>6, <1>7, <1>8, <1>9, <1>10 DEF Parts

(* What is executed now is as new as any bump. *)
LEMMA ExecuteStep ==
    ASSUME Inductive, NEW r \in Request, Execute(r), TypeOK'
    PROVE  Parts'
  <1> DEFINE answer == [owner |-> who[r], data |-> db, era |-> seen[r]]
  <1>1. /\ pc[r] = "executing" /\ pc'[r] \in {"storing", "answered"} /\ Others(r)
        /\ body'[r] = answer
        /\ UNCHANGED <<counter, entries, era, bumped, db, written, lost, who,
                       version, seen, floor>>
    BY DEF Execute, Goto, Inductive, TypeOK, Others, store, past
  <1>2. who[r] \in Identity /\ Home(r) \in Namespace
    BY <1>1, HomeType
  <1>3. answer # Absent
    BY <1>2, CacheAssumption DEF Inductive, TypeOK
  <1>4. \A n \in Namespace : bumped[n] <= db /\ bumped[n] \in Nat /\ db \in Nat
    BY CacheAssumption DEF Inductive, Pending, TypeOK
  <1>5. floor[r] \in Nat /\ floor[r] <= db /\ bumped[Home(r)] <= db
    BY <1>1, <1>2, <1>4 DEF Inductive, Requests, Reading, Holding, TypeOK
  <1>6. Requests'
    BY <1>1, <1>2, <1>3, <1>5 DEF Inductive, Requests, Others, Reading, Holding, Home
  <1>7. Stored'
    BY <1>1 DEF Inductive, Stored
  <1>8. Lookups'
    <2> SUFFICES ASSUME NEW q \in Request, pc'[q] = "lookup", pc'[r] = "storing",
                        who'[r] = who'[q]
                 PROVE  floor'[q] <= body'[r].data
      BY <1>1 DEF Inductive, Lookups, Others
    <2>1. q # r /\ pc[q] = "lookup" /\ floor'[q] = floor[q] /\ Home(q) = Home(r)
      BY <1>1 DEF Others, Home
    <2>2. floor[q] <= bumped[Home(r)] /\ floor[q] \in Nat
      BY <2>1 DEF Inductive, Requests, Reading, Holding, TypeOK
    <2>3. QED BY <1>1, <1>2, <1>4, <2>1, <2>2
  <1>9. AnswersFresh'
    BY <1>1, <1>4, <1>5 DEF Inductive, AnswersFresh, Others
  <1>10. Pending' /\ Unbumped'
    BY <1>1 DEF Inductive, Pending, Unbumped, Others, Home, Writing, Reading, Holding
  <1>11. Healings'
    <2>1. \A h \in Request : pc'[h] = "healing" =>
              /\ h # r /\ pc[h] = "healing" /\ body'[h] = body[h] /\ Home(h)' = Home(h)
      BY <1>1 DEF Others, Home
    <2>2. \A h \in Request : pc[h] = "healing" /\ body[h] # Absent => body[h].data <= db
      BY DEF Inductive, Unbumped, Reading, Holding
    <2>3. \A q \in Request : pc'[q] = "storing" =>
              /\ Home(q)' = Home(q) /\ seen'[q] = seen[q] /\ version'[q] = version[q]
              /\ body'[q].data = db \/ (pc[q] = "storing" /\ body'[q] = body[q])
      BY <1>1 DEF Others, Home
    <2>4. QED BY <1>1, <2>1, <2>2, <2>3 DEF Inductive, Healings
  <1>12. QED BY <1>6, <1>7, <1>8, <1>9, <1>10, <1>11 DEF Parts

(* What is stored was read after the version under which it is stored. *)
LEMMA StoreStep ==
    ASSUME Inductive, NEW r \in Request, Store(r), TypeOK'
    PROVE  Parts'
  <1> DEFINE k == <<who[r], version[r]>>
  <1>1. /\ pc[r] = "storing" /\ pc'[r] = "answered" /\ Others(r)
        /\ entries' = [entries EXCEPT ![k] = body[r]]
        /\ UNCHANGED <<counter, era, bumped, db, written, lost, who, version,
                       body, seen, floor>>
    BY DEF Store, StoreVersion, Key, Goto, Inductive, TypeOK, Others, past, request
  <1>2. who[r] \in Identity /\ version[r] \in 1..MaxVersion /\ k \in Slot
    BY <1>1, HomeType, KeyInSlot DEF Inductive, Requests, Holding
  <1>3. /\ body[r] # Absent /\ body[r].owner = who[r] /\ body[r].era = seen[r]
        /\ floor[r] <= body[r].data
        /\ seen[r] <= era[Home(r)]
        /\ seen[r] = era[Home(r)] /\ counter[Home(r)] # Absent
              => version[r] <= counter[Home(r)]
        /\ seen[r] = era[Home(r)] /\ version[r] = counter[Home(r)]
              => bumped[Home(r)] <= body[r].data
    BY <1>1 DEF Inductive, Requests, Holding
  <1>4. \A i \in Identity, v \in 1..MaxVersion :
            entries'[<<i, v>>] = IF i = who[r] /\ v = version[r] THEN body[r]
                                 ELSE entries[<<i, v>>]
    BY <1>1, <1>2, KeyInSlot DEF Inductive, TypeOK
  <1>5. Requests'
    BY <1>1, <1>3 DEF Inductive, Requests, Others, Reading, Holding, Home
  <1>6. Stored'
    BY <1>1, <1>3, <1>4 DEF Inductive, Stored, Home
  <1>7. Lookups'
    <2> SUFFICES ASSUME NEW q \in Request, pc'[q] = "lookup"
                 PROVE  /\ entries'[<<who'[q], version'[q]>>] # Absent
                              /\ entries'[<<who'[q], version'[q]>>].era = seen'[q]
                           => floor'[q] <= entries'[<<who'[q], version'[q]>>].data
                        /\ \A s \in Request :
                              pc'[s] = "storing" /\ who'[s] = who'[q]
                                 /\ version'[s] = version'[q] /\ seen'[s] = seen'[q]
                              => floor'[q] <= body'[s].data
      BY DEF Lookups
    <2>1. q # r /\ pc[q] = "lookup"
      BY <1>1 DEF Others
    <2>2. who[q] \in Identity /\ version[q] \in 1..MaxVersion
      BY <2>1, HomeType DEF Inductive, Requests, Holding
    <2>3. who[q] = who[r] /\ version[q] = version[r] /\ seen[q] = seen[r]
              => floor[q] <= body[r].data
      BY <1>1, <2>1 DEF Inductive, Lookups
    <2>4. entries[<<who[q], version[q]>>] # Absent
             /\ entries[<<who[q], version[q]>>].era = seen[q]
                => floor[q] <= entries[<<who[q], version[q]>>].data
      BY <2>1 DEF Inductive, Lookups
    <2>5. \A s \in Request : pc'[s] = "storing" => pc[s] = "storing"
      BY <1>1 DEF Others
    <2>6. QED BY <1>1, <1>3, <1>4, <2>1, <2>2, <2>3, <2>4, <2>5 DEF Inductive, Lookups
  <1>8. AnswersFresh'
    <2>1. body[r].data \in Nat /\ floor[r] \in Nat
      BY <1>3, CacheAssumption DEF Inductive, TypeOK, Body
    <2>2. QED BY <1>1, <1>3, <2>1 DEF Inductive, AnswersFresh, Others
  <1>9. Pending' /\ Unbumped'
    BY <1>1 DEF Inductive, Pending, Unbumped, Others, Home, Writing, Reading, Holding
  <1>10. Healings'
    <2> SUFFICES ASSUME NEW h \in Request, pc'[h] = "healing", body'[h] # Absent,
                        counter'[Home(h)'] # Absent
                 PROVE  /\ \A i \in Identity, v \in 1..MaxVersion :
                              entries'[<<i, v>>] # Absent /\ NamespaceOf[i] = Home(h)'
                                 /\ entries'[<<i, v>>].era = era'[Home(h)']
                                 /\ v = counter'[Home(h)']
                                 => body'[h].data <= entries'[<<i, v>>].data
                        /\ \A q \in Request :
                              pc'[q] = "storing" /\ Home(q)' = Home(h)'
                                 /\ seen'[q] = era'[Home(h)']
                                 /\ version'[q] = counter'[Home(h)']
                                 => body'[h].data <= body'[q].data
      BY DEF Healings
    <2>1. /\ pc[h] = "healing" /\ body[h] # Absent /\ Home(h)' = Home(h)
          /\ counter[Home(h)] # Absent
      BY <1>1 DEF Others, Home
    <2>2. \A q \in Request : pc'[q] = "storing" => pc[q] = "storing"
      BY <1>1 DEF Others
    <2>3. \A q \in Request : Home(q)' = Home(q)
      BY <1>1 DEF Home
    <2>4. ASSUME NEW i \in Identity, NEW v \in 1..MaxVersion,
                 i = who[r], v = version[r], NamespaceOf[i] = Home(h),
                 body[r].era = era[Home(h)], v = counter[Home(h)]
          PROVE  body[h].data <= body[r].data
      BY <1>1, <1>3, <2>1, <2>4 DEF Inductive, Healings, Home
    <2>5. QED BY <1>1, <1>4, <2>1, <2>2, <2>3, <2>4 DEF Inductive, Healings
  <1>11. QED BY <1>5, <1>6, <1>7, <1>8, <1>9, <1>10 DEF Parts

(* A bump makes everything stored before it unreachable. *)
LEMMA BumpStep ==
    ASSUME Inductive, NEW r \in Request, Bump(r), TypeOK'
    PROVE  Parts'
  <1> DEFINE n == Home(r)
  <1>1. /\ pc[r] = "bumping" /\ pc'[r] = "idle" /\ body'[r] = Absent /\ Others(r)
        /\ bumped' = [bumped EXCEPT ![n] = db]
        /\ UNCHANGED <<entries, db, written, lost>>
    BY DEF Bump, Leave, Goto, Inductive, TypeOK, Others
  <1>2. n \in Namespace
    BY <1>1, HomeType
  <1>3. /\ \A m \in Namespace : /\ bumped[m] <= db /\ written[m] <= db
                               /\ bumped[m] \in Nat /\ written[m] \in Nat
        /\ db \in Nat
    BY CacheAssumption DEF Inductive, Pending, TypeOK
  <1>4. Moves(n)
    BY <1>1, <1>2, <1>3 DEF Bump, Moves, Inductive, TypeOK
  <1>5. Stored'
    BY <1>1, <1>2, <1>4, MovesStored
  <1>6. Requests'
    <2>1. ASSUME NEW q \in Request, q # r
          PROVE  pc'[q] = pc[q] /\ who'[q] = who[q] /\ version'[q] = version[q]
                 /\ body'[q] = body[q] /\ seen'[q] = seen[q] /\ floor'[q] = floor[q]
      BY <1>1, <2>1 DEF Others
    <2>2. QED BY <1>1, <1>2, <1>4, <2>1, MovesRequest DEF Requests, Reading, Holding
  <1>7. Lookups'
    BY <1>1 DEF Inductive, Lookups, Others
  <1>8. AnswersFresh'
    BY <1>1 DEF Inductive, AnswersFresh, Others
  <1>9. Pending'
    <2> SUFFICES ASSUME NEW m \in Namespace
                 PROVE  /\ bumped'[m] <= db' /\ written'[m] <= db'
                        /\ \/ lost'
                           \/ written'[m] <= bumped'[m]
                           \/ \E q \in Request :
                                 /\ pc'[q] \in Writing /\ Home(q)' = m
                                 /\ body'[q] # Absent /\ body'[q].data = written'[m]
      BY DEF Pending
    <2>1. CASE m = n
      BY <1>1, <1>2, <1>3, <2>1 DEF Inductive, TypeOK
    <2>2. CASE m # n
      <3>1. bumped'[m] = bumped[m]
        BY <1>1, <2>2 DEF Inductive, TypeOK
      <3>2. QED BY <1>1, <2>2, <3>1 DEF Inductive, Pending, Others, Home
    <2>3. QED BY <2>1, <2>2
  <1>10. Unbumped'
    BY <1>1 DEF Inductive, Unbumped, Others
  <1>11. Healings'
    <2>1. \A q \in Request : pc'[q] \in {"storing", "healing"} =>
              /\ pc[q] = pc'[q] /\ Home(q)' = Home(q) /\ version'[q] = version[q]
              /\ body'[q] = body[q] /\ seen'[q] = seen[q]
      BY <1>1 DEF Others, Home
    <2>2. QED BY <1>1, <1>2, <1>4, <2>1, MovesHealings
  <1>12. QED BY <1>5, <1>6, <1>7, <1>8, <1>9, <1>10, <1>11 DEF Parts

(* A bump that finds no counter changes nothing yet. *)
LEMMA BumpMissesStep ==
    ASSUME Inductive, NEW r \in Request, BumpMisses(r)
    PROVE  Parts'
  <1>1. /\ pc[r] = "bumping" /\ pc'[r] = "healing" /\ Others(r)
        /\ counter[Home(r)] = Absent
        /\ UNCHANGED <<counter, entries, era, bumped, db, written, lost, who, body>>
    BY DEF BumpMisses, Goto, Inductive, TypeOK, Others, store, past, request
  <1>2. who[r] \in Identity
    BY <1>1, HomeType
  <1>3. Pending' /\ Unbumped'
    BY <1>1 DEF Inductive, Pending, Unbumped, Others, Home, Writing, Reading, Holding
  <1>4. Healings'
    BY <1>1, HealingsKept DEF Home
  <1>5. QED BY <1>1, <1>2, <1>3, <1>4, NotReading DEF Parts, Reading, Holding

(* A heal restarts the counter, or finds it restarted and its own write in  *)
(* everything that is current.                                              *)
LEMMA HealStep ==
    ASSUME Inductive, NEW r \in Request, Heal(r), TypeOK'
    PROVE  Parts'
  <1> DEFINE n == Home(r)
             d == Vouched(r)
  <1>1. /\ pc[r] = "healing" /\ pc'[r] = "idle" /\ body'[r] = Absent /\ Others(r)
        /\ bumped' = [bumped EXCEPT ![n] = d] /\ Restart(n)
        /\ UNCHANGED <<entries, db, written, lost>>
    BY DEF Heal, Leave, Goto, Inductive, TypeOK, Others
  <1>2. n \in Namespace
    BY <1>1, HomeType
  <1>3. /\ \A m \in Namespace : /\ bumped[m] <= db /\ written[m] <= db
                               /\ bumped[m] \in Nat /\ written[m] \in Nat
        /\ db \in Nat
        /\ body[r] # Absent => body[r].data \in Nat /\ body[r].data <= db
    BY <1>1, CacheAssumption
    DEF Inductive, Pending, TypeOK, Body, Unbumped, Reading, Holding
  <1>4. /\ d \in Nat /\ d >= bumped[n] /\ d <= db
        /\ body[r] # Absent => d >= body[r].data
        /\ d = bumped[n] \/ (body[r] # Absent /\ d = body[r].data)
    BY <1>2, <1>3 DEF Vouched
  <1> HIDE DEF d
  <1>5. /\ counter'[n] = 1 /\ era[n] \in Nat /\ bumped'[n] = d
        /\ \A m \in Namespace \ {n} :
              counter'[m] = counter[m] /\ era'[m] = era[m] /\ bumped'[m] = bumped[m]
        /\ era'[n] = IF counter[n] = 1 THEN era[n] ELSE era[n] + 1
    BY <1>1, <1>2, CacheAssumption DEF Restart, FirstVersion, Inductive, TypeOK
  <1>6. Lookups' /\ AnswersFresh' /\ Unbumped'
    BY <1>1 DEF Inductive, Lookups, AnswersFresh, Unbumped, Others
  <1>7. Pending'
    <2> SUFFICES ASSUME NEW m \in Namespace
                 PROVE  /\ bumped'[m] <= db' /\ written'[m] <= db'
                        /\ \/ lost'
                           \/ written'[m] <= bumped'[m]
                           \/ \E q \in Request :
                                 /\ pc'[q] \in Writing /\ Home(q)' = m
                                 /\ body'[q] # Absent /\ body'[q].data = written'[m]
      BY DEF Pending
    <2>1. bumped'[m] <= db' /\ written'[m] <= db'
      BY <1>1, <1>3, <1>4, <1>5
    <2>2. \/ lost
          \/ written[m] <= bumped[m]
          \/ \E q \in Request : /\ pc[q] \in Writing /\ Home(q) = m
                                /\ body[q] # Absent /\ body[q].data = written[m]
      BY DEF Inductive, Pending
    <2>3. CASE lost \/ written[m] <= bumped[m]
      BY <1>1, <1>3, <1>4, <1>5, <2>1, <2>3
    <2>4. ASSUME NEW q \in Request, pc[q] \in Writing, Home(q) = m,
                 body[q] # Absent, body[q].data = written[m]
          PROVE  \/ written'[m] <= bumped'[m]
                 \/ \E p \in Request :
                       /\ pc'[p] \in Writing /\ Home(p)' = m
                       /\ body'[p] # Absent /\ body'[p].data = written'[m]
      <3>1. CASE q = r
        BY <1>1, <1>3, <1>4, <1>5, <2>4, <3>1
      <3>2. CASE q # r
        BY <1>1, <2>4, <3>2 DEF Others, Home
      <3>3. QED BY <3>1, <3>2
    <2>5. QED BY <1>1, <2>1, <2>2, <2>3, <2>4
  <1>8. CASE counter[n] # 1
    <2>1. Moves(n)
      BY <1>2, <1>3, <1>4, <1>5, <1>8 DEF Moves
    <2>2. Stored'
      BY <1>1, <1>2, <2>1, MovesStored
    <2>3. ASSUME NEW q \in Request, q # r
          PROVE  pc'[q] = pc[q] /\ who'[q] = who[q] /\ version'[q] = version[q]
                 /\ body'[q] = body[q] /\ seen'[q] = seen[q] /\ floor'[q] = floor[q]
      BY <1>1, <2>3 DEF Others
    <2>4. Requests'
      BY <1>1, <1>2, <2>1, <2>3, MovesRequest DEF Requests, Reading, Holding
    <2>5. \A q \in Request : pc'[q] \in {"storing", "healing"} =>
              /\ pc[q] = pc'[q] /\ Home(q)' = Home(q) /\ version'[q] = version[q]
              /\ body'[q] = body[q] /\ seen'[q] = seen[q]
      BY <1>1 DEF Others, Home
    <2>6. Healings'
      BY <1>1, <1>2, <2>1, <2>5, MovesHealings
    <2>7. QED BY <1>6, <1>7, <2>2, <2>4, <2>6 DEF Parts
  <1>9. CASE counter[n] = 1
    <2>1. UNCHANGED <<counter, era>> /\ counter[n] # Absent
      BY <1>1, <1>2, <1>9, CacheAssumption DEF Restart, FirstVersion, Inductive, TypeOK
    <2>2. Healings'
      BY <1>1, <2>1, HealingsKept
    <2>3. Stored'
      <3> SUFFICES ASSUME NEW i \in Identity, NEW v \in 1..MaxVersion,
                          entries[<<i, v>>] # Absent,
                          entries[<<i, v>>].era = era[NamespaceOf[i]],
                          v = counter[NamespaceOf[i]]
                   PROVE  bumped'[NamespaceOf[i]] <= entries[<<i, v>>].data
        BY <1>1, <2>1 DEF Inductive, Stored
      <3>1. NamespaceOf[i] \in Namespace
        BY DEF Namespace
      <3>2. bumped[NamespaceOf[i]] <= entries[<<i, v>>].data
        BY DEF Inductive, Stored
      <3>3. CASE NamespaceOf[i] # n
        BY <1>5, <3>1, <3>2, <3>3
      <3>4. CASE NamespaceOf[i] = n
        <4>1. body[r] # Absent => body[r].data <= entries[<<i, v>>].data
          BY <1>1, <2>1, <3>4 DEF Inductive, Healings
        <4>2. QED BY <1>4, <1>5, <3>2, <3>4, <4>1
      <3>5. QED BY <3>3, <3>4
    <2>4. Requests'
      <3>1. \A q \in Request \ {r} : pc[q] # "idle" =>
                Home(q) \in Namespace /\ floor[q] \in Nat
        BY HomeType DEF Inductive, TypeOK
      <3>2. ASSUME NEW q \in Request \ {r}, pc[q] \in Reading
            PROVE  floor[q] <= bumped'[Home(q)]
        <4>1. floor[q] <= bumped[Home(q)] /\ Home(q) \in Namespace /\ floor[q] \in Nat
          BY <3>1, <3>2 DEF Inductive, Requests, Reading, Holding
        <4>2. QED BY <1>2, <1>3, <1>4, <1>5, <4>1
      <3>3. ASSUME NEW q \in Request \ {r}, pc[q] = "storing",
                   seen[q] = era[Home(q)], version[q] = counter[Home(q)]
            PROVE  bumped'[Home(q)] <= body[q].data
        <4>1. bumped[Home(q)] <= body[q].data /\ Home(q) \in Namespace
          BY <3>1, <3>3 DEF Inductive, Requests
        <4>2. CASE Home(q) # n
          BY <1>5, <4>1, <4>2
        <4>3. CASE Home(q) = n
          <5>1. body[r] # Absent => body[r].data <= body[q].data
            BY <1>1, <2>1, <3>3, <4>3 DEF Inductive, Healings
          <5>2. QED BY <1>4, <1>5, <4>1, <4>3, <5>1
        <4>4. QED BY <4>2, <4>3
      <3>4. \A q \in Request \ {r} :
                /\ pc'[q] = pc[q] /\ who'[q] = who[q] /\ version'[q] = version[q]
                /\ body'[q] = body[q] /\ seen'[q] = seen[q] /\ floor'[q] = floor[q]
                /\ Home(q)' = Home(q)
        BY <1>1 DEF Others, Home
      <3>5. QED
        BY <1>1, <2>1, <3>2, <3>3, <3>4 DEF Inductive, Requests, Reading, Holding
    <2>5. QED BY <1>6, <1>7, <2>2, <2>3, <2>4 DEF Parts
  <1>10. QED BY <1>8, <1>9

(* Dropping a response or a counter creates no stale one. *)
LEMMA CacheStep ==
    ASSUME Inductive, TypeOK',
           (\E s \in Slot : Expire(s)) \/ (\E n \in Namespace : EvictCounter(n))
    PROVE  Parts'
  <1>1. UNCHANGED <<pc, who, version, body, seen, floor, db, bumped, era, written, lost>>
    BY DEF Expire, EvictCounter, past, request
  <1>2. Pending' /\ Unbumped' /\ AnswersFresh'
    BY <1>1 DEF Inductive, Pending, Unbumped, AnswersFresh, Home
  <1>3. ASSUME NEW s \in Slot, Expire(s)
        PROVE  Requests' /\ Stored' /\ Lookups' /\ Healings'
    <2>1. counter' = counter /\ \A t \in Slot : entries'[t] # Absent => entries'[t] = entries[t]
      BY <1>3 DEF Expire, Inductive, TypeOK
    <2>2. Requests'
      BY <1>1, <2>1 DEF Inductive, Requests, Home
    <2>3. Stored'
      BY <1>1, <2>1, KeyInSlot DEF Inductive, Stored
    <2>4. \A q \in Request : pc[q] = "lookup" => <<who[q], version[q]>> \in Slot
      BY HomeType, KeyInSlot DEF Inductive, Requests, Holding
    <2>5. Lookups'
      BY <1>1, <2>1, <2>4 DEF Inductive, Lookups
    <2>6. Healings'
      BY <1>1, <2>1, KeyInSlot DEF Inductive, Healings, Home
    <2>7. QED BY <2>2, <2>3, <2>5, <2>6
  <1>4. ASSUME NEW n \in Namespace, EvictCounter(n)
        PROVE  Requests' /\ Stored' /\ Lookups' /\ Healings'
    <2>1. /\ entries' = entries /\ counter[n] # Absent /\ counter'[n] = Absent
          /\ \A m \in Namespace \ {n} : counter'[m] = counter[m]
          /\ bumped[n] \in Nat
      BY <1>4 DEF EvictCounter, Inductive, TypeOK
    <2>2. Moves(n)
      BY <1>1, <2>1 DEF Moves
    <2>3. Stored'
      BY <2>1, <2>2, MovesStored
    <2>4. Requests'
      BY <1>1, <2>2, MovesRequest DEF Requests
    <2>5. Lookups'
      BY <1>1, <2>1 DEF Inductive, Lookups
    <2>6. Healings'
      BY <1>1, <2>1, <2>2, MovesHealings DEF Home
    <2>7. QED BY <2>3, <2>4, <2>5, <2>6
  <1>5. QED BY <1>2, <1>3, <1>4 DEF Parts

(* Versions, eras and bumps stay in step, as one invariant. *)
THEOREM InductiveInvariant == Spec => []Inductive
  <1>1. Inductive /\ [Next]_vars => Inductive'
    <2> SUFFICES ASSUME Inductive, [Next]_vars PROVE Inductive'
      OBVIOUS
    <2>1. TypeOK'
      BY TypeStep
    <2>2. CASE UNCHANGED vars
      BY <2>1, <2>2
      DEF vars, Inductive, Requests, Stored, Lookups, AnswersFresh, Healings, Pending,
          Unbumped, Home
    <2>3. CASE Next
      <3>1. Parts'
        BY <2>1, <2>3, ArriveStep, MutationStep, ReadVersionStep, SeedStep, LookupStep,
           ExecuteStep, StoreStep, BumpStep, BumpMissesStep, HealStep, CacheStep
        DEF Next, Query, Mutation
      <3>2. QED BY <2>1, <3>1 DEF Parts, Inductive
    <2>4. QED BY <2>2, <2>3
  <1>2. QED BY InitInductive, <1>1, PTL DEF Spec

(* The cache, the database and the requests keep their types. *)
THEOREM Typing == Spec => []TypeOK
  BY InductiveInvariant, PTL DEF Inductive

(* A request that arrives after the bump of a mutation sees what that       *)
(* mutation committed, and after an increment all that was committed before *)
(* it, unless what it is served was stored before the counter was restarted.*)
THEOREM Freshness == Spec => []AnswersFresh
  BY InductiveInvariant, PTL DEF Inductive

(* Nobody gets the response of another caller. *)
THEOREM Isolation == Spec => []OwnAnswers
  <1>1. Inductive => OwnAnswers
    BY DEF Inductive, Requests, OwnAnswers
  <1>2. QED BY InductiveInvariant, <1>1, PTL

(* No committed write is left without a bump in its namespace. *)
THEOREM Invalidation == Spec => []CommitsInvalidate
  <1>1. Inductive => CommitsInvalidate
    <2> SUFFICES ASSUME Inductive, NEW n \in Namespace, ~lost,
                        \A r \in Request : pc[r] \in Writing => Home(r) # n
                 PROVE  bumped[n] >= written[n]
      BY DEF CommitsInvalidate
    <2>1. written[n] <= bumped[n]
      BY DEF Inductive, Pending
    <2>2. QED BY <2>1, CacheAssumption DEF Inductive, TypeOK
  <1>2. QED BY InductiveInvariant, <1>1, PTL
=============================================================================
