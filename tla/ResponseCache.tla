--------------------------- MODULE ResponseCache ---------------------------
(***************************************************************************)
(* The response cache of GraphQLView (views.py).                            *)
(*                                                                          *)
(* A response is stored under the identity of its caller and the value that *)
(* the version counter of the caller's namespace had before the query ran;  *)
(* a mutation advances the counter after its commit.  Several worker        *)
(* processes share the cache and the database, and each call of the cache   *)
(* is a step.  One cacheable query is modelled, whose answer is determined  *)
(* by how many writes were committed when it ran, and read committed        *)
(* isolation.  The cache may drop an entry at any time, and the counter,    *)
(* which has no timeout, when it is short of memory or restarted.           *)
(***************************************************************************)
EXTENDS Naturals

CONSTANTS
    Request,     \* requests in progress at the same time
    Identity,    \* callers: users, credentials, the anonymous one
    NamespaceOf, \* identity -> the namespace whose counter it uses
    Absent,      \* no counter, no response, no identity
    MaxWrites,   \* bound: committed writes
    MaxVersion,  \* bound: values of a counter
    MaxEra       \* bound: the counter is evicted in its first eras only

Namespace == {NamespaceOf[i] : i \in Identity}

ASSUME CacheAssumption ==
    /\ NamespaceOf \in [Identity -> Namespace]
    /\ MaxWrites \in Nat /\ MaxVersion \in Nat \ {0} /\ MaxEra \in Nat
    /\ Absent \notin Identity \cup Nat \cup [owner : Identity, data : Nat, era : Nat]

VARIABLES
    atomic,   \* whether a mutation runs in a transaction
    db,       \* number of committed writes
    counter,  \* namespace -> its version counter
    entries,  \* identity, version -> the response stored under them
    pc,       \* request -> where it is
    who,      \* request -> its identity
    version,  \* request -> the version it has read
    body,     \* request -> its response; of a mutation, what it has written
    era,      \* history: namespace -> how often its counter was restarted
    seen,     \* history: request -> the era in which it read the version
    bumped,   \* history: namespace -> the writes its last bump made visible
    floor,    \* history: request -> bumped when it arrived
    written,  \* history: namespace -> the last write of its callers
    lost      \* history: whether a request failed between commit and bump

store == <<counter, entries>>
past == <<era, bumped, written, lost>>
request == <<who, version, body, seen, floor>>
vars == <<atomic, db, counter, entries, pc, who, version, body, era, seen, bumped,
          floor, written, lost>>

Writing == {"writing", "bumping", "healing"}
PCs == {"idle", "version", "seeding", "lookup", "executing", "storing", "answered"}
          \cup Writing

Slot == Identity \X (1..MaxVersion)
Body == [owner : Identity, data : 0..MaxWrites, era : Nat]

TypeOK ==
    /\ atomic \in BOOLEAN
    /\ db \in 0..MaxWrites
    /\ counter \in [Namespace -> 1..MaxVersion \cup {Absent}]
    /\ entries \in [Slot -> Body \cup {Absent}]
    /\ pc \in [Request -> PCs]
    /\ who \in [Request -> Identity \cup {Absent}]
    /\ version \in [Request -> 1..MaxVersion \cup {Absent}]
    /\ body \in [Request -> Body \cup {Absent}]
    /\ era \in [Namespace -> Nat] /\ seen \in [Request -> Nat]
    /\ bumped \in [Namespace -> 0..MaxWrites] /\ floor \in [Request -> 0..MaxWrites]
    /\ written \in [Namespace -> 0..MaxWrites] /\ lost \in BOOLEAN

-----------------------------------------------------------------------------
Home(r) == NamespaceOf[who[r]]

KeyShared(i, v) == \* mutant: the namespace takes the place of the identity
    <<CHOOSE j \in Identity : NamespaceOf[j] = NamespaceOf[i], v>>
Key(i, v) == <<i, v>>

FirstVersion == 1

Goto(r, label) == pc' = [pc EXCEPT ![r] = label]

(* cache.set(version_key, 1): a new era unless the counter is 1 already. *)
Restart(n) ==
    /\ counter' = [counter EXCEPT ![n] = FirstVersion]
    /\ era' = [era EXCEPT ![n] = IF counter[n] = FirstVersion THEN @ ELSE @ + 1]

ArriveQuery(r, i) ==
    /\ Goto(r, "version")
    /\ floor' = [floor EXCEPT ![r] = bumped[NamespaceOf[i]]]

ArriveMutation(r) == Goto(r, "writing") /\ UNCHANGED floor

Arrive(r) ==
    /\ pc[r] = "idle"
    /\ \E i \in Identity :
          /\ who' = [who EXCEPT ![r] = i]
          /\ ArriveQuery(r, i) \/ ArriveMutation(r)
    /\ UNCHANGED <<atomic, db, store, past, version, body, seen>>

(* The response is sent, or the worker is gone. *)
Leave(r) ==
    /\ Goto(r, "idle")
    /\ who' = [who EXCEPT ![r] = Absent]
    /\ version' = [version EXCEPT ![r] = Absent]
    /\ body' = [body EXCEPT ![r] = Absent]
    /\ seen' = [seen EXCEPT ![r] = 0]
    /\ floor' = [floor EXCEPT ![r] = 0]

(* A query. *)
ReadVersion(r) ==
    /\ pc[r] = "version"
    /\ IF counter[Home(r)] = Absent
       THEN Goto(r, "seeding") /\ UNCHANGED <<version, seen>>
       ELSE /\ version' = [version EXCEPT ![r] = counter[Home(r)]]
            /\ seen' = [seen EXCEPT ![r] = era[Home(r)]]
            /\ Goto(r, "lookup")
    /\ UNCHANGED <<atomic, db, store, past, who, body, floor>>

Seed(r) ==
    /\ pc[r] = "seeding"
    /\ Restart(Home(r))
    /\ version' = [version EXCEPT ![r] = FirstVersion]
    /\ seen' = [seen EXCEPT ![r] = era'[Home(r)]]
    /\ Goto(r, "lookup")
    /\ UNCHANGED <<atomic, db, entries, bumped, written, lost, who, body, floor>>

Lookup(r) ==
    LET found == entries[Key(who[r], version[r])] IN
    /\ pc[r] = "lookup"
    /\ IF found = Absent
       THEN Goto(r, "executing") /\ UNCHANGED body
       ELSE Goto(r, "answered") /\ body' = [body EXCEPT ![r] = found]
    /\ UNCHANGED <<atomic, db, store, past, who, version, seen, floor>>

(* The answer of a query that fails is not stored. *)
Execute(r) ==
    /\ pc[r] = "executing"
    /\ body' = [body EXCEPT ![r] = [owner |-> who[r], data |-> db, era |-> seen[r]]]
    /\ Goto(r, "storing") \/ Goto(r, "answered")
    /\ UNCHANGED <<atomic, db, store, past, who, version, seen, floor>>

StoreVersionCurrent(r) == \* mutant: the version is read when storing
    IF counter[Home(r)] = Absent THEN FirstVersion ELSE counter[Home(r)]
StoreVersion(r) == version[r]

Store(r) ==
    /\ pc[r] = "storing"
    /\ entries' = [entries EXCEPT ![Key(who[r], StoreVersion(r))] = body[r]]
    /\ Goto(r, "answered")
    /\ UNCHANGED <<atomic, db, counter, past, request>>

Return(r) ==
    /\ pc[r] = "answered"
    /\ Leave(r)
    /\ UNCHANGED <<atomic, db, store, past>>

-----------------------------------------------------------------------------
(* A mutation, or a batch of them: what it writes is committed statement by *)
(* statement, or by the transactions around its operations or the request.  *)
Write(r) ==
    /\ pc[r] = "writing"
    /\ db < MaxWrites
    /\ db' = db + 1
    /\ body' = [body EXCEPT ![r] = [owner |-> who[r], data |-> db + 1, era |-> 0]]
    /\ written' = [written EXCEPT ![Home(r)] = db + 1]
    /\ UNCHANGED <<atomic, store, pc, era, bumped, lost, who, version, seen, floor>>

(* The execution ends, with errors or without.  The execution marker is set *)
(* before the resolvers run, or when a transaction has been committed; what *)
(* was rolled back is not marked.                                           *)
MarkedOnSuccess(r, failed) == body[r] # Absent /\ ~failed \* mutant
Marked(r, failed) == ~atomic \/ body[r] # Absent

Finish(r) ==
    /\ pc[r] = "writing"
    /\ \E failed \in BOOLEAN :
          IF Marked(r, failed)
          THEN Goto(r, "bumping") /\ UNCHANGED request
          ELSE Leave(r)
    /\ UNCHANGED <<atomic, db, store, past>>

(* _do_bump: incr, which raises when the key is missing ...               *)
Bump(r) ==
    /\ pc[r] = "bumping"
    /\ counter[Home(r)] # Absent
    /\ counter[Home(r)] < MaxVersion
    /\ counter' = [counter EXCEPT ![Home(r)] = @ + 1]
    /\ bumped' = [bumped EXCEPT ![Home(r)] = db]
    /\ Leave(r)
    /\ UNCHANGED <<atomic, db, entries, era, written, lost>>

BumpMisses(r) ==
    /\ pc[r] = "bumping"
    /\ counter[Home(r)] = Absent
    /\ Goto(r, "healing")
    /\ UNCHANGED <<atomic, db, store, past, request>>

(* ... and then a set to 1, whatever others have made of the key meanwhile. *)
(* Where they have made it 1, the heal changes nothing: it vouches for what *)
(* its own mutation wrote, which was there before the miss, and no more.    *)
Vouched(r) ==
    IF body[r] # Absent /\ body[r].data > bumped[Home(r)]
    THEN body[r].data
    ELSE bumped[Home(r)]

Heal(r) ==
    /\ pc[r] = "healing"
    /\ Restart(Home(r))
    /\ bumped' = [bumped EXCEPT ![Home(r)] = Vouched(r)]
    /\ Leave(r)
    /\ UNCHANGED <<atomic, db, entries, written, lost>>

-----------------------------------------------------------------------------
(* The worker dies or the cache raises: what is committed stays, the rest   *)
(* is undone.                                                               *)
Fail(r) ==
    /\ pc[r] # "idle"
    /\ lost' = (lost \/ (pc[r] \in Writing /\ body[r] # Absent))
    /\ Leave(r)
    /\ UNCHANGED <<atomic, db, store, era, bumped, written>>

Expire(s) ==
    /\ entries[s] # Absent
    /\ entries' = [entries EXCEPT ![s] = Absent]
    /\ UNCHANGED <<atomic, db, counter, past, pc, request>>

EvictCounter(n) ==
    /\ counter[n] # Absent
    /\ era[n] <= MaxEra
    /\ counter' = [counter EXCEPT ![n] = Absent]
    /\ UNCHANGED <<atomic, db, entries, past, pc, request>>

-----------------------------------------------------------------------------
Init ==
    /\ atomic \in BOOLEAN
    /\ db = 0
    /\ counter = [n \in Namespace |-> Absent]
    /\ entries = [s \in Slot |-> Absent]
    /\ pc = [r \in Request |-> "idle"]
    /\ who = [r \in Request |-> Absent]
    /\ version = [r \in Request |-> Absent]
    /\ body = [r \in Request |-> Absent]
    /\ era = [n \in Namespace |-> 0] /\ seen = [r \in Request |-> 0]
    /\ bumped = [n \in Namespace |-> 0] /\ floor = [r \in Request |-> 0]
    /\ written = [n \in Namespace |-> 0] /\ lost = FALSE

Query(r) ==
    ReadVersion(r) \/ Seed(r) \/ Lookup(r) \/ Execute(r) \/ Store(r) \/ Return(r)

Mutation(r) == Write(r) \/ Finish(r) \/ Bump(r) \/ BumpMisses(r) \/ Heal(r)

Next ==
    \/ \E r \in Request : Arrive(r) \/ Query(r) \/ Mutation(r) \/ Fail(r)
    \/ \E s \in Slot : Expire(s)
    \/ \E n \in Namespace : EvictCounter(n)

Spec == Init /\ [][Next]_vars

-----------------------------------------------------------------------------
(* Properties.                                                              *)

(* A request that arrives after the bump of a mutation sees what that       *)
(* mutation committed, from the cache or not, and after an increment all    *)
(* that was committed before it, whoever read, seeded, stored or healed in  *)
(* between.  The exception is a response older than the last restart of the *)
(* counter: a seed or a heal that set 1 over a higher value, or over none.  *)
AnswersFresh ==
    \A r \in Request :
        pc[r] = "answered" /\ body[r].era = seen[r] => body[r].data >= floor[r]

(* Callers that share a counter do not share responses. *)
OwnAnswers == \A r \in Request : pc[r] = "answered" => body[r].owner = who[r]

(* Whatever was committed is invalidated: once no mutation of a namespace   *)
(* runs, its counter was bumped, by incr or by the heal, after its last     *)
(* write, also when the mutation failed half way or another operation of    *)
(* its batch did.                                                           *)
CommitsInvalidate ==
    \A n \in Namespace :
        ~lost /\ (\A r \in Request : pc[r] \in Writing => Home(r) # n)
            => bumped[n] >= written[n]

(* docs/usage/caching.md: "The counter only ever moves forward ... No entry *)
(* is resurrected and nothing stale is served".                             *)
NothingStale ==
    \A r \in Request : pc[r] = "answered" => body[r].data >= floor[r]
=============================================================================
