---------------------------- MODULE QueryCaches ----------------------------
(***************************************************************************)
(* The in-process caches a query passes through, in the worker threads of    *)
(* one process: the pruned schema of the caller's permissions                *)
(* (core/permission_signature_cache.py), the parsed document and the         *)
(* validation verdict (views.py, cached_parse and cached_validate).  Each    *)
(* lookup and each store is atomic under its lock; building, parsing and     *)
(* validating happen outside the locks of the entries, and the settings, the *)
(* served schema and the caches themselves change meanwhile.                 *)
(***************************************************************************)
EXTENDS TokenLRU, FiniteSets

CONSTANTS
    Thread,
    Signature,   \* what a caller may see
    Everything,  \* an active superuser, who gets the full schema
    Query,
    TokensOf,    \* query -> tokens of its document
    Address,     \* of full schemas: id() of an object that is alive
    None,
    MaxSchemas,  \* full schemas that are created
    MaxBuilds,   \* pruned schemas that are built
    MaxSettings, \* values of the limits, besides the first
    MaxRequests, \* requests that arrive
    SchemaBound, \* PERMISSION_SCHEMA_CACHE_MAXSIZE
    EntryBound,  \* DOCUMENT_CACHE_MAXSIZE
    TokenBudget, \* DOCUMENT_CACHE_MAX_QUERY_LENGTH
    EntryShare   \* one entry may take the budget divided by this, which is 8

ASSUME QueryCachesAssumption ==
    /\ TokensOf \in [Query -> Nat]
    /\ Everything \notin Signature
    /\ MaxSchemas \in Nat \ {0} /\ {MaxBuilds, MaxSettings, MaxRequests} \subseteq Nat
    /\ {SchemaBound, EntryBound, TokenBudget, EntryShare} \subseteq Nat

VARIABLES
    addressOf, \* full schema -> its address, None before it is created and once collected
    served,    \* the full schema of the view
    arrived,   \* the number of requests so far
    built,     \* the number of pruned schemas built so far
    schemas,   \* the LRU of pruned schemas
    buildLock,
    documents, \* the parse cache
    verdicts,  \* schema object -> its validation cache
    limits,    \* the settings that validation reads, as a version
    pc, request, schema, verdict,
    forgotten, \* history: pruned schemas that were evicted or cleared
    torn       \* history: the limits changed while a thread validated

caches == <<schemas, buildLock, documents, verdicts>>
threads == <<pc, request, schema, verdict>>
vars == <<addressOf, served, arrived, built, schemas, buildLock, documents, verdicts, limits, pc,
          request, schema, verdict, forgotten, torn>>

Full == 1..MaxSchemas
(* A schema object: the full one, or the n-th that was built.               *)
Schema == [of : Full, for : Signature \cup {Everything}, n : 0..MaxBuilds]
FullSchema(f) == [of |-> f, for |-> Everything, n |-> 0]
Cached == [key : Address \X Signature, ref : Full, pruned : Schema]
(* What a validation says depends on the schema, the query and the limits.  *)
Verdict == [of : Full, for : Signature \cup {Everything}, query : Query,
            limits : 0..MaxSettings]
VerdictKey == Query \X (0..MaxSettings)
Request == [full : Full, sig : Signature \cup {Everything}, query : Query,
            key : 0..MaxSettings, limits : 0..MaxSettings]

ASSUME NoneAssumption == None \notin Thread \cup Address \cup Request \cup Schema

LRU(key, value) == [entries : Seq([key : key, value : value, size : Nat]), tokens : Int]

TypeOK ==
    /\ addressOf \in [Full -> Address \cup {None}]
    /\ \A f, g \in Full : addressOf[f] = addressOf[g] /\ f # g => addressOf[f] = None
    /\ served \in Full /\ arrived \in 0..MaxRequests
    /\ built \in 0..MaxBuilds
    /\ schemas \in Seq(Cached)
    /\ buildLock \in Thread \cup {None}
    /\ documents \in LRU(Query, Query)
    /\ DOMAIN verdicts \subseteq Schema
    /\ \A o \in DOMAIN verdicts : verdicts[o] \in LRU(VerdictKey, Verdict)
    /\ limits \in 0..MaxSettings
    /\ pc \in [Thread -> {"idle", "select", "wait", "build", "parse", "parsing", "validate",
                          "validating", "done"}]
    /\ request \in [Thread -> Request \cup {None}]
    /\ schema \in [Thread -> Schema \cup {None}]
    /\ verdict \in [Thread -> Verdict \cup {None}]
    /\ forgotten \subseteq Schema
    /\ torn \in BOOLEAN
    /\ \A t \in Thread : pc[t] = "build" <=> buildLock = t

-----------------------------------------------------------------------------
(* Whoever refers to a schema keeps it alive; the verdicts of one that has  *)
(* no reference left die with it, and nobody can ask for them.              *)
UsedBy(f) == {t \in Thread : request[t] # None /\ request[t].full = f}
InUse(f) == f = served \/ UsedBy(f) # {}
Alive(o) ==
    \/ o.n = 0 /\ InUse(o.of)
    \/ \E t \in Thread : schema[t] = o
    \/ \E i \in DOMAIN schemas : schemas[i].pruned = o
Collect == verdicts' = [o \in {x \in DOMAIN verdicts : Alive(x)'} |-> verdicts[o]]

(* The pruned schema.                                                       *)

Key(t) == <<addressOf[request[t].full], request[t].sig>>

LiveTrusting(t) == {i \in DOMAIN schemas : schemas[i].key = Key(t)} \* mutant: an id is an identity
(* _live_entry: the entry of the key, if its weak reference is to the       *)
(* schema that is asked for; another one is stale and is removed.           *)
Live(t) == {i \in DOMAIN schemas : schemas[i].key = Key(t) /\ schemas[i].ref = request[t].full}

(* Looking up under the entry lock: a hit becomes the most recently used.   *)
Hit(t) ==
    \E i \in Live(t) :
        /\ schemas' = Append(RemoveAt(schemas, i), schemas[i])
        /\ schema' = [schema EXCEPT ![t] = schemas[i].pruned]
Miss(t) ==
    /\ Live(t) = {}
    /\ schemas' = Without(schemas, Key(t))

Arrive(t) ==
    /\ pc[t] = "idle" /\ arrived < MaxRequests
    /\ arrived' = arrived + 1
    /\ \E sig \in Signature \cup {Everything}, q \in Query :
          request' = [request EXCEPT ![t] = [full |-> served, sig |-> sig, query |-> q, key |-> 0,
                                              limits |-> 0]]
    /\ pc' = [pc EXCEPT ![t] = "select"]
    /\ UNCHANGED <<addressOf, served, built, caches, limits, schema, verdict, forgotten, torn>>

Select(t) ==
    /\ pc[t] = "select"
    /\ IF request[t].sig = Everything
       THEN /\ schema' = [schema EXCEPT ![t] = FullSchema(request[t].full)]
            /\ pc' = [pc EXCEPT ![t] = "parse"]
            /\ UNCHANGED schemas
       ELSE \/ Hit(t) /\ pc' = [pc EXCEPT ![t] = "parse"]
            \/ Miss(t) /\ pc' = [pc EXCEPT ![t] = "wait"] /\ UNCHANGED schema
    /\ UNCHANGED <<addressOf, served, arrived, built, buildLock, documents, limits, request, verdict,
                   forgotten, torn>>
    /\ Collect

SecondLookNone(t) == \* mutant: the lookup is not repeated under the build lock
    /\ pc' = [pc EXCEPT ![t] = "build"] /\ buildLock' = t
    /\ UNCHANGED <<schemas, schema>>
(* The double check, once the build lock is held.                           *)
SecondLook(t) ==
    \/ Hit(t) /\ pc' = [pc EXCEPT ![t] = "parse"] /\ UNCHANGED buildLock
    \/ Miss(t) /\ pc' = [pc EXCEPT ![t] = "build"] /\ buildLock' = t /\ UNCHANGED schema

Acquire(t) ==
    /\ pc[t] = "wait"
    /\ buildLock = None
    /\ SecondLook(t)
    /\ UNCHANGED <<addressOf, served, arrived, built, documents, limits, request, verdict, forgotten, torn>>
    /\ Collect

Excess(n) == IF n > SchemaBound THEN n - SchemaBound ELSE 0

(* Pruning works on its own copy; the new entry is stored as the most       *)
(* recently used, and the bound is read then.                               *)
Build(t) ==
    /\ pc[t] = "build" /\ built < MaxBuilds
    /\ built' = built + 1
    /\ schema' = [schema EXCEPT ![t] = [of |-> request[t].full, for |-> request[t].sig,
                                        n |-> built']]
    /\ LET all == Append(Without(schemas, Key(t)),
                         [key |-> Key(t), ref |-> request[t].full, pruned |-> schema'[t]])
           excess == Excess(Len(all))
       IN  /\ schemas' = SubSeq(all, excess + 1, Len(all))
           /\ forgotten' = forgotten \cup {all[i].pruned : i \in 1..excess}
    /\ buildLock' = None
    /\ pc' = [pc EXCEPT ![t] = "parse"]
    /\ UNCHANGED <<addressOf, served, arrived, documents, limits, request, verdict, torn>>
    /\ Collect

(* clear() waits for a build that is running. *)
Clear ==
    /\ schemas # <<>>
    /\ buildLock = None
    /\ schemas' = <<>>
    /\ forgotten' = forgotten \cup {e.pruned : e \in ToSet(schemas)}
    /\ UNCHANGED <<addressOf, served, arrived, built, buildLock, documents, limits, threads, torn>>
    /\ Collect

-----------------------------------------------------------------------------
(* The document and its verdict.                                            *)

(* _retained_tokens *)
Retained(q) == TokensOf[q] * EntryShare <= TokenBudget

Parse(t) ==
    /\ pc[t] = "parse"
    /\ IF Has(documents, request[t].query)
       THEN /\ documents' = Touch(documents, request[t].query)
            /\ pc' = [pc EXCEPT ![t] = "validate"]
       ELSE /\ pc' = [pc EXCEPT ![t] = "parsing"]
            /\ UNCHANGED documents
    /\ UNCHANGED <<addressOf, served, arrived, built, schemas, buildLock, verdicts, limits, request,
                   schema, verdict, forgotten, torn>>

AdmitDocument(t) ==
    /\ pc[t] = "parsing"
    /\ LET q == request[t].query
       IN  documents' = IF EntryBound > 0 /\ Retained(q)
                        THEN Admit(documents, q, q, TokensOf[q], EntryBound, TokenBudget)
                        ELSE documents
    /\ pc' = [pc EXCEPT ![t] = "validate"]
    /\ UNCHANGED <<addressOf, served, arrived, built, schemas, buildLock, verdicts, limits, request,
                   schema, verdict, forgotten, torn>>

(* The runtime limits are part of the key. *)
LimitsKeyNone == 0 \* mutant: the key leaves the limits out
LimitsKey == limits

SubCache(o) == IF o \in DOMAIN verdicts THEN verdicts[o] ELSE EmptyLRU

Validate(t) ==
    /\ pc[t] = "validate"
    /\ LET key == <<request[t].query, LimitsKey>>
           sub == SubCache(schema[t])
       IN  IF Has(sub, key)
           THEN /\ verdict' = [verdict EXCEPT ![t] = Entry(sub, key).value]
                /\ verdicts' = [verdicts EXCEPT ![schema[t]] = Touch(@, key)]
                /\ pc' = [pc EXCEPT ![t] = "done"]
           ELSE /\ pc' = [pc EXCEPT ![t] = "validating"]
                /\ UNCHANGED <<verdict, verdicts>>
    /\ request' = [request EXCEPT ![t].key = LimitsKey, ![t].limits = limits]
    /\ UNCHANGED <<addressOf, served, arrived, built, schemas, buildLock, documents, limits, schema,
                   forgotten, torn>>

(* The rules read the limits when they run, and the verdict is stored under *)
(* the key it was looked up with.                                           *)
Judge(t) ==
    /\ pc[t] = "validating"
    /\ verdict' = [verdict EXCEPT ![t] = [of |-> schema[t].of, for |-> schema[t].for,
                                          query |-> request[t].query, limits |-> limits]]
    /\ LET q == request[t].query
           sub == Admit(SubCache(schema[t]), <<q, request[t].key>>, verdict'[t], TokensOf[q],
                        EntryBound, TokenBudget)
       IN  verdicts' = IF EntryBound > 0 /\ Retained(q)
                       THEN [o \in DOMAIN verdicts \cup {schema[t]} |->
                                IF o = schema[t] THEN sub ELSE verdicts[o]]
                       ELSE verdicts
    /\ pc' = [pc EXCEPT ![t] = "done"]
    /\ UNCHANGED <<addressOf, served, arrived, built, schemas, buildLock, documents, limits,
                   request, schema, forgotten, torn>>

(* Pruning raises, the document does not parse, or the rules run out of      *)
(* stack: nothing is stored.                                                *)
GiveUp(t) ==
    /\ pc[t] \in {"build", "parsing", "validating"}
    /\ buildLock' = IF buildLock = t THEN None ELSE buildLock
    /\ pc' = [pc EXCEPT ![t] = "idle"]
    /\ request' = [request EXCEPT ![t] = None]
    /\ schema' = [schema EXCEPT ![t] = None]
    /\ UNCHANGED <<addressOf, served, arrived, built, schemas, documents, limits, verdict, forgotten, torn>>
    /\ Collect

Answer(t) ==
    /\ pc[t] = "done"
    /\ pc' = [pc EXCEPT ![t] = "idle"]
    /\ request' = [request EXCEPT ![t] = None]
    /\ schema' = [schema EXCEPT ![t] = None]
    /\ verdict' = [verdict EXCEPT ![t] = None]
    /\ UNCHANGED <<addressOf, served, arrived, built, schemas, buildLock, documents, limits,
                   forgotten, torn>>
    /\ Collect

ClearDocuments ==
    /\ documents' = EmptyLRU
    /\ verdicts' = <<>>
    /\ <<documents, verdicts>> # <<EmptyLRU, <<>>>>
    /\ UNCHANGED <<addressOf, served, arrived, built, schemas, buildLock, limits, threads, forgotten,
                   torn>>

-----------------------------------------------------------------------------
(* The process: schemas are created and collected, settings change.         *)

(* A new full schema is served from now on.  Those before it are collected  *)
(* unless a thread still uses them, and the new one may take their address. *)
Serve(f, a) ==
    /\ f = served + 1
    /\ LET remaining == [g \in Full |-> IF UsedBy(g) = {} THEN None ELSE addressOf[g]]
       IN  /\ \A g \in Full : remaining[g] # a
           /\ addressOf' = [remaining EXCEPT ![f] = a]
    /\ served' = f
    /\ UNCHANGED <<arrived, built, schemas, buildLock, documents, limits, threads, forgotten,
                   torn>>
    /\ Collect

(* The limits are tightened or loosened while requests run. *)
SetLimits ==
    /\ limits < MaxSettings
    /\ limits' = limits + 1
    /\ torn' = (torn \/ \E t \in Thread : pc[t] = "validating")
    /\ UNCHANGED <<addressOf, served, arrived, built, caches, threads, forgotten>>

Init ==
    /\ \E a \in Address : addressOf = [f \in Full |-> IF f = 1 THEN a ELSE None]
    /\ served = 1 /\ arrived = 0
    /\ built = 0
    /\ schemas = <<>>
    /\ buildLock = None
    /\ documents = EmptyLRU
    /\ verdicts = <<>>
    /\ limits = 0
    /\ pc = [t \in Thread |-> "idle"]
    /\ request = [t \in Thread |-> None]
    /\ schema = [t \in Thread |-> None]
    /\ verdict = [t \in Thread |-> None]
    /\ forgotten = {}
    /\ torn = FALSE

Next ==
    \/ \E t \in Thread :
          \/ Arrive(t) \/ Select(t) \/ Acquire(t) \/ Build(t) \/ GiveUp(t)
          \/ Parse(t) \/ AdmitDocument(t) \/ Validate(t) \/ Judge(t) \/ Answer(t)
    \/ Clear \/ ClearDocuments
    \/ \E f \in Full, a \in Address : Serve(f, a)
    \/ SetLimits

Spec == Init /\ [][Next]_vars

-----------------------------------------------------------------------------
(* A caller gets the schema pruned to the permissions the request was made  *)
(* with, of the full schema its view serves, though threads race for the    *)
(* same entry, entries come and go, and a new full schema takes the address *)
(* of a collected one.                                                      *)
OwnSchema ==
    \A t \in Thread : schema[t] # None =>
        schema[t].of = request[t].full /\ schema[t].for = request[t].sig

(* The module's promise: "N concurrent first-requests for one cold          *)
(* signature build exactly ONCE and share the single instance": a schema is *)
(* built again only after its entry was evicted or cleared.                 *)
InProcess == {schemas[i].pruned : i \in DOMAIN schemas} \cup {schema[t] : t \in Thread}
OneBuild ==
    \A x, y \in InProcess \ {None} :
        x.of = y.of /\ x.for = y.for /\ x.n < y.n => x \in forgotten

(* "A query invalid against a pruned schema can never read a full schema's  *)
(* cached valid result", nor does a verdict survive a change of the limits, *)
(* unless they changed while some verdict was being computed: it is stored  *)
(* under the limits its request began with.                                 *)
OwnVerdict ==
    \A t \in Thread : pc[t] = "done" =>
        /\ verdict[t].of = request[t].full /\ verdict[t].for = request[t].sig
        /\ verdict[t].query = request[t].query
        /\ ~torn => verdict[t].limits = request[t].limits

(* The pruned schemas keep to their bound, one for each key.  Each document *)
(* cache knows what it retains, and that is within both of its bounds,      *)
(* though two threads admit the same document and caches are cleared        *)
(* between a miss and the admission.                                        *)
WithinBounds ==
    /\ Len(schemas) <= SchemaBound
    /\ \A i, j \in DOMAIN schemas : schemas[i].key = schemas[j].key => i = j
    /\ \A lru \in {documents} \cup {verdicts[o] : o \in DOMAIN verdicts} :
           TrueTotal(lru) /\ Within(lru, EntryBound, TokenBudget)
=============================================================================
