# A TLA+ verification of django-graphex

django-graphex turns Django models into a GraphQL API. Most of its code is
sequential: it compiles schemas at import time and resolves one request at a
time. What is hard to get right, and hard to test, is where it is concurrent,
where it keeps state beyond a request, and where an external store (Redis, a
channel layer, a cache, a database transaction) can fail between two steps. This
directory models those parts, checks them with TLC on small instances and proves
the properties that matter most with TLAPS for every instance.

All paths below are relative to `src/django_graphex/` unless they start with
`docs/`. `PROJECT.json` maps every definition to the lines it models and lists
the hazards the properties are aimed at.

## Inventory

| Component | State it keeps | Operations | What is hard | What makes it correct |
|---|---|---|---|---|
| SSE connection cap: `subscriptions/transports/_sse_lease.py`, `sse.py` | a Redis sorted set of tokens per account; `_Lease.renewed_at`, `_closed`; the view and generator's position | acquire (two attempts), renew, release, `response.close()` | lost replies, late commands, cancellation during a thread, slow readers, crashes, three clocks | at most `SSE_MAX_CONNECTIONS_PER_USER` streams deliver; no data without a live token; slots come back |
| Source and delivery: `subscriptions/source.py`, `delivery.py` | `_joined`, `_channel`, `_closed`, `_receive_task`; memberships in the channel layer | `start`, `__anext__`, `aclose` | two closers, cancellation at every await, failing `group_add` / `group_discard` | no forgotten membership, close releases a parked reader, in order and filtered |
| WebSocket consumer: `subscriptions/transports/ws.py` | `_acked`, `_closing`, `_operations`, `_sources`, `_init_task`, `_init_timer` | the message handlers, the watchdog, the `on_connect` task, one task per operation, done callbacks | id reuse, closing while operations start or end, a late callback | one owner per id, the cap bounds what is joined, closing leaves nothing |
| Subscription start: `subscriptions/streaming.py`, `subscription.py` | none beyond the source | authorize, validate filters, scope, choose groups, start, `db_verify` | scope against client filters | a subscriber sees only rows of its scope |
| Broadcast: `subscriptions/bindings.py` | snapshots held by `on_commit` callbacks, in-flight send tasks | save and delete signals, delivery after commit, fan-out to up to four groups | rollbacks and savepoints, partial sends, overtaking tasks | only committed changes are announced, each once, to whoever asked for them |
| Response cache: `views.py` 2340-2781 | version counters and response entries in the Django cache | lookup, store, bump after commit | bump against a concurrent miss, eviction of the counter | no answer older than a committed mutation after its bump |
| Document caches: `views.py` 602-950 | two token-bounded LRUs | parse, validate, admit, evict | work outside the lock, admission after it, limits that change meanwhile | bounded, and the verdict of the caller's own schema and limits |
| Permission-scoped schemas: `core/permission_signature_cache.py`, `core/schema_pruner.py`, `core/perm_labels.py` | an LRU of pruned schemas keyed by schema id and signature | lookup, build, evict, clear; prune | two locks, ids that are reused; a cascade over labels, arguments, unions and interfaces | a caller never gets another signature's schema; one build per cold entry; what is left is a schema that shows what is permitted and no less |
| Limits: `cost.py`, `validation.py`, `_fragment_cycles.py` | none beyond one validation | walk a document, remember what a fragment costs and how deep it is | memos that depend on where they were made, cycles | the limits count the document with its fragments in place |
| Execution state: `_execution_state.py` | a table keyed by ids of objects | get, evict | reuse of ids | budgets are per request |
| Mutations, nested writes, batches: `nested.py`, `core/backend.py`, `views.py` | the database transaction | save parent and children, savepoint per item, decide what may be linked, adopted or rewritten | a failure in the middle, under four combinations of settings; rows a scope hides | all or nothing per root field, kept exactly as answered; a hidden row answers like a missing one (with an exception, below) |
| Pagination: `paginations/pagination.py`, `fields.py`, `paginations/utils.py` | none (a cursor in the client's hands) | encode, decode, keyset predicate, slices of a queryset, a list or a window | ties, nulls, both directions, rows that change between pages | nothing skipped or repeated, `pageInfo` true, every path the same page |
| Filtering, schema compilation, optimiser, permissions, settings, directives | built once or stateless | pure | breadth, not concurrency | not modelled, see below |

### How the components interact

A WebSocket consumer or the SSE view validates a document, starts a subscription
(`native_subscribe`), which authorises it, computes its filters and joins its
groups through a `ChannelLayerSource`. A `DeliveryIterator` over that source
executes the selection for each event and the transport frames the result. A
binding announces every saved or deleted row to the groups after the commit. The
two transports share the source, and nothing else; the SSE view alone takes a
lease. The HTTP view runs queries and mutations and uses the caches; it meets
the subscriptions only through the database.

## Plan

The order followed importance: what keeps memberships, slots and frames right
came first, because a failure there accumulates silently in production; then what
decides which events, rows and answers somebody sees; then the stores that a
crash or a second request finds halfway.

1. `SSELease` with `BoundedLeases` as its abstract specification: done, proved.
2. `ChannelSource` with `FilteredStream` as its abstract specification: done,
   proved.
3. `WSConnection`: done, proved except for liveness.
4. `ResponseCache`: done, proved.
5. `Broadcast` with `CommittedAnnouncements` as its abstract specification: done,
   proved.
6. `NestedRules` and `MutationWrites`: done, proved.
7. `TokenLRU`, `QueryCaches` and `SchemaPruner`, which computes the schemas that
   are kept: done, proved; `QueryLimits`, which computes the verdicts: done.
8. `ListOrder`, `ListPages` and `CursorPages`: done, proved.

Only `QueryLimits` uses RECURSIVE operators; it is for TLC alone, and no module with
a proof reaches it. The fixpoints of `SchemaPruner` are recursive functions.

## Modules

| Module | Models |
|---|---|
| `BoundedLeases` | abstractly, a bounded set of leases, granted once, never alive again |
| `SSELease` | the lease protocol, the view, the generator and `response.close()` |
| `SSELease_proofs` | theorems about `SSELease` |
| `FilteredStream` | abstractly, what a subscription hands to its reader |
| `ChannelSource` | `ChannelLayerSource` under a `DeliveryIterator` |
| `ChannelSource_proofs` | theorems about `ChannelSource` |
| `WSConnection` | one socket of `_SubscriptionWSConsumer` |
| `WSConnection_proofs` | theorems about `WSConnection` |
| `ResponseCache` | the response cache and the version counters of `GraphQLView` |
| `ResponseCache_proofs` | theorems about `ResponseCache` |
| `CommittedAnnouncements` | abstractly, what the groups of a model may hear |
| `Broadcast` | from a save in a transaction over the groups to the subscribers |
| `Broadcast_proofs` | theorems about `Broadcast` |
| `NestedRules` | what a nested payload may do to an existing row |
| `MutationWrites` | the transactions of a request, a batch, an operation, a nested write and a save |
| `MutationWrites_proofs` | theorems about `MutationWrites` |
| `TokenLRU` | the LRU with two bounds of the document caches |
| `QueryCaches` | the pruned schemas, parsed documents and verdicts of one process |
| `SchemaPruner` | the schema that a set of permissions leaves, and the signature it is kept under |
| `QueryCaches_proofs` | theorems about `QueryCaches`, `TokenLRU` and `SchemaPruner` |
| `QueryLimits` | cost, depth and fragment cycles of a document |
| `ListOrder` | orders and slices in SQL and in memory |
| `ListPages` | limit/offset and page pagination on a queryset, on a list and in a window |
| `CursorPages` | a client's walk with cursor pagination while rows change |
| `CursorPages_proofs` | theorems about `CursorPages`, `ListPages` and the orders of `ListOrder` |
| `MC...` | constants and symmetry for TLC; in `MCPagination` also the comparison of the paths, in `MCQueryCaches` the documents and in `MCSchemas` the schemas that the functions are checked on |

An operator whose comment says "mutant" is a version of the definition below it
with a plausible mistake. No specification uses it; it documents which mistake
each property catches.

### SSELease

State: `score` is the sorted set, as the time left per token (0 is expired but
still a member); `late` holds commands whose client gave up and which Redis may
still execute, in any order, or never. Per stream, `pc` is where its coroutine
is, `reply` the state of the command it waits for in a worker thread, `cancelled`
the cancellation `_run_blocking` holds back, `closed` is `_Lease._closed`,
`closer` the lease part of `response.close()`. `age`, `due` and `opAge` are the
times since `renewed_at`, until `next_renew`, and since the running renewal was
sent.

Actions: the three Lua scripts are functions of `score` and execute atomically.
`BodyExecutes`, `BodyFails` and `BodySkips` are the worker thread, whose test of
`_closed` and command are one step because of the lease's lock. `AfterAcquire`
and `AfterCleanup` are the loop of `_acquire`; `SourceStarts`, `SourceFails`,
`AfterConfirm` and `AfterAbandon` the rest of the view; `Pull`, `WaitIsDue`,
`Emit`, `AfterRenew`, `RenewCancelled`, `Disconnect` and `AfterClosing` the
generator. Its `finally` (`Finally`) first cancels a pending call of the delivery and
waits for it (`StopPending`, `AfterStopping`), outside the `try` that closes source
and lease. A second cancellation there (`CancelledAgain`, `sse.py` 751) ends the
generator, at "dropped", with the source joined and the slot taken: the comment at
`sse.py` 753-755 ("tear the source down so every joined group is discarded") does not
hold of the generator then, and `response.close()` is the only cleanup left.
`NothingLeaks` says so: it speaks of a stream that was refused, whose generator is
"done", or whose response was closed, which "dropped" alone is not. `Tick` moves all timers; it is held up only by a renewal that is
already `MaxOp` old, so everything else may be arbitrarily slow, a client that
stops reading included. `Crash` ends a worker at any point.

Assumed: the event loop's clock and Redis's run at the same rate; the time from
sending a renewal to resuming with its reply is at most `MaxOp`, and
`RenewInterval + MaxOp <= TTL`. With the code's 15 and 45 seconds that is 30
seconds; the client's socket timeouts are two seconds each. Without the
assumption a stream could be resumed with an answer older than the lease.

### ChannelSource

State: the source's fields, the memberships and mailbox of its channel in the
layer (external, modelled from its use: `group_add`, `group_discard` and
`group_send`, each of which may fail after taking effect), the owner's control
point, and one other task that closes the source or the delivery out of band.
`lost` remembers the groups whose discard failed or was cancelled, because for
these no code can promise anything.

Actions: `JoinGroup`, `JoinFails`, `CleanupStep` and `CleanupEnds` are `start`,
which may be called again after it failed; `Pull`, `Arrives`, `Examine` and
`Verified` are `__anext__` of the source inside that of the delivery;
`CloseByOwner`, `CloseOutOfBand`, `SweepStep`, `SweepEnds` and `SweepCancelled`
are `aclose`. An event matches the filters, mismatches, or carries a lookup that
only `db_verify` can decide; `HasVerify` says whether that hook is wired.

### WSConnection

State: the consumer's fields (`acked`, `closing`, `timer`, `auth` for
`_init_task`, `operations`, `sources`), what the dispatcher is waiting in
(`handler`, `rest`, `awaited`), and per task of an operation its id, its control
point, a requested cancellation and the last terminal frame sent. Channels
dispatches one message at a time, so a handler that awaits a cancelled task
blocks the following messages; everything else interleaves with it.

Actions: one per inbound message and per outcome (`ConnectionInit`, `BadFrame`,
`Subscribe`, `Complete`, `Disconnect`), `CancelNext`, `AwaitReturns` and
`HandlerReturns` for the loops of `_close`, `disconnect` and `_cancel_operation`,
`InitTimeout` and `CallbackReturns`, and the steps of `_run_operation`. A source
is seen from outside: its task may hold memberships from the first `group_add`
to the end of `aclose`. Messages that change no state are left out.

### ResponseCache

State: `counter` and `entries` are the shared cache, `db` the number of committed
writes, which stands for what a query would answer. Per request, `pc` is where
`dispatch` is, `version` what `_get_cache_version` returned and `body` the
response. `NamespaceOf` is `_cache_version_namespace`: constant in global scope,
and any other function in identity scope.

Actions: `ReadVersion` and `Seed` are the get and the set of
`_get_cache_version`, `Lookup`, `Execute` and `Store` the rest of a cacheable
query. `Bump` is the incr of `_do_bump`; when the key is missing (`BumpMisses`), the
set that heals it (`Heal`) is a call of its own, and others seed, store and bump in
between. `Write` commits once, be it a statement, an operation of a batch in its
own transaction, or the transaction around the request; `Finish` decides by the
execution marker whether a bump follows. `Fail` is a worker that dies or a cache
that raises; `Expire` and `EvictCounter` are the backend's.

`era` counts how often the counter was set to 1 from another value, by a seed or by a
heal. An answer stored before such a restart is the only one that may be older than
what the bumps before the request vouch for; `AnswersFresh` says so. An incr vouches for
all that was committed before it. A heal that finds the counter at 1 again, because a
query seeded it since the incr failed, changes nothing, and responses stored in between
stay: it vouches for what its own mutation committed, and for what earlier bumps did
(`Vouched`). A second mutation that commits in between is not covered by the heal of the
first, only by its own bump, which is still to come: until then requests get the
response of before it. `AnswersFresh` promises nothing for that time between
commit and bump: a request that arrives then is answered from the cache
as before the mutation. `views.py` calls that gap (2508-2515) one that only costs
a miss; it costs a stale hit, until the bump.

### Broadcast

State: per writer (a connection) its open transaction: the rows it has written
and locked (`own`, `view`), the snapshots registered with `on_commit` (`hooks`),
what the inner atomic block would restore (`savepoint`), `broken` for
`needs_rollback`. `sends` and `tasks` are group sends still to be made, in the
thread that commits or as tasks of a running loop; `mailbox` and `received` belong
to a subscriber. `log`, `fate`, `audience` and `dropped` are history.

Actions: `Begin`, `OpenSavepoint`, `ReleaseSavepoint`, `Raise`, `Unwind` and
`Commit` are Django's transactions as the binding uses them. `Write` is a save or
delete with its signal: the snapshot is taken then, and an error of it passes
only if it broke the transaction. `Announce`, `SendNow` and `RunTask` are
`_deliver` and the fan-out of `Targets`. `Subscribe` chooses groups as
`native_subscribe` does, and `Receive` splits the filters into what the payload
decides and what `db_verify` asks of the database as it is now.

A row is the value of one field, on which a subscriber may be scoped and may
filter, and which may be the index field. A group name is a record. `Falsy` holds
the primary keys Python takes for false: the producer omits such an id from the
name of the per-object group (`subscription.py` 393), the subscriber does not, so
a subscription to the object with key 0 hears nothing, and the group of all
objects, whose name is then the same, is sent the change twice. No run has such a
key; with one, `NothingMissed` and `AnnouncementsSpec` fail.

`CommittedAnnouncements` says what a subscriber may hear: changes that were
committed, each at most once. `NothingMissed` is the converse: whoever
listens when a change commits and asked for it has it, once everything is sent
and nothing failed.

### NestedRules and MutationWrites

`NestedRules` is the decision on one child row, as a function of the tables: who
owns a row, what a parent is linked with, which rows the hosts' scopes and the
output type hide. `Verdict` is the answer the client gets.

The comments say that a hidden id "answers like a missing one" (`nested.py` 535-536 and
1011-1013), which `HiddenLooksMissing` confirms for foreign keys, reverse and plain
children. Of many-to-many children one case contradicts it. With an output type that has a
scope, an id that does not exist is refused before the first write, as
`Invalid pk ... object does not exist.` (732-743); one that exists, is not linked, is
visible to that type and hidden by the hosts passes that check and is refused
afterwards as not found (1014). The caller can tell the two apart. `ToldApart` names the
case, and `HiddenLooksMissing` says both: elsewhere the answers are the same, and there
they differ. A plain id is scoped by the output type alone.

State of `MutationWrites`: the settings, the batch, the position in it, the stack
of atomic blocks (`blocks`, each with what a rollback restores), `broken` and
`doomed` for a connection whose transaction failed or was marked with
`set_rollback`, the exception on its way, the error flag of the request, and the
mark that work may be durable, which `ResponseCache` reads. `db` is what the
connection sees: which statements took effect, and the tables `NestedRules` reads.

Actions: `EnterEntry`, `ExitEntry` and `Finish` are the batch and the request's
transaction; `BeginOperation` and `EndOperation` `execute_graphql_request`;
`BeginRoot`, `EndWrites` and `Reread` a root field; `WriteItem`, `AddLinks`,
`Delete`, `SecondStatement` and `LeaveSave` the statements in the order the code
makes them; `Unwind` and `Diagnose` an exception and `_db_check_errors`, which
reads the database to name the field to blame. Every statement may fail.

`Planned` says which items a root field may have, as `save_with_nested` orders them
(`nested.py` 488-613): the targets of foreign keys, the row itself, its reverse and
many-to-many children, each relation's links after its children; a delete is one
removal. A payload names no id for the row itself.

### TokenLRU and QueryCaches

State: which full schemas exist and at which address (`addressOf`), the LRU of
pruned schemas, its build lock, the parse cache, and a validation cache per
schema object, which dies with the object. Per thread, where its request is.
An entry of the schema LRU has the address and the signature as its key and
keeps a weak reference to the schema.

Actions: `Select`, `Acquire` and `Build` are the double-checked lookup;
`Parse` / `AdmitDocument` and `Validate` / `Judge` the lookup under the lock, the
work outside it and the admission. `Serve` creates a full schema at an address
that may be that of a collected one, `SetLimits` changes what validation reads,
`Clear` and `ClearDocuments` are the cache clears, `GiveUp` an exception of the
work. `TokenLRU` is `_TokenLRU`, its running total of tokens included.

`Judge` stores what the rules say of the limits as they are then under the key of
the lookup, as the code does: a change of the limits between the two leaves a
verdict under the wrong key. `OwnVerdict` is false of such a history, which `torn` marks
and the property excludes; it covers limits that change between requests. So no property
guards this window: the comment at `views.py` 908-912, that without the limits in the key
a verdict "would survive a limit tightening", still describes what can happen in it, and
`docs/usage/settings.md` (216-225) does not mention it. A limit that changes in a running
process is a test's or an operator's doing.

### SchemaPruner

A schema is a record of types; `Prune` is `_Pruner.run`. `Filtered` drops the
fields whose stamp the caller lacks, or, where there is no stamp, a permission to
read a model that the field may return (`Implicit`). `Survivors` drops what that
leaves empty, until nothing more is. The clone keeps the rest, and
`SignatureGrants` the permissions that some label of the schema asks for.

`PruningIsSound` compares, for every subset of the permissions: the result is a
schema (`IsSchema`), shows nothing the caller may not read (`ShowsOnly`), loses
nothing else (`KeepsAll`: no set of the dropped types could support itself if it
were brought back), is the same for the signature as for all the caller's
permissions, and stays sound when it is pruned again.

Assumed, as `_clone_input` says: an input field that is stamped refers to an input
that has no stamps. Not modelled: filter keys and ordering allowlists are rescoped
to the clone (500-535, 707-811), and the flat generic foreign key, whose signature
keeps every permission. The docstring says that "a type reachable only via omitted
fields disappears" (23); an implementor of an interface that is still there does
not, because `_forwarded_implementer_clones` brings it along, as its own docstring
explains. Its fields are filtered all the same.

### QueryLimits

A document is a body and its fragments. `SelectionSetCost` and `Walk` are the two
walkers, their explicit stacks written as recursion, each with its memo and its
count of cycles that cut a walk short. `HasCycle` is the reduction of the fragment
graph; both rules ignore a document with a cycle, which another rule refuses.
`LimitsAreExact` compares them with the document in which every spread has been
replaced (`Expanded`): the cost is that of the tree, the constraint reported is
the first one exceeded in document order, and cycles are found. With
`MAX_PAGE_SIZE` what was enforced before variables were known covers what is
reported once they are; without it a client's page size can exceed the fallback,
which `_warn_unbounded` (353) says.

Both functions keep nothing, so they are checked on all their instances where the
walk of `QueryCaches` begins: the documents have two fragments that may refer to
each other and to themselves, resolved against a named type or the type around
them, skipped or not, with literal, variable and missing page sizes, under limits of
types; the schemas have an interface, a union, a nested input, a subscription and
any of seven fields missing.

### ListOrder, ListPages and CursorPages

`ListOrder` has the two ways a list is ordered, by the database (NULL last in
ascending order, as PostgreSQL does and as the code asks of every backend) and by
sorting loaded rows, and Python's slices. Both sorts are stated by counting what
comes before each row (`InOrder`), which is what a sort of distinct rows, or of
positions where it has to be stable, computes. `ListPages` has the three paths of a
page: a queryset, rows that were prefetched, and the row numbers of a window.
They are functions of the table, the paginator's configuration and the arguments,
compared over all of them (`PathsAgree`). An answer without a limit and without an
order is compared as a set, and so are the rows of a window (`Fetched`). The code
rewrites the nulls and appends the key in the window's expressions only
(`fields.py` 1132-1142); the query around it keeps the model's `Meta.ordering` as it
stands, with the nulls where the database puts them and ties in any order, or has no
`ORDER BY`. `Arrivals` is the set of lists that this leaves open.

State of `CursorPages`: the table, the client's cursor, the request under way and
what it has read, and what the client has been served. `ReadPage`, `ReadInfo` and
`ReadPrevious` are statements of their own on a queryset, in either order of the
selection, and `Change` may fall between any two of them. A change between a page
and its `pageInfo` may make `endCursor` the end of another page than the one the
client got; `torn` marks such a history, and the properties about walks exclude
it, because in it they are false. The docs promise stability for changes between pages
only. The run does not follow such a history further (`Untorn`). `InfoDescribesPage` is
about a table that did not change since the page was asked for.

## Runs

| Run | Instance | Shows |
|---|---|---|
| `sse_lease_cap` | 2 streams, limit 1, TTL 3, renew 1, `MaxOp` 2, one fault in one stream, symmetry | cap, refinement of `BoundedLeases` |
| `sse_lease_timing` | 1 stream, TTL 9, renew 3, margin 1, `MaxOp` 6, two faults | no data without a live token, nothing leaks, slots come back, cancelled requests end |
| `channel_source` | 2 groups, 3 events, capacity 2, 2 faults | memberships, close, refinement of `FilteredStream` |
| `channel_source_ghost` | 2 groups, no fault | a divergence, below |
| `ws_connection` | 2 ids, 3 tasks, cap 2 | registries, cap, handshake, order of cleanup and completion; closing terminates, ends are signalled |
| `response_cache` | 2 requests, 2 callers, 1 write, versions 1 and 2, symmetry | freshness, isolation, no lost invalidation |
| `response_cache_stale` | 3 requests, 1 caller, no eviction | a bug, below |
| `broadcast` | 2 writers, 1 row, 2 owners, 1 subscriber, 2 changes, 1 fault, every mode | only committed changes, each once, to all who asked, within scope and filters |
| `mutation_writes` | 1 child row, batches of up to two entries or root fields, every table | atomicity, answers that match what is kept, what a payload may rewrite or learn |
| `query_caches` | 2 threads, 3 requests, 2 signatures, 2 queries, 2 schemas at 2 addresses, 1 change of limits | own schema, one build, own verdict, bounds; at the beginning, every document and every schema with every set of permissions: limits and pruning |
| `pagination` | every table of 3 keys and 2 values or NULL, pages of 1 and 2, 2 changes | walks, `pageInfo`, the three paths |
| `pagination_window` | the same without changes | a bug, below |

Why the bounds are enough. Two streams and one slot are the smallest instance in
which a slot can be taken over while its former owner still believes in it; the
timers keep the relations of the real ones (an expiry spans several renewals, the
margin is one retry), and the timing run has room for a failed admission attempt
followed by a failed renewal. Two groups are needed for "the others"
of a failing discard, two faults for a failed cleanup of a failed start, three
events for one dropped, one in hand and one waiting. On a socket an id must be reused
while the task that had it is not gone, beside another operation: two ids and two
tasks do that, and a third of each lets the cap of two be exceeded. In the cache, two requests
suffice for every race between a query and a mutation, or of two seeds, one
write tells fresh from stale, and the counter is evicted once. A second mutation that
commits between the failed incr of a first and its heal, beside a query, needs three
requests and two writes: there freshness is a theorem. Two changes of
one row show whether an announcement overtakes another, and whether an
inner block is undone without the outer one; two writers contend for the row. One
child row suffices for `MutationWrites` because its rules relate one child with
one parent at a time; two root fields and two entries are needed for a failure
beside a success. Three requests are needed to evict a pruned schema and build it
again, and for a third verdict of one schema; two threads for each race of a lookup. Three
rows make a page of two with one row beyond it or a tie across its end; two changes move
the cursor's own row and another one. The theorems remove these bounds for the
properties they cover.

`CHECK_DEADLOCK FALSE` in the configurations is right because the systems
stop: streams are over, sources closed, sockets gone, bounds of the cache reached.

### Fairness

`SSELease!FairSpec`: threads finish, a coroutine whose command has settled
resumes, a call of the delivery that was cancelled ends, a late command is executed or dropped, time passes. These are promises
of the event loop, the thread pool and Redis. Nothing obliges a client to read
or to disconnect. `ChannelSource!FairSpec`: the owner and a running sweep take
the steps they can; no event, pull or close is promised.
`WSConnection!FairSpec`: the dispatcher's own steps and the teardown steps of a
task; sources need not start and callbacks need not return. A `group_discard`
is taken to end, successfully or not.

### What the violated runs say

* `channel_source_ghost`: a task cancelled while it is inside `aclose()` leaves
  the groups it has not reached joined (`source.py` 276), although "no ghost
  subscriber survives" (`ws.py` 38). It takes an operation that is ending on its
  own when the client completes it or disconnects.
* `response_cache_stale`: the counter is seeded by a get and a set (`views.py`
  2481 and 2488), and a second seed can undo a bump. What was cached before the
  mutation is then served for up to `CACHE_TIMEOUT`, although
  `docs/usage/caching.md` 137 says that the counter only ever moves forward. The heal of
  a bump (2564) does the same when others have seeded and bumped since its incr failed.
* `pagination_window`: a prefetch window numbers its rows in the requested order
  and keeps those of the page (`fields.py` 1164), but its queryset has no such
  `order_by`. On a model with `Meta.ordering` the page has the right rows in the
  order of the model, although `paginations/utils.py` 36 says "they are returned in
  order". `WindowsAreOrdered` asks only that some of the lists in `Arrivals` be the page,
  so neither ties nor nulls nor a missing `ORDER BY` count against the code: in the
  counterexample no database can return the rows in the requested order.

## Proofs

Proved for all values of the constants that satisfy the named assumptions
(`StreamAssumption`, `TimingAssumption`, `SourceAssumption`,
`ConnectionAssumption`, `CacheAssumption`, `BroadcastAssumption`,
`QueryCachesAssumption`, `NoneAssumption`, `NestedRulesAssumption`,
`MutationWritesAssumption`, `ListOrderAssumption`, `CursorPagesAssumption`):

`SSELease_proofs`. `Inductive` is `TypeOK`, `LeaseInv` and `ReleaseInv`. The cap
and the ownership of emitted data are not inductive: they depend on how much of a
lease is left, which `LeaseInv` bounds by the age of `renewed_at` (stamped when
the command is sent), and on nobody else releasing the token, which `ReleaseInv`
bounds by the positions of coroutine, closer and late commands. Steps are grouped
by what they touch: those that send nothing, those that execute a command for
one stream, and those of the environment. `EmissionOwned` follows from a step
analysis under `Inductive`. `Refinement` needs one more invariant, that a token
not yet sent was never granted; `EmittersCapped` maps the emitting streams
injectively to live tokens, whose number the refinement bounds. `NoLeaks` adds
`LeakInv`: an open source belongs to a stream that is served, or whose generator was
cancelled twice, and whose response nobody has closed, and a stream no fault hit has made one attempt, has nothing late under way,
and has no token left once its lease is closed or was never granted (`Gone`).
For a stream that a fault hit the claim would be false: an acquire that Redis executes
after the release meant to undo it leaves a token that only the TTL ends.

`ChannelSource_proofs`. `Inductive` has four parts; `Phases` says, for each phase
of start, delivery and close, where the memberships are. `MembershipKnown` and
`Listening` are consequences, and `Refinement` splits a step by whether the
stream is open for its reader: once closed nothing is visible, and while open
each action is one of `Accept`, `Deliver`, `Filter`, `Close`, or invisible.

`WSConnection_proofs`. `RegistrySound` is nearly inductive; `Owners` adds that a
registered task knows its id and has not given it up, and that one about to send
`complete` can no longer be cancelled, because only registered tasks are. `Reach`
says what a running teardown has still to visit and that, once it is over or
before the ack, the registry is empty; with it `ClosedMeansTornDown` and
`NoLateAck` follow. For `HeldWithinCap`, the test of `_on_subscribe` bounds the
registry, and `Capped` maps the tasks that hold memberships injectively into the
registered ids.

`ResponseCache_proofs`. Freshness of answers is not inductive: it needs that what
is stored under the counter's value in its era is as new as the last bump
(`Stored`), the same of what a request is about to store (`Requests`), and that
a lookup that has read its version can find nothing older than it must see, now
or after a pending store (`Lookups`). A bump, a restart and an eviction keep all
that by one argument (`Moves`): what had the counter's value has it no longer, or
belongs to an earlier era. `Healings` says what a mutation that has yet to heal wrote
when: its write came before the miss, so whatever is stored under a 1 that others have
seeded since includes it, which is what `Vouched` needs.

`Broadcast_proofs`. `Way` follows a snapshot: it waits in the hooks of its own
transaction and was taken from a change that is still pending (`Hooks`), what a
savepoint keeps is a prefix of what now waits (`Marks`), and what is under way or
in a mailbox is a committed change on its way to a group it belongs to (`Sent`,
`Mail`). `Filtered` and `SuccessKept` need no more. For `Announcements`, `Once`
says that a subscriber gets a change once: a snapshot leaves the hooks before it is
sent, and at most one of its groups is one of the subscriber's.
`NothingIsMissed` is the converse: a pending change waits, in the savepoint too
when it is older than it (`Registered`), and one committed while a subscriber
listened is waiting, under way to one of its groups, in its mailbox or received
(`Reaches`). The last two have the hypothesis `Falsy = {}`, for the reason given
above; the others hold for every `Falsy`.

`QueryCaches_proofs`. `Base` says which addresses are in use, what each stage of a
thread may hold, and that an entry of the schema cache that is still alive is what
its key says; `OwnSchema` follows. `Sharing` adds that a thread that builds found
no live entry and nobody else can add one, because it has the lock. `Judged` says
that a verdict, kept or on its way to be kept, is that of its key, and that a
validation cache belongs to a schema that exists. The total of tokens is a
recursive function of the entries; that an eviction keeps it exact is shown with
a least counterexample, since the induction theorems of the library are out of
reach, as is said below.

The same module has the theorems about `SchemaPruner`, for every schema that is
`Compiled`, with any number of types, and every permissions. The two recursive functions
are loops: `LoopExists` says that a function describes such a loop, and `LoopEnds` that it
ends in a fixpoint when every step lowers a rank, here the number of types that are left
(or not yet found). So the survivors are the greatest set of types of which none is empty (`SurvivorsAreGreatest`;
`DiscardedInAnyOrder` says that the code, which discards one type at a time, ends in
it), and what `GraphQLSchema` collects is closed under what it names (`MountedIsClosed`).
`PrunedShowsOnly` and `PrunedKeepsAll` follow from the one and what a clone keeps of a
field (`KeptField`, `Offered`), `PrunedIsSchema` from both. `PrunedIsPrunable` carries
the hypotheses over to the result, which makes re-pruning a second use of the same
theorems (`PrunedAgain`). `SignatureSuffices` says that every permission a decision asks
about is a label of the schema (`LabelsCover`). `CachedForTheCaller` composes them with
`OwnSchemas`: `QueryCaches` keeps a key for a schema, and this theorem puts the pruned
schema in its place.

What `Compiled` asks of a schema, besides being one: only root fields and input fields
are stamped (`StampedAtRoots`, the docstring of `_field_permitted`); an input that another
one nests has no stamps (`FlatInputs`, the docstring of `_clone_input`); a root type
implements no interface and a field that is stamped by action has no other stamp
(`WellFormed`); and an object returns for a field of its interface the type that the
interface has, or itself (`Inherits`). The last is a limit of the theorems: GraphQL also
allows any narrower type, and an object whose narrower type has lost all its fields would
lose a field that its interface keeps. TLC checks that all the schemas of the run are
`Compiled` (`SchemasAssumption`).

`MutationWrites_proofs`. `Shape` says which atomic blocks are open in which phase,
and that they are nested in the order request, entry, operation, nested write, save;
`Position` says where in the request the program is. `Health` says when a connection
can be broken or doomed at all: on the way out of a block, or behind a delete that
failed; `Answers` ties the flags to what the root fields answered. `ErrorsOwn` follows.
`AllOrNothing` is far from inductive, because what a rollback leaves is not in the
state it speaks about: `Contents` says what each open block would restore. The past
entries are final (`Final`), a block of an entry or an operation restores what there
was at its start (`AtStart`), one of a nested write or a save everything but the
current root field (`Stable`), and of that nothing, where it is the outermost block of
its field. A field without nested work has one save, which `OnlyParent` takes from
`Planned`. `Atomicity` and `Keeping` are read off `Contents`, and `Marking` off the same
with the mark instead of the answers. For `Rewriting`, `Found` says that the rules of
the items still to come read the tables as the root field found them: that is where
the order of `Planned` is needed, since the row's own save moves its foreign key and
the last step of a relation its links. `Secrecy` is a case analysis of the rules, and
that no statement changes a scope; it has both halves of `HiddenLooksMissing`.

`CursorPages_proofs`. First what the two ways to sort compute: counting puts a finite
set in order (`ByPlace`), one stable pass per term, the last term first, leaves the
order that the terms have together (`MemorySorts`), and `ORDER BY`, the keyset
predicate and the comparison in memory are one strict total order, `After`, with the
nulls at its end (`AfterOrders`, `SqlIsAfter`, `KeysetIsAfter`, `InMemoryIsAfter`).
A page is then a `Segment` on either path: the rows beyond the cursor, in order, up
to the size; since a segment is unique (`SegmentsAgree`), the paths agree
(`PathsReadAlike`). Neither property of a walk is inductive. `Walked` says in
terms of the order what the client has: a row that still is as it was when served is
no longer ahead of the cursor, and a row of the beginning that still is and is not
ahead was served. For a step of the client to keep that, a page that was read must hold
the settled rows whatever changed since (`PageCovers`, `Kept`), and the `endCursor`
must be the end of that page or, without a next page, no settled row may be
missing (`GoesOn`). `GoesOn` holds when the page and its `pageInfo` come from the
same rows, which `AsRead` says of the part that was read first; a change between
them breaks it, and that is why `torn` is in the hypotheses.

Then the pages of `ListPages`, for orderings of any length. `Precedes` is the
lexicographic order `Lex` of the terms, a strict total order once the key is among
them (`LexOrders`), so that a set has one listing (`OneListing`) and `ORDER BY` is
it (`SqlLists`). The sort in memory is a fold of stable passes (`FoldOfPasses`): after
the pass for term k no row stands before one that it must follow by the terms from
k on (`OnePass`, `AllPasses`), whatever order the rows arrived in, and with the key that
leaves the same listing (`SortsAgree`). `MemoryAgrees` adds the control: the
tiebreak by the key matters exactly when a size cuts an unordered list. The row
numbers of a window are the places in that listing (`PlaceInListing`), so the rows it
selects are those of the slice (`SliceIsNumbers`, `WindowAgrees`). `ListsReadAlike` is
the sum of it, for every table, request and configuration (a maximum, if there
is one, is not negative: `Slice` counts no negative offsets), and `EveryPathAgrees`
the run's `PathsAgree`. `WindowsInOrder` delimits the finding of `pagination_window`. If
the model has no ordering, or the request resolves to none, the page is one of the
lists that may arrive (on PostgreSQL a plain `ORDER BY` places nulls as the window does,
`RawIsSql`); that it is the only one needs more, namely that the request resolves to an
ordering of the model that has the key, and rows without nulls.

The type invariant of each of these modules is a theorem (`Typing`,
`QueryCachesTypes`) and in no run. Nor are those of the other modules, which
document the state.

Only model-checked:

* `LimitsAreExact`: the two walkers of `QueryLimits` recurse over the selections of a
  document, and what a recursive definition computes for every input needs induction
  over data, which the proof system here cannot instantiate.
* Of `PruningIsSound` one clause: a schema that is pruned twice shows nothing that
  the full one would not allow. `PrunedAgain` has it relative to the schema that is
  pruned again, since an implementor that was dropped as empty no longer asks for
  permissions. The other clauses are theorems, but none names `PruningIsSound`:
  `MCQueryCaches` reaches `QueryLimits` and its RECURSIVE operators.
* Every liveness property (`SlotsReclaimed`, `CancelledEnds`, `CloseCompletes`,
  `ClosingEnds`, `EndIsSignalled`): the proof system covers neither fairness nor ENABLED.

## Not modelled, and why

* A send of the error path of `_run_operation` (`ws.py`) that fails again: the task then
  ends without its `complete` frame and leaves its entry in the registry to the done
  callback. `StreamEnds` has the first failure only.
* Contents of documents, payloads and frames, heartbeat times, validation of
  requests: no property here depends on them.
* `db_verify` is not consulted again after a close; what the source returns then
  is stopped by the delivery, which is why the two are one module.
* Schema compilation, registry, converters, optimiser, filters, directives,
  scalars and permissions: sequential and stateless, or built once. Their
  correctness is about Python types and SQL, which a model would only restate.
* The response cache is modelled for one database with read committed isolation.
  `on_commit` waits for the default database only, and a reader whose transaction
  has a snapshot from before it read the version is outside the model.
* Settings: read lazily, reloaded only by a test signal. What matters of a change
  at run time is `SetLimits` of `QueryCaches`.
* `Broadcast` leaves payload contents and `authorize` out; a channel's capacity,
  joins and closes are `ChannelSource`'s.
* `MutationWrites` takes the answers of validation, permissions and serializers
  as a choice; uploads and the compilation of inputs are not in it.
* Pagination: the conversion of cursor values to column types, their numeric
  bounds, the refusal of an order by an unlisted field, and arguments of hooks.
  A cursor of the older format, which has a value and no key, is decoded by the
  code still; on a queryset it drops a trailing group of NULLs that the in-memory
  path keeps. Current cursors, which the model has, do not.
* The HTTP view's parsing, content negotiation and error envelopes.
* Components that no module covers are listed in `PROJECT.json` with status
  `not_modelled`; hazards without a property are listed with a note.
