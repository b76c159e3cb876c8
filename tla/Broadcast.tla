----------------------------- MODULE Broadcast -----------------------------
(***************************************************************************)
(* Automatic notifications: from the save of a model instance inside a      *)
(* transaction, over the groups of the channel layer, to the subscribers    *)
(* whose scope and filters the change satisfies (subscriptions/bindings.py, *)
(* streaming.py, subscription.py).                                          *)
(*                                                                          *)
(* A row is abstracted to the value of one field, its owner, on which       *)
(* subscribers are scoped and filtered and which may be an index field.     *)
(* Transactions are the database's and Django's: external.  A subscriber's  *)
(* channel is a mailbox without a bound; joining and leaving groups, closes *)
(* and full channels are the subject of ChannelSource.                      *)
(***************************************************************************)
EXTENDS Naturals, Sequences, FiniteSets

CONSTANTS
    Row,        \* primary keys
    Owner,      \* values of the field
    Writer,     \* database connections
    Subscriber,
    None,       \* no row, no value, no request
    Falsy,      \* the primary keys that Python takes for false
    Modes,      \* the configurations of the deployment and the binding
    Asked,      \* the requests of subscribers
    MaxChanges, \* bound: saves and deletes; no block opens once they are used up
    MaxFaults   \* bound: snapshots and sends that fail

Number == 1..MaxChanges
Action == {"create", "update", "delete"}
Change == [n : Number, by : Writer, action : Action, row : Row, owner : Owner]
Mode == [full : BOOLEAN, scalar : BOOLEAN, indexed : BOOLEAN, loop : BOOLEAN]

(* The client's filter is an equality, or a lookup that only the database   *)
(* can decide.                                                              *)
Filter == [key : {"exact", "lookup"}, owner : Owner]
Request == [action : Action \cup {"all_actions"}, id : Row \cup {None},
            scope : Owner \cup {None}, filter : Filter \cup {None}]

ASSUME BroadcastAssumption ==
    /\ Falsy \subseteq Row
    /\ None \notin Row \cup Owner
    /\ Modes \subseteq Mode /\ Asked \subseteq Request
    /\ MaxChanges \in Nat /\ MaxFaults \in Nat

VARIABLES
    mode,      \* payload_mode is full; the field is a scalar; it is an index field;
               \* a loop runs on the thread that commits
    db,        \* row -> its owner, as committed
    phase,     \* writer -> what its thread does
    view,      \* writer -> the rows as its transaction sees them
    own,       \* writer -> the rows its transaction has written and locked
    hooks,     \* writer -> snapshots registered with on_commit, in order
    savepoint, \* writer -> what a rollback to the inner atomic block restores
    broken,    \* writer -> needs_rollback
    sends,     \* writer -> group_sends still to be made for the running callback
    tasks,     \* group_sends that are tasks of the loop
    request,   \* subscriber -> what it asked for
    mailbox,   \* subscriber -> messages in its channel
    received,  \* subscriber -> the events handed to the delivery
    log,       \* history: the changes, as they were made
    fate,      \* history: number of a change -> what became of it
    audience,  \* history: subscriber -> changes committed while it listened
    dropped,   \* history: changes whose snapshot or one of whose sends failed
    faults

writing == <<db, phase, view, own, hooks, savepoint, broken>>
sending == <<sends, tasks, mailbox>>
past == <<log, fate, audience, dropped, faults>>
vars == <<mode, db, phase, view, own, hooks, savepoint, broken, sends, tasks, request,
          mailbox, received, log, fate, audience, dropped, faults>>

Group == [action : Action, id : Row \cup {None}, index : Owner \cup {None}]
Message == [to : Group, what : Change, k : 1..4]
Saved == [view : [Row -> Owner \cup {None}], own : SUBSET Row, hooks : Seq(Change),
          mark : 0..MaxChanges]

TypeOK ==
    /\ mode \in Modes
    /\ db \in [Row -> Owner \cup {None}]
    /\ phase \in [Writer -> {"idle", "open", "raising", "announcing"}]
    /\ view \in [Writer -> [Row -> Owner \cup {None}]]
    /\ own \in [Writer -> SUBSET Row]
    /\ hooks \in [Writer -> Seq(Change)]
    /\ savepoint \in [Writer -> Saved \cup {None}]
    /\ broken \in [Writer -> BOOLEAN]
    /\ sends \in [Writer -> Seq(Message)]
    /\ tasks \subseteq Message
    /\ request \in [Subscriber -> Asked \cup {None}]
    /\ mailbox \in [Subscriber -> Seq(Change)]
    /\ received \in [Subscriber -> Seq(Change)]
    /\ log \in Seq(Change)
    /\ fate \in [Number -> {"pending", "undone", "committed"}]
    /\ audience \in [Subscriber -> SUBSET Number]
    /\ dropped \subseteq Number
    /\ faults \in 0..MaxFaults

-----------------------------------------------------------------------------
(* Group names.  The empty id stands for "no id", so a primary key that is  *)
(* false gives the name of the coarse group.                                *)

GroupName(action, id, index) == [action |-> action, id |-> id, index |-> index]
ProducerId(row) == IF row \in Falsy THEN None ELSE row

TargetsCoarseOnlyUnindexed(c) == \* mutant: an indexed change skips the per-object group
    IF mode.indexed
    THEN <<GroupName(c.action, None, None), GroupName(c.action, None, c.owner),
           GroupName(c.action, ProducerId(c.row), c.owner)>>
    ELSE <<GroupName(c.action, None, None), GroupName(c.action, ProducerId(c.row), None)>>

(* The groups one change is sent to: coarse, per object and, with an index  *)
(* field, the value-scoped ones.                                            *)
Targets(c) ==
    <<GroupName(c.action, None, None), GroupName(c.action, ProducerId(c.row), None)>>
        \o (IF mode.indexed
            THEN <<GroupName(c.action, None, c.owner),
                   GroupName(c.action, ProducerId(c.row), c.owner)>>
            ELSE <<>>)

Messages(c) == [k \in 1..Len(Targets(c)) |-> [to |-> Targets(c)[k], what |-> c, k |-> k]]

-----------------------------------------------------------------------------
(* The subscriber's side of native_subscribe.                               *)

ActionsFor(action) == IF action = "all_actions" THEN Action ELSE {action}

Equality(q) == IF q.filter # None /\ q.filter.key = "exact" THEN q.filter.owner ELSE None
Lookup(q) == IF q.filter # None /\ q.filter.key = "lookup" THEN q.filter.owner ELSE None

Contradicts(q) ==
    /\ q.scope # None /\ Equality(q) # None
    /\ q.scope # Equality(q)

Merged(q) == IF q.scope # None THEN q.scope ELSE Equality(q)

Index(q) == IF mode.indexed THEN q.scope ELSE None

Groups(q) ==
    IF Contradicts(q) THEN {}
    ELSE {GroupName(a, q.id, Index(q)) : a \in ActionsFor(q.action)}

Members(group) == {s \in Subscriber : request[s] # None /\ group \in Groups(request[s])}

(* split_filters and db_verify.  The owner of a change is in the payload of *)
(* full mode, and a deleted row's in the private delete_match if it is a    *)
(* scalar; anything else is asked of the database as it is now.             *)
InMemory(c) == mode.full \/ (c.action = "delete" /\ mode.scalar)

PassesUnverified(c, q) == \* mutant: what memory cannot decide is let through
    Merged(q) # None /\ InMemory(c) => c.owner = Merged(q)
Passes(c, q) ==
    LET inMemory == IF InMemory(c) THEN Merged(q) ELSE None
        remaining == {IF InMemory(c) THEN None ELSE Merged(q), Lookup(q)} \ {None}
    IN  /\ inMemory # None => c.owner = inMemory
        /\ remaining # {} => db[c.row] # None /\ remaining = {db[c.row]}

-----------------------------------------------------------------------------
(* Transactions.                                                            *)

Visible(w, r) == IF r \in own[w] THEN view[w][r] ELSE db[r]
Free(w, r) == \A x \in Writer \ {w} : phase[x] \in {"open", "raising"} => r \notin own[x]

(* The changes of a transaction, or of its part after a savepoint, end.     *)
Settle(w, mark, state) ==
    fate' = [n \in Number |->
                IF n \in DOMAIN log /\ n > mark /\ log[n].by = w /\ fate[n] = "pending"
                THEN state ELSE fate[n]]

Begin(w) ==
    /\ phase[w] = "idle" /\ Len(log) < MaxChanges
    /\ phase' = [phase EXCEPT ![w] = "open"]
    /\ UNCHANGED <<mode, db, view, own, hooks, savepoint, broken, sending, request,
                   received, past>>

OpenSavepoint(w) ==
    /\ phase[w] = "open" /\ Len(log) < MaxChanges
    /\ savepoint[w] = None
    /\ savepoint' = [savepoint EXCEPT ![w] = [view |-> view[w], own |-> own[w],
                                              hooks |-> hooks[w], mark |-> Len(log)]]
    /\ UNCHANGED <<mode, db, phase, view, own, hooks, broken, sending, request, received,
                   past>>

(* The inner block is undone with the callbacks registered in it.           *)
RestoreHooksKept(w) == \* mutant: callbacks of the inner block survive it
    /\ view' = [view EXCEPT ![w] = savepoint[w].view]
    /\ own' = [own EXCEPT ![w] = savepoint[w].own]
    /\ broken' = [broken EXCEPT ![w] = FALSE]
    /\ Settle(w, savepoint[w].mark, "undone")
    /\ UNCHANGED hooks
Restore(w) ==
    /\ view' = [view EXCEPT ![w] = savepoint[w].view]
    /\ own' = [own EXCEPT ![w] = savepoint[w].own]
    /\ hooks' = [hooks EXCEPT ![w] = savepoint[w].hooks]
    /\ broken' = [broken EXCEPT ![w] = FALSE]
    /\ Settle(w, savepoint[w].mark, "undone")

Undo(w) ==
    /\ own' = [own EXCEPT ![w] = {}]
    /\ hooks' = [hooks EXCEPT ![w] = <<>>]
    /\ broken' = [broken EXCEPT ![w] = FALSE]
    /\ phase' = [phase EXCEPT ![w] = "idle"]
    /\ view' = [view EXCEPT ![w] = [r \in Row |-> None]]
    /\ Settle(w, 0, "undone")

(* Leaving an atomic block without an exception while the connection needs  *)
(* a rollback undoes the block all the same.                                *)
ReleaseSavepoint(w) ==
    /\ phase[w] = "open"
    /\ savepoint[w] # None
    /\ savepoint' = [savepoint EXCEPT ![w] = None]
    /\ IF broken[w] THEN Restore(w) ELSE UNCHANGED <<view, own, hooks, broken, fate>>
    /\ UNCHANGED <<mode, db, phase, sending, request, received, log, audience, dropped,
                   faults>>

(* The application or the database raises, or a notification does.          *)
Raise(w) ==
    /\ phase[w] = "open"
    /\ phase' = [phase EXCEPT ![w] = "raising"]
    /\ UNCHANGED <<mode, db, view, own, hooks, savepoint, broken, sending, request,
                   received, past>>

(* The exception leaves the inner block, and may be caught outside it, or   *)
(* the outermost one.                                                       *)
Unwind(w) ==
    /\ phase[w] = "raising"
    /\ IF savepoint[w] # None
       THEN /\ Restore(w)
            /\ savepoint' = [savepoint EXCEPT ![w] = None]
            /\ \E caught \in BOOLEAN :
                  phase' = [phase EXCEPT ![w] = IF caught THEN "open" ELSE "raising"]
       ELSE Undo(w) /\ UNCHANGED savepoint
    /\ UNCHANGED <<mode, db, sending, request, received, log, audience, dropped, faults>>

Listening == {s \in Subscriber : request[s] # None}

Commit(w) ==
    /\ phase[w] = "open"
    /\ savepoint[w] = None
    /\ IF broken[w]
       THEN Undo(w) /\ UNCHANGED <<db, audience>>
       ELSE /\ db' = [r \in Row |-> Visible(w, r)]
            /\ own' = [own EXCEPT ![w] = {}]
            /\ view' = [view EXCEPT ![w] = [r \in Row |-> None]]
            /\ phase' = [phase EXCEPT ![w] = "announcing"]
            /\ Settle(w, 0, "committed")
            /\ audience' = [s \in Subscriber |->
                   IF s \in Listening
                   THEN audience[s] \cup {n \in DOMAIN log : log[n].by = w /\ fate[n] = "pending"}
                   ELSE audience[s]]
            /\ UNCHANGED <<hooks, broken>>
    /\ UNCHANGED <<mode, savepoint, sending, request, received, log, dropped, faults>>

-----------------------------------------------------------------------------
(* Signals and callbacks.                                                   *)

(* _prepare_automatic_snapshot lets an error pass only if it broke the      *)
(* transaction.                                                             *)
PropagatesNever(breaks) == FALSE \* mutant: the signal handler swallows every error
Propagates(breaks) == breaks

(* on_commit: the snapshot is kept until the transaction commits.           *)
Defer(w, c) ==
    /\ hooks' = [hooks EXCEPT ![w] = Append(@, c)]
    /\ UNCHANGED sends

(* A save or delete, its post_save or post_delete signal, and what the      *)
(* binding does with it.  A delete announces the owner the row had.         *)
Write(w, r, o) ==
    /\ phase[w] = "open" /\ sends[w] = <<>>
    /\ Len(log) < MaxChanges
    /\ Free(w, r)
    /\ o # None \/ Visible(w, r) # None
    /\ own' = [own EXCEPT ![w] = @ \cup {r}]
    /\ view' = [view EXCEPT ![w][r] = o]
    /\ LET c == [n |-> Len(log) + 1, by |-> w, row |-> r,
                 action |-> IF o = None THEN "delete"
                            ELSE IF Visible(w, r) = None THEN "create" ELSE "update",
                 owner |-> IF o = None THEN Visible(w, r) ELSE o]
       IN  /\ log' = Append(log, c)
           /\ fate' = [fate EXCEPT ![c.n] = "pending"]
           /\ \/ /\ Defer(w, c)
                 /\ UNCHANGED <<phase, broken, dropped, faults>>
              \/ /\ faults < MaxFaults
                 /\ faults' = faults + 1
                 /\ dropped' = dropped \cup {c.n}
                 /\ \E breaks \in BOOLEAN :
                       /\ broken' = [broken EXCEPT ![w] = breaks]
                       /\ phase' = [phase EXCEPT ![w] = IF Propagates(breaks)
                                                        THEN "raising" ELSE "open"]
                 /\ UNCHANGED <<hooks, sends>>
    /\ UNCHANGED <<mode, db, savepoint, tasks, mailbox, request, received, audience>>

Snapshot(c) == c

(* A callback sends its snapshot to each group, or leaves that to tasks of  *)
(* the running loop.                                                        *)
Announce(w) ==
    /\ phase[w] = "announcing"
    /\ sends[w] = <<>>
    /\ IF hooks[w] = <<>>
       THEN /\ phase' = [phase EXCEPT ![w] = "idle"]
            /\ UNCHANGED <<hooks, sends, tasks>>
       ELSE LET out == Messages(Snapshot(Head(hooks[w])))
            IN  /\ hooks' = [hooks EXCEPT ![w] = Tail(@)]
                /\ IF mode.loop
                   THEN /\ tasks' = tasks \cup {out[k] : k \in DOMAIN out}
                        /\ UNCHANGED sends
                   ELSE /\ sends' = [sends EXCEPT ![w] = out]
                        /\ UNCHANGED tasks
                /\ UNCHANGED phase
    /\ UNCHANGED <<mode, db, view, own, savepoint, broken, mailbox, request, received,
                   past>>

(* One group_send reaches the members of the group or fails.                *)
Send(m) ==
    \/ /\ mailbox' = [s \in Subscriber |-> IF s \in Members(m.to)
                                           THEN Append(mailbox[s], m.what) ELSE mailbox[s]]
       /\ UNCHANGED <<dropped, faults>>
    \/ /\ faults < MaxFaults
       /\ faults' = faults + 1
       /\ dropped' = dropped \cup {m.what.n}
       /\ UNCHANGED mailbox

RestOfSends(w) == Tail(sends[w])

SendNow(w) ==
    /\ sends[w] # <<>>
    /\ Send(Head(sends[w]))
    /\ sends' = [sends EXCEPT ![w] = RestOfSends(w)]
    /\ UNCHANGED <<mode, writing, tasks, request, received, log, fate, audience>>

RunTask(m) ==
    /\ m \in tasks
    /\ Send(m)
    /\ tasks' = tasks \ {m}
    /\ UNCHANGED <<mode, writing, sends, request, received, log, fate, audience>>

-----------------------------------------------------------------------------
(* Subscribers.                                                             *)

(* native_subscribe after authorize and the validation of the filters.      *)
Subscribe(s, q) ==
    /\ request[s] = None
    /\ request' = [request EXCEPT ![s] = q]
    /\ UNCHANGED <<mode, writing, sending, received, past>>

(* __anext__ drops what does not pass and returns what does.                *)
Receive(s) ==
    /\ mailbox[s] # <<>>
    /\ mailbox' = [mailbox EXCEPT ![s] = Tail(@)]
    /\ received' = IF Passes(Head(mailbox[s]), request[s])
                   THEN [received EXCEPT ![s] = Append(@, Head(mailbox[s]))]
                   ELSE received
    /\ UNCHANGED <<mode, writing, sends, tasks, request, past>>

Init ==
    /\ mode \in Modes
    /\ db \in [Row -> Owner \cup {None}]
    /\ phase = [w \in Writer |-> "idle"]
    /\ view = [w \in Writer |-> [r \in Row |-> None]]
    /\ own = [w \in Writer |-> {}]
    /\ hooks = [w \in Writer |-> <<>>]
    /\ savepoint = [w \in Writer |-> None]
    /\ broken = [w \in Writer |-> FALSE]
    /\ sends = [w \in Writer |-> <<>>]
    /\ tasks = {}
    /\ request = [s \in Subscriber |-> None]
    /\ mailbox = [s \in Subscriber |-> <<>>]
    /\ received = [s \in Subscriber |-> <<>>]
    /\ log = <<>>
    /\ fate = [n \in Number |-> "pending"]
    /\ audience = [s \in Subscriber |-> {}]
    /\ dropped = {}
    /\ faults = 0

Transaction(w) ==
    \/ Begin(w) \/ OpenSavepoint(w) \/ ReleaseSavepoint(w) \/ Raise(w) \/ Unwind(w)
    \/ Commit(w)
    \/ \E r \in Row, o \in Owner \cup {None} : Write(w, r, o)

Delivery ==
    \/ \E w \in Writer : Announce(w) \/ SendNow(w)
    \/ \E m \in tasks : RunTask(m)

Next ==
    \/ \E w \in Writer : Transaction(w)
    \/ Delivery
    \/ \E s \in Subscriber : Receive(s) \/ \E q \in Asked : Subscribe(s, q)

Spec == Init /\ [][Next]_vars

-----------------------------------------------------------------------------
Committed == {log[n] : n \in {m \in DOMAIN log : fate[m] = "committed"}}

Abstract == INSTANCE CommittedAnnouncements WITH committed <- Committed, told <- received

(* Subscribers are told of committed changes only, of none twice, and as    *)
(* they were when the signal fired: rollbacks, savepoints, later saves and  *)
(* the fan-out to several groups notwithstanding.                           *)
AnnouncementsSpec == Abstract!Spec

(* An event reaches a subscriber only if its row satisfied the scope, and   *)
(* the client's filter as well, when the change was made or satisfies them  *)
(* as it is delivered: a client can narrow its scope and never widen it.    *)
Satisfied(c, o) == o = None \/ c.owner = o \/ db[c.row] = o
WithinFilters ==
    [][\A s \in Subscriber : received'[s] # received[s] =>
          LET c == received'[s][Len(received'[s])]
              q == request[s]
          IN  /\ Satisfied(c, q.scope) /\ Satisfied(c, Equality(q)) /\ Satisfied(c, Lookup(q))
              /\ q.id \in {None, c.row}]_vars

(* Index fields only route: whether or not there is an index, and whatever  *)
(* groups a subscriber is in, once all is sent it has been handed every     *)
(* change committed while it listened that its scope and filters select and *)
(* for which nothing failed.  Lookups, and what is left to the database,    *)
(* depend on later changes and are not promised.                            *)
Decidable(c, q) == Lookup(q) = None /\ (Merged(q) = None \/ InMemory(c))
Wanted(c, q) ==
    /\ c.action \in ActionsFor(q.action)
    /\ q.id \in {None, c.row}
    /\ \A o \in {q.scope, Equality(q)} \ {None} : c.owner = o
Settled(s) ==
    /\ \A w \in Writer : phase[w] # "announcing" /\ sends[w] = <<>>
    /\ tasks = {} /\ mailbox[s] = <<>>
NothingMissed ==
    \A s \in Subscriber : Settled(s) =>
        \A n \in audience[s] \ dropped :
            Decidable(log[n], request[s]) /\ Wanted(log[n], request[s]) =>
                \E i \in DOMAIN received[s] : received[s][i].n = n

(* A writer whose block ends without an exception has its changes kept: a   *)
(* notification that fails never undoes a write behind the back of the code *)
(* that made it.                                                            *)
SuccessIsKept ==
    [][\A n \in DOMAIN log : fate[n] = "pending" /\ fate'[n] = "undone" =>
          phase[log[n].by] = "raising"]_vars
=============================================================================
