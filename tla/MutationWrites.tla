-------------------------- MODULE MutationWrites ---------------------------
(***************************************************************************)
(* The transactions of a mutation request: the entries of a batch (views.py *)
(* _dispatch_with_csrf_cookie), the root fields of an operation             *)
(* (execute_graphql_request), the rows of a nested write (nested.py) and    *)
(* the statements of one save (core/backend.py).                            *)
(*                                                                          *)
(* One connection serves the request.  Django's atomic blocks are external: *)
(* a block that is left with an exception, or marked for rollback, restores *)
(* what it found; a statement that fails inside a block leaves the          *)
(* connection unusable until a block around it is undone.                   *)
(***************************************************************************)
EXTENDS NestedRules, Sequences, SequencesExt

CONSTANTS
    Requests   \* batches of operations of root fields that clients send

(* A root field is a create, an update or a delete of a row, with its       *)
(* payload in the order it is written, or a field of the application.       *)
Root == [op : {"create", "update", "delete", "custom"}, items : Seq(Item)]
Outcome == {"waiting", "ok", "refused", "error", "late", "flagged", "unusable", "skipped"}

(* The targets of foreign keys are written first, then the row itself, then *)
(* its other children; one many-to-many relation is in the model.  A delete  *)
(* is the removal of one row.                                               *)
Place(kind) == IF kind \in {"forward", "plain"} THEN 1 ELSE IF kind = "parent" THEN 2 ELSE 3
InOrder(items) ==
    /\ \E k \in DOMAIN items : items[k].kind = "parent"
    /\ \A k \in DOMAIN items : items[k].kind # "delete"
    /\ \A j, k \in DOMAIN items : j < k =>
          /\ Place(items[j].kind) <= Place(items[k].kind)
          /\ items[j].kind = "parent" => items[k].kind # "parent"
          /\ items[j].kind = "add" => items[k].kind # "m2m"
    /\ (\E k \in DOMAIN items : items[k].kind = "add") =>
          \E k \in DOMAIN items : items[k].kind = "m2m"
Planned(root) ==
    /\ root.op \in {"create", "update"} => InOrder(root.items)
    /\ root.op = "delete" => Len(root.items) = 1 /\ root.items[1].kind = "delete"
    /\ root.op = "custom" => root.items = <<>>
    /\ \A k \in DOMAIN root.items :
          /\ root.items[k].kind \in {"parent", "add", "delete"} => root.items[k].pk = None
          /\ root.items[k].kind = "plain" => root.items[k].pk # None

ASSUME MutationWritesAssumption ==
    /\ Parent \subseteq (Nat \ {0}) \X (Nat \ {0})
    /\ None \notin {"nested", "integrity", "error", "unusable"}
    /\ \A q \in Requests : q.batch \in BOOLEAN /\ q.entries \in Seq(Seq(Root))
    /\ \A q \in Requests : q.batch \/ Len(q.entries) = 1
    /\ \A q \in Requests : \A e \in DOMAIN q.entries : \A r \in DOMAIN q.entries[e] :
          <<e, r>> \in Parent /\ Planned(q.entries[e][r])

VARIABLES
    atomic,   \* the settings: ATOMIC_REQUESTS, ATOMIC_MUTATIONS
    request,  \* the batch
    at,       \* <<entry, root field>> being executed
    phase,
    left,     \* the number of items the root field has still to write
    joining,  \* many-to-many children that are to be linked
    raising,  \* the exception on its way, or None
    db,       \* what the connection sees: writes and tables
    blocks,   \* open atomic blocks, the outermost first
    broken,   \* a statement failed since the last savepoint
    doomed,   \* set_rollback on the innermost block
    flag,     \* the request's mutation error flag
    failed,   \* the operation has GraphQL errors
    outcome,  \* root field -> how it ended
    marked,   \* the request's mark that work may be durable
    wrote,    \* history: statements that succeeded
    before    \* history: the tables as the root field found them

transaction == <<db, blocks, broken, doomed>>
progress == <<left, joining>>
vars == <<atomic, request, at, phase, left, joining, raising, db, blocks, broken, doomed,
          flag, failed, outcome, marked, wrote, before>>

(* A write is named by its root field, the item and the statement.          *)
Database == [saved : SUBSET (Parent \X Nat \X {1, 2}), tables : Tables,
             touched : SUBSET (Parent \X Kind \X Child)]
Block == [tag : {"request", "entry", "mutation", "nested", "save"}, saved : Database]

TypeOK ==
    /\ atomic \in [requests : BOOLEAN, mutations : BOOLEAN]
    /\ request \in Requests
    /\ at \in Nat \X Nat
    /\ phase \in {"entry", "operation", "root", "item", "second", "leave", "diagnose",
                  "unwind", "reread", "exit", "finish", "done"}
    /\ left \in Nat /\ joining \subseteq Child
    /\ raising \in {None, "nested", "integrity", "error", "unusable"}
    /\ db \in Database
    /\ blocks \in Seq(Block)
    /\ broken \in BOOLEAN /\ doomed \in BOOLEAN /\ flag \in BOOLEAN
    /\ failed \in BOOLEAN /\ marked \in BOOLEAN
    /\ outcome \in [Parent -> Outcome]
    /\ wrote \subseteq Parent \X Nat \X {1, 2}
    /\ before \in Tables

-----------------------------------------------------------------------------
Roots == request.entries[at[1]]
Items == Roots[at[2]].items
Index == Len(Items) + 1 - left
Current == Items[Index]

Usable == ~broken /\ ~doomed
Durable == IF blocks = <<>> THEN db ELSE blocks[1].saved

Opened(tag) == Append(blocks, [tag |-> tag, saved |-> db])

(* Leaving the innermost block: kept, or undone down to what it found.      *)
Leave(kept) ==
    /\ blocks' = Front(blocks)
    /\ db' = IF kept THEN db ELSE Last(blocks).saved
    /\ broken' = (kept /\ broken)
    /\ doomed' = FALSE

Ends(how) ==
    /\ outcome' = [outcome EXCEPT ![at] = how]
    /\ failed' = (failed \/ how \in {"error", "late", "unusable"})
    /\ at' = <<at[1], at[2] + 1>>
    /\ phase' = "root"

-----------------------------------------------------------------------------
(* Entries and operations.                                                  *)

(* Each item of a batch has a savepoint of its own if the request is in a   *)
(* transaction, and starts with a clean flag.                               *)
ItemSavepointsNone == blocks \* mutant: the items of a batch share the transaction
ItemSavepoints ==
    IF request.batch /\ atomic.requests THEN Opened("entry") ELSE blocks

EnterEntry ==
    /\ phase = "entry"
    /\ IF at[1] <= Len(request.entries)
       THEN /\ blocks' = ItemSavepoints
            /\ flag' = IF request.batch THEN FALSE ELSE flag
            /\ failed' = FALSE
            /\ phase' \in {"operation", "exit"}
            /\ outcome' = [p \in Parent |-> IF p[1] = at[1] /\ phase' = "exit"
                                            THEN "skipped" ELSE outcome[p]]
       ELSE /\ phase' = "finish"
            /\ UNCHANGED <<blocks, flag, failed, outcome>>
    /\ UNCHANGED <<atomic, request, at, progress, raising, db, broken, doomed, marked,
                   wrote, before>>

MarkedBeforeNever == marked \* mutant: only a mutation that succeeds marks the request
MarkedBefore == marked \/ ~atomic.mutations

(* execute_graphql_request marks the request before the execution unless    *)
(* the mutation is atomic.                                                  *)
BeginOperation ==
    /\ phase = "operation"
    /\ phase' = "root"
    /\ marked' = MarkedBefore
    /\ blocks' = IF atomic.mutations THEN Opened("mutation") ELSE blocks
    /\ UNCHANGED <<atomic, request, at, progress, raising, db, broken, doomed, flag, failed,
                   outcome, wrote, before>>

RollsBack == flag \/ failed

EndOperation ==
    /\ phase = "root" /\ at[2] > Len(Roots)
    /\ phase' = "exit"
    /\ IF atomic.mutations
       THEN Leave(~RollsBack) /\ marked' = (marked \/ ~RollsBack)
       ELSE UNCHANGED <<transaction, marked>>
    /\ UNCHANGED <<atomic, request, at, progress, raising, flag, failed, outcome, wrote,
                   before>>

(* get_response marks the innermost block for rollback, and the item's      *)
(* savepoint or the request's transaction is left.                          *)
ExitEntry ==
    /\ phase = "exit"
    /\ phase' = "entry"
    /\ at' = <<at[1] + 1, 1>>
    /\ LET dooms == atomic.requests /\ (flag \/ failed)
       IN  IF blocks # <<>> /\ Last(blocks).tag = "entry"
           THEN Leave(~dooms)
           ELSE doomed' = dooms /\ UNCHANGED <<db, blocks, broken>>
    /\ UNCHANGED <<atomic, request, progress, raising, flag, failed, outcome, marked, wrote,
                   before>>

Finish ==
    /\ phase = "finish"
    /\ phase' = "done"
    /\ IF blocks # <<>> THEN Leave(~doomed) ELSE UNCHANGED transaction
    /\ UNCHANGED <<atomic, request, at, progress, raising, flag, failed, outcome, marked,
                   wrote, before>>

-----------------------------------------------------------------------------
(* One root field.                                                          *)

HasNestedWork(items) ==
    \E i \in DOMAIN items : items[i].kind \in {"forward", "reverse", "m2m"}

NestedBoundaryNone == blocks \* mutant: a nested write is not a transaction
NestedBoundary == IF HasNestedWork(Items) THEN Opened("nested") ELSE blocks

(* The field is denied, its row is not found, an id in the payload is not   *)
(* visible, or its writes begin.  A field of the application sets the flag, *)
(* raises or returns.                                                       *)
BeginRoot ==
    /\ phase = "root" /\ at[2] <= Len(Roots)
    /\ before' = db.tables
    /\ \/ /\ Ends("error")
          /\ UNCHANGED <<blocks, left, flag>>
       \/ /\ Roots[at[2]].op # "custom" /\ ~Usable
          /\ Ends("unusable")
          /\ UNCHANGED <<blocks, left, flag>>
       \/ /\ Usable
          /\ Roots[at[2]].op \in {"update", "delete"}
             \/ \E i \in DOMAIN Items : ~LinkIsVisible(db.tables, at, Items[i])
          /\ Ends("refused")
          /\ UNCHANGED <<blocks, left, flag>>
       \/ /\ Roots[at[2]].op = "custom"
          /\ \E how \in {"ok", "flagged"} :
                Ends(how) /\ flag' = (flag \/ how = "flagged")
          /\ UNCHANGED <<blocks, left>>
       \/ /\ Roots[at[2]].op # "custom" /\ Usable
          /\ \A i \in DOMAIN Items : LinkIsVisible(db.tables, at, Items[i])
          /\ blocks' = NestedBoundary
          /\ left' = Len(Items)
          /\ phase' = "item"
          /\ UNCHANGED <<at, outcome, failed, flag>>
    /\ UNCHANGED <<atomic, request, joining, raising, db, broken, doomed, marked, wrote>>

Raise(what) == raising' = what /\ phase' = "unwind"

(* A key in the payload names a row that is not there.  The database finds  *)
(* out with the statement, or, inside a block, when it checks constraints.  *)
MissingKey == \E i \in DOMAIN Items :
    /\ Items[i].kind \in {"forward", "plain"} /\ Items[i].pk # None
    /\ ~Exists(db.tables, Items[i].pk)
Violates == Current.kind = "parent" /\ MissingKey

(* A statement is refused by a connection that is broken or doomed, and may *)
(* fail.                                                                    *)
Statement(n, tables, touched) ==
    \/ /\ Usable
       /\ Violates => blocks' # <<>>
       /\ db' = [saved |-> db.saved \cup {<<at, Index, n>>}, tables |-> tables,
                 touched |-> db.touched \cup touched]
       /\ wrote' = wrote \cup {<<at, Index, n>>}
       /\ UNCHANGED <<broken, raising>>
    \/ /\ Usable
       /\ broken' = (blocks' # <<>>)
       /\ Raise("integrity")
       /\ UNCHANGED <<db, wrote>>
    \/ /\ ~Usable
       /\ Raise("unusable")
       /\ UNCHANGED <<db, wrote, broken>>

(* What writing an item does to the tables; a created child has no id yet   *)
(* that a payload could name.                                               *)
Written(item) ==
    CASE item.kind = "parent" ->
            LET keys == {Items[i].pk : i \in {j \in DOMAIN Items :
                            Items[j].kind \in {"forward", "plain"}}} \ {None}
            IN  [db.tables EXCEPT !.key[at] = IF keys = {} THEN @ ELSE CHOOSE c \in keys : TRUE]
      [] item.kind = "reverse" /\ item.pk # None -> [db.tables EXCEPT !.owner[item.pk] = at]
      [] OTHER -> db.tables

SaveBoundaryManyOnly == \* mutant: no savepoint inside an outer transaction
    IF Current.set THEN Opened("save") ELSE blocks
SaveBoundary == IF blocks # <<>> \/ Current.set THEN Opened("save") ELSE blocks

Skip == left' = left - 1

(* save_object: the first statement; the links of a many-to-many field that *)
(* the payload sets are a second one, and a block ends with the check of    *)
(* what was written.                                                        *)
Save ==
    /\ blocks' = SaveBoundary
    /\ Statement(1, Written(Current),
                 IF Current.kind # "parent" /\ Current.pk # None
                 THEN {<<at, Current.kind, Current.pk>>} ELSE {})
    /\ \/ raising' # None /\ UNCHANGED left
       \/ /\ raising' = None
          /\ phase' = IF Current.set THEN "second"
                      ELSE IF blocks' # blocks THEN "leave" ELSE "item"
          /\ IF phase' = "item" THEN Skip ELSE UNCHANGED left

WriteItem ==
    /\ phase = "item" /\ left > 0
    /\ Current.kind \notin {"add", "delete"}
    /\ LET decision == IF Current.kind = "parent" THEN "update"
                       ELSE Decide(db.tables, at, Current)
       IN  \/ /\ decision \in {"create", "update"}
              /\ Save
              /\ joining' = IF Current.kind = "m2m" THEN joining \cup ({Current.pk} \ {None})
                            ELSE joining
              /\ UNCHANGED doomed
           \/ /\ decision \in {"create", "update"}
              /\ \/ Raise("nested")                                \* invalid payload
                 \/ Current.kind # "parent" /\ Raise("error")     \* denied by the child's host
              /\ UNCHANGED <<transaction, progress, wrote>>
           \/ /\ decision = "link"
              /\ joining' = IF Current.kind = "m2m" THEN joining \cup {Current.pk} ELSE joining
              /\ Skip
              /\ UNCHANGED <<transaction, phase, raising, wrote>>
           \/ /\ decision \in {"invalid pk", "not found", "not yours", "no adoption"}
              /\ Raise("nested")
              /\ UNCHANGED <<transaction, progress, wrote>>
    /\ UNCHANGED <<atomic, request, at, flag, failed, outcome, marked, before>>

(* manager.add, after the children of a many-to-many field.                 *)
AddLinks ==
    /\ phase = "item" /\ left > 0
    /\ Current.kind = "add"
    /\ UNCHANGED <<blocks, doomed>>
    /\ Statement(1, [db.tables EXCEPT !.links = @ \cup {<<at, c>> : c \in joining}], {})
    /\ IF raising' = None THEN Skip /\ joining' = {} /\ UNCHANGED phase
       ELSE UNCHANGED progress
    /\ UNCHANGED <<atomic, request, at, flag, failed, outcome, marked, before>>

(* Model.delete checks protected relations before it writes, and has no     *)
(* savepoint: a statement that fails gives up the transaction around it.    *)
Delete ==
    /\ phase = "item" /\ left > 0
    /\ Current.kind = "delete"
    /\ \/ /\ Raise("error")
          /\ UNCHANGED <<transaction, progress, wrote>>
       \/ /\ UNCHANGED <<blocks, doomed, joining>>
          /\ Statement(1, db.tables, {})
          /\ IF raising' = None THEN Skip /\ UNCHANGED phase ELSE UNCHANGED left
    /\ UNCHANGED <<atomic, request, at, flag, failed, outcome, marked, before>>

SecondStatement ==
    /\ phase = "second"
    /\ UNCHANGED <<blocks, doomed>>
    /\ Statement(2, db.tables, {})
    /\ raising' = None => phase' = "leave"
    /\ UNCHANGED <<atomic, request, at, progress, flag, failed, outcome, marked, before>>

(* The check of constraints that the database defers, and the release.      *)
LeaveSave ==
    /\ phase = "leave"
    /\ \/ /\ ~Violates
          /\ Leave(TRUE) /\ Skip /\ phase' = "item" /\ UNCHANGED raising
       \/ Raise("integrity") /\ UNCHANGED <<transaction, left>>
    /\ UNCHANGED <<atomic, request, at, joining, flag, failed, outcome, marked, wrote,
                   before>>

(* An exception leaves the save, and then the nested write.                 *)
Unwind ==
    /\ phase = "unwind"
    /\ IF blocks # <<>> /\ Last(blocks).tag = "save"
       THEN /\ Leave(FALSE)
            /\ phase' = IF raising = "integrity" THEN "diagnose" ELSE phase
            /\ UNCHANGED <<at, raising, outcome, failed, progress>>
       ELSE IF raising = "integrity" /\ Current.kind \notin {"add", "delete"}
       THEN /\ phase' = "diagnose"
            /\ UNCHANGED <<transaction, at, raising, outcome, failed, progress>>
       ELSE /\ IF blocks # <<>> /\ Last(blocks).tag = "nested"
               THEN Leave(FALSE) ELSE UNCHANGED transaction
            /\ Ends(IF raising = "nested" THEN "refused"
                    ELSE IF raising = "unusable" THEN "unusable" ELSE "error")
            /\ raising' = None /\ left' = 0 /\ joining' = {}
    /\ UNCHANGED <<atomic, request, flag, marked, wrote, before>>

(* _db_check_errors reads the database to find out which field is to blame. *)
Diagnose ==
    /\ phase = "diagnose"
    /\ phase' = "unwind"
    /\ raising' \in IF ~Usable THEN {"unusable"}
                   ELSE IF Violates THEN {"nested"} ELSE {"nested", "error"}
    /\ UNCHANGED <<atomic, request, at, progress, transaction, flag, failed, outcome, marked,
                   wrote, before>>

EndWrites ==
    /\ phase = "item" /\ left = 0
    /\ phase' = "reread"
    /\ IF blocks # <<>> /\ Last(blocks).tag = "nested"
       THEN Leave(TRUE) ELSE UNCHANGED transaction
    /\ UNCHANGED <<atomic, request, at, progress, raising, flag, failed, outcome, marked,
                   wrote, before>>

(* perform_mutate reads the row again, and the selection is resolved: both  *)
(* may raise after everything was written.                                  *)
Reread ==
    /\ phase = "reread"
    /\ Ends(IF Usable THEN "ok" ELSE "unusable") \/ Ends("late")
    /\ UNCHANGED <<atomic, request, progress, raising, transaction, flag, marked, wrote,
                   before>>

Init ==
    /\ atomic \in [requests : BOOLEAN, mutations : BOOLEAN]
    /\ request \in Requests
    /\ at = <<1, 1>>
    /\ phase = "entry"
    /\ left = 0 /\ joining = {}
    /\ raising = None
    /\ db \in [saved : {{}}, touched : {{}},
               tables : {t \in Tables :
                   /\ ~t.hosts => t.hostHides = {}
                   /\ ~t.scopedType => t.outputHides = {}
                   /\ \A p \in Parent, c \in Child : (t.key[p] = c \/ Linked(t, p, c)) =>
                          /\ p = <<1, 1>> /\ request.entries[1][1].op = "update"
                          /\ t.owner[c] # Absent}]
    /\ \A c \in Child : db.tables.owner[c] \in Parent =>
          db.tables.owner[c] = <<1, 1>> /\ request.entries[1][1].op = "update"
    /\ blocks = IF atomic.requests THEN <<[tag |-> "request", saved |-> db]>> ELSE <<>>
    /\ broken = FALSE /\ doomed = FALSE
    /\ flag = FALSE /\ failed = FALSE /\ marked = FALSE
    /\ outcome = [p \in Parent |-> "waiting"]
    /\ wrote = {}
    /\ before = db.tables

Next ==
    \/ EnterEntry \/ BeginOperation \/ EndOperation \/ ExitEntry \/ Finish
    \/ BeginRoot \/ WriteItem \/ AddLinks \/ Delete \/ SecondStatement \/ LeaveSave
    \/ Unwind \/ Diagnose \/ EndWrites \/ Reread

Spec == Init /\ [][Next]_vars

-----------------------------------------------------------------------------
Of(p, writes) == {x \in writes : x[1] = p}

(* At no time, so also if the process dies, does the database hold a part   *)
(* of what a root field writes: the children without their parent, the      *)
(* parent without its links, or what a refused or failed save had begun.    *)
AllOrNothing ==
    \A p \in Parent : Of(p, Durable.saved) # {} =>
        /\ Of(p, Durable.saved) = Of(p, wrote)
        /\ outcome[p] \in {"ok", "late"} \/ (p = at /\ left = 0)

(* When the request has been answered, a root field's writes are kept       *)
(* exactly if it wrote, and no error of its own operation undid them with   *)
(* ATOMIC_REQUESTS or ATOMIC_MUTATIONS.  Refused siblings and other entries *)
(* of the batch have no say.                                                *)
Undone(e) ==
    /\ atomic.requests \/ atomic.mutations
    /\ \E p \in Parent : p[1] = e /\ outcome[p] \in {"error", "late", "flagged", "unusable"}
Kept(p) == outcome[p] \in {"ok", "late"} /\ ~Undone(p[1])
KeptAsAnswered ==
    phase = "done" =>
        \A p \in Parent : Of(p, db.saved) = IF Kept(p) THEN Of(p, wrote) ELSE {}

(* A failed save is undone before anything is read, and nothing is written  *)
(* after a transaction was given up: the error of an unusable connection    *)
(* replaces a root field's own answer only behind a delete that failed, and *)
(* whose operation is undone anyway.                                        *)
ErrorsAreTheirOwn ==
    \A p \in Parent : outcome[p] = "unusable" =>
        \E r \in 1..(p[2] - 1) : /\ request.entries[p[1]][r].op = "delete"
                                 /\ outcome[<<p[1], r>>] = "error"
                                 /\ Undone(p[1])

(* Whatever reached the database marks the request, so that the response    *)
(* cache is invalidated.                                                    *)
DurableIsMarked == phase = "done" /\ db.saved # {} => marked

(* An existing row is rewritten only if the parent owned, linked or named   *)
(* it before, or adopts an orphan that a host may update, and only if the   *)
(* scopes of its hosts and its output type show it.                         *)
MayRewrite(kind, c) ==
    /\ ~Hidden(before, c, TRUE) /\ Exists(before, c)
    /\ kind = "reverse" => before.owner[c] = at \/ (before.owner[c] = Orphan /\ before.hosts)
    /\ kind = "forward" => before.key[at] = c
    /\ kind = "m2m" => Linked(before, at, c)
RewritesOwnRows == \A w \in db.touched : w[1] = at => MayRewrite(w[2], w[3])

(* An id that the parent is not linked with and that a caller may not see   *)
(* is answered like one that does not exist, except for a many-to-many id   *)
(* that the hosts hide and a scoped output type shows, whose answer differs.*)
HiddenLooksMissing ==
    phase = "root" /\ at[2] <= Len(Roots) =>
        \A i \in DOMAIN Items : LooksMissing(db.tables, at, Items[i])
=============================================================================
