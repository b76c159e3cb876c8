---------------------------- MODULE WSConnection ----------------------------
(***************************************************************************)
(* One graphql-transport-ws socket: _SubscriptionWSConsumer of              *)
(* subscriptions/transports/ws.py.                                          *)
(*                                                                          *)
(* Channels hands the consumer one inbound message after the other; the     *)
(* dispatcher waits inside a handler while it cancels operations.  Beside   *)
(* it run the init watchdog, the on_connect callback's task, one task per   *)
(* operation, and the done callbacks of those tasks.  Code between two      *)
(* awaits is one step.  A source is ChannelSource's, seen from outside: its *)
(* task may hold memberships from the first group_add until aclose() ends,  *)
(* and its next frames, which change nothing here, are not modelled.        *)
(***************************************************************************)
EXTENDS Naturals, FiniteSets

CONSTANTS
    Id,   \* operation ids the client uses
    Task, \* bound: tasks of operations that exist at the same time
    None, \* neither an operation id nor a task
    Cap   \* MAX_SUBSCRIPTIONS_PER_CONNECTION

ASSUME ConnectionAssumption ==
    /\ IsFiniteSet(Id) /\ IsFiniteSet(Task)
    /\ None \notin Id \cup Task
    /\ Cap \in Nat

VARIABLES
    onConnect,  \* whether the consumer was built with on_connect
    acked,      \* _acked
    closing,    \* _closing
    timer,      \* whether _init_timer is still sleeping
    auth,       \* _init_task: "none", "running", "cancelled" (requested), "done"
    socket,     \* "open", "closed" (by the server), "gone" (disconnect handled)
    handler,    \* what the dispatcher is waiting in
    rest,       \* ids the running teardown has not cancelled yet
    awaited,    \* the task the dispatcher awaits, or None
    operations, \* _operations: id -> task, or None
    sources,    \* _sources: id -> the task whose source it is, or None
    opId,       \* task -> its operation id
    pc,         \* task -> where it is
    cancelReq,  \* task -> task.cancel() was called and is not delivered yet
    terminal    \* history: task -> the last terminal frame sent for it

handshake == <<onConnect, acked, timer, auth>>
dispatch == <<socket, handler, rest, awaited>>
registry == <<operations, sources>>
tasks == <<opId, pc, cancelReq, terminal>>
vars == <<onConnect, acked, closing, timer, auth, socket, handler, rest, awaited,
          operations, sources, opId, pc, cancelReq, terminal>>

(* "ending" and "aborting" are the finally of _run_operation, after the     *)
(* stream ended on its own and after a cancellation; "completing" and       *)
(* "failing" are about to send complete, the latter with a close_error,     *)
(* which "raising" then raises.  A task is "done" until its callback ran.   *)
PCs == {"unused", "starting", "streaming", "ending", "aborting", "completing",
        "failing", "raising", "done"}
Ended == {"unused", "done"}

TypeOK ==
    /\ onConnect \in BOOLEAN /\ acked \in BOOLEAN /\ closing \in BOOLEAN
    /\ timer \in BOOLEAN
    /\ auth \in {"none", "running", "cancelled", "done"}
    /\ socket \in {"open", "closed", "gone"}
    /\ handler \in {"idle", "complete", "close", "disconnect"}
    /\ rest \in SUBSET Id
    /\ awaited \in Task \cup {None}
    /\ operations \in [Id -> Task \cup {None}]
    /\ sources \in [Id -> Task \cup {None}]
    /\ opId \in [Task -> Id \cup {None}]
    /\ pc \in [Task -> PCs]
    /\ cancelReq \in [Task -> BOOLEAN]
    /\ terminal \in [Task -> {"none", "complete", "error"}]

-----------------------------------------------------------------------------
(* Tearing down.                                                            *)

LiveIds == {i \in Id : operations[i] # None}

(* What _close and disconnect do before their first await. *)
StartClosing ==
    /\ closing' = TRUE
    /\ timer' = FALSE
    /\ auth' = IF auth = "running" THEN "cancelled" ELSE auth

(* _close from a message handler: later frames are ignored, every operation *)
(* is cancelled and awaited, then the socket is closed.                     *)
CloseFromHandler ==
    /\ StartClosing
    /\ handler' = "close"
    /\ rest' = LiveIds
    /\ UNCHANGED <<onConnect, acked, socket, awaited, registry, tasks>>

(* _close from the watchdog or the callback's own task, which only run it   *)
(* before the ack: there is no operation yet to wait for.                   *)
CloseFromTask(authAfter) ==
    /\ closing' = TRUE
    /\ timer' = FALSE
    /\ auth' = authAfter
    /\ socket' = "closed"
    /\ UNCHANGED <<onConnect, acked, handler, rest, awaited, registry, tasks>>

(* One round of "await self._cancel_operation(op_id)". *)
CancelNextUncancelled == \* mutant: the task is awaited but not cancelled
    /\ handler # "idle"
    /\ awaited = None
    /\ \E i \in rest :
          /\ rest' = rest \ {i}
          /\ awaited' = operations[i]
    /\ UNCHANGED <<handshake, closing, socket, handler, registry, tasks>>

CancelNext ==
    /\ handler # "idle"
    /\ awaited = None
    /\ \E i \in rest :
          /\ rest' = rest \ {i}
          /\ awaited' = operations[i]
          /\ cancelReq' = [t \in Task |->
                cancelReq[t] \/ (t = operations[i] /\ pc[t] \notin Ended)]
    /\ UNCHANGED <<handshake, closing, socket, handler, registry, opId, pc, terminal>>

(* What remains of a registry once the id that the task owns, if it still   *)
(* owns one, is popped.                                                     *)
Forget(map, t) == [i \in Id |-> IF operations[i] = t THEN None ELSE map[i]]

(* The awaited task has ended. *)
AwaitReturns ==
    /\ awaited # None
    /\ pc[awaited] \in Ended
    /\ awaited' = None
    /\ operations' = Forget(operations, awaited)
    /\ sources' = Forget(sources, awaited)
    /\ UNCHANGED <<handshake, closing, socket, handler, rest, tasks>>

(* The sweep of the sources that remain, and the end of the handler. *)
HandlerReturnsEarly == \* mutant: the cancelled tasks are not awaited
    /\ handler # "idle"
    /\ rest = {}
    /\ handler' = "idle"
    /\ IF handler = "complete"
       THEN UNCHANGED <<socket, sources>>
       ELSE /\ socket' = IF handler = "disconnect" THEN "gone" ELSE "closed"
            /\ sources' = [i \in Id |-> None]
    /\ UNCHANGED <<handshake, closing, rest, awaited, operations, tasks>>

HandlerReturns ==
    /\ handler # "idle"
    /\ rest = {} /\ awaited = None
    /\ handler' = "idle"
    /\ IF handler = "complete"
       THEN UNCHANGED <<socket, sources>>
       ELSE /\ socket' = IF handler = "disconnect" THEN "gone" ELSE "closed"
            /\ sources' = [i \in Id |-> None]
    /\ UNCHANGED <<handshake, closing, rest, awaited, operations, tasks>>

-----------------------------------------------------------------------------
(* Inbound messages.  Those that change nothing are left out: pings, frames *)
(* that arrive while closing, a complete for an unknown id, and a subscribe *)
(* that is refused with an error frame.                                     *)

Receives == handler = "idle" /\ socket = "open" /\ ~closing

Acknowledge == acked' = TRUE /\ timer' = FALSE

ConnectionInit ==
    /\ Receives
    /\ \/ (acked \/ (onConnect /\ auth # "none")) /\ CloseFromHandler
       \/ /\ ~acked /\ onConnect /\ auth = "none"
          /\ \/ CloseFromHandler \* the payload is not a mapping
             \/ /\ auth' = "running"
                /\ UNCHANGED <<onConnect, acked, timer, closing, dispatch, registry, tasks>>
       \/ /\ ~acked /\ ~onConnect
          /\ Acknowledge
          /\ UNCHANGED <<onConnect, auth, closing, dispatch, registry, tasks>>

(* Any frame that cannot be dispatched. *)
BadFrame == Receives /\ CloseFromHandler

AtCap == Cardinality(LiveIds) >= Cap

Register(i) ==
    /\ \E t \in Task :
          /\ pc[t] = "unused"
          /\ operations' = [operations EXCEPT ![i] = t]
          /\ opId' = [opId EXCEPT ![t] = i]
          /\ pc' = [pc EXCEPT ![t] = "starting"]
    /\ UNCHANGED <<handshake, closing, dispatch, sources, cancelReq, terminal>>

SubscribeReuses(i) == \* mutant: an id in use is taken over
    /\ Receives
    /\ \/ ~acked /\ CloseFromHandler
       \/ acked /\ ~AtCap /\ Register(i)

Subscribe(i) ==
    /\ Receives
    /\ \/ (~acked \/ operations[i] # None) /\ CloseFromHandler
       \/ acked /\ operations[i] = None /\ ~AtCap /\ Register(i)

Complete(i) ==
    /\ Receives
    /\ operations[i] # None
    /\ handler' = "complete"
    /\ rest' = {i}
    /\ UNCHANGED <<handshake, closing, socket, awaited, registry, tasks>>

(* websocket.disconnect: also after the server has closed the socket. *)
Disconnect ==
    /\ handler = "idle"
    /\ socket # "gone"
    /\ StartClosing
    /\ handler' = "disconnect"
    /\ rest' = LiveIds
    /\ UNCHANGED <<onConnect, acked, socket, awaited, registry, tasks>>

-----------------------------------------------------------------------------
(* The watchdog and the on_connect callback.                                *)

InitTimeout ==
    /\ timer
    /\ ~acked /\ ~closing
    /\ CloseFromTask(IF auth = "running" THEN "cancelled" ELSE auth)

(* The callback returns or raises; one that was cancelled may still return. *)
CallbackReturnsUnchecked == \* mutant: _closing is not tested after the callback
    /\ auth \in {"running", "cancelled"}
    /\ \/ /\ auth' = "done"
          /\ Acknowledge
          /\ UNCHANGED <<onConnect, closing, dispatch, registry, tasks>>
       \/ CloseFromTask("done")

CallbackReturns ==
    /\ auth \in {"running", "cancelled"}
    /\ \/ /\ closing
          /\ auth' = "done"
          /\ UNCHANGED <<onConnect, acked, timer, closing, dispatch, registry, tasks>>
       \/ /\ ~closing
          /\ auth' = "done"
          /\ Acknowledge
          /\ UNCHANGED <<onConnect, closing, dispatch, registry, tasks>>
       \/ ~closing /\ CloseFromTask("done")

-----------------------------------------------------------------------------
(* The task of an operation.                                                *)

Goto(t, label) == pc' = [pc EXCEPT ![t] = label]
Send(t, frame) == terminal' = [terminal EXCEPT ![t] = frame]

(* An invalid document, a denial, a source that does not start. *)
StartFails(t) ==
    /\ pc[t] = "starting" /\ ~cancelReq[t]
    /\ Send(t, "error")
    /\ Goto(t, "done")
    /\ UNCHANGED <<handshake, closing, dispatch, registry, opId, cancelReq>>

SourceStarts(t) ==
    /\ pc[t] = "starting" /\ ~cancelReq[t]
    /\ Goto(t, "streaming")
    /\ sources' = [sources EXCEPT ![opId[t]] = t]
    /\ UNCHANGED <<handshake, closing, dispatch, operations, opId, cancelReq, terminal>>

(* Cancelled before it ran or while the source starts, which then leaves    *)
(* the groups it has joined.                                                *)
StartCancelled(t) ==
    /\ pc[t] = "starting" /\ cancelReq[t]
    /\ Goto(t, "done")
    /\ UNCHANGED <<handshake, closing, dispatch, registry, opId, cancelReq, terminal>>

(* The delivery stops, or raises and the failure is sent as a next frame.   *)
StreamEnds(t) ==
    /\ pc[t] = "streaming" /\ ~cancelReq[t]
    /\ Goto(t, "ending")
    /\ UNCHANGED <<handshake, closing, dispatch, registry, opId, cancelReq, terminal>>

StreamCancelled(t) ==
    /\ pc[t] = "streaming" /\ cancelReq[t]
    /\ Goto(t, "aborting")
    /\ cancelReq' = [cancelReq EXCEPT ![t] = FALSE]
    /\ UNCHANGED <<handshake, closing, dispatch, registry, opId, terminal>>

(* aclose() has returned, or raised: in either case the source is forgotten,*)
(* and an operation that ended on its own gives up its id.                  *)
FreesIdOnly(t, next) == \* mutant: the source is not popped in the finally
    /\ Goto(t, next)
    /\ UNCHANGED sources
    /\ operations' = [operations EXCEPT ![opId[t]] = None]

SourceGone(t) == sources' = [sources EXCEPT ![opId[t]] = None]
FreesId(t, next) ==
    /\ Goto(t, next)
    /\ SourceGone(t)
    /\ operations' = [operations EXCEPT ![opId[t]] = None]

EndingClosed(t) ==
    /\ pc[t] = "ending" /\ ~cancelReq[t]
    /\ FreesId(t, "completing") \/ FreesId(t, "failing")
    /\ UNCHANGED <<handshake, closing, dispatch, opId, cancelReq, terminal>>

(* A failure of aclose() replaces the cancellation and is framed. *)
AbortingClosed(t) ==
    /\ pc[t] = "aborting"
    /\ SourceGone(t)
    /\ Goto(t, "done")
    /\ UNCHANGED terminal \/ Send(t, "error")
    /\ UNCHANGED <<handshake, closing, dispatch, operations, opId, cancelReq>>

(* Cancelled inside aclose(): nothing is sent. *)
EndingCancelled(t) ==
    /\ pc[t] = "ending" /\ cancelReq[t]
    /\ SourceGone(t)
    /\ Goto(t, "done")
    /\ UNCHANGED <<handshake, closing, dispatch, operations, opId, cancelReq, terminal>>

SendsCompleteUnlessFailing(t) == \* mutant: a failed close is raised first
    /\ pc[t] \in {"completing", "failing"}
    /\ IF pc[t] = "failing"
       THEN Goto(t, "raising") /\ UNCHANGED terminal
       ELSE Goto(t, "done") /\ Send(t, "complete")
    /\ UNCHANGED <<handshake, closing, dispatch, registry, opId, cancelReq>>

SendsComplete(t) ==
    /\ pc[t] \in {"completing", "failing"}
    /\ Send(t, "complete")
    /\ Goto(t, IF pc[t] = "failing" THEN "raising" ELSE "done")
    /\ UNCHANGED <<handshake, closing, dispatch, registry, opId, cancelReq>>

(* "raise close_error": _run_operation_framed frames it. *)
RaisesCloseError(t) ==
    /\ pc[t] = "raising"
    /\ Send(t, "error")
    /\ Goto(t, "done")
    /\ UNCHANGED <<handshake, closing, dispatch, registry, opId, cancelReq>>

(* _operation_done removes the entry only if it is still this task's.  The  *)
(* task is then no more, and its name can stand for another one.            *)
Vanish(t) ==
    /\ Goto(t, "unused")
    /\ opId' = [opId EXCEPT ![t] = None]
    /\ cancelReq' = [cancelReq EXCEPT ![t] = FALSE]
    /\ Send(t, "none")

DoneCallbackById(t) == \* mutant: removes whoever owns the id now
    /\ pc[t] = "done"
    /\ operations' = [operations EXCEPT ![opId[t]] = None]
    /\ Vanish(t)
    /\ UNCHANGED <<handshake, closing, dispatch, sources>>

DoneCallback(t) ==
    /\ pc[t] = "done"
    /\ operations' = Forget(operations, t)
    /\ Vanish(t)
    /\ UNCHANGED <<handshake, closing, dispatch, sources>>

-----------------------------------------------------------------------------
Init ==
    /\ onConnect \in BOOLEAN
    /\ acked = FALSE /\ closing = FALSE /\ timer = TRUE /\ auth = "none"
    /\ socket = "open" /\ handler = "idle" /\ rest = {} /\ awaited = None
    /\ operations = [i \in Id |-> None]
    /\ sources = [i \in Id |-> None]
    /\ opId = [t \in Task |-> None]
    /\ pc = [t \in Task |-> "unused"]
    /\ cancelReq = [t \in Task |-> FALSE]
    /\ terminal = [t \in Task |-> "none"]

Handler == CancelNext \/ AwaitReturns \/ HandlerReturns

(* The steps of a task that nobody outside the process can hold up. *)
Teardown(t) ==
    StartCancelled(t) \/ StreamCancelled(t) \/ EndingClosed(t) \/ EndingCancelled(t)
    \/ AbortingClosed(t) \/ SendsComplete(t) \/ RaisesCloseError(t) \/ DoneCallback(t)

Next ==
    \/ ConnectionInit \/ BadFrame \/ Disconnect
    \/ \E i \in Id : Subscribe(i) \/ Complete(i)
    \/ InitTimeout \/ CallbackReturns \/ Handler
    \/ \E t \in Task : StartFails(t) \/ SourceStarts(t) \/ StreamEnds(t) \/ Teardown(t)

Spec == Init /\ [][Next]_vars

(* The loop runs what is ready: a requested cancellation is delivered, a    *)
(* close of a source ends, a frame is sent.  Nothing obliges an event to    *)
(* arrive, a source to start, the callback to return or a client to speak.  *)
FairSpec ==
    /\ Spec
    /\ WF_vars(Handler)
    /\ \A t \in Task : WF_vars(Teardown(t))

-----------------------------------------------------------------------------
(* Properties.                                                              *)

(* The tasks whose channel may be in a group. *)
HasSource(t) == pc[t] \in {"streaming", "ending", "aborting"}
Holds(t) == pc[t] = "starting" \/ HasSource(t)

(* Teardown reaches everything: a task that may hold memberships is the     *)
(* registered owner of its id, its source is registered under the same id,  *)
(* and nothing else is, so the defensive sweeps find nothing.  An id never  *)
(* has two live subscriptions, however completion, cancellation, done       *)
(* callbacks and a client that reuses the id interleave.                    *)
RegistrySound ==
    /\ \A t \in Task : Holds(t) => operations[opId[t]] = t
    /\ \A t \in Task : HasSource(t) => sources[opId[t]] = t
    /\ \A i \in Id : sources[i] # None => HasSource(sources[i]) /\ opId[sources[i]] = i

(* MAX_SUBSCRIPTIONS_PER_CONNECTION bounds what one socket has joined, and  *)
(* not only the size of the registry.                                       *)
HeldWithinCap == Cardinality({t \in Task : Holds(t)}) <= Cap

(* Once the server has closed the socket or handled the disconnect, no task *)
(* streams or holds a group; an unacknowledged socket never had one.        *)
ClosedMeansTornDown == socket # "open" \/ ~acked => \A t \in Task : ~Holds(t)

(* An init that was still being verified when the socket began to close is  *)
(* not acknowledged after all.                                              *)
NoLateAck == [][~acked /\ acked' => ~closing /\ socket = "open"]_vars

(* The docs: "After the server sends complete, it has finished this         *)
(* operation's source cleanup attempt and released its ID slot"; and it     *)
(* sends none for an operation that the client completed first.             *)
CompleteAfterCleanup ==
    [][\A t \in Task : terminal[t] # "complete" /\ terminal'[t] = "complete" =>
          /\ \A i \in Id : operations[i] # t /\ sources[i] # t
          /\ ~cancelReq[t]]_vars

(* Closing terminates: no task and no handler waits for another for ever.   *)
ClosingEnds ==
    closing ~> socket # "open" /\ \A t \in Task : pc[t] = "unused"

(* A client is not left with a stream that went quiet: an operation that    *)
(* ended on its own is completed, unless it was cancelled meanwhile.        *)
EndIsSignalled ==
    \A t \in Task : pc[t] = "ending" ~> terminal[t] = "complete" \/ cancelReq[t]
=============================================================================
