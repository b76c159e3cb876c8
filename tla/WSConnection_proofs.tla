------------------------ MODULE WSConnection_proofs ------------------------
(***************************************************************************)
(* Proofs about WSConnection: for any number of ids, operations and cap,    *)
(* the registries name exactly the tasks that hold something, the cap       *)
(* bounds what is held, closing reaches everything, and the frames of the   *)
(* handshake and of completion come in the right order.                     *)
(***************************************************************************)
EXTENDS WSConnection, FiniteSetTheorems, TLAPS

(* A registered task knows its id and still has something to end or has     *)
(* ended; one that is about to send complete has given up its id and can no *)
(* longer be cancelled.                                                     *)
Owners ==
    /\ \A i \in Id : operations[i] # None =>
          /\ opId[operations[i]] = i
          /\ pc[operations[i]] \in {"starting", "streaming", "ending", "aborting", "done"}
    /\ \A t \in Task : pc[t] # "unused" => opId[t] \in Id
    /\ \A t \in Task : pc[t] \in {"completing", "failing"} => ~cancelReq[t]

(* What a teardown has still to reach, and what it has reached when it is   *)
(* over; before the ack there is nothing to reach.                          *)
Reach ==
    /\ handler = "idle" => rest = {} /\ awaited = None
    /\ handler \in {"close", "disconnect"} =>
          \A i \in LiveIds : i \in rest \/ operations[i] = awaited
    /\ socket # "open" \/ ~acked => LiveIds = {}
    /\ handler \in {"close", "disconnect"} \/ socket # "open" => closing
    /\ auth \in {"running", "cancelled"} => ~acked
    /\ auth # "none" => onConnect

Inductive == TypeOK /\ RegistrySound /\ Owners /\ Reach

(* The inductive invariant holds initially. *)
LEMMA InitInductive == Init => Inductive
  <1> SUFFICES ASSUME Init PROVE Inductive
    OBVIOUS
  <1>1. TypeOK
    BY ConnectionAssumption DEF Init, TypeOK, PCs
  <1>2. RegistrySound
    BY DEF Init, RegistrySound, Holds, HasSource
  <1>3. Owners
    BY DEF Init, Owners
  <1>4. Reach
    BY DEF Init, Reach, LiveIds
  <1>5. QED BY <1>1, <1>2, <1>3, <1>4 DEF Inductive

(* The steps of the dispatcher, the watchdog and the callback keep it.      *)
Dispatcher ==
    \/ ConnectionInit \/ BadFrame \/ Disconnect
    \/ \E i \in Id : Subscribe(i) \/ Complete(i)
    \/ InitTimeout \/ CallbackReturns \/ Handler

Operation(t) == StartFails(t) \/ SourceStarts(t) \/ StreamEnds(t) \/ Teardown(t)

(* Every step keeps the types. *)
LEMMA TypeStep == TypeOK /\ [Next]_vars => TypeOK'
  <1> SUFFICES ASSUME TypeOK, [Next]_vars PROVE TypeOK'
    OBVIOUS
  <1> USE ConnectionAssumption DEF TypeOK, handshake, dispatch, registry, tasks
  <1>1. CASE ConnectionInit
    BY <1>1 DEF ConnectionInit, CloseFromHandler, StartClosing, Acknowledge, LiveIds
  <1>2. CASE BadFrame \/ Disconnect
    BY <1>2 DEF BadFrame, Disconnect, CloseFromHandler, StartClosing, LiveIds
  <1>3. ASSUME NEW i \in Id, Subscribe(i) \/ Complete(i) PROVE TypeOK'
    <2>1. CASE Complete(i)
      BY <1>3, <2>1 DEF Complete
    <2>2. CASE CloseFromHandler
      BY <2>2 DEF CloseFromHandler, StartClosing, LiveIds
    <2>3. CASE Register(i)
      BY <1>3, <2>3 DEF Register, PCs
    <2>4. QED BY <1>3, <2>1, <2>2, <2>3 DEF Subscribe
  <1>4. CASE InitTimeout \/ CallbackReturns
    BY <1>4 DEF InitTimeout, CallbackReturns, CloseFromTask, Acknowledge
  <1>5. CASE Handler
    <2>1. CASE CancelNext
      BY <2>1 DEF CancelNext
    <2>2. CASE AwaitReturns
      BY <2>2 DEF AwaitReturns, Forget
    <2>3. CASE HandlerReturns
      BY <2>3 DEF HandlerReturns
    <2>4. QED BY <1>5, <2>1, <2>2, <2>3 DEF Handler
  <1>6. ASSUME NEW t \in Task, StartFails(t) \/ SourceStarts(t) \/ StreamEnds(t)
        PROVE  TypeOK'
    BY <1>6 DEF StartFails, SourceStarts, StreamEnds, Goto, Send, PCs
  <1>7. ASSUME NEW t \in Task, Teardown(t) PROVE TypeOK'
    <2>1. CASE StartCancelled(t) \/ StreamCancelled(t)
      <3>1. UNCHANGED <<handshake, closing, dispatch, registry, opId, terminal>>
        BY <2>1 DEF StartCancelled, StreamCancelled
      <3>2. pc' \in [Task -> PCs]
        BY <2>1 DEF StartCancelled, StreamCancelled, Goto, PCs
      <3>3. cancelReq' \in [Task -> BOOLEAN]
        BY <2>1 DEF StartCancelled, StreamCancelled
      <3>4. QED BY <3>1, <3>2, <3>3
    <2>2. CASE EndingClosed(t) \/ EndingCancelled(t) \/ AbortingClosed(t)
      BY <2>2 DEF EndingClosed, EndingCancelled, AbortingClosed, FreesId,
                  SourceGone, Goto, Send, PCs
    <2>3. CASE SendsComplete(t) \/ RaisesCloseError(t)
      BY <2>3 DEF SendsComplete, RaisesCloseError, Goto, Send, PCs
    <2>4. CASE DoneCallback(t)
      BY <2>4 DEF DoneCallback, Vanish, Forget, Goto, Send, PCs
    <2>5. QED BY <1>7, <2>1, <2>2, <2>3, <2>4 DEF Teardown
  <1>8. CASE UNCHANGED vars
    BY <1>8 DEF vars
  <1>9. QED
    BY <1>1, <1>2, <1>3, <1>4, <1>5, <1>6, <1>7, <1>8 DEF Next

(* A step that leaves the registries and the tasks alone keeps what is said *)
(* about them.                                                              *)
LEMMA TasksFrame ==
    ASSUME RegistrySound, Owners, UNCHANGED <<operations, sources, opId, pc, cancelReq>>
    PROVE  RegistrySound' /\ Owners' /\ LiveIds' = LiveIds
  BY DEF RegistrySound, Owners, Holds, HasSource, LiveIds

(* The steps of the dispatcher, the watchdog and the callback keep the      *)
(* registries sound.                                                        *)
LEMMA DispatcherStep ==
    ASSUME Inductive, Dispatcher
    PROVE  RegistrySound' /\ Owners' /\ Reach'
  <1> USE ConnectionAssumption DEF Inductive, handshake, dispatch, registry, tasks
  <1>1. CASE ConnectionInit \/ BadFrame \/ Disconnect
    <2>1. UNCHANGED <<operations, sources, opId, pc, cancelReq>>
      BY <1>1 DEF ConnectionInit, BadFrame, Disconnect, CloseFromHandler
    <2>2. RegistrySound' /\ Owners' /\ LiveIds' = LiveIds
      BY <2>1, TasksFrame
    <2>3. Reach'
      BY <1>1, <2>1, <2>2 DEF Reach, TypeOK, ConnectionInit, BadFrame, Disconnect,
         CloseFromHandler, StartClosing, Acknowledge, Receives
    <2>4. QED BY <2>2, <2>3
  <1>2. CASE InitTimeout \/ CallbackReturns
    <2>1. UNCHANGED <<operations, sources, opId, pc, cancelReq>>
      BY <1>2 DEF InitTimeout, CallbackReturns, CloseFromTask
    <2>2. RegistrySound' /\ Owners' /\ LiveIds' = LiveIds
      BY <2>1, TasksFrame
    <2>3. Reach'
      BY <1>2, <2>1, <2>2 DEF Reach, TypeOK, InitTimeout, CallbackReturns,
         CloseFromTask, Acknowledge
    <2>4. QED BY <2>2, <2>3
  <1>3. ASSUME NEW i \in Id, Complete(i) \/ (Subscribe(i) /\ CloseFromHandler)
        PROVE  RegistrySound' /\ Owners' /\ Reach'
    <2>1. UNCHANGED <<operations, sources, opId, pc, cancelReq>>
      BY <1>3 DEF Complete, CloseFromHandler
    <2>2. RegistrySound' /\ Owners' /\ LiveIds' = LiveIds
      BY <2>1, TasksFrame
    <2>3. Reach'
      BY <1>3, <2>1, <2>2 DEF Reach, TypeOK, Complete, Subscribe,
         CloseFromHandler, StartClosing, Receives
    <2>4. QED BY <2>2, <2>3
  <1>4. ASSUME NEW i \in Id, Receives, acked, operations[i] = None, Register(i)
        PROVE  RegistrySound' /\ Owners' /\ Reach'
    <2>1. PICK t \in Task :
              /\ pc[t] = "unused"
              /\ operations' = [operations EXCEPT ![i] = t]
              /\ opId' = [opId EXCEPT ![t] = i]
              /\ pc' = [pc EXCEPT ![t] = "starting"]
      BY <1>4 DEF Register
    <2>2. UNCHANGED <<onConnect, acked, closing, auth, socket, handler, rest, awaited, sources, cancelReq>>
      BY <1>4 DEF Register
    <2>3. RegistrySound'
      BY <1>4, <2>1, <2>2 DEF RegistrySound, Owners, Holds, HasSource, TypeOK
    <2>4. Owners'
      BY <1>4, <2>1, <2>2 DEF Owners, TypeOK
    <2>5. Reach'
      BY <1>4, <2>2 DEF Reach, Receives
    <2>6. QED BY <2>3, <2>4, <2>5
  <1>5. CASE CancelNext
    <2>1. PICK i \in rest :
              /\ rest' = rest \ {i}
              /\ awaited' = operations[i]
              /\ cancelReq' = [t \in Task |->
                    cancelReq[t] \/ (t = operations[i] /\ pc[t] \notin Ended)]
      BY <1>5 DEF CancelNext
    <2>2. /\ handler # "idle" /\ awaited = None
          /\ UNCHANGED <<onConnect, acked, closing, auth, socket, handler, operations, sources, opId, pc>>
      BY <1>5 DEF CancelNext
    <2>3. RegistrySound'
      BY <2>2 DEF RegistrySound, Holds, HasSource
    <2>4. Owners'
      BY <2>1, <2>2 DEF Owners, TypeOK
    <2>5. Reach'
      BY <2>1, <2>2 DEF Reach, LiveIds, TypeOK
    <2>6. QED BY <2>3, <2>4, <2>5
  <1>6. CASE AwaitReturns
    <2>1. /\ awaited # None /\ pc[awaited] \in Ended /\ awaited' = None
          /\ operations' = [i \in Id |-> IF operations[i] = awaited THEN None ELSE operations[i]]
          /\ sources' = [i \in Id |-> IF operations[i] = awaited THEN None ELSE sources[i]]
          /\ UNCHANGED <<onConnect, acked, closing, auth, socket, handler, rest, opId, pc, cancelReq>>
      BY <1>6 DEF AwaitReturns, Forget
    <2>2. awaited \in Task
      BY <2>1 DEF TypeOK
    <2>3. RegistrySound'
      BY <2>1, <2>2 DEF RegistrySound, Owners, Holds, HasSource, TypeOK, Ended
    <2>4. Owners'
      BY <2>1 DEF Owners
    <2>5. Reach'
      BY <2>1 DEF Reach, LiveIds
    <2>6. QED BY <2>3, <2>4, <2>5
  <1>7. CASE HandlerReturns
    <2>1. /\ handler # "idle" /\ rest = {} /\ awaited = None /\ handler' = "idle"
          /\ UNCHANGED <<onConnect, acked, closing, auth, rest, awaited, operations, opId, pc, cancelReq>>
      BY <1>7 DEF HandlerReturns
    <2>2. CASE handler = "complete"
      <3>1. UNCHANGED <<socket, sources>>
        BY <1>7, <2>2 DEF HandlerReturns
      <3>2. QED
        BY <2>1, <3>1, TasksFrame DEF Reach
    <2>3. CASE handler # "complete"
      <3>1. /\ handler \in {"close", "disconnect"}
            /\ socket' \in {"gone", "closed"}
            /\ sources' = [i \in Id |-> None]
        BY <1>7, <2>1, <2>3 DEF HandlerReturns, TypeOK
      <3>2. LiveIds = {}
        BY <2>1, <3>1 DEF Reach, LiveIds
      <3>3. \A t \in Task : ~Holds(t)
        BY <3>2 DEF RegistrySound, Owners, Holds, HasSource, LiveIds
      <3>4. RegistrySound'
        BY <2>1, <3>1, <3>3 DEF RegistrySound, Holds, HasSource
      <3>5. Owners'
        BY <2>1 DEF Owners
      <3>6. Reach'
        BY <2>1, <3>1, <3>2 DEF Reach, LiveIds
      <3>7. QED BY <3>4, <3>5, <3>6
    <2>4. QED BY <2>2, <2>3
  <1>8. QED
    BY <1>1, <1>2, <1>3, <1>4, <1>5, <1>6, <1>7
    DEF Dispatcher, Handler, Subscribe

(* The steps of an operation's task keep the registries sound. *)
LEMMA OperationStep ==
    ASSUME Inductive, NEW t \in Task, Operation(t)
    PROVE  RegistrySound' /\ Owners' /\ Reach'
  <1> USE ConnectionAssumption DEF Inductive, handshake, dispatch, registry, Goto, Send
  <1>1. CASE StartFails(t) \/ StartCancelled(t) \/ SendsComplete(t) \/ RaisesCloseError(t)
    <2>1. /\ pc[t] \in {"starting", "completing", "failing", "raising"}
          /\ pc' = [pc EXCEPT ![t] = pc'[t]]
          /\ pc'[t] \in {"done", "raising"}
          /\ pc[t] = "starting" => pc'[t] = "done"
          /\ UNCHANGED <<onConnect, acked, closing, auth, socket, handler, rest, awaited,
                         operations, sources, opId, cancelReq>>
      BY <1>1 DEF StartFails, StartCancelled, SendsComplete, RaisesCloseError, TypeOK
    <2>2. RegistrySound'
      BY <2>1 DEF RegistrySound, Holds, HasSource, TypeOK
    <2>3. Owners'
      BY <2>1 DEF Owners, TypeOK
    <2>4. Reach'
      BY <2>1 DEF Reach, LiveIds
    <2>5. QED BY <2>2, <2>3, <2>4
  <1>2. CASE SourceStarts(t)
    <2>1. /\ pc[t] = "starting"
          /\ pc' = [pc EXCEPT ![t] = "streaming"]
          /\ sources' = [sources EXCEPT ![opId[t]] = t]
          /\ UNCHANGED <<onConnect, acked, closing, auth, socket, handler, rest, awaited,
                         operations, opId, cancelReq>>
      BY <1>2 DEF SourceStarts
    <2>2. opId[t] \in Id /\ operations[opId[t]] = t
      BY <2>1 DEF Owners, RegistrySound, Holds
    <2>3. RegistrySound'
      BY <2>1, <2>2 DEF RegistrySound, Holds, HasSource, TypeOK
    <2>4. Owners'
      BY <2>1 DEF Owners, TypeOK
    <2>5. Reach'
      BY <2>1 DEF Reach, LiveIds
    <2>6. QED BY <2>3, <2>4, <2>5
  <1>3. CASE StreamEnds(t) \/ StreamCancelled(t)
    <2>1. /\ pc[t] = "streaming"
          /\ pc' = [pc EXCEPT ![t] = pc'[t]]
          /\ pc'[t] \in {"ending", "aborting"}
          /\ \A r \in Task : cancelReq'[r] => cancelReq[r]
          /\ UNCHANGED <<onConnect, acked, closing, auth, socket, handler, rest, awaited,
                         operations, sources, opId>>
      BY <1>3 DEF StreamEnds, StreamCancelled, TypeOK
    <2>2. RegistrySound'
      BY <2>1 DEF RegistrySound, Holds, HasSource, TypeOK
    <2>3. Owners'
      BY <2>1 DEF Owners, TypeOK
    <2>4. Reach'
      BY <2>1 DEF Reach, LiveIds
    <2>5. QED BY <2>2, <2>3, <2>4
  <1>4. CASE EndingClosed(t)
    <2>1. /\ pc[t] = "ending" /\ ~cancelReq[t]
          /\ pc' = [pc EXCEPT ![t] = pc'[t]]
          /\ pc'[t] \in {"completing", "failing"}
          /\ sources' = [sources EXCEPT ![opId[t]] = None]
          /\ operations' = [operations EXCEPT ![opId[t]] = None]
          /\ UNCHANGED <<onConnect, acked, closing, auth, socket, handler, rest, awaited,
                         opId, cancelReq>>
      BY <1>4 DEF EndingClosed, FreesId, SourceGone, TypeOK
    <2>2. opId[t] \in Id /\ operations[opId[t]] = t
      BY <2>1 DEF Owners, RegistrySound, Holds, HasSource
    <2>3. RegistrySound'
      BY <2>1, <2>2 DEF RegistrySound, Holds, HasSource, TypeOK
    <2>4. Owners'
      BY <2>1, <2>2 DEF Owners, TypeOK
    <2>5. Reach'
      BY <2>1, <2>2 DEF Reach, LiveIds, TypeOK
    <2>6. QED BY <2>3, <2>4, <2>5
  <1>5. CASE EndingCancelled(t) \/ AbortingClosed(t)
    <2>1. /\ pc[t] \in {"ending", "aborting"}
          /\ pc' = [pc EXCEPT ![t] = "done"]
          /\ sources' = [sources EXCEPT ![opId[t]] = None]
          /\ UNCHANGED <<onConnect, acked, closing, auth, socket, handler, rest, awaited,
                         operations, opId, cancelReq>>
      BY <1>5 DEF EndingCancelled, AbortingClosed, SourceGone
    <2>2. opId[t] \in Id /\ operations[opId[t]] = t
      BY <2>1 DEF Owners, RegistrySound, Holds, HasSource
    <2>3. RegistrySound'
      BY <2>1, <2>2 DEF RegistrySound, Holds, HasSource, TypeOK
    <2>4. Owners'
      BY <2>1 DEF Owners, TypeOK
    <2>5. Reach'
      BY <2>1 DEF Reach, LiveIds
    <2>6. QED BY <2>3, <2>4, <2>5
  <1>6. CASE DoneCallback(t)
    <2>1. /\ pc[t] = "done"
          /\ operations' = [i \in Id |-> IF operations[i] = t THEN None ELSE operations[i]]
          /\ pc' = [pc EXCEPT ![t] = "unused"]
          /\ opId' = [opId EXCEPT ![t] = None]
          /\ cancelReq' = [cancelReq EXCEPT ![t] = FALSE]
          /\ UNCHANGED <<onConnect, acked, closing, auth, socket, handler, rest, awaited, sources>>
      BY <1>6 DEF DoneCallback, Vanish, Forget
    <2>2. RegistrySound'
      BY <2>1 DEF RegistrySound, Owners, Holds, HasSource, TypeOK
    <2>3. Owners'
      BY <2>1 DEF Owners, TypeOK
    <2>4. Reach'
      BY <2>1 DEF Reach, LiveIds
    <2>5. QED BY <2>2, <2>3, <2>4
  <1>7. QED
    BY <1>1, <1>2, <1>3, <1>4, <1>5, <1>6 DEF Operation, Teardown

(* The registries and the reach of a teardown, as one invariant. *)
THEOREM InductiveInvariant == Spec => []Inductive
  <1>1. Inductive /\ [Next]_vars => Inductive'
    <2> SUFFICES ASSUME Inductive, [Next]_vars PROVE Inductive'
      OBVIOUS
    <2>1. TypeOK'
      BY TypeStep DEF Inductive
    <2>2. CASE UNCHANGED vars
      <3>1. RegistrySound' /\ Owners' /\ LiveIds' = LiveIds
        BY <2>2, TasksFrame DEF vars, Inductive
      <3>2. Reach'
        BY <2>2, <3>1 DEF vars, Reach, Inductive
      <3>3. QED BY <2>1, <3>1, <3>2 DEF Inductive
    <2>3. CASE Next
      BY <2>1, <2>3, DispatcherStep, OperationStep
      DEF Next, Dispatcher, Operation, Inductive
    <2>4. QED BY <2>2, <2>3
  <1>2. QED BY InitInductive, <1>1, PTL DEF Spec

(* The consumer's fields and the bookkeeping of its tasks keep their types. *)
THEOREM Typing == Spec => []TypeOK
  BY InductiveInvariant, PTL DEF Inductive

(* However completion, cancellation, done callbacks and reuse of an id      *)
(* interleave, the registries name exactly the tasks that hold something.   *)
THEOREM Registries == Spec => []RegistrySound
  BY InductiveInvariant, PTL DEF Inductive

(* A socket that is closed, gone or not yet acknowledged holds nothing. *)
THEOREM ClosingReaches == Spec => []ClosedMeansTornDown
  <1>1. Inductive => ClosedMeansTornDown
    BY ConnectionAssumption
    DEF Inductive, ClosedMeansTornDown, Reach, LiveIds, RegistrySound, Owners,
           Holds, HasSource, TypeOK
  <1>2. QED BY InductiveInvariant, <1>1, PTL

(* No connection is acknowledged once its socket has begun to close. *)
THEOREM AcksInTime == Spec => NoLateAck
  <1>1. Inductive /\ [Next]_vars
          => [~acked /\ acked' => ~closing /\ socket = "open"]_vars
    <2> SUFFICES ASSUME Inductive, Next, ~acked, acked'
                 PROVE  ~closing /\ socket = "open"
      BY DEF vars
    <2>1. ConnectionInit \/ CallbackReturns
      BY DEF Next, Handler, Teardown, BadFrame, Disconnect, Subscribe, Complete,
         InitTimeout, CancelNext, AwaitReturns, HandlerReturns, Register,
         CloseFromHandler, CloseFromTask, StartFails, SourceStarts, StreamEnds,
         StartCancelled, StreamCancelled, EndingClosed, EndingCancelled,
         AbortingClosed, SendsComplete, RaisesCloseError, DoneCallback, handshake
    <2>2. CASE ConnectionInit
      BY <2>2 DEF ConnectionInit, CloseFromHandler, Receives
    <2>3. CASE CallbackReturns
      BY <2>3 DEF CallbackReturns, CloseFromTask, Inductive, Reach
    <2>4. QED BY <2>1, <2>2, <2>3
  <1>2. QED BY InductiveInvariant, <1>1, PTL DEF Spec, NoLateAck

(* Nothing is registered for the task, and nobody is cancelling it. *)
CleanedUp(t) ==
    /\ \A i \in Id : operations[i] # t /\ sources[i] # t
    /\ ~cancelReq[t]

(* A complete frame is sent only after the operation's source was closed    *)
(* and its id freed, and never for one that is being cancelled.             *)
THEOREM CompletesLast == Spec => CompleteAfterCleanup
  <1>1. Inductive /\ [Next]_vars
          => [\A t \in Task : terminal[t] # "complete" /\ terminal'[t] = "complete" =>
                 CleanedUp(t)]_vars
    <2> SUFFICES ASSUME Inductive, Next, NEW t \in Task,
                        terminal[t] # "complete", terminal'[t] = "complete"
                 PROVE  CleanedUp(t)
      BY DEF vars
    <2>1. PICK r \in Task : StartFails(r) \/ SourceStarts(r) \/ StreamEnds(r) \/ Teardown(r)
      BY DEF Next, Handler, ConnectionInit, BadFrame, Disconnect, Subscribe, Complete,
         InitTimeout, CallbackReturns, CancelNext, AwaitReturns, HandlerReturns,
         Register, CloseFromHandler, CloseFromTask, tasks
    <2>2. r = t /\ SendsComplete(t)
      BY <2>1 DEF StartFails, SourceStarts, StreamEnds, Teardown, StartCancelled,
         StreamCancelled, EndingClosed, EndingCancelled, AbortingClosed,
         SendsComplete, RaisesCloseError, DoneCallback, Vanish, FreesId, Send,
         Inductive, TypeOK
    <2>3. pc[t] \in {"completing", "failing"}
      BY <2>2 DEF SendsComplete
    <2>4. QED
      BY <2>3, ConnectionAssumption DEF Inductive, Owners, RegistrySound, HasSource, CleanedUp
  <1>2. QED BY InductiveInvariant, <1>1, PTL DEF Spec, CompleteAfterCleanup, CleanedUp

-----------------------------------------------------------------------------
(* The cap.                                                                 *)

RegistryWithinCap == Cardinality(LiveIds) <= Cap

(* The registry is finite. *)
LEMMA LiveIdsFinite == IsFiniteSet(LiveIds) /\ Cardinality(LiveIds) \in Nat
  BY ConnectionAssumption, FS_Subset, FS_CardinalityType DEF LiveIds

(* A step registers one id that was free, below the cap, or none. *)
LEMMA RegistryGrows ==
    ASSUME TypeOK, [Next]_vars
    PROVE  \/ LiveIds' \subseteq LiveIds
           \/ \E i \in Id : LiveIds' = LiveIds \cup {i} /\ ~AtCap
  <1> USE ConnectionAssumption DEF TypeOK, handshake, dispatch, registry, tasks
  <1>1. CASE UNCHANGED operations
    BY <1>1 DEF LiveIds
  <1>2. ASSUME NEW i \in Id, operations[i] = None, ~AtCap, Register(i)
        PROVE  LiveIds' = LiveIds \cup {i}
    <2>1. PICK t \in Task : operations' = [operations EXCEPT ![i] = t]
      BY <1>2 DEF Register
    <2>2. QED BY <2>1 DEF LiveIds
  <1>3. CASE AwaitReturns
    BY <1>3 DEF AwaitReturns, Forget, LiveIds
  <1>4. ASSUME NEW t \in Task, EndingClosed(t) \/ DoneCallback(t)
        PROVE  LiveIds' \subseteq LiveIds
    BY <1>4 DEF EndingClosed, DoneCallback, FreesId, Forget, LiveIds
  <1>5. QED
    BY <1>1, <1>2, <1>3, <1>4
    DEF Next, vars, Handler, Teardown, ConnectionInit, BadFrame, Disconnect,
        Subscribe, Complete, InitTimeout, CallbackReturns, CancelNext,
        HandlerReturns, CloseFromHandler, CloseFromTask, StartFails, SourceStarts,
        StreamEnds, StartCancelled, StreamCancelled, EndingCancelled,
        AbortingClosed, SendsComplete, RaisesCloseError

(* The test of _on_subscribe bounds the registry. *)
LEMMA RegistryCapped == Spec => []RegistryWithinCap
  <1>1. Init => RegistryWithinCap
    <2> SUFFICES ASSUME Init PROVE RegistryWithinCap
      OBVIOUS
    <2>1. LiveIds = {}
      BY DEF Init, LiveIds
    <2>2. QED BY <2>1, FS_EmptySet, ConnectionAssumption DEF RegistryWithinCap
  <1>2. TypeOK /\ RegistryWithinCap /\ [Next]_vars => RegistryWithinCap'
    <2> SUFFICES ASSUME TypeOK, RegistryWithinCap, [Next]_vars
                 PROVE  RegistryWithinCap'
      OBVIOUS
    <2>1. CASE LiveIds' \subseteq LiveIds
      <3>1. Cardinality(LiveIds') <= Cardinality(LiveIds)
        BY <2>1, LiveIdsFinite, FS_Subset
      <3>2. Cardinality(LiveIds') \in Nat
        BY <2>1, LiveIdsFinite, FS_Subset, FS_CardinalityType
      <3>3. QED
        BY <3>1, <3>2, LiveIdsFinite, ConnectionAssumption DEF RegistryWithinCap
    <2>2. ASSUME NEW i \in Id, LiveIds' = LiveIds \cup {i}, ~AtCap
          PROVE  RegistryWithinCap'
      <3>1. Cardinality(LiveIds \cup {i}) \in {Cardinality(LiveIds), Cardinality(LiveIds) + 1}
        BY LiveIdsFinite, FS_AddElement
      <3>2. Cardinality(LiveIds') \in {Cardinality(LiveIds), Cardinality(LiveIds) + 1}
        BY <2>2, <3>1, Zenon
      <3>3. Cardinality(LiveIds) + 1 <= Cap
        BY <2>2, LiveIdsFinite, ConnectionAssumption DEF AtCap
      <3>4. QED
        BY <3>2, <3>3, LiveIdsFinite, ConnectionAssumption DEF RegistryWithinCap
    <2>3. QED BY <2>1, <2>2, RegistryGrows
  <1>3. QED BY Typing, <1>1, <1>2, PTL DEF Spec

(* What is held is bounded too: each task that holds a membership owns an   *)
(* id of its own, so there are no more of them than registered ids.         *)
THEOREM Capped == Spec => []HeldWithinCap
  <1>1. Inductive /\ RegistryWithinCap => HeldWithinCap
    <2> SUFFICES ASSUME Inductive, RegistryWithinCap PROVE HeldWithinCap
      OBVIOUS
    <2> DEFINE Holding == {t \in Task : Holds(t)}
               IdOf == [t \in Holding |-> opId[t]]
    <2>1. \A t \in Holding : opId[t] \in LiveIds /\ operations[opId[t]] = t
      BY ConnectionAssumption
      DEF Inductive, Owners, RegistrySound, Holds, HasSource, LiveIds
    <2>2. IdOf \in Injection(Holding, LiveIds)
      BY <2>1 DEF Injection, IsInjective
    <2>3. IsFiniteSet(Holding) /\ Cardinality(Holding) \in Nat
      BY ConnectionAssumption, FS_Subset, FS_CardinalityType
    <2>4. Cardinality(Holding) <= Cardinality(LiveIds)
      BY <2>2, LiveIdsFinite, FS_Injection
    <2>5. QED
      BY <2>3, <2>4, LiveIdsFinite, ConnectionAssumption
      DEF RegistryWithinCap, HeldWithinCap
  <1>2. QED BY InductiveInvariant, RegistryCapped, <1>1, PTL
=============================================================================
