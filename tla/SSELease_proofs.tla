--------------------------- MODULE SSELease_proofs ---------------------------
(***************************************************************************)
(* Proofs about SSELease, for every set of streams, every limit and all    *)
(* timing constants that satisfy TimingAssumption.                         *)
(***************************************************************************)
EXTENDS SSELease, FiniteSetTheorems, TLAPS

Ops == {"acquire", "renew", "release"}

(* What a Redis command does to the sorted set: it keeps the types, never   *)
(* shortens the life of a live token unless it releases that very token,    *)
(* and gives a token it answers "yes" for a full TTL.                       *)
LEMMA ExecuteFacts ==
    ASSUME TypeOK, NEW op \in Ops, NEW t \in Token, Execute(op, t)
    PROVE  /\ score' \in [Token -> -1 .. TTL]
           /\ granted' \in SUBSET Token
           /\ \A u \in Token : /\ op # "release" \/ u # t
                               /\ score[u] > 0
                               => score'[u] >= score[u]
           /\ op # "release" /\ Answer(op, t) = "yes" => score'[t] = TTL
  <1> USE TimingAssumption DEF Ops, Absent
  <1>1. CASE op = "acquire"
    BY <1>1 DEF TypeOK, Execute, AfterAcquireScript, Purge, Answer
  <1>2. CASE op = "renew"
    BY <1>2 DEF TypeOK, Execute, AfterRenewScript, Renewable, Answer
  <1>3. CASE op = "release"
    BY <1>3 DEF TypeOK, Execute, AfterReleaseScript
  <1>4. QED BY <1>1, <1>2, <1>3

(* A coroutine that waits for a reply has sent one of the three commands.   *)
LEMMA OpType ==
    ASSUME TypeOK, NEW s \in Stream
    PROVE  Op(s) \in Ops /\ Tok(s) \in Token
  BY DEF TypeOK, Op, Ops, Tok, Token

(* A command that is executed is answered yes or no.                        *)
LEMMA AnswerType ==
    ASSUME NEW op, NEW t
    PROVE  Answer(op, t) \in {"yes", "no"}
  BY DEF Answer

-----------------------------------------------------------------------------
(* The initial state is typed.                                              *)
LEMMA InitTypeOK == Init => TypeOK
  BY StreamAssumption, TimingAssumption
  DEF Init, TypeOK, Token, Absent, PCs

(* Steps of the worker threads keep the types.                              *)
LEMMA ThreadTypeOK ==
    ASSUME TypeOK, NEW s \in Stream, Thread(s) \/ Cancel(s) \/ ResponseClose(s) \/ Crash(s)
    PROVE  TypeOK'
  <1> USE StreamAssumption, TimingAssumption, OpType DEF redis, timers
  <1>1. CASE BodySkips(s)
    BY <1>1 DEF TypeOK, BodySkips, Settled
  <1>2. CASE BodyExecutes(s)
    BY <1>2, ExecuteFacts, AnswerType DEF TypeOK, BodyExecutes, Settled
  <1>3. CASE BodyFails(s)
    <2>1. score' \in [Token -> -1 .. TTL] /\ granted' \in SUBSET Token
      BY <1>3, ExecuteFacts DEF TypeOK, BodyFails
    <2>2. late' \in SUBSET (Ops \X Token)
      BY <1>3 DEF TypeOK, BodyFails, Ops
    <2>3. faults' \in [Stream -> 0 .. MaxFaults]
      BY <1>3 DEF TypeOK, BodyFails, CanFault
    <2>4. QED
      BY <1>3, <2>1, <2>2, <2>3 DEF TypeOK, BodyFails, Settled, Ops
  <1>4. CASE CloserExecutes(s)
    BY <1>4, ExecuteFacts DEF TypeOK, CloserExecutes, Ops
  <1>5. CASE CloserFails(s)
    <2>1. score' \in [Token -> -1 .. TTL] /\ granted' \in SUBSET Token
      BY <1>5, ExecuteFacts DEF TypeOK, CloserFails, Ops
    <2>2. late' \in SUBSET (Ops \X Token)
      BY <1>5 DEF TypeOK, CloserFails, Ops
    <2>3. faults' \in [Stream -> 0 .. MaxFaults]
      BY <1>5 DEF TypeOK, CloserFails, CanFault
    <2>4. QED
      BY <1>5, <2>1, <2>2, <2>3 DEF TypeOK, CloserFails, Ops
  <1>6. CASE Cancel(s)
    BY <1>6 DEF TypeOK, Cancel
  <1>7. CASE ResponseClose(s)
    BY <1>7 DEF TypeOK, ResponseClose, CloseSource
  <1>8. CASE Crash(s)
    <2>1. late' \in SUBSET (Ops \X Token)
      BY <1>8 DEF TypeOK, Crash, Ops
    <2>2. faults' \in [Stream -> 0 .. MaxFaults]
      BY <1>8 DEF TypeOK, Crash, CanFault
    <2>3. QED
      BY <1>8, <2>1, <2>2 DEF TypeOK, Crash, Ops, Goto, PCs, Over
  <1>9. QED
    BY <1>1, <1>2, <1>3, <1>4, <1>5, <1>6, <1>7, <1>8 DEF Thread

(* Steps of the view keep the types.                                        *)
LEMMA ViewTypeOK ==
    ASSUME TypeOK, NEW s \in Stream, View(s)
    PROVE  TypeOK'
  <1> USE TimingAssumption
      DEF TypeOK, redis, timers, Call, Return, Goto, CloseSource, PCs, Acquiring,
          Renewing, Releasing, Over
  <1>1. CASE Arrive(s)
    BY <1>1 DEF Arrive
  <1>2. CASE AfterAcquire(s)
    BY <1>2 DEF AfterAcquire
  <1>3. CASE AfterCleanup(s)
    BY <1>3 DEF AfterCleanup
  <1>4. CASE SourceStarts(s)
    BY <1>4 DEF SourceStarts
  <1>5. CASE SourceFails(s)
    BY <1>5 DEF SourceFails
  <1>6. CASE AfterConfirm(s)
    BY <1>6 DEF AfterConfirm
  <1>7. CASE AfterAbandon(s)
    BY <1>7 DEF AfterAbandon
  <1>8. QED
    BY <1>1, <1>2, <1>3, <1>4, <1>5, <1>6, <1>7 DEF View

(* Steps of the body generator keep the types.                              *)
LEMMA BodyTypeOK ==
    ASSUME TypeOK, NEW s \in Stream, Body(s)
    PROVE  TypeOK'
  <1> USE TimingAssumption
      DEF TypeOK, redis, timers, Call, Return, Goto, CloseSource, PCs, Acquiring,
          Renewing, Releasing, Over, Finally, Close, StopPending
  <1>1. CASE Pull(s)
    BY <1>1 DEF Pull
  <1>2. CASE WaitIsDue(s)
    BY <1>2 DEF WaitIsDue
  <1>3. CASE Emit(s)
    BY <1>3 DEF Emit
  <1>4. CASE SourceEnds(s)
    BY <1>4 DEF SourceEnds
  <1>5. CASE AfterRenew(s)
    <2>1. age' \in [Stream -> 0 .. TTL] /\ due' \in [Stream -> Nat]
      BY <1>5 DEF AfterRenew, Stamp
    <2>2. pc' \in [Stream -> PCs]
      BY <1>5 DEF AfterRenew, Continues
    <2>3. QED
      BY <1>5, <2>1, <2>2 DEF AfterRenew
  <1>6. CASE RenewCancelled(s)
    BY <1>6 DEF RenewCancelled
  <1>7. CASE Disconnect(s)
    BY <1>7 DEF Disconnect
  <1>8. CASE AfterStopping(s)
    BY <1>8 DEF AfterStopping
  <1>9. CASE CancelledAgain(s)
    BY <1>9 DEF CancelledAgain
  <1>10. CASE AfterClosing(s)
    BY <1>10 DEF AfterClosing
  <1>11. QED
    BY <1>1, <1>2, <1>3, <1>4, <1>5, <1>6, <1>7, <1>8, <1>9, <1>10
    DEF Body

(* Late commands, key expiry, time and crashes keep the types.              *)
LEMMA EnvironmentTypeOK ==
    ASSUME TypeOK, KeyExpires \/ LateExecute \/ LateDrop \/ Tick
    PROVE  TypeOK'
  <1> USE StreamAssumption, TimingAssumption DEF redis, timers
  <1>1. CASE KeyExpires
    BY <1>1 DEF TypeOK, KeyExpires, Absent
  <1>2. CASE LateExecute
    <2>1. PICK c \in late : Execute(c[1], c[2]) /\ late' = late \ {c}
      BY <1>2 DEF LateExecute
    <2>2. c[1] \in Ops /\ c[2] \in Token
      BY DEF TypeOK, Ops
    <2>3. QED
      BY <1>2, <2>1, <2>2, ExecuteFacts DEF TypeOK, LateExecute
  <1>3. CASE LateDrop
    BY <1>3 DEF TypeOK, LateDrop
  <1>4. CASE Tick
    <2>1. score' \in [Token -> -1 .. TTL]
      BY <1>4 DEF TypeOK, Tick, Countdown
    <2>2. age' \in [Stream -> 0 .. TTL] /\ due' \in [Stream -> Nat]
      BY <1>4 DEF TypeOK, Tick
    <2>3. opAge' \in [Stream -> 0 .. MaxOp]
      BY <1>4 DEF TypeOK, Tick
    <2>4. QED
      BY <1>4, <2>1, <2>2, <2>3 DEF TypeOK, Tick
  <1>5. QED
    BY <1>1, <1>2, <1>3, <1>4

(* Every step keeps the types.                                              *)
LEMMA TypeStep == TypeOK /\ [Next]_vars => TypeOK'
  <1> SUFFICES ASSUME TypeOK, [Next]_vars PROVE TypeOK'
    OBVIOUS
  <1>1. CASE Next
    BY <1>1, ThreadTypeOK, ViewTypeOK, BodyTypeOK, EnvironmentTypeOK DEF Next
  <1>2. CASE UNCHANGED vars
    BY <1>2 DEF TypeOK, vars
  <1>3. QED BY <1>1, <1>2

(* The type invariant holds for every value of the constants.               *)
THEOREM Typing == Spec => []TypeOK
  BY InitTypeOK, TypeStep, PTL DEF Spec

-----------------------------------------------------------------------------
(* The inductive invariant behind the safety theorems.                      *)
Inductive == TypeOK /\ LeaseInv /\ ReleaseInv

(* The inductive invariant holds initially.                                 *)
LEMMA InitInductive == Init => Inductive
  <1>1. Init => LeaseInv
    BY DEF Init, LeaseInv, LeaseSafe, Relying, Renewing
  <1>2. Init => ReleaseInv
    BY DEF Init, ReleaseInv, ReleaseSafe, Tok, Acquiring, Renewing, Releasing
  <1>3. QED
    BY InitTypeOK, <1>1, <1>2 DEF Inductive

(* What a step leaves alone keeps what is known of another stream.          *)
SameStream(r) ==
    /\ pc'[r] = pc[r] /\ attempt'[r] = attempt[r] /\ reply'[r] = reply[r]
    /\ closed'[r] = closed[r] /\ closer'[r] = closer[r]
    /\ age'[r] = age[r] /\ due'[r] = due[r] /\ opAge'[r] = opAge[r]

(* A stream whose own record does not change keeps its part of the invariant. *)
LEMMA FrameStream ==
    ASSUME NEW r \in Stream, LeaseSafe(r), ReleaseSafe(r), SameStream(r), UNCHANGED redis
    PROVE  LeaseSafe(r)' /\ ReleaseSafe(r)'
  BY DEF SameStream, redis, LeaseSafe, ReleaseSafe, Tok

(* A step of one stream that sends nothing leaves the others alone.         *)
LEMMA LocalFrame ==
    ASSUME TypeOK, NEW s \in Stream, NEW r \in Stream \ {s},
           \/ BodySkips(s) \/ View(s) \/ Body(s) \/ Cancel(s) \/ ResponseClose(s)
    PROVE  SameStream(r) /\ UNCHANGED redis
  <1> USE DEF TypeOK, SameStream, redis, timers, Call, Return, Goto
  <1>1. CASE BodySkips(s) \/ Cancel(s) \/ ResponseClose(s)
    BY <1>1 DEF BodySkips, Cancel, ResponseClose
  <1>2. CASE View(s)
    BY <1>2 DEF View, Arrive, AfterAcquire, AfterCleanup, SourceStarts, SourceFails,
                AfterConfirm, AfterAbandon
  <1>3. CASE Body(s)
    <2>1. CASE AfterRenew(s)
      BY <2>1 DEF AfterRenew, Stamp
    <2>2. CASE ~AfterRenew(s)
      BY <1>3, <2>2 DEF Body, Pull, WaitIsDue, Emit, SourceEnds, RenewCancelled,
                        Disconnect, AfterStopping, CancelledAgain, AfterClosing,
                        Finally, Close, StopPending
    <2>3. QED BY <2>1, <2>2
  <1>4. QED BY <1>1, <1>2, <1>3

(* Steps of the coroutines and callbacks that send nothing to Redis.        *)
LEMMA LocalStepInductive ==
    ASSUME Inductive, NEW s \in Stream,
           \/ BodySkips(s) \/ View(s) \/ Body(s) \/ Cancel(s) \/ ResponseClose(s)
    PROVE  LeaseInv' /\ ReleaseInv'
  <1> SUFFICES LeaseSafe(s)' /\ ReleaseSafe(s)'
    BY LocalFrame, FrameStream DEF Inductive, LeaseInv, ReleaseInv
  <1>1. LeaseSafe(s) /\ ReleaseSafe(s) /\ TypeOK /\ Tok(s) \in Token
    BY OpType DEF Inductive, LeaseInv, ReleaseInv
  <1> USE TimingAssumption, <1>1
      DEF TypeOK, redis, timers, Call, Return, Goto, CloseSource, Tok,
          Relying, Acquiring, Renewing, Releasing, Settled,
          Finally, Close, StopPending
  <1>2. CASE BodySkips(s)
    BY <1>2 DEF BodySkips, LeaseClosed, LeaseSafe, ReleaseSafe
  <1>3. CASE View(s)
    <2>1. CASE Arrive(s)
      BY <2>1 DEF Arrive, LeaseSafe, ReleaseSafe
    <2>2. CASE AfterAcquire(s)
      BY <2>2 DEF AfterAcquire, LeaseSafe, ReleaseSafe
    <2>3. CASE AfterCleanup(s)
      <3>1. LeaseSafe(s)'
        BY <2>3 DEF AfterCleanup, LeaseSafe
      <3>2. ReleaseSafe(s)'
        BY <2>3 DEF AfterCleanup, Retries, ReleaseSafe
      <3>3. QED BY <3>1, <3>2
    <2>4. CASE SourceStarts(s)
      BY <2>4 DEF SourceStarts, LeaseSafe, ReleaseSafe
    <2>5. CASE SourceFails(s)
      BY <2>5 DEF SourceFails, LeaseSafe, ReleaseSafe
    <2>6. CASE AfterConfirm(s)
      BY <2>6 DEF AfterConfirm, Confirmed, LeaseSafe, ReleaseSafe
    <2>7. CASE AfterAbandon(s)
      BY <2>7 DEF AfterAbandon, LeaseSafe, ReleaseSafe
    <2>8. QED
      BY <1>3, <2>1, <2>2, <2>3, <2>4, <2>5, <2>6, <2>7 DEF View
  <1>4. CASE Body(s)
    <2>1. CASE Pull(s)
      BY <2>1 DEF Pull, LeaseSafe, ReleaseSafe
    <2>2. CASE WaitIsDue(s)
      BY <2>2 DEF WaitIsDue, LeaseSafe, ReleaseSafe
    <2>3. CASE Emit(s)
      BY <2>3 DEF Emit, LeaseSafe, ReleaseSafe
    <2>4. CASE SourceEnds(s)
      BY <2>4 DEF SourceEnds, LeaseSafe, ReleaseSafe
    <2>5. CASE AfterRenew(s)
      <3>1. LeaseSafe(s)'
        BY <2>5 DEF AfterRenew, Stamp, MayStillOwn, Continues, LeaseSafe
      <3>2. ReleaseSafe(s)'
        BY <2>5 DEF AfterRenew, Continues, ReleaseSafe
      <3>3. QED BY <3>1, <3>2
    <2>6. CASE RenewCancelled(s)
      BY <2>6 DEF RenewCancelled, LeaseSafe, ReleaseSafe
    <2>7. CASE Disconnect(s)
      BY <2>7 DEF Disconnect, LeaseSafe, ReleaseSafe
    <2>8. CASE AfterStopping(s)
      BY <2>8 DEF AfterStopping, LeaseSafe, ReleaseSafe
    <2>9. CASE CancelledAgain(s)
      BY <2>9 DEF CancelledAgain, LeaseSafe, ReleaseSafe
    <2>10. CASE AfterClosing(s)
      BY <2>10 DEF AfterClosing, LeaseSafe, ReleaseSafe
    <2>11. QED
      BY <1>4, <2>1, <2>2, <2>3, <2>4, <2>5, <2>6, <2>7, <2>8, <2>9, <2>10
      DEF Body
  <1>5. CASE Cancel(s)
    BY <1>5 DEF Cancel, LeaseSafe, ReleaseSafe
  <1>6. CASE ResponseClose(s)
    BY <1>6 DEF ResponseClose, LeaseSafe, ReleaseSafe
  <1>7. QED
    BY <1>2, <1>3, <1>4, <1>5, <1>6

(* A command for one stream's token leaves the leases of the others alone.  *)
LEMMA FrameRemote ==
    ASSUME TypeOK, TypeOK', NEW r \in Stream,
           LeaseSafe(r), ReleaseSafe(r), SameStream(r),
           score[Tok(r)] > 0 => score'[Tok(r)] >= score[Tok(r)],
           \A k \in {1, 2} : <<"release", <<r, k>>>> \in late' => <<"release", <<r, k>>>> \in late
    PROVE  LeaseSafe(r)' /\ ReleaseSafe(r)'
  <1>1. /\ Tok(r) \in Token /\ Tok(r)' = Tok(r)
        /\ score[Tok(r)] \in Int /\ score'[Tok(r)] \in Int
        /\ age[r] \in 0 .. TTL /\ opAge[r] \in 0 .. MaxOp
    BY OpType DEF TypeOK, SameStream, Tok
  <1>2. LeaseSafe(r)'
    BY <1>1, TimingAssumption DEF LeaseSafe, SameStream
  <1>3. ReleaseSafe(r)'
    BY <1>1 DEF ReleaseSafe, SameStream, TypeOK, Tok
  <1>4. QED BY <1>2, <1>3

(* A command executed for one stream leaves the invariant of the others.    *)
LEMMA RemoteFrame ==
    ASSUME TypeOK, NEW s \in Stream, NEW r \in Stream \ {s},
           \/ BodyExecutes(s) \/ BodyFails(s) \/ CloserExecutes(s) \/ CloserFails(s)
           \/ Crash(s)
    PROVE  /\ SameStream(r)
           /\ score[Tok(r)] > 0 => score'[Tok(r)] >= score[Tok(r)]
           /\ \A k \in {1, 2} : <<"release", <<r, k>>>> \in late' => <<"release", <<r, k>>>> \in late
  <1>1. SameStream(r)
    BY DEF TypeOK, SameStream, timers, BodyExecutes, BodyFails, CloserExecutes,
           CloserFails, Crash, Goto
  <1>2. \A k \in {1, 2} : <<"release", <<r, k>>>> \in late' => <<"release", <<r, k>>>> \in late
    BY DEF Tok, redis, BodyExecutes, BodyFails, CloserExecutes, CloserFails, Crash
  <1>3. Tok(r) \in Token /\ Tok(s) \in Token /\ Tok(r) # Tok(s) /\ Op(s) \in Ops
    BY OpType DEF Tok
  <1>4. \/ Execute(Op(s), Tok(s)) \/ Execute("release", Tok(s)) \/ UNCHANGED score
    BY DEF redis, BodyExecutes, BodyFails, CloserExecutes, CloserFails, Crash
  <1>5. score[Tok(r)] > 0 => score'[Tok(r)] >= score[Tok(r)]
    BY <1>3, <1>4, ExecuteFacts DEF Ops, TypeOK
  <1>6. QED BY <1>1, <1>2, <1>5

(* Steps that execute a command keep the invariant.                         *)
LEMMA RemoteStepInductive ==
    ASSUME Inductive, TypeOK', NEW s \in Stream,
           \/ BodyExecutes(s) \/ BodyFails(s) \/ CloserExecutes(s) \/ CloserFails(s)
           \/ Crash(s)
    PROVE  LeaseInv' /\ ReleaseInv'
  <1>1. /\ LeaseSafe(s) /\ ReleaseSafe(s) /\ TypeOK
        /\ Tok(s) \in Token /\ Op(s) \in Ops
    BY OpType DEF Inductive, LeaseInv, ReleaseInv
  <1> SUFFICES LeaseSafe(s)' /\ ReleaseSafe(s)'
    BY RemoteFrame, FrameRemote DEF Inductive, LeaseInv, ReleaseInv
  <1>0. /\ score[Tok(s)] \in Int /\ score'[Tok(s)] \in Int
        /\ age[s] \in 0 .. TTL /\ opAge[s] \in 0 .. MaxOp
    BY <1>1 DEF TypeOK
  <1> USE <1>0, <1>1, TimingAssumption
  <1>2. CASE BodyExecutes(s)
    <2>1. /\ UNCHANGED <<late, pc, attempt, closer, timers>>
          /\ reply'[s] = Answer(Op(s), Tok(s))
          /\ closed'[s] = (closed[s] \/ ClosesLease(s))
      BY <1>2 DEF BodyExecutes, TypeOK
    <2>2. Op(s) # "release" /\ score[Tok(s)] > 0 => score'[Tok(s)] >= score[Tok(s)]
      BY <1>2, ExecuteFacts DEF BodyExecutes
    <2>3. Op(s) # "release" /\ reply'[s] = "yes" => score'[Tok(s)] = TTL
      BY <1>2, <2>1, ExecuteFacts DEF BodyExecutes
    <2>4. LeaseSafe(s)'
      <3>1. Tok(s)' = Tok(s) /\ UNCHANGED timers
        BY <2>1 DEF Tok
      <3>2. pc[s] \in Renewing \cup {"acquire"} <=> Op(s) # "release"
        BY DEF Op
      <3>3. CASE Op(s) # "release"
        <4>1. /\ ~closed'[s] => ~closed[s]
              /\ score[Tok(s)] > 0 => score'[Tok(s)] >= score[Tok(s)]
              /\ reply'[s] = "yes" => score'[Tok(s)] = TTL
          BY <2>1, <2>2, <2>3, <3>3
        <4>2. pc'[s] = pc[s] /\ age'[s] = age[s] /\ opAge'[s] = opAge[s] /\ due'[s] = due[s]
          BY <2>1, <3>1 DEF timers
        <4>3. QED
          BY <3>1, <4>1, <4>2 DEF LeaseSafe
      <3>4. CASE Op(s) = "release"
        <4>1. pc[s] \in {"cleanup"} \cup Releasing
          BY <1>2, <3>2, <3>4 DEF BodyExecutes, ReleaseSafe, Acquiring
        <4>2. QED
          BY <2>1, <4>1 DEF LeaseSafe, Relying, Renewing, Releasing
      <3>5. QED BY <3>3, <3>4
    <2>5. ReleaseSafe(s)'
      BY <1>2, <2>1
      DEF ReleaseSafe, BodyExecutes, Tok, Relying, Renewing, Releasing, Acquiring, ClosesLease
    <2>6. QED BY <2>4, <2>5
  <1>3. CASE BodyFails(s)
    <2>1. /\ UNCHANGED <<pc, attempt, closer, timers>>
          /\ reply'[s] = "error" /\ reply[s] = "busy"
          /\ closed'[s] = (closed[s] \/ ClosesLease(s))
          /\ late' \in {late, late \cup {<<Op(s), Tok(s)>>}}
      BY <1>3 DEF BodyFails, TypeOK
    <2>2. Op(s) # "release" /\ score[Tok(s)] > 0 => score'[Tok(s)] >= score[Tok(s)]
      BY <1>3, ExecuteFacts DEF BodyFails, TypeOK
    <2>3. LeaseSafe(s)'
      <3>1. Tok(s)' = Tok(s) /\ UNCHANGED timers
        BY <2>1 DEF Tok
      <3>2. pc[s] \in Renewing \cup {"acquire"} <=> Op(s) # "release"
        BY DEF Op
      <3>3. CASE Op(s) # "release"
        <4>1. /\ ~closed'[s] => ~closed[s]
              /\ score[Tok(s)] > 0 => score'[Tok(s)] >= score[Tok(s)]
          BY <2>1, <2>2, <3>3
        <4>2. pc'[s] = pc[s] /\ age'[s] = age[s] /\ opAge'[s] = opAge[s] /\ due'[s] = due[s]
          BY <2>1, <3>1 DEF timers
        <4>3. QED
          BY <2>1, <3>1, <4>1, <4>2 DEF LeaseSafe
      <3>4. CASE Op(s) = "release"
        <4>1. pc[s] \in {"cleanup"} \cup Releasing
          BY <2>1, <3>2, <3>4 DEF ReleaseSafe, Acquiring
        <4>2. QED
          BY <2>1, <4>1 DEF LeaseSafe, Relying, Renewing, Releasing
      <3>5. QED BY <3>3, <3>4
    <2>4. ReleaseSafe(s)'
      <3>1. CASE Op(s) # "release"
        BY <2>1, <3>1
        DEF ReleaseSafe, TypeOK, Tok, Relying, Renewing, Releasing, Acquiring, ClosesLease
      <3>2. CASE Op(s) = "release"
        <4>1. pc[s] \in {"cleanup"} \cup Releasing
          BY <2>1, <3>2 DEF Op, ReleaseSafe, Acquiring
        <4>2. QED
          BY <2>1, <4>1
          DEF ReleaseSafe, TypeOK, Tok, Relying, Renewing, Releasing, Acquiring, ClosesLease
      <3>3. QED BY <3>1, <3>2
    <2>5. QED BY <2>3, <2>4
  <1>4. CASE CloserExecutes(s) \/ CloserFails(s)
    <2>1. /\ UNCHANGED <<pc, attempt, reply, timers>>
          /\ closed'[s] /\ closer[s] = "busy" /\ closer'[s] = "done"
          /\ late' \in {late, late \cup {<<"release", Tok(s)>>}}
      BY <1>4 DEF CloserExecutes, CloserFails, TypeOK
    <2>2. LeaseSafe(s)'
      BY <2>1 DEF LeaseSafe, ReleaseSafe, TypeOK, timers, Relying, Renewing, Acquiring
    <2>3. ReleaseSafe(s)'
      BY <2>1 DEF ReleaseSafe, TypeOK, Tok, Relying, Renewing, Acquiring
    <2>4. QED BY <2>2, <2>3
  <1>5. CASE Crash(s)
    <2>1. /\ pc'[s] = "crashed" /\ reply'[s] = "none" /\ UNCHANGED attempt
          /\ pc[s] # "idle"
          /\ late' \in {late, late \cup {<<Op(s), Tok(s)>>}}
      BY <1>5 DEF Crash, Goto, TypeOK
    <2>2. LeaseSafe(s)'
      BY <2>1 DEF LeaseSafe, Relying, Renewing
    <2>3. ReleaseSafe(s)'
      BY <2>1 DEF ReleaseSafe, TypeOK, Tok, Relying, Renewing, Acquiring
    <2>4. QED BY <2>2, <2>3
  <1>6. QED
    BY <1>2, <1>3, <1>4, <1>5

(* Late commands, key expiry and time keep the invariant.                   *)
LEMMA EnvironmentInductive ==
    ASSUME Inductive, TypeOK', KeyExpires \/ LateExecute \/ LateDrop \/ Tick
    PROVE  LeaseInv' /\ ReleaseInv'
  <1> SUFFICES ASSUME NEW r \in Stream
               PROVE  LeaseSafe(r)' /\ ReleaseSafe(r)'
    BY DEF LeaseInv, ReleaseInv
  <1>1. LeaseSafe(r) /\ ReleaseSafe(r) /\ TypeOK /\ Tok(r) \in Token
    BY OpType DEF Inductive, LeaseInv, ReleaseInv
  <1> USE <1>1, TimingAssumption
  <1>2. CASE KeyExpires
    <2>1. score[Tok(r)] <= 0
      BY <1>2 DEF KeyExpires, Live, TypeOK
    <2>0. score[Tok(r)] > 0 => score'[Tok(r)] >= score[Tok(r)]
      BY <2>1 DEF TypeOK
    <2>2. SameStream(r) /\ UNCHANGED late
      BY <1>2 DEF KeyExpires, SameStream, timers
    <2>3. QED BY <2>0, <2>2, FrameRemote
  <1>3. CASE LateExecute
    <2>1. PICK c \in late : Execute(c[1], c[2]) /\ late' = late \ {c}
      BY <1>3 DEF LateExecute
    <2>2. c[1] \in Ops /\ c[2] \in Token /\ c = <<c[1], c[2]>>
      BY DEF TypeOK, Ops
    <2>3. SameStream(r)
      BY <1>3 DEF LateExecute, SameStream, timers
    <2>4. CASE c = <<"release", Tok(r)>>
      BY <2>1, <2>3, <2>4
      DEF LeaseSafe, ReleaseSafe, SameStream, Tok, Relying, Renewing, Acquiring
    <2>5. CASE c # <<"release", Tok(r)>>
      BY <2>1, <2>2, <2>3, <2>5, ExecuteFacts, FrameRemote
    <2>6. QED BY <2>4, <2>5
  <1>4. CASE LateDrop
    <2>1. SameStream(r) /\ UNCHANGED score /\ late' \in SUBSET late
      BY <1>4 DEF LateDrop, SameStream, timers
    <2>2. score[Tok(r)] > 0 => score'[Tok(r)] >= score[Tok(r)]
      BY <2>1 DEF TypeOK
    <2>3. QED BY <2>1, <2>2, FrameRemote
  <1>5. CASE Tick
    <2>1. /\ UNCHANGED <<late, pc, attempt, reply, closed, closer>>
          /\ score'[Tok(r)] = Countdown(score[Tok(r)])
          /\ age'[r] = IF pc[r] \notin Leased THEN 0
                       ELSE IF age[r] < TTL THEN age[r] + 1 ELSE TTL
          /\ due'[r] = IF pc[r] \in {"wait", "yielded"} /\ due[r] > 0
                       THEN due[r] - 1 ELSE 0
          /\ pc[r] \in {"renew_wait", "renew_emit"} =>
                opAge[r] < MaxOp /\ opAge'[r] = opAge[r] + 1
      BY <1>5 DEF Tick
    <2>2. LeaseSafe(r)'
      BY <2>1 DEF LeaseSafe, TypeOK, Tok, Countdown, Leased, Relying, Renewing
    <2>3. ReleaseSafe(r)'
      BY <2>1 DEF ReleaseSafe, Tok
    <2>4. QED BY <2>2, <2>3
  <1>6. QED
    BY <1>2, <1>3, <1>4, <1>5

(* Leases last as long as renewed_at says, and are released in order.       *)
THEOREM InductiveInvariant == Spec => []Inductive
  <1>1. Inductive /\ [Next]_vars => Inductive'
    <2> SUFFICES ASSUME Inductive, [Next]_vars PROVE Inductive'
      OBVIOUS
    <2>1. TypeOK'
      BY TypeStep DEF Inductive
    <2>2. CASE Next
      BY <2>1, <2>2, LocalStepInductive, RemoteStepInductive, EnvironmentInductive
      DEF Next, Thread, Inductive
    <2>3. CASE UNCHANGED vars
      BY <2>1, <2>3, FrameStream
      DEF vars, Inductive, LeaseInv, ReleaseInv, SameStream, redis
    <2>4. QED BY <2>2, <2>3
  <1>2. QED
    BY InitInductive, <1>1, PTL DEF Spec

-----------------------------------------------------------------------------
(* No data frame leaves without an unexpired token behind it.               *)
THEOREM EmissionOwned == Spec => EmitOnlyWhileOwning
  <1>1. Inductive /\ [Next]_vars =>
          [\A s \in Stream : pc[s] # "yielded" /\ pc'[s] = "yielded" => Owns(s)]_vars
    <2> SUFFICES ASSUME Inductive, Next, NEW s \in Stream,
                        pc[s] # "yielded", pc'[s] = "yielded"
                 PROVE  Owns(s)
      OBVIOUS
    <2>1. /\ LeaseSafe(s) /\ ReleaseSafe(s) /\ TypeOK /\ Tok(s) \in Token
          /\ score[Tok(s)] \in Int /\ age[s] \in 0 .. TTL /\ opAge[s] \in 0 .. MaxOp
          /\ due[s] \in Nat
      BY OpType DEF Inductive, LeaseInv, ReleaseInv, TypeOK
    <2>2. Emit(s) \/ AfterRenew(s)
      <3>1. PICK r \in Stream : \/ Thread(r) \/ View(r) \/ Body(r)
                                \/ Cancel(r) \/ ResponseClose(r) \/ Crash(r)
        BY DEF Next, KeyExpires, LateExecute, LateDrop, Tick
      <3>2. View(r) \/ Body(r)
        BY <2>1, <3>1
        DEF TypeOK, Thread, BodySkips, BodyExecutes, BodyFails, CloserExecutes,
            CloserFails, Cancel, ResponseClose, Crash, Goto
      <3>3. ~View(r)
        BY <2>1
        DEF TypeOK, View, Arrive, AfterAcquire, AfterCleanup, SourceStarts,
            SourceFails, AfterConfirm, AfterAbandon, Call, Return, Goto
      <3>4. Emit(r) \/ AfterRenew(r)
        BY <2>1, <3>2, <3>3
        DEF TypeOK, Body, Pull, WaitIsDue, SourceEnds, RenewCancelled, Disconnect,
            AfterStopping, CancelledAgain, AfterClosing, Finally, Close, StopPending,
            Call, Return, Goto
      <3>5. r = s
        BY <2>1, <3>4 DEF TypeOK, Emit, AfterRenew, Return, Goto
      <3>6. QED BY <3>4, <3>5
    <2>3. CASE Emit(s)
      <3>1. pc[s] = "wait" /\ due[s] > 0 /\ ~closed[s]
        BY <2>1, <2>3 DEF Emit, ReleaseSafe
      <3>2. age[s] < TTL
        BY <2>1, <3>1, TimingAssumption DEF LeaseSafe
      <3>3. QED
        BY <2>1, <3>1, <3>2, TimingAssumption DEF LeaseSafe, Relying, Owns
    <2>4. CASE AfterRenew(s)
      <3>1. pc[s] \in {"renew_wait", "renew_emit"} /\ ~closed[s]
        BY <2>1, <2>4 DEF AfterRenew, ReleaseSafe, Renewing
      <3>2. reply[s] = "yes" \/ MayStillOwn(s)
        BY <2>1, <2>4 DEF TypeOK, AfterRenew, Return, Goto
      <3>3. QED
        BY <2>1, <3>1, <3>2, TimingAssumption
        DEF LeaseSafe, MayStillOwn, Relying, Renewing, Owns
    <2>5. QED BY <2>2, <2>3, <2>4
  <1>2. QED
    BY InductiveInvariant, <1>1, PTL DEF Spec, EmitOnlyWhileOwning

-----------------------------------------------------------------------------
(* The store implements BoundedLeases.                                      *)

(* There are finitely many tokens, so live leases can be counted.           *)
LEMMA TokensFinite ==
    ASSUME NEW S \in SUBSET Token
    PROVE  IsFiniteSet(S) /\ Cardinality(S) \in Nat
  <1>1. IsFiniteSet({1, 2})
    <2>1. {1, 2} = {1} \cup {2}
      OBVIOUS
    <2>2. IsFiniteSet({1}) /\ IsFiniteSet({2})
      BY FS_Singleton
    <2>3. QED BY <2>1, <2>2, FS_Union
  <1>2. IsFiniteSet(Token)
    BY <1>1, FS_Product, StreamAssumption DEF Token
  <1>3. QED
    BY <1>2, FS_Subset, FS_CardinalityType

(* After ZREMRANGEBYSCORE the members are the live tokens.                  *)
LEMMA PurgeLeavesLive ==
    ASSUME TypeOK
    PROVE  Members(Purge(score)) = Live(score)
  BY DEF TypeOK, Members, Purge, Live, Absent

(* A command either grants its token, below the cap, or only ends leases.   *)
LEMMA ExecuteGrants ==
    ASSUME TypeOK, NEW op \in Ops, NEW t \in Token, Execute(op, t)
    PROVE  \/ /\ op = "acquire"
              /\ Cardinality(Live(score)) < Limit
              /\ Live(score') = Live(score) \cup {t}
              /\ granted' = granted \cup {t}
           \/ Live(score') \subseteq Live(score) /\ UNCHANGED granted
  <1> USE TimingAssumption DEF Ops, Absent, TypeOK, Execute, Live
  <1>1. CASE op = "acquire" /\ Admits(score)
    <2>1. Cardinality(Live(score)) < Limit
      BY <1>1, PurgeLeavesLive DEF Admits
    <2>2. Live(score') = Live(score) \cup {t}
      BY <1>1 DEF AfterAcquireScript, Purge
    <2>3. QED BY <1>1, <2>1, <2>2
  <1>2. CASE op = "acquire" /\ ~Admits(score)
    BY <1>2 DEF AfterAcquireScript, Purge
  <1>3. CASE op = "renew"
    BY <1>3 DEF AfterRenewScript, Renewable
  <1>4. CASE op = "release"
    BY <1>4 DEF AfterReleaseScript
  <1>5. QED BY <1>1, <1>2, <1>3, <1>4

(* An admission is executed at most once for a token: the command is either *)
(* running, or on its way, or granted, never two of them.                   *)
GrantSafe(s) ==
    /\ pc[s] = "acquire" /\ reply[s] = "busy" =>
           Tok(s) \notin granted /\ <<"acquire", Tok(s)>> \notin late
    /\ attempt[s] = 1 => <<s, 2>> \notin granted /\ <<"acquire", <<s, 2>>>> \notin late
    /\ pc[s] = "idle" =>
           /\ attempt[s] = 1
           /\ <<s, 1>> \notin granted /\ <<"acquire", <<s, 1>>>> \notin late
    /\ \A k \in {1, 2} : <<"acquire", <<s, k>>>> \in late => <<s, k>> \notin granted

GrantInv == \A s \in Stream : GrantSafe(s)

(* Commands that can grant: the one a coroutine waits for, or a late one.   *)
GrantStep(t) ==
    /\ t \notin granted
    /\ Cardinality(Live(score)) < Limit
    /\ Live(score') = Live(score) \cup {t}
    /\ granted' = granted \cup {t}

EndStep == Live(score') \subseteq Live(score) /\ UNCHANGED granted

(* Every step grants one lease below the cap or only ends leases.           *)
LEMMA StoreStep ==
    ASSUME TypeOK, GrantInv, [Next]_vars
    PROVE  (\E t \in Token : GrantStep(t)) \/ EndStep
  <1>1. ASSUME NEW op \in Ops, NEW t \in Token, Execute(op, t),
               op = "acquire" => t \notin granted
        PROVE  (\E u \in Token : GrantStep(u)) \/ EndStep
    BY <1>1, ExecuteGrants DEF GrantStep, EndStep
  <1>2. ASSUME UNCHANGED <<score, granted>>
        PROVE  EndStep
    BY <1>2 DEF EndStep
  <1>3. ASSUME NEW s \in Stream, Thread(s) \/ Crash(s)
        PROVE  (\E t \in Token : GrantStep(t)) \/ EndStep
    <2>1. Tok(s) \in Token /\ Op(s) \in Ops /\ "release" \in Ops
      BY OpType DEF Ops
    <2>2. (BodyExecutes(s) \/ BodyFails(s)) /\ Op(s) = "acquire" => Tok(s) \notin granted
      BY DEF BodyExecutes, BodyFails, GrantInv, GrantSafe, Op
    <2>3. CASE BodyExecutes(s) \/ BodyFails(s)
      BY <1>1, <1>2, <2>1, <2>2, <2>3 DEF BodyExecutes, BodyFails
    <2>4. CASE CloserExecutes(s) \/ CloserFails(s)
      BY <1>1, <1>2, <2>1, <2>4 DEF CloserExecutes, CloserFails
    <2>5. CASE BodySkips(s) \/ Crash(s)
      BY <1>2, <2>5 DEF BodySkips, Crash, redis
    <2>6. QED BY <1>3, <2>3, <2>4, <2>5 DEF Thread
  <1>4. ASSUME NEW s \in Stream, View(s) \/ Body(s) \/ Cancel(s) \/ ResponseClose(s)
        PROVE  UNCHANGED <<score, granted>>
    BY <1>4
    DEF View, Arrive, AfterAcquire, AfterCleanup, SourceStarts, SourceFails,
        AfterConfirm, AfterAbandon, Body, Pull, WaitIsDue, Emit, SourceEnds,
        AfterRenew, RenewCancelled, Disconnect, AfterStopping, CancelledAgain,
        AfterClosing, Cancel, ResponseClose, redis
  <1>5. CASE LateExecute
    <2>1. PICK c \in late : Execute(c[1], c[2])
      BY <1>5 DEF LateExecute
    <2>2. c[1] \in Ops /\ c[2] \in Token /\ c = <<c[1], c[2]>>
      BY DEF TypeOK, Ops
    <2>3. c[2][1] \in Stream /\ c[2][2] \in {1, 2} /\ c[2] = <<c[2][1], c[2][2]>>
      BY <2>2 DEF Token
    <2>4. c[1] = "acquire" => c[2] \notin granted
      BY <2>2, <2>3 DEF GrantInv, GrantSafe
    <2>5. QED BY <1>1, <2>1, <2>2, <2>4
  <1>6. CASE KeyExpires \/ LateDrop \/ Tick
    BY <1>6 DEF KeyExpires, LateDrop, Tick, EndStep, Live, Absent, Countdown, TypeOK
  <1>7. CASE UNCHANGED vars
    BY <1>2, <1>7 DEF vars
  <1>8. QED
    BY <1>2, <1>3, <1>4, <1>5, <1>6, <1>7 DEF Next

(* A step that sends no admission and leaves another stream's record alone. *)
LEMMA GrantFrame ==
    ASSUME NEW r \in Stream, GrantSafe(r),
           pc'[r] = pc[r] /\ attempt'[r] = attempt[r] /\ reply'[r] = reply[r],
           \A k \in {1, 2} : /\ <<r, k>> \in granted' => <<r, k>> \in granted
                             /\ <<"acquire", <<r, k>>>> \in late' =>
                                    <<"acquire", <<r, k>>>> \in late,
           attempt[r] \in {1, 2}
    PROVE  GrantSafe(r)'
  BY DEF GrantSafe, Tok

(* Only an admission adds to the granted tokens.                            *)
LEMMA GrantedByExecute ==
    ASSUME NEW op, NEW t, Execute(op, t)
    PROVE  /\ granted' \in {granted, granted \cup {t}}
           /\ op # "acquire" => granted' = granted
  BY DEF Execute

(* Steps that send nothing keep the grants fresh.                           *)
LEMMA LocalStepGrants ==
    ASSUME TypeOK, ReleaseInv, GrantInv, NEW s \in Stream,
           \/ BodySkips(s) \/ View(s) \/ Body(s) \/ Cancel(s) \/ ResponseClose(s)
    PROVE  GrantInv'
  <1>1. GrantSafe(s) /\ ReleaseSafe(s) /\ attempt[s] \in {1, 2}
    BY DEF GrantInv, ReleaseInv, TypeOK
  <1>2. UNCHANGED <<granted, late>>
    BY DEF BodySkips, View, Arrive, AfterAcquire, AfterCleanup, SourceStarts,
           SourceFails, AfterConfirm, AfterAbandon, Body, Pull, WaitIsDue, Emit,
           SourceEnds, AfterRenew, RenewCancelled, Disconnect, AfterStopping,
           CancelledAgain, AfterClosing, Cancel, ResponseClose, redis
  <1> SUFFICES GrantSafe(s)'
    BY <1>2, LocalFrame, GrantFrame DEF GrantInv, SameStream, TypeOK
  <1> USE <1>1, <1>2 DEF GrantSafe, TypeOK, Call, Return, Goto, Tok
  <1>3. CASE BodySkips(s) \/ Cancel(s) \/ ResponseClose(s)
    BY <1>3 DEF BodySkips, Cancel, ResponseClose
  <1>4. CASE View(s)
    <2>1. CASE Arrive(s)
      BY <2>1 DEF Arrive
    <2>2. CASE AfterCleanup(s)
      BY <2>2 DEF AfterCleanup, Retries
    <2>3. CASE AfterAcquire(s)
      BY <2>3 DEF AfterAcquire
    <2>4. CASE SourceStarts(s) \/ SourceFails(s) \/ AfterConfirm(s) \/ AfterAbandon(s)
      BY <2>4 DEF SourceStarts, SourceFails, AfterConfirm, AfterAbandon
    <2>5. QED BY <1>4, <2>1, <2>2, <2>3, <2>4 DEF View
  <1>5. CASE Body(s)
    <2>1. attempt' = attempt /\ pc'[s] \notin {"acquire", "idle"}
      <3>1. CASE AfterRenew(s)
        BY <3>1 DEF AfterRenew, Continues
      <3>2. CASE ~AfterRenew(s)
        BY <1>5, <3>2 DEF Body, Pull, WaitIsDue, Emit, SourceEnds, RenewCancelled,
                          Disconnect, AfterStopping, CancelledAgain, AfterClosing,
                          Finally, Close, StopPending
      <3>3. QED BY <3>1, <3>2
    <2>2. QED BY <2>1
  <1>6. QED BY <1>3, <1>4, <1>5

(* Steps that execute a command keep the grants fresh.                      *)
LEMMA RemoteStepGrants ==
    ASSUME TypeOK, ReleaseInv, GrantInv, NEW s \in Stream,
           \/ BodyExecutes(s) \/ BodyFails(s) \/ CloserExecutes(s) \/ CloserFails(s)
           \/ Crash(s)
    PROVE  GrantInv'
  <1>1. GrantSafe(s) /\ ReleaseSafe(s) /\ attempt[s] \in {1, 2} /\ Tok(s) \in Token
    BY OpType DEF GrantInv, ReleaseInv, TypeOK
  <1>2. /\ granted' \in {granted, granted \cup {Tok(s)}}
        /\ late' \in SUBSET (late \cup {<<Op(s), Tok(s)>>, <<"release", Tok(s)>>})
    BY GrantedByExecute
    DEF BodyExecutes, BodyFails, CloserExecutes, CloserFails, Crash, redis
  <1> SUFFICES GrantSafe(s)'
    <2>1. ASSUME NEW r \in Stream \ {s}, NEW k \in {1, 2}
          PROVE  /\ <<r, k>> \in granted' => <<r, k>> \in granted
                 /\ <<"acquire", <<r, k>>>> \in late' => <<"acquire", <<r, k>>>> \in late
      BY <1>2 DEF Tok
    <2>2. \A r \in Stream \ {s} : GrantSafe(r)'
      BY <2>1, RemoteFrame, GrantFrame DEF GrantInv, SameStream, TypeOK
    <2>3. QED BY <2>2 DEF GrantInv
  <1> USE <1>1 DEF GrantSafe, Tok
  <1>3. CASE BodyExecutes(s) \/ BodyFails(s)
    <2>1. /\ pc' = pc /\ attempt' = attempt /\ reply[s] = "busy" /\ reply'[s] # "busy"
      BY <1>3, AnswerType DEF BodyExecutes, BodyFails, TypeOK
    <2>2. \/ UNCHANGED granted
          \/ late' = late /\ Op(s) = "acquire"
      BY <1>3, GrantedByExecute DEF BodyExecutes, BodyFails
    <2>3. Op(s) = "acquire" <=> pc[s] = "acquire"
      BY DEF Op
    <2>4. QED BY <1>2, <2>1, <2>2, <2>3
  <1>4. CASE CloserExecutes(s) \/ CloserFails(s)
    <2>1. UNCHANGED <<pc, attempt, reply, granted>>
      BY <1>4, GrantedByExecute DEF CloserExecutes, CloserFails
    <2>2. late' \in SUBSET (late \cup {<<"release", Tok(s)>>})
      BY <1>4 DEF CloserExecutes, CloserFails
    <2>3. QED BY <2>1, <2>2
  <1>5. CASE Crash(s)
    <2>1. pc'[s] = "crashed" /\ UNCHANGED <<attempt, granted>> /\ pc[s] # "idle"
      BY <1>5 DEF Crash, Goto, TypeOK
    <2>2. late' = IF reply[s] = "busy" THEN late \cup {<<Op(s), Tok(s)>>} ELSE late
      BY <1>5 DEF Crash
    <2>3. Op(s) = "acquire" <=> pc[s] = "acquire"
      BY DEF Op
    <2>4. QED BY <2>1, <2>2, <2>3
  <1>6. QED BY <1>3, <1>4, <1>5

(* Late commands, key expiry and time keep the grants fresh.                *)
LEMMA EnvironmentGrants ==
    ASSUME TypeOK, GrantInv, KeyExpires \/ LateExecute \/ LateDrop \/ Tick
    PROVE  GrantInv'
  <1> SUFFICES ASSUME NEW r \in Stream
               PROVE  GrantSafe(r)'
    BY DEF GrantInv
  <1>1. GrantSafe(r) /\ attempt[r] \in {1, 2}
    BY DEF GrantInv, TypeOK
  <1>2. CASE LateExecute
    <2>1. PICK c \in late : Execute(c[1], c[2]) /\ late' = late \ {c}
      BY <1>2 DEF LateExecute
    <2>2. c = <<c[1], c[2]>>
      BY DEF TypeOK
    <2>3. UNCHANGED <<pc, attempt, reply>>
      BY <1>2 DEF LateExecute
    <2>4. granted' \in {granted, granted \cup {c[2]}}
          /\ (c[1] # "acquire" => granted' = granted)
      BY <2>1, GrantedByExecute
    <2>5. QED BY <1>1, <2>1, <2>2, <2>3, <2>4 DEF GrantSafe, Tok
  <1>3. CASE KeyExpires \/ LateDrop \/ Tick
    BY <1>1, <1>3, GrantFrame DEF KeyExpires, LateDrop, Tick
  <1>4. QED BY <1>2, <1>3

(* A token that was not yet sent was never granted.                         *)
LEMMA GrantInvariant == Spec => []GrantInv
  <1>1. Init => GrantInv
    BY DEF Init, GrantInv, GrantSafe
  <1>2. Inductive /\ GrantInv /\ [Next]_vars => GrantInv'
    <2> SUFFICES ASSUME Inductive, GrantInv, [Next]_vars PROVE GrantInv'
      OBVIOUS
    <2>1. CASE Next
      BY <2>1, LocalStepGrants, RemoteStepGrants, EnvironmentGrants
      DEF Next, Thread, Inductive
    <2>2. CASE UNCHANGED vars
      BY <2>2 DEF vars, GrantInv, GrantSafe, Tok
    <2>3. QED BY <2>1, <2>2
  <1>3. QED
    BY <1>1, <1>2, InductiveInvariant, PTL DEF Spec

(* The sorted set, its scripts, the retries and every lost or late command  *)
(* together implement the abstract store: at most Limit live leases, each   *)
(* granted once, none alive again after it ended.                           *)
THEOREM Refinement == Spec => LeasesSpec
  <1>1. Init => Leases!Init
    BY DEF Init, Leases!Init, Live, Absent
  <1>2. TypeOK /\ GrantInv /\ [Next]_vars => [Leases!Next]_(Leases!vars)
    <2> SUFFICES ASSUME TypeOK, GrantInv, [Next]_vars
                 PROVE  Leases!Next
      OBVIOUS
    <2>1. Live(score)' = Live(score')
      BY DEF Live
    <2>2. ASSUME NEW t \in Token, GrantStep(t)
          PROVE  Leases!Grant(t)
      <3>1. Leases!Cardinality(Live(score)) = Cardinality(Live(score))
        BY DEF Cardinality, Leases!Cardinality
      <3>2. QED BY <2>1, <2>2, <3>1 DEF GrantStep, Leases!Grant
    <2>3. ASSUME EndStep
          PROVE  Leases!End
      BY <2>1, <2>3 DEF EndStep, Leases!End
    <2>4. QED BY StoreStep, <2>2, <2>3 DEF Leases!Next
  <1>3. QED
    BY <1>1, <1>2, Typing, GrantInvariant, PTL DEF Spec, LeasesSpec, Leases!Spec

-----------------------------------------------------------------------------
(* The cap on the streams that deliver.                                     *)

LiveWithinCap == Cardinality(Live(score)) <= Limit

(* Every step keeps the number of live leases within the cap.               *)
LEMMA StoreStepWithinCap ==
    ASSUME TypeOK, GrantInv, LiveWithinCap, [Next]_vars
    PROVE  LiveWithinCap'
  <1>1. /\ Live(score) \in SUBSET Token /\ Limit \in Nat
        /\ IsFiniteSet(Live(score)) /\ Cardinality(Live(score)) \in Nat
    BY TokensFinite, StreamAssumption DEF Live
  <1>2. Live(score)' = Live(score')
    BY DEF Live
  <1>3. CASE \E t \in Token : GrantStep(t)
    <2>1. PICK t \in Token : GrantStep(t)
      BY <1>3
    <2>2. Cardinality(Live(score) \cup {t}) <= Cardinality(Live(score)) + 1
      <3>1. Cardinality(Live(score) \cup {t})
              = IF t \in Live(score) THEN Cardinality(Live(score))
                                     ELSE Cardinality(Live(score)) + 1
        BY <1>1, FS_AddElement, Zenon
      <3>2. QED BY <1>1, <3>1
    <2>3. Cardinality(Live(score')) <= Cardinality(Live(score)) + 1
      BY <2>1, <2>2 DEF GrantStep
    <2>4. IsFiniteSet(Live(score')) /\ Cardinality(Live(score')) \in Nat
      BY TokensFinite DEF Live
    <2>5. QED BY <1>1, <1>2, <2>1, <2>3, <2>4 DEF GrantStep, LiveWithinCap
  <1>4. CASE EndStep
    <2>1. Cardinality(Live(score')) <= Cardinality(Live(score))
      BY <1>1, <1>4, FS_Subset DEF EndStep
    <2>2. Cardinality(Live(score')) \in Nat
      BY TokensFinite DEF Live
    <2>3. QED BY <1>1, <1>2, <2>1, <2>2 DEF LiveWithinCap
  <1>5. QED BY <1>3, <1>4, StoreStep

(* A stream that may emit is backed by a live token of its own.             *)
LEMMA EmittersAreBacked ==
    ASSUME TypeOK, LeaseInv, ReleaseInv
    PROVE  \A s \in Stream : MayEmit(s) => Tok(s) \in Live(score)
  <1> SUFFICES ASSUME NEW s \in Stream, MayEmit(s)
               PROVE  Tok(s) \in Live(score)
    OBVIOUS
  <1>1. /\ LeaseSafe(s) /\ ReleaseSafe(s) /\ Tok(s) \in Token
        /\ score[Tok(s)] \in Int /\ age[s] \in 0 .. TTL /\ due[s] \in Nat
    BY OpType DEF LeaseInv, ReleaseInv, TypeOK
  <1>2. pc[s] = "wait" /\ due[s] > 0 /\ ~closed[s]
    BY <1>1 DEF MayEmit, ReleaseSafe
  <1>3. age[s] < TTL
    BY <1>1, <1>2, TimingAssumption DEF LeaseSafe
  <1>4. score[Tok(s)] > 0
    BY <1>1, <1>2, <1>3, TimingAssumption DEF LeaseSafe, Relying
  <1>5. QED BY <1>1, <1>4 DEF Live

(* The cap of SSE_MAX_CONNECTIONS_PER_USER holds for the streams that can   *)
(* deliver data, for every number of streams and every timing allowed.      *)
THEOREM EmittersCapped == Spec => []EmittersWithinCap
  <1>1. Init => LiveWithinCap
    <2> SUFFICES ASSUME Init PROVE LiveWithinCap
      OBVIOUS
    <2>1. Live(score) = {}
      BY DEF Init, Live, Absent
    <2>2. QED BY <2>1, FS_EmptySet, StreamAssumption DEF LiveWithinCap
  <1>2. TypeOK /\ GrantInv /\ LiveWithinCap /\ [Next]_vars => LiveWithinCap'
    BY StoreStepWithinCap
  <1>3. Inductive /\ LiveWithinCap => EmittersWithinCap
    <2> SUFFICES ASSUME Inductive, LiveWithinCap PROVE EmittersWithinCap
      OBVIOUS
    <2> DEFINE Emitters == {s \in Stream : MayEmit(s)}
               token == [s \in Emitters |-> Tok(s)]
    <2>1. token \in Injection(Emitters, Live(score))
      BY EmittersAreBacked DEF Inductive, Injection, IsInjective, Tok
    <2>2. /\ IsFiniteSet(Live(score)) /\ Cardinality(Live(score)) \in Nat
          /\ Limit \in Nat
      BY TokensFinite, StreamAssumption DEF Live
    <2>3. Cardinality(Emitters) <= Cardinality(Live(score)) /\ IsFiniteSet(Emitters)
      BY <2>1, <2>2, FS_Injection
    <2>4. Cardinality(Emitters) \in Nat
      BY <2>3, FS_CardinalityType
    <2>5. QED BY <2>2, <2>3, <2>4 DEF EmittersWithinCap, LiveWithinCap
  <1>4. QED
    BY <1>1, <1>2, <1>3, Typing, InductiveInvariant, GrantInvariant, PTL DEF Spec

(* The two lemmas of the design, as invariants of the specification: what   *)
(* renewed_at guarantees, and who may still touch a lease.                  *)
COROLLARY LeasesHold == Spec => []LeaseInv
  BY InductiveInvariant, PTL DEF Inductive

(* Nothing releases a token that a running stream still relies on.          *)
COROLLARY ReleasesOrdered == Spec => []ReleaseInv
  BY InductiveInvariant, PTL DEF Inductive

-----------------------------------------------------------------------------
(* Nothing leaks.                                                           *)

(* An open source belongs to a stream that is served and whose response     *)
(* nobody has closed.                                                       *)
Served == Renewing \cup {"served", "wait", "yielded", "ending", "stopping", "dropped"}
SourceSafe(s) == source[s] = "open" => pc[s] \in Served /\ closer[s] = "none"

(* Without a fault there is one attempt, of which nothing is on its way, a   *)
(* stream is over only with its lease closed or never granted, and the      *)
(* token of such a lease is gone for good.                                  *)
Gone(s) ==
    \/ closed[s] \/ pc[s] \in {"idle", "refused"}
    \/ pc[s] = "acquire" /\ reply[s] \in {"busy", "no"}
    \/ pc[s] = "cleanup" /\ reply[s] \in Settled
SlotSafe(s) ==
    faults[s] = 0 =>
        /\ attempt[s] = 1 /\ reply[s] # "error"
        /\ pc[s] = "cleanup" => cancelled[s]
        /\ \A c \in late : Owner(c[2]) # s
        /\ score[<<s, 2>>] = Absent
        /\ pc[s] = "done" \/ closer[s] = "done" => closed[s]
        /\ pc[s] \in Releasing /\ reply[s] \in Settled => closed[s]
        /\ Gone(s) => score[<<s, 1>>] = Absent
LeakInv == \A s \in Stream : SourceSafe(s) /\ SlotSafe(s)

LEMMA InitLeaks == Init => LeakInv
  BY DEF Init, LeakInv, SourceSafe, SlotSafe, Releasing, Token

(* A command admits no token but its own, and its own only if it says so.   *)
LEMMA ExecuteRemoves ==
    ASSUME TypeOK, NEW op \in Ops, NEW t \in Token, Execute(op, t)
    PROVE  /\ \A u \in Token : u # t /\ score[u] = Absent => score'[u] = Absent
           /\ op = "release" => score'[t] = Absent
           /\ op = "acquire" /\ Answer(op, t) = "no" /\ score[t] = Absent => score'[t] = Absent
  <1> USE TimingAssumption DEF Ops, Absent
  <1>1. CASE op = "acquire"
    BY <1>1 DEF TypeOK, Execute, AfterAcquireScript, Purge, Answer
  <1>2. CASE op = "renew"
    BY <1>2 DEF TypeOK, Execute, AfterRenewScript, Renewable
  <1>3. CASE op = "release"
    BY <1>3 DEF TypeOK, Execute, AfterReleaseScript
  <1>4. QED BY <1>1, <1>2, <1>3

(* A stream keeps its part while nothing but the life of its tokens changes. *)
LEMMA LeakFrame ==
    ASSUME NEW r \in Stream, SourceSafe(r), SlotSafe(r), SameStream(r),
           source'[r] = source[r], faults'[r] = faults[r], cancelled'[r] = cancelled[r],
           \A k \in {1, 2} : score[<<r, k>>] = Absent => score'[<<r, k>>] = Absent,
           \A c \in late' : Owner(c[2]) = r => c \in late
    PROVE  SourceSafe(r)' /\ SlotSafe(r)'
  <1>1. SourceSafe(r)'
    BY DEF SourceSafe, SameStream
  <1>2. Gone(r)' <=> Gone(r)
    BY DEF Gone, SameStream
  <1>3. SlotSafe(r)'
    BY <1>2 DEF SlotSafe, SameStream
  <1>4. QED BY <1>1, <1>3

LEMMA LocalStepLeaks ==
    ASSUME Inductive, LeakInv, NEW s \in Stream,
           \/ BodySkips(s) \/ View(s) \/ Body(s) \/ Cancel(s) \/ ResponseClose(s)
    PROVE  LeakInv'
  <1>1. SourceSafe(s) /\ SlotSafe(s) /\ ReleaseSafe(s) /\ TypeOK
    BY DEF Inductive, ReleaseInv, LeakInv
  <1>2. UNCHANGED <<redis, faults>> /\ \A r \in Stream \ {s} : /\ source'[r] = source[r]
                                                             /\ cancelled'[r] = cancelled[r]
    <2> USE <1>1 DEF TypeOK, CloseSource
    <2>1. CASE BodySkips(s) \/ Cancel(s) \/ ResponseClose(s)
      BY <2>1 DEF BodySkips, Cancel, ResponseClose
    <2>2. CASE View(s)
      BY <2>2 DEF View, Arrive, AfterAcquire, AfterCleanup, SourceStarts, SourceFails,
                  AfterConfirm, AfterAbandon
    <2>3. CASE Body(s)
      BY <2>3 DEF Body, Pull, WaitIsDue, Emit, SourceEnds, AfterRenew, RenewCancelled,
                  Disconnect, AfterStopping, CancelledAgain, AfterClosing,
                  Finally, Close, StopPending
    <2>4. QED BY <2>1, <2>2, <2>3
  <1>3. \A r \in Stream \ {s} : SourceSafe(r)' /\ SlotSafe(r)'
    BY <1>1, <1>2, LocalFrame, LeakFrame DEF LeakInv, redis
  <1>4. SUFFICES SourceSafe(s)' /\ SlotSafe(s)'
    BY <1>3 DEF LeakInv
  <1> USE <1>1
      DEF TypeOK, redis, timers, Call, Return, Goto, CloseSource, Gone, Served,
          Relying, Acquiring, Renewing, Releasing, Settled, SourceSafe, SlotSafe,
          Finally, Close, StopPending
  <1>5. CASE BodySkips(s)
    BY <1>5 DEF BodySkips, LeaseClosed, ReleaseSafe
  <1>6. CASE View(s)
    <2>1. CASE Arrive(s)
      BY <2>1 DEF Arrive, ReleaseSafe
    <2>2. CASE AfterAcquire(s)
      BY <2>2 DEF AfterAcquire, ReleaseSafe
    <2>3. CASE AfterCleanup(s)
      BY <2>3 DEF AfterCleanup, Retries, ReleaseSafe
    <2>4. CASE SourceStarts(s)
      BY <2>4 DEF SourceStarts, ReleaseSafe
    <2>5. CASE SourceFails(s)
      BY <2>5 DEF SourceFails, ReleaseSafe
    <2>6. CASE AfterConfirm(s)
      BY <2>6 DEF AfterConfirm, ReleaseSafe
    <2>7. CASE AfterAbandon(s)
      BY <2>7 DEF AfterAbandon, ReleaseSafe
    <2>8. QED
      BY <1>6, <2>1, <2>2, <2>3, <2>4, <2>5, <2>6, <2>7 DEF View
  <1>7. CASE Body(s)
    <2>1. CASE Pull(s)
      BY <2>1 DEF Pull, ReleaseSafe
    <2>2. CASE WaitIsDue(s)
      BY <2>2 DEF WaitIsDue, ReleaseSafe
    <2>3. CASE Emit(s)
      BY <2>3 DEF Emit, ReleaseSafe
    <2>4. CASE SourceEnds(s)
      BY <2>4 DEF SourceEnds, ReleaseSafe
    <2>5. CASE AfterRenew(s)
      BY <2>5 DEF AfterRenew, Continues, ReleaseSafe
    <2>6. CASE RenewCancelled(s)
      BY <2>6 DEF RenewCancelled, ReleaseSafe
    <2>7. CASE Disconnect(s)
      BY <2>7 DEF Disconnect, ReleaseSafe
    <2>8. CASE AfterStopping(s)
      BY <2>8 DEF AfterStopping, ReleaseSafe
    <2>9. CASE CancelledAgain(s)
      BY <2>9 DEF CancelledAgain, ReleaseSafe
    <2>10. CASE AfterClosing(s)
      BY <2>10 DEF AfterClosing, ReleaseSafe
    <2>11. QED
      BY <1>7, <2>1, <2>2, <2>3, <2>4, <2>5, <2>6, <2>7, <2>8, <2>9, <2>10
      DEF Body
  <1>8. CASE Cancel(s)
    BY <1>8 DEF Cancel
  <1>9. CASE ResponseClose(s)
    BY <1>9 DEF ResponseClose
  <1>10. QED BY <1>5, <1>6, <1>7, <1>8, <1>9

LEMMA RemoteStepLeaks ==
    ASSUME Inductive, LeakInv, NEW s \in Stream,
           \/ BodyExecutes(s) \/ BodyFails(s) \/ CloserExecutes(s) \/ CloserFails(s)
           \/ Crash(s)
    PROVE  LeakInv'
  <1>1. /\ SourceSafe(s) /\ SlotSafe(s) /\ ReleaseSafe(s) /\ TypeOK
        /\ Tok(s) \in Token /\ Op(s) \in Ops
        /\ <<s, 1>> \in Token /\ <<s, 2>> \in Token
    BY OpType DEF Inductive, ReleaseInv, LeakInv, Token
  <1>2. \/ Execute(Op(s), Tok(s)) \/ Execute("release", Tok(s)) \/ UNCHANGED score
    BY DEF redis, BodyExecutes, BodyFails, CloserExecutes, CloserFails, Crash
  <1>3. \A r \in Stream \ {s} : SourceSafe(r)' /\ SlotSafe(r)'
    <2>1. SUFFICES ASSUME NEW r \in Stream \ {s} PROVE SourceSafe(r)' /\ SlotSafe(r)'
      OBVIOUS
    <2>2. \A k \in {1, 2} : <<r, k>> \in Token /\ <<r, k>> # Tok(s)
      BY DEF Token, Tok
    <2>3. \A k \in {1, 2} : score[<<r, k>>] = Absent => score'[<<r, k>>] = Absent
      BY <1>1, <1>2, <2>2, ExecuteRemoves DEF Ops
    <2>4. SameStream(r)
      BY <1>1, <2>1, RemoteFrame
    <2>5. source'[r] = source[r] /\ faults'[r] = faults[r] /\ cancelled'[r] = cancelled[r]
      BY <1>1 DEF TypeOK, BodyExecutes, BodyFails, CloserExecutes, CloserFails, Crash
    <2>6. \A c \in late' : Owner(c[2]) = r => c \in late
      BY DEF Tok, Owner, redis, BodyExecutes, BodyFails, CloserExecutes, CloserFails, Crash
    <2>7. QED BY <2>3, <2>4, <2>5, <2>6, LeakFrame DEF LeakInv
  <1>4. SUFFICES SourceSafe(s)' /\ SlotSafe(s)'
    BY <1>3 DEF LeakInv
  <1>5. CASE BodyExecutes(s)
    <2>1. /\ UNCHANGED <<late, pc, attempt, cancelled, closer, source, timers, faults>>
          /\ ~LeaseClosed(s) /\ Execute(Op(s), Tok(s)) /\ reply[s] = "busy"
          /\ reply'[s] = Answer(Op(s), Tok(s))
          /\ closed'[s] = (closed[s] \/ ClosesLease(s))
      BY <1>1, <1>5 DEF BodyExecutes, TypeOK
    <2>2. SourceSafe(s)'
      BY <1>1, <2>1 DEF SourceSafe
    <2>3. SUFFICES ASSUME faults[s] = 0 PROVE SlotSafe(s)'
      BY <2>1, <2>2 DEF SlotSafe
    <2>4. Tok(s) = <<s, 1>> /\ Tok(s) # <<s, 2>>
      BY <1>1, <2>3 DEF SlotSafe, Tok
    <2>5. score'[<<s, 2>>] = Absent
      BY <1>1, <2>1, <2>3, <2>4, ExecuteRemoves DEF SlotSafe
    <2>6. Gone(s)' => score'[<<s, 1>>] = Absent
      <3>1. CASE Op(s) = "release"
        BY <1>1, <2>1, <2>4, <3>1, ExecuteRemoves
      <3>2. CASE Op(s) = "acquire"
        <4>1. pc[s] = "acquire" /\ ~closed[s] /\ score[<<s, 1>>] = Absent
          BY <1>1, <2>1, <2>3, <3>2 DEF Op, SlotSafe, Gone, ReleaseSafe, Acquiring
        <4>2. ~closed'[s] /\ pc'[s] = "acquire"
          BY <2>1, <4>1 DEF ClosesLease, Releasing
        <4>3. Gone(s)' => reply'[s] = "no"
          BY <2>1, <4>2, AnswerType DEF Gone
        <4>4. reply'[s] = "no" => score'[<<s, 1>>] = Absent
          BY <1>1, <2>1, <2>4, <3>2, <4>1, ExecuteRemoves
        <4>5. QED BY <4>3, <4>4
      <3>3. CASE Op(s) = "renew"
        <4>1. pc[s] \in Renewing
          BY <3>3 DEF Op
        <4>2. ~closed'[s] /\ pc'[s] \in Renewing
          BY <1>1, <2>1, <4>1 DEF ReleaseSafe, ClosesLease, Releasing, Renewing
        <4>3. ~Gone(s)'
          BY <4>2 DEF Gone, Renewing
        <4>4. QED BY <4>3
      <3>4. QED BY <1>1, <3>1, <3>2, <3>3 DEF Ops
    <2>7. reply'[s] # "error"
      BY <2>1, AnswerType
    <2>8. pc[s] \in Releasing => closed'[s]
      BY <2>1 DEF ClosesLease
    <2>9. QED
      BY <1>1, <2>1, <2>3, <2>5, <2>6, <2>7, <2>8 DEF SlotSafe
  <1>6. CASE CloserExecutes(s)
    <2>1. /\ UNCHANGED <<late, pc, attempt, reply, cancelled, source, faults>>
          /\ closer[s] = "busy" /\ closed'[s] /\ closer'[s] = "done"
          /\ IF closed[s] THEN UNCHANGED score ELSE Execute("release", Tok(s))
      BY <1>1, <1>6 DEF CloserExecutes, TypeOK
    <2>2. SourceSafe(s)'
      BY <1>1, <2>1 DEF SourceSafe
    <2>3. SUFFICES ASSUME faults[s] = 0 PROVE SlotSafe(s)'
      BY <2>1, <2>2 DEF SlotSafe
    <2>4. Tok(s) = <<s, 1>> /\ Tok(s) # <<s, 2>>
      BY <1>1, <2>3 DEF SlotSafe, Tok
    <2>5. score'[<<s, 1>>] = Absent /\ score'[<<s, 2>>] = Absent
      BY <1>1, <2>1, <2>3, <2>4, ExecuteRemoves DEF SlotSafe, Gone, Ops
    <2>6. QED BY <1>1, <2>1, <2>3, <2>5 DEF SlotSafe
  <1>7. CASE BodyFails(s) \/ CloserFails(s) \/ Crash(s)
    <2>1. faults'[s] # 0
      BY <1>1, <1>7 DEF TypeOK, BodyFails, CloserFails, Crash
    <2>2. SourceSafe(s)'
      BY <1>1, <1>7 DEF SourceSafe, TypeOK, BodyFails, CloserFails, Crash
    <2>3. QED BY <2>1, <2>2 DEF SlotSafe
  <1>8. QED BY <1>5, <1>6, <1>7

LEMMA EnvironmentLeaks ==
    ASSUME Inductive, LeakInv, KeyExpires \/ LateExecute \/ LateDrop \/ Tick
    PROVE  LeakInv'
  <1>1. SUFFICES ASSUME NEW r \in Stream PROVE SourceSafe(r)' /\ SlotSafe(r)'
    BY DEF LeakInv
  <1>2. /\ SourceSafe(r) /\ SlotSafe(r) /\ TypeOK
        /\ \A k \in {1, 2} : <<r, k>> \in Token /\ Owner(<<r, k>>) = r
    BY DEF Inductive, LeakInv, Token, Owner
  <1>3. /\ UNCHANGED <<pc, attempt, reply, cancelled, closed, closer, source, faults>>
        /\ late' \subseteq late
    BY DEF KeyExpires, LateExecute, LateDrop, Tick
  <1>4. SourceSafe(r)'
    BY <1>2, <1>3 DEF SourceSafe
  <1>5. SUFFICES ASSUME faults[r] = 0 PROVE SlotSafe(r)'
    BY <1>3, <1>4 DEF SlotSafe
  <1>6. \A k \in {1, 2} : score[<<r, k>>] = Absent => score'[<<r, k>>] = Absent
    <2>1. CASE KeyExpires
      BY <1>2, <2>1 DEF KeyExpires
    <2>2. CASE LateExecute
      <3>1. PICK c \in late : Execute(c[1], c[2])
        BY <2>2 DEF LateExecute
      <3>2. c[1] \in Ops /\ c[2] \in Token /\ Owner(c[2]) # r
        BY <1>2, <1>5 DEF TypeOK, Ops, SlotSafe
      <3>3. QED BY <1>2, <3>1, <3>2, ExecuteRemoves
    <2>3. CASE LateDrop
      BY <2>3 DEF LateDrop
    <2>4. CASE Tick
      BY <1>2, <2>4 DEF Tick, Countdown, Absent
    <2>5. QED BY <2>1, <2>2, <2>3, <2>4
  <1>7. Gone(r)' <=> Gone(r)
    BY <1>3 DEF Gone
  <1>8. QED BY <1>2, <1>3, <1>5, <1>6, <1>7 DEF SlotSafe

(* Every way out of the view, the generator and response.close() gives the  *)
(* slot back and closes the source: unless a fault hit the stream, none of  *)
(* its tokens stays in Redis once it is over; its source is closed even so. *)
(* A generator that is cancelled again while it stops its pending call has  *)
(* closed nothing: it is over, for this purpose, with response.close().     *)
THEOREM NoLeaks == Spec => []NothingLeaks
  <1>1. Inductive /\ LeakInv /\ [Next]_vars => LeakInv'
    <2> SUFFICES ASSUME Inductive, LeakInv, [Next]_vars PROVE LeakInv'
      OBVIOUS
    <2>1. CASE Next
      BY <2>1, LocalStepLeaks, RemoteStepLeaks, EnvironmentLeaks DEF Next, Thread
    <2>2. CASE UNCHANGED vars
      BY <2>2, LeakFrame DEF vars, LeakInv, SameStream
    <2>3. QED BY <2>1, <2>2
  <1>2. LeakInv => NothingLeaks
    <2> SUFFICES ASSUME LeakInv, NEW s \in Stream, Finished(s)
                 PROVE  /\ source[s] # "open"
                        /\ faults[s] = 0 => \A k \in {1, 2} : score[<<s, k>>] = Absent
      BY DEF NothingLeaks
    <2>1. SourceSafe(s) /\ SlotSafe(s)
      BY DEF LeakInv
    <2>2. source[s] # "open"
      BY <2>1 DEF SourceSafe, Finished, Served, Renewing
    <2>3. faults[s] = 0 => score[<<s, 1>>] = Absent /\ score[<<s, 2>>] = Absent
      BY <2>1 DEF SlotSafe, Finished, Gone
    <2>4. QED BY <2>2, <2>3
  <1>3. QED
    BY InitLeaks, <1>1, <1>2, InductiveInvariant, PTL DEF Spec
=============================================================================
