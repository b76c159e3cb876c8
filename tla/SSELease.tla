------------------------------ MODULE SSELease ------------------------------
(***************************************************************************)
(* The optional cap on concurrent SSE streams of one account:              *)
(* transports/_sse_lease.py (Redis leases) and the part of                 *)
(* transports/sse.py that acquires, renews and releases them.              *)
(*                                                                         *)
(* One Redis sorted set holds the tokens of one account.  Each stream is   *)
(* the coroutine of one request, first the view and then the body          *)
(* generator; response.close() is a second actor that may run beside it.   *)
(* Every Redis command runs in a worker thread that the coroutine waits    *)
(* for even when it is cancelled (_run_blocking).  Time is kept as         *)
(* countdown and age timers that Tick moves, so no clock has to be capped. *)
(***************************************************************************)
EXTENDS Integers, FiniteSets

CONSTANTS
    Stream,        \* requests that open a stream for the account
    Limit,         \* SSE_MAX_CONNECTIONS_PER_USER
    TTL,           \* _TTL_MS
    RenewInterval, \* _RENEW_INTERVAL
    RetryInterval, \* _RETRY_INTERVAL
    SafetyMargin,  \* _SAFETY_MARGIN
    MaxOp,         \* longest time from sending a renewal to resuming with its reply
    MaxFaults,     \* bound: faults injected per stream
    MaxFaulty      \* bound: streams that faults are injected into

ASSUME StreamAssumption ==
    /\ IsFiniteSet(Stream)
    /\ Limit \in Nat \ {0}
    /\ MaxFaults \in Nat
    /\ MaxFaulty \in Nat

(* What the constants 45 / 15 / 5 / 5 have to satisfy.  MaxOp is the only   *)
(* one the code does not fix: 30 seconds or less satisfy the last conjunct. *)
ASSUME TimingAssumption ==
    /\ TTL \in Nat /\ RenewInterval \in Nat /\ RetryInterval \in Nat
    /\ SafetyMargin \in Nat /\ MaxOp \in Nat
    /\ 0 < RenewInterval
    /\ RetryInterval <= SafetyMargin
    /\ RenewInterval + MaxOp <= TTL

VARIABLES
    score,     \* token -> time left before it expires; 0: expired but still
               \* a member of the sorted set; Absent: not a member
    granted,   \* history: tokens that Redis admitted at some time
    late,      \* commands a client gave up on and Redis may still execute
    pc,        \* stream -> where its coroutine is
    attempt,   \* stream -> 1 or 2, the attempt of _acquire
    reply,     \* stream -> state of the command the coroutine waits for
    cancelled, \* stream -> a cancellation _run_blocking is holding back
    closed,    \* stream -> _Lease._closed
    closer,    \* stream -> the lease part of response.close()
    source,    \* stream -> the source of the subscription; closed once its
               \* aclose() was called, whatever ChannelSource says of that call
    age,       \* stream -> time since _Lease.renewed_at, at most TTL
    due,       \* stream -> time until next_renew
    opAge,     \* stream -> time since the running renewal was sent
    faults     \* stream -> faults injected so far

redis == <<score, granted, late>>
timers == <<age, due, opAge>>
vars == <<score, granted, late, pc, attempt, reply, cancelled, closed, closer,
          source, age, due, opAge, faults>>

Token == Stream \X {1, 2}
Tok(s) == <<s, attempt[s]>>
Owner(t) == t[1]
Absent == -1

Acquiring == {"acquire", "cleanup"}
Renewing == {"confirm", "renew_wait", "renew_emit"}
Releasing == {"abandon", "closing"}
Over == {"refused", "done", "dropped", "crashed"}
PCs == Acquiring \cup Renewing \cup Releasing \cup Over
         \cup {"idle", "starting", "served", "wait", "yielded", "ending", "stopping"}
Settled == {"yes", "no", "error"}

(* The streams whose coroutine relies on its lease. *)
Leased == {"acquire", "starting", "served", "wait", "yielded"} \cup Renewing

Op(s) == IF pc[s] = "acquire" THEN "acquire"
         ELSE IF pc[s] \in Renewing THEN "renew"
         ELSE "release"

TypeOK ==
    /\ score \in [Token -> -1 .. TTL]
    /\ granted \in SUBSET Token
    /\ late \in SUBSET ({"acquire", "renew", "release"} \X Token)
    /\ pc \in [Stream -> PCs]
    /\ attempt \in [Stream -> {1, 2}]
    /\ reply \in [Stream -> {"none", "busy"} \cup Settled]
    /\ cancelled \in [Stream -> BOOLEAN]
    /\ closed \in [Stream -> BOOLEAN]
    /\ closer \in [Stream -> {"none", "busy", "done"}]
    /\ source \in [Stream -> {"none", "open", "closed"}]
    /\ age \in [Stream -> 0 .. TTL]
    /\ due \in [Stream -> Nat]
    /\ opAge \in [Stream -> 0 .. MaxOp]
    /\ faults \in [Stream -> 0 .. MaxFaults]

-----------------------------------------------------------------------------
(* The three Lua scripts, as functions of the sorted set.                  *)

Members(sc) == {t \in Token : sc[t] # Absent}
Live(sc) == {t \in Token : sc[t] > 0}

Purge(sc) == [t \in Token |-> IF sc[t] = 0 THEN Absent ELSE sc[t]]
Admits(sc) == Cardinality(Members(Purge(sc))) < Limit
AfterAcquireScript(sc, t) ==
    IF Admits(sc) THEN [Purge(sc) EXCEPT ![t] = TTL] ELSE Purge(sc)

RenewableAlways(sc, t) == TRUE \* mutant: ZADD without the ZSCORE test
Renewable(sc, t) == sc[t] > 0
AfterRenewScript(sc, t) == IF Renewable(sc, t) THEN [sc EXCEPT ![t] = TTL] ELSE sc

AfterReleaseScript(sc, t) == [sc EXCEPT ![t] = Absent]

Answer(op, t) ==
    IF \/ op = "acquire" /\ Admits(score)
       \/ op = "renew" /\ Renewable(score, t)
       \/ op = "release"
    THEN "yes" ELSE "no"

(* Redis executes a command atomically. *)
Execute(op, t) ==
    /\ score' = IF op = "acquire" THEN AfterAcquireScript(score, t)
                ELSE IF op = "renew" THEN AfterRenewScript(score, t)
                ELSE AfterReleaseScript(score, t)
    /\ granted' = IF op = "acquire" /\ Admits(score)
                  THEN granted \cup {t} ELSE granted

(* PEXPIRE: the key, left alone for twice the TTL, is dropped with its      *)
(* members, all of which have expired by then.                              *)
KeyExpires ==
    /\ Live(score) = {}
    /\ Members(score) # {}
    /\ score' = [t \in Token |-> Absent]
    /\ UNCHANGED <<granted, late, pc, attempt, reply, cancelled, closed,
                   closer, source, timers, faults>>

(* A command its client gave up on reaches Redis after all, or never.       *)
LateExecute ==
    /\ \E c \in late : /\ Execute(c[1], c[2])
                       /\ late' = late \ {c}
    /\ UNCHANGED <<pc, attempt, reply, cancelled, closed, closer, source,
                   timers, faults>>

LateDrop ==
    /\ \E c \in late : late' = late \ {c}
    /\ UNCHANGED <<score, granted, pc, attempt, reply, cancelled, closed,
                   closer, source, timers, faults>>

-----------------------------------------------------------------------------
(* The worker thread of a command.  _renew_blocking and _close_blocking     *)
(* test "_closed" and run the command under one lock, so the test and the   *)
(* command are one step.                                                    *)

(* A closed lease sends nothing: renew answers False, close returns.        *)
LeaseClosed(s) == closed[s] /\ pc[s] \notin Acquiring
ClosesLease(s) == pc[s] \in Releasing

BodySkips(s) ==
    /\ reply[s] = "busy"
    /\ LeaseClosed(s)
    /\ reply' = [reply EXCEPT ![s] = "no"]
    /\ UNCHANGED <<redis, pc, attempt, cancelled, closed, closer, source,
                   timers, faults>>

BodyExecutes(s) ==
    /\ reply[s] = "busy"
    /\ ~LeaseClosed(s)
    /\ Execute(Op(s), Tok(s))
    /\ reply' = [reply EXCEPT ![s] = Answer(Op(s), Tok(s))]
    /\ closed' = [closed EXCEPT ![s] = @ \/ ClosesLease(s)]
    /\ UNCHANGED <<late, pc, attempt, cancelled, closer, source, timers, faults>>

CanFault(s) ==
    /\ faults[s] < MaxFaults
    /\ Cardinality({r \in Stream \ {s} : faults[r] > 0}) < MaxFaulty

(* The client raises: the reply was lost after Redis executed the command,  *)
(* or the command has not been executed when the client gives up.           *)
BodyFails(s) ==
    /\ reply[s] = "busy"
    /\ ~LeaseClosed(s)
    /\ CanFault(s)
    /\ \/ Execute(Op(s), Tok(s)) /\ UNCHANGED late
       \/ late' = late \cup {<<Op(s), Tok(s)>>} /\ UNCHANGED <<score, granted>>
    /\ reply' = [reply EXCEPT ![s] = "error"]
    /\ closed' = [closed EXCEPT ![s] = @ \/ ClosesLease(s)]
    /\ faults' = [faults EXCEPT ![s] = @ + 1]
    /\ UNCHANGED <<pc, attempt, cancelled, closer, source, timers>>

CloserExecutes(s) ==
    /\ closer[s] = "busy"
    /\ IF closed[s] THEN UNCHANGED <<score, granted>> ELSE Execute("release", Tok(s))
    /\ closed' = [closed EXCEPT ![s] = TRUE]
    /\ closer' = [closer EXCEPT ![s] = "done"]
    /\ UNCHANGED <<late, pc, attempt, reply, cancelled, source, timers, faults>>

CloserFails(s) ==
    /\ closer[s] = "busy"
    /\ ~closed[s]
    /\ CanFault(s)
    /\ \/ Execute("release", Tok(s)) /\ UNCHANGED late
       \/ late' = late \cup {<<"release", Tok(s)>>} /\ UNCHANGED <<score, granted>>
    /\ closed' = [closed EXCEPT ![s] = TRUE]
    /\ closer' = [closer EXCEPT ![s] = "done"]
    /\ faults' = [faults EXCEPT ![s] = @ + 1]
    /\ UNCHANGED <<pc, attempt, reply, cancelled, source, timers>>

-----------------------------------------------------------------------------
(* The view: admission, start of the source, startup revalidation.          *)

Goto(s, label) == pc' = [pc EXCEPT ![s] = label]

(* Hand a command to a worker thread and wait at "label". *)
Call(s, label) ==
    /\ Goto(s, label)
    /\ reply' = [reply EXCEPT ![s] = "busy"]
    /\ opAge' = [opAge EXCEPT ![s] = 0]

(* Leave a settled command. *)
Return(s, label) ==
    /\ Goto(s, label)
    /\ reply' = [reply EXCEPT ![s] = "none"]
    /\ UNCHANGED opAge

CloseSource(s) ==
    source' = [source EXCEPT ![s] = IF @ = "open" THEN "closed" ELSE @]

(* renewed_at becomes the time acquire_sent of this step. *)
Arrive(s) ==
    /\ pc[s] = "idle"
    /\ Call(s, "acquire")
    /\ age' = [age EXCEPT ![s] = 0]
    /\ UNCHANGED <<redis, attempt, cancelled, closed, closer, source, due, faults>>

AfterAcquireNoCleanup(s) == \* mutant: only Exception, not cancellation, cleans up
    /\ pc[s] = "acquire"
    /\ reply[s] \in Settled
    /\ \/ reply[s] = "error" /\ ~cancelled[s] /\ Call(s, "cleanup")
       \/ (reply[s] = "no" \/ cancelled[s]) /\ Return(s, "refused")
       \/ reply[s] = "yes" /\ ~cancelled[s] /\ Return(s, "starting")
    /\ UNCHANGED <<redis, attempt, cancelled, closed, closer, source, age, due, faults>>

AfterAcquire(s) ==
    /\ pc[s] = "acquire"
    /\ reply[s] \in Settled
    /\ \/ (reply[s] = "error" \/ cancelled[s]) /\ Call(s, "cleanup")
       \/ reply[s] = "no" /\ ~cancelled[s] /\ Return(s, "refused")
       \/ reply[s] = "yes" /\ ~cancelled[s] /\ Return(s, "starting")
    /\ UNCHANGED <<redis, attempt, cancelled, closed, closer, source, age, due, faults>>

(* Only an error of the first attempt is retried, with a fresh token.       *)
Retries(s) == attempt[s] = 1 /\ ~cancelled[s]

AfterCleanup(s) ==
    /\ pc[s] = "cleanup"
    /\ reply[s] \in Settled
    /\ IF Retries(s)
       THEN Call(s, "acquire") /\ attempt' = [attempt EXCEPT ![s] = 2]
       ELSE Return(s, "refused") /\ UNCHANGED attempt
    /\ UNCHANGED <<redis, cancelled, closed, closer, source, age, due, faults>>

SourceStarts(s) ==
    /\ pc[s] = "starting"
    /\ source' = [source EXCEPT ![s] = "open"]
    /\ Call(s, "confirm")
    /\ UNCHANGED <<redis, attempt, cancelled, closed, closer, age, due, faults>>

(* A denial, an error or a cancellation: the source cleans up after itself. *)
SourceFails(s) ==
    /\ pc[s] = "starting"
    /\ Call(s, "abandon")
    /\ UNCHANGED <<redis, attempt, cancelled, closed, closer, source, age, due, faults>>

Confirmed(s) == reply[s] = "yes" /\ ~cancelled[s]

(* The startup renewal does not move renewed_at. *)
AfterConfirm(s) ==
    /\ pc[s] = "confirm"
    /\ reply[s] \in Settled
    /\ IF Confirmed(s)
       THEN Return(s, "served") /\ UNCHANGED source
       ELSE Call(s, "abandon") /\ CloseSource(s)
    /\ UNCHANGED <<redis, attempt, cancelled, closed, closer, age, due, faults>>

AfterAbandon(s) ==
    /\ pc[s] = "abandon"
    /\ reply[s] \in Settled
    /\ Return(s, "refused")
    /\ UNCHANGED <<redis, attempt, cancelled, closed, closer, source, age, due, faults>>

-----------------------------------------------------------------------------
(* The body generator.                                                      *)

(* The finally of the body.  A call of the delivery that is still pending   *)
(* is cancelled and waited for, before the source and the lease are closed. *)
(* A stream that waits has one; whether one outlives a yield, as it does a  *)
(* heartbeat, or a renewal, is left open.                                   *)
Close(s) == Call(s, "closing") /\ CloseSource(s)
StopPending(s) == Return(s, "stopping") /\ UNCHANGED source
Finally(s) == StopPending(s) \/ (pc[s] # "wait" /\ Close(s))

(* The server asks for the next chunk, which it never does once it has      *)
(* begun to close the response.  At "served" the generator first yields the *)
(* preamble, which carries no data, and then confirms its lease.            *)
Pull(s) ==
    /\ closer[s] = "none"
    /\ \/ pc[s] = "served" /\ Call(s, "renew_wait") /\ UNCHANGED source
       \/ pc[s] = "yielded" /\ due[s] = 0 /\ Call(s, "renew_wait") /\ UNCHANGED source
       \/ pc[s] = "yielded" /\ due[s] > 0 /\ Return(s, "wait") /\ UNCHANGED source
       \/ pc[s] = "ending" /\ Finally(s)
    /\ UNCHANGED <<redis, attempt, cancelled, closed, closer, age, due, faults>>

(* asyncio.wait returns at or after next_renew: renew before anything is    *)
(* yielded, whether a result is ready ("renew_emit") or not.                *)
WaitIsDue(s) ==
    /\ pc[s] = "wait"
    /\ due[s] = 0
    /\ \E label \in {"renew_wait", "renew_emit"} : Call(s, label)
    /\ UNCHANGED <<redis, attempt, cancelled, closed, closer, source, age, due, faults>>

(* asyncio.wait returns earlier: a result or a heartbeat frame is yielded.  *)
Emit(s) ==
    /\ pc[s] = "wait"
    /\ due[s] > 0
    /\ Goto(s, "yielded")
    /\ UNCHANGED <<redis, attempt, reply, cancelled, closed, closer, source,
                   timers, faults>>

(* StopAsyncIteration or an exception of the delivery: a terminal frame.    *)
SourceEnds(s) ==
    /\ pc[s] = "wait"
    /\ due[s] > 0
    /\ Goto(s, "ending")
    /\ UNCHANGED <<redis, attempt, reply, cancelled, closed, closer, source,
                   timers, faults>>

MayStillOwnAlways(s) == TRUE \* mutant: every failed renewal is tolerated
MayStillOwn(s) == age[s] < TTL - SafetyMargin

(* A confirmed renewal: renewed_at is the time the renewal was SENT. *)
StampAtReply(s) == age' = [age EXCEPT ![s] = 0] \* mutant: renewed_at read after the reply
Stamp(s) == age' = [age EXCEPT ![s] = opAge[s]]

(* Where a renewal that keeps the stream returns to.  A result that was     *)
(* ready is yielded in the same step, or turns out to be the end.           *)
Continues(s) ==
    IF pc[s] = "renew_emit" THEN {"yielded", "ending"} ELSE {"wait"}

AfterRenew(s) ==
    /\ pc[s] \in {"renew_wait", "renew_emit"}
    /\ reply[s] \in Settled
    /\ ~cancelled[s]
    /\ \/ /\ reply[s] = "yes"
          /\ Stamp(s)
          /\ due' = [due EXCEPT ![s] = RenewInterval]
          /\ \E label \in Continues(s) : Return(s, label)
       \/ /\ reply[s] = "error"
          /\ MayStillOwn(s)
          /\ due' = [due EXCEPT ![s] = RetryInterval]
          /\ \E label \in Continues(s) : Return(s, label)
          /\ UNCHANGED age
       \/ /\ reply[s] = "no" \/ (reply[s] = "error" /\ ~MayStillOwn(s))
          /\ Return(s, "ending")
          /\ UNCHANGED <<age, due>>
    /\ UNCHANGED <<redis, attempt, cancelled, closed, closer, source, faults>>

(* The cancellation that waited for the renewal to settle. *)
RenewCancelledIgnored(s) == \* mutant: the cancellation is dropped
    /\ pc[s] \in {"renew_wait", "renew_emit"}
    /\ reply[s] \in Settled
    /\ cancelled[s]
    /\ due' = [due EXCEPT ![s] = RenewInterval]
    /\ Return(s, "wait")
    /\ UNCHANGED <<redis, attempt, cancelled, closed, closer, source, age, faults>>

RenewCancelled(s) ==
    /\ pc[s] \in {"renew_wait", "renew_emit"}
    /\ reply[s] \in Settled
    /\ cancelled[s]
    /\ Finally(s)
    /\ UNCHANGED <<redis, attempt, cancelled, closed, closer, age, due, faults>>

(* The client is gone: the generator is cancelled, or closed at a yield.    *)
Disconnect(s) ==
    /\ pc[s] \in {"wait", "yielded", "ending"}
    /\ Finally(s)
    /\ UNCHANGED <<redis, attempt, cancelled, closed, closer, age, due, faults>>

AfterStopping(s) ==
    /\ pc[s] = "stopping"
    /\ Close(s)
    /\ UNCHANGED <<redis, attempt, cancelled, closed, closer, age, due, faults>>

(* A cancellation while the pending call is waited for leaves the generator *)
(* before it has closed anything: that is left to response.close().         *)
CancelledAgain(s) ==
    /\ pc[s] = "stopping"
    /\ Goto(s, "dropped")
    /\ UNCHANGED <<redis, attempt, reply, cancelled, closed, closer, source,
                   timers, faults>>

AfterClosing(s) ==
    /\ pc[s] = "closing"
    /\ reply[s] \in Settled
    /\ Return(s, "done")
    /\ UNCHANGED <<redis, attempt, cancelled, closed, closer, source, age, due, faults>>

-----------------------------------------------------------------------------
(* Callbacks, failures and time.                                            *)

(* A cancellation that arrives while a command runs: _run_blocking keeps    *)
(* waiting and raises it once the command has settled.  One that arrives    *)
(* while the source is being closed, which is the beginning of "closing"    *)
(* and "abandon", leaves the release of the lease to a finally.             *)
Cancel(s) ==
    /\ reply[s] = "busy"
    /\ ~cancelled[s]
    /\ cancelled' = [cancelled EXCEPT ![s] = TRUE]
    /\ UNCHANGED <<redis, pc, attempt, reply, closed, closer, source, timers, faults>>

(* response.close(): after the body, or instead of it when the response was *)
(* never iterated or its iteration was given up at a yield.                 *)
ResponseClose(s) ==
    /\ pc[s] \in {"served", "yielded", "ending", "done", "dropped"}
    /\ closer[s] = "none"
    /\ closer' = [closer EXCEPT ![s] = "busy"]
    /\ CloseSource(s)
    /\ UNCHANGED <<redis, pc, attempt, reply, cancelled, closed, timers, faults>>

(* The worker process dies.  The command it was running may still execute.  *)
Crash(s) ==
    /\ pc[s] \notin Over \cup {"idle"}
    /\ CanFault(s)
    /\ Goto(s, "crashed")
    /\ late' = IF reply[s] = "busy" THEN late \cup {<<Op(s), Tok(s)>>} ELSE late
    /\ reply' = [reply EXCEPT ![s] = "none"]
    /\ closer' = [closer EXCEPT ![s] = "done"]
    /\ source' = [source EXCEPT ![s] = "none"]
    /\ faults' = [faults EXCEPT ![s] = @ + 1]
    /\ UNCHANGED <<score, granted, attempt, cancelled, closed, timers>>

(* Time passes for a score: "expiry - now", as the scripts compare them.    *)
CountdownNever(left) == left \* mutant: a member never expires
Countdown(left) == IF left > 0 THEN left - 1 ELSE left

(* One unit of time, on the loop's clock and on Redis's alike.  A renewal   *)
(* is resumed at most MaxOp after it was sent; nothing else is urgent.  The *)
(* timers of a stream that no longer relies on its lease are reset.         *)
Tick ==
    /\ \A s \in Stream : pc[s] \in {"renew_wait", "renew_emit"} => opAge[s] < MaxOp
    /\ score' = [t \in Token |-> Countdown(score[t])]
    /\ age' = [s \in Stream |-> IF pc[s] \notin Leased THEN 0
                                ELSE IF age[s] < TTL THEN age[s] + 1 ELSE TTL]
    /\ due' = [s \in Stream |-> IF pc[s] \in {"wait", "yielded"} /\ due[s] > 0
                                THEN due[s] - 1 ELSE 0]
    /\ opAge' = [s \in Stream |-> IF pc[s] \in {"renew_wait", "renew_emit"}
                                  THEN opAge[s] + 1 ELSE 0]
    /\ UNCHANGED <<granted, late, pc, attempt, reply, cancelled, closed, closer,
                   source, faults>>

-----------------------------------------------------------------------------
Init ==
    /\ score = [t \in Token |-> Absent]
    /\ granted = {}
    /\ late = {}
    /\ pc = [s \in Stream |-> "idle"]
    /\ attempt = [s \in Stream |-> 1]
    /\ reply = [s \in Stream |-> "none"]
    /\ cancelled = [s \in Stream |-> FALSE]
    /\ closed = [s \in Stream |-> FALSE]
    /\ closer = [s \in Stream |-> "none"]
    /\ source = [s \in Stream |-> "none"]
    /\ age = [s \in Stream |-> 0]
    /\ due = [s \in Stream |-> 0]
    /\ opAge = [s \in Stream |-> 0]
    /\ faults = [s \in Stream |-> 0]

Thread(s) ==
    \/ BodySkips(s) \/ BodyExecutes(s) \/ BodyFails(s)
    \/ CloserExecutes(s) \/ CloserFails(s)

View(s) ==
    \/ Arrive(s) \/ AfterAcquire(s) \/ AfterCleanup(s)
    \/ SourceStarts(s) \/ SourceFails(s) \/ AfterConfirm(s) \/ AfterAbandon(s)

Body(s) ==
    \/ Pull(s) \/ WaitIsDue(s) \/ Emit(s) \/ SourceEnds(s)
    \/ AfterRenew(s) \/ RenewCancelled(s) \/ Disconnect(s)
    \/ AfterStopping(s) \/ CancelledAgain(s) \/ AfterClosing(s)

Next ==
    \/ \E s \in Stream : \/ Thread(s) \/ View(s) \/ Body(s)
                         \/ Cancel(s) \/ ResponseClose(s) \/ Crash(s)
    \/ KeyExpires \/ LateExecute \/ LateDrop \/ Tick

Spec == Init /\ [][Next]_vars

-----------------------------------------------------------------------------
(* Properties.                                                              *)

Owns(s) == score[Tok(s)] > 0

(* The streams that may hand data to the client without asking Redis again. *)
MayEmit(s) == pc[s] = "wait" /\ due[s] > 0

(* The documented cap ("shared Redis-backed concurrent SSE stream cap"):    *)
(* at no time are more than Limit streams of the account able to deliver    *)
(* data, whatever replies were lost, delayed or reordered, and however      *)
(* slowly the clients read.                                                 *)
EmittersWithinCap == Cardinality({s \in Stream : MayEmit(s)}) <= Limit

(* No data frame leaves the generator unless its token is unexpired in      *)
(* Redis at that moment: the renewal that is due comes before the result    *)
(* that is ready, and the safety margin covers the failed renewals.         *)
EmitOnlyWhileOwning ==
    [][\A s \in Stream : pc[s] # "yielded" /\ pc'[s] = "yielded" => Owns(s)]_vars

(* Every way out of the view, the generator and response.close() gives the  *)
(* slot back and closes the source: unless a fault hit the stream, none of  *)
(* its tokens stays in Redis once it is over; its source is closed even so. *)
(* The one exception is a generator that is cancelled again while it stops  *)
(* its pending call ("dropped"): then response.close() is the only cleanup. *)
Finished(s) == pc[s] \in {"refused", "done"} \/ closer[s] = "done"

NothingLeaks ==
    \A s \in Stream : Finished(s) =>
        /\ source[s] # "open"
        /\ faults[s] = 0 => \A k \in {1, 2} : score[<<s, k>>] = Absent

(* Why the two properties above hold: a lease that is relied on and not     *)
(* closed has at least TTL - age left in Redis, whichever replies were      *)
(* lost, because renewed_at is stamped before the command is sent; a        *)
(* confirmed renewal has TTL - opAge left; and the next renewal is due      *)
(* before what is left can have run out.                                    *)
Relying == {"starting", "served", "wait", "yielded"} \cup Renewing

LeaseSafe(s) ==
    /\ pc[s] \in Relying /\ ~closed[s] /\ age[s] < TTL =>
           score[Tok(s)] >= TTL - age[s]
    /\ pc[s] = "acquire" /\ reply[s] = "yes" /\ age[s] < TTL =>
           score[Tok(s)] >= TTL - age[s]
    /\ pc[s] \in {"renew_wait", "renew_emit"} /\ reply[s] = "yes" =>
           score[Tok(s)] >= TTL - opAge[s]
    /\ pc[s] \in {"wait", "yielded"} /\ due[s] > 0 => age[s] + due[s] <= TTL

LeaseInv == \A s \in Stream : LeaseSafe(s)

(* Who may still touch the lease: response.close() has not begun while the  *)
(* view or the body runs, and no release of a token in use is on its way.   *)
ReleaseSafe(s) ==
    /\ reply[s] # "none" => pc[s] \in Acquiring \cup Renewing \cup Releasing
    /\ pc[s] \in {"idle", "wait", "starting"} \cup Acquiring \cup Renewing =>
           closer[s] = "none" /\ ~closed[s]
    /\ pc[s] \in {"served", "yielded"} /\ closer[s] = "none" => ~closed[s]
    /\ attempt[s] = 1 => <<"release", <<s, 2>>>> \notin late
    /\ pc[s] = "idle" => attempt[s] = 1 /\ <<"release", Tok(s)>> \notin late
    /\ pc[s] \in {"acquire"} \cup Relying /\ ~closed[s] =>
           <<"release", Tok(s)>> \notin late

ReleaseInv == \A s \in Stream : ReleaseSafe(s)

(* The fairness of the scheduling: threads finish, a coroutine that has its *)
(* reply resumes, a call of the delivery that was cancelled ends, Redis     *)
(* executes or drops what it was sent, time passes.  Nothing obliges a      *)
(* client to read, to disconnect or to be answered.                         *)
Resume(s) ==
    AfterAcquire(s) \/ AfterCleanup(s) \/ AfterConfirm(s) \/ AfterAbandon(s)
    \/ AfterRenew(s) \/ RenewCancelled(s) \/ AfterStopping(s) \/ AfterClosing(s)

Fairness ==
    /\ \A s \in Stream : WF_vars(Thread(s)) /\ WF_vars(Resume(s))
    /\ WF_vars(LateExecute \/ LateDrop)
    /\ WF_vars(Tick)

FairSpec == Spec /\ Fairness

(* A stream that from some time on sends no command, because it crashed, is *)
(* over, or is suspended by a client that stopped reading, does not keep    *)
(* its slots: the TTL frees what no release freed.                          *)
SlotsReclaimed ==
    \A s \in Stream :
        <>[](reply[s] # "busy") => <>[](\A k \in {1, 2} : score[<<s, k>>] <= 0)

(* A cancellation held back by _run_blocking is not lost: the request ends. *)
CancelledEnds ==
    \A s \in Stream : cancelled[s] /\ pc[s] \notin Over ~> pc[s] \in Over

(* The store of leases implements the abstract one: a cap on live leases,   *)
(* each granted once and never alive again after it has ended.              *)
Leases == INSTANCE BoundedLeases WITH Lease <- Token, live <- Live(score), used <- granted

LeasesSpec == Leases!Spec
=============================================================================
