--------------------------- MODULE ChannelSource ---------------------------
(***************************************************************************)
(* One started subscription: ChannelLayerSource (subscriptions/source.py)   *)
(* under a DeliveryIterator (subscriptions/delivery.py).                    *)
(*                                                                          *)
(* The owner is the task that starts the source, iterates the delivery and  *)
(* closes it in its "finally".  The other is a task that closes the         *)
(* delivery or the source out of band.  Every await is a place where the    *)
(* two interleave, where either can be cancelled, and where the channel     *)
(* layer (external) can fail.                                               *)
(***************************************************************************)
EXTENDS Naturals, Sequences, FiniteSets

CONSTANTS
    Group,      \* _groups, the groups the caller selected
    HasVerify,  \* whether a db_verify hook is wired
    Capacity,   \* messages the channel layer keeps for one channel
    MaxEvents,  \* bound: events published to the groups
    MaxFaults   \* bound: channel-layer calls that fail or are cancelled

ASSUME SourceAssumption ==
    /\ IsFiniteSet(Group) /\ Group # {}
    /\ HasVerify \in BOOLEAN
    /\ Capacity \in Nat /\ MaxEvents \in Nat /\ MaxFaults \in Nat

VARIABLES
    members,    \* channel layer: the groups the source's channel is in
    mailbox,    \* channel layer: events waiting in the channel
    joined,     \* _joined
    closed,     \* _closed
    closeEvent, \* DeliveryIterator._close_event
    receive,    \* _receive_task: "none", "parked", "got" or "cancelled"
    inHand,     \* the event the receive task returned, while it is examined
    pc,         \* where the owner is
    other,      \* where the out-of-band closer is
    todo,       \* groups that the running discard loop has not attempted yet
    lost,       \* history: groups whose discard failed or was given up
    published,  \* history: number of events published
    delivered,  \* history: events that were mapped to a result
    faults      \* history: failed channel-layer calls

closing == <<closed, closeEvent>>
stream == <<mailbox, receive, inHand, published, delivered>>
groups == <<members, joined, todo, lost, faults>>
vars == <<members, mailbox, joined, closed, closeEvent, receive, inHand, pc,
          other, todo, lost, published, delivered, faults>>

(* How an event relates to the source's filters: split_filters accepts it,  *)
(* drops it, or leaves lookups that only the database can decide.           *)
Event == [id : 1 .. MaxEvents, kind : {"match", "mismatch", "lookup"}]
NoEvent == [id |-> 0, kind |-> "mismatch"]

Started == {"open", "receiving", "verifying", "ending", "sweeping", "over"}

TypeOK ==
    /\ members \in SUBSET Group
    /\ mailbox \in Seq(Event) /\ Len(mailbox) <= Capacity
    /\ joined \in SUBSET Group
    /\ closed \in BOOLEAN /\ closeEvent \in BOOLEAN
    /\ receive \in {"none", "parked", "got", "cancelled"}
    /\ inHand \in Event \cup {NoEvent}
    /\ pc \in {"new", "adding", "cleaning", "failed"} \cup Started
    /\ other \in {"idle", "sweeping", "over"}
    /\ todo \in SUBSET Group
    /\ lost \in SUBSET Group
    /\ published \in 0 .. MaxEvents
    /\ delivered \in Seq(Event)
    /\ faults \in 0 .. MaxFaults

-----------------------------------------------------------------------------
(* The channel layer.                                                       *)

Fault == faults < MaxFaults /\ faults' = faults + 1

(* A call that raises, or whose task is cancelled, may have taken effect.   *)
GroupAddFails(g) == Fault /\ members' \in {members, members \cup {g}}

Discarded(g) == members' = members \ {g} /\ UNCHANGED <<lost, faults>>
DiscardFails(g) ==
    /\ Fault
    /\ members' \in {members, members \ {g}}
    /\ lost' = lost \cup {g}

(* group_send to one of the groups: the channel gets the event if it is a   *)
(* member and below its capacity.                                           *)
Kept(box, e) == IF Len(box) < Capacity THEN Append(box, e) ELSE box

Publish ==
    /\ published < MaxEvents
    /\ members # {}
    /\ published' = published + 1
    /\ \E k \in {"match", "mismatch", "lookup"} :
          mailbox' = Kept(mailbox, [id |-> published + 1, kind |-> k])
    /\ UNCHANGED <<groups, closing, receive, inHand, pc, other, delivered>>

Arrives ==
    /\ receive = "parked"
    /\ mailbox # <<>>
    /\ receive' = "got"
    /\ inHand' = Head(mailbox)
    /\ mailbox' = Tail(mailbox)
    /\ UNCHANGED <<groups, closing, pc, other, published, delivered>>

-----------------------------------------------------------------------------
(* start().                                                                 *)

Goto(label) == pc' = label

(* A failed start may be tried again on the same source. *)
Start ==
    /\ pc \in {"new", "failed"}
    /\ Goto("adding")
    /\ UNCHANGED <<groups, closing, stream, other>>

JoinGroup ==
    /\ pc = "adding"
    /\ \E g \in Group \ joined :
          /\ members' = members \cup {g}
          /\ joined' = joined \cup {g}
    /\ Goto(IF joined' = Group THEN "open" ELSE "adding")
    /\ UNCHANGED <<todo, lost, faults, closing, stream, other>>

JoinFailsIgnored == \* mutant: a failed group_add is logged and forgotten
    /\ pc = "adding"
    /\ \E g \in Group \ joined : GroupAddFails(g) /\ joined' = joined \cup {g}
    /\ Goto(IF joined' = Group THEN "open" ELSE "adding")
    /\ UNCHANGED <<todo, lost, closing, stream, other>>

(* Every confirmed membership and the one in flight are to be discarded. *)
JoinFails ==
    /\ pc = "adding"
    /\ \E g \in Group \ joined :
          /\ GroupAddFails(g)
          /\ todo' = joined \cup {g}
    /\ Goto("cleaning")
    /\ UNCHANGED <<joined, lost, closing, stream, other>>

CleanupStep ==
    /\ pc = "cleaning"
    /\ \E g \in todo :
          /\ Discarded(g) \/ DiscardFails(g)
          /\ todo' = todo \ {g}
    /\ UNCHANGED <<joined, closing, stream, pc, other>>

CleanupEnds ==
    /\ pc = "cleaning"
    /\ todo = {}
    /\ joined' = {}
    /\ Goto("failed")
    /\ UNCHANGED <<members, todo, lost, faults, closing, stream, other>>

-----------------------------------------------------------------------------
(* DeliveryIterator.__anext__ over ChannelLayerSource.__anext__.            *)

Park == Goto("receiving") /\ receive' = "parked" /\ inHand' = NoEvent
Leave == Goto("ending") /\ receive' = "none" /\ inHand' = NoEvent

Pull ==
    /\ pc = "open"
    /\ IF closeEvent \/ closed THEN Leave ELSE Park
    /\ UNCHANGED <<groups, closing, mailbox, other, published, delivered>>

(* The source returned an event: the delivery does not map it once it has   *)
(* been closed.                                                             *)
YieldUnchecked == \* mutant: the second test of _close_event is missing
    /\ delivered' = Append(delivered, inHand)
    /\ Goto("open") /\ receive' = "none" /\ inHand' = NoEvent

Yield ==
    \/ closeEvent /\ Leave /\ UNCHANGED delivered
    \/ /\ ~closeEvent
       /\ delivered' = Append(delivered, inHand)
       /\ Goto("open") /\ receive' = "none" /\ inHand' = NoEvent

(* receive() has settled: a close wins over a message; then the filters.    *)
Examine ==
    /\ pc = "receiving"
    /\ receive \in {"got", "cancelled"}
    /\ \/ closed /\ Leave /\ UNCHANGED delivered
       \/ ~closed /\ inHand.kind = "match" /\ Yield
       \/ ~closed /\ inHand.kind = "mismatch" /\ Park /\ UNCHANGED delivered
       \/ ~closed /\ inHand.kind = "lookup" /\ ~HasVerify /\ Park /\ UNCHANGED delivered
       \/ /\ ~closed /\ inHand.kind = "lookup" /\ HasVerify
          /\ Goto("verifying") /\ receive' = "none"
          /\ UNCHANGED <<inHand, delivered>>
    /\ UNCHANGED <<groups, closing, mailbox, other, published>>

(* db_verify answers.  The source does not look at _closed again: a verified *)
(* event is yielded, and a dropped one leads to receive() on the channel,    *)
(* which is None after a close, so the layer raises.                         *)
Verified ==
    /\ pc = "verifying"
    /\ \/ Yield
       \/ IF closed THEN Leave /\ UNCHANGED delivered ELSE Park /\ UNCHANGED delivered
    /\ UNCHANGED <<groups, closing, mailbox, other, published>>

(* The owner is cancelled, or receive(), db_verify or the mapping raises.   *)
Interrupted ==
    /\ pc \in {"open", "receiving", "verifying"}
    /\ Leave
    /\ UNCHANGED <<groups, closing, mailbox, other, published, delivered>>

-----------------------------------------------------------------------------
(* aclose(), by the owner's "finally" and out of band.                      *)

(* The first closer cancels the parked receive() and discards every group.  *)
BeginSweepNoCancel == closed' = TRUE /\ todo' = joined /\ UNCHANGED receive \* mutant
BeginSweep ==
    /\ closed' = TRUE
    /\ todo' = joined
    /\ receive' = IF receive = "parked" THEN "cancelled" ELSE receive

CloseByOwner ==
    /\ pc = "ending"
    /\ closeEvent' = TRUE
    /\ IF closeEvent \/ closed
       THEN Goto("over") /\ UNCHANGED <<closed, todo, receive>>
       ELSE Goto("sweeping") /\ BeginSweep
    /\ UNCHANGED <<members, joined, lost, faults, mailbox, inHand, other,
                   published, delivered>>

(* Nobody but the starting task knows a source that has not started.        *)
CloseOutOfBand ==
    /\ other = "idle"
    /\ pc \in Started
    /\ \E viaDelivery \in BOOLEAN :
          /\ closeEvent' = (closeEvent \/ viaDelivery)
          /\ IF closed \/ (viaDelivery /\ closeEvent)
             THEN other' = "over" /\ UNCHANGED <<closed, todo, receive>>
             ELSE other' = "sweeping" /\ BeginSweep
    /\ UNCHANGED <<members, joined, lost, faults, mailbox, inHand, pc,
                   published, delivered>>

Sweeping == pc = "sweeping" \/ other = "sweeping"

SweepReturns ==
    /\ pc' = IF pc = "sweeping" THEN "over" ELSE pc
    /\ other' = IF other = "sweeping" THEN "over" ELSE other

(* A discard that raises does not stop the loop. *)
SweepStepStops == \* mutant: the first discard that raises ends the loop
    /\ Sweeping
    /\ \E g \in todo :
          \/ Discarded(g) /\ todo' = todo \ {g} /\ UNCHANGED <<joined, pc, other>>
          \/ DiscardFails(g) /\ todo' = {} /\ joined' = {} /\ SweepReturns
    /\ UNCHANGED <<closing, stream>>

SweepStep ==
    /\ Sweeping
    /\ \E g \in todo :
          /\ Discarded(g) \/ DiscardFails(g)
          /\ todo' = todo \ {g}
    /\ UNCHANGED <<joined, closing, stream, pc, other>>

SweepEnds ==
    /\ Sweeping
    /\ todo = {}
    /\ joined' = {}
    /\ SweepReturns
    /\ UNCHANGED <<members, todo, lost, faults, closing, stream>>

(* The closing task is cancelled during a discard: the rest is given up.    *)
SweepCancelled ==
    /\ Sweeping
    /\ \E g \in todo : members' \in {members, members \ {g}}
    /\ lost' = lost \cup todo
    /\ todo' = {}
    /\ joined' = {}
    /\ SweepReturns
    /\ UNCHANGED <<faults, closing, stream>>

-----------------------------------------------------------------------------
Init ==
    /\ members = {} /\ mailbox = <<>> /\ joined = {}
    /\ closed = FALSE /\ closeEvent = FALSE
    /\ receive = "none" /\ inHand = NoEvent
    /\ pc = "new" /\ other = "idle"
    /\ todo = {} /\ lost = {}
    /\ published = 0 /\ delivered = <<>> /\ faults = 0

Owner ==
    \/ JoinGroup \/ JoinFails \/ CleanupStep \/ CleanupEnds
    \/ Examine \/ Verified \/ CloseByOwner

Sweep == SweepStep \/ SweepEnds

Next ==
    \/ Start \/ Pull \/ Owner \/ Sweep
    \/ Publish \/ Arrives \/ Interrupted \/ CloseOutOfBand \/ SweepCancelled

Spec == Init /\ [][Next]_vars

(* Tasks that can run do run; nothing obliges anyone to publish, to pull or *)
(* to close.                                                                *)
FairSpec == Spec /\ WF_vars(Owner) /\ WF_vars(Sweep)

-----------------------------------------------------------------------------
(* Properties.                                                              *)

(* The membership the source still knows it has to give back. *)
Tracked == IF pc = "cleaning" \/ Sweeping THEN todo ELSE joined

(* No ghost subscriber: whatever call failed, in start() or in aclose(),    *)
(* the channel is in no group that the source does not know of, except      *)
(* those whose own discard failed or was cancelled; and when it has given   *)
(* up or closed there is nothing left to know.                              *)
NoUnknownMembership ==
    /\ members \ lost \subseteq Tracked
    /\ pc = "failed" \/ (closed /\ ~Sweeping) => Tracked = {}

(* A source that started listens to every group, also after failed starts,  *)
(* until somebody closes it: no event is missed for want of a membership.   *)
ListensToAll == pc \in Started /\ ~closed => members = Group

(* aclose() never waits for a broadcast: a consumer parked in receive() is  *)
(* released, and every group is left or given up.                           *)
CloseCompletes ==
    closed ~> [](pc # "receiving" /\ members \subseteq lost)

(* What a reader of the delivery sees is the abstract stream: the event in  *)
(* hand and the mailbox are its inbox.                                      *)
MayPass(e) == e.kind = "match" \/ (e.kind = "lookup" /\ HasVerify)
MustPass(e) == e.kind = "match"

IsOpen == ~closeEvent /\ pc \notin {"ending", "sweeping", "over"}
Inbox ==
    IF ~IsOpen THEN <<>>
    ELSE IF inHand = NoEvent THEN mailbox ELSE <<inHand>> \o mailbox

Stream == INSTANCE FilteredStream
              WITH inbox <- Inbox, out <- delivered, open <- IsOpen

StreamSpec == Stream!Spec

(* ws.py: "Disconnect cancels ALL operation tasks and group_discards every  *)
(* joined group (full source teardown), so no ghost subscriber survives".   *)
(* Without a failure of the channel layer, a closed source is in no group.  *)
NoGhost == closed /\ ~Sweeping /\ faults = 0 => members = {}
=============================================================================
