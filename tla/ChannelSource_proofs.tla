------------------------ MODULE ChannelSource_proofs ------------------------
(***************************************************************************)
(* Proofs about ChannelSource: no membership of the channel escapes the     *)
(* source's bookkeeping, and a started source listens to all its groups,    *)
(* for every set of groups and every number of events and failures.         *)
(***************************************************************************)
EXTENDS ChannelSource, TLAPS

(* Typing, one part per component, so that each step has little to show.    *)
GroupsOK ==
    /\ members \in SUBSET Group /\ joined \in SUBSET Group
    /\ todo \in SUBSET Group /\ lost \in SUBSET Group
    /\ faults \in 0 .. MaxFaults

ControlOK ==
    /\ closed \in BOOLEAN /\ closeEvent \in BOOLEAN
    /\ pc \in {"new", "adding", "cleaning", "failed"} \cup Started
    /\ other \in {"idle", "sweeping", "over"}
    /\ receive \in {"none", "parked", "got", "cancelled"}

StreamOK ==
    /\ mailbox \in Seq(Event) /\ Len(mailbox) <= Capacity
    /\ delivered \in Seq(Event)
    /\ published \in 0 .. MaxEvents
    /\ inHand \in Event \cup {NoEvent}
    /\ receive = "got" \/ pc = "verifying" => inHand \in Event
    /\ pc = "verifying" => inHand.kind = "lookup" /\ HasVerify
    /\ receive \in {"parked", "got"} => pc = "receiving"
    /\ receive = "cancelled" => closed
    /\ receive = "parked" \/ pc \notin {"receiving", "verifying"} => inHand = NoEvent

(* Where the memberships are, phase by phase. *)
Phases ==
    /\ Sweeping => closed
    /\ closed => pc \in Started
    /\ pc \in {"new", "failed"} => joined = {} /\ members \subseteq lost
    /\ pc = "adding" => joined \subseteq members /\ members \subseteq joined \cup lost
    /\ pc = "cleaning" => members \subseteq todo \cup lost
    /\ pc \in Started /\ ~closed => joined = Group /\ members = Group
    /\ closed /\ Sweeping => members \subseteq todo \cup lost
    /\ closed /\ ~Sweeping => joined = {} /\ members \subseteq lost

Inductive == GroupsOK /\ ControlOK /\ StreamOK /\ Phases

(* The inductive invariant holds initially.                                 *)
LEMMA InitInductive == Init => Inductive
  <1> SUFFICES ASSUME Init PROVE Inductive
    OBVIOUS
  <1>1. GroupsOK
    BY SourceAssumption DEF Init, GroupsOK
  <1>4. ControlOK
    BY DEF Init, ControlOK
  <1>2. StreamOK
    BY SourceAssumption DEF Init, StreamOK
  <1>3. Phases
    BY DEF Init, Phases, Sweeping, Started
  <1>5. QED BY <1>1, <1>2, <1>3, <1>4 DEF Inductive

(* Every step keeps what the groups, the sweep and the joined set owe.      *)
LEMMA StepGroups ==
    ASSUME Inductive, Next
    PROVE  GroupsOK'
  <1> USE SourceAssumption DEF GroupsOK, Inductive
  <1>1. CASE Start \/ Pull \/ Examine \/ Verified \/ Publish \/ Arrives \/ Interrupted
    BY <1>1 DEF Start, Pull, Examine, Verified, Publish, Arrives, Interrupted, groups
  <1>2. CASE JoinGroup \/ JoinFails
    BY <1>2 DEF JoinGroup, JoinFails, GroupAddFails, Fault
  <1>3. CASE CleanupStep \/ SweepStep
    BY <1>3 DEF CleanupStep, SweepStep, Discarded, DiscardFails, Fault
  <1>4. CASE CleanupEnds \/ SweepEnds \/ SweepCancelled
    BY <1>4 DEF CleanupEnds, SweepEnds, SweepCancelled
  <1>5. CASE CloseByOwner \/ CloseOutOfBand
    BY <1>5 DEF CloseByOwner, CloseOutOfBand, BeginSweep
  <1>6. QED BY <1>1, <1>2, <1>3, <1>4, <1>5 DEF Next, Owner, Sweep

(* Every step keeps what the flags and the control points owe.              *)
LEMMA StepControl ==
    ASSUME Inductive, Next
    PROVE  ControlOK'
  <1> USE DEF ControlOK, Inductive, Started, Goto, closing, stream
  <1>1. CASE Start \/ JoinGroup \/ JoinFails \/ CleanupStep \/ CleanupEnds
    BY <1>1 DEF Start, JoinGroup, JoinFails, CleanupStep, CleanupEnds
  <1>2. CASE Pull \/ Examine \/ Verified \/ Interrupted \/ Publish \/ Arrives
    BY <1>2 DEF Pull, Examine, Verified, Interrupted, Publish, Arrives, Leave, Park, Yield
  <1>3. CASE SweepStep \/ SweepEnds \/ SweepCancelled
    BY <1>3 DEF SweepStep, SweepEnds, SweepCancelled, SweepReturns
  <1>4. CASE CloseByOwner \/ CloseOutOfBand
    BY <1>4 DEF CloseByOwner, CloseOutOfBand, BeginSweep
  <1>5. QED BY <1>1, <1>2, <1>3, <1>4 DEF Next, Owner, Sweep

(* Every step keeps the mailbox, the event in hand and the deliveries typed. *)
LEMMA StepStream ==
    ASSUME Inductive, Next
    PROVE  StreamOK'
  <1> USE SourceAssumption DEF Inductive, StreamOK, ControlOK, closing
  <1>1. CASE Start \/ JoinGroup \/ JoinFails \/ CleanupStep \/ CleanupEnds
    BY <1>1 DEF Start, JoinGroup, JoinFails, CleanupStep, CleanupEnds, Goto, stream
  <1>2. CASE SweepStep \/ SweepEnds \/ SweepCancelled
    BY <1>2 DEF SweepStep, SweepEnds, SweepCancelled, SweepReturns, stream, Sweeping
  <1>3. CASE CloseByOwner \/ CloseOutOfBand
    BY <1>3 DEF CloseByOwner, CloseOutOfBand, BeginSweep, Goto
  <1>4. CASE Pull \/ Interrupted
    BY <1>4 DEF Pull, Interrupted, Leave, Park, Goto
  <1>5. CASE Examine \/ Verified
    <2>1. inHand \in Event => Append(delivered, inHand) \in Seq(Event)
      OBVIOUS
    <2>2. receive = "got" \/ pc = "verifying" => inHand \in Event
      OBVIOUS
    <2>3. CASE Verified
      BY <2>1, <2>2, <2>3 DEF Verified, Yield, Leave, Park, Goto
    <2>4. CASE Examine
      <3>1. CASE ~closed /\ inHand.kind = "match" /\ Yield
        <4>1. CASE inHand \in Event
          BY <2>1, <2>4, <3>1, <4>1 DEF Examine, Yield, Leave, Goto
        <4>2. CASE inHand = NoEvent
          BY <3>1, <4>2 DEF NoEvent
        <4>3. QED BY <4>1, <4>2
      <3>2. CASE closed /\ Leave
        BY <2>4, <3>2 DEF Examine, Leave, Goto
      <3>3. CASE ~closed /\ inHand.kind = "mismatch" /\ Park /\ UNCHANGED delivered
        BY <2>4, <3>3 DEF Examine, Park, Goto
      <3>4. CASE ~closed /\ inHand.kind = "lookup"
        <4>1. inHand \in Event
          BY <3>4 DEF NoEvent
        <4>2. QED
          BY <2>4, <3>4, <4>1 DEF Examine, Park, Goto
      <3>5. QED BY <2>4, <3>1, <3>2, <3>3, <3>4 DEF Examine
    <2>5. QED BY <1>5, <2>3, <2>4
  <1>6. CASE Publish
    <2>1. PICK k \in {"match", "mismatch", "lookup"} :
              mailbox' = Kept(mailbox, [id |-> published + 1, kind |-> k])
      BY <1>6 DEF Publish
    <2>2. [id |-> published + 1, kind |-> k] \in Event
      BY <1>6 DEF Publish, Event
    <2>3. mailbox' \in Seq(Event) /\ Len(mailbox') <= Capacity
      BY <2>1, <2>2 DEF Kept
    <2>4. QED BY <1>6, <2>3 DEF Publish
  <1>7. CASE Arrives
    <2>1. Head(mailbox) \in Event /\ Tail(mailbox) \in Seq(Event)
          /\ Len(Tail(mailbox)) <= Capacity
      BY <1>7 DEF Arrives
    <2>2. QED BY <1>7, <2>1 DEF Arrives
  <1>8. QED BY <1>1, <1>2, <1>3, <1>4, <1>5, <1>6, <1>7 DEF Next, Owner, Sweep

(* Every step keeps the relations between the phases.                       *)
LEMMA StepPhases ==
    ASSUME Inductive, Next
    PROVE  Phases'
  <1> USE DEF Inductive, GroupsOK, ControlOK, Phases, Sweeping, Started, Goto,
              groups, closing
  <1>1. CASE Start \/ Pull \/ Examine \/ Verified \/ Publish \/ Arrives \/ Interrupted
    BY <1>1 DEF Start, Pull, Examine, Verified, Publish, Arrives, Interrupted,
                Leave, Park, Yield
  <1>2. CASE JoinGroup
    BY <1>2 DEF JoinGroup
  <1>3. CASE JoinFails
    BY <1>3 DEF JoinFails, GroupAddFails
  <1>4. CASE CleanupStep
    BY <1>4 DEF CleanupStep, Discarded, DiscardFails
  <1>5. CASE CleanupEnds
    BY <1>5 DEF CleanupEnds
  <1>6. CASE CloseByOwner \/ CloseOutOfBand
    BY <1>6 DEF CloseByOwner, CloseOutOfBand, BeginSweep
  <1>7. CASE SweepStep
    BY <1>7 DEF SweepStep, Discarded, DiscardFails
  <1>8. CASE SweepEnds \/ SweepCancelled
    BY <1>8 DEF SweepEnds, SweepCancelled, SweepReturns
  <1>9. QED
    BY <1>1, <1>2, <1>3, <1>4, <1>5, <1>6, <1>7, <1>8 DEF Next, Owner, Sweep

(* The conjunction of the four parts is an invariant.                       *)
LEMMA InductiveInvariant == Spec => []Inductive
  <1>1. Inductive /\ [Next]_vars => Inductive'
    <2> SUFFICES ASSUME Inductive, [Next]_vars PROVE Inductive'
      OBVIOUS
    <2>1. CASE Next
      BY <2>1, StepGroups, StepControl, StepStream, StepPhases DEF Inductive
    <2>2. CASE UNCHANGED vars
      BY <2>2 DEF vars, Inductive, GroupsOK, ControlOK, StreamOK, Phases, Sweeping
    <2>3. QED BY <2>1, <2>2
  <1>2. QED BY InitInductive, <1>1, PTL DEF Spec

(* The variables of the source keep their types, its mailbox its capacity.  *)
THEOREM Typing == Spec => []TypeOK
  <1>1. Inductive => TypeOK
    BY DEF Inductive, GroupsOK, ControlOK, StreamOK, TypeOK
  <1>2. QED BY InductiveInvariant, <1>1, PTL

(* No ghost subscriber except for a discard that itself failed or was       *)
(* cancelled, whichever calls of start() and aclose() fail in between.      *)
THEOREM MembershipKnown == Spec => []NoUnknownMembership
  <1>1. Inductive => NoUnknownMembership
    BY DEF Inductive, GroupsOK, ControlOK, Phases, NoUnknownMembership, Tracked,
           Sweeping, Started
  <1>2. QED BY InductiveInvariant, <1>1, PTL

(* A started source is a member of every selected group until it is closed. *)
THEOREM Listening == Spec => []ListensToAll
  <1>1. Inductive => ListensToAll
    BY DEF Inductive, Phases, ListensToAll
  <1>2. QED BY InductiveInvariant, <1>1, PTL

-----------------------------------------------------------------------------
(* The source implements FilteredStream.                                    *)

(* The event in hand is the head of the inbox. *)
LEMMA InHandIsHead ==
    ASSUME NEW x \in Event, NEW m \in Seq(Event)
    PROVE  /\ <<x>> \o m # <<>>
           /\ Head(<<x>> \o m) = x
           /\ Tail(<<x>> \o m) = m
  OBVIOUS

(* An event that moves from the mailbox into the hand stays in the inbox.   *)
LEMMA ArrivalKeepsInbox ==
    ASSUME NEW m \in Seq(Event), m # <<>>
    PROVE  <<Head(m)>> \o Tail(m) = m
  OBVIOUS

(* An event appended to the mailbox is appended to the inbox.               *)
LEMMA PublishAppends ==
    ASSUME NEW x \in Event, NEW e \in Event, NEW m \in Seq(Event)
    PROVE  Append(<<x>> \o m, e) = <<x>> \o Append(m, e)
  OBVIOUS

(* The empty hand is not mistaken for an event.                             *)
LEMMA NoEventIsNone == NoEvent \notin Event
  BY SourceAssumption DEF NoEvent, Event

(* Once closed for the reader, the stream is over. *)
LEMMA ClosedStutters ==
    ASSUME Inductive, Next, ~IsOpen
    PROVE  UNCHANGED <<Inbox, delivered, IsOpen>>
  <1>1. ~IsOpen' /\ UNCHANGED delivered
    <2> USE DEF Inductive, ControlOK, Phases, Started, IsOpen, Goto, closing, stream
    <2>1. CASE Start \/ JoinGroup \/ JoinFails \/ CleanupStep \/ CleanupEnds
      BY <2>1 DEF Start, JoinGroup, JoinFails, CleanupStep, CleanupEnds
    <2>2. CASE Pull \/ Examine \/ Verified \/ Interrupted \/ Publish \/ Arrives
      BY <2>2 DEF Pull, Examine, Verified, Interrupted, Publish, Arrives, Leave, Park,
                  Yield
    <2>3. CASE SweepStep \/ SweepEnds \/ SweepCancelled
      BY <2>3 DEF SweepStep, SweepEnds, SweepCancelled, SweepReturns
    <2>4. CASE CloseByOwner \/ CloseOutOfBand
      BY <2>4 DEF CloseByOwner, CloseOutOfBand
    <2>5. QED BY <2>1, <2>2, <2>3, <2>4 DEF Next, Owner, Sweep
  <1>2. QED BY <1>1 DEF Inbox, IsOpen

(* While it is open, each step is one of the abstract stream or invisible.  *)
LEMMA OpenStep ==
    ASSUME Inductive, Next, IsOpen
    PROVE  Stream!Next \/ UNCHANGED <<Inbox, delivered, IsOpen>>
  <1> DEFINE Visible == <<Inbox, delivered, IsOpen>>
  <1> USE DEF Goto, closing, stream
  <1>1. /\ mailbox \in Seq(Event) /\ ControlOK /\ StreamOK /\ Phases
        /\ ~closeEvent /\ pc \notin {"ending", "sweeping", "over"}
        /\ Inbox = IF inHand = NoEvent THEN mailbox ELSE <<inHand>> \o mailbox
    BY DEF Inductive, StreamOK, IsOpen, Inbox
  <1>2. ASSUME ~IsOpen', UNCHANGED delivered
        PROVE  Stream!Next
    <2>1. Inbox' = <<>>
      BY <1>2 DEF Inbox
    <2>2. Stream!Close
      BY <1>2, <2>1 DEF Stream!Close, IsOpen
    <2>3. QED BY <2>2 DEF Stream!Next
  <1>3. CASE Start \/ JoinGroup \/ JoinFails \/ CleanupStep \/ CleanupEnds
    BY <1>1, <1>3 DEF Start, JoinGroup, JoinFails, CleanupStep, CleanupEnds, IsOpen,
                      Inbox
  <1>4. CASE Pull \/ Interrupted
    BY <1>1, <1>2, <1>4 DEF Pull, Interrupted, Leave, Park, IsOpen, Inbox, StreamOK
  <1>5. CASE CloseOutOfBand \/ CloseByOwner
    BY <1>1, <1>2, <1>5 DEF CloseOutOfBand, CloseByOwner, BeginSweep, IsOpen, Inbox
  <1>6. CASE SweepStep \/ SweepEnds \/ SweepCancelled
    BY <1>1, <1>6 DEF SweepStep, SweepEnds, SweepCancelled, SweepReturns, IsOpen, Inbox,
                      Sweeping
  <1>7. CASE Arrives
    <2>1. inHand = NoEvent /\ mailbox # <<>>
      BY <1>1, <1>7 DEF Arrives, StreamOK
    <2>2. Head(mailbox) \in Event
      BY <1>1, <2>1
    <2>3. Inbox' = <<Head(mailbox)>> \o Tail(mailbox)
      BY <1>1, <1>7, <2>2, NoEventIsNone DEF Arrives, IsOpen, Inbox
    <2>4. Inbox' = Inbox
      BY <1>1, <2>1, <2>3, ArrivalKeepsInbox
    <2>5. QED BY <1>1, <1>7, <2>4 DEF Arrives, IsOpen
  <1>8. CASE Publish
    <2>1. PICK k \in {"match", "mismatch", "lookup"} :
              mailbox' = Kept(mailbox, [id |-> published + 1, kind |-> k])
      BY <1>8 DEF Publish
    <2> DEFINE e == [id |-> published + 1, kind |-> k]
    <2>2. e \in Event
      BY <1>1, <1>8, SourceAssumption DEF Publish, Event, StreamOK
    <2>3. IsOpen' /\ UNCHANGED <<delivered, inHand>>
      BY <1>1, <1>8 DEF Publish, IsOpen
    <2>4. CASE mailbox' = mailbox
      BY <1>1, <2>3, <2>4 DEF Inbox, IsOpen
    <2>5. CASE mailbox' = Append(mailbox, e)
      <3>1. inHand = NoEvent \/ inHand \in Event
        BY <1>1 DEF StreamOK
      <3>2. Inbox' = Append(Inbox, e)
        BY <1>1, <2>2, <2>3, <2>5, <3>1, PublishAppends DEF Inbox
      <3>3. Stream!Accept(e)
        BY <2>3, <3>2 DEF Stream!Accept, IsOpen
      <3>4. QED BY <2>2, <3>3 DEF Stream!Next
    <2>6. QED BY <2>1, <2>4, <2>5 DEF Kept
  <1>9. ASSUME inHand \in Event, UNCHANGED <<mailbox, closeEvent>>,
               ~MustPass(inHand), Park, UNCHANGED delivered
        PROVE  Stream!Next
    <2>1. Inbox = <<inHand>> \o mailbox /\ Inbox' = mailbox /\ IsOpen'
      BY <1>1, <1>9, NoEventIsNone DEF Park, IsOpen, Inbox
    <2>2. Stream!Filter
      BY <1>1, <1>9, <2>1, InHandIsHead DEF Stream!Filter, IsOpen
    <2>3. QED BY <2>2 DEF Stream!Next
  <1>10. ASSUME inHand \in Event, UNCHANGED <<mailbox, closeEvent>>,
                MayPass(inHand), Yield
         PROVE  Stream!Next
    <2>1. pc' = "open" /\ inHand' = NoEvent /\ delivered' = Append(delivered, inHand)
      BY <1>1, <1>10 DEF Yield
    <2>2. Inbox = <<inHand>> \o mailbox /\ Inbox' = mailbox /\ IsOpen'
      BY <1>1, <1>10, <2>1, NoEventIsNone DEF IsOpen, Inbox
    <2>3. Stream!Deliver
      BY <1>1, <1>10, <2>1, <2>2, InHandIsHead DEF Stream!Deliver, IsOpen
    <2>4. QED BY <2>3 DEF Stream!Next
  <1>11. CASE Verified
    <2>1. inHand \in Event /\ inHand.kind = "lookup" /\ HasVerify
          /\ UNCHANGED <<mailbox, closeEvent>>
      BY <1>1, <1>11 DEF Verified, StreamOK
    <2>2. ~MustPass(inHand) /\ MayPass(inHand)
      BY <2>1 DEF MustPass, MayPass
    <2>3. CASE Yield
      BY <1>10, <2>1, <2>2, <2>3
    <2>4. CASE Leave /\ UNCHANGED delivered
      BY <1>2, <2>4 DEF Leave, IsOpen
    <2>5. CASE Park /\ UNCHANGED delivered
      BY <1>9, <2>1, <2>2, <2>5
    <2>6. QED BY <1>11, <2>3, <2>4, <2>5 DEF Verified
  <1>12. CASE Examine
    <2>1. UNCHANGED <<mailbox, closeEvent>>
      BY <1>12 DEF Examine
    <2>2. CASE closed
      <3>1. Leave /\ UNCHANGED delivered
        BY <1>12, <2>2 DEF Examine
      <3>2. QED BY <1>2, <3>1 DEF Leave, IsOpen
    <2>3. CASE ~closed
      <3>1. receive = "got" /\ inHand \in Event
        BY <1>1, <1>12, <2>3 DEF Examine, StreamOK
      <3>2. CASE inHand.kind = "match" /\ Yield
        BY <1>10, <2>1, <3>1, <3>2 DEF MayPass
      <3>3. CASE inHand.kind \in {"mismatch", "lookup"} /\ Park /\ UNCHANGED delivered
        BY <1>9, <2>1, <3>1, <3>3 DEF MustPass
      <3>4. CASE Goto("verifying") /\ UNCHANGED <<inHand, delivered>>
        BY <1>1, <2>1, <3>4 DEF IsOpen, Inbox
      <3>5. QED BY <1>12, <2>3, <3>2, <3>3, <3>4 DEF Examine
    <2>4. QED BY <1>1, <2>2, <2>3 DEF ControlOK
  <1>13. QED
    BY <1>3, <1>4, <1>5, <1>6, <1>7, <1>8, <1>11, <1>12 DEF Next, Owner, Sweep

(* A subscription delivers what FilteredStream promises: every accepted     *)
(* event that satisfies the filters, in order, and nothing after a close.   *)
THEOREM Refinement == Spec => StreamSpec
  <1>1. Init => Stream!Init
    BY DEF Init, Stream!Init, IsOpen, Inbox
  <1>2. Inductive /\ [Next]_vars => [Stream!Next]_(Stream!vars)
    <2> SUFFICES ASSUME Inductive, [Next]_vars
                 PROVE  Stream!Next \/ UNCHANGED <<Inbox, delivered, IsOpen>>
      BY DEF Stream!vars
    <2>1. CASE Next
      BY <2>1, ClosedStutters, OpenStep
    <2>2. CASE UNCHANGED vars
      BY <2>2 DEF vars, Inbox, IsOpen
    <2>3. QED BY <2>1, <2>2
  <1>3. QED
    BY <1>1, <1>2, InductiveInvariant, PTL DEF Spec, StreamSpec, Stream!Spec
=============================================================================
