--------------------------- MODULE FilteredStream ---------------------------
(***************************************************************************)
(* What a subscription's source promises to the code that iterates it, with *)
(* no channel layer, tasks or failures: of the events it accepted, those    *)
(* that pass the filters come out once, in order and without gaps, and      *)
(* nothing comes out once it is closed.                                     *)
(***************************************************************************)
EXTENDS Sequences

CONSTANTS
    Event,
    MayPass(_),  \* the event can satisfy the filters
    MustPass(_)  \* the event satisfies the filters

VARIABLES
    inbox, \* accepted and not yet looked at
    out,   \* delivered so far
    open

vars == <<inbox, out, open>>

Init == inbox = <<>> /\ out = <<>> /\ open = TRUE

Accept(e) ==
    /\ open
    /\ inbox' = Append(inbox, e)
    /\ UNCHANGED <<out, open>>

Deliver ==
    /\ open
    /\ inbox # <<>>
    /\ MayPass(Head(inbox))
    /\ out' = Append(out, Head(inbox))
    /\ inbox' = Tail(inbox)
    /\ UNCHANGED open

Filter ==
    /\ open
    /\ inbox # <<>>
    /\ ~MustPass(Head(inbox))
    /\ inbox' = Tail(inbox)
    /\ UNCHANGED <<out, open>>

(* What is left when the stream ends is lost. *)
Close ==
    /\ open
    /\ open' = FALSE
    /\ inbox' = <<>>
    /\ UNCHANGED out

Next == (\E e \in Event : Accept(e)) \/ Deliver \/ Filter \/ Close

Spec == Init /\ [][Next]_vars
=============================================================================
