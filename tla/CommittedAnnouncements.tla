----------------------- MODULE CommittedAnnouncements -----------------------
(***************************************************************************)
(* What the automatic notifications promise, with no transactions, groups,  *)
(* channel layer or failures: a subscriber is told of committed changes     *)
(* only, of each at most once, and as they were when they were made.        *)
(* Nothing promises that it is told, nor in which order.                    *)
(***************************************************************************)
EXTENDS Sequences

CONSTANTS Change, Subscriber

VARIABLES
    committed, \* the changes that are committed
    told       \* subscriber -> the changes it has received

vars == <<committed, told>>

Told(s) == {told[s][i] : i \in DOMAIN told[s]}

Init == committed = {} /\ told = [s \in Subscriber |-> <<>>]

Commit ==
    /\ committed \subseteq committed'
    /\ committed' \subseteq Change
    /\ UNCHANGED told

Tell(s, c) ==
    /\ c \in committed \ Told(s)
    /\ told' = [told EXCEPT ![s] = Append(@, c)]
    /\ UNCHANGED committed

Next == \/ Commit
        \/ \E s \in Subscriber, c \in Change : Tell(s, c)

Spec == Init /\ [][Next]_vars
=============================================================================
