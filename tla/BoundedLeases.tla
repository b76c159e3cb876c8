--------------------------- MODULE BoundedLeases ---------------------------
(***************************************************************************)
(* What the admission control of SSE streams promises, with no Redis, no   *)
(* replies and no time: at most Limit leases are alive, a lease is granted *)
(* once, and one that has ended, by a release or by expiry, stays ended.   *)
(***************************************************************************)
EXTENDS Naturals, FiniteSets

CONSTANTS Lease, Limit

VARIABLES
    live, \* the leases that occupy a slot
    used  \* the leases that were ever granted

vars == <<live, used>>

Init == live = {} /\ used = {}

Grant(l) ==
    /\ l \notin used
    /\ Cardinality(live) < Limit
    /\ live' = live \cup {l}
    /\ used' = used \cup {l}

(* Leases end by release one at a time, by expiry in groups. *)
End ==
    /\ live' \in SUBSET live
    /\ UNCHANGED used

Next == (\E l \in Lease : Grant(l)) \/ End

Spec == Init /\ [][Next]_vars
=============================================================================
