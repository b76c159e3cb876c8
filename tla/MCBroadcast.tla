---------------------------- MODULE MCBroadcast ----------------------------
(* Instances of Broadcast for TLC.  With full payloads everything but a      *)
(* lookup is decided in memory; with ids alone and a field that is no        *)
(* scalar nothing is, and the two fan-outs differ only in their timing.      *)
EXTENDS Broadcast, TLC

CONSTANTS a, b, p

Configuration(full, scalar, indexed, loop) ==
    [full |-> full, scalar |-> scalar, indexed |-> indexed, loop |-> loop]
MCModes ==
    {Configuration(TRUE, TRUE, TRUE, FALSE), Configuration(FALSE, TRUE, FALSE, TRUE),
     Configuration(FALSE, FALSE, TRUE, FALSE)}

Ask(action, id, scope, filter) ==
    [action |-> action, id |-> id, scope |-> scope, filter |-> filter]
Exact(o) == [key |-> "exact", owner |-> o]
MCAsked ==
    {Ask("all_actions", None, a, None),      \* scoped by the server
     Ask("all_actions", p, None, Exact(a)),  \* filtered by the client
     Ask("update", p, a, Exact(a)),
     Ask("create", None, a, Exact(b)),       \* a contradiction
     Ask("delete", None, None, [key |-> "lookup", owner |-> b])}

MCSymmetry == Permutations(Writer)
=============================================================================
