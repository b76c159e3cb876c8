-------------------------- MODULE MCResponseCache --------------------------
(* Instances of ResponseCache for TLC: every caller uses the global         *)
(* namespace; requests are interchangeable, and so are callers.            *)
EXTENDS ResponseCache, TLC

GlobalNamespace == [i \in Identity |-> "global"]
Symmetry == Permutations(Request) \cup Permutations(Identity)
=============================================================================
