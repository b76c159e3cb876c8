----------------------------- MODULE MCSSELease -----------------------------
(* Instances of SSELease for TLC.  One unit of time stands for five seconds *)
(* in the configurations that use the code's constants (9, 3, 1, 1).        *)
EXTENDS SSELease, TLC

Symmetry == Permutations(Stream)
=============================================================================
