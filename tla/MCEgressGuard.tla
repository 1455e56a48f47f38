---------------------------- MODULE MCEgressGuard ----------------------------
(***************************************************************************)
(* Three runs of the script, which are alike.                              *)
(***************************************************************************)
EXTENDS EgressGuard, TLC

CONSTANTS p1, p2, p3
MCProcs == {p1, p2, p3}
Symmetry == Permutations(MCProcs)

=============================================================================
