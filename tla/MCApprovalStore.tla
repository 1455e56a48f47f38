-------------------------- MODULE MCApprovalStore --------------------------
(***************************************************************************)
(* The store alone: one principal of each role, an employee's proposal     *)
(* and the maintainer's own, two revisions, and a clock that passes the    *)
(* expiry of anything drafted at 0 or 1.                                   *)
(***************************************************************************)
EXTENDS ApprovalStore

CONSTANTS marco, trent, emma, p1, p2, r1, r2

MCUsers == {marco, trent, emma}
MCProposals == {p1, p2}
MCRevisions == {r1, r2}
MCRoleOf == [u \in MCUsers |-> CASE u = marco -> "maintainer"
                                 [] u = trent -> "main_operator"
                                 [] u = emma  -> "employee"]
MCRequesterOf == [p \in MCProposals |-> IF p = p1 THEN emma ELSE marco]

=============================================================================
