------------------------ MODULE MCApprovalExecution ------------------------
(***************************************************************************)
(* Instances of ApprovalExecution.  The cfg files choose the operations    *)
(* (MCOps), the number of workers and the bounds.                          *)
(***************************************************************************)
EXTENDS ApprovalExecution, TLC

CONSTANTS operator, p1, p2, c1, c2, w1, w2

MCUsers == {operator}
MCRoleOf == operator :> "main_operator"
Both == {p1, p2}
MCRequesterOf == [p \in Proposals |-> operator]
MCRevisions == [Cards -> Unread..(MaxEdits + 2)]

TwoCards == {c1, c2}
NoCardOf == [p \in Proposals |-> NoCard]
FirstCard == [p \in Proposals |-> c1]
SecondCard == [p \in Proposals |-> c2]
MergeOntoOwnDest == [p \in Proposals |-> IF p = p1 THEN c2 ELSE NoCard]

Sms == [p \in Proposals |-> "sms"]
Announcement == [p \in Proposals |-> "announcement"]
Create == [p \in Proposals |-> "create"]
Update == [p \in Proposals |-> "update"]
Merge == [p \in Proposals |-> "merge"]
MergeAndUpdate == [p \in Proposals |-> IF p = p1 THEN "merge" ELSE "update"]

=============================================================================
