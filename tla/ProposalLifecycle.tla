------------------------- MODULE ProposalLifecycle -------------------------
(***************************************************************************)
(* What the approval store promises about one proposal: the legal state    *)
(* graph and nothing else.  It is the graph README.md draws under          *)
(* "Approval state machine"; ApprovalStore is shown to implement it.       *)
(***************************************************************************)

CONSTANT Proposals

VARIABLE status

Statuses == {"none", "proposed", "approved", "denied", "expired",
             "executing", "verified", "failed", "unknown"}

\* The legal edges; a pair absent from this set is a transition the store
\* must never make, whoever calls it and in whatever order.
Edges == {<<"none", "proposed">>,
          <<"proposed", "approved">>, <<"proposed", "denied">>,
          <<"proposed", "expired">>,
          <<"approved", "executing">>, <<"approved", "expired">>,
          <<"executing", "verified">>, <<"executing", "failed">>,
          <<"executing", "unknown">>,
          <<"unknown", "verified">>, <<"unknown", "failed">>}

Init == status = [p \in Proposals |-> "none"]

\* One transaction moves one proposal along one edge...
Step(p) == \E s \in Statuses :
             /\ <<status[p], s>> \in Edges
             /\ status' = [status EXCEPT ![p] = s]

\* ...except crash recovery, which moves every interrupted execution at once.
Interrupt == /\ \E p \in Proposals : status[p] = "executing"
             /\ status' = [p \in Proposals |->
                             IF status[p] = "executing" THEN "unknown"
                                                        ELSE status[p]]

Next == Interrupt \/ \E p \in Proposals : Step(p)

Spec == Init /\ [][Next]_status

=============================================================================
