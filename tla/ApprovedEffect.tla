--------------------------- MODULE ApprovedEffect ---------------------------
(***************************************************************************)
(* What Scotty promises about an approved write: the provider is asked for *)
(* it once at most, only after the approver approved and the proposal was  *)
(* claimed, and it is reported verified only if it was asked for.  The     *)
(* request may still go out after a restart has already declared the       *)
(* execution unknown; it never goes out for a proposal reported failed,    *)
(* denied or expired, and an unknown outcome is final while Scotty runs.   *)
(***************************************************************************)
EXTENDS Naturals

CONSTANT Proposals

VARIABLES status,    \* outcome a reader of the proposal sees
          requests   \* how often the provider was asked for the effect

vars == <<status, requests>>

Init == /\ status = [p \in Proposals |-> "none"]
        /\ requests = [p \in Proposals |-> 0]

Becomes(p, from, to) ==
  /\ status[p] = from
  /\ status' = [status EXCEPT ![p] = to]
  /\ UNCHANGED requests

Draft(p) == Becomes(p, "none", "proposed")
Decide(p) == \E s \in {"approved", "denied"} : Becomes(p, "proposed", s)
Expire(p) == Becomes(p, "proposed", "expired") \/ Becomes(p, "approved", "expired")
Claim(p) == Becomes(p, "approved", "executing")

Ask(p) == /\ status[p] \in {"executing", "unknown"}
          /\ requests[p] = 0
          /\ requests' = [requests EXCEPT ![p] = 1]
          /\ UNCHANGED status

Settle(p) == \/ requests[p] = 1 /\ Becomes(p, "executing", "verified")
             \/ Becomes(p, "executing", "failed")
             \/ Becomes(p, "executing", "unknown")

Interrupt == /\ status' = [p \in Proposals |-> IF status[p] = "executing"
                                               THEN "unknown" ELSE status[p]]
             /\ UNCHANGED requests

Next == \/ Interrupt
        \/ \E p \in Proposals :
             Draft(p) \/ Decide(p) \/ Expire(p) \/ Claim(p) \/ Ask(p) \/ Settle(p)

Spec == Init /\ [][Next]_vars

=============================================================================
