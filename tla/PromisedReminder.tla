-------------------------- MODULE PromisedReminder --------------------------
(***************************************************************************)
(* What Scotty promises about a private reminder: it is sent once at most, *)
(* never before it is due and never after its owner has cancelled it; it   *)
(* is called delivered only if it was sent, and once its fate is unknown   *)
(* nothing in Scotty decides it.  A send already under way may still       *)
(* happen after a restart has declared it unknown.                         *)
(***************************************************************************)
EXTENDS Naturals

CONSTANTS Reminders, Absent   \* Absent: the due time of no reminder

VARIABLES clock, status, due, sends

vars == <<clock, status, due, sends>>

Init == /\ clock = 0
        /\ status = [r \in Reminders |-> "none"]
        /\ due = [r \in Reminders |-> Absent]
        /\ sends = [r \in Reminders |-> 0]

Create(r) == /\ status[r] = "none"
             /\ status' = [status EXCEPT ![r] = "scheduled"]
             /\ due'[r] \in Nat /\ due' = [due EXCEPT ![r] = due'[r]]
             /\ UNCHANGED <<clock, sends>>

Cancel(r) == /\ status[r] = "scheduled"
             /\ status' = [status EXCEPT ![r] = "cancelled"]
             /\ UNCHANGED <<clock, due, sends>>

\* One poll takes some of the reminders that are due.
Take == \E B \in SUBSET {r \in Reminders : status[r] = "scheduled" /\ due[r] <= clock} :
          /\ status' = [r \in Reminders |-> IF r \in B THEN "dispatching" ELSE status[r]]
          /\ UNCHANGED <<clock, due, sends>>

Send(r) == /\ status[r] \in {"dispatching", "unknown"}
           /\ sends[r] = 0
           /\ sends' = [sends EXCEPT ![r] = 1]
           /\ UNCHANGED <<clock, status, due>>

Settle(r) == \E s \in {"delivered", "failed", "unknown"} :
               /\ status[r] = "dispatching"
               /\ s = "delivered" => sends[r] = 1
               /\ status' = [status EXCEPT ![r] = s]
               /\ UNCHANGED <<clock, due, sends>>

Interrupt == /\ status' = [r \in Reminders |-> IF status[r] = "dispatching"
                                               THEN "unknown" ELSE status[r]]
             /\ UNCHANGED <<clock, due, sends>>

Pass == clock' = clock + 1 /\ UNCHANGED <<status, due, sends>>

Next == \/ Take \/ Interrupt \/ Pass
        \/ \E r \in Reminders : Create(r) \/ Cancel(r) \/ Send(r) \/ Settle(r)

Spec == Init /\ [][Next]_vars

=============================================================================
