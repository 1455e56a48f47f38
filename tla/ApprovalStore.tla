--------------------------- MODULE ApprovalStore ---------------------------
(***************************************************************************)
(* The SQLite proposal store of approvals.py.                              *)
(*                                                                         *)
(* Every operation is one BEGIN IMMEDIATE transaction, so each is one      *)
(* atomic action here; what a transaction does not protect is its          *)
(* arguments.  An actor, a version, a nonce, a source revision and a       *)
(* reading of the clock are all obtained before the write lock is taken    *)
(* and are parameters of the actions: StoreNext lets callers supply any    *)
(* values at all, and ApprovalExecution supplies the ones the service can  *)
(* hold.  A call the store refuses changes nothing and is not a step.      *)
(***************************************************************************)
EXTENDS Integers

CONSTANTS
  Proposals,    \* proposal ids (uuid4); a proposal's nonce is its id here
  Users,        \* exact principal tuples (guild, channel, user, role)
  RoleOf,       \* [Users -> Roles]
  RequesterOf,  \* [Proposals -> Users]: who drafts each proposal
  Revisions,    \* opaque source revisions a draft can be bound to
  NoRevision,   \* the revision of a proposal that does not exist yet
  Ttl,          \* ten minutes, in ticks of the clock
  MaxTime       \* bound: the clock stops here

VARIABLES
  clock,        \* wall clock every reader shares
  status, version, expires,
  revision,     \* column source_revision
  receipt,      \* outcome the last receipt_json was written for, or "none"
  \* History, read by properties only:
  decidedBy,    \* who approved or denied the proposal
  claims        \* the users whose claims of the proposal committed

columns == <<status, version, expires, revision, receipt>>
storeVars == <<clock, columns, decidedBy, claims>>

Roles == {"maintainer", "main_operator", "employee"}
Statuses == {"none", "proposed", "approved", "denied", "expired",
             "executing", "verified", "failed", "unknown"}
NonceOf(p) == p
Nobody == "nobody"

(***************************************************************************)
(* policy.can_approve and ScottyService._approver_for: a maintainer or the *)
(* main operator approves their own drafts, an employee's go to the main   *)
(* operator.                                                               *)
(***************************************************************************)
MayApprove(u) == RoleOf[u] \in {"maintainer", "main_operator"}

ApproverOf(p) == IF MayApprove(RequesterOf[p])
                 THEN RequesterOf[p]
                 ELSE CHOOSE u \in Users : RoleOf[u] = "main_operator"

\* RuntimeConfig admits exactly one main operator, and the operator's tuple
\* is never the sentinel of the history variables.
ASSUME StoreAssumption ==
  /\ Ttl \in Nat \ {0}
  /\ MaxTime \in Nat
  /\ RoleOf \in [Users -> Roles]
  /\ RequesterOf \in [Proposals -> Users]
  /\ \E u \in Users : RoleOf[u] = "main_operator"
  /\ Nobody \notin Users

-----------------------------------------------------------------------------
(* Rows *)

Expired(p, now) == expires[p] <= now

\* Mutated forms of Admits: the principal is not compared, or the WHERE
\* clause does not name the status.
AdmitsAnyActor(p, actor, from, v) == status[p] = from /\ version[p] = v
AdmitsAnyStatus(p, actor, from, v) ==
  actor = ApproverOf(p) /\ version[p] = v /\ status[p] # "none"

\* _simple_transition and claim_execution admit the exact approver only, and
\* only in the status and version the caller names.
Admits(p, actor, from, v) ==
  /\ actor = ApproverOf(p)
  /\ status[p] = from
  /\ version[p] = v

\* One UPDATE: the status changes and the version counts it.
MoveTo(p, s) ==
  /\ status' = [status EXCEPT ![p] = s]
  /\ version' = [version EXCEPT ![p] = @ + 1]
  /\ UNCHANGED <<clock, expires, revision>>

-----------------------------------------------------------------------------
(* Operations *)

StoreInit ==
  /\ clock = 0
  /\ status = [p \in Proposals |-> "none"]
  /\ version = [p \in Proposals |-> 0]
  /\ expires = [p \in Proposals |-> 0]
  /\ revision = [p \in Proposals |-> NoRevision]
  /\ receipt = [p \in Proposals |-> "none"]
  /\ decidedBy = [p \in Proposals |-> Nobody]
  /\ claims = [p \in Proposals |-> {}]

\* propose: INSERT at version 1; an approver outside policy is refused.
Propose(p, rev) ==
  /\ status[p] = "none"
  /\ MayApprove(ApproverOf(p))
  /\ status' = [status EXCEPT ![p] = "proposed"]
  /\ version' = [version EXCEPT ![p] = 1]
  /\ expires' = [expires EXCEPT ![p] = clock + Ttl]
  /\ revision' = [revision EXCEPT ![p] = rev]
  /\ UNCHANGED <<clock, receipt, decidedBy, claims>>

\* approve and deny (_simple_transition).  An expired row is marked expired
\* and the call raises; `now` was read before the transaction began.
SimpleTransition(p, actor, v, now, to) ==
  /\ Admits(p, actor, "proposed", v)
  /\ MoveTo(p, IF Expired(p, now) THEN "expired" ELSE to)
  /\ decidedBy' = IF Expired(p, now) THEN decidedBy
                  ELSE [decidedBy EXCEPT ![p] = actor]
  /\ UNCHANGED <<receipt, claims>>

Approve(p, actor, v, now) == SimpleTransition(p, actor, v, now, "approved")

\* Mutated form: deny overrides whatever has become of the proposal.
DenyAnyStatus(p, actor, v, now) ==
  /\ AdmitsAnyStatus(p, actor, "proposed", v)
  /\ MoveTo(p, "denied")
  /\ UNCHANGED <<receipt, decidedBy, claims>>
Deny(p, actor, v, now) == SimpleTransition(p, actor, v, now, "denied")

\* Mutated form: the source revision is not compared again.
ClaimAnyRevision(p, actor, v, nonce, now, rev) ==
  /\ Admits(p, actor, "approved", v)
  /\ nonce = NonceOf(p)
  /\ MoveTo(p, "executing")
  /\ claims' = [claims EXCEPT ![p] = @ \cup {actor}]
  /\ UNCHANGED <<receipt, decidedBy>>

\* claim_execution: expiry is settled before the nonce and the revision are
\* compared, so an expired row is marked even for a caller with neither.
ClaimExecution(p, actor, v, nonce, now, rev) ==
  /\ Admits(p, actor, "approved", v)
  /\ \/ /\ Expired(p, now)
        /\ MoveTo(p, "expired")
        /\ UNCHANGED claims
     \/ /\ ~Expired(p, now)
        /\ nonce = NonceOf(p)
        /\ rev = revision[p]
        /\ MoveTo(p, "executing")
        /\ claims' = [claims EXCEPT ![p] = @ \cup {actor}]
  /\ UNCHANGED <<receipt, decidedBy>>

\* Mutated forms of RecoverInterrupted: settled rows are recovered too, or
\* interrupted ones are offered for execution again.
RecoverEverything ==
  /\ status' = [p \in Proposals |-> IF status[p] \in {"executing", "verified"}
                                    THEN "unknown" ELSE status[p]]
  /\ version' = [p \in Proposals |-> IF status[p] \in {"executing", "verified"}
                                     THEN version[p] + 1 ELSE version[p]]
  /\ UNCHANGED <<clock, expires, revision, receipt, decidedBy, claims>>
RecoverToApproved ==
  /\ status' = [p \in Proposals |-> IF status[p] = "executing"
                                    THEN "approved" ELSE status[p]]
  /\ version' = [p \in Proposals |-> IF status[p] = "executing"
                                     THEN version[p] + 1 ELSE version[p]]
  /\ UNCHANGED <<clock, expires, revision, receipt, decidedBy, claims>>

\* recover_interrupted, run by every construction of a Runtime.
RecoverInterrupted ==
  /\ status' = [p \in Proposals |-> IF status[p] = "executing"
                                    THEN "unknown" ELSE status[p]]
  /\ version' = [p \in Proposals |-> IF status[p] = "executing"
                                     THEN version[p] + 1 ELSE version[p]]
  /\ UNCHANGED <<clock, expires, revision, receipt, decidedBy, claims>>

\* Mutated form: the UPDATE of _terminal_transition names the id only.
TerminalBlind(p, from, outcome, v) ==
  /\ MoveTo(p, outcome)
  /\ receipt' = [receipt EXCEPT ![p] = outcome]
  /\ UNCHANGED <<decidedBy, claims>>

\* _terminal_transition: compare-and-set on status and version.
TerminalTransition(p, from, outcome, v) ==
  /\ status[p] = from
  /\ version[p] = v
  /\ MoveTo(p, outcome)
  /\ receipt' = [receipt EXCEPT ![p] = outcome]
  /\ UNCHANGED <<decidedBy, claims>>

Outcomes == {"verified", "failed", "unknown"}
CompleteExecution(p, outcome, v) ==
  outcome \in Outcomes /\ TerminalTransition(p, "executing", outcome, v)

\* reconcile is public API with no caller in the runtime: StoreNext has it,
\* ApprovalExecution's next-state relation does not.
Reconcile(p, outcome, v) ==
  /\ outcome \in {"verified", "failed"}
  /\ TerminalTransition(p, "unknown", outcome, v)

Tick == clock < MaxTime /\ clock' = clock + 1 /\ UNCHANGED <<columns, decidedBy, claims>>

-----------------------------------------------------------------------------
(***************************************************************************)
(* The store alone, under callers that supply any arguments.  The largest  *)
(* version is 5: propose, approve, claim, complete, reconcile.             *)
(***************************************************************************)
MaxVersion == 5

Decide == \E p \in Proposals, u \in Users, v \in 1..MaxVersion, now \in 0..clock :
            Approve(p, u, v, now) \/ Deny(p, u, v, now)
Claim == \E p, nonce \in Proposals, u \in Users, v \in 1..MaxVersion,
            now \in 0..clock, rev \in Revisions :
            ClaimExecution(p, u, v, nonce, now, rev)
Settle == \E p \in Proposals, v \in 1..MaxVersion, outcome \in Outcomes :
            CompleteExecution(p, outcome, v) \/ Reconcile(p, outcome, v)
Draft == \E p \in Proposals, rev \in Revisions : Propose(p, rev)

StoreNext == Tick \/ Draft \/ Decide \/ Claim \/ Settle \/ RecoverInterrupted

StoreSpec == StoreInit /\ [][StoreNext]_storeVars

-----------------------------------------------------------------------------
(* Properties *)

StoreTypeOK ==
  /\ clock \in Nat
  /\ status \in [Proposals -> Statuses]
  /\ version \in [Proposals -> 0..MaxVersion]
  /\ expires \in [Proposals -> Nat]
  /\ revision \in [Proposals -> Revisions \cup {NoRevision}]
  /\ receipt \in [Proposals -> Outcomes \cup {"none"}]
  /\ decidedBy \in [Proposals -> Users \cup {Nobody}]
  /\ claims \in [Proposals -> SUBSET Users]

Claimed(p) == status[p] \in {"executing", "verified", "failed", "unknown"}

(***************************************************************************)
(* A proposal that reached execution was approved by one principal and     *)
(* claimed by that same principal, who is the recorded approver and holds  *)
(* an approving role: "Employees may propose but cannot approve or         *)
(* execute" (README.md:129), whatever actor, version and nonce callers of  *)
(* approve, deny and claim_execution put together.                         *)
(***************************************************************************)
ExecutionIsAuthorised ==
  \A p \in Proposals : Claimed(p) =>
    /\ claims[p] = {decidedBy[p]}
    /\ decidedBy[p] = ApproverOf(p)
    /\ RoleOf[decidedBy[p]] # "employee"

(***************************************************************************)
(* Version numbers are predictable from the history of a row: each status  *)
(* is reached at one version (expired and unknown and their successors at  *)
(* two), so a caller who names a version names a point of the life cycle   *)
(* and the compare-and-sets of approvals.py cannot be satisfied by a later *)
(* life of the same row.                                                   *)
(***************************************************************************)
VersionTracksLife ==
  \A p \in Proposals :
    /\ status[p] = "none" <=> version[p] = 0
    /\ status[p] = "proposed" <=> version[p] = 1
    /\ status[p] \in {"approved", "denied"} => version[p] = 2
    /\ status[p] = "expired" => version[p] \in {2, 3}
    /\ status[p] = "executing" => version[p] = 3
    /\ status[p] = "unknown" => version[p] = 4
    /\ status[p] \in {"verified", "failed"} => version[p] \in {4, 5}

(***************************************************************************)
(* The receipt a row carries is the receipt of its present outcome: no     *)
(* recovery pass and no late completion leaves a receipt behind that       *)
(* contradicts the status a reader of scotty_approval would see.           *)
(***************************************************************************)
ReceiptMatchesOutcome ==
  \A p \in Proposals : receipt[p] # "none" => receipt[p] = status[p]

(***************************************************************************)
(* The store implements the abstract life cycle: an unknown execution is   *)
(* never reopened, a decided proposal is never decided again.              *)
(***************************************************************************)
Life == INSTANCE ProposalLifecycle
LifecycleHolds == Life!Spec

=============================================================================
