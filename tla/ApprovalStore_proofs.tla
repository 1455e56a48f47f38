------------------------ MODULE ApprovalStore_proofs ------------------------
(***************************************************************************)
(* Theorems about the approval store, for any number of proposals and      *)
(* principals, any Ttl and any history of calls.                           *)
(*                                                                         *)
(* The inductive invariant StoreInv joins three facts.  StoreTypeOK is not *)
(* inductive alone (a version could pass MaxVersion), and becomes so with  *)
(* VersionTracksLife.  ExecutionIsAuthorised needs to know of a proposal   *)
(* that is not yet claimed who decided it and that nobody has claimed it   *)
(* (DecisionTrail).  ReceiptMatchesOutcome needs to know that a row which  *)
(* is not settled has no receipt (ReceiptTrail).                           *)
(***************************************************************************)
EXTENDS ApprovalStore, TLAPS

DecisionTrail ==
  \A p \in Proposals :
    /\ status[p] # "none" => /\ MayApprove(ApproverOf(p))
                             /\ revision[p] \in Revisions
    /\ status[p] \in {"none", "proposed"} => decidedBy[p] = Nobody
    /\ status[p] = "approved" => decidedBy[p] = ApproverOf(p)
    /\ ~Claimed(p) => claims[p] = {}
    /\ Claimed(p) => claims[p] = {decidedBy[p]} /\ decidedBy[p] = ApproverOf(p)

ReceiptTrail ==
  \A p \in Proposals : receipt[p] # "none" => receipt[p] = status[p]

StoreInv == StoreTypeOK /\ VersionTracksLife /\ DecisionTrail /\ ReceiptTrail

-----------------------------------------------------------------------------
(* What one operation does, and what it preserves. *)

LEMMA StoreInitial == StoreInit => StoreInv
  BY StoreAssumption DEF StoreInit, StoreInv, StoreTypeOK, VersionTracksLife,
     DecisionTrail, ReceiptTrail, Statuses, Outcomes, MaxVersion, Claimed

LEMMA ProposeKeeps ==
  ASSUME StoreInv, NEW p \in Proposals, NEW rev \in Revisions, Propose(p, rev)
  PROVE  StoreInv'
  BY StoreAssumption DEF StoreInv, StoreTypeOK, VersionTracksLife, DecisionTrail, ReceiptTrail,
     Statuses, Outcomes, MaxVersion, Claimed, Propose, ApproverOf, MayApprove

LEMMA SimpleTransitionKeeps ==
  ASSUME StoreInv, NEW p \in Proposals, NEW u \in Users, NEW v \in Int, NEW now \in Int,
         NEW to \in {"approved", "denied"}, SimpleTransition(p, u, v, now, to)
  PROVE  StoreInv'
<1> DEFINE s == IF Expired(p, now) THEN "expired" ELSE to
<1>1. /\ u = ApproverOf(p) /\ status[p] = "proposed" /\ version[p] = v
      /\ s \in {"approved", "denied", "expired"}
      /\ status' = [status EXCEPT ![p] = s]
      /\ version' = [version EXCEPT ![p] = @ + 1]
      /\ decidedBy' = IF s = "expired" THEN decidedBy ELSE [decidedBy EXCEPT ![p] = u]
      /\ UNCHANGED <<clock, expires, revision, receipt, claims>>
  BY DEF SimpleTransition, Admits, MoveTo
<1> HIDE DEF s
<1>2. version[p] = 1
  BY <1>1 DEF StoreInv, VersionTracksLife
<1>3. StoreTypeOK'
  BY <1>1, <1>2 DEF StoreInv, StoreTypeOK, Statuses, MaxVersion
<1>4. VersionTracksLife'
  BY <1>1, <1>2 DEF StoreInv, StoreTypeOK, VersionTracksLife
<1>5. DecisionTrail'
  BY <1>1 DEF StoreInv, StoreTypeOK, DecisionTrail, Claimed, MayApprove, ApproverOf
<1>6. ReceiptTrail'
  BY <1>1 DEF StoreInv, StoreTypeOK, ReceiptTrail, Outcomes
<1> QED BY <1>3, <1>4, <1>5, <1>6 DEF StoreInv

LEMMA ClaimKeeps ==
  ASSUME StoreInv, NEW p \in Proposals, NEW u \in Users, NEW v \in Int, NEW now \in Int,
         NEW nonce, NEW rev, ClaimExecution(p, u, v, nonce, now, rev)
  PROVE  StoreInv'
<1>1. /\ u = ApproverOf(p) /\ status[p] = "approved" /\ version[p] = 2
      /\ decidedBy[p] = u /\ claims[p] = {}
      /\ UNCHANGED <<clock, expires, revision, receipt, decidedBy>>
  BY DEF ClaimExecution, Admits, MoveTo, StoreInv, VersionTracksLife, DecisionTrail, Claimed
<1>2. PICK s \in {"expired", "executing"} :
        /\ status' = [status EXCEPT ![p] = s]
        /\ version' = [version EXCEPT ![p] = @ + 1]
        /\ claims' = IF s = "expired" THEN claims ELSE [claims EXCEPT ![p] = @ \cup {u}]
  BY DEF ClaimExecution, MoveTo
<1>3. StoreTypeOK'
  BY <1>1, <1>2 DEF StoreInv, StoreTypeOK, Statuses, MaxVersion
<1>4. VersionTracksLife'
  BY <1>1, <1>2 DEF StoreInv, StoreTypeOK, VersionTracksLife
<1>5. DecisionTrail'
  <2> SUFFICES ASSUME NEW q \in Proposals
               PROVE  DecisionTrail!(q)'
    BY DEF DecisionTrail
  <2>1. CASE q = p
    BY <1>1, <1>2, <2>1 DEF StoreInv, StoreTypeOK, DecisionTrail, Claimed, MayApprove
  <2>2. CASE q # p
    <3>1. /\ status'[q] = status[q] /\ claims'[q] = claims[q]
          /\ UNCHANGED <<revision, decidedBy>>
      BY <1>1, <1>2, <2>2 DEF StoreInv, StoreTypeOK
    <3> QED BY <3>1 DEF StoreInv, DecisionTrail, Claimed, MayApprove
  <2> QED BY <2>1, <2>2
<1>6. ReceiptTrail'
  BY <1>1, <1>2 DEF StoreInv, StoreTypeOK, ReceiptTrail, Outcomes
<1> QED BY <1>3, <1>4, <1>5, <1>6 DEF StoreInv

LEMMA RecoveryKeeps ==
  ASSUME StoreInv, RecoverInterrupted
  PROVE  StoreInv'
<1>1. StoreTypeOK'
  BY DEF RecoverInterrupted, StoreInv, StoreTypeOK, VersionTracksLife, Statuses, MaxVersion
<1>2. VersionTracksLife'
  BY DEF RecoverInterrupted, StoreInv, StoreTypeOK, VersionTracksLife
<1>3. DecisionTrail'
  BY DEF RecoverInterrupted, StoreInv, StoreTypeOK, DecisionTrail, Claimed, MayApprove, ApproverOf
<1>4. ReceiptTrail'
  BY DEF RecoverInterrupted, StoreInv, StoreTypeOK, ReceiptTrail, Outcomes
<1> QED BY <1>1, <1>2, <1>3, <1>4 DEF StoreInv

\* complete_execution and reconcile: the two uses of _terminal_transition.
LEMMA TerminalKeeps ==
  ASSUME StoreInv, NEW p \in Proposals, NEW outcome \in Outcomes, NEW v \in Int,
         CompleteExecution(p, outcome, v) \/ Reconcile(p, outcome, v)
  PROVE  StoreInv'
<1>1. PICK from \in {"executing", "unknown"} :
        /\ from = "unknown" => outcome \in {"verified", "failed"}
        /\ TerminalTransition(p, from, outcome, v)
  BY DEF CompleteExecution, Reconcile
<1>2. /\ status[p] = from
      /\ status' = [status EXCEPT ![p] = outcome]
      /\ version' = [version EXCEPT ![p] = @ + 1]
      /\ receipt' = [receipt EXCEPT ![p] = outcome]
      /\ UNCHANGED <<clock, expires, revision, decidedBy, claims>>
  BY <1>1 DEF TerminalTransition, MoveTo
<1>3. version[p] = IF from = "executing" THEN 3 ELSE 4
  BY <1>2 DEF StoreInv, VersionTracksLife
<1>4. StoreTypeOK'
  BY <1>2, <1>3 DEF StoreInv, StoreTypeOK, Statuses, Outcomes, MaxVersion
<1>5. VersionTracksLife'
  BY <1>1, <1>2, <1>3 DEF StoreInv, StoreTypeOK, VersionTracksLife, Outcomes
<1>6. DecisionTrail'
  BY <1>2 DEF StoreInv, StoreTypeOK, DecisionTrail, Claimed, MayApprove, ApproverOf, Outcomes
<1>7. ReceiptTrail'
  BY <1>2 DEF StoreInv, StoreTypeOK, ReceiptTrail, Outcomes
<1> QED BY <1>4, <1>5, <1>6, <1>7 DEF StoreInv

LEMMA TickKeeps == ASSUME StoreInv, Tick PROVE StoreInv'
  BY DEF Tick, columns, StoreInv, StoreTypeOK, VersionTracksLife, DecisionTrail, ReceiptTrail,
     Claimed, MayApprove, ApproverOf

LEMMA StoreStutters == ASSUME StoreInv, UNCHANGED storeVars PROVE StoreInv'
  BY DEF storeVars, columns, StoreInv, StoreTypeOK, VersionTracksLife, DecisionTrail,
     ReceiptTrail, Claimed, MayApprove, ApproverOf

LEMMA StoreStep == ASSUME StoreInv, [StoreNext]_storeVars PROVE StoreInv'
<1>1. CASE Tick
  BY <1>1, TickKeeps
<1>2. CASE Draft
  BY <1>2, ProposeKeeps DEF Draft
<1>3. CASE Decide
  <2>1. PICK p \in Proposals, u \in Users, v \in 1..MaxVersion, now \in 0..clock,
             to \in {"approved", "denied"} : SimpleTransition(p, u, v, now, to)
    BY <1>3 DEF Decide, Approve, Deny
  <2> QED BY <2>1, SimpleTransitionKeeps DEF StoreInv, StoreTypeOK
<1>4. CASE Claim
  <2>1. PICK p \in Proposals, nonce \in Proposals, u \in Users, v \in 1..MaxVersion,
             now \in 0..clock, rev \in Revisions :
               ClaimExecution(p, u, v, nonce, now, rev)
    BY <1>4 DEF Claim
  <2> QED BY <2>1, ClaimKeeps DEF StoreInv, StoreTypeOK
<1>5. CASE Settle
  <2>1. PICK p \in Proposals, v \in 1..MaxVersion, outcome \in Outcomes :
               CompleteExecution(p, outcome, v) \/ Reconcile(p, outcome, v)
    BY <1>5 DEF Settle
  <2> QED BY <2>1, TerminalKeeps
<1>6. CASE RecoverInterrupted
  BY <1>6, RecoveryKeeps
<1>7. CASE UNCHANGED storeVars
  BY <1>7, StoreStutters
<1> QED BY <1>1, <1>2, <1>3, <1>4, <1>5, <1>6, <1>7 DEF StoreNext

-----------------------------------------------------------------------------
(* Theorems *)

\* StoreInv holds in every state the store can reach.
THEOREM StoreInvariance == StoreSpec => []StoreInv
<1>1. StoreInit => StoreInv
  BY StoreInitial
<1>2. StoreInv /\ [StoreNext]_storeVars => StoreInv'
  BY StoreStep
<1> QED BY <1>1, <1>2, PTL DEF StoreSpec

\* The columns of the proposal table keep their types; in particular no
\* sequence of calls drives a version past 5.
THEOREM StoreTypeCorrect == StoreSpec => []StoreTypeOK
<1>1. StoreInv => StoreTypeOK
  BY DEF StoreInv
<1> QED BY <1>1, StoreInvariance, PTL

\* A version names a point of the life cycle, for any number of proposals.
THEOREM VersionsTrackLife == StoreSpec => []VersionTracksLife
<1>1. StoreInv => VersionTracksLife
  BY DEF StoreInv
<1> QED BY <1>1, StoreInvariance, PTL

\* Only the recorded approver, who is no employee, has approved and claimed
\* a proposal that reached execution, whatever callers of the store try.
THEOREM ExecutionAuthorised == StoreSpec => []ExecutionIsAuthorised
<1>1. StoreInv => ExecutionIsAuthorised
  BY DEF StoreInv, DecisionTrail, ExecutionIsAuthorised, Claimed, MayApprove
<1> QED BY <1>1, StoreInvariance, PTL

\* A receipt always agrees with the status beside it.
THEOREM ReceiptsMatch == StoreSpec => []ReceiptMatchesOutcome
<1>1. StoreInv => ReceiptMatchesOutcome
  BY DEF StoreInv, ReceiptTrail, ReceiptMatchesOutcome
<1> QED BY <1>1, StoreInvariance, PTL

-----------------------------------------------------------------------------
(* Refinement: the store implements the abstract life cycle. *)

\* A transaction that moves one row moves it along one edge of the graph.
LEMMA EdgeOfMove ==
  ASSUME status \in [Proposals -> Statuses], NEW p \in Proposals, NEW s,
         <<status[p], s>> \in Life!Edges, status' = [status EXCEPT ![p] = s]
  PROVE  Life!Next
<1>1. s \in Life!Statuses
  BY DEF Life!Edges, Life!Statuses
<1> QED BY <1>1 DEF Life!Next, Life!Step

LEMMA StoreStepIsLifeStep ==
  ASSUME StoreInv, [StoreNext]_storeVars
  PROVE  [Life!Next]_status
<1> USE DEF StoreInv, StoreTypeOK
<1>1. CASE Tick
  BY <1>1 DEF Tick, columns
<1>2. CASE Draft
  <2>1. PICK p \in Proposals : /\ <<status[p], "proposed">> \in Life!Edges
                               /\ status' = [status EXCEPT ![p] = "proposed"]
    BY <1>2 DEF Draft, Propose, Life!Edges
  <2> QED BY <2>1, EdgeOfMove
<1>3. CASE Decide
  <2>1. PICK p \in Proposals, u \in Users, v \in 1..MaxVersion, now \in 0..clock,
             to \in {"approved", "denied"} : SimpleTransition(p, u, v, now, to)
    BY <1>3 DEF Decide, Approve, Deny
  <2>2. PICK s \in {"approved", "denied", "expired"} :
               /\ <<status[p], s>> \in Life!Edges
               /\ status' = [status EXCEPT ![p] = s]
    BY <2>1 DEF SimpleTransition, Admits, MoveTo, Life!Edges
  <2> QED BY <2>2, EdgeOfMove
<1>4. CASE Claim
  <2>1. PICK p \in Proposals, s \in {"executing", "expired"} :
               /\ <<status[p], s>> \in Life!Edges
               /\ status' = [status EXCEPT ![p] = s]
    BY <1>4 DEF Claim, ClaimExecution, Admits, MoveTo, Life!Edges
  <2> QED BY <2>1, EdgeOfMove
<1>5. CASE Settle
  <2>1. PICK p \in Proposals, v \in 1..MaxVersion, outcome \in Outcomes :
               CompleteExecution(p, outcome, v) \/ Reconcile(p, outcome, v)
    BY <1>5 DEF Settle
  <2>2. /\ <<status[p], outcome>> \in Life!Edges
        /\ status' = [status EXCEPT ![p] = outcome]
    BY <2>1 DEF CompleteExecution, Reconcile, TerminalTransition, MoveTo, Outcomes, Life!Edges
  <2> QED BY <2>2, EdgeOfMove
<1>6. CASE RecoverInterrupted
  <2>1. CASE \E p \in Proposals : status[p] = "executing"
    BY <1>6, <2>1 DEF RecoverInterrupted, Life!Next, Life!Interrupt
  <2>2. CASE \A p \in Proposals : status[p] # "executing"
    <3>1. status' = [p \in Proposals |-> status[p]]
      BY <1>6, <2>2 DEF RecoverInterrupted
    <3>2. status = [p \in Proposals |-> status[p]]
      OBVIOUS
    <3> QED BY <3>1, <3>2
  <2> QED BY <2>1, <2>2
<1>7. CASE UNCHANGED storeVars
  BY <1>7 DEF storeVars, columns
<1> QED BY <1>1, <1>2, <1>3, <1>4, <1>5, <1>6, <1>7 DEF StoreNext

\* Whatever calls reach the store, and in whatever order, a proposal only
\* moves along the legal edges: in particular no decided, settled or unknown
\* proposal is ever executed.
THEOREM StoreImplementsLifecycle == StoreSpec => LifecycleHolds
<1>1. StoreInit => Life!Init
  BY DEF StoreInit, Life!Init
<1>2. StoreInv /\ [StoreNext]_storeVars => [Life!Next]_status
  BY StoreStepIsLifeStep
<1> QED BY <1>1, <1>2, StoreInvariance, PTL DEF StoreSpec, LifecycleHolds, Life!Spec

\* Once claimed, always claimed: no call makes a row claimable again.
LEMMA ClaimIsForGood ==
  ASSUME StoreInv, [StoreNext]_storeVars, NEW p \in Proposals, Claimed(p)
  PROVE  Claimed(p)'
<1>1. [Life!Next]_status
  BY StoreStepIsLifeStep
<1>2. status \in [Proposals -> Statuses]
  BY DEF StoreInv, StoreTypeOK
<1>3. CASE Life!Interrupt
  BY <1>3 DEF Life!Interrupt, Claimed
<1>4. CASE \E q \in Proposals : Life!Step(q)
  BY <1>2, <1>4 DEF Life!Step, Life!Edges, Claimed
<1>5. CASE UNCHANGED status
  BY <1>5 DEF Claimed
<1> QED BY <1>1, <1>3, <1>4, <1>5 DEF Life!Next

=============================================================================
