---------------------- MODULE ApprovalExecution_proofs ----------------------
(***************************************************************************)
(* Theorems about the execution of approved proposals, for any number of   *)
(* proposals, threads, records, edits, crashes and reloads.                *)
(*                                                                         *)
(* First the composition is shown to use the store as StoreSpec allows, so *)
(* that the store's invariant StoreInv holds here as well; that needs only *)
(* the fact that a call's reading of the clock is not in the future.       *)
(* Then HoldInv, about who holds a claimed proposal and what it has asked  *)
(* of the provider, is shown inductive; the safety theorems follow.        *)
(*                                                                         *)
(* Two strengthenings come after them.  OutInv says what must be absent    *)
(* while a proposal has its status: an ambiguous answer, a confirmation, a *)
(* version that its holder does not know.  SeenInv says what the approver  *)
(* was shown of the target that a verification looks at.                   *)
(***************************************************************************)
EXTENDS ApprovalExecution, ApprovalStore_proofs

CallsOK ==
  \A w \in Workers : /\ call[w].pc # "idle" => call[w].p \in Proposals
                     /\ call[w].now <= clock

BaseInv == StoreInv /\ TypeOK /\ CallsOK

-----------------------------------------------------------------------------
(* Steps of the store *)

LEMMA TransactionIsStoreStep ==
  ASSUME BaseInv, Next
  PROVE  [StoreNext]_storeVars
<1> USE DEF BaseInv, TypeOK, CallTypeOK
<1>1. ASSUME NEW p \in Proposals, DraftProposal(p)
      PROVE  StoreNext
  BY <1>1 DEF DraftProposal, StoreNext, Draft
<1>2. ASSUME NEW w \in Workers, DecideCall(w)
      PROVE  StoreNext
  <2>1. call[w].p \in Proposals /\ call[w].now \in 0..clock
    BY <1>2 DEF DecideCall, At, CallsOK, Calls, StoreTypeOK
  <2> QED BY <1>2, <2>1 DEF DecideCall, Job, StoreNext, Decide
<1>3. ASSUME NEW w \in Workers, ClaimCall(w)
      PROVE  StoreNext
  <2>1. call[w].p \in Proposals /\ call[w].now \in 0..clock
    BY <1>3 DEF ClaimCall, At, CallsOK, Calls, StoreTypeOK
  <2>2. PICK u \in Users, v \in 1..MaxVersion, nonce \in Proposals :
          ClaimExecution(call[w].p, u, v, nonce, call[w].now, call[w].seen)
    BY <1>3 DEF ClaimCall, Job
  <2>3. ClaimExecution(call[w].p, u, v, nonce, call[w].now, revision[call[w].p])
    BY <2>2 DEF ClaimExecution
  <2>4. revision[call[w].p] \in Revisions
    BY <2>1, <2>2 DEF StoreInv, DecisionTrail, ClaimExecution, Admits
  <2> QED BY <2>1, <2>3, <2>4 DEF StoreNext, Claim
<1>4. ASSUME NEW w \in Workers, SettleCall(w)
      PROVE  StoreNext
  <2>1. call[w].p \in Proposals /\ call[w].outcome \in Outcomes
    BY <1>4 DEF SettleCall, At, CallsOK, Calls
  <2>2. CompleteExecution(call[w].p, call[w].outcome, call[w].ver)
    BY <1>4 DEF SettleCall, Job
  <2>3. call[w].ver = 3
    BY <2>1, <2>2 DEF CompleteExecution, TerminalTransition, StoreInv, VersionTracksLife
  <2> QED BY <2>1, <2>2, <2>3 DEF StoreNext, Settle, MaxVersion
<1>5. ASSUME NEW w \in Workers, Step(w)
      PROVE  [StoreNext]_storeVars
  BY <1>2, <1>3, <1>4, <1>5 DEF Step, ReadCard, ReadClock, CallRefused, FetchClaimed,
     RefusedLocally, IssueRequest, Reply, Readback, SettleRefused, StoreUnavailable
<1>6. BuildRuntime => StoreNext
  BY DEF BuildRuntime, StoreNext
<1>7. Time => StoreNext
  BY DEF Time, StoreNext
<1> QED BY <1>1, <1>5, <1>6, <1>7 DEF Next, BeginDecision, BeginExecution, Apply, Lose,
     Edit, Crash, Boot, Reload

LEMMA StutterIsStoreStep == ASSUME UNCHANGED vars PROVE UNCHANGED storeVars
  BY DEF vars

-----------------------------------------------------------------------------
(* Types *)

LEMMA IdleTyped == Idle \in Calls
  BY ExecutionAssumption DEF Idle, Calls, Outcomes, Effects, Unread, MaxVersion

LEMMA PcTyped ==
  ASSUME NEW c \in Calls, NEW pc \in {"idle"} \cup Deciding \cup Unclaimed \cup Holding
  PROVE  [c EXCEPT !.pc = pc] \in Calls
  BY DEF Calls

LEMMA OutcomeTyped ==
  ASSUME NEW c \in Calls, NEW o \in Outcomes
  PROVE  [c EXCEPT !.pc = "settle", !.outcome = o] \in Calls
  BY DEF Calls, Holding

LEMMA ArchiveTyped ==
  ASSUME NEW c \in Calls
  PROVE  [c EXCEPT !.pc = "request", !.effect = "archive"] \in Calls
  BY DEF Calls, Holding, Effects

LEMMA EntersTyped ==
  ASSUME CallTypeOK, NEW w \in Workers, NEW rec \in Calls, Enters(w, rec)
  PROVE  CallTypeOK'
  BY DEF CallTypeOK, Enters

LEMMA ReturnsTyped ==
  ASSUME CallTypeOK, NEW w \in Workers, Returns(w)
  PROVE  CallTypeOK'
  BY IdleTyped DEF CallTypeOK, Returns, Enters

LEMMA GoesToTyped ==
  ASSUME CallTypeOK, NEW w \in Workers,
         NEW pc \in {"idle"} \cup Deciding \cup Unclaimed \cup Holding, GoesTo(w, pc)
  PROVE  CallTypeOK'
<1>1. call[w] \in Calls /\ [call[w] EXCEPT !.pc = pc] \in Calls
  BY PcTyped DEF CallTypeOK
<1> QED BY <1>1 DEF CallTypeOK, GoesTo

LEMMA ConcludesTyped ==
  ASSUME CallTypeOK, NEW w \in Workers, NEW o \in Outcomes, Concludes(w, o)
  PROVE  CallTypeOK'
<1>1. call[w] \in Calls /\ [call[w] EXCEPT !.pc = "settle", !.outcome = o] \in Calls
  BY OutcomeTyped DEF CallTypeOK
<1> QED BY <1>1 DEF CallTypeOK, Concludes

LEMMA HandleTyped ==
  ASSUME CallTypeOK, NEW w \in Workers, NEW result, Handle(w, result)
  PROVE  CallTypeOK'
  BY GoesToTyped, ConcludesTyped, ReturnsTyped DEF Handle, AfterError, Outcomes, Holding

LEMMA CallsTyped ==
  ASSUME BaseInv, Next
  PROVE  CallTypeOK'
<1> CallTypeOK /\ StoreTypeOK /\ ProviderTypeOK
  BY DEF BaseInv, TypeOK
<1>1. ASSUME NEW w \in Workers, NEW p \in Proposals, BeginDecision(w, p) PROVE CallTypeOK'
  <2>1. [Idle EXCEPT !.pc = "decide", !.p = p, !.now = clock] \in Calls
    BY IdleTyped DEF Calls, Deciding, StoreTypeOK
  <2> QED BY <1>1, <2>1, EntersTyped DEF BeginDecision
<1>2. ASSUME NEW w \in Workers, NEW p \in Proposals, BeginExecution(w, p) PROVE CallTypeOK'
  <2> DEFINE pc == IF CardsOf(p) = {} THEN "clock" ELSE "read"
             prior == {q \in Proposals : status[q] = "verified"}
  <2>1. pc \in Unclaimed /\ prior \in SUBSET Proposals
    BY DEF Unclaimed
  <2>2. Enters(w, [Idle EXCEPT !.pc = pc, !.p = p, !.prior = prior])
    BY <1>2 DEF BeginExecution
  <2> HIDE DEF pc, prior
  <2>3. [Idle EXCEPT !.pc = pc, !.p = p, !.prior = prior] \in Calls
    BY <2>1, IdleTyped DEF Calls
  <2> QED BY <2>2, <2>3, EntersTyped
<1>3. ASSUME NEW w \in Workers, Step(w) PROVE CallTypeOK'
  <2>1. CASE DecideCall(w) \/ CallRefused(w) \/ SettleCall(w) \/ SettleRefused(w) \/ StoreUnavailable(w)
    BY <2>1, ReturnsTyped DEF DecideCall, CallRefused, SettleCall, SettleRefused, StoreUnavailable
  <2>2. CASE ReadCard(w)
    <3>1. PICK c \in Cards, pc \in {"read", "clock"} :
            call' = [call EXCEPT ![w].seen = [call[w].seen EXCEPT ![c] = RevisionAt(c)], ![w].pc = pc]
      <4>1. CardsOf(Job(w)) \subseteq Cards
        <5>1. Job(w) \in Proposals
          BY <2>2 DEF ReadCard, At, Job, BaseInv, CallsOK
        <5> QED BY <5>1, ExecutionAssumption DEF CardsOf
      <4>2. PICK c \in CardsOf(Job(w)), pc \in {"read", "clock"} :
              call' = [call EXCEPT ![w].seen = [call[w].seen EXCEPT ![c] = RevisionAt(c)],
                                   ![w].pc = pc]
        BY <2>2 DEF ReadCard
      <4> QED BY <4>1, <4>2
    <3>2. RevisionAt(c) \in Int
      BY DEF RevisionAt, ProviderTypeOK
    <3>3. [call[w] EXCEPT !.seen = [call[w].seen EXCEPT ![c] = RevisionAt(c)], !.pc = pc] \in Calls
      BY <3>2 DEF CallTypeOK, Calls, Unclaimed
    <3> QED BY <3>1, <3>3 DEF CallTypeOK
  <2>3. CASE ReadClock(w)
    <3>1. [call[w] EXCEPT !.pc = "claim", !.now = clock] \in Calls
      <4> DEFINE pc == "claim"
      <4>1. /\ call[w] \in Calls /\ clock \in Nat
            /\ pc \in {"idle"} \cup Deciding \cup Unclaimed \cup Holding
        BY DEF CallTypeOK, Unclaimed, StoreTypeOK
      <4> HIDE DEF pc
      <4>2. [call[w] EXCEPT !.pc = pc, !.now = clock] \in Calls
        BY <4>1 DEF Calls
      <4> QED BY <4>2 DEF pc
    <3> QED BY <2>3, <3>1 DEF CallTypeOK, ReadClock
  <2>4. CASE ClaimCall(w)
    BY <2>4, ReturnsTyped, GoesToTyped DEF ClaimCall, Holding
  <2>5. CASE FetchClaimed(w)
    <3>1. version[Job(w)] \in 0..MaxVersion
      BY <2>5 DEF FetchClaimed, At, Job, BaseInv, CallsOK, StoreTypeOK
    <3>2. [call[w] EXCEPT !.pc = "request", !.ver = version[Job(w)]] \in Calls
      BY <3>1 DEF CallTypeOK, Calls, Holding
    <3> QED BY <2>5, <3>2 DEF CallTypeOK, FetchClaimed
  <2>6. CASE RefusedLocally(w) \/ Reply(w)
    BY <2>6, HandleTyped DEF RefusedLocally, Reply
  <2>7. CASE IssueRequest(w)
    BY <2>7, GoesToTyped DEF IssueRequest, Holding
  <2>8. CASE Readback(w)
    <3>1. CASE call' = [call EXCEPT ![w].pc = "request", ![w].effect = "archive"]
      BY <3>1, ArchiveTyped DEF CallTypeOK
    <3>2. CASE Returns(w) \/ \E o \in Outcomes : Concludes(w, o)
      BY <3>2, ReturnsTyped, ConcludesTyped
    <3> QED BY <2>8, <3>1, <3>2 DEF Readback, NextAfterReadback, Outcomes
  <2> QED BY <1>3, <2>1, <2>2, <2>3, <2>4, <2>5, <2>6, <2>7, <2>8 DEF Step
<1>4. CASE Crash
  BY <1>4, IdleTyped DEF Crash, CallTypeOK
<1>5. CASE UNCHANGED call
  BY <1>5 DEF CallTypeOK
<1> QED BY <1>1, <1>2, <1>3, <1>4, <1>5 DEF Next, DraftProposal, Apply, Lose, Edit, Boot,
     Reload, BuildRuntime, Time

LEMMA EnvTyped ==
  ASSUME EnvTypeOK, Next
  PROVE  EnvTypeOK'
<1>1. ASSUME NEW w \in Workers, Step(w) PROVE UNCHANGED envVars
  BY <1>1 DEF Step, DecideCall, ReadCard, ReadClock, ClaimCall, CallRefused, FetchClaimed,
     RefusedLocally, IssueRequest, Reply, Readback, SettleCall, SettleRefused, StoreUnavailable
<1>2. CASE UNCHANGED envVars
  BY <1>2 DEF envVars, EnvTypeOK
<1>3. CASE Crash \/ Boot \/ Reload \/ BuildRuntime
  <2>1. restarts' \in {restarts, restarts + 1} /\ (restarts' = restarts + 1 => restarts < MaxRestarts)
    BY <1>3 DEF EnvTypeOK, Crash, Boot, Reload, BuildRuntime
  <2>2. up' \in BOOLEAN /\ ready' \in BOOLEAN /\ edits' = edits
    BY <1>3 DEF EnvTypeOK, Crash, Boot, Reload, BuildRuntime
  <2> QED BY <2>1, <2>2, ExecutionAssumption DEF EnvTypeOK
<1>4. ASSUME NEW c \in Cards, Edit(c) PROVE EnvTypeOK'
  BY <1>4, ExecutionAssumption DEF EnvTypeOK, Edit
<1> QED BY <1>1, <1>2, <1>3, <1>4 DEF Next, DraftProposal, BeginDecision, BeginExecution, Apply,
     Lose, Time

LEMMA ProviderTyped ==
  ASSUME BaseInv, Next
  PROVE  ProviderTypeOK'
<1> ProviderTypeOK /\ CallTypeOK
  BY DEF BaseInv, TypeOK
<1>1. ASSUME NEW w \in Workers, IssueRequest(w) PROVE ProviderTypeOK'
  <2>1. Job(w) \in Proposals /\ call[w].effect \in Effects
    BY <1>1 DEF IssueRequest, At, Job, BaseInv, CallsOK, CallTypeOK, Calls
  <2> DEFINE p == Job(w)
             e == call[w].effect
  <2>2. /\ sent' = [sent EXCEPT ![p][e] = sent[p][e] + 1]
        /\ wire' = [wire EXCEPT ![p][e] = "open"]
        /\ UNCHANGED <<rev, landedRev>>
    BY <1>1 DEF IssueRequest
  <2> HIDE DEF p, e
  <2>3. p \in Proposals /\ e \in Effects
    BY <2>1 DEF p, e
  <2> QED BY <2>2, <2>3 DEF ProviderTypeOK
<1>2. ASSUME NEW w \in Workers, Step(w), ~IssueRequest(w) PROVE UNCHANGED providerVars
  BY <1>2 DEF Step, DecideCall, ReadCard, ReadClock, ClaimCall, CallRefused, FetchClaimed,
     RefusedLocally, Reply, Readback, SettleCall, SettleRefused, StoreUnavailable
<1>3. ASSUME NEW p \in Proposals, NEW e \in Effects, Apply(p, e) PROVE ProviderTypeOK'
  <2>1. CardOf(p, e) \in Cards \cup {NoCard}
    BY ExecutionAssumption DEF CardOf
  <2>2. wire' = [wire EXCEPT ![p][e] = "applied"] /\ sent' = sent
    BY <1>3 DEF Apply
  <2>3. CASE CardOf(p, e) = NoCard
    BY <1>3, <2>2, <2>3 DEF Apply, ProviderTypeOK
  <2>4. CASE CardOf(p, e) # NoCard
    <3>1. PICK c \in Cards : /\ rev' = [rev EXCEPT ![c] = @ + 1]
                             /\ landedRev' = [landedRev EXCEPT ![p][e] = rev[c] + 1]
      BY <1>3, <2>1, <2>4 DEF Apply
    <3>2. rev' \in [Cards -> Nat]
      BY <3>1 DEF ProviderTypeOK
    <3>3. landedRev' \in [Proposals -> [Effects -> Nat]]
      BY <3>1 DEF ProviderTypeOK
    <3>4. wire' \in [Proposals -> [Effects -> {"none", "open", "applied", "lost"}]]
      BY <2>2 DEF ProviderTypeOK
    <3> QED BY <2>2, <3>2, <3>3, <3>4 DEF ProviderTypeOK
  <2> QED BY <2>3, <2>4
<1>4. ASSUME NEW p \in Proposals, NEW e \in Effects, Lose(p, e) PROVE ProviderTypeOK'
  BY <1>4 DEF Lose, ProviderTypeOK
<1>5. ASSUME NEW c \in Cards, Edit(c) PROVE ProviderTypeOK'
  BY <1>5 DEF Edit, ProviderTypeOK
<1>6. CASE UNCHANGED providerVars
  BY <1>6 DEF providerVars, ProviderTypeOK
<1> QED BY <1>1, <1>2, <1>3, <1>4, <1>5, <1>6 DEF Next, DraftProposal, BeginDecision,
     BeginExecution, Crash, Boot, Reload, BuildRuntime, Time

LEMMA HistoryTyped ==
  ASSUME BaseInv, Next
  PROVE  HistoryTypeOK'
<1> HistoryTypeOK /\ CallTypeOK
  BY DEF BaseInv, TypeOK
<1>1. ASSUME NEW w \in Workers, Step(w) PROVE HistoryTypeOK'
  <2>1. CASE UNCHANGED historyVars
    BY <2>1 DEF historyVars, HistoryTypeOK
  <2>2. ASSUME call[w].pc # "idle"
        PROVE  Job(w) \in Proposals /\ call[w] \in Calls
    BY <2>2 DEF Job, BaseInv, CallsOK, CallTypeOK
  <2>3. CASE ClaimCall(w)
    BY <2>2, <2>3 DEF ClaimCall, At, HistoryTypeOK, Calls, historyVars
  <2>4. CASE RefusedLocally(w) \/ StoreUnavailable(w)
    BY <2>2, <2>4 DEF RefusedLocally, StoreUnavailable, StrandsIf, At, HistoryTypeOK
  <2>5. CASE Reply(w)
    BY <2>2, <2>5 DEF Reply, StrandsIf, At, HistoryTypeOK, Calls
  <2>6. CASE Readback(w)
    BY <2>2, <2>6 DEF Readback, StrandsIf, At, HistoryTypeOK, Calls
  <2> QED BY <1>1, <2>1, <2>3, <2>4, <2>5, <2>6 DEF Step, DecideCall, ReadCard, ReadClock,
       CallRefused, FetchClaimed, IssueRequest, SettleCall, SettleRefused
<1>2. CASE UNCHANGED historyVars
  BY <1>2 DEF historyVars, HistoryTypeOK
<1> QED BY <1>1, <1>2 DEF Next, DraftProposal, BeginDecision, BeginExecution, Apply, Lose, Edit,
     Crash, Boot, Reload, BuildRuntime, Time

-----------------------------------------------------------------------------
(***************************************************************************)
(* Who holds what.  A claimed proposal has one holder at most, for a store *)
(* claim is granted from "approved" only and no row returns there; and the *)
(* holder's place in the executor tells what has been asked and seen:      *)
(*  - a request is about to be sent only where none has been sent;         *)
(*  - the archive of a merge is reached through a readback of "main";      *)
(*  - a call that will settle as verified has evidence of every effect.    *)
(* The holder need not know the status: after a recovery pass it may be    *)
(* "unknown", but never anything further.                                  *)
(***************************************************************************)
Evidence(p) ==
  \A e \in EffectsOf(p) : wire[p][e] = "applied" /\ (ReadsBack(p) => e \in confirmed[p])

Exclusive ==
  \A v, w \in Workers :
    /\ call[v].pc \in Holding /\ call[w].pc \in Holding /\ call[v].p = call[w].p
    => v = w

HolderOK(w) ==
  LET c == call[w]  p == call[w].p IN
  /\ c.pc \notin Holding => c.effect = "main"
  /\ c.pc \in Holding =>
       /\ status[p] \in {"executing", "unknown"}
       /\ c.pc = "fetch" => c.effect = "main"
       /\ c.pc \in {"fetch", "request"} => sent[p][c.effect] = 0
       /\ c.effect = "main" => sent[p]["archive"] = 0
       /\ c.effect = "archive" => /\ OpOf[p] = "merge"
                                  /\ "main" \in confirmed[p]
                                  /\ wire[p]["main"] = "applied"
       /\ c.pc = "readback" => ReadsBack(p) /\ wire[p][c.effect] = "applied"
       /\ c.pc = "settle" /\ c.outcome = "verified" => Evidence(p)

RequestsOK(p) ==
  /\ \A e \in Effects : /\ sent[p][e] \in {0, 1}
                        /\ sent[p][e] = 0 => wire[p][e] = "none"
                        /\ sent[p][e] = 1 => Claimed(p)
  /\ sent[p]["archive"] = 1 => "main" \in confirmed[p] /\ wire[p]["main"] = "applied"
  /\ status[p] = "verified" => Evidence(p)

HoldInv ==
  /\ Exclusive
  /\ \A w \in Workers : HolderOK(w)
  /\ \A p \in Proposals : RequestsOK(p)

\* What every step but a settlement leaves true of the status of a row.
StatusKept ==
  \A p \in Proposals :
    /\ status[p] \in {"executing", "unknown"} => status'[p] \in {"executing", "unknown"}
    /\ Claimed(p) => Claimed(p)'
    /\ status'[p] = "verified" => status[p] = "verified"

\* The steps of one call change no other call.
Alone(w) == \A x \in Workers : x # w => call'[x] = call[x]

\* A call that holds nothing afterwards disturbs nothing.
LEMMA QuietStep ==
  ASSUME HoldInv, NEW w \in Workers, Alone(w), StatusKept,
         call'[w].pc \notin Holding, call'[w].effect = "main",
         \A x \in Workers : call[x].pc \in Holding => call[x].p \in Proposals,
         UNCHANGED <<sent, wire, confirmed>>
  PROVE  HoldInv'
<1>1. Exclusive'
  BY DEF HoldInv, Exclusive, Alone
<1>2. ASSUME NEW x \in Workers PROVE HolderOK(x)'
  <2>1. CASE x = w
    BY <2>1 DEF HolderOK
  <2>2. CASE x # w
    <3>1. call'[x] = call[x] /\ HolderOK(x)
      BY <2>2 DEF Alone, HoldInv
    <3> QED BY <3>1 DEF HolderOK, StatusKept, Evidence
  <2> QED BY <2>1, <2>2
<1>3. ASSUME NEW p \in Proposals PROVE RequestsOK(p)'
  BY DEF HoldInv, RequestsOK, StatusKept, Evidence
<1> QED BY <1>1, <1>2, <1>3 DEF HoldInv

\* A holder that moves on to wait, to read back or to settle: it must bring
\* what its new place in the executor claims.
LEMMA KeepStep ==
  ASSUME HoldInv, NEW w \in Workers, Alone(w), StatusKept,
         call[w].pc \in Holding, call'[w].pc \in {"reply", "readback", "settle"},
         call'[w].p = call[w].p, call'[w].effect = call[w].effect,
         \A x \in Workers : call[x].pc \in Holding => call[x].p \in Proposals,
         UNCHANGED <<sent, wire>>,
         \A p \in Proposals : confirmed[p] \subseteq confirmed'[p],
         call'[w].pc = "readback" => /\ ReadsBack(call[w].p)
                                     /\ wire[call[w].p][call[w].effect] = "applied",
         call'[w].pc = "settle" /\ call'[w].outcome = "verified" => Evidence(call[w].p)'
  PROVE  HoldInv'
<1>1. Exclusive'
  BY DEF HoldInv, Exclusive, Alone, Holding
<1>2. ASSUME NEW p \in Proposals, Evidence(p) PROVE Evidence(p)'
  BY <1>2 DEF Evidence, EffectsOf, ReadsBack
<1>3. ASSUME NEW x \in Workers PROVE HolderOK(x)'
  <2>1. CASE x = w
    <3>1. HolderOK(w) /\ call[w].p \in Proposals
      BY DEF HoldInv
    <3> QED BY <2>1, <3>1 DEF HolderOK, StatusKept, ReadsBack, Holding
  <2>2. CASE x # w
    <3>1. call'[x] = call[x] /\ HolderOK(x)
      BY <2>2 DEF Alone, HoldInv
    <3> QED BY <1>2, <3>1 DEF HolderOK, StatusKept, ReadsBack
  <2> QED BY <2>1, <2>2
<1>4. ASSUME NEW p \in Proposals PROVE RequestsOK(p)'
  BY <1>2 DEF HoldInv, RequestsOK, StatusKept
<1> QED BY <1>1, <1>3, <1>4 DEF HoldInv

\* Nothing but the provider or the environment moves.
LEMMA WireStep ==
  ASSUME BaseInv, HoldInv, NEW p \in Proposals, NEW e \in Effects, wire[p][e] = "open",
         NEW s \in {"applied", "lost"}, wire' = [wire EXCEPT ![p][e] = s],
         UNCHANGED <<call, sent, confirmed, status>>
  PROVE  HoldInv'
<1>1. wire \in [Proposals -> [Effects -> {"none", "open", "applied", "lost"}]]
  BY DEF BaseInv, TypeOK, ProviderTypeOK
<1>2. \A q \in Proposals, f \in Effects :
        /\ wire[q][f] = "applied" => wire'[q][f] = "applied"
        /\ wire'[q][f] = "none" <=> wire[q][f] = "none"
  BY <1>1
<1>3. ASSUME NEW q \in Proposals, Evidence(q) PROVE Evidence(q)'
  BY <1>2, <1>3 DEF Evidence, EffectsOf, ReadsBack, Effects
<1>4. Exclusive'
  BY DEF HoldInv, Exclusive
<1>5. ASSUME NEW x \in Workers PROVE HolderOK(x)'
  <2>1. HolderOK(x) /\ (call[x].pc \in Holding => call[x].p \in Proposals) /\ call[x] \in Calls
    BY DEF HoldInv, BaseInv, CallsOK, Holding, TypeOK, CallTypeOK
  <2>2. call[x].effect \in Effects /\ "main" \in Effects
    BY <2>1 DEF Calls, Effects
  <2> QED BY <1>2, <1>3, <2>1, <2>2 DEF HolderOK, ReadsBack
<1>6. ASSUME NEW q \in Proposals PROVE RequestsOK(q)'
  BY <1>2, <1>3 DEF HoldInv, RequestsOK, Claimed, Effects
<1> QED BY <1>4, <1>5, <1>6 DEF HoldInv

LEMMA StatusKeptBy ==
  ASSUME BaseInv,
         \/ \E p \in Proposals, r \in Revisions : Propose(p, r)
         \/ \E p \in Proposals, u \in Users, v \in 1..MaxVersion, now \in Int,
               to \in {"approved", "denied"} :
               SimpleTransition(p, u, v, now, to)
         \/ \E p \in Proposals : \E u, v, n, now, r : ClaimExecution(p, u, v, n, now, r)
         \/ RecoverInterrupted
         \/ UNCHANGED status
  PROVE  StatusKept
<1> status \in [Proposals -> Statuses]
  BY DEF BaseInv, StoreInv, StoreTypeOK
<1>1. ASSUME NEW p \in Proposals, status[p] \in {"none", "proposed", "approved"},
             NEW s, status' = [status EXCEPT ![p] = s], s # "verified"
      PROVE  StatusKept
  BY <1>1 DEF StatusKept, Claimed
<1>2. CASE \E p \in Proposals, r \in Revisions : Propose(p, r)
  BY <1>1, <1>2 DEF Propose
<1>3. ASSUME NEW p \in Proposals, NEW u \in Users, NEW v \in 1..MaxVersion, NEW now \in Int,
             NEW to \in {"approved", "denied"}, SimpleTransition(p, u, v, now, to)
      PROVE  StatusKept
  BY <1>1, <1>3 DEF SimpleTransition, Admits, MoveTo
<1>4. CASE \E p \in Proposals : \E u, v, n, now, r : ClaimExecution(p, u, v, n, now, r)
  BY <1>1, <1>4 DEF ClaimExecution, Admits, MoveTo
<1>5. CASE RecoverInterrupted
  BY <1>5 DEF RecoverInterrupted, StatusKept, Claimed
<1>6. CASE UNCHANGED status
  BY <1>6 DEF StatusKept, Claimed
<1> QED BY <1>2, <1>3, <1>4, <1>5, <1>6

LEMMA HolderFacts ==
  ASSUME BaseInv, NEW w \in Workers
  PROVE  /\ call \in [Workers -> Calls] /\ call[w] \in Calls
         /\ call[w].effect \in Effects
         /\ call[w].pc # "idle" => call[w].p \in Proposals
         /\ \A x \in Workers : call[x].pc \in Holding => call[x].p \in Proposals
  BY DEF BaseInv, TypeOK, CallTypeOK, CallsOK, Holding, Calls

\* How the calls of ApprovalExecution are written, one form at a time.
LEMMA ReturnsShape ==
  ASSUME BaseInv, NEW w \in Workers, Returns(w)
  PROVE  Alone(w) /\ call'[w].pc \notin Holding /\ call'[w].effect = "main"
  BY HolderFacts DEF Returns, Enters, Idle, Alone, Holding

LEMMA GoesToShape ==
  ASSUME BaseInv, NEW w \in Workers, NEW pc, GoesTo(w, pc)
  PROVE  /\ Alone(w) /\ call'[w].pc = pc /\ call'[w].p = call[w].p
         /\ call'[w].effect = call[w].effect
  BY HolderFacts DEF GoesTo, Alone, Calls

LEMMA ConcludesShape ==
  ASSUME BaseInv, NEW w \in Workers, NEW o, Concludes(w, o)
  PROVE  /\ Alone(w) /\ call'[w].pc = "settle" /\ call'[w].p = call[w].p
         /\ call'[w].effect = call[w].effect /\ call'[w].outcome = o
  BY HolderFacts DEF Concludes, Alone, Calls

LEMMA ReadCardShape ==
  ASSUME BaseInv, NEW w \in Workers, ReadCard(w)
  PROVE  /\ Alone(w) /\ call'[w].pc \in Unclaimed /\ call'[w].p = call[w].p
         /\ call'[w].effect = call[w].effect /\ call'[w].now = call[w].now
<1>1. PICK c \in CardsOf(Job(w)) :
        LET seen == [call[w].seen EXCEPT ![c] = RevisionAt(c)]
            more == \E d \in CardsOf(Job(w)) : seen[d] = Unread
        IN call' = [call EXCEPT ![w].seen = seen,
                                ![w].pc = IF more THEN "read" ELSE "clock"]
  BY DEF ReadCard
<1> DEFINE seen == [call[w].seen EXCEPT ![c] = RevisionAt(c)]
           pc == IF \E d \in CardsOf(Job(w)) : seen[d] = Unread THEN "read" ELSE "clock"
<1>2. call' = [call EXCEPT ![w].seen = seen, ![w].pc = pc]
  BY <1>1, Zenon
<1>3. pc \in Unclaimed
  BY DEF Unclaimed
<1> HIDE DEF seen, pc
<1>4. Alone(w) /\ call'[w] = [call[w] EXCEPT !.seen = seen, !.pc = pc]
  BY <1>2, HolderFacts DEF Alone
<1> QED BY <1>3, <1>4, HolderFacts DEF Calls

LEMMA ReadClockShape ==
  ASSUME BaseInv, NEW w \in Workers, ReadClock(w)
  PROVE  /\ Alone(w) /\ call'[w].pc \in Unclaimed /\ call'[w].p = call[w].p
         /\ call'[w].effect = call[w].effect /\ call'[w].now = clock
  BY HolderFacts DEF ReadClock, Alone, Calls, Unclaimed

LEMMA FetchClaimedShape ==
  ASSUME BaseInv, NEW w \in Workers, FetchClaimed(w)
  PROVE  /\ Alone(w) /\ call'[w].pc = "request" /\ call'[w].p = call[w].p
         /\ call'[w].effect = call[w].effect /\ call'[w].now = call[w].now
  BY HolderFacts DEF FetchClaimed, Alone, Calls

LEMMA BeginShape ==
  ASSUME BaseInv, NEW w \in Workers, NEW p \in Proposals,
         BeginDecision(w, p) \/ BeginExecution(w, p)
  PROVE  /\ Alone(w) /\ call'[w].pc \notin Holding /\ call'[w].p = p
         /\ call'[w].effect = "main" /\ call'[w].now \in {0, clock}
<1>1. ASSUME BeginDecision(w, p)
      PROVE  Alone(w) /\ call'[w] = [Idle EXCEPT !.pc = "decide", !.p = p, !.now = clock]
  BY <1>1, HolderFacts DEF BeginDecision, Enters, Alone
<1>2. CASE BeginDecision(w, p)
  BY <1>1, <1>2 DEF Idle, Holding
<1>3. CASE BeginExecution(w, p)
  <2> DEFINE pc == IF CardsOf(p) = {} THEN "clock" ELSE "read"
             prior == {q \in Proposals : status[q] = "verified"}
  <2>1. Enters(w, [Idle EXCEPT !.pc = pc, !.p = p, !.prior = prior])
    BY <1>3 DEF BeginExecution
  <2>2. pc \notin Holding
    BY DEF Holding
  <2> HIDE DEF pc, prior
  <2>3. Alone(w) /\ call'[w] = [Idle EXCEPT !.pc = pc, !.p = p, !.prior = prior]
    BY <2>1, HolderFacts DEF Enters, Alone
  <2> QED BY <2>2, <2>3 DEF Idle
<1> QED BY <1>2, <1>3

\* The result of an exchange, or of a refusal to start one.
LEMMA HandleKeeps ==
  ASSUME BaseInv, HoldInv, NEW w \in Workers, NEW result, Handle(w, result),
         call[w].pc \in Holding, UNCHANGED <<sent, wire, confirmed, status>>,
         result = "ok" => wire[call[w].p][call[w].effect] = "applied"
  PROVE  HoldInv'
<1>0. StatusKept
  BY StatusKeptBy
<1>1. CASE result = "ok" /\ ReadsBack(Job(w)) /\ GoesTo(w, "readback")
  BY <1>0, <1>1, GoesToShape, KeepStep, HolderFacts DEF Job
<1>2. CASE result = "ok" /\ ~ReadsBack(Job(w)) /\ Concludes(w, "verified")
  <2>1. call[w].effect = "main" /\ EffectsOf(call[w].p) = {"main"}
    BY <1>2, HolderFacts DEF HoldInv, HolderOK, ReadsBack, EffectsOf, Effects, Job
  <2>2. Evidence(call[w].p)'
    <3>1. call'[w].p = call[w].p
      BY <1>2, ConcludesShape
    <3> QED BY <1>2, <2>1, <3>1 DEF Evidence, EffectsOf, ReadsBack, Job
  <2> QED BY <1>0, <1>2, <2>2, ConcludesShape, KeepStep, HolderFacts
<1>3. CASE \E o \in {"failed", "unknown"} : Concludes(w, o)
  BY <1>0, <1>3, ConcludesShape, KeepStep, HolderFacts
<1>4. CASE Returns(w)
  BY <1>0, <1>4, ReturnsShape, QuietStep, HolderFacts
<1> QED BY <1>1, <1>2, <1>3, <1>4 DEF Handle, AfterError

LEMMA OkMeansApplied ==
  ASSUME NEW reply \in Replies, NEW provider, NEW state, Possible(reply, state),
         MutationResult(provider, reply) = "ok"
  PROVE  state = "applied"
  BY DEF Replies, Possible, MutationResult, AppliedReplies

-----------------------------------------------------------------------------
(* Each step preserves HoldInv. *)

\* The claim: nobody held the proposal, nothing had been asked.
LEMMA ClaimHolds ==
  ASSUME BaseInv, HoldInv, NEW w \in Workers, ClaimCall(w)
  PROVE  HoldInv'
<1>1. UNCHANGED <<sent, wire, confirmed>>
  BY DEF ClaimCall, providerVars
<1>2. PICK u \in Users, v \in 1..MaxVersion, nonce \in Proposals :
        ClaimExecution(call[w].p, u, v, nonce, call[w].now, call[w].seen)
  BY DEF ClaimCall, Job
<1>3. call[w].p \in Proposals /\ call[w].pc = "claim" /\ call[w].effect = "main"
  BY HolderFacts DEF ClaimCall, At, HoldInv, HolderOK, Holding
<1>4. StatusKept
  BY <1>2, <1>3, StatusKeptBy
<1>5. CASE Returns(w)
  BY <1>1, <1>4, <1>5, ReturnsShape, QuietStep, HolderFacts
<1>6. CASE status'[call[w].p] = "executing" /\ GoesTo(w, "fetch")
  <2> DEFINE p == call[w].p
  <2>1. /\ Alone(w) /\ call'[w].pc = "fetch" /\ call'[w].p = p /\ call'[w].effect = "main"
    BY <1>3, <1>6, GoesToShape
  <2>2. status[p] = "approved"
    BY <1>2 DEF ClaimExecution, Admits
  <2>3. \A x \in Workers : call[x].pc \in Holding => call[x].p # p
    BY <2>2 DEF HoldInv, HolderOK
  <2>4. \A e \in Effects : sent[p][e] = 0
    BY <1>3, <2>2 DEF HoldInv, RequestsOK, Claimed
  <2>5. Exclusive'
    BY <2>1, <2>3 DEF HoldInv, Exclusive, Alone
  <2>6. ASSUME NEW x \in Workers PROVE HolderOK(x)'
    <3>1. CASE x = w
      <4>1. status'[p] = "executing" /\ sent'[p]["main"] = 0 /\ sent'[p]["archive"] = 0
        BY <1>1, <1>6, <2>4 DEF Effects
      <4> QED BY <2>1, <3>1, <4>1 DEF HolderOK, Holding
    <3>2. CASE x # w
      <4>1. call'[x] = call[x] /\ HolderOK(x) /\ (call[x].pc \in Holding => call[x].p \in Proposals)
        BY <2>1, <3>2, HolderFacts DEF Alone, HoldInv
      <4> QED BY <1>1, <1>4, <4>1 DEF HolderOK, StatusKept, Evidence
    <3> QED BY <3>1, <3>2
  <2>7. ASSUME NEW q \in Proposals PROVE RequestsOK(q)'
    BY <1>1, <1>4 DEF HoldInv, RequestsOK, StatusKept, Evidence
  <2> QED BY <2>5, <2>6, <2>7 DEF HoldInv
<1> QED BY <1>5, <1>6 DEF ClaimCall, Job

\* The request: the only step that asks the provider for anything.
LEMMA RequestHolds ==
  ASSUME BaseInv, HoldInv, NEW w \in Workers, IssueRequest(w)
  PROVE  HoldInv'
<1> DEFINE p == call[w].p
           e == call[w].effect
<1>1. /\ sent' = [sent EXCEPT ![p][e] = @ + 1]
      /\ wire' = [wire EXCEPT ![p][e] = "open"]
      /\ UNCHANGED <<confirmed, status>>
      /\ call[w].pc = "request"
  BY DEF IssueRequest, At, Job, historyVars, storeVars, columns
<1>2. /\ Alone(w) /\ call'[w].pc = "reply" /\ call'[w].p = p /\ call'[w].effect = e
  BY GoesToShape DEF IssueRequest
<1>3. p \in Proposals /\ e \in Effects /\ sent[p][e] = 0 /\ wire[p][e] = "none"
  BY <1>1, HolderFacts DEF HoldInv, HolderOK, RequestsOK, Holding
<1>4. /\ \A q \in Proposals, f \in Effects :
           /\ sent'[q][f] = IF q = p /\ f = e THEN 1 ELSE sent[q][f]
           /\ wire'[q][f] = IF q = p /\ f = e THEN "open" ELSE wire[q][f]
  <2>1. sent \in [Proposals -> [Effects -> Nat]] /\ DOMAIN wire = Proposals
        /\ \A q \in Proposals : DOMAIN wire[q] = Effects
    BY DEF BaseInv, TypeOK, ProviderTypeOK
  <2> HIDE DEF p, e
  <2> QED BY <1>1, <1>3, <2>1
<1>5. status[p] \in {"executing", "unknown"} /\ (e = "archive" => "main" \in confirmed[p] /\ wire[p]["main"] = "applied")
      /\ (e = "archive" => OpOf[p] = "merge") /\ (e = "main" => sent[p]["archive"] = 0)
  BY <1>1, HolderFacts DEF HoldInv, HolderOK, Holding
<1> HIDE DEF p, e
<1>6. ASSUME NEW q \in Proposals, Evidence(q) PROVE Evidence(q)'
  BY <1>1, <1>3, <1>4, <1>6 DEF Evidence, EffectsOf, ReadsBack, Effects
<1>7. Exclusive'
  BY <1>1, <1>2 DEF HoldInv, Exclusive, Alone, Holding, p
<1>8. ASSUME NEW x \in Workers PROVE HolderOK(x)'
  <2>1. CASE x = w
    BY <1>1, <1>2, <1>3, <1>4, <1>5, <2>1 DEF HolderOK, Holding, Effects
  <2>2. CASE x # w /\ call[x].pc \in Holding
    <3>1. /\ call'[x] = call[x] /\ HolderOK(x) /\ call[x].p \in Proposals
          /\ call[x].p # p /\ call[x].effect \in Effects
      BY <1>1, <1>2, <2>2, HolderFacts DEF Alone, HoldInv, Exclusive, Holding, p
    <3> QED BY <1>1, <1>4, <1>6, <3>1 DEF HolderOK, Effects, ReadsBack
  <2>3. CASE x # w /\ call[x].pc \notin Holding
    BY <1>2, <2>3 DEF Alone, HoldInv, HolderOK
  <2> QED BY <2>1, <2>2, <2>3
<1>9. ASSUME NEW q \in Proposals PROVE RequestsOK(q)'
  BY <1>1, <1>3, <1>4, <1>5, <1>6 DEF HoldInv, RequestsOK, Claimed, Effects
<1> QED BY <1>7, <1>8, <1>9 DEF HoldInv

\* The readback: the only step that adds to what has been confirmed.
LEMMA ReadbackHolds ==
  ASSUME BaseInv, HoldInv, NEW w \in Workers, Readback(w)
  PROVE  HoldInv'
<1> DEFINE p == call[w].p
           e == call[w].effect
<1>1. /\ call[w].pc = "readback" /\ p \in Proposals /\ e \in Effects
      /\ wire[p][e] = "applied" /\ ReadsBack(p) /\ sent[p][e] # 0
      /\ status[p] \in {"executing", "unknown"}
      /\ e = "main" => sent[p]["archive"] = 0
      /\ e = "archive" => OpOf[p] = "merge" /\ "main" \in confirmed[p] /\ wire[p]["main"] = "applied"
  BY HolderFacts DEF Readback, At, HoldInv, HolderOK, RequestsOK, Holding
<1>2. UNCHANGED <<sent, wire, status>> /\ StatusKept
  BY StatusKeptBy DEF Readback, providerVars, storeVars, columns
<1>3. CASE UNCHANGED confirmed /\ Returns(w)
  BY <1>2, <1>3, ReturnsShape, QuietStep, HolderFacts
<1>4. CASE UNCHANGED confirmed /\ Concludes(w, "unknown")
  BY <1>1, <1>2, <1>4, ConcludesShape, KeepStep, HolderFacts DEF Holding
<1>5. CASE confirmed' = [confirmed EXCEPT ![p] = @ \cup {e}] /\ NextAfterReadback(w)
  <2>1. \A q \in Proposals : confirmed'[q] = IF q = p THEN confirmed[p] \cup {e} ELSE confirmed[q]
    <3> HIDE DEF p, e
    <3> QED BY <1>1, <1>5 DEF BaseInv, TypeOK, HistoryTypeOK
  <2>2. CASE OpOf[p] = "merge" /\ e = "main"
    <3>1. call' = [call EXCEPT ![w].pc = "request", ![w].effect = "archive"]
      BY <1>5, <2>2 DEF NextAfterReadback, Job
    <3>2. Alone(w) /\ call'[w].pc = "request" /\ call'[w].p = p /\ call'[w].effect = "archive"
      BY <3>1, HolderFacts DEF Alone, Calls
    <3>3. Exclusive'
      BY <1>1, <3>2 DEF HoldInv, Exclusive, Alone, Holding
    <3>4. ASSUME NEW q \in Proposals, Evidence(q) PROVE Evidence(q)'
      BY <1>2, <2>1, <3>4 DEF Evidence, EffectsOf, ReadsBack
    <3>5. ASSUME NEW x \in Workers PROVE HolderOK(x)'
      <4>1. CASE x = w
        BY <1>1, <1>2, <2>1, <2>2, <3>2, <4>1 DEF HolderOK, Holding
      <4>2. CASE x # w
        <5>1. call'[x] = call[x] /\ HolderOK(x) /\ (call[x].pc \in Holding => call[x].p \in Proposals)
          BY <3>2, <4>2, HolderFacts DEF Alone, HoldInv
        <5> QED BY <1>2, <2>1, <3>4, <5>1 DEF HolderOK, ReadsBack
      <4> QED BY <4>1, <4>2
    <3>6. ASSUME NEW q \in Proposals PROVE RequestsOK(q)'
      BY <1>2, <2>1, <3>4 DEF HoldInv, RequestsOK, Claimed
    <3> QED BY <3>3, <3>5, <3>6 DEF HoldInv
  <2>3. CASE ~(OpOf[p] = "merge" /\ e = "main")
    <3>1. Concludes(w, "verified")
      BY <1>5, <2>3 DEF NextAfterReadback, Job
    <3>2. Evidence(p)'
      <4>1. call'[w].p = p
        BY <3>1, ConcludesShape
      <4>2. \A f \in EffectsOf(p) : f = e \/ (e = "archive" /\ f = "main")
        BY <1>1, <2>3 DEF EffectsOf, Effects
      <4> QED BY <1>1, <1>2, <2>1, <4>1, <4>2 DEF Evidence, EffectsOf, ReadsBack
    <3> QED BY <1>1, <1>2, <2>1, <3>1, <3>2, ConcludesShape, KeepStep, HolderFacts DEF Holding
  <2> QED BY <2>2, <2>3
<1> QED BY <1>3, <1>4, <1>5 DEF Readback, Job

\* The settlement: the only step that moves a claimed row on, and only its
\* holder takes it.
LEMMA SettleHolds ==
  ASSUME BaseInv, HoldInv, NEW w \in Workers, SettleCall(w)
  PROVE  HoldInv'
<1> DEFINE p == call[w].p
           o == call[w].outcome
<1>1. /\ call[w].pc = "settle" /\ p \in Proposals /\ o \in Outcomes
      /\ o = "verified" => Evidence(p)
  BY HolderFacts DEF SettleCall, At, HoldInv, HolderOK, Holding, Calls
<1>2. /\ status' = [status EXCEPT ![p] = o] /\ status[p] = "executing"
      /\ UNCHANGED <<sent, wire, confirmed>>
  BY DEF SettleCall, CompleteExecution, TerminalTransition, MoveTo, Job, providerVars, historyVars
<1>3. Alone(w) /\ call'[w].pc \notin Holding /\ call'[w].effect = "main"
  BY ReturnsShape DEF SettleCall
<1>4. \A q \in Proposals : status'[q] = IF q = p THEN o ELSE status[q]
  BY <1>1, <1>2 DEF BaseInv, StoreInv, StoreTypeOK
<1> HIDE DEF p, o
<1>5. Exclusive'
  BY <1>3 DEF HoldInv, Exclusive, Alone
<1>6. ASSUME NEW x \in Workers PROVE HolderOK(x)'
  <2>1. CASE x = w
    BY <1>3, <2>1 DEF HolderOK
  <2>2. CASE x # w /\ call[x].pc \in Holding
    <3>1. call'[x] = call[x] /\ HolderOK(x) /\ call[x].p \in Proposals /\ call[x].p # p
      BY <1>1, <1>3, <2>2, HolderFacts DEF Alone, HoldInv, Exclusive, Holding, p
    <3> QED BY <1>2, <1>4, <3>1 DEF HolderOK, Evidence
  <2>3. CASE x # w /\ call[x].pc \notin Holding
    BY <1>3, <2>3 DEF Alone, HoldInv, HolderOK
  <2> QED BY <2>1, <2>2, <2>3
<1>7. ASSUME NEW q \in Proposals PROVE RequestsOK(q)'
  BY <1>1, <1>2, <1>4 DEF HoldInv, RequestsOK, Claimed, Evidence, Outcomes
<1> QED BY <1>5, <1>6, <1>7 DEF HoldInv

LEMMA StepHolds ==
  ASSUME BaseInv, HoldInv, NEW w \in Workers, Step(w)
  PROVE  HoldInv'
<1>1. CASE DecideCall(w)
  <2>1. StatusKept
    <3>1. call[w].p \in Proposals /\ call[w].now \in Int
      BY <1>1, HolderFacts DEF DecideCall, At, Calls
    <3>2. \E u \in Users, v \in 1..MaxVersion, to \in {"approved", "denied"} :
            SimpleTransition(call[w].p, u, v, call[w].now, to)
      BY <1>1 DEF DecideCall, Job, Approve, Deny
    <3> QED BY <3>1, <3>2, StatusKeptBy
  <2> QED BY <1>1, <2>1, ReturnsShape, QuietStep, HolderFacts DEF DecideCall, providerVars, historyVars
<1>2. CASE CallRefused(w) \/ SettleRefused(w) \/ StoreUnavailable(w)
  <2>1. Returns(w) /\ UNCHANGED <<status, sent, wire, confirmed>>
    BY <1>2 DEF CallRefused, SettleRefused, StoreUnavailable, providerVars, historyVars, storeVars, columns
  <2> QED BY <2>1, StatusKeptBy, ReturnsShape, QuietStep, HolderFacts
<1>3. CASE ReadCard(w) \/ ReadClock(w)
  <2>1. UNCHANGED <<status, sent, wire, confirmed>> /\ call[w].pc \notin Holding
    BY <1>3 DEF ReadCard, ReadClock, At, Holding, providerVars, historyVars, storeVars, columns
  <2>2. Alone(w) /\ call'[w].pc \notin Holding /\ call'[w].effect = call[w].effect
    BY <1>3, ReadCardShape, ReadClockShape DEF Unclaimed, Holding
  <2>3. call[w].effect = "main"
    BY <2>1 DEF HoldInv, HolderOK
  <2> QED BY <2>1, <2>2, <2>3, StatusKeptBy, QuietStep, HolderFacts
<1>4. CASE ClaimCall(w)
  BY <1>4, ClaimHolds
<1>5. CASE FetchClaimed(w)
  <2>1. UNCHANGED <<status, sent, wire, confirmed>> /\ call[w].pc = "fetch"
    BY <1>5 DEF FetchClaimed, At, providerVars, historyVars, storeVars, columns
  <2>2. /\ Alone(w) /\ call'[w].pc = "request" /\ call'[w].p = call[w].p
        /\ call'[w].effect = call[w].effect
    BY <1>5, FetchClaimedShape
  <2>3. Exclusive'
    BY <2>1, <2>2 DEF HoldInv, Exclusive, Alone, Holding
  <2>4. ASSUME NEW x \in Workers PROVE HolderOK(x)'
    <3>1. HolderOK(x) /\ (x # w => call'[x] = call[x])
      BY <2>2 DEF HoldInv, Alone
    <3>2. CASE x = w
      BY <2>1, <2>2, <3>1, <3>2 DEF HolderOK, Holding
    <3>3. CASE x # w
      BY <2>1, <3>1, <3>3 DEF HolderOK, Evidence
    <3> QED BY <3>2, <3>3
  <2>5. ASSUME NEW q \in Proposals PROVE RequestsOK(q)'
    BY <2>1 DEF HoldInv, RequestsOK, Claimed, Evidence
  <2> QED BY <2>3, <2>4, <2>5 DEF HoldInv
<1>6. CASE RefusedLocally(w)
  <2>1. PICK result \in {"error", "escaped"} : Handle(w, result)
    BY <1>6 DEF RefusedLocally
  <2> QED BY <1>6, <2>1, HandleKeeps DEF RefusedLocally, At, Holding, providerVars, storeVars, columns
<1>7. CASE Reply(w)
  <2>1. PICK reply \in Replies :
          /\ Possible(reply, wire[call[w].p][call[w].effect])
          /\ Handle(w, MutationResult(ProviderOf(call[w].p), reply))
    BY <1>7 DEF Reply, Job
  <2>2. /\ call[w].pc \in Holding
        /\ UNCHANGED <<sent, wire, confirmed, status>>
    BY <1>7 DEF Reply, At, Holding, providerVars, storeVars, columns
  <2> QED BY <2>1, <2>2, OkMeansApplied, HandleKeeps
<1>8. CASE IssueRequest(w)
  BY <1>8, RequestHolds
<1>9. CASE Readback(w)
  BY <1>9, ReadbackHolds
<1>10. CASE SettleCall(w)
  BY <1>10, SettleHolds
<1> QED BY <1>1, <1>2, <1>3, <1>4, <1>5, <1>6, <1>7, <1>8, <1>9, <1>10 DEF Step

\* Every step that leaves calls, requests and readbacks alone.
LEMMA ElsewhereHolds ==
  ASSUME HoldInv, BaseInv, StatusKept, UNCHANGED <<call, sent, wire, confirmed>>
  PROVE  HoldInv'
<1>1. Exclusive'
  BY DEF HoldInv, Exclusive
<1>2. ASSUME NEW x \in Workers PROVE HolderOK(x)'
  BY HolderFacts DEF HoldInv, HolderOK, StatusKept, Evidence
<1>3. ASSUME NEW p \in Proposals PROVE RequestsOK(p)'
  BY DEF HoldInv, RequestsOK, StatusKept, Evidence
<1> QED BY <1>1, <1>2, <1>3 DEF HoldInv

LEMMA NextHolds ==
  ASSUME BaseInv, HoldInv, Next
  PROVE  HoldInv'
<1>1. ASSUME NEW p \in Proposals, DraftProposal(p) PROVE HoldInv'
  <2>1. StatusKept
    BY <1>1, StatusKeptBy DEF DraftProposal
  <2> QED BY <1>1, <2>1, ElsewhereHolds DEF DraftProposal, providerVars, historyVars
<1>2. ASSUME NEW w \in Workers, NEW p \in Proposals, BeginDecision(w, p) \/ BeginExecution(w, p)
      PROVE  HoldInv'
  <2>1. UNCHANGED <<status, sent, wire, confirmed>>
    BY <1>2 DEF BeginDecision, BeginExecution, providerVars, historyVars, storeVars, columns
  <2>2. Alone(w) /\ call'[w].pc \notin Holding /\ call'[w].effect = "main"
    BY <1>2, BeginShape
  <2> QED BY <2>1, <2>2, StatusKeptBy, QuietStep, HolderFacts
<1>3. ASSUME NEW w \in Workers, Step(w) PROVE HoldInv'
  BY <1>3, StepHolds
<1>4. ASSUME NEW p \in Proposals, NEW e \in Effects, Apply(p, e) \/ Lose(p, e) PROVE HoldInv'
  BY <1>4, WireStep DEF Apply, Lose, storeVars, columns, historyVars
<1>5. CASE Crash
  <2>1. UNCHANGED <<status, sent, wire, confirmed>> /\ StatusKept
    BY <1>5, StatusKeptBy DEF Crash, storeVars, columns, providerVars, historyVars
  <2>2. \A x \in Workers : call'[x] = Idle
    BY <1>5 DEF Crash
  <2> QED BY <2>1, <2>2 DEF HoldInv, Exclusive, HolderOK, RequestsOK, Claimed, Evidence, Idle, Holding
<1>6. CASE BuildRuntime
  BY <1>6, StatusKeptBy, ElsewhereHolds DEF BuildRuntime, providerVars, historyVars
<1>7. ASSUME NEW c \in Cards, Edit(c) PROVE HoldInv'
  BY <1>7, StatusKeptBy, ElsewhereHolds DEF Edit, storeVars, columns, historyVars
<1>8. CASE Boot \/ Reload \/ Time
  BY <1>8, StatusKeptBy, ElsewhereHolds
     DEF Boot, Reload, Time, Tick, storeVars, columns, providerVars, historyVars
<1> QED BY <1>1, <1>2, <1>3, <1>4, <1>5, <1>6, <1>7, <1>8 DEF Next

-----------------------------------------------------------------------------
(* The inductive invariant *)

LEMMA CallsOKKept ==
  ASSUME BaseInv, Next
  PROVE  CallsOK'
<1>1. clock \in Nat /\ clock <= clock' /\ clock' \in Nat
  BY TransactionIsStoreStep DEF BaseInv, StoreInv, StoreTypeOK, StoreNext, Tick, Draft, Propose,
     Decide, Approve, Deny, SimpleTransition, Claim, ClaimExecution, Settle, CompleteExecution,
     Reconcile, TerminalTransition, MoveTo, RecoverInterrupted, storeVars
<1>2. ASSUME NEW w \in Workers, Alone(w),
             \/ call'[w] = Idle
             \/ call'[w].p \in Proposals /\ call'[w].now \in {call[w].now, clock}
      PROVE  CallsOK'
  <2> SUFFICES ASSUME NEW x \in Workers
               PROVE  (call'[x].pc # "idle" => call'[x].p \in Proposals) /\ call'[x].now <= clock'
    BY DEF CallsOK
  <2>1. call[x] \in Calls /\ call[x].now <= clock /\ call[x].now \in Nat
        /\ (call[x].pc # "idle" => call[x].p \in Proposals)
    BY HolderFacts DEF BaseInv, CallsOK, Calls
  <2>2. CASE x # w
    BY <1>1, <1>2, <2>1, <2>2 DEF Alone
  <2>3. CASE x = w
    BY <1>1, <1>2, <2>1, <2>3 DEF Idle
  <2> QED BY <2>2, <2>3
<1>3. ASSUME NEW w \in Workers, Returns(w) PROVE CallsOK'
  BY <1>2, <1>3, HolderFacts DEF Returns, Enters, Alone
<1>4. ASSUME NEW w \in Workers, NEW p \in Proposals, BeginDecision(w, p) \/ BeginExecution(w, p)
      PROVE  CallsOK'
  <2>1. Alone(w) /\ call'[w].p = p /\ call'[w].now \in {0, clock}
    BY <1>4, BeginShape
  <2> SUFFICES ASSUME NEW x \in Workers
               PROVE  (call'[x].pc # "idle" => call'[x].p \in Proposals) /\ call'[x].now <= clock'
    BY DEF CallsOK
  <2>2. call[x] \in Calls /\ call[x].now <= clock /\ call[x].now \in Nat
        /\ (call[x].pc # "idle" => call[x].p \in Proposals)
    BY HolderFacts DEF BaseInv, CallsOK, Calls
  <2> QED BY <1>1, <2>1, <2>2 DEF Alone
<1>5. ASSUME NEW w \in Workers, Step(w), ~Returns(w) PROVE CallsOK'
  <2>1. call[w].pc # "idle"
    BY <1>5 DEF Step, DecideCall, ReadCard, ReadClock, ClaimCall, CallRefused, FetchClaimed,
       RefusedLocally, IssueRequest, Reply, Readback, SettleCall, SettleRefused, StoreUnavailable,
       At, Deciding, Unclaimed
  <2>2. call[w].p \in Proposals
    BY <2>1, HolderFacts
  <2>3. ASSUME NEW pc, GoesTo(w, pc) PROVE CallsOK'
    BY <1>2, <2>2, <2>3, HolderFacts DEF GoesTo, Alone, Calls
  <2>4. ASSUME NEW o, Concludes(w, o) PROVE CallsOK'
    BY <1>2, <2>2, <2>4, HolderFacts DEF Concludes, Alone, Calls
  <2>5. ASSUME NEW r, Handle(w, r) PROVE CallsOK'
    BY <1>3, <2>3, <2>4, <2>5 DEF Handle
  <2>6. CASE ReadCard(w) \/ ReadClock(w) \/ FetchClaimed(w)
    <3>1. Alone(w) /\ call'[w].p = call[w].p /\ call'[w].now \in {call[w].now, clock}
      BY <2>6, ReadCardShape, ReadClockShape, FetchClaimedShape
    <3> QED BY <1>2, <2>2, <3>1
  <2>7. CASE ClaimCall(w) \/ IssueRequest(w)
    BY <1>3, <2>3, <2>7 DEF ClaimCall, IssueRequest
  <2>8. CASE RefusedLocally(w) \/ Reply(w)
    BY <2>5, <2>8 DEF RefusedLocally, Reply
  <2>9. CASE Readback(w)
    <3>1. CASE call' = [call EXCEPT ![w].pc = "request", ![w].effect = "archive"]
      BY <1>2, <2>2, <3>1, HolderFacts DEF Alone, Calls
    <3> QED BY <1>3, <2>4, <2>9, <3>1 DEF Readback, NextAfterReadback
  <2> QED BY <1>5, <2>6, <2>7, <2>8, <2>9 DEF Step, DecideCall, CallRefused, SettleCall,
       SettleRefused, StoreUnavailable
<1>6. CASE UNCHANGED call
  BY <1>1, <1>6, HolderFacts DEF BaseInv, CallsOK, Calls
<1>7. CASE Crash
  BY <1>1, <1>7 DEF Crash, CallsOK, Idle
<1> QED BY <1>3, <1>4, <1>5, <1>6, <1>7 DEF Next, DraftProposal, Apply, Lose, Edit, Boot, Reload,
     BuildRuntime, Time

IInv == BaseInv /\ HoldInv

LEMMA InitIInv == Init => IInv
<1> SUFFICES ASSUME Init PROVE IInv
  OBVIOUS
<1>1. StoreInv /\ StoreTypeOK
  BY StoreInitial DEF Init, StoreInv
<1>2. CallTypeOK
  BY IdleTyped DEF Init, CallTypeOK
<1>3. EnvTypeOK
  BY ExecutionAssumption DEF Init, EnvTypeOK
<1>7. ProviderTypeOK
  BY DEF Init, ProviderTypeOK
<1>8. HistoryTypeOK
  BY DEF Init, HistoryTypeOK
<1>4. CallsOK
  BY DEF Init, CallsOK, Idle, StoreInit
<1>5. Exclusive /\ \A w \in Workers : HolderOK(w)
  BY DEF Init, Exclusive, HolderOK, Idle, Holding
<1>6. \A p \in Proposals : RequestsOK(p)
  <2> SUFFICES ASSUME NEW p \in Proposals PROVE RequestsOK(p)
    OBVIOUS
  <2>1. status[p] = "none" /\ \A e \in Effects : sent[p][e] = 0 /\ wire[p][e] = "none"
    BY DEF Init, StoreInit
  <2> QED BY <2>1 DEF RequestsOK, Effects
<1> QED BY <1>1, <1>2, <1>3, <1>4, <1>7, <1>8, <1>5, <1>6
       DEF IInv, BaseInv, TypeOK, HoldInv

LEMMA NextIInv == IInv /\ [Next]_vars => IInv'
<1>1. CASE Next
  <2> SUFFICES ASSUME IInv PROVE IInv'
    BY <1>1
  <2>1. StoreInv'
    BY <1>1, TransactionIsStoreStep, StoreStep DEF IInv, BaseInv
  <2>2. TypeOK'
    BY <1>1, <2>1, CallsTyped, EnvTyped, ProviderTyped, HistoryTyped DEF IInv, BaseInv, TypeOK, StoreInv
  <2> QED BY <1>1, <2>1, <2>2, CallsOKKept, NextHolds DEF IInv, BaseInv
<1>2. CASE UNCHANGED vars
  <2> SUFFICES ASSUME IInv PROVE IInv'
    BY <1>2
  <2> USE <1>2 DEF vars, envVars, providerVars, historyVars
  <2>1. StoreInv'
    BY StoreStutters, StutterIsStoreStep DEF IInv, BaseInv
  <2>2. CallTypeOK' /\ EnvTypeOK' /\ ProviderTypeOK' /\ HistoryTypeOK' /\ StoreTypeOK'
    BY <2>1 DEF IInv, BaseInv, TypeOK, CallTypeOK, EnvTypeOK, ProviderTypeOK, HistoryTypeOK, StoreInv
  <2>3. CallsOK'
    BY DEF IInv, BaseInv, CallsOK, storeVars
  <2>4. HoldInv'
    BY StatusKeptBy, ElsewhereHolds DEF IInv, storeVars, columns
  <2> QED BY <2>1, <2>2, <2>3, <2>4 DEF IInv, BaseInv, TypeOK
<1> QED BY <1>1, <1>2

-----------------------------------------------------------------------------
(* Theorems *)

\* IInv holds in every reachable state.
THEOREM Invariance == Spec => []IInv
  BY InitIInv, NextIInv, PTL DEF Spec

\* Every variable of the executor keeps its type.
THEOREM TypeCorrect == Spec => []TypeOK
<1>1. IInv => TypeOK
  BY DEF IInv, BaseInv
<1> QED BY <1>1, Invariance, PTL

\* No effect is requested twice, however calls, timeouts, crashes, reloads
\* and recovery passes interleave.
THEOREM NeverRetried == Spec => []AtMostOneRequest
<1>1. IInv => AtMostOneRequest
  BY DEF IInv, HoldInv, RequestsOK, AtMostOneRequest
<1> QED BY <1>1, Invariance, PTL

\* A proposal that was not claimed has had no effect and is held by no call.
THEOREM UnclaimedUntouched == Spec => []UnclaimedHasNoEffect
<1>1. IInv => UnclaimedHasNoEffect
  BY DEF IInv, HoldInv, HolderOK, RequestsOK, UnclaimedHasNoEffect, Holds, Claimed
<1> QED BY <1>1, Invariance, PTL

\* What is reported verified has been applied, and seen where it is read back.
THEOREM VerifiedMeansApplied == Spec => []VerifiedIsTrue
<1>1. IInv => VerifiedIsTrue
  BY DEF IInv, HoldInv, RequestsOK, Evidence, VerifiedIsTrue
<1> QED BY <1>1, Invariance, PTL

\* A merge never archives the duplicate before a readback of the destination.
THEOREM ArchiveLast == Spec => []ArchiveOnlyAfterReadback
<1>1. IInv => ArchiveOnlyAfterReadback
  BY DEF IInv, HoldInv, RequestsOK, Effects, ArchiveOnlyAfterReadback
<1> QED BY <1>1, Invariance, PTL

\* The executor uses the store as StoreSpec allows, so every theorem about
\* the store holds of the composed system.
THEOREM UsesStore == Spec => StoreHolds
<1>1. Init => StoreInit
  BY DEF Init
<1>2. IInv /\ [Next]_vars => [StoreNext]_storeVars
  BY TransactionIsStoreStep, StutterIsStoreStep DEF IInv
<1> QED BY <1>1, <1>2, Invariance, PTL DEF Spec, StoreHolds, StoreSpec

-----------------------------------------------------------------------------
(* Refinement: the executor keeps the abstract promise. *)

LEMMA StepKeepsPromise ==
  ASSUME IInv, Next
  PROVE  [Promise!Next]_(Promise!vars)
<1> status \in [Proposals -> Statuses]
  BY DEF IInv, BaseInv, StoreInv, StoreTypeOK
<1>1. ASSUME NEW p \in Proposals, DraftProposal(p) PROVE Promise!Next
  BY <1>1 DEF DraftProposal, Propose, providerVars, Promise!Next, Promise!Draft, Promise!Becomes
<1>2. ASSUME NEW w \in Workers, DecideCall(w) PROVE Promise!Next
  <2>1. PICK s \in {"approved", "denied", "expired"} :
          /\ status[call[w].p] = "proposed"
          /\ status' = [status EXCEPT ![call[w].p] = s]
          /\ UNCHANGED sent
    BY <1>2 DEF DecideCall, Approve, Deny, SimpleTransition, Admits, MoveTo, Job, providerVars
  <2>2. call[w].p \in Proposals
    BY <1>2, HolderFacts DEF DecideCall, At, IInv
  <2> QED BY <2>1, <2>2 DEF Promise!Next, Promise!Decide, Promise!Expire, Promise!Becomes
<1>3. ASSUME NEW w \in Workers, ClaimCall(w) PROVE Promise!Next
  <2>1. PICK s \in {"executing", "expired"} :
          /\ status[call[w].p] = "approved"
          /\ status' = [status EXCEPT ![call[w].p] = s]
          /\ UNCHANGED sent
    BY <1>3 DEF ClaimCall, ClaimExecution, Admits, MoveTo, Job, providerVars
  <2>2. call[w].p \in Proposals
    BY <1>3, HolderFacts DEF ClaimCall, At, IInv
  <2> QED BY <2>1, <2>2 DEF Promise!Next, Promise!Claim, Promise!Expire, Promise!Becomes
<1>4. ASSUME NEW w \in Workers, IssueRequest(w) PROVE [Promise!Next]_(Promise!vars)
  <2> DEFINE p == call[w].p
             e == call[w].effect
  <2>1. /\ sent' = [sent EXCEPT ![p][e] = @ + 1] /\ UNCHANGED status
        /\ call[w].pc = "request"
    BY <1>4 DEF IssueRequest, At, Job, storeVars, columns
  <2>2. /\ p \in Proposals /\ e \in Effects /\ sent[p][e] = 0
        /\ status[p] \in {"executing", "unknown"}
    BY <2>1, HolderFacts DEF IInv, HoldInv, HolderOK, Holding
  <2>3. sent \in [Proposals -> [Effects -> Nat]]
    BY DEF IInv, BaseInv, TypeOK, ProviderTypeOK
  <2> HIDE DEF p, e
  <2>4. CASE e = "main"
    <3>1. [q \in Proposals |-> sent'[q]["main"]]
            = [[q \in Proposals |-> sent[q]["main"]] EXCEPT ![p] = 1]
      <4>1. \A q \in Proposals : sent'[q]["main"] = IF q = p THEN 1 ELSE sent[q]["main"]
        BY <2>1, <2>2, <2>3, <2>4
      <4> QED BY <4>1
    <3> QED BY <2>1, <2>2, <2>4, <3>1 DEF Promise!Next, Promise!Ask
  <2>5. CASE e = "archive"
    <3>1. \A q \in Proposals : sent'[q]["main"] = sent[q]["main"]
      BY <2>1, <2>2, <2>3, <2>5 DEF Effects
    <3>2. [q \in Proposals |-> sent'[q]["main"]] = [q \in Proposals |-> sent[q]["main"]]
      BY <3>1
    <3> QED BY <2>1, <3>2 DEF Promise!vars
  <2> QED BY <2>2, <2>4, <2>5 DEF Effects
<1>5. ASSUME NEW w \in Workers, SettleCall(w) PROVE Promise!Next
  <2> DEFINE p == call[w].p
             o == call[w].outcome
  <2>1. /\ call[w].pc = "settle" /\ p \in Proposals /\ o \in Outcomes
        /\ o = "verified" => Evidence(p)
    BY <1>5, HolderFacts DEF SettleCall, At, IInv, HoldInv, HolderOK, Holding, Calls
  <2>2. status[p] = "executing" /\ status' = [status EXCEPT ![p] = o] /\ UNCHANGED sent
    BY <1>5 DEF SettleCall, CompleteExecution, TerminalTransition, MoveTo, Job, providerVars
  <2>3. o = "verified" => sent[p]["main"] = 1
    BY <2>1 DEF Evidence, EffectsOf, Effects, IInv, HoldInv, RequestsOK
  <2> HIDE DEF p, o
  <2> QED BY <2>1, <2>2, <2>3 DEF Promise!Next, Promise!Settle, Promise!Becomes, Outcomes
<1>6. CASE BuildRuntime
  BY <1>6 DEF BuildRuntime, RecoverInterrupted, providerVars, Promise!Next, Promise!Interrupt
<1>7. CASE UNCHANGED <<status, sent>>
  BY <1>7 DEF Promise!vars
<1>8. ASSUME NEW w \in Workers, Step(w) PROVE [Promise!Next]_(Promise!vars)
  BY <1>2, <1>3, <1>4, <1>5, <1>7, <1>8 DEF Step, ReadCard, ReadClock, CallRefused, FetchClaimed,
     RefusedLocally, Reply, Readback, SettleRefused, StoreUnavailable, storeVars, columns, providerVars
<1> QED BY <1>1, <1>6, <1>7, <1>8 DEF Next, BeginDecision, BeginExecution, Apply, Lose, Edit, Crash,
     Boot, Reload, Time, Tick, storeVars, columns, providerVars

\* The executor implements ApprovedEffect: asked once at most, only for a
\* claimed proposal, verified only if asked, unknown for good.
THEOREM KeepsPromise == Spec => PromiseHolds
<1>1. Init => Promise!Init
  BY DEF Init, StoreInit, Promise!Init, Effects
<1>2. IInv /\ [Next]_vars => [Promise!Next]_(Promise!vars)
  <2>1. CASE UNCHANGED vars
    BY <2>1 DEF vars, storeVars, columns, providerVars, Promise!vars
  <2> QED BY <2>1, StepKeepsPromise
<1> QED BY <1>1, <1>2, Invariance, PTL DEF Spec, PromiseHolds, Promise!Spec

-----------------------------------------------------------------------------
(***************************************************************************)
(* What the rows and the calls say of answers.  HoldInv is about evidence  *)
(* of success; OutInv adds what must be absent:                            *)
(*  - a call that still works for a proposal has had no ambiguous answer   *)
(*    to it, and before the first readback nothing is confirmed; one that  *)
(*    will settle as verified or failed carries the same facts with it;    *)
(*  - it knows the version of the row as long as the row is executing, so  *)
(*    a settlement is refused only when the row was recovered;             *)
(*  - and a row that says failed or verified has kept them.                *)
(***************************************************************************)
Ambiguous == {"timeout", "incomplete"}
Clear(p) == \A e \in Effects : answer[p][e] \notin Ambiguous

HandOK(w) ==
  LET c == call[w]  p == call[w].p IN c.pc \in Holding =>
    /\ c.pc # "fetch" /\ status[p] = "executing" => c.ver = version[p]
    /\ c.pc # "settle" \/ c.outcome # "unknown" => Clear(p)
    /\ c.pc # "settle" /\ c.effect = "main" => confirmed[p] = {}
    /\ c.pc = "settle" /\ c.outcome = "failed" => confirmed[p] = {}

RowOK(p) ==
  /\ ~Claimed(p) => Clear(p) /\ confirmed[p] = {}
  /\ status[p] \in {"verified", "failed"} => Clear(p)
  /\ status[p] = "failed" => confirmed[p] = {}

AnswersOK == /\ \A w \in Workers : HandOK(w)
             /\ \A p \in Proposals : RowOK(p)

Served == ExecutingIsHeld /\ (ready => up)

OutInv == AnswersOK /\ Served

\* What every step but a settlement leaves true of the rows.
RowsKept ==
  \A q \in Proposals :
    /\ Claimed(q) => \/ status'[q] = status[q] /\ version'[q] = version[q]
                     \/ status'[q] = "unknown"
    /\ ~Claimed(q) => status'[q] \notin {"verified", "failed"}

LEMMA RowsKeptBy ==
  ASSUME BaseInv,
         \/ \E p \in Proposals, r \in Revisions : Propose(p, r)
         \/ \E p \in Proposals, u \in Users, v \in 1..MaxVersion, now \in Int,
               to \in {"approved", "denied"} :
               SimpleTransition(p, u, v, now, to)
         \/ \E p \in Proposals : \E u, v, n, now, r : ClaimExecution(p, u, v, n, now, r)
         \/ RecoverInterrupted
         \/ UNCHANGED <<status, version>>
  PROVE  RowsKept
<1> /\ status \in [Proposals -> Statuses] /\ version \in [Proposals -> 0..MaxVersion]
  BY DEF BaseInv, StoreInv, StoreTypeOK
<1>1. ASSUME NEW p \in Proposals, status[p] \in {"none", "proposed", "approved"},
             NEW s, NEW n, status' = [status EXCEPT ![p] = s],
             version' = [version EXCEPT ![p] = n], s \notin {"verified", "failed"}
      PROVE  RowsKept
  BY <1>1 DEF RowsKept, Claimed
<1>2. CASE \E p \in Proposals, r \in Revisions : Propose(p, r)
  <2>1. PICK p \in Proposals, r \in Revisions : Propose(p, r)
    BY <1>2
  <2> QED BY <1>1, <2>1 DEF Propose
<1>3. ASSUME NEW p \in Proposals, NEW u \in Users, NEW v \in 1..MaxVersion, NEW now \in Int,
             NEW to \in {"approved", "denied"}, SimpleTransition(p, u, v, now, to)
      PROVE  RowsKept
  <2>1. PICK s \in {"approved", "denied", "expired"} : MoveTo(p, s)
    BY <1>3 DEF SimpleTransition
  <2> QED BY <1>1, <1>3, <2>1 DEF SimpleTransition, Admits, MoveTo
<1>4. ASSUME NEW p \in Proposals, \E u, v, n, now, r : ClaimExecution(p, u, v, n, now, r)
      PROVE  RowsKept
  <2>1. PICK s \in {"executing", "expired"} : MoveTo(p, s) /\ status[p] = "approved"
    BY <1>4 DEF ClaimExecution, Admits
  <2> QED BY <1>1, <2>1 DEF MoveTo
<1>5. CASE RecoverInterrupted
  BY <1>5 DEF RecoverInterrupted, RowsKept, Claimed
<1>6. CASE UNCHANGED <<status, version>>
  BY <1>6 DEF RowsKept, Claimed
<1> QED BY <1>2, <1>3, <1>4, <1>5, <1>6

LEMMA OtherHands ==
  ASSUME IInv, AnswersOK, RowsKept, NEW x \in Workers, call'[x] = call[x],
         call[x].pc \in Holding => /\ answer'[call[x].p] = answer[call[x].p]
                                   /\ confirmed'[call[x].p] = confirmed[call[x].p]
  PROVE  HandOK(x)'
<1> SUFFICES ASSUME call[x].pc \in Holding PROVE HandOK(x)'
  BY DEF HandOK
<1>1. /\ call[x].p \in Proposals /\ Claimed(call[x].p) /\ HandOK(x)
  BY HolderFacts DEF IInv, HoldInv, HolderOK, Claimed, AnswersOK
<1> QED BY <1>1 DEF HandOK, RowsKept, Clear

LEMMA OtherRows ==
  ASSUME AnswersOK, RowsKept, NEW q \in Proposals,
         answer'[q] = answer[q], confirmed'[q] = confirmed[q]
  PROVE  RowOK(q)'
BY DEF AnswersOK, RowOK, RowsKept, Claimed, Clear

\* A step of w that leaves answers and confirmations alone.
LEMMA QuietAnswers ==
  ASSUME IInv, AnswersOK, RowsKept, NEW w \in Workers, Alone(w), HandOK(w)',
         UNCHANGED <<answer, confirmed>>
  PROVE  AnswersOK'
BY OtherHands, OtherRows DEF AnswersOK, Alone

\* A step of a holder, which changes answers to its own proposal only.
LEMMA HolderAnswers ==
  ASSUME IInv, AnswersOK, NEW w \in Workers, Alone(w), HandOK(w)', call[w].pc \in Holding,
         UNCHANGED <<status, version>>,
         \A q \in Proposals : q # call[w].p => /\ answer'[q] = answer[q]
                                               /\ confirmed'[q] = confirmed[q]
  PROVE  AnswersOK'
<1>1. RowsKept
  BY RowsKeptBy DEF IInv
<1>2. ASSUME NEW x \in Workers, x # w PROVE HandOK(x)'
  <2>1. call[x].pc \in Holding => call[x].p \in Proposals /\ call[x].p # call[w].p
    BY <1>2, HolderFacts DEF IInv, HoldInv, Exclusive
  <2> QED BY <1>1, <1>2, <2>1, OtherHands DEF Alone
<1>3. ASSUME NEW q \in Proposals PROVE RowOK(q)'
  <2>1. CASE q = call[w].p
    BY <2>1 DEF IInv, HoldInv, HolderOK, RowOK, Claimed
  <2>2. CASE q # call[w].p
    BY <1>1, <2>2, OtherRows
  <2> QED BY <2>1, <2>2
<1> QED BY <1>2, <1>3 DEF AnswersOK

\* The result of an exchange, or of a refusal to start one.
LEMMA HandleAnswers ==
  ASSUME IInv, AnswersOK, NEW w \in Workers, NEW result, Handle(w, result),
         call[w].pc \in {"request", "reply"}, UNCHANGED <<status, version, confirmed>>,
         \A q \in Proposals : q # call[w].p => answer'[q] = answer[q],
         result \in {"ok", "error"} => \A f \in Effects : answer'[call[w].p][f] \notin Ambiguous
  PROVE  AnswersOK'
<1> DEFINE p == call[w].p
<1>0. /\ call[w] \in Calls /\ call \in [Workers -> Calls] /\ HandOK(w)
      /\ call[w].pc \in Holding /\ call[w].pc # "settle" /\ call[w].pc # "fetch"
  BY HolderFacts DEF IInv, AnswersOK, Holding
<1>1. ASSUME NEW pc, GoesTo(w, pc)
      PROVE  /\ Alone(w) /\ call'[w].pc = pc /\ call'[w].p = p
             /\ call'[w].ver = call[w].ver /\ call'[w].effect = call[w].effect
  BY <1>0, <1>1 DEF GoesTo, Alone, Calls
<1>2. ASSUME NEW o, Concludes(w, o)
      PROVE  /\ Alone(w) /\ call'[w].pc = "settle" /\ call'[w].p = p
             /\ call'[w].ver = call[w].ver /\ call'[w].outcome = o
  BY <1>0, <1>2 DEF Concludes, Alone, Calls
<1>3. /\ status[p] = "executing" => call[w].ver = version[p]
      /\ call[w].effect = "main" => confirmed[p] = {}
  BY <1>0 DEF HandOK
<1>4. CASE result = "ok" /\ GoesTo(w, "readback")
  <2>1. HandOK(w)'
    BY <1>1, <1>3, <1>4 DEF HandOK, Clear
  <2> QED BY <1>0, <1>1, <1>4, <2>1, HolderAnswers
<1>5. CASE result = "ok" /\ Concludes(w, "verified")
  <2>1. HandOK(w)'
    BY <1>2, <1>3, <1>5 DEF HandOK, Clear
  <2> QED BY <1>0, <1>2, <1>5, <2>1, HolderAnswers
<1>6. CASE result = "ambiguous" /\ Concludes(w, "unknown")
  <2>1. HandOK(w)'
    BY <1>2, <1>3, <1>6 DEF HandOK, Clear
  <2> QED BY <1>0, <1>2, <1>6, <2>1, HolderAnswers
<1>7. CASE result = "error" /\ Concludes(w, AfterError(call[w].effect))
  <2>1. HandOK(w)'
    BY <1>2, <1>3, <1>7 DEF HandOK, Clear, AfterError
  <2> QED BY <1>0, <1>2, <1>7, <2>1, HolderAnswers
<1>8. CASE Returns(w)
  <2>1. Alone(w) /\ HandOK(w)'
    BY <1>8, ReturnsShape DEF HandOK, IInv
  <2> QED BY <1>0, <2>1, HolderAnswers
<1> QED BY <1>4, <1>5, <1>6, <1>7, <1>8 DEF Handle

\* An answer that leaves a call sure of what happened is not ambiguous.
LEMMA SureIsClear ==
  ASSUME NEW reply \in Replies, NEW provider,
         MutationResult(provider, reply) \in {"ok", "error"}
  PROVE  reply \notin Ambiguous
BY DEF Replies, MutationResult, AmbiguousReplies, Ambiguous

LEMMA ReplyAnswers ==
  ASSUME IInv, AnswersOK, NEW w \in Workers, Reply(w)
  PROVE  AnswersOK'
<1> DEFINE p == call[w].p
           e == call[w].effect
<1>1. PICK reply \in Replies :
        /\ answer' = [answer EXCEPT ![p][e] = reply]
        /\ Handle(w, MutationResult(ProviderOf(p), reply))
  BY DEF Reply, Job
<1>2. /\ call[w].pc = "reply" /\ p \in Proposals /\ e \in Effects
      /\ UNCHANGED <<status, version, confirmed>>
  BY HolderFacts DEF Reply, At, IInv, storeVars, columns
<1>3. answer \in [Proposals -> [Effects -> Replies \cup {"none"}]]
  BY DEF IInv, BaseInv, TypeOK, HistoryTypeOK
<1>4. Clear(p)
  BY <1>2 DEF AnswersOK, HandOK, Holding
<1> DEFINE result == MutationResult(ProviderOf(p), reply)
<1>5. result \in {"ok", "error"} => reply \notin Ambiguous
  BY SureIsClear
<1>7. \A q \in Proposals, f \in Effects :
        answer'[q][f] = IF q = p /\ f = e THEN reply ELSE answer[q][f]
  <2> HIDE DEF p, e
  <2> QED BY <1>1, <1>2, <1>3
<1>8. \A q \in Proposals : q # p => answer'[q] = answer[q]
  <2> HIDE DEF p, e
  <2> QED BY <1>1, <1>2, <1>3
<1>9. result \in {"ok", "error"} => \A f \in Effects : answer'[p][f] \notin Ambiguous
  BY <1>2, <1>4, <1>5, <1>7 DEF Clear
<1>10. Handle(w, result)
  BY <1>1
<1> HIDE DEF result
<1> QED BY <1>2, <1>8, <1>9, <1>10, HandleAnswers

LEMMA ReadbackAnswers ==
  ASSUME IInv, AnswersOK, NEW w \in Workers, Readback(w)
  PROVE  AnswersOK'
<1> DEFINE p == call[w].p
           e == call[w].effect
<1>1. /\ call[w].pc = "readback" /\ p \in Proposals /\ e \in Effects
      /\ call[w] \in Calls /\ call \in [Workers -> Calls] /\ HandOK(w)
      /\ UNCHANGED <<status, version, answer>>
      /\ e = "archive" => OpOf[p] = "merge"
  BY HolderFacts DEF Readback, At, IInv, HoldInv, HolderOK, AnswersOK, Holding, storeVars, columns
<1>2. (status[p] = "executing" => call[w].ver = version[p]) /\ Clear(p)
  BY <1>1 DEF HandOK, Holding
<1>3. ASSUME NEW o, o # "failed", Concludes(w, o) PROVE HandOK(w)' /\ Alone(w)
  <2>1. call'[w] = [call[w] EXCEPT !.pc = "settle", !.outcome = o] /\ Alone(w)
    BY <1>1, <1>3 DEF Concludes, Alone
  <2>2. call'[w].pc = "settle" /\ call'[w].p = p /\ call'[w].ver = call[w].ver /\ call'[w].outcome = o
    BY <1>1, <2>1 DEF Calls
  <2> QED BY <1>1, <1>2, <1>3, <2>1, <2>2 DEF HandOK, Clear
<1>4. CASE UNCHANGED confirmed /\ Returns(w)
  <2>1. Alone(w) /\ HandOK(w)'
    BY <1>4, ReturnsShape DEF HandOK, IInv
  <2> QED BY <1>1, <1>4, <2>1, HolderAnswers DEF Holding
<1>5. CASE UNCHANGED confirmed /\ Concludes(w, "unknown")
  BY <1>1, <1>3, <1>5, HolderAnswers DEF Holding
<1>6. CASE confirmed' = [confirmed EXCEPT ![p] = @ \cup {e}] /\ NextAfterReadback(w)
  <2>1. \A q \in Proposals : q # p => confirmed'[q] = confirmed[q]
    <3> HIDE DEF p, e
    <3> QED BY <1>1, <1>6 DEF IInv, BaseInv, TypeOK, HistoryTypeOK
  <2>2. CASE call' = [call EXCEPT ![w].pc = "request", ![w].effect = "archive"]
    <3>1. call'[w] = [call[w] EXCEPT !.pc = "request", !.effect = "archive"] /\ Alone(w)
      BY <1>1, <2>2 DEF Alone
    <3>2. /\ call'[w].pc = "request" /\ call'[w].p = p /\ call'[w].ver = call[w].ver
          /\ call'[w].effect = "archive"
      BY <1>1, <3>1 DEF Calls
    <3>3. HandOK(w)'
      BY <1>1, <1>2, <3>2 DEF HandOK, Clear
    <3> QED BY <1>1, <2>1, <3>1, <3>3, HolderAnswers DEF Holding
  <2>3. CASE Concludes(w, "verified")
    BY <1>1, <1>3, <2>1, <2>3, HolderAnswers DEF Holding
  <2> QED BY <1>6, <2>2, <2>3 DEF NextAfterReadback
<1> QED BY <1>4, <1>5, <1>6 DEF Readback, Job

\* The settlement: the row takes over what its holder carried.
LEMMA SettleAnswers ==
  ASSUME IInv, AnswersOK, NEW w \in Workers, SettleCall(w)
  PROVE  AnswersOK'
<1> DEFINE p == call[w].p
           o == call[w].outcome
<1>1. /\ call[w].pc = "settle" /\ p \in Proposals /\ o \in Outcomes /\ HandOK(w)
      /\ status' = [status EXCEPT ![p] = o]
      /\ version' = [version EXCEPT ![p] = @ + 1]
      /\ UNCHANGED <<answer, confirmed>>
  BY HolderFacts DEF SettleCall, At, CompleteExecution, TerminalTransition, MoveTo, Job,
     historyVars, IInv, AnswersOK, Calls
<1>2. /\ o # "unknown" => Clear(p)
      /\ o = "failed" => confirmed[p] = {}
  BY <1>1 DEF HandOK, Holding
<1>3. Alone(w) /\ call'[w].pc \notin Holding
  BY ReturnsShape DEF SettleCall, IInv
<1>4. \A q \in Proposals : /\ status'[q] = IF q = p THEN o ELSE status[q]
                           /\ q # p => version'[q] = version[q]
  <2> HIDE DEF p, o
  <2> QED BY <1>1 DEF IInv, BaseInv, StoreInv, StoreTypeOK
<1>5. ASSUME NEW x \in Workers PROVE HandOK(x)'
  <2>1. CASE x = w
    BY <1>3, <2>1 DEF HandOK
  <2>2. CASE x # w /\ call[x].pc \in Holding
    <3>1. call'[x] = call[x] /\ HandOK(x) /\ call[x].p \in Proposals /\ call[x].p # p
      BY <1>1, <1>3, <2>2, HolderFacts DEF Alone, AnswersOK, IInv, HoldInv, Exclusive, Holding
    <3> HIDE DEF p, o
    <3> QED BY <1>1, <1>4, <3>1 DEF HandOK, Clear
  <2>3. CASE x # w /\ call[x].pc \notin Holding
    BY <1>3, <2>3 DEF Alone, HandOK
  <2> QED BY <2>1, <2>2, <2>3
<1>6. ASSUME NEW q \in Proposals PROVE RowOK(q)'
  <2>1. RowOK(q)
    BY DEF AnswersOK
  <2> HIDE DEF p, o
  <2>2. CASE q = p
    BY <1>1, <1>2, <1>4, <2>2 DEF RowOK, Claimed, Clear, Outcomes
  <2>3. CASE q # p
    BY <1>1, <1>4, <2>1, <2>3 DEF RowOK, Claimed, Clear
  <2> QED BY <2>2, <2>3
<1> QED BY <1>5, <1>6 DEF AnswersOK

LEMMA StepAnswers ==
  ASSUME IInv, AnswersOK, NEW w \in Workers, Step(w)
  PROVE  AnswersOK'
<1> BaseInv /\ HoldInv
  BY DEF IInv
<1>0. HandOK(w) /\ call[w] \in Calls /\ call \in [Workers -> Calls]
  BY HolderFacts DEF AnswersOK
<1>1. CASE DecideCall(w)
  <2>1. RowsKept
    <3>1. call[w].p \in Proposals /\ call[w].now \in Int
      BY <1>1, HolderFacts DEF DecideCall, At, Calls
    <3>2. \E u \in Users, v \in 1..MaxVersion, to \in {"approved", "denied"} :
            SimpleTransition(call[w].p, u, v, call[w].now, to)
      BY <1>1 DEF DecideCall, Job, Approve, Deny
    <3> QED BY <3>1, <3>2, RowsKeptBy
  <2> QED BY <1>1, <2>1, ReturnsShape, QuietAnswers DEF DecideCall, historyVars, HandOK
<1>2. CASE CallRefused(w) \/ SettleRefused(w) \/ StoreUnavailable(w)
  <2>1. Returns(w) /\ UNCHANGED <<status, version, answer, confirmed>>
    BY <1>2 DEF CallRefused, SettleRefused, StoreUnavailable, historyVars, storeVars, columns
  <2> QED BY <2>1, RowsKeptBy, ReturnsShape, QuietAnswers DEF HandOK
<1>3. CASE ReadCard(w) \/ ReadClock(w)
  <2>1. UNCHANGED <<status, version, answer, confirmed>>
    BY <1>3 DEF ReadCard, ReadClock, historyVars, storeVars, columns
  <2>2. Alone(w) /\ call'[w].pc \notin Holding
    BY <1>3, ReadCardShape, ReadClockShape DEF Unclaimed, Holding
  <2> QED BY <2>1, <2>2, RowsKeptBy, QuietAnswers DEF HandOK
<1>4. CASE ClaimCall(w)
  <2>1. PICK u \in Users, v \in 1..MaxVersion, nonce \in Proposals :
          ClaimExecution(call[w].p, u, v, nonce, call[w].now, call[w].seen)
    BY <1>4 DEF ClaimCall, Job
  <2>2. /\ call[w].p \in Proposals /\ call[w].effect = "main"
        /\ UNCHANGED <<answer, confirmed>> /\ status[call[w].p] = "approved"
    BY <1>4, <2>1, HolderFacts DEF ClaimCall, At, HoldInv, HolderOK, Holding, ClaimExecution, Admits
  <2>3. RowsKept
    BY <2>1, <2>2, RowsKeptBy
  <2>4. CASE Returns(w)
    BY <2>2, <2>3, <2>4, ReturnsShape, QuietAnswers DEF HandOK
  <2>5. CASE GoesTo(w, "fetch")
    <3>1. Alone(w) /\ call'[w].pc = "fetch" /\ call'[w].p = call[w].p
      BY <2>5, GoesToShape
    <3>2. Clear(call[w].p) /\ confirmed[call[w].p] = {}
      BY <2>2 DEF AnswersOK, RowOK, Claimed
    <3>3. HandOK(w)'
      BY <2>2, <3>1, <3>2 DEF HandOK, Clear
    <3> QED BY <2>2, <2>3, <3>1, <3>3, QuietAnswers
  <2> QED BY <1>4, <2>4, <2>5 DEF ClaimCall
<1>5. CASE FetchClaimed(w)
  <2>1. UNCHANGED <<status, version, answer, confirmed>> /\ call[w].pc = "fetch"
    BY <1>5 DEF FetchClaimed, At, historyVars, storeVars, columns
  <2>2. Alone(w) /\ call'[w] = [call[w] EXCEPT !.pc = "request", !.ver = version[call[w].p]]
    BY <1>0, <1>5 DEF FetchClaimed, Alone, Job
  <2>3. /\ call'[w].pc = "request" /\ call'[w].p = call[w].p
        /\ call'[w].effect = call[w].effect /\ call'[w].ver = version[call[w].p]
    BY <1>0, <2>2 DEF Calls
  <2>4. Clear(call[w].p) /\ (call[w].effect = "main" => confirmed[call[w].p] = {})
    BY <1>0, <2>1 DEF HandOK, Holding
  <2>5. HandOK(w)'
    BY <2>1, <2>3, <2>4 DEF HandOK, Clear
  <2> QED BY <2>1, <2>2, <2>5, RowsKeptBy, QuietAnswers
<1>6. CASE IssueRequest(w)
  <2>1. UNCHANGED <<status, version, answer, confirmed>> /\ call[w].pc = "request"
    BY <1>6 DEF IssueRequest, At, historyVars, storeVars, columns
  <2>2. Alone(w) /\ call'[w] = [call[w] EXCEPT !.pc = "reply"]
    BY <1>0, <1>6 DEF IssueRequest, GoesTo, Alone
  <2>3. /\ call'[w].pc = "reply" /\ call'[w].p = call[w].p
        /\ call'[w].effect = call[w].effect /\ call'[w].ver = call[w].ver
    BY <1>0, <2>2 DEF Calls
  <2>4. HandOK(w)'
    BY <1>0, <2>1, <2>3 DEF HandOK, Clear, Holding
  <2> QED BY <2>1, <2>2, <2>4, RowsKeptBy, QuietAnswers
<1>7. CASE RefusedLocally(w)
  <2>1. PICK result \in {"error", "escaped"} : Handle(w, result)
    BY <1>7 DEF RefusedLocally
  <2>2. /\ call[w].pc = "request"
        /\ UNCHANGED <<status, version, answer, confirmed>>
    BY <1>7 DEF RefusedLocally, At, storeVars, columns
  <2>3. \A f \in Effects : answer'[call[w].p][f] \notin Ambiguous
    BY <1>0, <2>2 DEF HandOK, Holding, Clear
  <2> QED BY <2>1, <2>2, <2>3, HandleAnswers
<1> QED BY <1>1, <1>2, <1>3, <1>4, <1>5, <1>6, <1>7, ReplyAnswers, ReadbackAnswers, SettleAnswers
     DEF Step

LEMMA NextAnswers ==
  ASSUME IInv, AnswersOK, Next
  PROVE  AnswersOK'
<1> BaseInv /\ HoldInv
  BY DEF IInv
<1>1. ASSUME RowsKept, UNCHANGED <<call, answer, confirmed>> PROVE AnswersOK'
  BY <1>1, OtherHands, OtherRows DEF AnswersOK
<1>2. ASSUME NEW p \in Proposals, DraftProposal(p) PROVE AnswersOK'
  <2>1. RowsKept
    BY <1>2, RowsKeptBy DEF DraftProposal
  <2> QED BY <1>1, <1>2, <2>1 DEF DraftProposal, historyVars
<1>3. ASSUME NEW w \in Workers, NEW p \in Proposals, BeginDecision(w, p) \/ BeginExecution(w, p)
      PROVE  AnswersOK'
  <2>1. UNCHANGED <<status, version, answer, confirmed>>
    BY <1>3 DEF BeginDecision, BeginExecution, historyVars, storeVars, columns
  <2>2. Alone(w) /\ HandOK(w)'
    BY <1>3, BeginShape DEF HandOK
  <2> QED BY <2>1, <2>2, RowsKeptBy, QuietAnswers
<1>4. CASE Crash
  <2>1. RowsKept /\ UNCHANGED <<answer, confirmed>>
    BY <1>4, RowsKeptBy DEF Crash, historyVars, storeVars, columns
  <2>2. \A x \in Workers : HandOK(x)'
    BY <1>4 DEF Crash, HandOK, Idle, Holding
  <2> QED BY <2>1, <2>2, OtherRows DEF AnswersOK
<1>5. CASE BuildRuntime
  BY <1>1, <1>5, RowsKeptBy DEF BuildRuntime, historyVars
<1>6. CASE UNCHANGED <<status, version, call, answer, confirmed>>
  BY <1>1, <1>6, RowsKeptBy
<1> QED BY <1>2, <1>3, <1>4, <1>5, <1>6, StepAnswers DEF Next, Apply, Lose, Edit, Boot, Reload,
     Time, Tick, storeVars, columns, historyVars

-----------------------------------------------------------------------------
(* Who answers for an executing row. *)

\* Nothing but the step's own proposal can lose its holder.
LEMMA StillHeld ==
  ASSUME IInv, Served, NEW w \in Workers, Alone(w), UNCHANGED <<up, ready>>,
         stranded \subseteq stranded',
         \A p \in Proposals : status'[p] = "executing" /\ Serving =>
            \/ status[p] = "executing" /\ (Holds(w, p) => Holds(w, p)' \/ p \in stranded')
            \/ Holds(w, p)'
  PROVE  Served'
<1> SUFFICES ASSUME NEW p \in Proposals, Serving, status'[p] = "executing"
             PROVE  p \in stranded' \/ \E x \in Workers : Holds(x, p)'
  BY DEF Served, ExecutingIsHeld, Serving
<1>1. CASE Holds(w, p)'
  BY <1>1
<1>2. CASE status[p] = "executing" /\ (Holds(w, p) => Holds(w, p)' \/ p \in stranded')
  <2>1. p \in stranded \/ \E x \in Workers : Holds(x, p)
    BY <1>2 DEF Served, ExecutingIsHeld
  <2> QED BY <1>2, <2>1 DEF Alone, Holds
<1> QED BY <1>1, <1>2

\* A call that returns without the row having been settled leaves a row
\* that is no longer executing, or one it has stranded.
LEMMA StepServed ==
  ASSUME IInv, AnswersOK, Served, NEW w \in Workers, Step(w)
  PROVE  Served'
<1> BaseInv /\ HoldInv
  BY DEF IInv
<1> DEFINE p == call[w].p
<1>0. call[w] \in Calls /\ call \in [Workers -> Calls] /\ (call[w].pc # "idle" => p \in Proposals)
      /\ (call[w].pc \in Holding => p \in Proposals)
  BY HolderFacts
<1>1. CASE DecideCall(w)
  <2>1. /\ Alone(w) /\ call[w].pc = "decide" /\ UNCHANGED <<up, ready, stranded>>
    BY <1>1, ReturnsShape DEF DecideCall, At, envVars, historyVars
  <2>2. PICK s \in {"approved", "denied", "expired"} : status' = [status EXCEPT ![p] = s]
    BY <1>1 DEF DecideCall, Approve, Deny, SimpleTransition, MoveTo, Job
  <2>3. \A q \in Proposals : status'[q] = "executing" => status[q] = "executing"
    BY <2>2 DEF BaseInv, StoreInv, StoreTypeOK
  <2> QED BY <2>1, <2>3, StillHeld DEF Holds, Holding
<1>2. CASE CallRefused(w) \/ ReadCard(w) \/ ReadClock(w)
  <2>1. /\ Alone(w) /\ call[w].pc \notin Holding /\ UNCHANGED <<up, ready, stranded, status>>
    BY <1>2, ReturnsShape, ReadCardShape, ReadClockShape
       DEF CallRefused, ReadCard, ReadClock, At, Deciding, Unclaimed, Holding, envVars, historyVars,
           storeVars, columns
  <2> QED BY <2>1, StillHeld DEF Holds
<1>3. CASE ClaimCall(w)
  <2>1. /\ call[w].pc = "claim" /\ UNCHANGED <<up, ready, stranded>>
    BY <1>3 DEF ClaimCall, At, envVars
  <2>2. PICK s \in {"executing", "expired"} : status' = [status EXCEPT ![p] = s]
    BY <1>3 DEF ClaimCall, ClaimExecution, MoveTo, Job
  <2>3. \A q \in Proposals : status'[q] = IF q = p THEN s ELSE status[q]
    BY <2>2 DEF BaseInv, StoreInv, StoreTypeOK
  <2>4. CASE status'[p] = "executing" /\ GoesTo(w, "fetch")
    <3>1. Alone(w) /\ call'[w].p = p /\ call'[w].pc \in Holding
      BY <2>4, GoesToShape DEF Holding
    <3> QED BY <2>1, <2>3, <3>1, StillHeld DEF Holds, Holding
  <2>5. CASE status'[p] # "executing" /\ Returns(w)
    <3>1. Alone(w)
      BY <2>5, ReturnsShape
    <3> QED BY <2>1, <2>3, <2>5, <3>1, StillHeld DEF Holds, Holding
  <2> QED BY <1>3, <2>4, <2>5 DEF ClaimCall, Job
<1>4. ASSUME UNCHANGED <<up, ready, status>>, stranded \subseteq stranded', Alone(w),
             \/ call'[w].p = p /\ call'[w].pc \in Holding
             \/ p \in stranded'
      PROVE  Served'
  BY <1>4, StillHeld DEF Holds
<1>5. ASSUME UNCHANGED <<up, ready, status>>, NEW result, Handle(w, result),
             StrandsIf(w, result = "escaped")
      PROVE  Served'
  <2>1. Alone(w) /\ (result # "escaped" => call'[w].p = p /\ call'[w].pc \in Holding)
    BY <1>5, GoesToShape, ConcludesShape, ReturnsShape DEF Handle, Holding
  <2> QED BY <1>4, <1>5, <2>1 DEF StrandsIf, Job
<1>6. CASE RefusedLocally(w) \/ Reply(w)
  <2>1. UNCHANGED <<up, ready, status>>
    BY <1>6 DEF RefusedLocally, Reply, envVars, storeVars, columns
  <2> QED BY <1>5, <1>6, <2>1 DEF RefusedLocally, Reply
<1>7. CASE FetchClaimed(w) \/ IssueRequest(w)
  <2>1. UNCHANGED <<up, ready, status, stranded>>
    BY <1>7 DEF FetchClaimed, IssueRequest, envVars, historyVars, storeVars, columns
  <2>2. Alone(w) /\ call'[w].p = p /\ call'[w].pc \in Holding
    BY <1>7, FetchClaimedShape, GoesToShape DEF IssueRequest, Holding
  <2> QED BY <1>4, <2>1, <2>2
<1>8. CASE Readback(w)
  <2>1. UNCHANGED <<up, ready, status>> /\ stranded \subseteq stranded'
    BY <1>8 DEF Readback, StrandsIf, envVars, storeVars, columns
  <2>2. CASE Returns(w) /\ p \in stranded'
    BY <1>4, <2>1, <2>2, ReturnsShape
  <2>3. ASSUME NEW o, Concludes(w, o) PROVE Served'
    BY <1>4, <2>1, <2>3, ConcludesShape DEF Holding
  <2>4. CASE call' = [call EXCEPT ![w].pc = "request", ![w].effect = "archive"]
    <3>1. Alone(w) /\ call'[w].p = p /\ call'[w].pc \in Holding
      BY <1>0, <2>4 DEF Alone, Calls, Holding
    <3> QED BY <1>4, <2>1, <3>1
  <2> QED BY <1>8, <2>2, <2>3, <2>4 DEF Readback, NextAfterReadback, StrandsIf, Job
<1>9. CASE SettleCall(w)
  <2>1. /\ Alone(w) /\ UNCHANGED <<up, ready, stranded>> /\ p \in Proposals
    BY <1>0, <1>9, ReturnsShape DEF SettleCall, At, envVars, historyVars
  <2>2. PICK o \in Outcomes : status' = [status EXCEPT ![p] = o]
    BY <1>9 DEF SettleCall, CompleteExecution, TerminalTransition, MoveTo, Job
  <2>3. \A q \in Proposals : status'[q] = "executing" => status[q] = "executing" /\ q # p
    BY <2>1, <2>2 DEF BaseInv, StoreInv, StoreTypeOK, Outcomes
  <2> QED BY <2>1, <2>3, StillHeld DEF Holds
<1>10. CASE SettleRefused(w)
  <2>1. Alone(w) /\ UNCHANGED <<up, ready, stranded, status>>
    BY <1>10, ReturnsShape DEF SettleRefused, envVars, historyVars, storeVars, columns
  <2>2. status[p] # "executing"
    <3>1. HandOK(w) /\ call[w].pc = "settle"
      BY <1>10 DEF AnswersOK, SettleRefused, At
    <3> QED BY <1>10, <3>1 DEF SettleRefused, HandOK, Holding, Job
  <2> QED BY <2>1, <2>2, StillHeld DEF Holds
<1>11. CASE StoreUnavailable(w)
  BY <1>4, <1>11, ReturnsShape DEF StoreUnavailable, StrandsIf, Job, envVars, storeVars, columns
<1> QED BY <1>1, <1>2, <1>3, <1>6, <1>7, <1>8, <1>9, <1>10, <1>11 DEF Step

LEMMA NextServed ==
  ASSUME IInv, AnswersOK, Served, Next
  PROVE  Served'
<1> BaseInv /\ HoldInv
  BY DEF IInv
<1>1. ASSUME UNCHANGED <<call, up, ready, stranded>>,
             \A p \in Proposals : status'[p] = "executing" => status[p] = "executing"
      PROVE  Served'
  BY <1>1 DEF Served, ExecutingIsHeld, Serving, Holds
<1>2. ASSUME NEW p \in Proposals, DraftProposal(p) PROVE Served'
  <2>1. status' = [status EXCEPT ![p] = "proposed"]
    BY <1>2 DEF DraftProposal, Propose
  <2> QED BY <1>1, <1>2, <2>1 DEF DraftProposal, envVars, historyVars, BaseInv, StoreInv, StoreTypeOK
<1>3. ASSUME NEW w \in Workers, NEW p \in Proposals, BeginDecision(w, p) \/ BeginExecution(w, p)
      PROVE  Served'
  <2>1. Alone(w) /\ call[w].pc = "idle" /\ UNCHANGED <<status, up, ready, stranded>>
    BY <1>3, BeginShape DEF BeginDecision, BeginExecution, At, envVars, historyVars, storeVars, columns
  <2> QED BY <2>1, StillHeld DEF Holds, Holding
<1>4. CASE Crash \/ Reload
  BY <1>4 DEF Crash, Reload, Served, ExecutingIsHeld, Serving
<1>5. CASE Boot
  BY <1>5 DEF Boot, Served, ExecutingIsHeld, Serving
<1>6. CASE BuildRuntime
  <2>1. \A p \in Proposals : status'[p] # "executing"
    BY <1>6 DEF BuildRuntime, RecoverInterrupted
  <2> QED BY <1>6, <2>1 DEF BuildRuntime, Served, ExecutingIsHeld
<1>7. CASE UNCHANGED <<status, call, up, ready, stranded>>
  BY <1>1, <1>7
<1> QED BY <1>2, <1>3, <1>4, <1>5, <1>6, <1>7, StepServed DEF Next, Apply, Lose, Edit,
     Time, Tick, storeVars, columns, historyVars, envVars

-----------------------------------------------------------------------------
(***************************************************************************)
(* What an approver saw.  Once applied, an effect keeps the revision it    *)
(* gave its record, and revisions only grow.  A call remembers the         *)
(* proposals that were verified when it began; everything it reads of      *)
(* their records it reads later, so a claim, whose readings equal the      *)
(* revisions the draft is bound to, binds the draft to those effects.      *)
(***************************************************************************)
Landed(q) == \A e \in EffectsOf(q) : wire[q][e] = "applied"

LandOK(q) ==
  \A e \in Effects :
    /\ wire[q][e] # "applied" => landedRev[q][e] = 0
    /\ CardOf(q, e) # NoCard => landedRev[q][e] <= rev[CardOf(q, e)]
    /\ e \notin EffectsOf(q) => sent[q][e] = 0

CallSeen(w) ==
  LET c == call[w] IN c.pc \in Unclaimed =>
    /\ \A q \in c.prior : Landed(q)
    /\ \A q \in c.prior, e \in Effects :
         CardOf(q, e) \in Cards \ Unversioned /\ c.seen[CardOf(q, e)] # Unread =>
           landedRev[q][e] <= c.seen[CardOf(q, e)]
    /\ c.pc # "read" => \A d \in CardsOf(c.p) : c.seen[d] # Unread

RowSeen(p) ==
  /\ ~Claimed(p) => settledBefore[p] = {}
  /\ \A q \in settledBefore[p] : Landed(q)
  /\ \A q \in settledBefore[p], e \in Effects :
       CardOf(q, e) \in CardsOf(p) \ Unversioned =>
         landedRev[q][e] <= revision[p][CardOf(q, e)]

SeenInv == /\ \A q \in Proposals : LandOK(q)
           /\ \A w \in Workers : CallSeen(w)
           /\ \A p \in Proposals : RowSeen(p)

LEMMA CardTyped ==
  ASSUME NEW q \in Proposals, NEW e
  PROVE  CardOf(q, e) \in Cards \cup {NoCard} /\ CardsOf(q) \subseteq Cards
BY ExecutionAssumption DEF CardOf, CardsOf

\* What a step leaves true of effects that have landed.
StaysLanded ==
  \A q \in Proposals : Landed(q) =>
    Landed(q)' /\ \A e \in Effects : landedRev'[q][e] = landedRev[q][e]

LEMMA UntouchedLands ==
  ASSUME SeenInv, UNCHANGED providerVars
  PROVE  StaysLanded /\ \A q \in Proposals : LandOK(q)'
BY DEF SeenInv, providerVars, StaysLanded, Landed, LandOK, EffectsOf, CardOf

LEMMA RequestLands ==
  ASSUME IInv, SeenInv, NEW w \in Workers, IssueRequest(w)
  PROVE  StaysLanded /\ \A q \in Proposals : LandOK(q)'
<1> DEFINE p == call[w].p
           e == call[w].effect
<1>1. /\ p \in Proposals /\ e \in Effects /\ wire[p][e] = "none" /\ e \in EffectsOf(p)
      /\ sent' = [sent EXCEPT ![p][e] = @ + 1]
      /\ wire' = [wire EXCEPT ![p][e] = "open"]
      /\ UNCHANGED <<rev, landedRev>>
  BY HolderFacts DEF IssueRequest, At, Job, IInv, HoldInv, HolderOK, RequestsOK, Holding,
     EffectsOf, Effects
<1> HIDE DEF p, e
<1>2. \A q \in Proposals, f \in Effects :
        IF q = p /\ f = e THEN wire'[q][f] = "open"
                          ELSE wire'[q][f] = wire[q][f] /\ sent'[q][f] = sent[q][f]
  BY <1>1 DEF IInv, BaseInv, TypeOK, ProviderTypeOK
<1>3. \A q \in Proposals : EffectsOf(q) \subseteq Effects
  BY DEF EffectsOf, Effects
<1>4. StaysLanded
  BY <1>1, <1>2, <1>3 DEF StaysLanded, Landed
<1>5. ASSUME NEW q \in Proposals PROVE LandOK(q)'
  BY <1>1, <1>2 DEF SeenInv, LandOK
<1> QED BY <1>4, <1>5

LEMMA ApplyLands ==
  ASSUME IInv, SeenInv, NEW p \in Proposals, NEW e \in Effects, Apply(p, e) \/ Lose(p, e)
  PROVE  StaysLanded /\ \A q \in Proposals : LandOK(q)'
<1>1. PICK s \in {"applied", "lost"} :
        wire' = [wire EXCEPT ![p][e] = s] /\ wire[p][e] = "open" /\ UNCHANGED sent
  BY DEF Apply, Lose
<1>2. \A q \in Proposals, f \in Effects :
        wire'[q][f] = IF q = p /\ f = e THEN s ELSE wire[q][f]
  BY <1>1 DEF IInv, BaseInv, TypeOK, ProviderTypeOK
<1>3. e \in EffectsOf(p)
  BY <1>1 DEF SeenInv, LandOK, IInv, HoldInv, RequestsOK
<1>4. \A q \in Proposals : EffectsOf(q) \subseteq Effects
  BY DEF EffectsOf, Effects
<1>5. /\ rev \in [Cards -> Nat] /\ landedRev \in [Proposals -> [Effects -> Nat]]
      /\ wire[p][e] # "applied"
  BY <1>1 DEF IInv, BaseInv, TypeOK, ProviderTypeOK
<1>6. CASE UNCHANGED <<rev, landedRev>> /\ (s = "lost" \/ CardOf(p, e) = NoCard)
  <2>1. StaysLanded
    BY <1>1, <1>2, <1>3, <1>4, <1>6 DEF StaysLanded, Landed
  <2>2. ASSUME NEW q \in Proposals PROVE LandOK(q)'
    BY <1>1, <1>2, <1>6 DEF SeenInv, LandOK
  <2> QED BY <2>1, <2>2
<1>7. ASSUME NEW c \in Cards, c = CardOf(p, e), s = "applied",
             rev' = [rev EXCEPT ![c] = @ + 1],
             landedRev' = [landedRev EXCEPT ![p][e] = rev[c] + 1]
      PROVE  StaysLanded /\ \A q \in Proposals : LandOK(q)'
  <2>1. \A q \in Proposals, f \in Effects :
          landedRev'[q][f] = IF q = p /\ f = e THEN rev[c] + 1 ELSE landedRev[q][f]
    BY <1>5, <1>7
  <2>2. rev'[c] = rev[c] + 1 /\ \A d \in Cards : rev[d] <= rev'[d]
    BY <1>5, <1>7
  <2>3. StaysLanded
    BY <1>1, <1>2, <1>3, <1>4, <2>1 DEF StaysLanded, Landed
  <2>4. ASSUME NEW q \in Proposals PROVE LandOK(q)'
    <3> SUFFICES ASSUME NEW f \in Effects
                 PROVE  /\ wire'[q][f] # "applied" => landedRev'[q][f] = 0
                        /\ CardOf(q, f) # NoCard => landedRev'[q][f] <= rev'[CardOf(q, f)]
                        /\ f \notin EffectsOf(q) => sent'[q][f] = 0
      BY DEF LandOK, CardOf, EffectsOf
    <3>1. /\ wire[q][f] # "applied" => landedRev[q][f] = 0
          /\ CardOf(q, f) # NoCard => landedRev[q][f] <= rev[CardOf(q, f)]
          /\ f \notin EffectsOf(q) => sent[q][f] = 0
      BY DEF SeenInv, LandOK
    <3>2. CardOf(q, f) \in Cards \cup {NoCard} /\ landedRev[q][f] \in Nat
      BY <1>5, CardTyped
    <3>3. CASE q = p /\ f = e
      BY <1>1, <1>2, <1>7, <2>1, <2>2, <3>1, <3>3, <1>5
    <3>4. CASE ~(q = p /\ f = e)
      <4>1. landedRev'[q][f] = landedRev[q][f] /\ wire'[q][f] = wire[q][f] /\ sent' = sent
        BY <1>1, <1>2, <2>1, <3>4
      <4>2. CardOf(q, f) # NoCard => rev[CardOf(q, f)] <= rev'[CardOf(q, f)]
                                     /\ rev[CardOf(q, f)] \in Nat /\ rev'[CardOf(q, f)] \in Nat
        BY <1>5, <1>7, <2>2, <3>2
      <4> QED BY <3>1, <3>2, <4>1, <4>2
    <3> QED BY <3>3, <3>4
  <2> QED BY <2>3, <2>4
<1>8. CASE Apply(p, e) /\ CardOf(p, e) # NoCard
  <2>1. CardOf(p, e) \in Cards /\ s = "applied"
    <3>1. wire'[p][e] = "applied"
      BY <1>8 DEF Apply, IInv, BaseInv, TypeOK, ProviderTypeOK
    <3> QED BY <1>2, <1>8, <3>1, CardTyped
  <2> QED BY <1>7, <1>8, <2>1 DEF Apply
<1>9. CASE Lose(p, e)
  <2>1. s = "lost"
    <3>1. wire'[p][e] = "lost"
      BY <1>9 DEF Lose, IInv, BaseInv, TypeOK, ProviderTypeOK
    <3> QED BY <1>2, <3>1
  <2> QED BY <1>6, <1>9, <2>1 DEF Lose
<1>10. CASE Apply(p, e) /\ CardOf(p, e) = NoCard
  BY <1>6, <1>10 DEF Apply
<1> QED BY <1>8, <1>9, <1>10

LEMMA EditLands ==
  ASSUME IInv, SeenInv, NEW c \in Cards, Edit(c)
  PROVE  StaysLanded /\ \A q \in Proposals : LandOK(q)'
<1>1. /\ rev \in [Cards -> Nat] /\ landedRev \in [Proposals -> [Effects -> Nat]]
      /\ rev' = [rev EXCEPT ![c] = @ + 1] /\ UNCHANGED <<sent, wire, landedRev>>
  BY DEF Edit, IInv, BaseInv, TypeOK, ProviderTypeOK
<1>2. \A d \in Cards : rev[d] <= rev'[d] /\ rev[d] \in Nat /\ rev'[d] \in Nat
  BY <1>1
<1>3. StaysLanded
  BY <1>1 DEF StaysLanded, Landed, EffectsOf
<1>4. ASSUME NEW q \in Proposals, NEW e \in Effects, CardOf(q, e) # NoCard
      PROVE  landedRev'[q][e] <= rev'[CardOf(q, e)]
  <2>1. CardOf(q, e) \in Cards /\ landedRev[q][e] <= rev[CardOf(q, e)] /\ landedRev[q][e] \in Nat
    BY <1>1, <1>4, CardTyped DEF SeenInv, LandOK
  <2> QED BY <1>1, <1>2, <2>1
<1>5. ASSUME NEW q \in Proposals PROVE LandOK(q)'
  BY <1>1, <1>4 DEF SeenInv, LandOK, CardOf, EffectsOf
<1> QED BY <1>3, <1>5

LEMMA ProviderStep ==
  ASSUME IInv, SeenInv, Next
  PROVE  StaysLanded /\ \A q \in Proposals : LandOK(q)'
<1>1. ASSUME NEW w \in Workers, Step(w), ~IssueRequest(w) PROVE UNCHANGED providerVars
  BY <1>1 DEF Step, DecideCall, ReadCard, ReadClock, ClaimCall, CallRefused, FetchClaimed,
     RefusedLocally, Reply, Readback, SettleCall, SettleRefused, StoreUnavailable
<1>2. ASSUME NEW w \in Workers, Step(w) PROVE StaysLanded /\ \A q \in Proposals : LandOK(q)'
  BY <1>1, <1>2, RequestLands, UntouchedLands
<1>3. CASE UNCHANGED providerVars
  BY <1>3, UntouchedLands
<1> QED BY <1>2, <1>3, ApplyLands, EditLands DEF Next, DraftProposal, BeginDecision, BeginExecution,
     Crash, Boot, Reload, BuildRuntime, Time

\* Whoever does not move keeps what it has seen.
LEMMA OtherCalls ==
  ASSUME IInv, SeenInv, StaysLanded, NEW x \in Workers,
         call'[x] = call[x] \/ call'[x].pc \notin Unclaimed
  PROVE  CallSeen(x)'
<1>1. CallSeen(x) /\ call[x].prior \subseteq Proposals
  BY HolderFacts DEF SeenInv, IInv, Calls
<1>2. \A q \in call[x].prior : Landed(q) => Landed(q)' /\ \A e \in Effects : landedRev'[q][e] = landedRev[q][e]
  BY <1>1 DEF StaysLanded
<1>3. CASE call'[x].pc \notin Unclaimed
  BY <1>3 DEF CallSeen
<1>4. CASE call'[x] = call[x]
  BY <1>1, <1>2, <1>4 DEF CallSeen, CardOf, CardsOf
<1> QED BY <1>3, <1>4

LEMMA OtherApproved ==
  ASSUME IInv, SeenInv, StaysLanded, NEW p \in Proposals,
         settledBefore'[p] = settledBefore[p],
         Claimed(p) => Claimed(p)' /\ revision'[p] = revision[p]
  PROVE  RowSeen(p)'
<1>1. RowSeen(p) /\ settledBefore[p] \subseteq Proposals
  BY DEF SeenInv, IInv, BaseInv, TypeOK, HistoryTypeOK
<1>2. \A q \in settledBefore[p] : Landed(q) => Landed(q)' /\ \A e \in Effects : landedRev'[q][e] = landedRev[q][e]
  BY <1>1 DEF StaysLanded
<1>3. CASE Claimed(p)
  BY <1>1, <1>2, <1>3 DEF RowSeen, CardOf, CardsOf
<1>4. CASE ~Claimed(p)
  BY <1>1, <1>4 DEF RowSeen
<1> QED BY <1>3, <1>4

LEMMA BeginSees ==
  ASSUME IInv, SeenInv, NEW w \in Workers, NEW p \in Proposals, BeginExecution(w, p)
  PROVE  CallSeen(w)'
<1> DEFINE pc == IF CardsOf(p) = {} THEN "clock" ELSE "read"
           prior == {q \in Proposals : status[q] = "verified"}
<1>1. Enters(w, [Idle EXCEPT !.pc = pc, !.p = p, !.prior = prior])
      /\ UNCHANGED <<wire, landedRev>>
  BY DEF BeginExecution, providerVars
<1>2. \A q \in prior : Landed(q)
  BY DEF IInv, HoldInv, RequestsOK, Evidence, Landed
<1>3. pc # "read" => CardsOf(p) = {}
  OBVIOUS
<1>4. prior \subseteq Proposals
  OBVIOUS
<1> HIDE DEF pc, prior
<1>5. call'[w] = [Idle EXCEPT !.pc = pc, !.p = p, !.prior = prior]
  BY <1>1, HolderFacts DEF Enters, IInv
<1>6. /\ call'[w].pc = pc /\ call'[w].p = p /\ call'[w].prior = prior
      /\ call'[w].seen = [c \in Cards |-> Unread]
  BY <1>5 DEF Idle
<1>7. \A q \in call'[w].prior : Landed(q)'
  BY <1>1, <1>2, <1>6 DEF Landed, EffectsOf
<1> QED BY <1>3, <1>6, <1>7 DEF CallSeen, CardOf, CardsOf

\* A reading comes after everything that was verified when the call began.
LEMMA ReadSees ==
  ASSUME IInv, SeenInv, NEW w \in Workers, ReadCard(w)
  PROVE  CallSeen(w)'
<1>0. /\ call[w] \in Calls /\ call[w].pc = "read" /\ call[w].p \in Proposals
      /\ UNCHANGED <<wire, landedRev, rev>> /\ CallSeen(w)
      /\ rev \in [Cards -> Nat] /\ landedRev \in [Proposals -> [Effects -> Nat]]
  BY HolderFacts DEF ReadCard, At, IInv, SeenInv, providerVars, BaseInv, TypeOK, ProviderTypeOK
<1>1. PICK c \in CardsOf(Job(w)) :
        LET seen == [call[w].seen EXCEPT ![c] = RevisionAt(c)]
            more == \E d \in CardsOf(Job(w)) : seen[d] = Unread
        IN call' = [call EXCEPT ![w].seen = seen,
                                ![w].pc = IF more THEN "read" ELSE "clock"]
  BY DEF ReadCard
<1> DEFINE seen == [call[w].seen EXCEPT ![c] = RevisionAt(c)]
           pc == IF \E d \in CardsOf(Job(w)) : seen[d] = Unread THEN "read" ELSE "clock"
<1>2. call' = [call EXCEPT ![w].seen = seen, ![w].pc = pc]
  BY <1>1, Zenon
<1>3. pc # "read" => \A d \in CardsOf(call[w].p) : seen[d] # Unread
  BY DEF Job
<1>4. c \in Cards /\ \A d \in Cards : seen[d] = IF d = c THEN RevisionAt(c) ELSE call[w].seen[d]
  BY <1>0, CardTyped DEF Job, Calls
<1> HIDE DEF seen, pc
<1>5. call'[w] = [call[w] EXCEPT !.seen = seen, !.pc = pc]
  BY <1>2, HolderFacts DEF IInv
<1>6. /\ call'[w].seen = seen /\ call'[w].pc = pc /\ call'[w].p = call[w].p
      /\ call'[w].prior = call[w].prior /\ call[w].prior \subseteq Proposals
  BY <1>0, <1>5 DEF Calls
<1>7. ASSUME NEW q \in call[w].prior, NEW e \in Effects, NEW d \in Cards \ Unversioned,
             d = CardOf(q, e), seen[d] # Unread
      PROVE  landedRev[q][e] <= seen[d]
  <2>1. CASE d = c
    <3>1. q \in Proposals /\ CardOf(q, e) # NoCard
      BY <1>6, <1>7, ExecutionAssumption
    <3>2. landedRev[q][e] <= rev[CardOf(q, e)]
      BY <3>1 DEF SeenInv, LandOK
    <3>3. seen[d] = rev[d]
      BY <1>4, <2>1 DEF RevisionAt
    <3> QED BY <1>7, <3>2, <3>3
  <2>2. CASE d # c
    BY <1>0, <1>4, <1>7, <2>2 DEF CallSeen, Unclaimed
  <2> QED BY <2>1, <2>2
<1>8. \A q \in call[w].prior : Landed(q)'
  BY <1>0 DEF CallSeen, Unclaimed, Landed, EffectsOf
<1> QED BY <1>0, <1>3, <1>6, <1>7, <1>8 DEF CallSeen, CardOf, CardsOf

LEMMA ClockSees ==
  ASSUME IInv, SeenInv, NEW w \in Workers, ReadClock(w)
  PROVE  CallSeen(w)'
<1>1. /\ call[w] \in Calls /\ call[w].pc = "clock" /\ CallSeen(w) /\ UNCHANGED <<wire, landedRev>>
      /\ call'[w] = [call[w] EXCEPT !.pc = "claim", !.now = clock]
  BY HolderFacts DEF ReadClock, At, IInv, SeenInv, providerVars
<1>2. /\ call'[w].pc = "claim" /\ call'[w].p = call[w].p
      /\ call'[w].seen = call[w].seen /\ call'[w].prior = call[w].prior
  BY <1>1 DEF Calls
<1> QED BY <1>1, <1>2 DEF CallSeen, Unclaimed, Landed, EffectsOf, CardOf, CardsOf

\* The claim compares the readings with the revisions of the draft.
LEMMA ClaimSees ==
  ASSUME IInv, SeenInv, NEW w \in Workers, ClaimCall(w)
  PROVE  \A p \in Proposals : RowSeen(p)'
<1> BaseInv /\ HoldInv
  BY DEF IInv
<1>0. PICK p \in Proposals : p = call[w].p
  BY HolderFacts DEF ClaimCall, At
<1>1. PICK u \in Users, v \in 1..MaxVersion, nonce \in Proposals :
        ClaimExecution(p, u, v, nonce, call[w].now, call[w].seen)
  BY <1>0 DEF ClaimCall, Job
<1>2. /\ call[w].pc = "claim" /\ status[p] = "approved" /\ CallSeen(w)
      /\ call[w] \in Calls /\ UNCHANGED <<wire, landedRev, revision>>
  BY <1>1, HolderFacts DEF ClaimCall, At, ClaimExecution, Admits, MoveTo, SeenInv, providerVars
<1>3. StaysLanded /\ StatusKept
  BY <1>1, <1>2, UntouchedLands, StatusKeptBy DEF ClaimCall
<1>4. ASSUME NEW q \in Proposals, settledBefore'[q] = settledBefore[q] PROVE RowSeen(q)'
  BY <1>2, <1>3, <1>4, OtherApproved DEF StatusKept
<1>5. CASE UNCHANGED settledBefore
  BY <1>4, <1>5
<1>6. CASE /\ status'[p] = "executing"
           /\ settledBefore' = [settledBefore EXCEPT ![p] = call[w].prior]
  <2>1. settledBefore'[p] = call[w].prior /\ \A q \in Proposals : q # p => settledBefore'[q] = settledBefore[q]
    BY <1>2, <1>6 DEF BaseInv, TypeOK, HistoryTypeOK
  <2>2. call[w].seen = revision[p]
    <3>1. status' = [status EXCEPT ![p] = "executing"]
      <4>1. PICK s \in {"executing", "expired"} :
              /\ status' = [status EXCEPT ![p] = s]
              /\ s = "expired" \/ call[w].seen = revision[p]
        BY <1>1 DEF ClaimExecution, MoveTo
      <4> QED BY <1>2, <1>6, <4>1 DEF BaseInv, StoreInv, StoreTypeOK
    <3>2. status' # [status EXCEPT ![p] = "expired"]
      BY <1>2, <1>6 DEF BaseInv, StoreInv, StoreTypeOK
    <3> QED BY <1>1, <3>2 DEF ClaimExecution, MoveTo
  <2>3. \A q \in call[w].prior : Landed(q) /\ Landed(q)'
    BY <1>2 DEF CallSeen, Unclaimed, Landed, EffectsOf
  <2>4. ASSUME NEW q \in call[w].prior, NEW e \in Effects, CardOf(q, e) \in CardsOf(p) \ Unversioned
        PROVE  landedRev[q][e] <= revision[p][CardOf(q, e)]
    <3>1. CardOf(q, e) \in Cards \ Unversioned /\ call[w].seen[CardOf(q, e)] # Unread
      BY <1>2, <2>4, <1>0, CardTyped DEF CallSeen, Unclaimed
    <3> QED BY <1>2, <2>2, <3>1 DEF CallSeen, Unclaimed
  <2>5. RowSeen(p)'
    BY <1>2, <1>6, <2>1, <2>3, <2>4 DEF RowSeen, Claimed, CardOf, CardsOf
  <2> QED BY <1>4, <2>1, <2>5
<1> QED BY <1>0, <1>5, <1>6 DEF ClaimCall, Job

\* A claimed row stays claimed and bound to what it was drafted from.
LEMMA ClaimedStays ==
  ASSUME BaseInv, Next, NEW p \in Proposals, Claimed(p)
  PROVE  Claimed(p)' /\ revision'[p] = revision[p]
<1> /\ status \in [Proposals -> Statuses]
    /\ revision \in [Proposals -> Revisions \cup {NoRevision}]
  BY DEF BaseInv, StoreInv, StoreTypeOK
<1>1. [StoreNext]_storeVars
  BY TransactionIsStoreStep
<1>2. CASE Draft
  BY <1>2 DEF Draft, Propose, Claimed
<1>3. CASE Decide
  BY <1>3 DEF Decide, Approve, Deny, SimpleTransition, Admits, MoveTo, Claimed
<1>4. CASE Claim
  BY <1>4 DEF Claim, ClaimExecution, Admits, MoveTo, Claimed
<1>5. CASE Settle
  BY <1>5 DEF Settle, CompleteExecution, Reconcile, TerminalTransition, MoveTo, Claimed, Outcomes
<1>6. CASE RecoverInterrupted
  BY <1>6 DEF RecoverInterrupted, Claimed
<1>7. CASE Tick \/ UNCHANGED storeVars
  BY <1>7 DEF Tick, storeVars, columns, Claimed
<1> QED BY <1>1, <1>2, <1>3, <1>4, <1>5, <1>6, <1>7 DEF StoreNext

LEMMA NextSees ==
  ASSUME IInv, SeenInv, Next
  PROVE  SeenInv'
<1> BaseInv
  BY DEF IInv
<1>1. StaysLanded /\ \A q \in Proposals : LandOK(q)'
  BY ProviderStep
<1>2. UNCHANGED settledBefore => \A p \in Proposals : RowSeen(p)'
  BY <1>1, ClaimedStays, OtherApproved
<1>3. ASSUME NEW w \in Workers, Alone(w), CallSeen(w)' PROVE \A x \in Workers : CallSeen(x)'
  BY <1>1, <1>3, OtherCalls DEF Alone
<1>4. ASSUME NEW w \in Workers, Alone(w), call'[w].pc \notin Unclaimed
      PROVE  \A x \in Workers : CallSeen(x)'
  BY <1>3, <1>4 DEF CallSeen
<1>5. ASSUME UNCHANGED <<call, settledBefore>> PROVE SeenInv'
  BY <1>1, <1>2, <1>5, OtherCalls DEF SeenInv
<1>6. ASSUME NEW w \in Workers, NEW p \in Proposals, BeginDecision(w, p) \/ BeginExecution(w, p)
      PROVE  SeenInv'
  <2>1. Alone(w) /\ UNCHANGED settledBefore
    BY <1>6, BeginShape DEF BeginDecision, BeginExecution, historyVars
  <2>2. CASE BeginDecision(w, p)
    <3>1. call'[w] = [Idle EXCEPT !.pc = "decide", !.p = p, !.now = clock]
      BY <2>2, HolderFacts DEF BeginDecision, Enters
    <3>2. call'[w].pc \notin Unclaimed
      BY <3>1 DEF Idle, Unclaimed
    <3> QED BY <1>1, <1>2, <1>4, <2>1, <3>2 DEF SeenInv
  <2>3. CASE BeginExecution(w, p)
    BY <1>1, <1>2, <1>3, <2>1, <2>3, BeginSees DEF SeenInv
  <2> QED BY <1>6, <2>2, <2>3
<1>7. ASSUME NEW w \in Workers, Step(w) PROVE SeenInv'
  <2>1. ASSUME NEW pc, pc \notin Unclaimed, GoesTo(w, pc) PROVE \A x \in Workers : CallSeen(x)'
    BY <1>4, <2>1, GoesToShape
  <2>2. ASSUME NEW o, Concludes(w, o) PROVE \A x \in Workers : CallSeen(x)'
    BY <1>4, <2>2, ConcludesShape DEF Unclaimed
  <2>3. ASSUME Returns(w) PROVE \A x \in Workers : CallSeen(x)'
    <3>1. Alone(w) /\ call'[w].pc = "idle"
      BY <2>3, HolderFacts DEF Returns, Enters, Idle, Alone
    <3> QED BY <1>4, <3>1 DEF Unclaimed
  <2>4. CASE DecideCall(w) \/ CallRefused(w) \/ SettleCall(w) \/ SettleRefused(w) \/ StoreUnavailable(w)
    BY <1>1, <1>2, <2>3, <2>4 DEF DecideCall, CallRefused, SettleCall, SettleRefused,
       StoreUnavailable, historyVars, SeenInv
  <2>5. CASE ReadCard(w) \/ ReadClock(w)
    <3>1. Alone(w) /\ UNCHANGED settledBefore
      BY <2>5, ReadCardShape, ReadClockShape DEF ReadCard, ReadClock, historyVars
    <3> QED BY <1>1, <1>2, <1>3, <2>5, <3>1, ReadSees, ClockSees DEF SeenInv
  <2>6. CASE ClaimCall(w)
    <3>1. \A x \in Workers : CallSeen(x)'
      BY <2>1, <2>3, <2>6 DEF ClaimCall, Unclaimed
    <3> QED BY <1>1, <2>6, <3>1, ClaimSees DEF SeenInv
  <2>7. CASE FetchClaimed(w)
    <3>1. Alone(w) /\ call'[w].pc = "request"
      BY <2>7, FetchClaimedShape
    <3>2. \A x \in Workers : CallSeen(x)'
      BY <1>4, <3>1 DEF Unclaimed
    <3> QED BY <1>1, <1>2, <2>7, <3>2 DEF FetchClaimed, historyVars, SeenInv
  <2>8. ASSUME NEW result, Handle(w, result) PROVE \A x \in Workers : CallSeen(x)'
    BY <2>1, <2>2, <2>3, <2>8 DEF Handle, Unclaimed
  <2>9. CASE RefusedLocally(w) \/ Reply(w)
    BY <1>1, <1>2, <2>8, <2>9 DEF RefusedLocally, Reply, SeenInv
  <2>10. CASE IssueRequest(w)
    BY <1>1, <1>2, <2>1, <2>10 DEF IssueRequest, historyVars, SeenInv, Unclaimed
  <2>11. CASE Readback(w)
    <3>1. CASE call' = [call EXCEPT ![w].pc = "request", ![w].effect = "archive"]
      <4>1. Alone(w) /\ call'[w].pc = "request"
        BY <3>1, HolderFacts DEF Alone, Calls
      <4> QED BY <1>1, <1>2, <1>4, <2>11, <4>1 DEF Readback, SeenInv, Unclaimed
    <3> QED BY <1>1, <1>2, <2>2, <2>3, <2>11, <3>1 DEF Readback, NextAfterReadback, SeenInv
  <2> QED BY <1>7, <2>4, <2>5, <2>6, <2>7, <2>9, <2>10, <2>11 DEF Step
<1>8. CASE Crash
  <2>1. \A x \in Workers : CallSeen(x)'
    BY <1>8 DEF Crash, CallSeen, Idle, Unclaimed
  <2> QED BY <1>1, <1>2, <1>8, <2>1 DEF Crash, historyVars, SeenInv
<1> QED BY <1>5, <1>6, <1>7, <1>8 DEF Next, DraftProposal, Apply, Lose, Edit, Boot, Reload,
     BuildRuntime, Time, historyVars

-----------------------------------------------------------------------------
(* The invariants of what is absent and of what was seen, on top of IInv. *)

FullInv == IInv /\ OutInv /\ SeenInv

LEMMA InitFull == Init => FullInv
<1> SUFFICES ASSUME Init PROVE FullInv
  OBVIOUS
<1>1. AnswersOK
  <2>1. ASSUME NEW w \in Workers PROVE HandOK(w)
    BY DEF Init, HandOK, Idle, Holding
  <2>2. ASSUME NEW p \in Proposals PROVE RowOK(p)
    BY DEF Init, StoreInit, RowOK, Clear, Ambiguous
  <2> QED BY <2>1, <2>2 DEF AnswersOK
<1>2. Served
  BY DEF Init, StoreInit, Served, ExecutingIsHeld
<1>3. SeenInv
  <2>1. ASSUME NEW q \in Proposals PROVE LandOK(q)
    <3>1. ASSUME NEW e \in Effects, CardOf(q, e) # NoCard
          PROVE  landedRev[q][e] <= rev[CardOf(q, e)]
      BY <3>1, CardTyped DEF Init
    <3> QED BY <3>1 DEF Init, LandOK
  <2>2. ASSUME NEW w \in Workers PROVE CallSeen(w)
    BY DEF Init, CallSeen, Idle, Unclaimed
  <2>3. ASSUME NEW p \in Proposals PROVE RowSeen(p)
    BY DEF Init, RowSeen
  <2> QED BY <2>1, <2>2, <2>3 DEF SeenInv
<1> QED BY <1>1, <1>2, <1>3, InitIInv DEF FullInv, OutInv

LEMMA StutterFull == FullInv /\ UNCHANGED vars => FullInv'
<1> SUFFICES ASSUME FullInv, UNCHANGED vars PROVE FullInv'
  OBVIOUS
<1> USE DEF vars, envVars, providerVars, historyVars, storeVars, columns
<1>1. AnswersOK'
  BY DEF FullInv, OutInv, AnswersOK, HandOK, RowOK, Clear, Claimed
<1>2. Served'
  BY DEF FullInv, OutInv, Served, ExecutingIsHeld, Serving, Holds
<1>3. SeenInv'
  <2>1. \A q \in Proposals : LandOK(q)'
    BY UntouchedLands DEF FullInv
  <2>2. StaysLanded
    BY UntouchedLands DEF FullInv
  <2>3. \A x \in Workers : CallSeen(x)'
    BY <2>2, OtherCalls DEF FullInv
  <2>4. \A p \in Proposals : RowSeen(p)'
    BY <2>2, OtherApproved DEF FullInv, Claimed
  <2> QED BY <2>1, <2>3, <2>4 DEF SeenInv
<1> QED BY <1>1, <1>2, <1>3, NextIInv DEF FullInv, OutInv

LEMMA NextFull == FullInv /\ [Next]_vars => FullInv'
BY StutterFull, NextIInv, NextAnswers, NextServed, NextSees DEF FullInv, OutInv

\* FullInv holds in every reachable state.
THEOREM FullInvariance == Spec => []FullInv
  BY InitFull, NextFull, PTL DEF Spec

\* An ambiguous exchange (a timeout, an incomplete acknowledgement) is never
\* settled as a success or as a failure.
THEOREM AmbiguousStaysOpen == Spec => []AmbiguityStaysUnknown
<1>1. FullInv => AmbiguityStaysUnknown
  BY DEF FullInv, OutInv, AnswersOK, RowOK, Clear, Ambiguous, AmbiguityStaysUnknown
<1> QED BY <1>1, FullInvariance, PTL

\* "failed" is never said once a readback has seen an effect.
THEOREM FailedSawNothing == Spec => []FailedConfirmedNothing
<1>1. FullInv => FailedConfirmedNothing
  BY DEF FullInv, OutInv, AnswersOK, RowOK, FailedConfirmedNothing
<1> QED BY <1>1, FullInvariance, PTL

\* While a Runtime serves, an executing row is in somebody's hands or an
\* exception escaped from it.
THEOREM NothingLeftBehind == Spec => []ExecutingIsHeld
<1>1. FullInv => ExecutingIsHeld
  BY DEF FullInv, OutInv, Served
<1> QED BY <1>1, FullInvariance, PTL

\* Whoever approves the second of two proposals on a record saw the first
\* one's effect, however late that effect was applied.
THEOREM ApproverSawVerified == Spec => []VerifiedWorkWasSeen
<1>1. FullInv => VerifiedWorkWasSeen
  BY DEF FullInv, SeenInv, RowSeen, VerifiedWorkWasSeen
<1> QED BY <1>1, FullInvariance, PTL

=============================================================================
