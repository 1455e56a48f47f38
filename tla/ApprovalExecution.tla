------------------------- MODULE ApprovalExecution -------------------------
(***************************************************************************)
(* ScottyService executing approved proposals: tool calls on concurrent    *)
(* threads, the approval store they share, the providers they write to,    *)
(* and the process that may crash, be started again, or have its plugin    *)
(* reloaded under calls that are still running.                            *)
(*                                                                         *)
(* A tool call is a record call[w] whose pc says what it does next.  What  *)
(* a caller passes to approve, deny or execute (its own principal, the     *)
(* version, the nonce) is used in one transaction only, and is chosen      *)
(* there.  Every exception before a claim ends the call with nothing       *)
(* changed; every exception after one leaves the row as the last           *)
(* transaction left it.                                                    *)
(***************************************************************************)
EXTENDS ApprovalStore, ProviderCalls

CONSTANTS
  Workers,      \* threads that run tool calls
  Cards,        \* provider records a proposal can read: cards, contacts
  NoCard,
  NoProposal,
  OpOf,         \* [Proposals -> Operations]
  SourceOf,     \* [Proposals -> Cards \cup {NoCard}]: record read first
  DestOf,       \* [Proposals -> Cards \cup {NoCard}]: a merge's destination
  Unversioned,  \* cards whose provider sends no revision ("unversioned")
  MaxEdits,     \* bound: edits people make to the cards
  MaxRestarts   \* bound: crashes and plugin reloads

VARIABLES
  call,         \* [Workers -> Calls]
  up, ready,    \* the process runs; its current controller has a Runtime
  restarts, edits,
  rev,          \* [Cards -> Nat]: revision of each record at its provider
  sent,         \* mutation requests issued
  wire,         \* what the provider did with the last one
  \* History, read by properties only:
  answer,       \* reply to the last mutation request
  confirmed,    \* effects a readback has seen
  landedRev,    \* revision an applied effect gave its card
  settledBefore,\* proposals already verified when the claiming call began
  stranded      \* executions an exception escaped from

envVars == <<up, ready, restarts, edits>>
providerVars == <<rev, sent, wire, landedRev>>
historyVars == <<answer, confirmed, settledBefore, stranded>>
vars == <<storeVars, call, envVars, providerVars, historyVars>>

\* "update" stands for Trello update, move and archive, which share a path.
Operations == {"sms", "announcement", "create", "update", "merge"}
Effects == {"main", "archive"}
EffectsOf(p) == IF OpOf[p] = "merge" THEN Effects ELSE {"main"}
ReadsBack(p) == OpOf[p] \in {"sms", "announcement", "merge"}
ProviderOf(p) == CASE OpOf[p] = "sms" -> "ghl"
                   [] OpOf[p] = "announcement" -> "discord"
                   [] OTHER -> "trello"

\* The records read before the claim, and the one each effect changes.
CardsOf(p) == {SourceOf[p], DestOf[p]} \ {NoCard}
CardOf(p, e) == CASE OpOf[p] = "update" -> SourceOf[p]
                  [] OpOf[p] = "merge" /\ e = "main" -> DestOf[p]
                  [] OpOf[p] = "merge" /\ e = "archive" -> SourceOf[p]
                  [] OTHER -> NoCard

Unread == -1
RevisionAt(c) == IF c \in Unversioned THEN 0 ELSE rev[c]

Deciding == {"decide"}
Unclaimed == {"read", "clock", "claim"}
Holding == {"fetch", "request", "reply", "readback", "settle"}
Calls == [pc : {"idle"} \cup Deciding \cup Unclaimed \cup Holding,
          p : Proposals \cup {NoProposal},
          now : Nat,
          seen : [Cards -> Int],
          ver : 0..MaxVersion,
          effect : Effects,
          outcome : Outcomes,
          prior : SUBSET Proposals]
Idle == [pc |-> "idle", p |-> NoProposal, now |-> 0,
         seen |-> [c \in Cards |-> Unread], ver |-> 0, effect |-> "main",
         outcome |-> "unknown", prior |-> {}]

ASSUME ExecutionAssumption ==
  /\ OpOf \in [Proposals -> Operations]
  /\ SourceOf \in [Proposals -> Cards \cup {NoCard}]
  /\ DestOf \in [Proposals -> Cards \cup {NoCard}]
  /\ NoCard \notin Cards
  /\ NoProposal \notin Proposals
  /\ Unversioned \subseteq Cards
  /\ MaxEdits \in Nat
  /\ MaxRestarts \in Nat
  /\ [Cards -> Unread..(MaxEdits + 2)] \subseteq Revisions
  /\ Revisions \subseteq [Cards -> Int]
  /\ NoRevision \notin Revisions

Init ==
  /\ StoreInit
  /\ call = [w \in Workers |-> Idle]
  /\ up = TRUE /\ ready = TRUE /\ restarts = 0 /\ edits = 0
  /\ rev = [c \in Cards |-> 0]
  /\ sent = [p \in Proposals |-> [e \in Effects |-> 0]]
  /\ wire = [p \in Proposals |-> [e \in Effects |-> "none"]]
  /\ landedRev = [p \in Proposals |-> [e \in Effects |-> 0]]
  /\ answer = [p \in Proposals |-> [e \in Effects |-> "none"]]
  /\ confirmed = [p \in Proposals |-> {}]
  /\ settledBefore = [p \in Proposals |-> {}]
  /\ stranded = {}

-----------------------------------------------------------------------------
(* Calls *)

Serving == up /\ ready
At(w, pc) == call[w].pc = pc
Job(w) == call[w].p

Enters(w, rec) == call' = [call EXCEPT ![w] = rec]
Returns(w) == Enters(w, Idle)
GoesTo(w, pc) == call' = [call EXCEPT ![w].pc = pc]
Concludes(w, outcome) == call' = [call EXCEPT ![w].pc = "settle", ![w].outcome = outcome]

\* propose_*: the records are read some time before the INSERT, so the
\* draft is bound to revisions that may be old already.
DraftProposal(p) ==
  /\ Serving
  /\ \E r \in Revisions :
       /\ \A c \in Cards : IF c \in CardsOf(p) THEN r[c] \in 0..RevisionAt(c)
                                               ELSE r[c] = Unread
       /\ Propose(p, r)
  /\ UNCHANGED <<call, envVars, providerVars, historyVars>>

\* approve or deny: the clock is read, then the transaction runs.
BeginDecision(w, p) ==
  /\ Serving /\ At(w, "idle") /\ status[p] # "none"
  /\ Enters(w, [Idle EXCEPT !.pc = "decide", !.p = p, !.now = clock])
  /\ UNCHANGED <<storeVars, envVars, providerVars, historyVars>>

DecideCall(w) ==
  /\ At(w, "decide")
  /\ \E u \in Users, v \in 1..MaxVersion :
       Approve(Job(w), u, v, call[w].now) \/ Deny(Job(w), u, v, call[w].now)
  /\ Returns(w)
  /\ UNCHANGED <<envVars, providerVars, historyVars>>

\* execute: approvals.get, then the operation's own source read.
BeginExecution(w, p) ==
  /\ Serving /\ At(w, "idle") /\ status[p] # "none"
  /\ Enters(w, [Idle EXCEPT !.pc = IF CardsOf(p) = {} THEN "clock" ELSE "read",
                            !.p = p,
                            !.prior = {q \in Proposals : status[q] = "verified"}])
  /\ UNCHANGED <<storeVars, envVars, providerVars, historyVars>>

\* get_contact, get_card; a merge reads the source, then the destination.
ReadCard(w) ==
  /\ At(w, "read")
  /\ \E c \in CardsOf(Job(w)) :
       /\ call[w].seen[c] = Unread
       /\ c = DestOf[Job(w)] => call[w].seen[SourceOf[Job(w)]] # Unread
       /\ LET seen == [call[w].seen EXCEPT ![c] = RevisionAt(c)]
              more == \E d \in CardsOf(Job(w)) : seen[d] = Unread
          IN call' = [call EXCEPT ![w].seen = seen,
                                  ![w].pc = IF more THEN "read" ELSE "clock"]
  /\ UNCHANGED <<storeVars, envVars, providerVars, historyVars>>

\* claim_execution reads the clock before it asks for the write lock.
ReadClock(w) ==
  /\ At(w, "clock")
  /\ call' = [call EXCEPT ![w].pc = "claim", ![w].now = clock]
  /\ UNCHANGED <<storeVars, envVars, providerVars, historyVars>>

ClaimCall(w) ==
  /\ At(w, "claim")
  /\ \E u \in Users, v \in 1..MaxVersion, nonce \in Proposals :
       ClaimExecution(Job(w), u, v, nonce, call[w].now, call[w].seen)
  /\ IF status'[Job(w)] = "executing"
     THEN /\ GoesTo(w, "fetch")
          /\ settledBefore' = [settledBefore EXCEPT ![Job(w)] = call[w].prior]
     ELSE Returns(w) /\ UNCHANGED settledBefore
  /\ UNCHANGED <<envVars, providerVars, answer, confirmed, stranded>>

\* Any refusal or failed read before the claim: the call raises.
CallRefused(w) ==
  /\ call[w].pc \in Deciding \cup Unclaimed
  /\ Returns(w)
  /\ UNCHANGED <<storeVars, envVars, providerVars, historyVars>>

\* Mutated form: the version handed on is the one the caller presented.
FetchPresented(w) ==
  /\ At(w, "fetch")
  /\ call' = [call EXCEPT ![w].pc = "request", ![w].ver = version[Job(w)] - 1]
  /\ UNCHANGED <<storeVars, envVars, providerVars, historyVars>>

\* claim_execution returns self.get after the commit: the version it hands
\* on is read in a later transaction.
FetchClaimed(w) ==
  /\ At(w, "fetch")
  /\ call' = [call EXCEPT ![w].pc = "request", ![w].ver = version[Job(w)]]
  /\ UNCHANGED <<storeVars, envVars, providerVars, historyVars>>

-----------------------------------------------------------------------------
(* The effect *)

\* Mutated form: an error always means that nothing happened.
AfterAnyError(e) == "failed"

\* except ProviderError around each mutation: only the first may be failed.
AfterError(e) == IF e = "main" THEN "failed" ELSE "unknown"

Handle(w, result) ==
  \/ /\ result = "ok" /\ ReadsBack(Job(w))
     /\ GoesTo(w, "readback")
  \/ result = "ok" /\ ~ReadsBack(Job(w)) /\ Concludes(w, "verified")
  \/ result = "ambiguous" /\ Concludes(w, "unknown")
  \/ result = "error" /\ Concludes(w, AfterError(call[w].effect))
  \/ result = "escaped" /\ Returns(w)

StrandsIf(w, escaped) ==
  stranded' = IF escaped THEN stranded \cup {Job(w)} ELSE stranded

\* The adapter refuses the request before any byte is sent.  Beside
\* ProviderError this can be ProviderNotConnected or the ApprovalError of
\* _payload_text, which the executors do not catch.
RefusedLocally(w) ==
  /\ At(w, "request")
  /\ \E result \in {"error", "escaped"} :
       /\ result = "escaped" => OpOf[Job(w)] \in {"create", "update"}
       /\ Handle(w, result)
       /\ StrandsIf(w, result = "escaped")
  /\ UNCHANGED <<storeVars, envVars, providerVars, answer, confirmed, settledBefore>>

IssueRequest(w) ==
  LET p == Job(w)  e == call[w].effect IN
  /\ At(w, "request")
  /\ GoesTo(w, "reply")
  /\ sent' = [sent EXCEPT ![p][e] = @ + 1]
  /\ wire' = [wire EXCEPT ![p][e] = "open"]
  /\ UNCHANGED <<storeVars, envVars, rev, landedRev, historyVars>>

\* An open request is applied or lost, possibly long after the caller has
\* given up waiting for it.
Apply(p, e) ==
  /\ wire[p][e] = "open"
  /\ wire' = [wire EXCEPT ![p][e] = "applied"]
  /\ IF CardOf(p, e) = NoCard
     THEN UNCHANGED <<rev, landedRev>>
     ELSE /\ rev' = [rev EXCEPT ![CardOf(p, e)] = @ + 1]
          /\ landedRev' = [landedRev EXCEPT ![p][e] = rev[CardOf(p, e)] + 1]
  /\ UNCHANGED <<storeVars, call, envVars, sent, historyVars>>

Lose(p, e) ==
  /\ wire[p][e] = "open"
  /\ wire' = [wire EXCEPT ![p][e] = "lost"]
  /\ UNCHANGED <<storeVars, call, envVars, rev, sent, landedRev, historyVars>>

\* A provider answers with success once it has applied the request, with
\* an error once it has decided; a timeout or a reset says nothing.
Possible(reply, state) ==
  CASE reply \in AppliedReplies -> state = "applied"
    [] reply \in {"garbled", "httpError"} -> state # "open"
    [] OTHER -> TRUE

Reply(w) ==
  LET p == Job(w)  e == call[w].effect IN
  /\ At(w, "reply")
  /\ \E reply \in Replies :
       /\ Possible(reply, wire[p][e])
       /\ answer' = [answer EXCEPT ![p][e] = reply]
       /\ Handle(w, MutationResult(ProviderOf(p), reply))
       /\ StrandsIf(w, MutationResult(ProviderOf(p), reply) = "escaped")
  /\ UNCHANGED <<storeVars, envVars, providerVars, confirmed, settledBefore>>

\* get_message or get_card after an acknowledged mutation.  A record that
\* differs (edited since, or not yet visible) is a ProviderError.
NextAfterReadback(w) ==
  IF OpOf[Job(w)] = "merge" /\ call[w].effect = "main"
  THEN call' = [call EXCEPT ![w].pc = "request", ![w].effect = "archive"]
  ELSE Concludes(w, "verified")

\* Mutated form: the destination is taken to be written because the update
\* was acknowledged, whatever the readback returned.
ReadbackIgnored(w) ==
  /\ At(w, "readback")
  /\ NextAfterReadback(w)
  /\ UNCHANGED <<storeVars, envVars, providerVars, historyVars>>

Readback(w) ==
  LET p == Job(w)  e == call[w].effect IN
  /\ At(w, "readback")
  /\ \/ /\ wire[p][e] = "applied"
        /\ confirmed' = [confirmed EXCEPT ![p] = @ \cup {e}]
        /\ NextAfterReadback(w)
        /\ UNCHANGED stranded
     \/ \E reply \in Replies :
          /\ UNCHANGED confirmed
          /\ StrandsIf(w, ReadResult(reply) = "escaped")
          /\ IF ReadResult(reply) = "escaped" THEN Returns(w)
                                              ELSE Concludes(w, "unknown")
  /\ UNCHANGED <<storeVars, envVars, providerVars, answer, settledBefore>>

\* complete_execution.  A refusal (the row was recovered meanwhile) raises;
\* so does a database that stays locked, and then the row stays executing.
SettleCall(w) ==
  /\ At(w, "settle")
  /\ CompleteExecution(Job(w), call[w].outcome, call[w].ver)
  /\ Returns(w)
  /\ UNCHANGED <<envVars, providerVars, historyVars>>

SettleRefused(w) ==
  /\ At(w, "settle")
  /\ status[Job(w)] # "executing" \/ version[Job(w)] # call[w].ver
  /\ Returns(w)
  /\ UNCHANGED <<storeVars, envVars, providerVars, historyVars>>

StoreUnavailable(w) ==
  /\ call[w].pc \in {"fetch", "settle"}
  /\ Returns(w)
  /\ StrandsIf(w, TRUE)
  /\ UNCHANGED <<storeVars, envVars, providerVars, answer, confirmed, settledBefore>>

-----------------------------------------------------------------------------
(* The process *)

\* compose.yaml: restart "no", so only an operator starts the process again.
Crash ==
  /\ up /\ restarts < MaxRestarts
  /\ up' = FALSE /\ ready' = FALSE /\ restarts' = restarts + 1
  /\ call' = [w \in Workers |-> Idle]
  /\ UNCHANGED <<storeVars, edits, providerVars, historyVars>>

Boot ==
  /\ ~up
  /\ up' = TRUE
  /\ UNCHANGED <<storeVars, call, ready, restarts, edits, providerVars, historyVars>>

\* on_unload stops the old controller, waiting two seconds for its thread
\* and not at all for tool calls; register makes a controller without a
\* Runtime.
Reload ==
  /\ Serving /\ restarts < MaxRestarts
  /\ ready' = FALSE /\ restarts' = restarts + 1
  /\ UNCHANGED <<storeVars, call, up, edits, providerVars, historyVars>>

\* Mutated forms: nothing is recovered, or interrupted executions are put
\* back for another try.
BuildRuntimeForgets ==
  /\ up /\ ~ready
  /\ ready' = TRUE
  /\ UNCHANGED <<storeVars, call, up, restarts, edits, providerVars, historyVars>>
BuildRuntimeReopens ==
  /\ up /\ ~ready
  /\ ready' = TRUE
  /\ RecoverToApproved
  /\ UNCHANGED <<call, up, restarts, edits, providerVars, historyVars>>

\* Controller.runtime, at the latest one second later from _serve.
BuildRuntime ==
  /\ up /\ ~ready
  /\ ready' = TRUE
  /\ RecoverInterrupted
  /\ UNCHANGED <<call, up, restarts, edits, providerVars, historyVars>>

\* People edit cards and contacts at the provider.
Edit(c) ==
  /\ edits < MaxEdits
  /\ edits' = edits + 1
  /\ rev' = [rev EXCEPT ![c] = @ + 1]
  /\ UNCHANGED <<storeVars, call, up, ready, restarts, sent, wire, landedRev, historyVars>>

Time == Tick /\ UNCHANGED <<call, envVars, providerVars, historyVars>>

Step(w) ==
  \/ DecideCall(w) \/ ReadCard(w) \/ ReadClock(w) \/ ClaimCall(w) \/ CallRefused(w)
  \/ FetchClaimed(w) \/ RefusedLocally(w) \/ IssueRequest(w) \/ Reply(w) \/ Readback(w)
  \/ SettleCall(w) \/ SettleRefused(w) \/ StoreUnavailable(w)

Next ==
  \/ \E p \in Proposals : DraftProposal(p)
  \/ \E w \in Workers, p \in Proposals : BeginDecision(w, p) \/ BeginExecution(w, p)
  \/ \E w \in Workers : Step(w)
  \/ \E p \in Proposals, e \in Effects : Apply(p, e) \/ Lose(p, e)
  \/ \E c \in Cards : Edit(c)
  \/ Crash \/ Boot \/ Reload \/ BuildRuntime \/ Time

Spec == Init /\ [][Next]_vars

(***************************************************************************)
(* Every step of a call takes bounded time (20 s per exchange, 5 s for the *)
(* database lock) and runs on a thread of its own; _serve builds a missing *)
(* Runtime every second.  Nothing obliges an operator to boot a process    *)
(* that crashed, a person to approve, or a provider to decide.             *)
(***************************************************************************)
Fairness == /\ \A w \in Workers : WF_vars(Step(w))
            /\ WF_vars(BuildRuntime)

FairSpec == Spec /\ Fairness

-----------------------------------------------------------------------------
(* Properties *)

CallTypeOK == call \in [Workers -> Calls]

EnvTypeOK == /\ up \in BOOLEAN /\ ready \in BOOLEAN
             /\ restarts \in 0..MaxRestarts
             /\ edits \in 0..MaxEdits

ProviderTypeOK ==
  /\ rev \in [Cards -> Nat]
  /\ sent \in [Proposals -> [Effects -> Nat]]
  /\ wire \in [Proposals -> [Effects -> {"none", "open", "applied", "lost"}]]
  /\ landedRev \in [Proposals -> [Effects -> Nat]]

HistoryTypeOK ==
  /\ answer \in [Proposals -> [Effects -> Replies \cup {"none"}]]
  /\ confirmed \in [Proposals -> SUBSET Effects]
  /\ settledBefore \in [Proposals -> SUBSET Proposals]
  /\ stranded \subseteq Proposals

TypeOK == StoreTypeOK /\ CallTypeOK /\ EnvTypeOK /\ ProviderTypeOK /\ HistoryTypeOK

Holds(w, p) == call[w].p = p /\ call[w].pc \in Holding

(***************************************************************************)
(* The provider is asked for each effect of a proposal once at most, over  *)
(* racing executors, timeouts, crashes, reloads and recovery passes that   *)
(* run under a live executor ("never blindly retried", README.md:140).     *)
(***************************************************************************)
AtMostOneRequest ==
  \A p \in Proposals, e \in Effects : sent[p][e] <= 1

(***************************************************************************)
(* A proposal its reader sees as not yet executed, denied or expired has   *)
(* had no effect and no call is about to give it one.                      *)
(***************************************************************************)
UnclaimedHasNoEffect ==
  \A p \in Proposals : ~Claimed(p) =>
    /\ \A e \in Effects : sent[p][e] = 0
    /\ \A w \in Workers : ~Holds(w, p)

(***************************************************************************)
(* A verified proposal is true: the provider applied every effect of the   *)
(* operation, and where the code reads back, a readback saw each of them.  *)
(***************************************************************************)
VerifiedIsTrue ==
  \A p \in Proposals : status[p] = "verified" =>
    \A e \in EffectsOf(p) : /\ wire[p][e] = "applied"
                            /\ ReadsBack(p) => e \in confirmed[p]

(***************************************************************************)
(* An ambiguous exchange, that is one with a timeout or an incomplete      *)
(* acknowledgement, is never settled as success or as failure, neither by  *)
(* its own call nor by any other.  (A reply that is not JSON is not        *)
(* ambiguous to the code: it settles as failed.)                           *)
(***************************************************************************)
AmbiguityStaysUnknown ==
  \A p \in Proposals, e \in Effects :
    answer[p][e] \in {"timeout", "incomplete"} => status[p] \notin {"verified", "failed"}

(***************************************************************************)
(* A merge archives the duplicate only when a readback has seen the merged *)
(* destination: no interleaving of restarts, edits and lost or late        *)
(* requests archives a card whose content is nowhere else.                 *)
(***************************************************************************)
ArchiveOnlyAfterReadback ==
  \A p \in Proposals : sent[p]["archive"] > 0 =>
    "main" \in confirmed[p] /\ wire[p]["main"] = "applied"

(***************************************************************************)
(* "failed" is only said of an operation none of whose effects a readback  *)
(* has seen: an archive refused after the merged destination was confirmed *)
(* is unknown, and never invites a person to draft the merge again.        *)
(***************************************************************************)
FailedConfirmedNothing ==
  \A p \in Proposals : status[p] = "failed" => confirmed[p] = {}

(***************************************************************************)
(* While a Runtime serves, a proposal is executing only if a call in       *)
(* progress holds it or an exception the executors do not catch escaped    *)
(* from it: recovery leaves nothing of an earlier life behind.             *)
(***************************************************************************)
ExecutingIsHeld ==
  \A p \in Proposals : (Serving /\ status[p] = "executing") =>
    p \in stranded \/ \E w \in Workers : Holds(w, p)

(***************************************************************************)
(* Of two proposals on one record, the one executed after the other was    *)
(* verified was drafted after the other's effect: what its approver saw    *)
(* included that effect.  (Only where the provider versions the record.)   *)
(***************************************************************************)
VerifiedWorkWasSeen ==
  \A p \in Proposals : \A q \in settledBefore[p], e \in Effects :
    CardOf(q, e) \in CardsOf(p) \ Unversioned =>
      landedRev[q][e] <= revision[p][CardOf(q, e)]

(***************************************************************************)
(* The composition uses the store as its own specification allows, and     *)
(* implements the abstract promise about an approved effect.               *)
(***************************************************************************)
StoreHolds == StoreSpec

Promise == INSTANCE ApprovedEffect WITH
             requests <- [p \in Proposals |-> sent[p]["main"]]
PromiseHolds == Promise!Spec

(***************************************************************************)
(* An execution ends, unless an exception escaped from it or the process   *)
(* is down; and building a Runtime ends the ones that were left.           *)
(***************************************************************************)
ExecutionEnds ==
  \A p \in Proposals :
    /\ (status[p] = "executing")
         ~> (status[p] # "executing" \/ p \in stranded \/ ~up)
    /\ (status[p] = "executing" /\ up /\ ~ready) ~> (status[p] # "executing" \/ ~up)

(***************************************************************************)
(* README.md:140 says "A timeout, malformed acknowledgement, or failed     *)
(* readback is unknown."  Malformed acknowledgements are those of          *)
(* MalformedReplies.                                                       *)
(***************************************************************************)
MalformedAckIsUnknown ==
  \A p \in Proposals, e \in Effects :
    answer[p][e] \in MalformedReplies => status[p] \notin {"verified", "failed"}

=============================================================================
