-------------------------- MODULE ReminderDispatch --------------------------
(***************************************************************************)
(* Private reminders: ReminderStore (reminders.py), the ReminderWorker     *)
(* loop that a Controller's thread runs (runtime.py), and Discord, which   *)
(* receives them.                                                          *)
(*                                                                         *)
(* Every plugin load makes a Controller with a thread of its own.  stop()  *)
(* sets a flag the thread looks at once per round and waits two seconds    *)
(* for it, so a thread in the middle of a batch goes on dispatching beside *)
(* its successor, whose Runtime has meanwhile declared the batch unknown.  *)
(***************************************************************************)
EXTENDS Integers, FiniteSets, ProviderCalls

CONSTANTS
  Reminders,
  Limit,           \* reminders one poll claims: 20 in the code
  Absent,          \* the due time and the batch entry of no reminder
  MaxTime,         \* bound: the clock stops here
  MaxControllers   \* bound: plugin loads, by restart or by reload

VARIABLES
  clock,
  status, due,     \* rows of the reminders table
  up,              \* the process runs
  current,         \* the controller the plugin manager knows
  ready,           \* controllers that have built their Runtime
  loop,            \* [Controllers -> Loops]: what each thread is doing
  sent, wire,      \* messages requested of Discord, and their fate
  \* History, read by properties only:
  answer,          \* reply to the last request for each reminder
  abandoned        \* reminders of batches an exception cut short

storeVars == <<status, due>>
procVars == <<up, current, ready>>
discordVars == <<sent, wire>>
vars == <<clock, storeVars, procVars, loop, discordVars, answer, abandoned>>

Controllers == 1..MaxControllers
Statuses == {"none", "scheduled", "dispatching", "delivered", "cancelled",
             "failed", "unknown"}
Outcomes == {"delivered", "failed", "unknown"}

\* The row's attempt_nonce is drawn once, by the only claim a reminder can
\* have; a thread that names it names this life of the row, so finish needs
\* no more than the status here.
Dispatching(r) == status[r] = "dispatching"

Loops == [pc : {"wait", "clock", "claim", "fetch", "send", "reply", "finish", "gone"},
          now : Nat,
          batch : SUBSET Reminders,
          r : Reminders \cup {Absent},
          outcome : Outcomes]
Waiting == [pc |-> "wait", now |-> 0, batch |-> {}, r |-> Absent, outcome |-> "unknown"]
Gone == [Waiting EXCEPT !.pc = "gone"]

ASSUME DispatchAssumption ==
  /\ Limit \in Nat \ {0}
  /\ MaxTime \in Nat
  /\ MaxControllers \in Nat \ {0}
  /\ Absent \notin Reminders
  /\ Absent \notin Int

Init ==
  /\ clock = 0
  /\ status = [r \in Reminders |-> "none"]
  /\ due = [r \in Reminders |-> Absent]
  /\ up = TRUE /\ current = 1 /\ ready = {}
  /\ loop = [g \in Controllers |-> IF g = 1 THEN Waiting ELSE Gone]
  /\ sent = [r \in Reminders |-> 0]
  /\ wire = [r \in Reminders |-> "none"]
  /\ answer = [r \in Reminders |-> "none"]
  /\ abandoned = {}

At(g, pc) == loop[g].pc = pc
Moves(g, l) == loop' = [loop EXCEPT ![g] = l]
Quiet == UNCHANGED <<answer, abandoned>>

-----------------------------------------------------------------------------
(* Tool calls, once some controller of this process has its Runtime *)

Serving == up /\ ready # {}

\* create: the clock is read before the INSERT, the due time is after it.
Create(r, d) ==
  /\ Serving /\ status[r] = "none"
  /\ \E now \in 0..clock : d > now
  /\ status' = [status EXCEPT ![r] = "scheduled"]
  /\ due' = [due EXCEPT ![r] = d]
  /\ UNCHANGED <<clock, procVars, loop, discordVars>> /\ Quiet

\* cancel, by the owner's exact tuple.
Cancel(r) ==
  /\ Serving /\ status[r] = "scheduled"
  /\ status' = [status EXCEPT ![r] = "cancelled"]
  /\ UNCHANGED <<clock, due, procVars, loop, discordVars>> /\ Quiet

-----------------------------------------------------------------------------
(* The thread of one controller *)

\* _serve wakes every second, and ends if stop() was called meanwhile.
Wake(g) ==
  /\ At(g, "wait")
  /\ IF g = current THEN Moves(g, [Waiting EXCEPT !.pc = "clock"]) ELSE Moves(g, Gone)
  /\ UNCHANGED <<clock, storeVars, procVars, discordVars>> /\ Quiet

\* Mutated forms: a restart offers interrupted dispatches for another try, or
\* does nothing about them.
ReturnToSchedule ==
  status' = [r \in Reminders |-> IF Dispatching(r) THEN "scheduled" ELSE status[r]]

LeaveAsTheyWere == UNCHANGED status

\* initialize: whatever was being dispatched is unknown.
DeclareUnknown ==
  status' = [r \in Reminders |-> IF Dispatching(r) THEN "unknown" ELSE status[r]]

\* Controller.runtime, called by the thread's round or by any tool call.
BuildRuntime(g) ==
  /\ up /\ g \notin ready
  /\ g = current \/ At(g, "clock")
  /\ ready' = ready \cup {g}
  /\ DeclareUnknown
  /\ UNCHANGED <<clock, due, up, current, loop, discordVars>> /\ Quiet

\* claim_due reads the clock before it asks for the write lock.
ReadClock(g) ==
  /\ At(g, "clock") /\ g \in ready
  /\ Moves(g, [Waiting EXCEPT !.pc = "claim", !.now = clock])
  /\ UNCHANGED <<clock, storeVars, procVars, discordVars>> /\ Quiet

DueRows(now) == {r \in Reminders : status[r] = "scheduled" /\ due[r] <= now}

\* ORDER BY due_at, reminder_id LIMIT: ids are random, so among reminders
\* due together any may come first.
FirstRows(now) ==
  {B \in SUBSET DueRows(now) :
     /\ Cardinality(B) = IF Cardinality(DueRows(now)) < Limit
                         THEN Cardinality(DueRows(now)) ELSE Limit
     /\ \A r \in B, q \in DueRows(now) \ B : due[r] <= due[q]}

ClaimDue(g) ==
  /\ At(g, "claim")
  /\ \E B \in FirstRows(loop[g].now) :
       /\ status' = [r \in Reminders |-> IF r \in B THEN "dispatching" ELSE status[r]]
       /\ IF B = {} THEN Moves(g, Waiting)
                    ELSE Moves(g, [Waiting EXCEPT !.pc = "fetch", !.batch = B])
  /\ UNCHANGED <<clock, due, procVars, discordVars>> /\ Quiet

\* claim_due reads the claimed rows back, in transactions of their own.
FetchBatch(g) ==
  /\ At(g, "fetch")
  /\ loop' = [loop EXCEPT ![g].pc = "send"]
  /\ UNCHANGED <<clock, storeVars, procVars, discordVars>> /\ Quiet

\* The batch is worked off in the order of the SELECT.
IsNext(g, r) == \A q \in loop[g].batch : due[r] <= due[q]

Send(g) ==
  /\ At(g, "send")
  /\ \E r \in loop[g].batch :
       /\ IsNext(g, r)
       /\ loop' = [loop EXCEPT ![g].pc = "reply", ![g].r = r]
       /\ sent' = [sent EXCEPT ![r] = @ + 1]
       /\ wire' = [wire EXCEPT ![r] = "open"]
  /\ UNCHANGED <<clock, storeVars, procVars>> /\ Quiet

\* The adapter refuses a channel that is no longer configured.
SendRefused(g) ==
  /\ At(g, "send")
  /\ \E r \in loop[g].batch :
       /\ IsNext(g, r)
       /\ loop' = [loop EXCEPT ![g].pc = "finish", ![g].r = r, ![g].outcome = "failed"]
  /\ UNCHANGED <<clock, storeVars, procVars, discordVars>> /\ Quiet

\* Discord acknowledges what it has applied, and the client may give up.
Possible(reply, state) ==
  CASE reply \in AppliedReplies -> state = "applied"
    [] reply \in {"garbled", "httpError"} -> state # "open"
    [] OTHER -> TRUE

\* Mutated form: the exception ends the thread.
AbortsThread(g) == /\ Moves(g, Gone)
                   /\ abandoned' = abandoned \cup loop[g].batch

\* An exception run_once does not catch drops the rest of the batch.
Aborts(g) ==
  /\ Moves(g, Waiting)
  /\ abandoned' = abandoned \cup loop[g].batch

\* Mutated form: the acknowledgement is not examined.
OptimisticOutcome(result) == IF result = "error" THEN "failed" ELSE "delivered"

OutcomeOf(result) ==
  CASE result = "ok" -> "delivered"
    [] result = "ambiguous" -> "unknown"
    [] result = "error" -> "failed"

Reply(g) ==
  LET r == loop[g].r IN
  /\ At(g, "reply")
  /\ \E reply \in Replies :
       LET result == MutationResult("discord", reply) IN
       /\ Possible(reply, wire[r])
       /\ answer' = [answer EXCEPT ![r] = reply]
       /\ IF result = "escaped" THEN Aborts(g)
          ELSE /\ loop' = [loop EXCEPT ![g].pc = "finish", ![g].outcome = OutcomeOf(result)]
               /\ UNCHANGED abandoned
  /\ UNCHANGED <<clock, storeVars, procVars, discordVars>>

\* Mutated form: finish names the id only.
FinishBlind(g) ==
  LET rest == loop[g].batch \ {loop[g].r} IN
  /\ At(g, "finish")
  /\ status' = [status EXCEPT ![loop[g].r] = loop[g].outcome]
  /\ IF rest = {} THEN Moves(g, Waiting)
                  ELSE Moves(g, [Waiting EXCEPT !.pc = "send", !.batch = rest])
  /\ UNCHANGED <<clock, due, procVars, discordVars>> /\ Quiet

\* finish: compare-and-set on the status and the attempt.
Finish(g) ==
  LET rest == loop[g].batch \ {loop[g].r} IN
  /\ At(g, "finish")
  /\ Dispatching(loop[g].r)
  /\ status' = [status EXCEPT ![loop[g].r] = loop[g].outcome]
  /\ IF rest = {} THEN Moves(g, Waiting)
                  ELSE Moves(g, [Waiting EXCEPT !.pc = "send", !.batch = rest])
  /\ UNCHANGED <<clock, due, procVars, discordVars>> /\ Quiet

\* The row was recovered under this thread, or the database stays locked:
\* ReminderError or OperationalError ends the round.
RoundFails(g) ==
  /\ \/ At(g, "finish") /\ ~Dispatching(loop[g].r)
     \/ loop[g].pc \in {"claim", "fetch", "finish"}
  /\ Aborts(g)
  /\ UNCHANGED <<clock, storeVars, procVars, discordVars, answer>>

Step(g) == \/ Wake(g) \/ BuildRuntime(g) \/ ReadClock(g) \/ ClaimDue(g) \/ FetchBatch(g)
           \/ Send(g) \/ SendRefused(g) \/ Reply(g) \/ Finish(g) \/ RoundFails(g)

-----------------------------------------------------------------------------
(* Discord, the process, and time *)

Apply(r) == /\ wire[r] = "open"
            /\ wire' = [wire EXCEPT ![r] = "applied"]
            /\ UNCHANGED <<clock, storeVars, procVars, loop, sent>> /\ Quiet
Lose(r) == /\ wire[r] = "open"
           /\ wire' = [wire EXCEPT ![r] = "lost"]
           /\ UNCHANGED <<clock, storeVars, procVars, loop, sent>> /\ Quiet

\* on_unload, then register: the old thread learns of it when it next waits.
Reload ==
  /\ up /\ current < MaxControllers
  /\ current' = current + 1
  /\ Moves(current + 1, Waiting)
  /\ UNCHANGED <<clock, storeVars, up, ready, discordVars>> /\ Quiet

Crash ==
  /\ up
  /\ up' = FALSE /\ ready' = {}
  /\ loop' = [g \in Controllers |-> Gone]
  /\ UNCHANGED <<clock, storeVars, current, discordVars>> /\ Quiet

Boot ==
  /\ ~up /\ current < MaxControllers
  /\ up' = TRUE /\ current' = current + 1
  /\ Moves(current + 1, Waiting)
  /\ UNCHANGED <<clock, storeVars, ready, discordVars>> /\ Quiet

Time == /\ clock < MaxTime
        /\ clock' = clock + 1
        /\ UNCHANGED <<storeVars, procVars, loop, discordVars>> /\ Quiet

Next ==
  \/ \E r \in Reminders : (\E d \in 1..MaxTime : Create(r, d)) \/ Cancel(r) \/ Apply(r) \/ Lose(r)
  \/ \E g \in Controllers : Step(g)
  \/ Reload \/ Crash \/ Boot \/ Time

Spec == Init /\ [][Next]_vars

(***************************************************************************)
(* A running thread takes its next step: every exchange ends within 20 s   *)
(* and every wait for the database within 5 s.  A store that stays locked  *)
(* on every round is not assumed away by weak fairness of Step alone, so   *)
(* claims are strongly fair: the lock is held for one transaction at most. *)
(***************************************************************************)
Fairness == \A g \in Controllers : WF_vars(Step(g)) /\ SF_vars(ClaimDue(g))

FairSpec == Spec /\ Fairness

-----------------------------------------------------------------------------
(* Properties *)

TypeOK ==
  /\ clock \in Nat
  /\ status \in [Reminders -> Statuses]
  /\ due \in [Reminders -> Nat \cup {Absent}]
  /\ up \in BOOLEAN /\ current \in Controllers /\ ready \subseteq Controllers
  /\ loop \in [Controllers -> Loops]
  /\ sent \in [Reminders -> Nat]
  /\ wire \in [Reminders -> {"none", "open", "applied", "lost"}]
  /\ answer \in [Reminders -> Replies \cup {"none"}]
  /\ abandoned \subseteq Reminders

InHand(g, r) == r \in loop[g].batch

(***************************************************************************)
(* "Atomic claims and no ambiguous retry" (README.md:47): no reminder is   *)
(* posted twice, even while the thread of an unloaded controller and its   *)
(* successor poll the same table and a restart recovers what they hold.    *)
(***************************************************************************)
SentOnce == \A r \in Reminders : sent[r] <= 1

(***************************************************************************)
(* A reminder its owner sees as scheduled or cancelled has not been posted *)
(* and is in no thread's batch: a cancel that succeeded is never followed  *)
(* by the message.                                                         *)
(***************************************************************************)
CancelledIsNotSent ==
  \A r \in Reminders : status[r] \in {"none", "scheduled", "cancelled"} =>
    sent[r] = 0 /\ \A g \in Controllers : ~InHand(g, r)

(***************************************************************************)
(* No reminder is posted before it is due, whichever thread's reading of   *)
(* the clock selected it.                                                  *)
(***************************************************************************)
NeverEarly == \A r \in Reminders : sent[r] > 0 => due[r] <= clock

(***************************************************************************)
(* "delivered" means that Discord applied the post, and an ambiguous       *)
(* exchange (a timeout, an incomplete acknowledgement) is never settled    *)
(* either way.  (A reply that is no JSON object is not ambiguous to the    *)
(* code: it settles as failed.)                                            *)
(***************************************************************************)
OutcomeIsTrue ==
  \A r \in Reminders :
    /\ status[r] = "delivered" => wire[r] = "applied"
    /\ answer[r] \in {"timeout", "incomplete"} => status[r] \notin {"delivered", "failed"}

(***************************************************************************)
(* The store and its threads implement the abstract promise.               *)
(***************************************************************************)
Promise == INSTANCE PromisedReminder WITH sends <- sent
PromiseHolds == Promise!Spec

(***************************************************************************)
(* While the process runs, a reminder that is due is taken up, whatever    *)
(* else is due and however many rounds fail before.                        *)
(***************************************************************************)
DueIsTaken ==
  \A r \in Reminders :
    (status[r] = "scheduled" /\ due[r] <= clock) ~> (status[r] # "scheduled" \/ ~up)

(***************************************************************************)
(* A dispatch ends, unless the process stops or the batch was cut short.   *)
(***************************************************************************)
DispatchEnds ==
  \A r \in Reminders : Dispatching(r) ~> (~Dispatching(r) \/ r \in abandoned \/ ~up)

=============================================================================
