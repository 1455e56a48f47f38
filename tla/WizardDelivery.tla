--------------------------- MODULE WizardDelivery ---------------------------
(***************************************************************************)
(* The fixed onboarding wizard.  Two hooks may see one inbound trigger:    *)
(* the plugin's (ingress.py, whose text goes into the Controller's bounded *)
(* outbound queue) and the full profile's guard (guard.py, which posts it  *)
(* itself).  A marker file per message decides which of them delivers.     *)
(*                                                                         *)
(* Only exact maintainer triggers are modelled; how a source is admitted   *)
(* is routing.  Notices stand for the other fixed texts in the queue.      *)
(***************************************************************************)
EXTENDS Integers, FiniteSets, Sequences

CONSTANTS
  Messages,        \* inbound triggers
  Identified,      \* those whose event exposes a message id
  Notices,         \* the other fixed texts of the outbound queue
  MaxMarkers,      \* marker files kept: 512
  QueueSize,       \* outbound queue: 100
  PerRound,        \* texts a round of _serve posts: 20
  MaxTime,         \* bound: the clock stops here
  MaxControllers   \* bound: plugin loads, by restart or by reload

VARIABLES
  clock,           \* seconds; also the resolution of a marker's mtime
  hook,            \* [Messages -> [Hooks -> Observations]]
  markers,         \* [Keys -> mtime, or Absent]
  up, current,     \* the process runs; the controller it knows
  queue,           \* [Controllers -> Seq(Messages \cup Notices)]
  left,            \* [Controllers -> posts left in this round, or Gone]
  posted,          \* [Messages -> Nat]: posts requested of Discord
  \* History, read by properties only:
  won,             \* <<message, hook, key>> that created a marker
  since,           \* [Keys -> SUBSET Keys]: once k's marker was made, k itself
                   \* and every key whose marker is no older than k's first
  lost             \* messages whose text the code dropped

procVars == <<up, current, queue, left>>
vars == <<clock, hook, markers, procVars, posted, won, since, lost>>

Hooks == {"root", "guard"}
Controllers == 1..MaxControllers
Absent == -1
Gone == -1

Keys == Identified \cup IF Identified = Messages THEN {} ELSE 0..MaxTime

\* Mutated form: the source's id, which is its channel's, is looked at first.
KeyOfChannel(m) ==
  IF m \in Identified THEN CHOOSE k \in Identified : TRUE ELSE clock

\* message_key: the message's own id, or (for one user, channel and text)
\* the second at which the hook looked.
KeyOf(m) == IF m \in Identified THEN m ELSE clock

Observations == [pc : {"idle", "claim", "list", "unlink", "deliver", "taken", "done"},
                 key : Keys \cup {Absent},
                 ctl : Controllers,
                 stale : SUBSET Keys]
Unseen == [pc |-> "idle", key |-> Absent, ctl |-> 1, stale |-> {}]

ASSUME WizardAssumption ==
  /\ Identified \subseteq Messages /\ IsFiniteSet(Messages)
  /\ Messages \cap ({Absent} \cup 0..MaxTime) = {}
  /\ Notices \cap Messages = {}
  /\ MaxMarkers \in Nat \ {0}
  /\ QueueSize \in Nat \ {0}
  /\ PerRound \in Nat \ {0}
  /\ MaxTime \in Nat
  /\ MaxControllers \in Nat \ {0}

Init ==
  /\ clock = 0
  /\ hook = [m \in Messages |-> [h \in Hooks |-> Unseen]]
  /\ markers = [k \in Keys |-> Absent]
  /\ up = TRUE /\ current = 1
  /\ queue = [g \in Controllers |-> <<>>]
  /\ left = [g \in Controllers |-> IF g = 1 THEN PerRound ELSE Gone]
  /\ posted = [m \in Messages |-> 0]
  /\ won = {}
  /\ since = [k \in Keys |-> {}]
  /\ lost = {}

At(m, h, pc) == hook[m][h].pc = pc
Becomes(m, h, pc) == hook' = [hook EXCEPT ![m][h].pc = pc]
Done == [Unseen EXCEPT !.pc = "done"]
Ends(m, h) == hook' = [hook EXCEPT ![m][h] = Done]

-----------------------------------------------------------------------------
(* A hook observes a message, or never does: Unavailable, an error, a skip *)

Observe(m, h) ==
  /\ up /\ At(m, h, "idle")
  /\ hook' = [hook EXCEPT ![m][h].pc = "claim", ![m][h].key = KeyOf(m),
                          ![m][h].ctl = IF h = "root" THEN current ELSE @]
  /\ UNCHANGED <<clock, markers, procVars, posted, won, since, lost>>

\* The marker of k is made now, whatever the directory holds.
Make(m, h, k) ==
  /\ markers' = [markers EXCEPT ![k] = clock]
  /\ won' = won \cup {<<m, h, k>>}
  /\ since' = [j \in Keys |->
       IF j = k /\ k \notin since[k] THEN {k} \cup {i \in Keys : markers[i] = clock}
       ELSE IF j \in since[j] THEN since[j] \cup {k} ELSE since[j]]

\* Mutated form: the marker is written without O_EXCL.
ClaimAnyway(m, h) ==
  /\ At(m, h, "claim")
  /\ Becomes(m, h, "list")
  /\ Make(m, h, hook[m][h].key)
  /\ UNCHANGED <<clock, procVars, posted, lost>>

\* claim_delivery: O_CREAT | O_EXCL decides.
Claim(m, h) ==
  /\ At(m, h, "claim")
  /\ markers[hook[m][h].key] = Absent
  /\ Becomes(m, h, "list")
  /\ Make(m, h, hook[m][h].key)
  /\ UNCHANGED <<clock, procVars, posted, lost>>

ClaimTaken(m, h) ==
  /\ At(m, h, "claim")
  /\ markers[hook[m][h].key] # Absent
  /\ Becomes(m, h, "taken")
  /\ UNCHANGED <<clock, markers, procVars, posted, won, since, lost>>

\* Any other OSError: no durable claim, no delivery.
ClaimFails(m, h) ==
  /\ At(m, h, "claim")
  /\ Ends(m, h)
  /\ lost' = lost \cup {m}
  /\ UNCHANGED <<clock, markers, procVars, posted, won, since>>

Present == {k \in Keys : markers[k] # Absent}

\* Mutated form: the newest markers are the ones dropped.
NewestBeyondLimit ==
  {S \in SUBSET Present :
     /\ Cardinality(S) = IF Cardinality(Present) > MaxMarkers
                         THEN Cardinality(Present) - MaxMarkers ELSE 0
     /\ \A a \in S, b \in Present \ S : markers[b] <= markers[a]}

\* All but the newest MaxMarkers; markers of one mtime sort either way.
OldestBeyondLimit ==
  {S \in SUBSET Present :
     /\ Cardinality(S) = IF Cardinality(Present) > MaxMarkers
                         THEN Cardinality(Present) - MaxMarkers ELSE 0
     /\ \A a \in S, b \in Present \ S : markers[a] <= markers[b]}

\* _trim lists the directory, ...
ListMarkers(m, h) ==
  /\ At(m, h, "list")
  /\ \E S \in OldestBeyondLimit :
       hook' = [hook EXCEPT ![m][h].pc = "unlink", ![m][h].stale = S]
  /\ UNCHANGED <<clock, markers, procVars, posted, won, since, lost>>

\* ... then unlinks by name, and gives up at the first error, for instance
\* because another hook's _trim was faster.
UnlinkStale(m, h) ==
  /\ At(m, h, "unlink")
  /\ \E S \in SUBSET hook[m][h].stale :
       /\ S = hook[m][h].stale \/ hook[m][h].stale \ Present # {}
       /\ markers' = [k \in Keys |-> IF k \in S THEN Absent ELSE markers[k]]
  /\ hook' = [hook EXCEPT ![m][h].pc = "deliver", ![m][h].stale = {}]
  /\ UNCHANGED <<clock, procVars, posted, won, since, lost>>

\* deliver_once of the plugin: put_nowait into the queue of the controller
\* whose hook this is; queue.Full is not an error for the caller.
Enqueue(m) ==
  LET g == hook[m]["root"].ctl IN
  /\ At(m, "root", "deliver")
  /\ Ends(m, "root")
  /\ IF Len(queue[g]) < QueueSize
     THEN queue' = [queue EXCEPT ![g] = Append(@, m)] /\ UNCHANGED lost
     ELSE lost' = lost \cup {m} /\ UNCHANGED queue
  /\ UNCHANGED <<clock, markers, up, current, left, posted, won, since>>

\* send_fixed_message of the guard: one POST, whatever becomes of it.
Post(m) ==
  /\ At(m, "guard", "deliver")
  /\ Ends(m, "guard")
  /\ posted' = [posted EXCEPT ![m] = @ + 1]
  /\ UNCHANGED <<clock, markers, procVars, won, since, lost>>

\* Without a bot token it posts nothing.
PostRefused(m) ==
  /\ At(m, "guard", "deliver")
  /\ Ends(m, "guard")
  /\ lost' = lost \cup {m}
  /\ UNCHANGED <<clock, markers, procVars, posted, won, since>>

HookStep(m, h) ==
  \/ Claim(m, h) \/ ClaimTaken(m, h) \/ ClaimFails(m, h)
  \/ ListMarkers(m, h) \/ UnlinkStale(m, h)

-----------------------------------------------------------------------------
(* The controller's thread *)

\* enqueue of any other fixed text; a full queue drops it.
EnqueueNotice(n) ==
  /\ up /\ Len(queue[current]) < QueueSize
  /\ queue' = [queue EXCEPT ![current] = Append(@, n)]
  /\ UNCHANGED <<clock, hook, markers, up, current, left, posted, won, since, lost>>

\* _serve, between two rounds: stop() ends the thread.
Stop(g) ==
  /\ left[g] = PerRound /\ g # current
  /\ left' = [left EXCEPT ![g] = Gone]
  /\ UNCHANGED <<clock, hook, markers, up, current, queue, posted, won, since, lost>>

Take(g) == /\ left[g] > 0
           /\ queue[g] # <<>>
           /\ queue' = [queue EXCEPT ![g] = Tail(@)]

\* Mutated form: an exception of send_message ends the thread.
DrainUntilError(g) ==
  /\ Take(g)
  /\ IF Head(queue[g]) \in Notices
     THEN UNCHANGED posted /\ left' = [left EXCEPT ![g] = Gone]
     ELSE /\ posted' = [posted EXCEPT ![Head(queue[g])] = @ + 1]
          /\ left' = [left EXCEPT ![g] = @ - 1]
  /\ UNCHANGED <<clock, hook, markers, up, current, won, since, lost>>

\* get_nowait and send_message; what the send raises is logged and forgotten.
Drain(g) ==
  /\ Take(g)
  /\ left' = [left EXCEPT ![g] = @ - 1]
  /\ IF Head(queue[g]) \in Notices
     THEN UNCHANGED posted
     ELSE posted' = [posted EXCEPT ![Head(queue[g])] = @ + 1]
  /\ UNCHANGED <<clock, hook, markers, up, current, won, since, lost>>

\* The reminders' poll and a second's wait end the round.
EndRound(g) ==
  /\ left[g] \in 0..PerRound - 1
  /\ left[g] = 0 \/ queue[g] = <<>>
  /\ left' = [left EXCEPT ![g] = PerRound]
  /\ UNCHANGED <<clock, hook, markers, up, current, queue, posted, won, since, lost>>

ServeStep(g) == Stop(g) \/ Drain(g) \/ EndRound(g)

-----------------------------------------------------------------------------
(* The process *)

InQueue(m, g) == \E i \in 1..Len(queue[g]) : queue[g][i] = m

\* on_unload and register: the old queue is served to the end of the round
\* its thread is in, and not beyond.
Reload ==
  /\ up /\ current < MaxControllers
  /\ current' = current + 1
  /\ left' = [left EXCEPT ![current + 1] = PerRound]
  /\ UNCHANGED <<clock, hook, markers, up, queue, posted, won, since, lost>>

\* The queues and the hooks in progress are gone; the markers stay.
Crash ==
  /\ up
  /\ up' = FALSE
  /\ left' = [g \in Controllers |-> Gone]
  /\ queue' = [g \in Controllers |-> <<>>]
  /\ hook' = [m \in Messages |-> [h \in Hooks |->
                IF hook[m][h].pc \in {"claim", "list", "unlink", "deliver"}
                THEN Done ELSE hook[m][h]]]
  /\ lost' = lost \cup {m \in Messages :
                 \/ \E g \in Controllers : InQueue(m, g)
                 \/ \E h \in Hooks : hook[m][h].pc \in {"claim", "list", "unlink", "deliver"}}
  /\ UNCHANGED <<clock, markers, current, posted, won, since>>

Boot ==
  /\ ~up /\ current < MaxControllers
  /\ up' = TRUE /\ current' = current + 1
  /\ left' = [left EXCEPT ![current + 1] = PerRound]
  /\ UNCHANGED <<clock, hook, markers, queue, posted, won, since, lost>>

Time ==
  /\ clock < MaxTime
  /\ clock' = clock + 1
  /\ UNCHANGED <<hook, markers, procVars, posted, won, since, lost>>

Next ==
  \/ \E m \in Messages :
       \/ \E h \in Hooks : Observe(m, h) \/ HookStep(m, h)
       \/ Enqueue(m) \/ Post(m) \/ PostRefused(m)
  \/ \E g \in Controllers : ServeStep(g)
  \/ \E n \in Notices : EnqueueNotice(n)
  \/ Reload \/ Crash \/ Boot \/ Time

Spec == Init /\ [][Next]_vars

(***************************************************************************)
(* A hook that has begun runs to its end (the guard's POST is given up     *)
(* after 20 s), and a live thread takes its next step.                     *)
(***************************************************************************)
Fairness ==
  /\ \A m \in Messages : /\ \A h \in Hooks : WF_vars(HookStep(m, h))
                         /\ WF_vars(Enqueue(m))
                         /\ WF_vars(Post(m) \/ PostRefused(m))
  /\ \A g \in Controllers : WF_vars(ServeStep(g))

FairSpec == Spec /\ Fairness

-----------------------------------------------------------------------------
(* Properties *)

TypeOK ==
  /\ clock \in 0..MaxTime
  /\ hook \in [Messages -> [Hooks -> Observations]]
  /\ markers \in [Keys -> {Absent} \cup 0..MaxTime]
  /\ up \in BOOLEAN /\ current \in Controllers
  /\ queue \in [Controllers -> Seq(Messages \cup Notices)]
  /\ \A g \in Controllers : Len(queue[g]) <= QueueSize
  /\ left \in [Controllers -> Gone..PerRound]
  /\ posted \in [Messages -> Nat]
  /\ won \subseteq Messages \X Hooks \X Keys
  /\ since \in [Keys -> SUBSET Keys]
  /\ lost \subseteq Messages

\* As many markers no older than k's first were made as the directory keeps.
CrowdedOut(k) == Cardinality(since[k] \ {k}) >= MaxMarkers

\* The keys under which m was delivered.
KeysWon(m) == {k \in Keys : \E h \in Hooks : <<m, h, k>> \in won}

(***************************************************************************)
(* The wizard is posted once at most for one inbound message, by whichever *)
(* hook, through crashes, reloads and concurrent trims; unless a directory *)
(* full of later markers has come in between, or the message carries no id *)
(* and its two hooks looked at it in different seconds.                    *)
(***************************************************************************)
DeliveredOnce ==
  \A m \in Messages : posted[m] > 1 =>
    \/ \E k \in KeysWon(m) : CrowdedOut(k)
    \/ m \notin Identified /\ Cardinality(KeysWon(m)) > 1

(***************************************************************************)
(* A trigger with an id is not swallowed: a hook that finds its marker     *)
(* taken leaves the message to the same message's other hook, never to the *)
(* marker of another message.                                              *)
(***************************************************************************)
NotSwallowed ==
  \A m \in Identified, h \in Hooks :
    At(m, h, "taken") => \E g \in Hooks \ {h} : <<m, g, m>> \in won

(***************************************************************************)
(* A marker that was won leads to the post, unless the code dropped the    *)
(* text: a full queue, no token, a stopped thread or a crash.              *)
(***************************************************************************)
Dropped(m) ==
  m \in lost \/ \E g \in Controllers : g # current /\ left[g] = Gone /\ InQueue(m, g)

WonIsPosted ==
  \A m \in Messages :
    (KeysWon(m) # {}) ~> (posted[m] > 0 \/ Dropped(m))

=============================================================================
