----------------------- MODULE ReminderDispatch_proofs -----------------------
(***************************************************************************)
(* Theorems about reminders, for any number of reminders, any batch limit  *)
(* and any sequence of reloads and restarts.                               *)
(*                                                                         *)
(* IInv says what a thread's place in its round means for the rows of its  *)
(* batch (LoopOK), that no two threads have a row in hand (Disjoint), and  *)
(* what a row's status says of the messages sent for it (RowOK).           *)
(***************************************************************************)
EXTENDS ReminderDispatch, TLAPS

Taken == {"dispatching", "delivered", "failed", "unknown"}

LoopOK(g) ==
  LET l == loop[g] IN
  /\ l.now <= clock
  /\ l.pc \in {"wait", "clock", "claim", "gone"} => l.batch = {}
  /\ \A q \in l.batch : status[q] \in {"dispatching", "unknown"}
  /\ l.pc \in {"fetch", "send"} => \A q \in l.batch : sent[q] = 0
  /\ l.pc \in {"reply", "finish"} => /\ l.r \in l.batch
                                     /\ \A q \in l.batch \ {l.r} : sent[q] = 0
  /\ l.pc = "reply" => sent[l.r] = 1 /\ answer[l.r] = "none"
  /\ l.pc = "finish" /\ l.outcome = "delivered" => wire[l.r] = "applied"
  /\ l.pc = "finish" /\ answer[l.r] \in {"timeout", "incomplete"} => l.outcome = "unknown"

Disjoint ==
  \A g, h \in Controllers : (loop[g].batch \cap loop[h].batch # {}) => g = h

RowOK(r) ==
  /\ status[r] # "none" => due[r] \in Nat
  /\ status[r] \in Taken => due[r] <= clock
  /\ sent[r] \in {0, 1}
  /\ sent[r] = 0 => wire[r] = "none" /\ answer[r] = "none"
  /\ sent[r] = 1 => status[r] \in Taken
  /\ status[r] = "delivered" => wire[r] = "applied"
  /\ answer[r] \in {"timeout", "incomplete"} => status[r] \notin {"delivered", "failed"}

IInv == /\ TypeOK
        /\ \A g \in Controllers : LoopOK(g)
        /\ Disjoint
        /\ \A r \in Reminders : RowOK(r)

-----------------------------------------------------------------------------
(* Records and types *)

LEMMA WaitingTyped == Waiting \in Loops /\ Gone \in Loops
  BY DEF Waiting, Gone, Loops, Outcomes

LEMMA InitIInv == Init => IInv
<1> SUFFICES ASSUME Init PROVE IInv
  OBVIOUS
<1>1. loop \in [Controllers -> Loops] /\ current \in Controllers
  BY WaitingTyped, DispatchAssumption DEF Init, Controllers
<1>2. TypeOK
  BY <1>1 DEF Init, TypeOK, Statuses
<1>3. ASSUME NEW g \in Controllers PROVE loop[g] \in {Waiting, Gone}
  BY DEF Init
<1>4. ASSUME NEW g \in Controllers PROVE LoopOK(g)
  BY <1>3 DEF Init, LoopOK, Waiting, Gone
<1>5. Disjoint
  BY <1>3 DEF Disjoint, Waiting, Gone
<1>6. ASSUME NEW r \in Reminders PROVE RowOK(r)
  BY DEF Init, RowOK, Taken
<1> QED BY <1>2, <1>4, <1>5, <1>6 DEF IInv

-----------------------------------------------------------------------------
(* Steps that have nothing to do with the batches *)

\* A step that leaves every batch, every message and the clock alone.
StatusFollows ==
  \A r \in Reminders :
    /\ status[r] \in {"dispatching", "unknown"} => status'[r] \in {"dispatching", "unknown"}
    /\ status'[r] = status[r] \/ (status[r] \notin Taken /\ sent[r] = 0 /\ status'[r] \notin Taken
                                  /\ (status'[r] # "none" => due'[r] \in Nat))
       \/ (status[r] = "dispatching" /\ status'[r] = "unknown")

LEMMA RowsKept ==
  ASSUME IInv, StatusFollows, UNCHANGED <<clock, sent, wire, answer>>,
         \A r \in Reminders : status[r] # "none" => due'[r] = due[r]
  PROVE  \A r \in Reminders : RowOK(r)'
  BY DEF IInv, RowOK, StatusFollows, Taken

LEMMA LoopsKept ==
  ASSUME IInv, StatusFollows, UNCHANGED <<clock, sent, wire, answer>>,
         NEW g \in Controllers, loop'[g] = loop[g]
  PROVE  LoopOK(g)'
<1>1. LoopOK(g) /\ loop[g] \in Loops
  BY DEF IInv, TypeOK
<1> QED BY <1>1 DEF LoopOK, StatusFollows, Loops

\* A thread that empties its hands.
LEMMA HandsEmptied ==
  ASSUME IInv, NEW g \in Controllers, NEW l \in Loops, Moves(g, l),
         l.batch = {}, l.now \in Nat, l.now <= clock, l.pc \in {"wait", "clock", "claim", "gone"},
         StatusFollows, UNCHANGED <<clock, due, sent, wire, answer>>
  PROVE  /\ loop' \in [Controllers -> Loops]
         /\ \A h \in Controllers : LoopOK(h)'
         /\ Disjoint'
         /\ \A r \in Reminders : RowOK(r)'
<1>1. loop' \in [Controllers -> Loops] /\ loop'[g] = l
      /\ \A h \in Controllers : h # g => loop'[h] = loop[h]
  BY DEF Moves, IInv, TypeOK
<1>2. LoopOK(g)'
  BY <1>1 DEF LoopOK
<1>3. \A h \in Controllers : LoopOK(h)'
  BY <1>1, <1>2, LoopsKept
<1>4. Disjoint'
  BY <1>1 DEF IInv, Disjoint
<1> QED BY <1>1, <1>3, <1>4, RowsKept

LEMMA SameStatusFollows == ASSUME UNCHANGED status PROVE StatusFollows
  BY DEF StatusFollows

-----------------------------------------------------------------------------
(* The steps, one lemma for each kind *)

LEMMA CreateKeeps ==
  ASSUME IInv, NEW r \in Reminders, NEW d \in 1..MaxTime, Create(r, d)
  PROVE  IInv'
<1>1. TypeOK'
  BY DispatchAssumption DEF Create, Quiet, storeVars, procVars, discordVars, IInv, TypeOK, Statuses
<1>2. d \in Nat /\ status[r] = "none" /\ sent[r] = 0 /\ r \in Reminders
  BY DispatchAssumption DEF Create, IInv, RowOK, Taken
<1>3. /\ \A q \in Reminders : status'[q] = IF q = r THEN "scheduled" ELSE status[q]
      /\ \A q \in Reminders : due'[q] = IF q = r THEN d ELSE due[q]
      /\ UNCHANGED <<clock, loop, sent, wire, answer>>
  BY DEF Create, Quiet, discordVars, IInv, TypeOK
<1>4. StatusFollows
  BY <1>2, <1>3 DEF StatusFollows, Taken
<1>5. \A q \in Reminders : RowOK(q)'
  BY <1>2, <1>3, <1>4, RowsKept
<1>6. \A g \in Controllers : LoopOK(g)'
  BY <1>3, <1>4, LoopsKept
<1>7. Disjoint'
  BY <1>3 DEF IInv, Disjoint
<1> QED BY <1>1, <1>5, <1>6, <1>7 DEF IInv

LEMMA CancelKeeps ==
  ASSUME IInv, NEW r \in Reminders, Cancel(r)
  PROVE  IInv'
<1>1. TypeOK'
  BY DEF Cancel, Quiet, procVars, discordVars, IInv, TypeOK, Statuses
<1>2. /\ \A q \in Reminders : status'[q] = IF q = r THEN "cancelled" ELSE status[q]
      /\ UNCHANGED <<clock, due, loop, sent, wire, answer>>
  BY DEF Cancel, Quiet, discordVars, IInv, TypeOK
<1>3. StatusFollows
  BY <1>2 DEF Cancel, StatusFollows, Taken, IInv, RowOK
<1>4. \A q \in Reminders : RowOK(q)'
  BY <1>2, <1>3, RowsKept
<1>5. \A g \in Controllers : LoopOK(g)'
  BY <1>2, <1>3, LoopsKept
<1>6. Disjoint'
  BY <1>2 DEF IInv, Disjoint
<1> QED BY <1>1, <1>4, <1>5, <1>6 DEF IInv

LEMMA BuildKeeps ==
  ASSUME IInv, NEW g \in Controllers, BuildRuntime(g)
  PROVE  IInv'
<1>1. TypeOK'
  BY DEF BuildRuntime, DeclareUnknown, Quiet, discordVars, IInv, TypeOK, Statuses, Dispatching
<1>2. UNCHANGED <<clock, due, loop, sent, wire, answer>>
  BY DEF BuildRuntime, Quiet, discordVars
<1>3. StatusFollows
  BY DEF BuildRuntime, DeclareUnknown, Dispatching, StatusFollows, Taken
<1>4. \A q \in Reminders : RowOK(q)'
  BY <1>2, <1>3, RowsKept
<1>5. \A h \in Controllers : LoopOK(h)'
  BY <1>2, <1>3, LoopsKept
<1>6. Disjoint'
  BY <1>2 DEF IInv, Disjoint
<1> QED BY <1>1, <1>4, <1>5, <1>6 DEF IInv

\* Wake, ReadClock, RoundFails, Reload, Boot: the thread's hands are empty.
LEMMA EmptyHandedKeeps ==
  ASSUME IInv, NEW g \in Controllers,
         Wake(g) \/ ReadClock(g) \/ RoundFails(g)
  PROVE  IInv'
<1>1. PICK l \in {Gone, Waiting, [Waiting EXCEPT !.pc = "clock"],
                  [Waiting EXCEPT !.pc = "claim", !.now = clock]} : Moves(g, l)
  BY DEF Wake, ReadClock, RoundFails, Aborts
<1>2. clock \in Nat
  BY DEF IInv, TypeOK
<1>3. /\ l \in Loops /\ l.batch = {} /\ l.now \in Nat /\ l.now <= clock
      /\ l.pc \in {"wait", "clock", "claim", "gone"}
  <2>1. CASE l \in {Gone, Waiting}
    BY <1>2, <2>1, WaitingTyped DEF Waiting, Gone
  <2>2. CASE l = [Waiting EXCEPT !.pc = "clock"]
    <3>1. l = [pc |-> "clock", now |-> 0, batch |-> {}, r |-> Absent, outcome |-> "unknown"]
      BY <2>2 DEF Waiting
    <3> QED BY <1>2, <3>1 DEF Loops, Outcomes
  <2>3. CASE l = [Waiting EXCEPT !.pc = "claim", !.now = clock]
    <3>1. l = [pc |-> "claim", now |-> clock, batch |-> {}, r |-> Absent, outcome |-> "unknown"]
      BY <2>3 DEF Waiting
    <3> QED BY <1>2, <3>1 DEF Loops, Outcomes
  <2> QED BY <1>1, <2>1, <2>2, <2>3
<1>4. UNCHANGED <<clock, storeVars, procVars, discordVars, answer>>
  BY DEF Wake, ReadClock, RoundFails, Aborts, Quiet
<1>5. abandoned' \subseteq Reminders
  <2>1. loop[g].batch \subseteq Reminders /\ abandoned \subseteq Reminders
    BY DEF IInv, TypeOK, Loops
  <2> QED BY <2>1 DEF Wake, ReadClock, RoundFails, Aborts, Quiet
<1>6. StatusFollows
  BY <1>4, SameStatusFollows DEF storeVars
<1>7. UNCHANGED <<clock, due, sent, wire, answer>>
  BY <1>4 DEF storeVars, discordVars
<1>8. /\ loop' \in [Controllers -> Loops]
      /\ \A h \in Controllers : LoopOK(h)'
      /\ Disjoint'
      /\ \A r \in Reminders : RowOK(r)'
  BY <1>1, <1>3, <1>6, <1>7, HandsEmptied
<1>9. TypeOK'
  BY <1>4, <1>5, <1>8 DEF IInv, TypeOK, storeVars, procVars, discordVars
<1> QED BY <1>8, <1>9 DEF IInv

LEMMA NewThreadKeeps ==
  ASSUME IInv, Reload \/ Boot
  PROVE  IInv'
<1>1. current + 1 \in Controllers /\ clock \in Nat
  BY DispatchAssumption DEF Reload, Boot, IInv, TypeOK, Controllers
<1>2. /\ Moves(current + 1, Waiting) /\ current' = current + 1 /\ up' = TRUE /\ ready' = ready
      /\ UNCHANGED <<clock, storeVars, discordVars, answer, abandoned>>
  BY DEF Reload, Boot, Quiet, IInv, TypeOK
<1>3. StatusFollows /\ UNCHANGED <<clock, due, sent, wire, answer>>
  BY <1>2, SameStatusFollows DEF storeVars, discordVars
<1>4. Waiting.batch = {} /\ Waiting.now = 0 /\ Waiting.pc = "wait"
  BY DEF Waiting
<1>5. /\ loop' \in [Controllers -> Loops]
      /\ \A h \in Controllers : LoopOK(h)'
      /\ Disjoint'
      /\ \A r \in Reminders : RowOK(r)'
  BY <1>1, <1>2, <1>3, <1>4, WaitingTyped, HandsEmptied
<1>6. TypeOK'
  BY <1>1, <1>2, <1>5 DEF IInv, TypeOK, storeVars, discordVars
<1> QED BY <1>5, <1>6 DEF IInv

LEMMA CrashKeeps ==
  ASSUME IInv, Crash
  PROVE  IInv'
<1>1. \A g \in Controllers : loop'[g] = Gone
  BY DEF Crash
<1>2. TypeOK'
  BY WaitingTyped DEF Crash, Quiet, storeVars, discordVars, IInv, TypeOK
<1>3. UNCHANGED <<clock, status, due, sent, wire, answer>>
  BY DEF Crash, Quiet, storeVars, discordVars
<1>4. ASSUME NEW g \in Controllers PROVE LoopOK(g)'
  BY <1>1, <1>3 DEF LoopOK, Gone, Waiting, IInv, TypeOK
<1>5. Disjoint'
  BY <1>1 DEF Disjoint, Gone, Waiting
<1>6. \A r \in Reminders : RowOK(r)'
  BY <1>3, SameStatusFollows, RowsKept
<1> QED BY <1>2, <1>4, <1>5, <1>6 DEF IInv

LEMMA TimeKeeps ==
  ASSUME IInv, Time
  PROVE  IInv'
<1>1. TypeOK'
  BY DEF Time, Quiet, storeVars, procVars, discordVars, IInv, TypeOK
<1>2. /\ clock' = clock + 1 /\ clock \in Nat
      /\ UNCHANGED <<status, due, loop, sent, wire, answer>>
  BY DEF Time, Quiet, storeVars, discordVars, IInv, TypeOK
<1>3. ASSUME NEW g \in Controllers PROVE LoopOK(g)'
  <2>1. LoopOK(g) /\ loop[g].now \in Nat
    BY DEF IInv, TypeOK, Loops
  <2> QED BY <1>2, <2>1 DEF LoopOK
<1>4. Disjoint'
  BY <1>2 DEF IInv, Disjoint
<1>5. ASSUME NEW r \in Reminders PROVE RowOK(r)'
  <2>1. RowOK(r)
    BY DEF IInv
  <2> QED BY <1>2, <2>1 DEF RowOK, Taken
<1> QED BY <1>1, <1>3, <1>4, <1>5 DEF IInv

LEMMA WireKeeps ==
  ASSUME IInv, NEW r \in Reminders, Apply(r) \/ Lose(r)
  PROVE  IInv'
<1>1. TypeOK'
  BY DEF Apply, Lose, Quiet, storeVars, procVars, IInv, TypeOK
<1>2. /\ UNCHANGED <<clock, status, due, loop, sent, answer>>
      /\ \A q \in Reminders : /\ wire[q] = "applied" => wire'[q] = "applied"
                              /\ wire[q] = "none" => wire'[q] = "none"
  BY DEF Apply, Lose, Quiet, storeVars, IInv, TypeOK
<1>3. ASSUME NEW g \in Controllers PROVE LoopOK(g)'
  <2>1. LoopOK(g) /\ loop[g] \in Loops
    BY DEF IInv, TypeOK
  <2>2. loop[g].r \in loop[g].batch => loop[g].r \in Reminders
    BY <2>1 DEF Loops
  <2> QED BY <1>2, <2>1, <2>2 DEF LoopOK
<1>4. Disjoint'
  BY <1>2 DEF IInv, Disjoint
<1>5. ASSUME NEW q \in Reminders PROVE RowOK(q)'
  BY <1>2 DEF IInv, RowOK, Taken
<1> QED BY <1>1, <1>3, <1>4, <1>5 DEF IInv

\* A thread with a batch in hand takes or keeps a part of it.
LEMMA BatchHeld ==
  ASSUME IInv, NEW B \in SUBSET Reminders, NEW pc \in {"fetch", "send"}
  PROVE  LET l == [Waiting EXCEPT !.pc = pc, !.batch = B] IN
         l \in Loops /\ l.pc = pc /\ l.batch = B /\ l.now = 0
<1> DEFINE l == [Waiting EXCEPT !.pc = pc, !.batch = B]
<1>1. Waiting \in Loops /\ Waiting.now = 0
  BY WaitingTyped DEF Waiting
<1>2. l \in Loops /\ l.pc = pc /\ l.batch = B /\ l.now = 0
  BY <1>1 DEF Loops
<1> QED BY <1>2

\* A row nobody has in hand is the only kind claim_due selects.
LEMMA DueIsFree ==
  ASSUME IInv, NEW now \in Nat, NEW B \in FirstRows(now), NEW r \in B
  PROVE  /\ r \in Reminders /\ status[r] = "scheduled" /\ due[r] <= now
         /\ sent[r] = 0
         /\ \A g \in Controllers : r \notin loop[g].batch
<1>1. r \in Reminders /\ status[r] = "scheduled" /\ due[r] <= now
  BY DEF FirstRows, DueRows
<1> QED BY <1>1 DEF IInv, RowOK, LoopOK, Taken

LEMMA ClaimDueKeeps ==
  ASSUME IInv, NEW g \in Controllers, ClaimDue(g)
  PROVE  IInv'
<1> DEFINE now == loop[g].now
<1>1. now \in Nat /\ now <= clock /\ clock \in Nat /\ loop[g].batch = {}
  BY DEF ClaimDue, At, IInv, TypeOK, Loops, LoopOK
<1>2. PICK B \in FirstRows(now) :
        /\ status' = [r \in Reminders |-> IF r \in B THEN "dispatching" ELSE status[r]]
        /\ IF B = {} THEN Moves(g, Waiting)
                     ELSE Moves(g, [Waiting EXCEPT !.pc = "fetch", !.batch = B])
  BY DEF ClaimDue
<1>3. /\ B \subseteq Reminders
      /\ \A r \in B : /\ status[r] = "scheduled" /\ due[r] <= now /\ sent[r] = 0
                      /\ \A h \in Controllers : r \notin loop[h].batch
  BY <1>1, DueIsFree DEF FirstRows, DueRows
<1>4. UNCHANGED <<clock, due, up, current, ready, sent, wire, answer, abandoned>>
  BY DEF ClaimDue, Quiet, procVars, discordVars
<1>5. PICK l \in Loops : /\ loop' = [loop EXCEPT ![g] = l]
                         /\ l.batch = B /\ l.now = 0
                         /\ l.pc \in {"wait", "fetch"} /\ (l.pc = "wait" => B = {})
  <2>1. CASE B = {}
    BY <1>2, <2>1, WaitingTyped DEF Moves, Waiting
  <2>2. CASE B # {}
    BY <1>2, <1>3, <2>2, BatchHeld DEF Moves
  <2> QED BY <2>1, <2>2
<1>6. /\ loop' \in [Controllers -> Loops] /\ loop'[g] = l
      /\ \A h \in Controllers : h # g => loop'[h] = loop[h]
  BY <1>5 DEF IInv, TypeOK
<1>7. TypeOK'
  BY <1>2, <1>3, <1>4, <1>6 DEF IInv, TypeOK, Statuses
<1>8. \A r \in Reminders : status'[r] = IF r \in B THEN "dispatching" ELSE status[r]
  BY <1>2
<1>9. ASSUME NEW h \in Controllers PROVE LoopOK(h)'
  <2>1. CASE h = g
    BY <1>1, <1>3, <1>4, <1>5, <1>6, <1>8, <2>1 DEF LoopOK
  <2>2. CASE h # g
    <3>1. LoopOK(h) /\ loop[h] \in Loops
      BY DEF IInv, TypeOK
    <3>2. \A q \in loop[h].batch : q \in Reminders /\ q \notin B
      BY <1>3, <3>1 DEF Loops
    <3> QED BY <1>4, <1>6, <1>8, <2>2, <3>1, <3>2 DEF LoopOK
  <2> QED BY <2>1, <2>2
<1>10. Disjoint'
  BY <1>3, <1>5, <1>6 DEF IInv, Disjoint
<1>11. ASSUME NEW r \in Reminders PROVE RowOK(r)'
  <2>1. RowOK(r)
    BY DEF IInv
  <2>2. CASE r \in B
    BY <1>1, <1>3, <1>4, <1>8, <2>1, <2>2 DEF RowOK, Taken
  <2>3. CASE r \notin B
    BY <1>4, <1>8, <2>1, <2>3 DEF RowOK, Taken
  <2> QED BY <2>2, <2>3
<1> QED BY <1>7, <1>9, <1>10, <1>11 DEF IInv

\* A step of the thread of g that changes neither its batch nor the store.
LEMMA BatchKept ==
  ASSUME IInv, NEW g \in Controllers, NEW l \in Loops, loop' = [loop EXCEPT ![g] = l],
         l.batch = loop[g].batch, UNCHANGED <<clock, status, due, up, current, ready>>
  PROVE  /\ loop' \in [Controllers -> Loops] /\ loop'[g] = l
         /\ \A h \in Controllers : h # g => loop'[h] = loop[h]
         /\ Disjoint'
         /\ \A h \in Controllers, r \in Reminders :
              (h # g /\ r \in loop[g].batch) => r \notin loop[h].batch
  BY DEF IInv, TypeOK, Disjoint

LEMMA FetchBatchKeeps ==
  ASSUME IInv, NEW g \in Controllers, FetchBatch(g)
  PROVE  IInv'
<1> DEFINE l == [loop[g] EXCEPT !.pc = "send"]
<1>1. loop[g] \in Loops /\ LoopOK(g) /\ At(g, "fetch")
  BY DEF FetchBatch, IInv, TypeOK
<1>2. /\ l \in Loops /\ l.batch = loop[g].batch /\ l.now = loop[g].now /\ l.pc = "send"
      /\ loop' = [loop EXCEPT ![g] = l]
  BY <1>1 DEF FetchBatch, Loops
<1>3. UNCHANGED <<clock, status, due, up, current, ready, sent, wire, answer, abandoned>>
  BY DEF FetchBatch, Quiet, storeVars, procVars, discordVars
<1>4. /\ loop' \in [Controllers -> Loops] /\ loop'[g] = l
      /\ \A h \in Controllers : h # g => loop'[h] = loop[h]
      /\ Disjoint'
  BY <1>2, <1>3, BatchKept
<1>5. TypeOK'
  BY <1>3, <1>4 DEF IInv, TypeOK
<1>6. StatusFollows
  BY <1>3, SameStatusFollows
<1>7. LoopOK(g)'
  BY <1>1, <1>2, <1>3, <1>4 DEF LoopOK, At
<1>8. \A h \in Controllers : LoopOK(h)'
  BY <1>3, <1>4, <1>6, <1>7, LoopsKept
<1>9. \A r \in Reminders : RowOK(r)'
  BY <1>3, <1>6, RowsKept
<1> QED BY <1>4, <1>5, <1>8, <1>9 DEF IInv

LEMMA SendRefusedKeeps ==
  ASSUME IInv, NEW g \in Controllers, SendRefused(g)
  PROVE  IInv'
<1>1. loop[g] \in Loops /\ LoopOK(g) /\ At(g, "send")
  BY DEF SendRefused, IInv, TypeOK
<1>2. PICK r \in loop[g].batch :
        loop' = [loop EXCEPT ![g].pc = "finish", ![g].r = r, ![g].outcome = "failed"]
  BY DEF SendRefused
<1> DEFINE l == [loop[g] EXCEPT !.pc = "finish", !.r = r, !.outcome = "failed"]
<1>3. r \in Reminders /\ sent[r] = 0 /\ answer[r] = "none"
  BY <1>1, <1>2 DEF At, LoopOK, Loops, IInv, RowOK
<1>4. /\ l \in Loops /\ l.batch = loop[g].batch /\ l.now = loop[g].now /\ l.pc = "finish"
      /\ l.r = r /\ l.outcome = "failed"
      /\ loop' = [loop EXCEPT ![g] = l]
  BY <1>1, <1>2, <1>3 DEF Loops, Outcomes
<1>5. UNCHANGED <<clock, status, due, up, current, ready, sent, wire, answer, abandoned>>
  BY DEF SendRefused, Quiet, storeVars, procVars, discordVars
<1>6. /\ loop' \in [Controllers -> Loops] /\ loop'[g] = l
      /\ \A h \in Controllers : h # g => loop'[h] = loop[h]
      /\ Disjoint'
  BY <1>4, <1>5, BatchKept
<1>7. TypeOK'
  BY <1>5, <1>6 DEF IInv, TypeOK
<1>8. StatusFollows
  BY <1>5, SameStatusFollows
<1>9. LoopOK(g)'
  BY <1>1, <1>2, <1>3, <1>4, <1>5, <1>6 DEF LoopOK, At
<1>10. \A h \in Controllers : LoopOK(h)'
  BY <1>5, <1>6, <1>8, <1>9, LoopsKept
<1>11. \A q \in Reminders : RowOK(q)'
  BY <1>5, <1>8, RowsKept
<1> QED BY <1>6, <1>7, <1>10, <1>11 DEF IInv

LEMMA SendKeeps ==
  ASSUME IInv, NEW g \in Controllers, Send(g)
  PROVE  IInv'
<1>1. loop[g] \in Loops /\ LoopOK(g) /\ At(g, "send")
  BY DEF Send, IInv, TypeOK
<1>2. PICK r \in loop[g].batch :
        /\ loop' = [loop EXCEPT ![g].pc = "reply", ![g].r = r]
        /\ sent' = [sent EXCEPT ![r] = @ + 1]
        /\ wire' = [wire EXCEPT ![r] = "open"]
  BY DEF Send
<1> DEFINE l == [loop[g] EXCEPT !.pc = "reply", !.r = r]
<1>3. /\ r \in Reminders /\ sent[r] = 0 /\ answer[r] = "none"
      /\ status[r] \in {"dispatching", "unknown"}
  BY <1>1, <1>2 DEF At, LoopOK, Loops, IInv, RowOK
<1>4. /\ l \in Loops /\ l.batch = loop[g].batch /\ l.now = loop[g].now /\ l.pc = "reply"
      /\ l.r = r
      /\ loop' = [loop EXCEPT ![g] = l]
  BY <1>1, <1>2, <1>3 DEF Loops
<1>5. UNCHANGED <<clock, status, due, up, current, ready, answer, abandoned>>
  BY DEF Send, Quiet, storeVars, procVars
<1>6. /\ loop' \in [Controllers -> Loops] /\ loop'[g] = l
      /\ \A h \in Controllers : h # g => loop'[h] = loop[h]
      /\ Disjoint'
      /\ \A h \in Controllers : h # g => r \notin loop[h].batch
  BY <1>2, <1>3, <1>4, <1>5, BatchKept
<1>7. /\ sent'[r] = 1 /\ wire'[r] = "open"
      /\ \A q \in Reminders : q # r => sent'[q] = sent[q] /\ wire'[q] = wire[q]
      /\ sent' \in [Reminders -> Nat]
      /\ wire' \in [Reminders -> {"none", "open", "applied", "lost"}]
  BY <1>2, <1>3 DEF IInv, TypeOK
<1>8. TypeOK'
  BY <1>5, <1>6, <1>7 DEF IInv, TypeOK
<1>9. ASSUME NEW h \in Controllers PROVE LoopOK(h)'
  <2>1. CASE h = g
    BY <1>1, <1>2, <1>3, <1>4, <1>5, <1>6, <1>7, <2>1 DEF LoopOK, At, Loops
  <2>2. CASE h # g
    <3>1. LoopOK(h) /\ loop[h] \in Loops /\ loop[h].batch \subseteq Reminders
      BY DEF IInv, TypeOK, Loops
    <3> QED BY <1>5, <1>6, <1>7, <2>2, <3>1 DEF LoopOK
  <2> QED BY <2>1, <2>2
<1>10. ASSUME NEW q \in Reminders PROVE RowOK(q)'
  <2>1. RowOK(q)
    BY DEF IInv
  <2>2. CASE q = r
    BY <1>3, <1>5, <1>7, <2>1, <2>2 DEF RowOK, Taken
  <2>3. CASE q # r
    BY <1>5, <1>7, <2>1, <2>3 DEF RowOK, Taken
  <2> QED BY <2>2, <2>3
<1> QED BY <1>6, <1>8, <1>9, <1>10 DEF IInv

\* What the adapter makes of a reply.
LEMMA RepliesRead ==
  ASSUME NEW reply \in Replies
  PROVE  /\ MutationResult("discord", reply) \in {"ok", "ambiguous", "error", "escaped"}
         /\ MutationResult("discord", reply) = "ok" => reply = "ack"
         /\ reply \in {"timeout", "incomplete"} => MutationResult("discord", reply) = "ambiguous"
<1>1. AmbiguousReplies("discord") = {"timeout", "incomplete"}
  BY DEF AmbiguousReplies
<1> QED BY <1>1 DEF MutationResult, Replies

LEMMA ReplyKeeps ==
  ASSUME IInv, NEW g \in Controllers, Reply(g)
  PROVE  IInv'
<1> DEFINE r == loop[g].r
<1>1. loop[g] \in Loops /\ LoopOK(g) /\ At(g, "reply")
  BY DEF Reply, IInv, TypeOK
<1>2. PICK reply \in Replies :
        /\ Possible(reply, wire[r])
        /\ answer' = [answer EXCEPT ![r] = reply]
        /\ IF MutationResult("discord", reply) = "escaped" THEN Aborts(g)
           ELSE /\ loop' = [loop EXCEPT ![g].pc = "finish",
                              ![g].outcome = OutcomeOf(MutationResult("discord", reply))]
                /\ UNCHANGED abandoned
  BY DEF Reply
<1> DEFINE result == MutationResult("discord", reply)
<1>3. /\ r \in Reminders /\ r \in loop[g].batch /\ sent[r] = 1
      /\ status[r] \in {"dispatching", "unknown"}
      /\ \A q \in loop[g].batch \ {r} : sent[q] = 0
  BY <1>1 DEF At, LoopOK, Loops
<1>4. UNCHANGED <<clock, status, due, up, current, ready, sent, wire>>
  BY DEF Reply, storeVars, procVars, discordVars
<1>5. /\ answer'[r] = reply
      /\ \A q \in Reminders : q # r => answer'[q] = answer[q]
      /\ answer' \in [Reminders -> Replies \cup {"none"}]
  BY <1>2, <1>3 DEF IInv, TypeOK
<1>6. ASSUME NEW q \in Reminders PROVE RowOK(q)'
  <2>1. RowOK(q)
    BY DEF IInv
  <2>2. CASE q = r
    BY <1>3, <1>4, <1>5, <2>1, <2>2 DEF RowOK, Taken
  <2>3. CASE q # r
    BY <1>4, <1>5, <2>1, <2>3 DEF RowOK, Taken
  <2> QED BY <2>2, <2>3
<1>7. PICK l \in Loops :
        /\ loop' = [loop EXCEPT ![g] = l] /\ l.now \in Nat /\ l.now <= clock
        /\ \/ l.pc = "wait" /\ l.batch = {}
           \/ /\ l.pc = "finish" /\ l.batch = loop[g].batch /\ l.r = r
              /\ l.outcome = OutcomeOf(result) /\ result # "escaped"
  <2>1. CASE result = "escaped"
    <3>1. Waiting.pc = "wait" /\ Waiting.batch = {} /\ Waiting.now = 0 /\ clock \in Nat
      BY DEF Waiting, IInv, TypeOK
    <3> QED BY <1>2, <2>1, <3>1, WaitingTyped DEF Aborts, Moves
  <2>2. CASE result # "escaped"
    <3> DEFINE l == [loop[g] EXCEPT !.pc = "finish", !.outcome = OutcomeOf(result)]
    <3>1. OutcomeOf(result) \in Outcomes
      BY <2>2, RepliesRead DEF OutcomeOf, Outcomes
    <3>2. /\ l \in Loops /\ l.pc = "finish" /\ l.batch = loop[g].batch /\ l.r = r
          /\ l.outcome = OutcomeOf(result) /\ l.now = loop[g].now
      BY <1>1, <3>1 DEF Loops
    <3>3. loop' = [loop EXCEPT ![g] = l]
      BY <1>2, <2>2
    <3>4. l.now \in Nat /\ l.now <= clock
      BY <1>1, <3>2 DEF LoopOK, Loops
    <3> QED BY <2>2, <3>2, <3>3, <3>4
  <2> QED BY <2>1, <2>2
<1>8. /\ loop' \in [Controllers -> Loops] /\ loop'[g] = l
      /\ \A h \in Controllers : h # g => loop'[h] = loop[h]
      /\ l.batch \subseteq loop[g].batch
  BY <1>7 DEF IInv, TypeOK
<1>9. abandoned' \subseteq Reminders
  <2>1. loop[g].batch \subseteq Reminders /\ abandoned \subseteq Reminders
    BY <1>1 DEF IInv, TypeOK, Loops
  <2> QED BY <1>2, <2>1 DEF Aborts
<1>10. TypeOK'
  BY <1>4, <1>5, <1>8, <1>9 DEF IInv, TypeOK
<1>11. LoopOK(g)'
  <2>1. CASE l.batch = {} /\ l.pc = "wait"
    BY <1>4, <1>7, <1>8, <2>1 DEF LoopOK
  <2>2. CASE l.pc = "finish" /\ l.batch = loop[g].batch /\ l.r = r
             /\ l.outcome = OutcomeOf(result) /\ result # "escaped"
    <3>1. result = "ok" => wire[r] = "applied"
      BY <1>2, RepliesRead DEF Possible, AppliedReplies
    <3>2. l.outcome = "delivered" => wire[r] = "applied"
      BY <2>2, <3>1, RepliesRead DEF OutcomeOf
    <3>3. reply \in {"timeout", "incomplete"} => l.outcome = "unknown"
      BY <2>2, RepliesRead DEF OutcomeOf
    <3>4. \A q \in l.batch : status[q] \in {"dispatching", "unknown"}
      BY <1>1, <2>2 DEF LoopOK
    <3> QED BY <1>3, <1>4, <1>5, <1>7, <1>8, <2>2, <3>2, <3>3, <3>4 DEF LoopOK
  <2> QED BY <1>7, <2>1, <2>2
<1>12. ASSUME NEW h \in Controllers PROVE LoopOK(h)'
  <2>1. CASE h = g
    BY <1>11, <2>1
  <2>2. CASE h # g
    <3>1. LoopOK(h) /\ loop[h] \in Loops /\ r \notin loop[h].batch
          /\ loop[h].batch \subseteq Reminders
      BY <1>3, <2>2 DEF IInv, TypeOK, Disjoint, Loops
    <3>2. loop[h].pc \in {"reply", "finish"} =>
            loop[h].r \in Reminders /\ answer'[loop[h].r] = answer[loop[h].r]
      BY <1>5, <3>1 DEF LoopOK
    <3> QED BY <1>4, <1>8, <2>2, <3>1, <3>2 DEF LoopOK
  <2> QED BY <2>1, <2>2
<1>13. Disjoint'
  BY <1>8 DEF IInv, Disjoint
<1> QED BY <1>6, <1>10, <1>12, <1>13 DEF IInv

LEMMA FinishKeeps ==
  ASSUME IInv, NEW g \in Controllers, Finish(g)
  PROVE  IInv'
<1> DEFINE r == loop[g].r
           rest == loop[g].batch \ {r}
<1>1. loop[g] \in Loops /\ LoopOK(g) /\ At(g, "finish") /\ clock \in Nat
  BY DEF Finish, IInv, TypeOK
<1>2. /\ r \in Reminders /\ r \in loop[g].batch /\ status[r] = "dispatching"
      /\ rest \subseteq Reminders /\ \A q \in rest : sent[q] = 0
  BY <1>1 DEF Finish, At, LoopOK, Loops, Dispatching
<1>3. /\ status' = [status EXCEPT ![r] = loop[g].outcome]
      /\ UNCHANGED <<clock, due, up, current, ready, sent, wire, answer, abandoned>>
      /\ IF rest = {} THEN Moves(g, Waiting)
                      ELSE Moves(g, [Waiting EXCEPT !.pc = "send", !.batch = rest])
  BY DEF Finish, Quiet, procVars, discordVars
<1>4. /\ loop[g].outcome \in Outcomes
      /\ status'[r] = loop[g].outcome
      /\ \A q \in Reminders : q # r => status'[q] = status[q]
      /\ status' \in [Reminders -> Statuses]
  BY <1>1, <1>2, <1>3 DEF IInv, TypeOK, Loops, Statuses, Outcomes
<1>5. PICK l \in Loops : /\ loop' = [loop EXCEPT ![g] = l]
                         /\ l.batch = rest /\ l.now = 0
                         /\ l.pc \in {"wait", "send"} /\ (l.pc = "wait" => rest = {})
  <2>1. CASE rest = {}
    BY <1>3, <2>1, WaitingTyped DEF Moves, Waiting
  <2>2. CASE rest # {}
    BY <1>2, <1>3, <2>2, BatchHeld DEF Moves
  <2> QED BY <2>1, <2>2
<1>6. /\ loop' \in [Controllers -> Loops] /\ loop'[g] = l
      /\ \A h \in Controllers : h # g => loop'[h] = loop[h]
  BY <1>5 DEF IInv, TypeOK
<1>7. TypeOK'
  BY <1>3, <1>4, <1>6 DEF IInv, TypeOK
<1>8. ASSUME NEW h \in Controllers PROVE LoopOK(h)'
  <2>1. CASE h = g
    BY <1>1, <1>2, <1>3, <1>4, <1>5, <1>6, <2>1 DEF LoopOK
  <2>2. CASE h # g
    <3>1. LoopOK(h) /\ loop[h] \in Loops /\ r \notin loop[h].batch
          /\ loop[h].batch \subseteq Reminders
      BY <1>2, <2>2 DEF IInv, TypeOK, Disjoint, Loops
    <3> QED BY <1>3, <1>4, <1>6, <2>2, <3>1 DEF LoopOK
  <2> QED BY <2>1, <2>2
<1>9. Disjoint'
  BY <1>5, <1>6 DEF IInv, Disjoint
<1>10. ASSUME NEW q \in Reminders PROVE RowOK(q)'
  <2>1. RowOK(q)
    BY DEF IInv
  <2>2. CASE q = r
    <3>1. /\ loop[g].outcome = "delivered" => wire[r] = "applied"
          /\ answer[r] \in {"timeout", "incomplete"} => loop[g].outcome = "unknown"
      BY <1>1 DEF LoopOK, At
    <3> QED BY <1>2, <1>3, <1>4, <2>1, <2>2, <3>1 DEF RowOK, Taken, Outcomes
  <2>3. CASE q # r
    BY <1>3, <1>4, <2>1, <2>3 DEF RowOK, Taken
  <2> QED BY <2>2, <2>3
<1> QED BY <1>7, <1>8, <1>9, <1>10 DEF IInv

LEMMA StutterKeeps ==
  ASSUME IInv, UNCHANGED vars
  PROVE  IInv'
<1>1. UNCHANGED <<clock, status, due, up, current, ready, loop, sent, wire, answer, abandoned>>
  BY DEF vars, storeVars, procVars, discordVars
<1>2. TypeOK' /\ Disjoint'
  BY <1>1 DEF IInv, TypeOK, Disjoint
<1>3. StatusFollows
  BY <1>1, SameStatusFollows
<1>4. \A g \in Controllers : LoopOK(g)'
  BY <1>1, <1>3, LoopsKept
<1>5. \A r \in Reminders : RowOK(r)'
  BY <1>1, <1>3, RowsKept
<1> QED BY <1>2, <1>4, <1>5 DEF IInv

LEMMA StepKeeps ==
  ASSUME IInv, NEW g \in Controllers, Step(g)
  PROVE  IInv'
BY BuildKeeps, EmptyHandedKeeps, ClaimDueKeeps, FetchBatchKeeps, SendKeeps, SendRefusedKeeps,
   ReplyKeeps, FinishKeeps DEF Step

LEMMA NextIInv == IInv /\ [Next]_vars => IInv'
BY CreateKeeps, CancelKeeps, WireKeeps, StepKeeps, NewThreadKeeps, CrashKeeps, TimeKeeps,
   StutterKeeps DEF Next

-----------------------------------------------------------------------------
(* The theorems *)

(***************************************************************************)
(* IInv holds in every reachable state.                                    *)
(***************************************************************************)
THEOREM Invariance == Spec => []IInv
BY InitIInv, NextIInv, PTL DEF Spec

(***************************************************************************)
(* Every variable of the reminder model keeps its type: TypeOK.            *)
(***************************************************************************)
THEOREM TypeCorrect == Spec => []TypeOK
<1>1. IInv => TypeOK
  BY DEF IInv
<1> QED BY <1>1, Invariance, PTL

(***************************************************************************)
(* No reminder is posted twice, whatever reloads and restarts do to the    *)
(* batch it is in.                                                         *)
(***************************************************************************)
THEOREM NeverSentTwice == Spec => []SentOnce
<1>1. IInv => SentOnce
  BY DEF IInv, RowOK, SentOnce
<1> QED BY <1>1, Invariance, PTL

(***************************************************************************)
(* A reminder that is scheduled or cancelled has not been posted, and no   *)
(* thread is about to post it.                                             *)
(***************************************************************************)
THEOREM CancelMeansSilence == Spec => []CancelledIsNotSent
<1>1. IInv => CancelledIsNotSent
  <2> SUFFICES ASSUME IInv, NEW r \in Reminders,
                      status[r] \in {"none", "scheduled", "cancelled"}
               PROVE  sent[r] = 0 /\ \A g \in Controllers : ~InHand(g, r)
    BY DEF CancelledIsNotSent
  <2>1. sent[r] = 0
    BY DEF IInv, RowOK, Taken
  <2>2. ASSUME NEW g \in Controllers PROVE ~InHand(g, r)
    BY DEF IInv, LoopOK, InHand
  <2> QED BY <2>1, <2>2
<1> QED BY <1>1, Invariance, PTL

(***************************************************************************)
(* No reminder is posted before its due time.                              *)
(***************************************************************************)
THEOREM SentWhenDue == Spec => []NeverEarly
<1>1. IInv => NeverEarly
  BY DEF IInv, RowOK, NeverEarly
<1> QED BY <1>1, Invariance, PTL

(***************************************************************************)
(* What the table calls delivered was applied by Discord, and an ambiguous *)
(* exchange (a timeout, an incomplete acknowledgement) is settled neither  *)
(* way.                                                                    *)
(***************************************************************************)
THEOREM OutcomesAreTrue == Spec => []OutcomeIsTrue
<1>1. IInv => OutcomeIsTrue
  BY DEF IInv, RowOK, OutcomeIsTrue
<1> QED BY <1>1, Invariance, PTL

-----------------------------------------------------------------------------
(* The refinement *)

LEMMA SendIsPromised ==
  ASSUME IInv, NEW g \in Controllers, Send(g)
  PROVE  Promise!Next
<1>1. loop[g] \in Loops /\ LoopOK(g) /\ At(g, "send")
  BY DEF Send, IInv, TypeOK
<1>2. PICK r \in loop[g].batch : sent' = [sent EXCEPT ![r] = @ + 1]
  BY DEF Send
<1>3. r \in Reminders /\ sent[r] = 0 /\ status[r] \in {"dispatching", "unknown"}
  BY <1>1, <1>2 DEF At, LoopOK, Loops
<1>4. sent' = [sent EXCEPT ![r] = 1] /\ UNCHANGED <<clock, status, due>>
  <2>1. sent[r] + 1 = 1
    BY <1>3
  <2>2. UNCHANGED <<clock, status, due>>
    BY DEF Send, storeVars
  <2> QED BY <1>2, <2>1, <2>2
<1>5. Promise!Send(r)
  BY <1>3, <1>4 DEF Promise!Send
<1> QED BY <1>3, <1>5 DEF Promise!Next

LEMMA FinishIsPromised ==
  ASSUME IInv, NEW g \in Controllers, Finish(g)
  PROVE  Promise!Next
<1> DEFINE r == loop[g].r
<1>1. loop[g] \in Loops /\ LoopOK(g) /\ At(g, "finish")
  BY DEF Finish, IInv, TypeOK
<1>2. /\ r \in Reminders /\ status[r] = "dispatching"
      /\ loop[g].outcome \in {"delivered", "failed", "unknown"}
      /\ loop[g].outcome = "delivered" => wire[r] = "applied"
  BY <1>1 DEF Finish, At, LoopOK, Loops, Dispatching, Outcomes
<1>3. loop[g].outcome = "delivered" => sent[r] = 1
  BY <1>2 DEF IInv, RowOK
<1>4. /\ status' = [status EXCEPT ![r] = loop[g].outcome]
      /\ UNCHANGED <<clock, due, sent>>
  BY DEF Finish, discordVars
<1>5. Promise!Settle(r)
  BY <1>2, <1>3, <1>4 DEF Promise!Settle
<1> QED BY <1>2, <1>5 DEF Promise!Next

LEMMA ClaimIsPromised ==
  ASSUME IInv, NEW g \in Controllers, ClaimDue(g)
  PROVE  Promise!Next
<1>1. loop[g].now \in Nat /\ loop[g].now <= clock /\ clock \in Nat
  BY DEF IInv, TypeOK, Loops, LoopOK
<1>2. PICK B \in FirstRows(loop[g].now) :
        status' = [r \in Reminders |-> IF r \in B THEN "dispatching" ELSE status[r]]
  BY DEF ClaimDue
<1>3. ASSUME NEW r \in B PROVE r \in Reminders /\ status[r] = "scheduled" /\ due[r] <= clock
  <2>1. r \in Reminders /\ status[r] = "scheduled" /\ due[r] <= loop[g].now
    BY <1>2 DEF FirstRows, DueRows
  <2>2. due[r] \in Nat
    BY <2>1 DEF IInv, RowOK
  <2> QED BY <1>1, <2>1, <2>2
<1>4. B \in SUBSET {r \in Reminders : status[r] = "scheduled" /\ due[r] <= clock}
  BY <1>3
<1>5. UNCHANGED <<clock, due, sent>>
  BY DEF ClaimDue, discordVars
<1> QED BY <1>2, <1>4, <1>5 DEF Promise!Take, Promise!Next

LEMMA NextKeepsPromise == IInv /\ [Next]_vars => [Promise!Next]_(Promise!vars)
<1> SUFFICES ASSUME IInv, [Next]_vars PROVE [Promise!Next]_(Promise!vars)
  OBVIOUS
<1>1. CASE UNCHANGED vars
  BY <1>1 DEF vars, storeVars, discordVars, Promise!vars
<1>2. ASSUME NEW r \in Reminders, NEW d \in 1..MaxTime, Create(r, d)
      PROVE Promise!Next
  <2>1. due' = [due EXCEPT ![r] = d] /\ due'[r] = d /\ d \in Nat
    BY <1>2, DispatchAssumption DEF Create, IInv, TypeOK
  <2> QED BY <1>2, <2>1 DEF Create, Promise!Create, Promise!Next, discordVars
<1>3. ASSUME NEW r \in Reminders, Cancel(r) PROVE Promise!Next
  BY <1>3 DEF Cancel, Promise!Cancel, Promise!Next, discordVars
<1>4. ASSUME NEW g \in Controllers, BuildRuntime(g) PROVE Promise!Next
  BY <1>4 DEF BuildRuntime, DeclareUnknown, Dispatching, Promise!Interrupt, Promise!Next,
              discordVars
<1>5. CASE Time
  BY <1>5 DEF Time, Promise!Pass, Promise!Next, storeVars, discordVars
<1>6. ASSUME NEW g \in Controllers, Step(g) PROVE [Promise!Next]_(Promise!vars)
  <2>1. CASE Send(g) \/ Finish(g) \/ ClaimDue(g) \/ BuildRuntime(g)
    BY <1>4, <2>1, SendIsPromised, FinishIsPromised, ClaimIsPromised
  <2>2. CASE Wake(g) \/ ReadClock(g) \/ FetchBatch(g) \/ SendRefused(g) \/ Reply(g)
             \/ RoundFails(g)
    BY <2>2 DEF Wake, ReadClock, FetchBatch, SendRefused, Reply, RoundFails, storeVars,
                discordVars, Promise!vars
  <2> QED BY <1>6, <2>1, <2>2 DEF Step
<1>7. ASSUME NEW r \in Reminders, Apply(r) \/ Lose(r) PROVE UNCHANGED Promise!vars
  BY <1>7 DEF Apply, Lose, storeVars, Promise!vars
<1>8. CASE Reload \/ Crash \/ Boot
  BY <1>8 DEF Reload, Crash, Boot, storeVars, discordVars, Promise!vars
<1> QED BY <1>1, <1>2, <1>3, <1>5, <1>6, <1>7, <1>8 DEF Next

(***************************************************************************)
(* The table, its threads and Discord together implement PromisedReminder. *)
(***************************************************************************)
THEOREM RemindersKeepPromise == Spec => PromiseHolds
<1>1. Init => Promise!Init
  BY DEF Init, Promise!Init
<1> QED BY <1>1, NextKeepsPromise, Invariance, PTL DEF Spec, PromiseHolds, Promise!Spec

=============================================================================
