------------------------- MODULE EgressGuard_proofs -------------------------
(***************************************************************************)
(* Theorems about the egress guard, for any number of runs of the script,  *)
(* any number of rules and any number of edits by others.                  *)
(*                                                                         *)
(* IInv says which flags go with a step (ShapeOK), what an undisturbed run *)
(* has established when it is about to report success (Knows), and, as     *)
(* long as no two runs that change the tables have overlapped, what the    *)
(* ownership flags of an open transaction say of the tables (Owns).        *)
(*                                                                         *)
(* Accounted needs nothing of that: whatever runs overlap, a jump into an  *)
(* incomplete chain has a run that answers for it.                         *)
(***************************************************************************)
EXTENDS EgressGuard, SequenceTheorems, FiniteSetTheorems, TLAPS

NoJump == JumpsAt = {}
OneOrNone == \A a, b \in JumpsAt : a = b
RefOK == ~listed => NoJump

TablesOK ==
  /\ listed \in BOOLEAN
  /\ rules \in Seq(1..NRules)
  /\ ~listed => rules = <<>>
  /\ user \in Seq({"jump", "other"})

Opened == {"create", "created", "append", "jump", "jumped", "commit"} \cup CleanupSteps

ShapeOK(p) ==
  LET r == proc[p] IN
  /\ r.pc \in RemoveSteps => r.op = "remove"
  /\ r.pc \in ApplySteps \cup CleanupSteps => r.op = "apply"
  /\ r.pc \in VerifySteps => r.op # "remove"
  /\ r.pc \in CleanupSteps => r.exit = "failed"
  /\ r.pc \notin CleanupSteps \cup {"over"} => r.exit = "none"
  /\ r.pc = "over" => r.exit # "none"
  /\ r.txn => r.op = "apply"
  /\ r.pc \in {"idle", "probe", "leave"} => ~r.txn
  /\ r.pc = "probe" => ~r.made /\ ~r.tied
  /\ r.pc \in Opened => r.txn

Knows(p) ==
  LET r == proc[p] IN
  /\ r.pc = "second" => JumpInPlace
  /\ r.pc \in {"commit", "leave"} => InForce
  /\ r.pc = "noJump" => ~listed
  /\ r.exit = "ok" => IF r.op = "remove" THEN Gone ELSE InForce

Excused(r) == r.said \/ r.cut

Owns(p) ==
  LET r == proc[p] IN
  r.txn =>
    /\ r.pc = "create" => ~listed /\ ~r.made /\ ~r.tied
    /\ r.pc = "created" => NoJump /\ ~r.made /\ ~r.tied /\ (r.fine => listed)
    /\ r.pc \in {"append", "jump"} => listed /\ NoJump /\ r.made /\ ~r.tied
    /\ r.pc = "jumped" => listed /\ r.made /\ ~r.tied /\ (r.fine => ~NoJump)
    /\ r.pc \in {"first", "second", "commit"} => listed /\ r.made /\ r.tied
    /\ r.pc \in {"detach", "unhook"} => listed
    /\ r.pc \in {"chain", "flush", "drop"} => listed /\ (Excused(r) \/ NoJump)

Writes(p) == Active(p) /\ proc[p].op # "verify"

Alone ==
  /\ \A p, q \in Procs : Writes(p) /\ Writes(q) => p = q
  /\ OneOrNone
  /\ \A p \in Procs : Owns(p)

IInv == /\ TypeOK
        /\ RefOK
        /\ \A p \in Procs : ShapeOK(p)
        /\ \A p \in quiet : Knows(p)
        /\ overlap \/ Alone

-----------------------------------------------------------------------------
(* The tables *)

LEMMA FullTyped == Full \in Seq(1..NRules)
  BY EgressAssumption DEF Full

LEMMA Prepended ==
  ASSUME TablesOK, NEW x \in {"jump", "other"}, user' = <<x>> \o user
  PROVE  /\ user' \in Seq({"jump", "other"})
         /\ x = "jump" => 1 \in JumpsAt'
         /\ x = "other" /\ NoJump => NoJump'
         /\ x = "other" /\ OneOrNone => OneOrNone'
         /\ NoJump => OneOrNone'
<1>1. /\ Len(user') = Len(user) + 1 /\ user' \in Seq({"jump", "other"})
      /\ user'[1] = x /\ DOMAIN user' = 1..Len(user) + 1 /\ DOMAIN user = 1..Len(user)
      /\ Len(user) \in Nat
      /\ \A k \in 2..Len(user) + 1 : user'[k] = user[k - 1]
  BY DEF TablesOK
<1>2. \A k \in JumpsAt' : \/ k = 1 /\ x = "jump"
                          \/ k \in 2..Len(user) + 1 /\ k - 1 \in JumpsAt
  BY <1>1 DEF JumpsAt
<1>3. x = "jump" => 1 \in JumpsAt'
  BY <1>1 DEF JumpsAt
<1>4. x = "other" => \A k \in JumpsAt' : k \in Int /\ k - 1 \in JumpsAt
  BY <1>2
<1>5. NoJump => \A k \in JumpsAt' : k = 1
  BY <1>2 DEF NoJump
<1>6. x = "other" /\ OneOrNone => OneOrNone'
  <2> SUFFICES ASSUME x = "other", OneOrNone, NEW a \in JumpsAt', NEW b \in JumpsAt'
               PROVE  a = b
    BY DEF OneOrNone
  <2>1. a - 1 = b - 1 /\ a \in Int /\ b \in Int
    BY <1>4 DEF OneOrNone
  <2> QED BY <2>1
<1> QED BY <1>1, <1>3, <1>4, <1>5, <1>6 DEF NoJump, OneOrNone

\* What -D leaves: the first jump is gone, the rest moves up.
LEMMA FirstDeleted ==
  ASSUME TablesOK, ~NoJump,
         user' = [k \in 1..(Len(user) - 1) |->
                    IF \E j \in 1..k : user[j] = "jump" THEN user[k + 1] ELSE user[k]]
  PROVE  /\ user' \in Seq({"jump", "other"})
         /\ OneOrNone => NoJump'
<1>1. Len(user) \in Nat \ {0} /\ DOMAIN user = 1..Len(user)
  BY DEF TablesOK, NoJump, JumpsAt
<1>2. \A k \in 1..Len(user) : user[k] \in {"jump", "other"}
  BY <1>1 DEF TablesOK
<1>3. user' \in [1..(Len(user) - 1) -> {"jump", "other"}]
  BY <1>1, <1>2
<1>4. user' \in Seq({"jump", "other"}) /\ DOMAIN user' = 1..(Len(user) - 1)
  <2>1. Len(user) - 1 \in Nat
    BY <1>1
  <2>2. DOMAIN user' = 1..(Len(user) - 1)
    OBVIOUS
  <2>3. [1..(Len(user) - 1) -> {"jump", "other"}] \subseteq Seq({"jump", "other"})
    BY <2>1, SeqDef, Zenon
  <2> QED BY <1>3, <2>2, <2>3
<1>5. ASSUME OneOrNone, NEW k \in JumpsAt' PROVE FALSE
  <2>1. k \in 1..(Len(user) - 1) /\ user'[k] = "jump"
    BY <1>4 DEF JumpsAt
  <2>2. CASE \E j \in 1..k : user[j] = "jump"
    <3>1. PICK j \in 1..k : user[j] = "jump"
      BY <2>2
    <3>2. user[k + 1] = "jump"
      BY <2>1, <2>2
    <3>3. j \in JumpsAt /\ k + 1 \in JumpsAt /\ j # k + 1
      BY <1>1, <2>1, <3>1, <3>2 DEF JumpsAt
    <3> QED BY <1>5, <3>3 DEF OneOrNone
  <2>3. CASE ~\E j \in 1..k : user[j] = "jump"
    <3>1. user[k] = "jump" /\ k \in 1..k
      BY <2>1, <2>3
    <3> QED BY <2>3, <3>1
  <2> QED BY <2>2, <2>3
<1> QED BY <1>4, <1>5 DEF NoJump

\* What every command keeps.
TablesGood == TablesOK' /\ RefOK' /\ (OneOrNone => OneOrNone')

LEMMA TablesUnchanged ==
  ASSUME TablesOK, RefOK, UNCHANGED tables
  PROVE  TablesGood
  BY DEF TablesGood, TablesOK, RefOK, OneOrNone, NoJump, JumpsAt, tables

LEMMA SameUser ==
  ASSUME user' = user
  PROVE  (NoJump' <=> NoJump) /\ (OneOrNone' <=> OneOrNone)
  BY DEF NoJump, OneOrNone, JumpsAt

LEMMA NewChainResult ==
  ASSUME TablesOK, RefOK, NEW fine \in BOOLEAN, NewChain(fine)
  PROVE  TablesGood /\ user' = user /\ (fine => listed')
<1>1. user' = user /\ (fine => listed') /\ TablesOK'
  BY DEF NewChain, Command, TablesOK, tables
<1> QED BY <1>1, SameUser DEF TablesGood, RefOK, NewChain, Command, tables

LEMMA AppendRuleResult ==
  ASSUME TablesOK, RefOK, NEW fine \in BOOLEAN, NEW k \in 1..NRules, AppendRule(k, fine)
  PROVE  TablesGood /\ user' = user /\ listed' = listed
<1>1. user' = user /\ listed' = listed /\ TablesOK'
  <2>1. CASE listed /\ listed' = TRUE /\ rules' = Append(rules, k) /\ user' = user
    BY <2>1 DEF TablesOK
  <2>2. CASE UNCHANGED tables
    BY <2>2, TablesUnchanged DEF TablesGood, tables
  <2> QED BY <2>1, <2>2 DEF AppendRule, Command
<1> QED BY <1>1, SameUser DEF TablesGood, RefOK

LEMMA FlushChainResult ==
  ASSUME TablesOK, RefOK, NEW fine \in BOOLEAN, FlushChain(fine)
  PROVE  TablesGood /\ user' = user /\ listed' = listed
<1>1. user' = user /\ listed' = listed /\ TablesOK'
  <2>1. CASE listed /\ listed' = TRUE /\ rules' = <<>> /\ user' = user
    BY <2>1 DEF TablesOK
  <2>2. CASE UNCHANGED tables
    BY <2>2, TablesUnchanged DEF TablesGood, tables
  <2> QED BY <2>1, <2>2 DEF FlushChain, Command
<1> QED BY <1>1, SameUser DEF TablesGood, RefOK

LEMMA DeleteChainResult ==
  ASSUME TablesOK, RefOK, NEW fine \in BOOLEAN, DeleteChain(fine)
  PROVE  TablesGood /\ user' = user /\ (fine => Gone')
<1>1. user' = user /\ TablesOK' /\ (listed' = listed \/ (JumpsAt = {} /\ ~listed'))
      /\ (fine => JumpsAt = {} /\ ~listed')
  BY DEF DeleteChain, Command, TablesOK, tables
<1>2. fine => Gone'
  BY <1>1 DEF Gone, JumpsAt
<1> QED BY <1>1, <1>2, SameUser DEF TablesGood, RefOK, NoJump

LEMMA InsertJumpResult ==
  ASSUME TablesOK, RefOK, NEW fine \in BOOLEAN, InsertJump(fine)
  PROVE  /\ TablesOK' /\ RefOK' /\ listed' = listed
         /\ NoJump => OneOrNone'
         /\ fine => ~NoJump'
<1>1. CASE listed /\ listed' = TRUE /\ rules' = rules /\ user' = <<"jump">> \o user
  <2>1. /\ user' \in Seq({"jump", "other"})
        /\ 1 \in JumpsAt'
        /\ NoJump => OneOrNone'
    BY <1>1, Prepended
  <2> QED BY <1>1, <2>1 DEF TablesOK, RefOK, NoJump
<1>2. CASE ~fine /\ UNCHANGED tables
  <2>1. NoJump => OneOrNone'
    BY <1>2 DEF NoJump, OneOrNone, JumpsAt, tables
  <2> QED BY <1>2, <2>1, TablesUnchanged DEF TablesGood, tables
<1> QED BY <1>1, <1>2 DEF InsertJump, Command

LEMMA DeleteJumpResult ==
  ASSUME TablesOK, RefOK, NEW fine \in BOOLEAN, DeleteJump(fine)
  PROVE  TablesGood /\ listed' = listed /\ (OneOrNone /\ fine => NoJump')
<1>1. CASE UNCHANGED tables /\ ~fine
  BY <1>1, TablesUnchanged DEF tables
<1>2. CASE /\ ~NoJump /\ listed' = listed /\ rules' = rules
           /\ user' = [k \in 1..(Len(user) - 1) |->
                         IF \E j \in 1..k : user[j] = "jump" THEN user[k + 1] ELSE user[k]]
  <2>1. user' \in Seq({"jump", "other"}) /\ (OneOrNone => NoJump')
    BY <1>2, FirstDeleted
  <2>2. NoJump' => OneOrNone'
    BY DEF NoJump, OneOrNone
  <2> QED BY <1>2, <2>1, <2>2 DEF TablesGood, TablesOK, RefOK, NoJump
<1> QED BY <1>1, <1>2 DEF DeleteJump, Command, NoJump, tables

-----------------------------------------------------------------------------
(* A step of one run, as far as that run is concerned *)

Local(p) ==
  /\ TablesOK /\ RefOK
  /\ proc \in [Procs -> Runs]
  /\ ShapeOK(p)
  /\ p \in quiet => Knows(p)
  /\ overlap \/ (OneOrNone /\ Owns(p))

Clean(p) ==
  (proc'[p].pc = "over" /\ proc'[p].txn /\ ~Excused(proc'[p])) => overlap \/ Gone'

Good(p) ==
  /\ TablesOK' /\ RefOK'
  /\ proc' \in [Procs -> Runs]
  /\ \A q \in Procs \ {p} : proc'[q] = proc[q]
  /\ ShapeOK(p)'
  /\ p \in quiet => Knows(p)'
  /\ overlap \/ (OneOrNone' /\ Owns(p)')
  /\ Active(p) /\ proc'[p].op = proc[p].op
  /\ Writes(p) \/ UNCHANGED tables
  /\ Clean(p)

LEMMA Moved ==
  ASSUME proc \in [Procs -> Runs], NEW p \in Procs, NEW r \in Runs, Become(p, r)
  PROVE  /\ proc' \in [Procs -> Runs]
         /\ proc'[p] = r
         /\ \A q \in Procs \ {p} : proc'[q] = proc[q]
  BY DEF Become

LEMMA FinalTyped ==
  ASSUME NEW r \in Runs
  PROVE  /\ Final(r) \in Runs
         /\ Final(r).pc = "over"
         /\ Final(r).op = r.op /\ Final(r).txn = r.txn /\ Final(r).exit = r.exit
         /\ Final(r).said = r.said /\ Final(r).cut = r.cut
<1>1. 1 \in 1..NRules
  BY EgressAssumption
<1> QED BY <1>1 DEF Final, Runs, Steps

LEMMA EndedTyped ==
  ASSUME NEW r \in Runs
  PROVE  /\ Ended(r) \in Runs
         /\ Ended(r).op = r.op /\ Ended(r).txn = r.txn /\ Ended(r).exit = "failed"
         /\ Ended(r).said = r.said /\ Ended(r).cut = r.cut
         /\ Ended(r).pc = IF r.txn /\ r.made THEN (IF r.tied THEN "detach" ELSE "chain")
                                             ELSE "over"
<1>1. CASE r.txn /\ r.made
  BY <1>1 DEF Ended, Runs, Steps, CleanupSteps
<1>2. CASE ~(r.txn /\ r.made)
  <2>1. [r EXCEPT !.exit = "failed"] \in Runs
    BY DEF Runs
  <2> QED BY <1>2, <2>1, FinalTyped DEF Ended, Runs
<1> QED BY <1>1, <1>2

\* What must hold for the EXIT trap to find things as its flags say.
Trapped(r) ==
  r.txn => IF r.made THEN listed' /\ (r.tied \/ Excused(r) \/ NoJump')
                     ELSE Excused(r) \/ Gone'

LEMMA DieGood ==
  ASSUME NEW p \in Procs, Local(p), Active(p),
         TablesOK', RefOK', overlap \/ OneOrNone', Writes(p) \/ UNCHANGED tables,
         NEW r \in Runs, r.op = proc[p].op, r.txn => r.op = "apply",
         overlap \/ Trapped(r),
         Die(p, r)
  PROVE  Good(p)
<1> DEFINE e == Ended(r)
<1>1. /\ e \in Runs /\ e.op = r.op /\ e.txn = r.txn /\ e.exit = "failed"
      /\ e.said = r.said /\ e.cut = r.cut
      /\ e.pc = IF r.txn /\ r.made THEN (IF r.tied THEN "detach" ELSE "chain") ELSE "over"
  BY EndedTyped
<1>2. /\ proc' \in [Procs -> Runs] /\ proc'[p] = e
      /\ \A q \in Procs \ {p} : proc'[q] = proc[q]
  BY <1>1, Moved DEF Die, Local
<1>3. ShapeOK(p)'
  BY <1>1, <1>2 DEF ShapeOK, ApplySteps, VerifySteps, CleanupSteps, RemoveSteps, Opened
<1>4. Knows(p)'
  BY <1>1, <1>2 DEF Knows
<1>5. overlap \/ (OneOrNone' /\ Owns(p)')
  BY <1>1, <1>2 DEF Owns, Trapped, Excused
<1>6. Clean(p)
  BY <1>1, <1>2 DEF Clean, Trapped, Excused
<1> QED BY <1>1, <1>2, <1>3, <1>4, <1>5, <1>6 DEF Good

\* A step that leaves the tables alone.
LEMMA Reads ==
  ASSUME NEW p \in Procs, Local(p), UNCHANGED tables
  PROVE  /\ TablesOK' /\ RefOK' /\ (overlap \/ OneOrNone')
         /\ listed \in BOOLEAN /\ listed' = listed
         /\ (NoJump' <=> NoJump) /\ (Gone' <=> Gone)
         /\ (JumpInPlace' <=> JumpInPlace) /\ (InForce' <=> InForce)
<1>1. TablesGood /\ listed' = listed /\ rules' = rules /\ user' = user
  BY TablesUnchanged DEF Local, tables
<1>2. JumpsAt' = JumpsAt
  BY <1>1 DEF JumpsAt
<1> QED BY <1>1, <1>2 DEF TablesGood, Local, TablesOK, NoJump, Gone, JumpInPlace, InForce, Complete

\* What must hold of a run that goes on as r.
Fit(p, r) ==
  /\ r.op = proc[p].op
  /\ r.pc \in RemoveSteps => r.op = "remove"
  /\ r.pc \in ApplySteps \cup CleanupSteps => r.op = "apply"
  /\ r.pc \in VerifySteps => r.op # "remove"
  /\ IF r.pc \in CleanupSteps THEN r.exit = "failed"
     ELSE IF r.pc = "over" THEN r.exit # "none" ELSE r.exit = "none"
  /\ r.txn => r.op = "apply"
  /\ r.pc \in {"idle", "probe", "leave"} => ~r.txn
  /\ r.pc = "probe" => ~r.made /\ ~r.tied
  /\ r.pc \in Opened => r.txn

\* Steps that go on, to which no knowledge and no end of a run belongs.
LEMMA GoesOn ==
  ASSUME NEW p \in Procs, Local(p), Active(p),
         NEW r \in Runs, Become(p, r), Fit(p, r),
         r.pc \notin {"second", "commit", "leave", "noJump", "over"},
         TablesOK', RefOK', overlap \/ (OneOrNone' /\ Owns(p)'),
         Writes(p) \/ UNCHANGED tables
  PROVE  Good(p)
<1>1. /\ proc' \in [Procs -> Runs] /\ proc'[p] = r
      /\ \A q \in Procs \ {p} : proc'[q] = proc[q]
  BY Moved DEF Local
<1>2. ShapeOK(p)'
  BY <1>1 DEF ShapeOK, Fit
<1>3. Knows(p)'
  BY <1>1 DEF Knows, Fit
<1>4. Clean(p)
  BY <1>1 DEF Clean
<1> QED BY <1>1, <1>2, <1>3, <1>4 DEF Good, Fit


LEMMA ProbeTablesGood ==
  ASSUME NEW p \in Procs, Local(p), ProbeTables(p)
  PROVE  Good(p)
<1>1. proc[p] \in Runs /\ Active(p) /\ proc[p].op = "apply" /\ ~proc[p].txn
      /\ proc[p].exit = "none" /\ ~proc[p].made /\ ~proc[p].tied
  BY DEF Local, ProbeTables, ShapeOK, Active, ApplySteps, VerifySteps, CleanupSteps
<1>2. CASE Die(p, proc[p])
  BY <1>1, <1>2, Reads, DieGood DEF ProbeTables, Trapped
<1>3. TablesOK' /\ RefOK' /\ (OneOrNone => OneOrNone') /\ listed' = listed
      /\ UNCHANGED tables
  BY TablesUnchanged DEF ProbeTables, TablesGood, Local, tables
<1>4. CASE listed /\ Become(p, [proc[p] EXCEPT !.pc = "first", !.txn = FALSE])
  <2> DEFINE r == [proc[p] EXCEPT !.pc = "first", !.txn = FALSE]
  <2>1. r \in Runs /\ r.pc = "first" /\ ~r.txn /\ r.op = "apply" /\ r.exit = "none"
    BY <1>1 DEF Runs, Steps, VerifySteps
  <2>2. proc'[p] = r
    BY <1>4, <2>1, Moved DEF Local
  <2>3. Fit(p, r)
    BY <1>1, <2>1 DEF Fit, RemoveSteps, ApplySteps, VerifySteps, CleanupSteps, Opened
  <2>4. Owns(p)'
    BY <2>1, <2>2 DEF Owns
  <2> QED BY <1>1, <1>3, <1>4, <2>1, <2>3, <2>4, GoesOn DEF Local
<1>5. CASE ~listed /\ Become(p, [proc[p] EXCEPT !.pc = "create", !.txn = TRUE])
  <2> DEFINE r == [proc[p] EXCEPT !.pc = "create", !.txn = TRUE]
  <2>1. /\ r \in Runs /\ r.pc = "create" /\ r.txn /\ r.op = "apply" /\ r.exit = "none"
        /\ ~r.made /\ ~r.tied
    BY <1>1 DEF Runs, Steps, ApplySteps
  <2>2. proc'[p] = r
    BY <1>5, <2>1, Moved DEF Local
  <2>3. Fit(p, r)
    BY <1>1, <2>1 DEF Fit, RemoveSteps, ApplySteps, VerifySteps, CleanupSteps, Opened
  <2>4. Owns(p)'
    BY <1>3, <1>5, <2>1, <2>2 DEF Owns
  <2> QED BY <1>1, <1>3, <1>5, <2>1, <2>3, <2>4, GoesOn DEF Local
<1>6. listed \in BOOLEAN
  BY DEF Local, TablesOK
<1> QED BY <1>2, <1>4, <1>5, <1>6 DEF ProbeTables

LEMMA CreateGood ==
  ASSUME NEW p \in Procs, Local(p), Create(p)
  PROVE  Good(p)
<1>1. /\ proc[p] \in Runs /\ Active(p) /\ proc[p].op = "apply" /\ proc[p].txn
      /\ proc[p].exit = "none"
      /\ overlap \/ (~listed /\ ~proc[p].made /\ ~proc[p].tied)
  BY DEF Local, Create, ShapeOK, Owns, Active, ApplySteps, Opened, CleanupSteps
<1>2. PICK fine \in BOOLEAN :
        NewChain(fine) /\ Become(p, [proc[p] EXCEPT !.pc = "created", !.fine = fine])
  BY DEF Create
<1> DEFINE r == [proc[p] EXCEPT !.pc = "created", !.fine = fine]
<1>3. /\ r \in Runs /\ r.pc = "created" /\ r.fine = fine
      /\ r.op = "apply" /\ r.txn /\ r.exit = "none"
      /\ r.made = proc[p].made /\ r.tied = proc[p].tied
  BY <1>1 DEF Runs, Steps, ApplySteps
<1>4. proc'[p] = r
  BY <1>2, <1>3, Moved DEF Local
<1>5. Fit(p, r)
  BY <1>1, <1>3 DEF Fit, RemoveSteps, ApplySteps, VerifySteps, CleanupSteps, Opened
<1>6. TablesGood /\ (NoJump' <=> NoJump) /\ (fine => listed')
  BY <1>2, NewChainResult, SameUser DEF Local
<1>7. overlap \/ (OneOrNone' /\ Owns(p)')
  BY <1>1, <1>3, <1>4, <1>6 DEF Owns, Local, RefOK, TablesGood
<1> QED BY <1>1, <1>2, <1>3, <1>5, <1>6, <1>7, GoesOn DEF TablesGood, Writes

LEMMA ProbeCreatedGood ==
  ASSUME NEW p \in Procs, Local(p), ProbeCreated(p)
  PROVE  Good(p)
<1>1. /\ proc[p] \in Runs /\ Active(p) /\ proc[p].op = "apply" /\ proc[p].txn
      /\ proc[p].exit = "none"
      /\ overlap \/ (NoJump /\ ~proc[p].made /\ ~proc[p].tied /\ (proc[p].fine => listed))
  BY DEF Local, ProbeCreated, ShapeOK, Owns, Active, ApplySteps, Opened, CleanupSteps
<1>2. /\ TablesOK' /\ RefOK' /\ (overlap \/ OneOrNone')
      /\ listed \in BOOLEAN /\ listed' = listed
      /\ (NoJump' <=> NoJump) /\ (Gone' <=> Gone)
      /\ UNCHANGED tables
  BY Reads DEF ProbeCreated
<1> DEFINE r == [proc[p] EXCEPT !.made = listed]
           d == [proc[p] EXCEPT !.made = proc[p].fine, !.said = ~proc[p].fine]
           g == [r EXCEPT !.pc = "append"]
<1>3. /\ r \in Runs /\ d \in Runs /\ g \in Runs
      /\ r.op = "apply" /\ r.txn /\ r.made = listed /\ r.fine = proc[p].fine
      /\ d.op = "apply" /\ d.txn /\ d.made = proc[p].fine /\ d.said = ~proc[p].fine
      /\ g.op = "apply" /\ g.txn /\ g.made = listed /\ g.pc = "append" /\ g.exit = "none"
      /\ g.tied = proc[p].tied
  BY <1>1, <1>2 DEF Runs, Steps, ApplySteps
<1>4. CASE Die(p, r)
  <2>1. overlap \/ Trapped(r)
    BY <1>1, <1>2, <1>3 DEF Trapped, Gone, NoJump
  <2> QED BY <1>1, <1>2, <1>3, <1>4, <2>1, DieGood
<1>5. CASE Die(p, d)
  <2>1. overlap \/ Trapped(d)
    BY <1>1, <1>2, <1>3 DEF Trapped, Excused
  <2> QED BY <1>1, <1>2, <1>3, <1>5, <2>1, DieGood
<1>6. CASE r.fine /\ r.made /\ Become(p, g)
  <2>1. proc'[p] = g
    BY <1>3, <1>6, Moved DEF Local
  <2>2. Fit(p, g)
    BY <1>1, <1>3 DEF Fit, RemoveSteps, ApplySteps, VerifySteps, CleanupSteps, Opened
  <2>3. overlap \/ (OneOrNone' /\ Owns(p)')
    BY <1>1, <1>2, <1>3, <1>6, <2>1 DEF Owns
  <2> QED BY <1>1, <1>2, <1>3, <1>6, <2>2, <2>3, GoesOn
<1> QED BY <1>4, <1>5, <1>6 DEF ProbeCreated

LEMMA AppendNextGood ==
  ASSUME NEW p \in Procs, Local(p), AppendNext(p)
  PROVE  Good(p)
<1>1. /\ proc[p] \in Runs /\ Active(p) /\ proc[p].op = "apply" /\ proc[p].txn
      /\ proc[p].exit = "none"
      /\ overlap \/ (NoJump /\ listed /\ proc[p].made /\ ~proc[p].tied)
  BY DEF Local, AppendNext, ShapeOK, Owns, Active, ApplySteps, Opened, CleanupSteps
<1>2. PICK fine \in BOOLEAN :
        /\ AppendRule(proc[p].i, fine)
        /\ IF ~fine THEN Die(p, proc[p])
           ELSE IF proc[p].i = NRules THEN Goto(p, "jump")
           ELSE Become(p, [proc[p] EXCEPT !.i = proc[p].i + 1])
  BY DEF AppendNext
<1>3. proc[p].i \in 1..NRules
  BY <1>1 DEF Runs
<1>4. TablesGood /\ (NoJump' <=> NoJump) /\ listed' = listed
  BY <1>2, <1>3, AppendRuleResult, SameUser DEF Local
<1>5. ASSUME NEW r \in Runs, Become(p, r), r.pc \in {"append", "jump"}, r.op = "apply",
             r.txn, r.exit = "none", r.made = proc[p].made, r.tied = proc[p].tied
      PROVE  Good(p)
  <2>1. proc'[p] = r
    BY <1>5, Moved DEF Local
  <2>2. Fit(p, r)
    BY <1>1, <1>5 DEF Fit, RemoveSteps, ApplySteps, VerifySteps, CleanupSteps, Opened
  <2>3. overlap \/ (OneOrNone' /\ Owns(p)')
    BY <1>1, <1>4, <1>5, <2>1 DEF Owns, Local, TablesGood
  <2> QED BY <1>1, <1>4, <1>5, <2>2, <2>3, GoesOn DEF TablesGood, Writes
<1>6. CASE ~fine
  <2>1. overlap \/ Trapped(proc[p])
    BY <1>1, <1>4 DEF Trapped
  <2>2. overlap \/ OneOrNone'
    BY <1>4 DEF TablesGood, Local
  <2> QED BY <1>1, <1>2, <1>4, <1>6, <2>1, <2>2, DieGood DEF TablesGood, Writes
<1>7. CASE fine /\ proc[p].i = NRules
  <2> DEFINE r == [proc[p] EXCEPT !.pc = "jump"]
  <2>1. /\ r \in Runs /\ r.pc = "jump" /\ r.op = "apply" /\ r.txn /\ r.exit = "none"
        /\ r.made = proc[p].made /\ r.tied = proc[p].tied
    BY <1>1 DEF Runs, Steps, ApplySteps
  <2> QED BY <1>2, <1>5, <1>7, <2>1 DEF Goto
<1>8. CASE fine /\ proc[p].i # NRules
  <2> DEFINE r == [proc[p] EXCEPT !.i = proc[p].i + 1]
  <2>1. proc[p].i + 1 \in 1..NRules
    BY <1>3, <1>8, EgressAssumption
  <2>2. /\ r \in Runs /\ r.pc = "append" /\ r.op = "apply" /\ r.txn /\ r.exit = "none"
        /\ r.made = proc[p].made /\ r.tied = proc[p].tied
    BY <1>1, <2>1 DEF Runs, AppendNext
  <2> QED BY <1>2, <1>5, <1>8, <2>2
<1> QED BY <1>6, <1>7, <1>8

LEMMA AttachGood ==
  ASSUME NEW p \in Procs, Local(p), Attach(p)
  PROVE  Good(p)
<1>1. /\ proc[p] \in Runs /\ Active(p) /\ proc[p].op = "apply" /\ proc[p].txn
      /\ proc[p].exit = "none"
      /\ overlap \/ (NoJump /\ listed /\ proc[p].made /\ ~proc[p].tied)
  BY DEF Local, Attach, ShapeOK, Owns, Active, ApplySteps, Opened, CleanupSteps
<1>2. PICK fine \in BOOLEAN :
        InsertJump(fine) /\ Become(p, [proc[p] EXCEPT !.pc = "jumped", !.fine = fine])
  BY DEF Attach
<1> DEFINE r == [proc[p] EXCEPT !.pc = "jumped", !.fine = fine]
<1>3. /\ r \in Runs /\ r.pc = "jumped" /\ r.fine = fine
      /\ r.op = "apply" /\ r.txn /\ r.exit = "none"
      /\ r.made = proc[p].made /\ r.tied = proc[p].tied
  BY <1>1 DEF Runs, Steps, ApplySteps
<1>4. proc'[p] = r
  BY <1>2, <1>3, Moved DEF Local
<1>5. Fit(p, r)
  BY <1>1, <1>3 DEF Fit, RemoveSteps, ApplySteps, VerifySteps, CleanupSteps, Opened
<1>6. TablesOK' /\ RefOK' /\ listed' = listed /\ (NoJump => OneOrNone') /\ (fine => ~NoJump')
  BY <1>2, InsertJumpResult DEF Local
<1>7. overlap \/ (OneOrNone' /\ Owns(p)')
  BY <1>1, <1>3, <1>4, <1>6 DEF Owns
<1> QED BY <1>1, <1>2, <1>3, <1>5, <1>6, <1>7, GoesOn DEF Writes

LEMMA ProbeAttachedGood ==
  ASSUME NEW p \in Procs, Local(p), ProbeAttached(p)
  PROVE  Good(p)
<1>1. /\ proc[p] \in Runs /\ Active(p) /\ proc[p].op = "apply" /\ proc[p].txn
      /\ proc[p].exit = "none"
      /\ overlap \/ (listed /\ proc[p].made /\ (proc[p].fine => ~NoJump))
  BY DEF Local, ProbeAttached, ShapeOK, Owns, Active, ApplySteps, Opened, CleanupSteps
<1>2. /\ TablesOK' /\ RefOK' /\ (overlap \/ OneOrNone')
      /\ listed' = listed /\ (NoJump' <=> NoJump)
      /\ UNCHANGED tables
  BY Reads DEF ProbeAttached
<1> DEFINE r == [proc[p] EXCEPT !.tied = (JumpsAt # {})]
           d == [proc[p] EXCEPT !.tied = proc[p].fine, !.said = ~proc[p].fine]
           g == [r EXCEPT !.pc = "first"]
<1>3. /\ r \in Runs /\ r.op = "apply" /\ r.txn /\ r.made = proc[p].made
      /\ r.tied = (JumpsAt # {}) /\ r.exit = "none"
  BY <1>1 DEF Runs
<1>4. /\ d \in Runs /\ d.op = "apply" /\ d.txn /\ d.made = proc[p].made
      /\ d.tied = proc[p].fine /\ d.said = ~proc[p].fine
  BY <1>1 DEF Runs
<1>5. /\ g \in Runs /\ g.op = "apply" /\ g.txn /\ g.pc = "first" /\ g.exit = "none"
      /\ g.made = proc[p].made /\ g.tied = r.tied
  <2> HIDE DEF r
  <2> QED BY <1>3 DEF Runs, Steps, VerifySteps
<1>6. CASE Die(p, r)
  <2>1. overlap \/ Trapped(r)
    BY <1>1, <1>2, <1>3 DEF Trapped, NoJump
  <2> QED BY <1>1, <1>2, <1>3, <1>6, <2>1, DieGood
<1>7. CASE Die(p, d)
  <2>1. overlap \/ Trapped(d)
    BY <1>1, <1>2, <1>4 DEF Trapped, Excused, Runs
  <2> QED BY <1>1, <1>2, <1>4, <1>7, <2>1, DieGood
<1>8. CASE r.fine /\ r.tied /\ Become(p, g)
  <2>1. proc'[p] = g
    BY <1>5, <1>8, Moved DEF Local
  <2>2. Fit(p, g)
    BY <1>1, <1>5 DEF Fit, RemoveSteps, ApplySteps, VerifySteps, CleanupSteps, Opened
  <2>3. overlap \/ (OneOrNone' /\ Owns(p)')
    BY <1>1, <1>2, <1>5, <1>8, <2>1 DEF Owns
  <2> QED BY <1>1, <1>2, <1>5, <1>8, <2>2, <2>3, GoesOn
<1> QED BY <1>6, <1>7, <1>8 DEF ProbeAttached

-----------------------------------------------------------------------------
(* verify, and the end of apply *)

\* A step that leaves the tables alone and may end in knowledge of them.
LEMMA Learns ==
  ASSUME NEW p \in Procs, Local(p), Active(p), UNCHANGED tables,
         NEW r \in Runs, Become(p, r), Fit(p, r),
         r.txn => /\ r.pc \in {"first", "second", "commit"}
                  /\ proc[p].pc \in {"first", "second", "commit"}
                  /\ proc[p].txn /\ r.made = proc[p].made /\ r.tied = proc[p].tied,
         p \in quiet => Knows(p)'
  PROVE  Good(p)
<1>1. /\ proc' \in [Procs -> Runs] /\ proc'[p] = r
      /\ \A q \in Procs \ {p} : proc'[q] = proc[q]
  BY Moved DEF Local
<1>2. /\ TablesOK' /\ RefOK' /\ (overlap \/ OneOrNone') /\ listed' = listed
  BY Reads
<1>3. ShapeOK(p)'
  BY <1>1 DEF ShapeOK, Fit
<1>4. overlap \/ Owns(p)'
  BY <1>1, <1>2 DEF Local, Owns
<1>5. Clean(p)
  BY <1>1 DEF Clean
<1> QED BY <1>1, <1>2, <1>3, <1>4, <1>5 DEF Good, Fit

\* An open transaction owns what its flags say, so that it may be trapped.
LEMMA VerifyDies ==
  ASSUME NEW p \in Procs, Local(p), UNCHANGED tables,
         proc[p].pc \in {"first", "second", "commit", "leave"}, Die(p, proc[p])
  PROVE  Good(p)
<1>1. /\ proc[p] \in Runs /\ Active(p)
      /\ proc[p].txn => proc[p].op = "apply" /\ proc[p].pc # "leave"
      /\ (overlap \/ (proc[p].txn => listed /\ proc[p].made /\ proc[p].tied))
  BY DEF Local, ShapeOK, Owns, Active
<1>2. /\ TablesOK' /\ RefOK' /\ (overlap \/ OneOrNone') /\ listed' = listed
  BY Reads
<1>3. overlap \/ Trapped(proc[p])
  BY <1>1, <1>2 DEF Trapped
<1> QED BY <1>1, <1>2, <1>3, DieGood

LEMMA VerifyStepGood ==
  ASSUME NEW p \in Procs, Local(p), VerifyStep(p)
  PROVE  Good(p)
<1>1. /\ proc[p] \in Runs /\ Active(p) /\ proc[p].op # "remove" /\ proc[p].exit = "none"
      /\ proc[p].txn => proc[p].op = "apply" /\ proc[p].pc # "leave"
      /\ proc[p].pc \in {"first", "second", "leave"}
      /\ UNCHANGED tables
  BY DEF Local, VerifyStep, VerifyJump, VerifyChain, Probe, Leave, ShapeOK, Active,
         VerifySteps, CleanupSteps
<1>2. /\ (JumpInPlace' <=> JumpInPlace) /\ (InForce' <=> InForce)
  BY <1>1, Reads
<1>3. CASE Die(p, proc[p])
  BY <1>1, <1>3, VerifyDies
<1>4. CASE proc[p].pc = "first" /\ JumpInPlace /\ Goto(p, "second")
  <2> DEFINE r == [proc[p] EXCEPT !.pc = "second"]
  <2>1. /\ r \in Runs /\ r.pc = "second" /\ r.txn = proc[p].txn /\ r.op = proc[p].op
        /\ r.exit = "none" /\ r.made = proc[p].made /\ r.tied = proc[p].tied
    BY <1>1 DEF Runs, Steps, VerifySteps
  <2>2. proc'[p] = r /\ Become(p, r)
    BY <1>4, <2>1, Moved DEF Local, Goto
  <2>3. Fit(p, r)
    BY <1>1, <2>1 DEF Fit, RemoveSteps, ApplySteps, VerifySteps, CleanupSteps, Opened
  <2>4. Knows(p)'
    BY <1>2, <1>4, <2>1, <2>2 DEF Knows
  <2> QED BY <1>1, <1>4, <2>1, <2>2, <2>3, <2>4, Learns
<1>5. ASSUME proc[p].pc = "second", Complete, NEW to \in {"commit", "leave"},
             proc[p].txn <=> to = "commit", Goto(p, to)
      PROVE  Good(p)
  <2> DEFINE r == [proc[p] EXCEPT !.pc = to]
  <2>1. /\ r \in Runs /\ r.pc = to /\ r.txn = proc[p].txn /\ r.op = proc[p].op
        /\ r.exit = "none" /\ r.made = proc[p].made /\ r.tied = proc[p].tied
    BY <1>1 DEF Runs, Steps, VerifySteps, ApplySteps
  <2>2. proc'[p] = r /\ Become(p, r)
    BY <1>5, <2>1, Moved DEF Local, Goto
  <2>3. Fit(p, r)
    BY <1>1, <1>5, <2>1 DEF Fit, RemoveSteps, ApplySteps, VerifySteps, CleanupSteps, Opened
  <2>4. p \in quiet => Knows(p)'
    BY <1>2, <1>5, <2>1, <2>2 DEF Knows, Local, InForce
  <2> QED BY <1>1, <1>5, <2>1, <2>2, <2>3, <2>4, Learns
<1>6. CASE proc[p].pc = "leave" /\ Over(p, "ok")
  <2> DEFINE x == [proc[p] EXCEPT !.exit = "ok"]
             r == Final(x)
  <2>1. x \in Runs /\ x.op = proc[p].op /\ x.txn = proc[p].txn /\ x.exit = "ok"
    BY <1>1 DEF Runs
  <2>2. r \in Runs /\ r.pc = "over" /\ r.op = proc[p].op /\ r.exit = "ok" /\ ~r.txn
    BY <1>1, <1>6, <2>1, FinalTyped
  <2>3. proc'[p] = r /\ Become(p, r)
    BY <1>6, <2>2, Moved DEF Local, Over
  <2>4. Fit(p, r)
    BY <1>1, <2>2 DEF Fit, RemoveSteps, ApplySteps, VerifySteps, CleanupSteps, Opened
  <2>5. p \in quiet => Knows(p)'
    BY <1>1, <1>2, <1>6, <2>2, <2>3 DEF Knows, Local
  <2> QED BY <1>1, <2>2, <2>3, <2>4, <2>5, Learns
<1>7. VerifyJump(p) => Good(p)
  BY <1>3, <1>4 DEF VerifyJump, Probe
<1>8. VerifyChain(p) => Good(p)
  BY <1>3, <1>5 DEF VerifyChain, Probe
<1>9. Leave(p) => Good(p)
  BY <1>6 DEF Leave
<1> QED BY <1>7, <1>8, <1>9 DEF VerifyStep

LEMMA CommitGood ==
  ASSUME NEW p \in Procs, Local(p), Commit(p)
  PROVE  Good(p)
<1>1. /\ proc[p] \in Runs /\ Active(p) /\ proc[p].op = "apply" /\ proc[p].exit = "none"
      /\ UNCHANGED tables
  BY DEF Local, Commit, ShapeOK, Active, ApplySteps, CleanupSteps
<1>2. InForce' <=> InForce
  BY <1>1, Reads
<1> DEFINE r == [proc[p] EXCEPT !.pc = "leave", !.txn = FALSE]
<1>3. /\ r \in Runs /\ r.pc = "leave" /\ ~r.txn /\ r.op = "apply" /\ r.exit = "none"
  BY <1>1 DEF Runs, Steps, VerifySteps
<1>4. proc'[p] = r /\ Become(p, r)
  BY <1>3, Moved DEF Local, Commit
<1>5. Fit(p, r)
  BY <1>1, <1>3 DEF Fit, RemoveSteps, ApplySteps, VerifySteps, CleanupSteps, Opened
<1>6. p \in quiet => Knows(p)'
  BY <1>2, <1>3, <1>4 DEF Knows, Local, Commit
<1> QED BY <1>1, <1>3, <1>4, <1>5, <1>6, Learns

-----------------------------------------------------------------------------
(* cleanup_apply *)

LEMMA CleaningUp ==
  ASSUME NEW p \in Procs, Local(p), proc[p].pc \in CleanupSteps
  PROVE  /\ proc[p] \in Runs /\ Active(p) /\ Writes(p)
         /\ proc[p].op = "apply" /\ proc[p].txn /\ proc[p].exit = "failed"
         /\ overlap \/ (listed /\ OneOrNone)
         /\ proc[p].pc \in {"chain", "flush", "drop"} =>
              (overlap \/ Excused(proc[p]) \/ NoJump)
  BY DEF Local, ShapeOK, Owns, Active, Writes, CleanupSteps, Opened

\* The clean-up goes on as r.
LEMMA CleansOn ==
  ASSUME NEW p \in Procs, Local(p), proc[p].pc \in CleanupSteps,
         NEW r \in Runs, Become(p, r), r.pc \in {"unhook", "chain", "flush", "drop"},
         r.op = proc[p].op, r.txn = proc[p].txn, r.exit = proc[p].exit,
         TablesOK', RefOK', overlap \/ OneOrNone', listed' = listed,
         r.pc # "unhook" => (overlap \/ Excused(r) \/ NoJump')
  PROVE  Good(p)
<1>1. /\ proc[p] \in Runs /\ Active(p) /\ Writes(p)
      /\ proc[p].op = "apply" /\ proc[p].txn /\ proc[p].exit = "failed"
      /\ overlap \/ (listed /\ OneOrNone)
  BY CleaningUp
<1>2. proc'[p] = r
  BY Moved DEF Local
<1>3. Fit(p, r)
  BY <1>1 DEF Fit, RemoveSteps, ApplySteps, VerifySteps, CleanupSteps, Opened
<1>4. overlap \/ (OneOrNone' /\ Owns(p)')
  BY <1>1, <1>2 DEF Owns
<1> QED BY <1>1, <1>3, <1>4, GoesOn

\* The clean-up ends as Final(r).
LEMMA CleansUp ==
  ASSUME NEW p \in Procs, Local(p), proc[p].pc \in CleanupSteps,
         NEW r \in Runs, Become(p, Final(r)),
         r.op = proc[p].op, r.txn = proc[p].txn, r.exit = proc[p].exit,
         TablesOK', RefOK', overlap \/ OneOrNone',
         overlap \/ Excused(r) \/ Gone'
  PROVE  Good(p)
<1>1. /\ proc[p] \in Runs /\ Active(p) /\ Writes(p)
      /\ proc[p].op = "apply" /\ proc[p].txn /\ proc[p].exit = "failed"
  BY CleaningUp
<1>2. /\ Final(r) \in Runs /\ Final(r).pc = "over" /\ Final(r).op = "apply"
      /\ Final(r).txn /\ Final(r).exit = "failed"
      /\ (Excused(Final(r)) <=> Excused(r))
  BY <1>1, FinalTyped DEF Excused
<1>3. /\ proc' \in [Procs -> Runs] /\ proc'[p] = Final(r)
      /\ \A q \in Procs \ {p} : proc'[q] = proc[q]
  BY <1>2, Moved DEF Local
<1>4. ShapeOK(p)' /\ Knows(p)' /\ Owns(p)'
  BY <1>2, <1>3 DEF ShapeOK, Knows, Owns, ApplySteps, VerifySteps, CleanupSteps,
                    RemoveSteps, Opened
<1>5. Clean(p)
  BY <1>2, <1>3 DEF Clean
<1> QED BY <1>1, <1>2, <1>3, <1>4, <1>5 DEF Good

LEMMA ProbeDetachGood ==
  ASSUME NEW p \in Procs, Local(p), ProbeDetach(p)
  PROVE  Good(p)
<1>1. proc[p] \in Runs /\ proc[p].pc \in CleanupSteps
  BY DEF Local, ProbeDetach, CleanupSteps
<1>2. /\ TablesOK' /\ RefOK' /\ (overlap \/ OneOrNone')
      /\ listed' = listed /\ (NoJump' <=> NoJump)
  BY Reads DEF ProbeDetach
<1>3. CASE JumpsAt # {} /\ Goto(p, "unhook")
  <2> DEFINE r == [proc[p] EXCEPT !.pc = "unhook"]
  <2>1. /\ r \in Runs /\ r.pc = "unhook" /\ r.op = proc[p].op /\ r.txn = proc[p].txn
        /\ r.exit = proc[p].exit
    BY <1>1 DEF Runs, Steps, CleanupSteps
  <2> QED BY <1>1, <1>2, <1>3, <2>1, CleansOn DEF Goto
<1>4. CASE JumpsAt = {} /\ Goto(p, "chain")
  <2> DEFINE r == [proc[p] EXCEPT !.pc = "chain"]
  <2>1. /\ r \in Runs /\ r.pc = "chain" /\ r.op = proc[p].op /\ r.txn = proc[p].txn
        /\ r.exit = proc[p].exit
    BY <1>1 DEF Runs, Steps, CleanupSteps
  <2>2. NoJump'
    BY <1>2, <1>4 DEF NoJump
  <2> QED BY <1>1, <1>2, <1>4, <2>1, <2>2, CleansOn DEF Goto
<1>5. CASE Become(p, [Messy(proc[p], TRUE) EXCEPT !.pc = "chain"])
  <2> DEFINE r == [Messy(proc[p], TRUE) EXCEPT !.pc = "chain"]
  <2>1. /\ r \in Runs /\ r.pc = "chain" /\ r.op = proc[p].op /\ r.txn = proc[p].txn
        /\ r.exit = proc[p].exit /\ Excused(r)
    BY <1>1 DEF Runs, Steps, CleanupSteps, Messy, Excused
  <2> QED BY <1>1, <1>2, <1>5, <2>1, CleansOn
<1> QED BY <1>3, <1>4, <1>5 DEF ProbeDetach

LEMMA UnhookGood ==
  ASSUME NEW p \in Procs, Local(p), Unhook(p)
  PROVE  Good(p)
<1>1. /\ proc[p] \in Runs /\ proc[p].pc \in CleanupSteps
      /\ overlap \/ OneOrNone
  BY DEF Local, Unhook, CleanupSteps
<1>2. PICK fine \in BOOLEAN :
        DeleteJump(fine) /\ Become(p, [Messy(proc[p], ~fine) EXCEPT !.pc = "chain"])
  BY DEF Unhook
<1> DEFINE r == [Messy(proc[p], ~fine) EXCEPT !.pc = "chain"]
<1>3. /\ r \in Runs /\ r.pc = "chain" /\ r.op = proc[p].op /\ r.txn = proc[p].txn
      /\ r.exit = proc[p].exit /\ (~fine => Excused(r))
  BY <1>1 DEF Runs, Steps, CleanupSteps, Messy, Excused
<1>4. TablesGood /\ listed' = listed /\ (OneOrNone /\ fine => NoJump')
  BY <1>2, DeleteJumpResult DEF Local
<1>5. overlap \/ Excused(r) \/ NoJump'
  BY <1>1, <1>3, <1>4
<1> QED BY <1>1, <1>2, <1>3, <1>4, <1>5, CleansOn DEF TablesGood

LEMMA ProbeChainGood ==
  ASSUME NEW p \in Procs, Local(p), ProbeChain(p)
  PROVE  Good(p)
<1>1. /\ proc[p] \in Runs /\ proc[p].pc \in CleanupSteps
      /\ overlap \/ Excused(proc[p]) \/ NoJump
  BY CleaningUp DEF ProbeChain, CleanupSteps
<1>2. /\ TablesOK' /\ RefOK' /\ (overlap \/ OneOrNone')
      /\ listed' = listed /\ (NoJump' <=> NoJump)
  BY Reads DEF ProbeChain
<1>3. CASE listed /\ Goto(p, "flush")
  <2> DEFINE r == [proc[p] EXCEPT !.pc = "flush"]
  <2>1. /\ r \in Runs /\ r.pc = "flush" /\ r.op = proc[p].op /\ r.txn = proc[p].txn
        /\ r.exit = proc[p].exit /\ (Excused(r) <=> Excused(proc[p]))
    BY <1>1 DEF Runs, Steps, CleanupSteps, Excused
  <2> QED BY <1>1, <1>2, <1>3, <2>1, CleansOn DEF Goto
<1>4. CASE Become(p, Final(Messy(proc[p], TRUE)))
  <2> DEFINE r == Messy(proc[p], TRUE)
  <2>1. /\ r \in Runs /\ r.op = proc[p].op /\ r.txn = proc[p].txn
        /\ r.exit = proc[p].exit /\ Excused(r)
    BY <1>1 DEF Runs, Messy, Excused
  <2> QED BY <1>1, <1>2, <1>4, <2>1, CleansUp
<1> QED BY <1>3, <1>4 DEF ProbeChain

LEMMA FlushGood ==
  ASSUME NEW p \in Procs, Local(p), Flush(p)
  PROVE  Good(p)
<1>1. /\ proc[p] \in Runs /\ proc[p].pc \in CleanupSteps
      /\ overlap \/ Excused(proc[p]) \/ NoJump
      /\ overlap \/ OneOrNone
  BY CleaningUp DEF Flush, CleanupSteps
<1>2. PICK fine \in BOOLEAN :
        FlushChain(fine) /\ Become(p, [Messy(proc[p], ~fine) EXCEPT !.pc = "drop"])
  BY DEF Flush
<1> DEFINE r == [Messy(proc[p], ~fine) EXCEPT !.pc = "drop"]
<1>3. /\ r \in Runs /\ r.pc = "drop" /\ r.op = proc[p].op /\ r.txn = proc[p].txn
      /\ r.exit = proc[p].exit /\ (Excused(proc[p]) => Excused(r))
  BY <1>1 DEF Runs, Steps, CleanupSteps, Messy, Excused
<1>4. TablesGood /\ listed' = listed /\ (NoJump' <=> NoJump)
  BY <1>2, FlushChainResult, SameUser DEF Local
<1> QED BY <1>1, <1>2, <1>3, <1>4, CleansOn DEF TablesGood

LEMMA DropGood ==
  ASSUME NEW p \in Procs, Local(p), Drop(p)
  PROVE  Good(p)
<1>1. /\ proc[p] \in Runs /\ proc[p].pc \in CleanupSteps
      /\ overlap \/ OneOrNone
  BY CleaningUp DEF Drop, CleanupSteps, Local
<1>2. PICK fine \in BOOLEAN : DeleteChain(fine) /\ Become(p, Final(Messy(proc[p], ~fine)))
  BY DEF Drop
<1> DEFINE r == Messy(proc[p], ~fine)
<1>3. /\ r \in Runs /\ r.op = proc[p].op /\ r.txn = proc[p].txn
      /\ r.exit = proc[p].exit /\ (~fine => Excused(r))
  BY <1>1 DEF Runs, Messy, Excused
<1>4. TablesGood /\ (fine => Gone')
  BY <1>2, DeleteChainResult DEF Local
<1> QED BY <1>1, <1>2, <1>3, <1>4, CleansUp DEF TablesGood

-----------------------------------------------------------------------------
(* remove *)

LEMMA Removing ==
  ASSUME NEW p \in Procs, Local(p), proc[p].pc \in RemoveSteps
  PROVE  /\ proc[p] \in Runs /\ Active(p) /\ Writes(p)
         /\ proc[p].op = "remove" /\ ~proc[p].txn /\ proc[p].exit = "none"
         /\ overlap \/ OneOrNone
  BY DEF Local, ShapeOK, Active, Writes, RemoveSteps, CleanupSteps

\* remove goes on, or dies without a transaction.
LEMMA RemovesOn ==
  ASSUME NEW p \in Procs, Local(p), proc[p].pc \in RemoveSteps, TablesGood,
         NEW r \in Runs, Become(p, r), r.pc \in RemoveSteps,
         r.op = proc[p].op, r.txn = proc[p].txn, r.exit = proc[p].exit,
         r.pc = "noJump" => ~listed'
  PROVE  Good(p)
<1>1. /\ proc[p] \in Runs /\ Active(p) /\ Writes(p)
      /\ proc[p].op = "remove" /\ ~proc[p].txn /\ proc[p].exit = "none"
      /\ overlap \/ OneOrNone
  BY Removing
<1>2. /\ proc' \in [Procs -> Runs] /\ proc'[p] = r
      /\ \A q \in Procs \ {p} : proc'[q] = proc[q]
  BY Moved DEF Local
<1>3. ShapeOK(p)' /\ Owns(p)' /\ Clean(p)
  BY <1>1, <1>2 DEF ShapeOK, Owns, Clean, RemoveSteps, ApplySteps, VerifySteps,
                    CleanupSteps, Opened
<1>4. Knows(p)'
  BY <1>1, <1>2 DEF Knows, RemoveSteps
<1> QED BY <1>1, <1>2, <1>3, <1>4 DEF Good, TablesGood

LEMMA RemoveDies ==
  ASSUME NEW p \in Procs, Local(p), proc[p].pc \in RemoveSteps, UNCHANGED tables,
         Die(p, proc[p])
  PROVE  Good(p)
<1>1. /\ proc[p] \in Runs /\ Active(p) /\ ~proc[p].txn
  BY Removing
<1>2. /\ TablesOK' /\ RefOK' /\ (overlap \/ OneOrNone')
  BY Reads
<1> QED BY <1>1, <1>2, DieGood DEF Trapped

LEMMA Typed ==
  ASSUME NEW r \in Runs, NEW pc \in RemoveSteps
  PROVE  /\ [r EXCEPT !.pc = pc] \in Runs /\ [r EXCEPT !.pc = pc].pc = pc
         /\ [r EXCEPT !.pc = pc].op = r.op /\ [r EXCEPT !.pc = pc].txn = r.txn
         /\ [r EXCEPT !.pc = pc].exit = r.exit
  BY DEF Runs, Steps

LEMMA RemoveProbes ==
  ASSUME NEW p \in Procs, Local(p), NEW from \in RemoveSteps, NEW to \in RemoveSteps,
         NEW good, Probe(p, from, good, to), to = "noJump" /\ good => ~listed
  PROVE  Good(p)
<1>1. proc[p].pc \in RemoveSteps /\ UNCHANGED tables /\ proc[p] \in Runs
  BY DEF Probe, Local
<1>2. CASE Die(p, proc[p])
  BY <1>1, <1>2, RemoveDies
<1>3. CASE good /\ Goto(p, to)
  <2>1. TablesGood /\ listed' = listed
    BY <1>1, TablesUnchanged DEF Local, tables
  <2> QED BY <1>1, <1>3, <2>1, Typed, RemovesOn DEF Goto
<1> QED BY <1>2, <1>3 DEF Probe

LEMMA RemoveActs ==
  ASSUME NEW p \in Procs, Local(p), proc[p].pc \in RemoveSteps, TablesGood,
         NEW to \in RemoveSteps \ {"noJump"}, Goto(p, to)
  PROVE  Good(p)
<1> DEFINE r == [proc[p] EXCEPT !.pc = to]
<1>1. /\ r \in Runs /\ r.pc = to /\ r.op = proc[p].op /\ r.txn = proc[p].txn
      /\ r.exit = proc[p].exit
  BY Typed DEF Local
<1>2. Become(p, r)
  BY DEF Goto
<1> HIDE DEF r
<1> QED BY <1>1, <1>2, RemovesOn

LEMMA RemoveStepGood ==
  ASSUME NEW p \in Procs, Local(p), RemoveStep(p)
  PROVE  Good(p)
<1>1. proc[p] \in Runs
  BY DEF Local
<1>2. ChainNext(p) \in RemoveSteps \ {"noJump"}
  BY DEF ChainNext, RemoveSteps
<1>3. ProbeOwned(p) => Good(p)
  <2> SUFFICES ASSUME ProbeOwned(p) PROVE Good(p)
    OBVIOUS
  <2>1. proc[p].pc \in RemoveSteps /\ UNCHANGED tables
    BY DEF ProbeOwned, RemoveSteps
  <2>2. TablesGood /\ listed \in BOOLEAN
    BY <2>1, TablesUnchanged DEF Local, TablesOK
  <2> DEFINE r == [proc[p] EXCEPT !.pc = "jumps", !.saw = listed]
  <2>3. /\ r \in Runs /\ r.pc = "jumps" /\ r.op = proc[p].op /\ r.txn = proc[p].txn
        /\ r.exit = proc[p].exit
    BY <1>1, <2>2 DEF Runs, Steps, RemoveSteps
  <2>4. CASE Become(p, r)
    BY <2>1, <2>2, <2>3, <2>4, RemovesOn DEF RemoveSteps
  <2>5. CASE Die(p, proc[p])
    BY <2>1, <2>5, RemoveDies
  <2> QED BY <2>4, <2>5 DEF ProbeOwned
<1>4. ProbeJumps(p) => Good(p)
  <2>1. (IF Jumps = 1 THEN "unjump" ELSE ChainNext(p)) \in RemoveSteps \ {"noJump"}
    BY <1>2 DEF RemoveSteps
  <2>2. "jumps" \in RemoveSteps
    BY DEF RemoveSteps
  <2> QED BY <2>1, <2>2, RemoveProbes DEF ProbeJumps
<1>5. Unjump(p) => Good(p)
  <2> SUFFICES ASSUME Unjump(p) PROVE Good(p)
    OBVIOUS
  <2>1. PICK fine \in BOOLEAN : DeleteJump(fine)
    BY DEF Unjump, Acts
  <2>2. TablesGood
    BY <2>1, DeleteJumpResult DEF Local
  <2> QED BY <2>2, RemoveActs DEF Unjump, Acts, RemoveSteps
<1>6. ProbeUnjumped(p) => Good(p)
  BY <1>2, RemoveProbes DEF ProbeUnjumped, RemoveSteps
<1>7. Empty(p) => Good(p)
  <2> SUFFICES ASSUME Empty(p) PROVE Good(p)
    OBVIOUS
  <2>1. PICK fine \in BOOLEAN : FlushChain(fine)
    BY DEF Empty, Acts
  <2>2. TablesGood
    BY <2>1, FlushChainResult DEF Local
  <2> QED BY <2>2, RemoveActs DEF Empty, Acts, RemoveSteps
<1>8. ProbeEmptied(p) => Good(p)
  BY RemoveProbes DEF ProbeEmptied, RemoveSteps
<1>9. Delete(p) => Good(p)
  <2> SUFFICES ASSUME Delete(p) PROVE Good(p)
    OBVIOUS
  <2>1. PICK fine \in BOOLEAN : DeleteChain(fine)
    BY DEF Delete, Acts
  <2>2. TablesGood
    BY <2>1, DeleteChainResult DEF Local
  <2> QED BY <2>2, RemoveActs DEF Delete, Acts, RemoveSteps
<1>10. ProbeDeleted(p) => Good(p)
  BY RemoveProbes DEF ProbeDeleted, RemoveSteps
<1>11. ProbeNoChain(p) => Good(p)
  BY RemoveProbes DEF ProbeNoChain, RemoveSteps
<1>12. ProbeNoJump(p) => Good(p)
  <2> SUFFICES ASSUME ProbeNoJump(p) PROVE Good(p)
    OBVIOUS
  <2>1. proc[p].pc \in RemoveSteps /\ UNCHANGED tables /\ proc[p].pc = "noJump"
    BY DEF ProbeNoJump, RemoveSteps
  <2>2. /\ Active(p) /\ proc[p].op = "remove" /\ ~proc[p].txn
    BY <2>1, Removing
  <2>3. CASE Die(p, proc[p])
    BY <2>1, <2>3, RemoveDies
  <2>4. CASE JumpsAt = {} /\ Over(p, "ok")
    <3> DEFINE x == [proc[p] EXCEPT !.exit = "ok"]
               r == Final(x)
    <3>1. x \in Runs /\ x.op = proc[p].op /\ x.txn = proc[p].txn /\ x.exit = "ok"
      BY <1>1 DEF Runs
    <3>2. r \in Runs /\ r.pc = "over" /\ r.op = "remove" /\ r.exit = "ok" /\ ~r.txn
      BY <2>2, <3>1, FinalTyped
    <3>3. proc'[p] = r /\ Become(p, r)
      BY <2>4, <3>2, Moved DEF Local, Over
    <3>4. Fit(p, r)
      BY <2>2, <3>2 DEF Fit, RemoveSteps, ApplySteps, VerifySteps, CleanupSteps, Opened
    <3>5. Gone' <=> Gone
      BY <2>1, Reads
    <3>6. p \in quiet => Knows(p)'
      BY <2>1, <2>4, <3>2, <3>3, <3>5 DEF Knows, Local, Gone
    <3> QED BY <2>1, <2>2, <3>2, <3>3, <3>4, <3>6, Learns
  <2> QED BY <2>3, <2>4 DEF ProbeNoJump
<1> QED BY <1>3, <1>4, <1>5, <1>6, <1>7, <1>8, <1>9, <1>10, <1>11, <1>12 DEF RemoveStep

-----------------------------------------------------------------------------
(* Any step *)

\* What a signal leaves: the trap acts for the run as it is.
LEMMA SignalGood ==
  ASSUME NEW p \in Procs, Local(p), Signal(p)
  PROVE  Good(p)
<1> DEFINE r == [proc[p] EXCEPT
                   !.cut = proc[p].cut
                             \/ proc[p].pc \in {"created", "jumped"} \cup CleanupSteps]
<1>1. /\ proc[p] \in Runs /\ Active(p) /\ UNCHANGED tables
      /\ proc[p].txn => proc[p].op = "apply"
  BY DEF Local, Signal, ShapeOK
<1>2. /\ r \in Runs /\ r.pc = proc[p].pc /\ r.op = proc[p].op /\ r.txn = proc[p].txn
      /\ r.exit = proc[p].exit /\ r.made = proc[p].made /\ r.tied = proc[p].tied
      /\ r.cut = (proc[p].cut \/ proc[p].pc \in {"created", "jumped"} \cup CleanupSteps)
  BY <1>1 DEF Runs
<1>3. /\ TablesOK' /\ RefOK' /\ (overlap \/ OneOrNone')
      /\ listed' = listed /\ (NoJump' <=> NoJump) /\ (Gone' <=> Gone)
  BY <1>1, Reads
<1>4. CASE proc[p].pc \in CleanupSteps
  <2>1. Become(p, Final(r))
    BY <1>2, <1>4 DEF Signal
  <2>2. Excused(r)
    BY <1>2, <1>4 DEF Excused
  <2> HIDE DEF r
  <2> QED BY <1>2, <1>3, <1>4, <2>1, <2>2, CleansUp
<1>5. CASE proc[p].pc \notin CleanupSteps
  <2>1. Die(p, r)
    BY <1>2, <1>5 DEF Signal
  <2>2. overlap \/ Trapped(r)
    <3> SUFFICES ASSUME ~overlap, r.txn PROVE Trapped(r)
      BY DEF Trapped
    <3>1. Owns(p) /\ ShapeOK(p) /\ proc[p].pc \in Steps
      BY <1>1 DEF Local, Runs
    <3>2. proc[p].pc \in {"create", "created", "append", "jump", "jumped",
                          "first", "second", "commit", "over"}
      BY <1>1, <1>2, <1>5, <3>1 DEF ShapeOK, Steps, ApplySteps, VerifySteps, RemoveSteps,
                                   Active
    <3>3. CASE proc[p].pc = "create"
      BY <1>2, <1>3, <3>1, <3>3 DEF Owns, Trapped, Gone, Local, RefOK, NoJump
    <3>4. CASE proc[p].pc \in {"created", "jumped"}
      BY <1>2, <1>3, <3>1, <3>4 DEF Owns, Trapped, Excused
    <3>5. CASE proc[p].pc \in {"append", "jump", "first", "second", "commit"}
      BY <1>2, <1>3, <3>1, <3>5 DEF Owns, Trapped
    <3> QED BY <1>1, <3>2, <3>3, <3>4, <3>5 DEF Active
  <2> HIDE DEF r
  <2> QED BY <1>1, <1>2, <1>3, <2>1, <2>2, DieGood
<1> QED BY <1>4, <1>5

LEMMA RunGood ==
  ASSUME NEW p \in Procs, Local(p), Run(p)
  PROVE  Good(p)
<1>1. ApplyStep(p) => Good(p)
  BY ProbeTablesGood, CreateGood, ProbeCreatedGood, AppendNextGood, AttachGood,
     ProbeAttachedGood, CommitGood DEF ApplyStep
<1>2. CleanupStep(p) => Good(p)
  BY ProbeDetachGood, UnhookGood, ProbeChainGood, FlushGood, DropGood DEF CleanupStep
<1> QED BY <1>1, <1>2, VerifyStepGood, RemoveStepGood DEF Run

LEMMA LocalHolds ==
  ASSUME IInv, NEW p \in Procs
  PROVE  Local(p)
  BY DEF IInv, TypeOK, Alone, Local, TablesOK

\* What the step of one run means for all of them.
LEMMA GoodKeeps ==
  ASSUME IInv, NEW p \in Procs, Good(p), UNCHANGED <<edits, overlap>>,
         quiet' \subseteq quiet,
         UNCHANGED tables \/ quiet' \subseteq {p}
  PROVE  IInv'
<1>1. /\ proc \in [Procs -> Runs] /\ proc' \in [Procs -> Runs]
      /\ TablesOK' /\ RefOK' /\ ShapeOK(p)'
      /\ \A q \in Procs \ {p} : proc'[q] = proc[q]
      /\ Active(p) /\ proc'[p].op = proc[p].op
      /\ Writes(p) \/ UNCHANGED tables
      /\ quiet \subseteq Procs
  BY DEF Good, IInv, TypeOK
<1>2. TypeOK'
  BY <1>1 DEF IInv, TypeOK, TablesOK
<1>3. ASSUME NEW q \in Procs PROVE ShapeOK(q)'
  <2>1. CASE q = p
    BY <1>1, <2>1
  <2>2. CASE q # p
    <3>1. proc'[q] = proc[q] /\ ShapeOK(q)
      BY <1>1, <2>2 DEF IInv
    <3> QED BY <3>1 DEF ShapeOK
  <2> QED BY <2>1, <2>2
<1>4. ASSUME NEW q \in quiet' PROVE Knows(q)'
  <2>1. CASE q = p
    BY <2>1, <1>4 DEF Good
  <2>2. CASE q # p
    <3>1. UNCHANGED tables /\ q \in quiet /\ q \in Procs
      BY <1>1, <1>4, <2>2
    <3>2. proc'[q] = proc[q] /\ Knows(q) /\ Local(q)
      BY <1>1, <2>2, <3>1, LocalHolds DEF IInv
    <3>3. /\ (JumpInPlace' <=> JumpInPlace) /\ (InForce' <=> InForce) /\ (Gone' <=> Gone)
          /\ listed' = listed
      BY <3>1, <3>2, Reads
    <3> QED BY <3>2, <3>3 DEF Knows
  <2> QED BY <2>1, <2>2
<1>5. ASSUME ~overlap' PROVE Alone'
  <2>1. ~overlap /\ Alone /\ OneOrNone' /\ Owns(p)'
    BY <1>5 DEF IInv, Good
  <2>2. ASSUME NEW q \in Procs PROVE Writes(q)' => Writes(q)
    <3>1. CASE q = p
      BY <1>1, <3>1 DEF Writes
    <3>2. CASE q # p
      BY <1>1, <3>2 DEF Writes, Active
    <3> QED BY <3>1, <3>2
  <2>3. ASSUME NEW q \in Procs, q # p PROVE Owns(q)'
    <3>1. proc'[q] = proc[q] /\ Owns(q) /\ ShapeOK(q) /\ ShapeOK(q)' /\ proc[q] \in Runs
      BY <1>1, <1>3, <2>1, <2>3 DEF Alone, IInv
    <3>2. CASE UNCHANGED tables
      <4>1. listed' = listed /\ (NoJump' <=> NoJump)
        BY <3>2, LocalHolds, Reads
      <4> QED BY <3>1, <4>1 DEF Owns
    <3>3. CASE Writes(p)
      <4>1. ~Writes(q)
        BY <2>1, <2>3, <3>3 DEF Alone
      <4>2. proc[q].txn => proc[q].pc = "over"
        BY <3>1, <4>1 DEF Writes, Active, ShapeOK
      <4> QED BY <3>1, <4>2 DEF Owns
    <3> QED BY <1>1, <3>2, <3>3
  <2> QED BY <2>1, <2>2, <2>3 DEF Alone
<1> QED BY <1>1, <1>2, <1>3, <1>4, <1>5 DEF IInv

LEMMA StartKeeps ==
  ASSUME IInv, NEW p \in Procs, NEW op \in Ops, Start(p, op)
  PROVE  IInv'
<1> DEFINE r == NewRun(op, EntryOf(op))
<1>1. /\ r \in Runs /\ r.op = op /\ r.exit = "none" /\ ~r.txn /\ ~r.made /\ ~r.tied
      /\ r.pc = EntryOf(op)
  <2>1. 1 \in 1..NRules /\ EntryOf(op) \in Steps
    BY EgressAssumption DEF EntryOf, Ops, Steps, ApplySteps, VerifySteps, RemoveSteps
  <2> QED BY <2>1 DEF NewRun, Runs
<1>2. /\ proc' \in [Procs -> Runs] /\ proc'[p] = r
      /\ \A q \in Procs \ {p} : proc'[q] = proc[q]
      /\ proc[p].pc = "idle"
  BY <1>1, Moved DEF Start, IInv, TypeOK
<1>3. UNCHANGED tables /\ edits' = edits /\ quiet' = quiet \cup {p} /\ overlap' \in BOOLEAN
  BY DEF Start, IInv, TypeOK
<1>4. /\ TablesOK' /\ RefOK' /\ (OneOrNone' <=> OneOrNone) /\ (NoJump' <=> NoJump)
      /\ listed' = listed /\ (JumpInPlace' <=> JumpInPlace) /\ (InForce' <=> InForce)
      /\ (Gone' <=> Gone)
  BY <1>3, LocalHolds, Reads, SameUser DEF tables
<1>5. TypeOK'
  BY <1>2, <1>3, <1>4 DEF IInv, TypeOK, TablesOK
<1>6. ASSUME NEW q \in Procs PROVE ShapeOK(q)'
  <2>1. CASE q = p
    BY <1>1, <1>2, <2>1 DEF ShapeOK, EntryOf, Ops, RemoveSteps, ApplySteps, VerifySteps,
                            CleanupSteps, Opened
  <2>2. CASE q # p
    <3>1. proc'[q] = proc[q] /\ ShapeOK(q)
      BY <1>2, <2>2 DEF IInv
    <3> QED BY <3>1 DEF ShapeOK
  <2> QED BY <2>1, <2>2
<1>7. ASSUME NEW q \in quiet' PROVE Knows(q)'
  <2>1. CASE q = p
    BY <1>1, <1>2, <2>1 DEF Knows, EntryOf, Ops
  <2>2. CASE q # p
    <3>1. proc'[q] = proc[q] /\ Knows(q)
      BY <1>2, <1>3, <1>7, <2>2 DEF IInv, TypeOK
    <3> QED BY <1>4, <3>1 DEF Knows
  <2> QED BY <2>1, <2>2
<1>8. ASSUME ~overlap' PROVE Alone'
  <2>1. /\ ~overlap /\ Alone
        /\ op # "verify" => \A q \in Procs : ~Writes(q)
    BY <1>8 DEF Start, IInv, Writes
  <2>2. ASSUME NEW q \in Procs, q # p PROVE (Writes(q)' <=> Writes(q)) /\ Owns(q)'
    <3>1. proc'[q] = proc[q] /\ Owns(q)
      BY <1>2, <2>1, <2>2 DEF Alone
    <3> QED BY <1>4, <3>1 DEF Owns, Writes, Active
  <2>3. Owns(p)' /\ (Writes(p)' => op # "verify")
    BY <1>1, <1>2 DEF Owns, Writes
  <2>4. ASSUME NEW q \in Procs, NEW s \in Procs, Writes(q)', Writes(s)' PROVE q = s
    BY <2>1, <2>2, <2>3, <2>4 DEF Alone
  <2>5. OneOrNone' /\ \A q \in Procs : Owns(q)'
    BY <1>4, <2>1, <2>2, <2>3 DEF Alone
  <2> QED BY <2>4, <2>5 DEF Alone
<1> QED BY <1>4, <1>5, <1>6, <1>7, <1>8 DEF IInv

LEMMA EditKeeps ==
  ASSUME IInv, Edit
  PROVE  IInv'
<1>1. /\ user' = <<"other">> \o user /\ quiet' = {}
      /\ UNCHANGED <<listed, rules, proc, overlap>>
      /\ edits' \in 0..MaxEdits /\ TablesOK
  BY EgressAssumption DEF Edit, IInv, TypeOK, TablesOK
<1>2. /\ user' \in Seq({"jump", "other"})
      /\ NoJump => NoJump'
      /\ OneOrNone => OneOrNone'
  BY <1>1, Prepended
<1>3. NoJump' => NoJump
  <2> SUFFICES ASSUME ~NoJump PROVE ~NoJump'
    OBVIOUS
  <2>1. PICK k \in DOMAIN user : user[k] = "jump"
    BY DEF NoJump, JumpsAt
  <2>2. k + 1 \in DOMAIN user' /\ user'[k + 1] = "jump"
    BY <1>1, <2>1 DEF TablesOK
  <2> QED BY <2>2 DEF NoJump, JumpsAt
<1>4. TypeOK' /\ RefOK'
  BY <1>1, <1>2 DEF IInv, TypeOK, RefOK
<1>5. \A q \in Procs : ShapeOK(q)'
  BY <1>1 DEF IInv, ShapeOK
<1>6. overlap' \/ Alone'
  BY <1>1, <1>2, <1>3 DEF IInv, Alone, Writes, Active, Owns
<1> QED BY <1>1, <1>4, <1>5, <1>6 DEF IInv

LEMMA InitIInv == Init => IInv
<1> SUFFICES ASSUME Init PROVE IInv
  OBVIOUS
<1> DEFINE r == NewRun("verify", "idle")
<1>1. /\ r \in Runs /\ r.op = "verify" /\ r.pc = "idle" /\ ~r.txn /\ r.exit = "none"
      /\ ~r.made /\ ~r.tied
  BY EgressAssumption DEF NewRun, Runs, Steps, Ops
<1>2. /\ listed = FALSE /\ rules = <<>> /\ user = <<"other">> /\ edits = 0
      /\ quiet = {} /\ overlap = FALSE
      /\ proc \in [Procs -> Runs] /\ \A p \in Procs : proc[p] = r
  BY <1>1 DEF Init
<1>3. TypeOK
  <2>1. rules \in Seq(1..NRules) /\ user \in Seq({"jump", "other"})
    BY <1>2
  <2>2. edits \in 0..MaxEdits
    BY <1>2, EgressAssumption
  <2>3. listed \in BOOLEAN /\ overlap \in BOOLEAN /\ quiet \subseteq Procs
    BY <1>2
  <2> QED BY <1>2, <2>1, <2>2, <2>3 DEF TypeOK
<1>4. NoJump
  BY <1>2 DEF NoJump, JumpsAt
<1>5. OneOrNone
  BY <1>4 DEF NoJump, OneOrNone
<1>6. \A p \in Procs : ShapeOK(p) /\ Owns(p) /\ ~Writes(p)
  BY <1>1, <1>2 DEF ShapeOK, Owns, Writes, Active, RemoveSteps, ApplySteps, VerifySteps,
                    CleanupSteps, Opened
<1> QED BY <1>2, <1>3, <1>4, <1>5, <1>6 DEF IInv, RefOK, Alone

LEMMA NextIInv == IInv /\ [Next]_vars => IInv'
<1> SUFFICES ASSUME IInv, [Next]_vars PROVE IInv'
  OBVIOUS
<1>1. ASSUME NEW p \in Procs, Run(p) PROVE IInv'
  <2>1. Good(p)
    BY <1>1, LocalHolds, RunGood
  <2>2. /\ UNCHANGED <<edits, overlap>> /\ quiet' \subseteq quiet
        /\ UNCHANGED tables \/ quiet' \subseteq {p}
    BY <1>1 DEF Run
  <2> QED BY <2>1, <2>2, GoodKeeps
<1>2. ASSUME NEW p \in Procs, Signal(p) PROVE IInv'
  <2>1. Good(p)
    BY <1>2, LocalHolds, SignalGood
  <2> QED BY <1>2, <2>1, GoodKeeps DEF Signal
<1>3. ASSUME NEW p \in Procs, NEW op \in Ops, Start(p, op) PROVE IInv'
  BY <1>3, StartKeeps
<1>4. ASSUME Edit PROVE IInv'
  BY <1>4, EditKeeps
<1>5. ASSUME UNCHANGED vars PROVE IInv'
  <2>1. UNCHANGED <<listed, rules, user, proc, edits, quiet, overlap>>
    BY <1>5 DEF vars, tables
  <2> QED BY <2>1 DEF IInv, TypeOK, RefOK, NoJump, JumpsAt, ShapeOK, Knows, JumpInPlace,
                      InForce, Complete, Gone, Alone, OneOrNone, Owns, Writes, Active
<1> QED BY <1>1, <1>2, <1>3, <1>4, <1>5 DEF Next

(***************************************************************************)
(* IInv holds of every behaviour of the guard.                             *)
(***************************************************************************)
THEOREM Invariance == Spec => []IInv
  BY InitIInv, NextIInv, PTL DEF Spec

\* Types.
THEOREM TypeCorrect == Spec => []TypeOK
<1>1. IInv => TypeOK
  BY DEF IInv
<1> QED BY <1>1, Invariance, PTL

(***************************************************************************)
(* A run of the script that reports success is right for as long as nobody *)
(* else touches the tables, whatever commands failed, whatever runs        *)
(* overlapped it and whatever signals came.                                *)
(***************************************************************************)
THEOREM SuccessIsHonest == Spec => []SuccessIsTrue
<1>1. IInv => SuccessIsTrue
  BY DEF IInv, SuccessIsTrue, Knows
<1> QED BY <1>1, Invariance, PTL

(***************************************************************************)
(* Runs that do not overlap never insert a second jump.                    *)
(***************************************************************************)
THEOREM NeverTwoJumps == Spec => []OneJump
<1>1. ASSUME OneOrNone PROVE Jumps <= 1
  <2>1. CASE JumpsAt = {}
    BY <2>1, FS_EmptySet DEF Jumps
  <2>2. CASE JumpsAt # {}
    <3>1. PICK a \in JumpsAt : TRUE
      BY <2>2
    <3>2. JumpsAt = {a}
      BY <1>1, <3>1 DEF OneOrNone
    <3> QED BY <3>2, FS_Singleton DEF Jumps
  <2> QED BY <2>1, <2>2
<1>2. IInv => OneJump
  BY <1>1 DEF IInv, Alone, OneJump
<1> QED BY <1>2, Invariance, PTL

(***************************************************************************)
(* An apply that ends in failure has taken back what it made, or has said  *)
(* that it could not; but for a signal at one of two moments or in the     *)
(* clean-up, and for overlapping runs.                                     *)
(***************************************************************************)
THEOREM FailuresAreClean == Spec => FailureIsCleanOrSaid
<1> DEFINE A == \A p \in Procs :
                  (/\ proc'[p].pc = "over" /\ proc[p].pc # "over"
                   /\ proc'[p].txn /\ ~proc'[p].said /\ ~proc'[p].cut
                   /\ ~overlap') => Gone'
<1>1. IInv /\ [Next]_vars => A
  <2> SUFFICES ASSUME IInv, [Next]_vars, NEW p \in Procs,
                      proc'[p].pc = "over", proc[p].pc # "over",
                      proc'[p].txn, ~Excused(proc'[p]), ~overlap'
               PROVE  Gone'
    BY DEF Excused
  <2>1. ASSUME NEW q \in Procs, Run(q) \/ Signal(q) PROVE Gone'
    <3>1. Good(q) /\ overlap' = overlap
      BY <2>1, LocalHolds, RunGood, SignalGood DEF Run, Signal
    <3>2. q = p
      BY <3>1 DEF Good
    <3> QED BY <3>1, <3>2 DEF Good, Clean
  <2>2. ASSUME NEW q \in Procs, NEW op \in Ops, Start(q, op) PROVE FALSE
    <3>1. /\ proc' = [proc EXCEPT ![q] = NewRun(op, EntryOf(op))]
          /\ proc \in [Procs -> Runs]
      BY <2>2 DEF Start, Become, IInv, TypeOK
    <3>2. proc'[p].pc = EntryOf(op)
      BY <3>1 DEF NewRun
    <3> QED BY <3>2 DEF EntryOf, Ops
  <2>3. ~Edit /\ ~UNCHANGED vars
    BY DEF Edit, vars
  <2> QED BY <2>1, <2>2, <2>3 DEF Next
<1>2. IInv /\ [Next]_vars => [A]_vars
  BY <1>1
<1> QED BY <1>2, Invariance, PTL DEF Spec, FailureIsCleanOrSaid

-----------------------------------------------------------------------------
(* Hollow tables: a jump that leads to a chain that is not RULES *)

Hollow == ~NoJump /\ rules # Full

\* A run answers for them while it makes or unmakes the guard, and for good
\* once it has failed and said so, was cut short, or was a remove.
InFlight(r) ==
  r.txn /\ r.pc \in {"created", "append", "jump", "jumped", "first", "second"}
Destroying(r) == r.pc \in CleanupSteps \cup (RemoveSteps \ {"noJump"})
Excusable(r) == r.said \/ r.cut \/ r.op = "remove"
Answers(r) == InFlight(r) \/ Destroying(r) \/ (r.exit = "failed" /\ Excusable(r))

\* An apply that may die of a command goes to its clean-up.
MadeOK(r) ==
  r.txn /\ r.pc \in {"append", "jump", "jumped", "first", "second"} => r.made

Accounted ==
  /\ \A p \in Procs : MadeOK(proc[p])
  /\ Hollow => \E p \in Procs : Answers(proc[p])

\* What a step of p owes: it answers for what it leaves, or the tables were
\* hollow before and it was not p that answered for them.
Accounts(p) ==
  /\ MadeOK(proc'[p])
  /\ Hollow' => Answers(proc'[p]) \/ (Hollow /\ ~Answers(proc[p]))

LEMMA SameTables ==
  ASSUME UNCHANGED tables
  PROVE  (Hollow' <=> Hollow) /\ (NoJump' <=> NoJump)
  BY DEF tables, Hollow, NoJump, JumpsAt, Full

\* The EXIT trap of a run that made the chain, or that has something to say.
LEMMA DiesAnswering ==
  ASSUME proc \in [Procs -> Runs], NEW p \in Procs, NEW r \in Runs, Die(p, r),
         (r.txn /\ r.made) \/ Excusable(r)
  PROVE  Accounts(p)
<1>1. /\ Ended(r) \in Runs /\ Ended(r).exit = "failed"
      /\ (Excusable(r) => Excusable(Ended(r)))
      /\ Ended(r).pc = IF r.txn /\ r.made THEN (IF r.tied THEN "detach" ELSE "chain")
                                           ELSE "over"
  BY EndedTyped DEF Excusable
<1>2. proc'[p] = Ended(r)
  BY <1>1, Moved DEF Die
<1>3. Answers(Ended(r)) /\ MadeOK(Ended(r))
  BY <1>1 DEF Answers, Destroying, MadeOK, CleanupSteps
<1> QED BY <1>2, <1>3 DEF Accounts

\* One that leaves tables it did not answer for as they are.
LEMMA DiesAside ==
  ASSUME proc \in [Procs -> Runs], NEW p \in Procs, NEW r \in Runs, Die(p, r),
         ~Answers(proc[p]), UNCHANGED tables
  PROVE  Accounts(p)
<1>1. /\ Ended(r) \in Runs
      /\ Ended(r).pc = IF r.txn /\ r.made THEN (IF r.tied THEN "detach" ELSE "chain")
                                           ELSE "over"
  BY EndedTyped
<1>2. proc'[p] = Ended(r)
  BY <1>1, Moved DEF Die
<1> QED BY <1>1, <1>2, SameTables DEF Accounts, MadeOK

LEMMA MakingAccounts ==
  ASSUME NEW p \in Procs, Local(p), MadeOK(proc[p]),
         Create(p) \/ AppendNext(p) \/ Attach(p)
  PROVE  Accounts(p)
<1>1. /\ proc[p] \in Runs /\ proc \in [Procs -> Runs] /\ proc[p].txn
      /\ proc[p].pc \in {"create", "append", "jump"}
  BY DEF Local, Create, AppendNext, Attach, ShapeOK, Opened
<1>2. ASSUME NEW r \in Runs, Become(p, r), InFlight(r), r.pc # "created" => r.made
      PROVE  Accounts(p)
  BY <1>1, <1>2, Moved DEF Accounts, Answers, MadeOK
<1>3. Create(p) => Accounts(p)
  <2> SUFFICES ASSUME NEW fine \in BOOLEAN,
                      Become(p, [proc[p] EXCEPT !.pc = "created", !.fine = fine])
               PROVE  Accounts(p)
    BY DEF Create
  <2> DEFINE r == [proc[p] EXCEPT !.pc = "created", !.fine = fine]
  <2>1. r \in Runs /\ r.pc = "created" /\ r.txn
    BY <1>1 DEF Runs, Steps, ApplySteps
  <2> QED BY <1>2, <2>1 DEF InFlight
<1>4. Attach(p) => Accounts(p)
  <2> SUFFICES ASSUME NEW fine \in BOOLEAN, proc[p].pc = "jump",
                      Become(p, [proc[p] EXCEPT !.pc = "jumped", !.fine = fine])
               PROVE  Accounts(p)
    BY DEF Attach
  <2> DEFINE r == [proc[p] EXCEPT !.pc = "jumped", !.fine = fine]
  <2>1. r \in Runs /\ r.pc = "jumped" /\ r.txn /\ r.made
    BY <1>1 DEF Runs, Steps, ApplySteps, MadeOK
  <2> QED BY <1>2, <2>1 DEF InFlight
<1>5. AppendNext(p) => Accounts(p)
  <2> SUFFICES ASSUME NEW fine \in BOOLEAN, proc[p].pc = "append",
                      IF ~fine THEN Die(p, proc[p])
                      ELSE IF proc[p].i = NRules THEN Goto(p, "jump")
                      ELSE Become(p, [proc[p] EXCEPT !.i = proc[p].i + 1])
               PROVE  Accounts(p)
    BY DEF AppendNext
  <2>1. proc[p].made
    BY <1>1 DEF MadeOK
  <2>2. CASE Die(p, proc[p])
    BY <1>1, <2>1, <2>2, DiesAnswering
  <2>3. CASE Goto(p, "jump")
    <3> DEFINE r == [proc[p] EXCEPT !.pc = "jump"]
    <3>1. r \in Runs /\ r.pc = "jump" /\ r.txn /\ r.made
      BY <1>1, <2>1 DEF Runs, Steps, ApplySteps
    <3> QED BY <1>2, <2>3, <3>1 DEF InFlight, Goto
  <2>4. CASE proc[p].i # NRules /\ Become(p, [proc[p] EXCEPT !.i = proc[p].i + 1])
    <3> DEFINE r == [proc[p] EXCEPT !.i = proc[p].i + 1]
    <3>1. proc[p].i \in 1..NRules
      BY <1>1 DEF Runs
    <3>2. proc[p].i + 1 \in 1..NRules
      BY <2>4, <3>1, EgressAssumption
    <3>3. r \in Runs /\ r.pc = "append" /\ r.txn /\ r.made
      BY <1>1, <2>1, <3>2 DEF Runs
    <3> QED BY <1>2, <2>4, <3>3 DEF InFlight
  <2> QED BY <2>2, <2>3, <2>4
<1> QED BY <1>3, <1>4, <1>5

\* The inventory after a command: it goes on, or ends with its flag set, or
\* the chain is not there, or it says what may be left.
LEMMA FlaggingAccounts ==
  ASSUME NEW p \in Procs, Local(p), MadeOK(proc[p]), ProbeCreated(p) \/ ProbeAttached(p)
  PROVE  Accounts(p)
<1>1. /\ proc[p] \in Runs /\ proc \in [Procs -> Runs] /\ proc[p].txn
      /\ listed \in BOOLEAN /\ (~listed => NoJump) /\ UNCHANGED tables
  BY DEF Local, TablesOK, RefOK, ProbeCreated, ProbeAttached, ShapeOK, Opened
<1>2. ~listed => ~Hollow'
  BY <1>1, SameTables DEF Hollow
<1>3. ProbeCreated(p) => Accounts(p)
  <2> DEFINE r == [proc[p] EXCEPT !.made = listed]
             d == [proc[p] EXCEPT !.made = proc[p].fine, !.said = ~proc[p].fine]
             g == [r EXCEPT !.pc = "append"]
  <2>1. r \in Runs /\ r.txn /\ r.made = listed
    BY <1>1 DEF Runs
  <2>2. d \in Runs /\ d.txn /\ (d.made \/ Excusable(d))
    BY <1>1 DEF Runs, Excusable
  <2>3. g \in Runs /\ g.pc = "append" /\ g.txn /\ g.made = r.made
    BY <2>1 DEF Runs, Steps, ApplySteps
  <2>4. CASE Die(p, d)
    BY <1>1, <2>2, <2>4, DiesAnswering
  <2>5. CASE Die(p, r) /\ listed
    BY <1>1, <2>1, <2>5, DiesAnswering
  <2>6. CASE Die(p, r) /\ ~listed
    <3>1. proc'[p] = Ended(r) /\ Ended(r).pc = "over"
      BY <1>1, <2>1, <2>6, EndedTyped, Moved DEF Die
    <3> QED BY <1>2, <2>6, <3>1 DEF Accounts, MadeOK
  <2>7. CASE r.made /\ Become(p, g)
    <3>1. proc'[p] = g
      BY <1>1, <2>3, <2>7, Moved
    <3> QED BY <2>3, <2>7, <3>1 DEF Accounts, Answers, InFlight, MadeOK
  <2> QED BY <2>4, <2>5, <2>6, <2>7 DEF ProbeCreated
<1>4. ProbeAttached(p) => Accounts(p)
  <2> SUFFICES ASSUME ProbeAttached(p) PROVE Accounts(p)
    OBVIOUS
  <2> DEFINE r == [proc[p] EXCEPT !.tied = (JumpsAt # {})]
             d == [proc[p] EXCEPT !.tied = proc[p].fine, !.said = ~proc[p].fine]
             g == [r EXCEPT !.pc = "first"]
  <2>1. proc[p].made
    BY <1>1 DEF MadeOK, ProbeAttached
  <2>2. r \in Runs /\ r.txn /\ r.made
    BY <1>1, <2>1 DEF Runs
  <2>3. d \in Runs /\ d.txn /\ d.made
    BY <1>1, <2>1 DEF Runs
  <2>4. g \in Runs /\ g.pc = "first" /\ g.txn /\ g.made
    <3> HIDE DEF r
    <3> QED BY <2>2 DEF Runs, Steps, VerifySteps
  <2>5. CASE Die(p, r) \/ Die(p, d)
    BY <1>1, <2>2, <2>3, <2>5, DiesAnswering
  <2>6. CASE Become(p, g)
    <3>1. proc'[p] = g
      BY <1>1, <2>4, <2>6, Moved
    <3> QED BY <2>4, <3>1 DEF Accounts, Answers, InFlight, MadeOK
  <2> QED BY <2>5, <2>6 DEF ProbeAttached
<1> QED BY <1>3, <1>4

\* A transaction leaves verification by the commit only, and then the chain
\* is complete; all others change nothing and answered for nothing.
LEMMA VerifyingAccounts ==
  ASSUME NEW p \in Procs, Local(p), MadeOK(proc[p]),
         ProbeTables(p) \/ Commit(p) \/ VerifyStep(p)
  PROVE  Accounts(p)
<1>1. /\ proc[p] \in Runs /\ proc \in [Procs -> Runs] /\ UNCHANGED tables
      /\ proc[p].pc \in {"probe", "first", "second", "commit", "leave"}
      /\ proc[p].exit = "none"
  BY DEF Local, ProbeTables, Commit, VerifyStep, VerifyJump, VerifyChain, Probe, Leave,
         ShapeOK, CleanupSteps
<1>2. ~InFlight(proc[p]) => ~Answers(proc[p])
  BY <1>1 DEF Answers, Destroying, CleanupSteps, RemoveSteps
<1>3. ASSUME Die(p, proc[p]) PROVE Accounts(p)
  <2>1. InFlight(proc[p]) => proc[p].txn /\ proc[p].made
    BY <1>1 DEF InFlight, MadeOK
  <2> QED BY <1>1, <1>2, <1>3, <2>1, DiesAnswering, DiesAside
<1>4. ASSUME NEW r \in Runs, Become(p, r), MadeOK(r),
             InFlight(r) \/ ~InFlight(proc[p]) \/ rules = Full
      PROVE  Accounts(p)
  <2>1. proc'[p] = r
    BY <1>1, <1>4, Moved
  <2> QED BY <1>2, <1>4, <1>1, <2>1, SameTables DEF Accounts, Answers, Hollow
<1>5. ProbeTables(p) => Accounts(p)
  <2> SUFFICES ASSUME ProbeTables(p) PROVE Accounts(p)
    OBVIOUS
  <2> DEFINE r == [proc[p] EXCEPT !.pc = IF listed THEN "first" ELSE "create",
                                  !.txn = ~listed]
  <2>1. listed \in BOOLEAN
    BY DEF Local, TablesOK
  <2>2. r \in Runs /\ MadeOK(r)
    BY <1>1, <2>1 DEF Runs, Steps, ApplySteps, VerifySteps, MadeOK
  <2>3. ~InFlight(proc[p])
    BY DEF ProbeTables, InFlight
  <2> QED BY <1>3, <1>4, <2>2, <2>3 DEF ProbeTables
<1>6. Commit(p) => Accounts(p)
  <2> DEFINE r == [proc[p] EXCEPT !.pc = "leave", !.txn = FALSE]
  <2>1. r \in Runs /\ MadeOK(r)
    BY <1>1 DEF Runs, Steps, VerifySteps, MadeOK
  <2> QED BY <1>4, <2>1 DEF Commit, InFlight
<1>7. ASSUME NEW to \in {"second", "commit", "leave"}, Goto(p, to),
             to # "second" => rules = Full, to = "second" => proc[p].pc = "first"
      PROVE  Accounts(p)
  <2> DEFINE r == [proc[p] EXCEPT !.pc = to]
  <2>1. r \in Runs /\ r.pc = to /\ r.txn = proc[p].txn /\ r.made = proc[p].made
    BY <1>1 DEF Runs, Steps, ApplySteps, VerifySteps
  <2>2. MadeOK(r) /\ (InFlight(r) \/ ~InFlight(proc[p]) \/ rules = Full)
    BY <1>7, <2>1 DEF MadeOK, InFlight
  <2> QED BY <1>4, <1>7, <2>1, <2>2 DEF Goto
<1>8. VerifyJump(p) => Accounts(p)
  BY <1>3, <1>7 DEF VerifyJump, Probe
<1>9. VerifyChain(p) => Accounts(p)
  BY <1>3, <1>7 DEF VerifyChain, Probe, Complete
<1>10. Leave(p) => Accounts(p)
  <2> DEFINE x == [proc[p] EXCEPT !.exit = "ok"]
  <2>1. x \in Runs
    BY <1>1 DEF Runs
  <2>2. Final(x) \in Runs /\ Final(x).pc = "over"
    BY <2>1, FinalTyped
  <2> QED BY <1>4, <2>2 DEF Leave, Over, InFlight, MadeOK
<1> QED BY <1>5, <1>6, <1>8, <1>9, <1>10 DEF VerifyStep

\* The clean-up ends saying so, or with the chain and every jump gone.
LEMMA CleaningAccounts ==
  ASSUME NEW p \in Procs, Local(p), CleanupStep(p)
  PROVE  Accounts(p)
<1>1. proc[p].pc \in CleanupSteps
  BY DEF CleanupStep, ProbeDetach, Unhook, ProbeChain, Flush, Drop, CleanupSteps
<1>2. proc[p] \in Runs /\ proc \in [Procs -> Runs] /\ proc[p].exit = "failed"
  BY <1>1, CleaningUp DEF Local
<1>3. ASSUME NEW messy \in BOOLEAN, NEW pc \in CleanupSteps,
             Become(p, [Messy(proc[p], messy) EXCEPT !.pc = pc]) \/ Goto(p, pc)
      PROVE  Accounts(p)
  <2>1. PICK r \in Runs : Become(p, r) /\ r.pc = pc
    <3>1. CASE Goto(p, pc)
      <4>1. [proc[p] EXCEPT !.pc = pc] \in Runs /\ [proc[p] EXCEPT !.pc = pc].pc = pc
        BY <1>2 DEF Runs, Steps
      <4> QED BY <3>1, <4>1 DEF Goto
    <3>2. CASE Become(p, [Messy(proc[p], messy) EXCEPT !.pc = pc])
      <4>1. /\ [Messy(proc[p], messy) EXCEPT !.pc = pc] \in Runs
            /\ [Messy(proc[p], messy) EXCEPT !.pc = pc].pc = pc
        BY <1>2 DEF Runs, Steps, Messy
      <4> QED BY <3>2, <4>1
    <3> QED BY <1>3, <3>1, <3>2
  <2>2. proc'[p] = r
    BY <1>2, <2>1, Moved
  <2> QED BY <2>1, <2>2 DEF Accounts, Answers, Destroying, MadeOK, CleanupSteps
<1>4. ASSUME NEW messy \in BOOLEAN, Become(p, Final(Messy(proc[p], messy))),
             messy \/ ~Hollow'
      PROVE  Accounts(p)
  <2> DEFINE r == Messy(proc[p], messy)
  <2>1. r \in Runs /\ r.exit = "failed" /\ (messy => r.said)
    BY <1>2 DEF Runs, Messy
  <2>2. proc'[p] = Final(r) /\ Final(r).pc = "over" /\ Final(r).exit = "failed"
        /\ (messy => Final(r).said)
    BY <1>2, <1>4, <2>1, FinalTyped, Moved
  <2> QED BY <1>4, <2>2 DEF Accounts, Answers, Excusable, MadeOK
<1>5. {"detach", "unhook", "chain", "flush", "drop"} \subseteq CleanupSteps
  BY DEF CleanupSteps
<1>6. ProbeDetach(p) \/ Unhook(p) => Accounts(p)
  BY <1>3, <1>5 DEF ProbeDetach, Unhook
<1>7. ProbeChain(p) \/ Flush(p) => Accounts(p)
  BY <1>3, <1>4, <1>5 DEF ProbeChain, Flush
<1>8. Drop(p) => Accounts(p)
  <2> SUFFICES ASSUME NEW fine \in BOOLEAN, DeleteChain(fine),
                      Become(p, Final(Messy(proc[p], ~fine)))
               PROVE  Accounts(p)
    BY DEF Drop
  <2>1. fine => ~Hollow'
    BY DeleteChainResult DEF Local, Gone, Hollow, NoJump
  <2> QED BY <1>4, <2>1
<1> QED BY <1>6, <1>7, <1>8 DEF CleanupStep

\* A remove answers until the chain is gone, and with it every jump.
LEMMA RemovingAccounts ==
  ASSUME NEW p \in Procs, Local(p), RemoveStep(p)
  PROVE  Accounts(p)
<1>1. proc[p].pc \in RemoveSteps
  BY DEF RemoveStep, ProbeOwned, ProbeJumps, Unjump, ProbeUnjumped, Empty, ProbeEmptied,
         Delete, ProbeDeleted, ProbeNoChain, ProbeNoJump, Probe, Acts, RemoveSteps
<1>2. /\ proc[p] \in Runs /\ proc \in [Procs -> Runs] /\ proc[p].op = "remove"
      /\ ~listed => NoJump
  BY <1>1, Removing DEF Local, RefOK
<1>3. ASSUME Die(p, proc[p]) PROVE Accounts(p)
  BY <1>2, <1>3, DiesAnswering DEF Excusable
<1>4. ASSUME NEW to \in RemoveSteps \ {"noJump"}, Goto(p, to) PROVE Accounts(p)
  <2> DEFINE r == [proc[p] EXCEPT !.pc = to]
  <2>1. r \in Runs /\ r.pc = to
    BY <1>2, Typed
  <2>2. proc'[p] = r
    BY <1>2, <1>4, <2>1, Moved DEF Goto
  <2> QED BY <2>1, <2>2 DEF Accounts, Answers, Destroying, MadeOK, RemoveSteps
<1>5. ProbeOwned(p) => Accounts(p)
  <2> DEFINE r == [proc[p] EXCEPT !.pc = "jumps", !.saw = listed]
  <2>1. r \in Runs /\ r.pc = "jumps"
    BY <1>2 DEF Runs, Steps, RemoveSteps, Local, TablesOK
  <2>2. Become(p, r) => Accounts(p)
    BY <1>2, <2>1, Moved DEF Accounts, Answers, Destroying, MadeOK, RemoveSteps
  <2> QED BY <1>3, <2>2 DEF ProbeOwned
<1>6. ChainNext(p) \in RemoveSteps \ {"noJump"}
      /\ {"unjump", "unjumped", "emptied", "delete", "deleted", "noChain"}
           \subseteq RemoveSteps \ {"noJump"}
  BY DEF ChainNext, RemoveSteps
<1>7. ProbeJumps(p) \/ ProbeUnjumped(p) \/ ProbeEmptied(p) \/ ProbeDeleted(p) => Accounts(p)
  BY <1>3, <1>4, <1>6 DEF ProbeJumps, ProbeUnjumped, ProbeEmptied, ProbeDeleted, Probe
<1>8. Unjump(p) \/ Empty(p) \/ Delete(p) => Accounts(p)
  BY <1>4, <1>6 DEF Unjump, Empty, Delete, Acts
<1>9. ProbeNoChain(p) => Accounts(p)
  <2> SUFFICES ASSUME UNCHANGED tables, ~listed, Goto(p, "noJump") PROVE Accounts(p)
    BY <1>3 DEF ProbeNoChain, Probe
  <2> DEFINE r == [proc[p] EXCEPT !.pc = "noJump"]
  <2>1. r \in Runs /\ r.pc = "noJump"
    BY <1>2 DEF Runs, Steps, RemoveSteps
  <2>2. proc'[p] = r
    BY <1>2, <2>1, Moved DEF Goto
  <2> QED BY <1>2, <2>1, <2>2, SameTables DEF Accounts, Hollow, MadeOK
<1>10. ProbeNoJump(p) => Accounts(p)
  <2> SUFFICES ASSUME UNCHANGED tables, NoJump, Over(p, "ok") PROVE Accounts(p)
    BY <1>3 DEF ProbeNoJump, NoJump
  <2> DEFINE x == [proc[p] EXCEPT !.exit = "ok"]
  <2>1. x \in Runs
    BY <1>2 DEF Runs
  <2>2. proc'[p] = Final(x) /\ Final(x).pc = "over"
    BY <1>2, <2>1, FinalTyped, Moved DEF Over
  <2> QED BY <2>2, SameTables DEF Accounts, Hollow, MadeOK
<1> QED BY <1>5, <1>7, <1>8, <1>9, <1>10 DEF RemoveStep

\* A signal leaves an apply to its clean-up, or is the excuse itself.
LEMMA SignalAccounts ==
  ASSUME NEW p \in Procs, Local(p), MadeOK(proc[p]), Signal(p)
  PROVE  Accounts(p)
<1> DEFINE r == [proc[p] EXCEPT
                   !.cut = proc[p].cut
                             \/ proc[p].pc \in {"created", "jumped"} \cup CleanupSteps]
<1>1. /\ proc[p] \in Runs /\ proc \in [Procs -> Runs] /\ UNCHANGED tables /\ Active(p)
  BY DEF Local, Signal
<1>2. /\ r \in Runs /\ r.pc = proc[p].pc /\ r.op = proc[p].op /\ r.txn = proc[p].txn
      /\ r.exit = proc[p].exit /\ r.made = proc[p].made /\ r.said = proc[p].said
      /\ r.cut = (proc[p].cut \/ proc[p].pc \in {"created", "jumped"} \cup CleanupSteps)
  BY <1>1 DEF Runs
<1>3. CASE proc[p].pc \in CleanupSteps
  <2>1. Become(p, Final(r)) /\ r.exit = "failed" /\ r.cut
    BY <1>2, <1>3, CleaningUp DEF Signal
  <2> HIDE DEF r
  <2>2. /\ proc'[p] = Final(r) /\ Final(r).pc = "over" /\ Final(r).exit = "failed"
        /\ Final(r).cut
    BY <1>1, <1>2, <2>1, FinalTyped, Moved
  <2> QED BY <2>2 DEF Accounts, Answers, Excusable, MadeOK
<1>4. CASE proc[p].pc \notin CleanupSteps
  <2>1. Die(p, r)
    BY <1>2, <1>4 DEF Signal
  <2>2. Answers(proc[p]) => (r.txn /\ r.made) \/ Excusable(r)
    <3> HIDE DEF r
    <3>1. InFlight(proc[p]) => (r.txn /\ r.made) \/ r.cut
      BY <1>2 DEF InFlight, MadeOK
    <3>2. Destroying(proc[p]) => r.op = "remove"
      BY <1>2, <1>4 DEF Destroying, Local, ShapeOK
    <3> QED BY <1>2, <3>1, <3>2 DEF Answers, Excusable
  <2> HIDE DEF r
  <2> QED BY <1>1, <1>2, <2>1, <2>2, DiesAnswering, DiesAside
<1> QED BY <1>3, <1>4

LEMMA NextAccounted ==
  ASSUME IInv, Accounted, [Next]_vars
  PROVE  Accounted'
<1>1. ASSUME NEW p \in Procs, Accounts(p), \A q \in Procs \ {p} : proc'[q] = proc[q]
      PROVE  Accounted'
  <2>1. \A q \in Procs : MadeOK(proc[q])'
    BY <1>1 DEF Accounted, Accounts
  <2>2. ASSUME Hollow' PROVE \E q \in Procs : Answers(proc[q])'
    <3>1. CASE Answers(proc'[p])
      BY <3>1
    <3>2. CASE Hollow /\ ~Answers(proc[p])
      <4>1. PICK q \in Procs : Answers(proc[q])
        BY <3>2 DEF Accounted
      <4>2. proc'[q] = proc[q]
        BY <1>1, <3>2, <4>1
      <4> QED BY <4>1, <4>2
    <3> QED BY <1>1, <2>2, <3>1, <3>2 DEF Accounts
  <2> QED BY <2>1, <2>2 DEF Accounted
<1>2. ASSUME NEW p \in Procs, Run(p) \/ Signal(p) PROVE Accounted'
  <2>1. Local(p) /\ MadeOK(proc[p])
    BY LocalHolds DEF Accounted
  <2>2. \A q \in Procs \ {p} : proc'[q] = proc[q]
    BY <1>2, <2>1, RunGood, SignalGood DEF Good
  <2>3. Accounts(p)
    BY <1>2, <2>1, MakingAccounts, FlaggingAccounts, VerifyingAccounts, CleaningAccounts,
       RemovingAccounts, SignalAccounts DEF Run, ApplyStep
  <2> QED BY <1>1, <2>2, <2>3
<1>3. ASSUME NEW p \in Procs, NEW op \in Ops, Start(p, op) PROVE Accounted'
  <2>1. proc[p].pc = "idle" /\ proc[p].exit = "none" /\ proc \in [Procs -> Runs]
    BY <1>3 DEF Start, IInv, TypeOK, ShapeOK, CleanupSteps
  <2>2. ~Answers(proc[p])
    BY <2>1 DEF Answers, InFlight, Destroying, CleanupSteps, RemoveSteps
  <2>3. proc' = [proc EXCEPT ![p] = NewRun(op, EntryOf(op))]
    BY <1>3 DEF Start, Become
  <2>4. MadeOK(proc'[p]) /\ \A q \in Procs \ {p} : proc'[q] = proc[q]
    BY <2>1, <2>3 DEF NewRun, MadeOK
  <2>5. Accounts(p)
    BY <1>3, <2>2, <2>4, SameTables DEF Start, Accounts
  <2> QED BY <1>1, <2>4, <2>5
<1>4. ASSUME Edit PROVE Accounted'
  <2>1. rules' = rules /\ proc' = proc /\ user' = <<"other">> \o user /\ TablesOK
    BY <1>4 DEF Edit, IInv, TypeOK, TablesOK
  <2>2. Hollow' => Hollow
    BY <2>1, Prepended DEF Hollow, Full
  <2> QED BY <2>1, <2>2 DEF Accounted
<1>5. ASSUME UNCHANGED vars PROVE Accounted'
  <2>1. proc' = proc /\ UNCHANGED tables
    BY <1>5 DEF vars
  <2> QED BY <2>1, SameTables DEF Accounted
<1> QED BY <1>2, <1>3, <1>4, <1>5 DEF Next

LEMMA InitAccounted == Init => Accounted
<1> SUFFICES ASSUME Init PROVE Accounted
  OBVIOUS
<1>1. NoJump
  BY DEF Init, NoJump, JumpsAt
<1>2. \A p \in Procs : ~proc[p].txn
  BY DEF Init, NewRun
<1> QED BY <1>1, <1>2 DEF Accounted, Hollow, MadeOK

(***************************************************************************)
(* When every run is over, a jump into an incomplete chain was reported:   *)
(* by the clean-up or the remove that failed, or its run was cut short.    *)
(* This holds for overlapping runs too.                                    *)
(***************************************************************************)
THEOREM HollowsAreReported == Spec => []HollowWasReported
<1>1. IInv /\ Accounted => HollowWasReported
  <2> SUFFICES ASSUME IInv, Accounted, JumpsAt # {}, rules # Full,
                      \A p \in Procs : ~Active(p)
               PROVE  \E p \in Procs :
                        /\ proc[p].exit = "failed"
                        /\ proc[p].said \/ proc[p].cut \/ proc[p].op = "remove"
    BY DEF HollowWasReported
  <2>1. PICK p \in Procs : Answers(proc[p])
    BY DEF Accounted, Hollow, NoJump
  <2>2. proc[p].pc \in {"idle", "over"}
    BY DEF Active
  <2>3. ~InFlight(proc[p]) /\ ~Destroying(proc[p])
    BY <2>2 DEF InFlight, Destroying, CleanupSteps, RemoveSteps
  <2> QED BY <2>1, <2>3 DEF Answers, Excusable
<1>2. IInv /\ Accounted /\ [Next]_vars => Accounted'
  BY NextAccounted
<1> QED BY <1>1, <1>2, InitAccounted, Invariance, PTL DEF Spec

=============================================================================
