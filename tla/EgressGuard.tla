----------------------------- MODULE EgressGuard -----------------------------
(***************************************************************************)
(* The egress firewall guard (firewall/scotty-egress-guard): a chain of    *)
(* reject rules and the one jump to it from DOCKER-USER.  Each run of the  *)
(* script is a process: apply, verify or remove.  systemd runs them, the   *)
(* installer does, and so may the operator, so that runs can overlap.      *)
(*                                                                         *)
(* Every iptables command may be refused, and may take effect and still    *)
(* report failure; every inventory may fail.  A signal runs the EXIT trap  *)
(* from where the script is, that is with the ownership flags set so far;  *)
(* a second one ends the trap.  The count of rules is a parameter.         *)
(***************************************************************************)
EXTENDS Integers, FiniteSets, Sequences

CONSTANTS
  Procs,      \* runs of the script, each started once at most
  NRules,     \* length of RULES
  MaxEdits    \* bound: rules that others put into DOCKER-USER

VARIABLES
  listed,     \* the chain SCOTTY-EGRESS exists
  rules,      \* its rules, as indices into RULES
  user,       \* DOCKER-USER: the jump to the chain, and rules of others
  proc,       \* [Procs -> run]
  edits,      \* changes by others so far
  \* History, read by properties only:
  quiet,      \* runs during and after which nobody else changed the tables
  overlap     \* two runs of apply or remove have overlapped

tables == <<listed, rules, user>>
vars == <<tables, proc, edits, quiet, overlap>>

ASSUME EgressAssumption ==
  /\ IsFiniteSet(Procs)
  /\ NRules \in Nat \ {0}
  /\ MaxEdits \in Nat

Full == [k \in 1..NRules |-> k]
Ops == {"apply", "verify", "remove"}

ApplySteps == {"probe", "create", "created", "append", "jump", "jumped", "commit"}
VerifySteps == {"first", "second", "leave"}
CleanupSteps == {"detach", "unhook", "chain", "flush", "drop"}
RemoveSteps == {"tables", "jumps", "unjump", "unjumped", "empty", "emptied",
                "delete", "deleted", "noChain", "noJump"}
Steps == {"idle", "over"} \cup ApplySteps \cup VerifySteps
           \cup CleanupSteps \cup RemoveSteps

\* txn: APPLY_TRANSACTION and not APPLY_COMMITTED.  made, tied: CREATED_CHAIN,
\* ATTACHED_JUMP.  fine: the last command's status was 0.  i: the next rule.
\* saw: remove's chain_count.  said: a message names what may be left behind.
\* cut: a signal came between a command and its flag, or into the clean-up.
Runs == [op : Ops, pc : Steps, txn : BOOLEAN, made : BOOLEAN, tied : BOOLEAN,
         fine : BOOLEAN, i : 1..NRules, saw : BOOLEAN, said : BOOLEAN,
         cut : BOOLEAN, exit : {"none", "ok", "failed"}]

NewRun(op, pc) ==
  [op |-> op, pc |-> pc, txn |-> FALSE, made |-> FALSE, tied |-> FALSE,
   fine |-> TRUE, i |-> 1, saw |-> FALSE, said |-> FALSE, cut |-> FALSE,
   exit |-> "none"]

Init ==
  /\ listed = FALSE /\ rules = <<>> /\ user = <<"other">>
  /\ proc = [p \in Procs |-> NewRun("verify", "idle")]
  /\ edits = 0
  /\ quiet = {} /\ overlap = FALSE

JumpsAt == {k \in DOMAIN user : user[k] = "jump"}
Jumps == Cardinality(JumpsAt)

\* verify's two questions: is the jump the first rule and the only one,
\* and are the rules of the chain exactly RULES?
JumpInPlace == JumpsAt = {1}
Complete == listed /\ rules = Full
InForce == JumpInPlace /\ Complete
Gone == ~listed /\ JumpsAt = {}

-----------------------------------------------------------------------------
(* Parts of a step *)

\* A command is refused, or takes effect and may still report failure.
Command(can, l, r, u, fine) ==
  \/ can /\ listed' = l /\ rules' = r /\ user' = u
  \/ ~fine /\ UNCHANGED tables

NewChain(fine) == Command(~listed, TRUE, <<>>, user, fine)
AppendRule(k, fine) == Command(listed, TRUE, Append(rules, k), user, fine)
InsertJump(fine) == Command(listed, TRUE, rules, <<"jump">> \o user, fine)
FlushChain(fine) == Command(listed, TRUE, <<>>, user, fine)
DeleteChain(fine) ==
  Command(listed /\ rules = <<>> /\ JumpsAt = {}, FALSE, <<>>, user, fine)

\* -D removes the first rule that fits.
DeleteJump(fine) ==
  \E u \in {[k \in 1..(Len(user) - 1) |->
               IF \E j \in 1..k : user[j] = "jump" THEN user[k + 1] ELSE user[k]]} :
     Command(JumpsAt # {}, listed, rules, u, fine)

Become(p, r) == proc' = [proc EXCEPT ![p] = r]
Goto(p, pc) == Become(p, [proc[p] EXCEPT !.pc = pc])

\* Of a run that is over remains how it ended.
Final(r) ==
  [r EXCEPT !.pc = "over", !.made = FALSE, !.tied = FALSE, !.fine = TRUE,
            !.i = 1, !.saw = FALSE]

\* die, the ERR trap and a signal end in the EXIT trap: cleanup_apply acts
\* for an uncommitted transaction, by the flags, and keeps the status.
Ended(r) ==
  IF r.txn /\ r.made
  THEN [r EXCEPT !.exit = "failed", !.pc = IF r.tied THEN "detach" ELSE "chain"]
  ELSE Final([r EXCEPT !.exit = "failed"])

Die(p, r) == Become(p, Ended(r))

Over(p, exit) == Become(p, Final([proc[p] EXCEPT !.exit = exit]))

\* A probe at step `from` that fails ends the run; otherwise it goes on at
\* `to` if what it read is as it must be.
Probe(p, from, good, to) ==
  /\ proc[p].pc = from
  /\ \/ good /\ Goto(p, to)
     \/ Die(p, proc[p])
  /\ UNCHANGED tables

-----------------------------------------------------------------------------
(* apply *)

\* Mutated form: a chain of that name is taken to be the guard.
BelievesApplied(p) ==
  /\ proc[p].pc = "probe"
  /\ \/ Become(p, [proc[p] EXCEPT !.pc = IF listed THEN "leave" ELSE "create",
                                  !.txn = ~listed])
     \/ Die(p, proc[p])
  /\ UNCHANGED tables

\* Mutated form: an idempotent apply, which fills the chain again.
AppliesAnyway(p) ==
  /\ proc[p].pc = "probe"
  /\ Become(p, [proc[p] EXCEPT !.pc = IF listed THEN "append" ELSE "create",
                               !.txn = TRUE])
  /\ UNCHANGED tables

\* A chain that exists is verified and never changed.
ProbeTables(p) ==
  /\ proc[p].pc = "probe"
  /\ \/ Become(p, [proc[p] EXCEPT !.pc = IF listed THEN "first" ELSE "create",
                                  !.txn = ~listed])
     \/ Die(p, proc[p])
  /\ UNCHANGED tables

Create(p) ==
  /\ proc[p].pc = "create"
  /\ \E fine \in BOOLEAN :
       /\ NewChain(fine)
       /\ Become(p, [proc[p] EXCEPT !.pc = "created", !.fine = fine])

\* Mutated form: the flag follows the status alone.
FlagsByStatus(p) ==
  /\ proc[p].pc = "created"
  /\ UNCHANGED tables
  /\ \/ LET r == [proc[p] EXCEPT !.made = proc[p].fine] IN
        IF r.fine /\ listed THEN Become(p, [r EXCEPT !.pc = "append"]) ELSE Die(p, r)
     \/ Die(p, [proc[p] EXCEPT !.made = proc[p].fine, !.said = ~proc[p].fine])

\* The flag follows the inventory, and the status where that failed.
ProbeCreated(p) ==
  /\ proc[p].pc = "created"
  /\ UNCHANGED tables
  /\ \/ LET r == [proc[p] EXCEPT !.made = listed] IN
        IF r.fine /\ r.made THEN Become(p, [r EXCEPT !.pc = "append"]) ELSE Die(p, r)
     \/ Die(p, [proc[p] EXCEPT !.made = proc[p].fine, !.said = ~proc[p].fine])

AppendNext(p) ==
  /\ proc[p].pc = "append"
  /\ \E fine \in BOOLEAN :
       /\ AppendRule(proc[p].i, fine)
       /\ IF ~fine THEN Die(p, proc[p])
          ELSE IF proc[p].i = NRules THEN Goto(p, "jump")
          ELSE Become(p, [proc[p] EXCEPT !.i = @ + 1])

Attach(p) ==
  /\ proc[p].pc = "jump"
  /\ \E fine \in BOOLEAN :
       /\ InsertJump(fine)
       /\ Become(p, [proc[p] EXCEPT !.pc = "jumped", !.fine = fine])

ProbeAttached(p) ==
  /\ proc[p].pc = "jumped"
  /\ UNCHANGED tables
  /\ \/ LET r == [proc[p] EXCEPT !.tied = JumpsAt # {}] IN
        IF r.fine /\ r.tied THEN Become(p, [r EXCEPT !.pc = "first"]) ELSE Die(p, r)
     \/ Die(p, [proc[p] EXCEPT !.tied = proc[p].fine, !.said = ~proc[p].fine])

VerifyJump(p) == Probe(p, "first", JumpInPlace, "second")

VerifyChain(p) ==
  Probe(p, "second", Complete, IF proc[p].txn THEN "commit" ELSE "leave")

Commit(p) ==
  /\ proc[p].pc = "commit"
  /\ Become(p, [proc[p] EXCEPT !.pc = "leave", !.txn = FALSE])
  /\ UNCHANGED tables

Leave(p) ==
  /\ proc[p].pc = "leave"
  /\ Over(p, "ok")
  /\ UNCHANGED tables

-----------------------------------------------------------------------------
(* cleanup_apply *)

Messy(r, messy) == [r EXCEPT !.said = @ \/ messy]

ProbeDetach(p) ==
  /\ proc[p].pc = "detach"
  /\ UNCHANGED tables
  /\ \/ Goto(p, IF JumpsAt # {} THEN "unhook" ELSE "chain")
     \/ Become(p, [Messy(proc[p], TRUE) EXCEPT !.pc = "chain"])

\* A failed detachment does not keep the chain from being emptied.
Unhook(p) ==
  /\ proc[p].pc = "unhook"
  /\ \E fine \in BOOLEAN :
       /\ DeleteJump(fine)
       /\ Become(p, [Messy(proc[p], ~fine) EXCEPT !.pc = "chain"])

ProbeChain(p) ==
  /\ proc[p].pc = "chain"
  /\ UNCHANGED tables
  /\ \/ listed /\ Goto(p, "flush")
     \/ Become(p, Final(Messy(proc[p], TRUE)))

Flush(p) ==
  /\ proc[p].pc = "flush"
  /\ \E fine \in BOOLEAN :
       /\ FlushChain(fine)
       /\ Become(p, [Messy(proc[p], ~fine) EXCEPT !.pc = "drop"])

\* Mutated form: the status of -X is dropped.
DropsQuietly(p) ==
  /\ proc[p].pc = "drop"
  /\ \E fine \in BOOLEAN : DeleteChain(fine) /\ Become(p, Final(proc[p]))

Drop(p) ==
  /\ proc[p].pc = "drop"
  /\ \E fine \in BOOLEAN :
       /\ DeleteChain(fine)
       /\ Become(p, Final(Messy(proc[p], ~fine)))

-----------------------------------------------------------------------------
(* remove *)

\* The two inventories that the rest of remove decides by.
ProbeOwned(p) ==
  /\ proc[p].pc = "tables"
  /\ UNCHANGED tables
  /\ \/ Become(p, [proc[p] EXCEPT !.pc = "jumps", !.saw = listed])
     \/ Die(p, proc[p])

ChainNext(p) == IF proc[p].saw THEN "empty" ELSE "noChain"

ProbeJumps(p) ==
  Probe(p, "jumps", Jumps <= 1, IF Jumps = 1 THEN "unjump" ELSE ChainNext(p))

\* A command whose status is used in a message only.
Acts(p, from, to) == proc[p].pc = from /\ Goto(p, to)

\* Each removal is believed only when an inventory shows its result.
Unjump(p) == Acts(p, "unjump", "unjumped") /\ \E fine \in BOOLEAN : DeleteJump(fine)
ProbeUnjumped(p) == Probe(p, "unjumped", JumpsAt = {}, ChainNext(p))

Empty(p) == Acts(p, "empty", "emptied") /\ \E fine \in BOOLEAN : FlushChain(fine)
ProbeEmptied(p) == Probe(p, "emptied", listed /\ rules = <<>>, "delete")
Delete(p) == Acts(p, "delete", "deleted") /\ \E fine \in BOOLEAN : DeleteChain(fine)
ProbeDeleted(p) == Probe(p, "deleted", ~listed, "noChain")
ProbeNoChain(p) == Probe(p, "noChain", ~listed, "noJump")

ProbeNoJump(p) ==
  /\ proc[p].pc = "noJump"
  /\ UNCHANGED tables
  /\ \/ JumpsAt = {} /\ Over(p, "ok")
     \/ Die(p, proc[p])

-----------------------------------------------------------------------------
(* Starts, signals, others *)

Active(p) == proc[p].pc \notin {"idle", "over"}

EntryOf(op) ==
  CASE op = "apply" -> "probe" [] op = "verify" -> "first" [] op = "remove" -> "tables"

Start(p, op) ==
  /\ proc[p].pc = "idle"
  /\ Become(p, NewRun(op, EntryOf(op)))
  /\ overlap' = (overlap \/ (op # "verify"
                   /\ \E q \in Procs : Active(q) /\ proc[q].op # "verify"))
  /\ quiet' = quiet \cup {p}
  /\ UNCHANGED <<tables, edits>>

\* SIGINT, SIGTERM.  The trap runs when the command in hand has ended, before
\* the script has looked at it.
Signal(p) ==
  /\ Active(p)
  /\ LET r == [proc[p] EXCEPT
                 !.cut = @ \/ proc[p].pc \in {"created", "jumped"} \cup CleanupSteps]
     IN IF r.pc \in CleanupSteps
        THEN Become(p, Final(r))
        ELSE Die(p, r)
  /\ UNCHANGED <<tables, edits, quiet, overlap>>

\* Somebody else's rule is put on top of DOCKER-USER.
Edit ==
  /\ edits < MaxEdits
  /\ edits' = edits + 1
  /\ user' = <<"other">> \o user
  /\ quiet' = {}
  /\ UNCHANGED <<listed, rules, proc, overlap>>

ApplyStep(p) ==
  \/ ProbeTables(p) \/ Create(p) \/ ProbeCreated(p) \/ AppendNext(p)
  \/ Attach(p) \/ ProbeAttached(p) \/ Commit(p)
VerifyStep(p) == VerifyJump(p) \/ VerifyChain(p) \/ Leave(p)
CleanupStep(p) ==
  ProbeDetach(p) \/ Unhook(p) \/ ProbeChain(p) \/ Flush(p) \/ Drop(p)
RemoveStep(p) ==
  \/ ProbeOwned(p) \/ ProbeJumps(p) \/ Unjump(p) \/ ProbeUnjumped(p)
  \/ Empty(p) \/ ProbeEmptied(p) \/ Delete(p) \/ ProbeDeleted(p)
  \/ ProbeNoChain(p) \/ ProbeNoJump(p)

\* A step of one run; it disturbs the others if the tables change.
Run(p) ==
  /\ ApplyStep(p) \/ VerifyStep(p) \/ CleanupStep(p) \/ RemoveStep(p)
  /\ quiet' = IF tables' = tables THEN quiet ELSE quiet \cap {p}
  /\ UNCHANGED <<edits, overlap>>

Next ==
  \/ \E p \in Procs : Run(p) \/ Signal(p)
  \/ \E p \in Procs, op \in Ops : Start(p, op)
  \/ Edit

Spec == Init /\ [][Next]_vars

-----------------------------------------------------------------------------
(* Properties *)

TypeOK ==
  /\ listed \in BOOLEAN
  /\ rules \in Seq(1..NRules)
  /\ ~listed => rules = <<>>
  /\ user \in Seq({"jump", "other"})
  /\ proc \in [Procs -> Runs]
  /\ edits \in 0..MaxEdits
  /\ quiet \subseteq Procs
  /\ overlap \in BOOLEAN

\* A run that ended well tells the truth for as long as nobody else touches
\* the tables: after apply or verify the guard is in force, after remove it
\* is gone.  (What systemd's "active" and the installer's clean-up rest on.)
SuccessIsTrue ==
  \A p \in quiet : proc[p].exit = "ok" =>
    IF proc[p].op = "remove" THEN Gone ELSE InForce

\* An apply that fails while its transaction is open (txn) leaves neither chain
\* nor jump, or says that it may have; the exceptions are a signal between a
\* command and its flag, one in the clean-up, and another run of the script at
\* the same time.  Not meant is an apply that found the guard in place and only
\* verified it, nor one killed when it had committed: those leave what is there.
FailureIsCleanOrSaid ==
  [][\A p \in Procs :
       (/\ proc'[p].pc = "over" /\ proc[p].pc # "over"
        /\ proc'[p].txn /\ ~proc'[p].said /\ ~proc'[p].cut
        /\ ~overlap') => Gone']_vars

\* When all runs are over, a jump that leads to an incomplete chain, so that
\* nothing is filtered, was reported: by the clean-up that left it, by a
\* failed remove, or a signal cut the run short.
HollowWasReported ==
  (JumpsAt # {} /\ rules # Full /\ \A p \in Procs : ~Active(p)) =>
    \E p \in Procs : /\ proc[p].exit = "failed"
                     /\ proc[p].said \/ proc[p].cut \/ proc[p].op = "remove"

\* As long as runs do not overlap there is one jump at most, whatever failed
\* before, so that remove never refuses what apply left.
OneJump == Jumps <= 1 \/ overlap

=============================================================================
