------------------------- MODULE Installer_proofs -------------------------
(***************************************************************************)
(* Theorems about the installer, for any number of rules, edits of         *)
(* DOCKER-USER by others and failures of the clean-up.                     *)
(*                                                                         *)
(* InstallInv is what the main part has established when it commits: the   *)
(* unit was enabled before it became active, everything was there when the *)
(* guard's verify began, and (VerifyKnows) that run, if nobody changed the *)
(* tables meanwhile, is right about them at each of its steps.             *)
(*                                                                         *)
(* ToolsInv, after that, is why the executable outlasts the firewall;      *)
(* FilesInv why what others had is kept, whatever is flagged; LeftInv why  *)
(* what is left behind is said to be.  At the end the guard: the           *)
(* installer's behaviours are EgressGuard's, whose theorems then hold      *)
(* here, and the types.                                                    *)
(***************************************************************************)
EXTENDS Installer, SequenceTheorems, TLAPS

VerifyRuns ==
  [op : {"verify"}, pc : {"idle", "first", "second", "leave", "over"},
   txn : {FALSE}, made : {FALSE}, tied : {FALSE}, fine : {TRUE}, i : {1},
   saw : {FALSE}, said : {FALSE}, cut : {FALSE}, exit : {"none", "ok", "failed"}]

VerifyKnows ==
  LET r == proc["verify"] IN
  /\ proc \in [Procs -> {proc[p] : p \in Procs}]
  /\ r \in VerifyRuns
  /\ r.pc # "over" => r.exit = "none"
  /\ "verify" \in quiet =>
       /\ r.pc = "second" => G!JumpInPlace
       /\ r.pc = "leave" => G!InForce
       /\ r.exit = "ok" => G!InForce

Ready == /\ FileObjects \subseteq mine \cup theirs /\ DockerObjects \subseteq mine
         /\ unit.active = "active"

-----------------------------------------------------------------------------
(* The guard *)

\* The run of verify is not touched, and is warned if the tables are.
LEMMA ElsewhereKnows ==
  ASSUME VerifyKnows, NEW p \in Procs \ {"verify"}, NEW r, G!Become(p, r),
         \/ UNCHANGED <<listed, rules, user>> /\ quiet' \subseteq quiet \cup {p}
         \/ quiet' \subseteq {p}
  PROVE  VerifyKnows' /\ proc'["verify"] = proc["verify"]
<1>1. proc' = [proc EXCEPT ![p] = r] /\ "verify" \in Procs
  BY DEF G!Become, Procs
<1>2. proc'["verify"] = proc["verify"]
  BY <1>1 DEF VerifyKnows
<1>3. proc' \in [Procs -> {proc'[q] : q \in Procs}]
  BY <1>1 DEF VerifyKnows
<1> QED BY <1>1, <1>2, <1>3 DEF VerifyKnows, G!JumpInPlace, G!InForce, G!Complete, G!JumpsAt

LEMMA VerifyMoves ==
  ASSUME VerifyKnows, NEW r \in VerifyRuns, G!Become("verify", r),
         UNCHANGED <<listed, rules, user>>, r.pc # "over" => r.exit = "none",
         "verify" \in quiet' =>
            /\ r.pc = "second" => G!JumpInPlace
            /\ r.pc = "leave" => G!InForce
            /\ r.exit = "ok" => G!InForce
  PROVE  VerifyKnows' /\ proc'["verify"] = r
<1>1. proc' = [proc EXCEPT !["verify"] = r] /\ "verify" \in Procs
  BY DEF G!Become, Procs
<1>2. proc'["verify"] = r
  BY <1>1 DEF VerifyKnows
<1>3. proc' \in [Procs -> {proc'[q] : q \in Procs}]
  BY <1>1 DEF VerifyKnows
<1> QED BY <1>1, <1>2, <1>3 DEF VerifyKnows, G!JumpInPlace, G!InForce, G!Complete, G!JumpsAt

LEMMA FinalVerify ==
  ASSUME NEW r \in VerifyRuns, NEW exit \in {"ok", "failed"}
  PROVE  /\ G!Final([r EXCEPT !.exit = exit]) \in VerifyRuns
         /\ G!Final([r EXCEPT !.exit = exit]).pc = "over"
         /\ G!Final([r EXCEPT !.exit = exit]).exit = exit
BY DEF G!Final, VerifyRuns

\* Every step of another run, with what it does to quiet.
LEMMA OthersRun ==
  ASSUME NEW p \in Procs, G!Run(p)
  PROVE  /\ \E r : G!Become(p, r)
         /\ \/ UNCHANGED <<listed, rules, user>> /\ quiet' = quiet
            \/ quiet' \subseteq {p}
<1>1. \E r : G!Become(p, r)
  BY DEF G!Run, G!ApplyStep, G!VerifyStep, G!CleanupStep, G!RemoveStep, G!ProbeTables, G!Create,
     G!ProbeCreated, G!AppendNext, G!Attach, G!ProbeAttached, G!Commit, G!VerifyJump, G!VerifyChain,
     G!Leave, G!ProbeDetach, G!Unhook, G!ProbeChain, G!Flush, G!Drop, G!ProbeOwned, G!ProbeJumps,
     G!Unjump, G!ProbeUnjumped, G!Empty, G!ProbeEmptied, G!Delete, G!ProbeDeleted, G!ProbeNoChain,
     G!ProbeNoJump, G!Probe, G!Acts, G!Goto, G!Die, G!Over
<1> QED BY <1>1 DEF G!Run, G!tables

\* The run of verify makes no other steps than those of verify.
LEMMA VerifyRun ==
  ASSUME VerifyKnows, G!Run("verify")
  PROVE  VerifyKnows'
<1> DEFINE r == proc["verify"]
<1>1. r \in VerifyRuns /\ r.pc \in {"idle", "first", "second", "leave", "over"} /\ r.txn = FALSE
  BY DEF VerifyKnows, VerifyRuns
<1>2. G!VerifyStep("verify")
  BY <1>1 DEF G!Run, G!ApplyStep, G!CleanupStep, G!RemoveStep, G!ProbeTables, G!Create,
     G!ProbeCreated, G!AppendNext, G!Attach, G!ProbeAttached, G!Commit, G!ProbeDetach, G!Unhook,
     G!ProbeChain, G!Flush, G!Drop, G!ProbeOwned, G!ProbeJumps, G!Unjump, G!ProbeUnjumped, G!Empty,
     G!ProbeEmptied, G!Delete, G!ProbeDeleted, G!ProbeNoChain, G!ProbeNoJump, G!Probe, G!Acts
<1>3. /\ UNCHANGED <<listed, rules, user>> /\ quiet' = quiet
      /\ r.pc \in {"first", "second", "leave"} /\ r.exit = "none"
  <2>1. UNCHANGED G!tables /\ r.pc \in {"first", "second", "leave"}
    BY <1>2 DEF G!VerifyStep, G!VerifyJump, G!VerifyChain, G!Leave, G!Probe
  <2> QED BY <2>1 DEF G!Run, G!tables, VerifyKnows
<1>4. CASE G!Die("verify", r)
  <2>1. G!Become("verify", G!Final([r EXCEPT !.exit = "failed"]))
    BY <1>1, <1>4 DEF G!Die, G!Ended
  <2> QED BY <1>1, <1>3, <2>1, FinalVerify, VerifyMoves
<1>5. CASE r.pc = "first" /\ G!JumpInPlace /\ G!Goto("verify", "second")
  <2>1. [r EXCEPT !.pc = "second"] \in VerifyRuns /\ [r EXCEPT !.pc = "second"].exit = "none"
        /\ [r EXCEPT !.pc = "second"].pc = "second"
    BY <1>1, <1>3 DEF VerifyRuns
  <2> QED BY <1>3, <1>5, <2>1, VerifyMoves DEF G!Goto
<1>6. CASE r.pc = "second" /\ G!Complete /\ G!Goto("verify", "leave")
  <2>1. [r EXCEPT !.pc = "leave"] \in VerifyRuns /\ [r EXCEPT !.pc = "leave"].exit = "none"
        /\ [r EXCEPT !.pc = "leave"].pc = "leave"
    BY <1>1, <1>3 DEF VerifyRuns
  <2>2. "verify" \in quiet => G!InForce
    BY <1>6 DEF VerifyKnows, G!InForce
  <2> QED BY <1>3, <1>6, <2>1, <2>2, VerifyMoves DEF G!Goto
<1>7. CASE r.pc = "leave" /\ G!Over("verify", "ok")
  <2>1. "verify" \in quiet => G!InForce
    BY <1>7 DEF VerifyKnows
  <2> QED BY <1>1, <1>3, <1>7, <2>1, FinalVerify, VerifyMoves DEF G!Over
<1> QED BY <1>1, <1>2, <1>3, <1>4, <1>5, <1>6, <1>7
        DEF G!VerifyStep, G!VerifyJump, G!VerifyChain, G!Leave, G!Probe

\* A run of verify that is over stays as it is.
Kept == proc["verify"].pc = "over" => proc'["verify"] = proc["verify"]

LEMMA GuardSteps ==
  ASSUME VerifyKnows, G!Edit \/ \E p \in Procs : G!Run(p)
  PROVE  VerifyKnows' /\ Kept
<1>1. CASE G!Edit
  BY <1>1 DEF G!Edit, VerifyKnows, Kept
<1>2. ASSUME NEW p \in Procs, G!Run(p), p # "verify" PROVE VerifyKnows' /\ Kept
  BY <1>2, OthersRun, ElsewhereKnows DEF Kept
<1>3. CASE G!Run("verify")
  <2>1. proc["verify"].pc # "over"
    BY <1>3 DEF G!Run, G!ApplyStep, G!VerifyStep, G!CleanupStep, G!RemoveStep, G!ProbeTables,
       G!Create, G!ProbeCreated, G!AppendNext, G!Attach, G!ProbeAttached, G!Commit, G!VerifyJump,
       G!VerifyChain, G!Leave, G!ProbeDetach, G!Unhook, G!ProbeChain, G!Flush, G!Drop,
       G!ProbeOwned, G!ProbeJumps, G!Unjump, G!ProbeUnjumped, G!Empty, G!ProbeEmptied, G!Delete,
       G!ProbeDeleted, G!ProbeNoChain, G!ProbeNoJump, G!Probe, G!Acts
  <2> QED BY <1>3, <2>1, VerifyRun DEF Kept
<1> QED BY <1>1, <1>2, <1>3

LEMMA StartKnows ==
  ASSUME VerifyKnows, NEW p \in Procs, NEW op, G!Start(p, op), p = "verify" => op = "verify"
  PROVE  VerifyKnows' /\ Kept
<1>1. /\ G!Become(p, G!NewRun(op, G!EntryOf(op))) /\ proc[p].pc = "idle"
      /\ UNCHANGED <<listed, rules, user>> /\ quiet' = quiet \cup {p}
  BY DEF G!Start, G!tables
<1>2. CASE p # "verify"
  BY <1>1, <1>2, ElsewhereKnows DEF Kept
<1>3. CASE p = "verify"
  <2> DEFINE r == G!NewRun("verify", "first")
  <2>1. r \in VerifyRuns /\ r.pc = "first" /\ r.exit = "none"
    BY DEF G!NewRun, VerifyRuns
  <2>2. G!Become("verify", r)
    BY <1>1, <1>3 DEF G!EntryOf
  <2> HIDE DEF r
  <2> QED BY <1>1, <1>3, <2>1, <2>2, VerifyMoves DEF Kept
<1> QED BY <1>2, <1>3

LEMMA SignalKnows ==
  ASSUME VerifyKnows, G!Signal("start")
  PROVE  VerifyKnows' /\ Kept
<1>1. \E r : G!Become("start", r)
  BY DEF G!Signal, G!Die
<1>2. UNCHANGED <<listed, rules, user>> /\ quiet' = quiet /\ "start" \in Procs \ {"verify"}
  BY DEF G!Signal, G!tables, Procs
<1> QED BY <1>1, <1>2, ElsewhereKnows DEF Kept

\* Whatever a step does to the guard leaves VerifyKnows true.
LEMMA NextKnows ==
  ASSUME VerifyKnows, [Next]_vars
  PROVE  VerifyKnows' /\ Kept
<1>1. ASSUME GuardIdle PROVE VerifyKnows' /\ Kept
  BY <1>1 DEF GuardIdle, guardVars, VerifyKnows, Kept, G!JumpInPlace, G!InForce, G!Complete,
     G!JumpsAt
<1>2. CASE Enable
  <2>1. GuardIdle \/ G!Start("start", "apply")
    BY <1>2 DEF Enable
  <2> QED BY <1>1, <2>1, StartKnows DEF Procs
<1>3. CASE Verify
  <2>1. GuardIdle \/ G!Start("verify", "verify")
    BY <1>3 DEF Verify
  <2> QED BY <1>1, <2>1, StartKnows DEF Procs
<1>4. CASE StopUnit
  <2>1. GuardIdle \/ G!Signal("start") \/ G!Start("stop", "remove")
    BY <1>4 DEF StopUnit, StopJob
  <2> QED BY <1>1, <2>1, StartKnows, SignalKnows DEF Procs
<1>5. CASE RunRemove
  BY <1>5, StartKnows DEF RunRemove, Procs
<1>6. CASE GuardStep
  BY <1>6, GuardSteps DEF GuardStep
<1>7. CASE UNCHANGED vars
  BY <1>1, <1>7 DEF vars, GuardIdle
<1>8. CASE Main
  BY <1>1, <1>2, <1>3, <1>8 DEF Main, Preflight, Reload, Enabled, CheckFile, InstallFile,
     LookFile, MakeDocker, LookDocker, InspectLabel, GuardVerified, Commit
<1>9. CASE Cleanup
  BY <1>1, <1>4, <1>5, <1>9 DEF Cleanup, Skip, CleanReload, Stopped, Removed, Disable, Finish,
     CleanFile, CleanDocker
<1>10. CASE Interrupt \/ InterruptClean \/ UnitStep \/ \E o \in Free : Others(o)
  BY <1>1, <1>10 DEF Interrupt, InterruptClean, UnitStep, Others
<1> QED BY <1>6, <1>7, <1>8, <1>9, <1>10 DEF Next

-----------------------------------------------------------------------------
(* The installer *)

Units == [loaded : BOOLEAN, enabled : BOOLEAN,
          active : {"inactive", "starting", "active", "failed", "stopping"}]

LinkedOK == pc \in MainSteps /\ unit.active \in {"starting", "active"} => unit.enabled
ReadyOK == /\ pc \in {"guard", "commit"} => Ready
           /\ pc = "commit" => proc["verify"].pc = "over" /\ proc["verify"].exit = "ok"

InstallInv == /\ VerifyKnows
              /\ mine \subseteq Objects /\ unit \in Units
              /\ LinkedOK /\ ReadyOK

\* In the main part Reload and Enable change the unit, and its jobs end; the
\* clean-up comes from there and never goes back.
LEMMA UnitTyped ==
  ASSUME InstallInv, Next
  PROVE  unit' \in Units /\ LinkedOK'
<1> unit \in Units /\ LinkedOK
  BY DEF InstallInv
<1>0. ASSUME NEW u \in Units, NEW b \in BOOLEAN
      PROVE  /\ [u EXCEPT !.loaded = b] \in Units /\ [u EXCEPT !.loaded = b].enabled = u.enabled
             /\ [u EXCEPT !.loaded = b].active = u.active
             /\ [u EXCEPT !.enabled = b] \in Units
  BY DEF Units
<1>1. CASE Reload
  <2>1. PICK b \in BOOLEAN : unit' = [unit EXCEPT !.loaded = b]
    BY <1>1 DEF Reload
  <2> QED BY <1>0, <1>1, <2>1 DEF Reload, LinkedOK, MainSteps
<1>2. CASE Enable
  <2>1. CASE unit' = [loaded |-> TRUE, enabled |-> TRUE, active |-> "starting"]
    BY <2>1 DEF Units, LinkedOK
  <2>2. CASE Abort /\ \E linked \in BOOLEAN :
                        unit' = [unit EXCEPT !.enabled = linked, !.loaded = @ \/ linked]
    <3>1. unit' \in Units
      BY <2>2 DEF Units
    <3> QED BY <2>2, <3>1 DEF Abort, LinkedOK, MainSteps
  <2> QED BY <1>2, <2>1, <2>2 DEF Enable
<1>3. CASE UnitStep
  <2>1. PICK a \in {"active", "failed", "inactive"} :
          /\ unit' = [unit EXCEPT !.active = a] /\ UNCHANGED pc
          /\ a = "active" => unit.active = "starting"
    BY <1>3 DEF UnitStep, flow
  <2>2. unit' \in Units /\ unit'.active = a /\ unit'.enabled = unit.enabled
    BY <2>1 DEF Units
  <2> QED BY <2>1, <2>2 DEF LinkedOK
<1>4. ASSUME pc' \notin MainSteps, unit' \in Units PROVE unit' \in Units /\ LinkedOK'
  BY <1>4 DEF LinkedOK
<1>5. CASE Cleanup
  <2>1. pc' \notin MainSteps
    BY <1>5 DEF Cleanup, Skip, CleanReload, StopUnit, Stopped, RunRemove, Removed, Disable, Finish,
       CleanFile, CleanDocker, Onward, Goto, MainSteps
  <2>2. CASE CleanReload
    <3>1. ("unit" \in mine) \in BOOLEAN
      OBVIOUS
    <3>2. PICK b \in BOOLEAN : unit' = unit \/ unit' = [unit EXCEPT !.loaded = b]
      BY <2>2, <3>1 DEF CleanReload
    <3> QED BY <1>0, <1>4, <2>1, <3>2
  <2>3. CASE StopUnit
    <3>1. unit' \in Units
      <4>1. CASE UNCHANGED unit
        BY <4>1
      <4>2. CASE unit' = [unit EXCEPT !.enabled = FALSE,
                                      !.active = IF @ \in {"starting", "active"}
                                                 THEN "stopping" ELSE @]
        BY <4>2 DEF Units
      <4> QED BY <2>3, <4>1, <4>2 DEF StopUnit
    <3> QED BY <1>4, <2>1, <3>1
  <2>4. CASE Disable
    <3>1. unit' \in Units
      <4>1. PICK b \in BOOLEAN : unit' = [unit EXCEPT !.enabled = @ /\ b]
        <5>1. PICK unlinked \in BOOLEAN : unit' = [unit EXCEPT !.enabled = @ /\ ~unlinked]
          BY <2>4 DEF Disable
        <5> QED BY <5>1
      <4>2. (unit.enabled /\ b) \in BOOLEAN
        OBVIOUS
      <4> QED BY <4>1, <4>2 DEF Units
    <3> QED BY <1>4, <2>1, <3>1
  <2>5. CASE UNCHANGED unit
    BY <1>4, <2>1, <2>5
  <2> QED BY <1>5, <2>2, <2>3, <2>4, <2>5 DEF Cleanup, Skip, Stopped, RunRemove, Removed, Finish,
     CleanFile, CleanDocker, world
<1>6. CASE UNCHANGED unit /\ (pc \in MainSteps \/ pc' \notin MainSteps)
  BY <1>6 DEF LinkedOK
<1>7. CASE Main /\ ~Reload /\ ~Enable
  <2>1. UNCHANGED unit /\ pc \in MainSteps
    BY <1>7 DEF Main, Preflight, Enabled, CheckFile, InstallFile, LookFile, MakeDocker,
       LookDocker, InspectLabel, Verify, GuardVerified, Commit, world, MainSteps
  <2> QED BY <1>6, <2>1
<1>8. CASE Interrupt \/ InterruptClean \/ GuardStep \/ \E o \in Free : Others(o)
  BY <1>6, <1>8 DEF Interrupt, InterruptClean, GuardStep, Others, Abort, flow, world, MainSteps
<1> QED BY <1>1, <1>2, <1>3, <1>5, <1>7, <1>8 DEF Next

LEMMA MineTyped ==
  ASSUME InstallInv, Next
  PROVE  mine' \subseteq Objects
<1> mine \subseteq Objects
  BY DEF InstallInv
<1> QED BY DEF Next, Main, Cleanup, Preflight, Reload, Enable, Enabled, CheckFile, InstallFile,
   LookFile, MakeDocker, LookDocker, InspectLabel, Verify, GuardVerified, Commit, Skip,
   CleanReload, StopUnit, Stopped, RunRemove, Removed, Disable, Finish, CleanFile, CleanDocker,
   Interrupt, InterruptClean, UnitStep, GuardStep, Others, world, Objects

LEMMA ReadyKept ==
  ASSUME InstallInv, Next, Kept
  PROVE  ReadyOK'
<1> ReadyOK /\ unit \in Units
  BY DEF InstallInv
<1>1. ASSUME pc' \notin {"guard", "commit"} PROVE ReadyOK'
  BY <1>1 DEF ReadyOK
<1>2. CASE Verify
  <2>1. CASE pc' = "guard" /\ Ready /\ UNCHANGED world
    BY <2>1 DEF ReadyOK, Ready, world
  <2> QED BY <1>1, <1>2, <2>1 DEF Verify, Ready, Goto, Abort
<1>3. CASE GuardVerified
  <2>1. CASE /\ pc = "guard" /\ pc' = "commit" /\ proc["verify"].pc = "over"
             /\ proc["verify"].exit = "ok" /\ UNCHANGED world
    BY <2>1 DEF ReadyOK, Ready, world, Kept
  <2> QED BY <1>1, <1>3, <2>1 DEF GuardVerified, Goto, Abort
<1>4. CASE Main /\ ~Verify /\ ~GuardVerified
  <2>1. pc' \notin {"guard", "commit"}
    BY <1>4 DEF Main, Preflight, Reload, Enable, Enabled, CheckFile, InstallFile, LookFile,
       MakeDocker, LookDocker, InspectLabel, Commit, Abort, Onward, Goto
  <2> QED BY <1>1, <2>1
<1>5. CASE Cleanup \/ Interrupt \/ InterruptClean
  <2>1. pc' \notin {"guard", "commit"}
    BY <1>5 DEF Cleanup, Skip, CleanReload, StopUnit, Stopped, RunRemove, Removed, Disable, Finish,
       CleanFile, CleanDocker, Interrupt, InterruptClean, Abort, Onward, Goto
  <2> QED BY <1>1, <2>1
<1>6. CASE UnitStep
  <2>1. UNCHANGED <<pc, mine, theirs>> /\ unit.active # "active"
    BY <1>6 DEF UnitStep, flow
  <2> QED BY <2>1 DEF ReadyOK, Ready
<1>7. CASE GuardStep
  BY <1>7 DEF GuardStep, flow, world, ReadyOK, Ready, Kept
<1>8. CASE \E o \in Free : Others(o)
  <2>1. pc' \notin {"guard", "commit"}
    BY <1>8 DEF Others, flow
  <2> QED BY <1>1, <2>1
<1> QED BY <1>2, <1>3, <1>4, <1>5, <1>6, <1>7, <1>8 DEF Next

LEMMA InitInstall == Init => InstallInv
<1> SUFFICES ASSUME Init PROVE InstallInv
  OBVIOUS
<1>1. proc = [p \in Procs |-> G!NewRun("verify", "idle")] /\ quiet = {}
  BY DEF Init, G!Init
<1>2. proc["verify"] \in VerifyRuns /\ proc["verify"].pc = "idle" /\ proc["verify"].exit = "none"
  BY <1>1 DEF Procs, G!NewRun, VerifyRuns
<1>3. proc \in [Procs -> {proc[p] : p \in Procs}]
  BY <1>1
<1>4. VerifyKnows
  BY <1>1, <1>2, <1>3 DEF VerifyKnows
<1> QED BY <1>4 DEF Init, InstallInv, Units, LinkedOK, ReadyOK

LEMMA NextInstall == InstallInv /\ [Next]_vars => InstallInv'
<1>1. ASSUME InstallInv, Next PROVE InstallInv'
  <2>1. VerifyKnows' /\ Kept
    BY <1>1, NextKnows DEF InstallInv
  <2> QED BY <1>1, <2>1, UnitTyped, MineTyped, ReadyKept DEF InstallInv
<1>2. ASSUME InstallInv, UNCHANGED vars PROVE InstallInv'
  <2>1. VerifyKnows'
    BY <1>2, NextKnows DEF InstallInv
  <2> QED BY <1>2, <2>1 DEF InstallInv, vars, world, flow, guardVars, LinkedOK, ReadyOK, Ready
<1> QED BY <1>1, <1>2

\* InstallInv holds in every reachable state.
THEOREM Invariance == Spec => []InstallInv
  BY InitInstall, NextInstall, PTL DEF Spec

-----------------------------------------------------------------------------
(***************************************************************************)
(* The firewall keeps its tools.  Before the unit is enabled no run of the *)
(* guard but verify has begun, and afterwards the executable is there.  It *)
(* is removed only when the clean-up is past the unit and finds it safe;   *)
(* then the guard's remove has succeeded, with neither of systemd's runs   *)
(* active beside it (unless a `disable --now` failed), so that chain and   *)
(* jump are gone and nobody is left to bring them back.                    *)
(***************************************************************************)
RemoveRuns ==
  [op : {"verify", "remove"}, pc : G!RemoveSteps \cup {"idle", "over"},
   txn : {FALSE}, made : {FALSE}, tied : {FALSE}, fine : {TRUE}, i : {1},
   saw : BOOLEAN, said : {FALSE}, cut : {FALSE}, exit : {"none", "ok", "failed"}]

RemoveOK == /\ listed \in BOOLEAN
            /\ proc["remove"] \in RemoveRuns
            /\ proc["remove"].pc # "over" => proc["remove"].exit = "none"

NoJobs == ~G!Active("start") /\ ~G!Active("stop")

RemoveKnows == /\ proc["remove"].pc = "noJump" => ~listed
               /\ proc["remove"].exit = "ok" => G!Gone

\* Everything is gone, and nothing that is running brings it back.
Down == G!Gone /\ NoJobs /\ ~G!Active("remove")

JobsOK == /\ G!Active("start") => unit.active \in {"starting", "stopping"}
          /\ G!Active("stop") => unit.active = "stopping"
          /\ pc \in MainSteps => proc["stop"].pc = "idle" /\ proc["remove"].pc = "idle"

Before == "enabled" \notin flags =>
            Down /\ \A p \in {"start", "stop", "remove"} : proc[p].pc = "idle"

BinMade == /\ at \in Nat \ {0}
           /\ pc \in MainSteps /\ at > 7 => "bin" \in mine
           /\ pc = "look" /\ at = 7 /\ fine => "bin" \in mine
           /\ pc = "enabling" => at > 7

BinStays == "enabled" \in flags /\ "bin" \notin mine /\ ~unstopped =>
              Down /\ (pc = "over" \/ (pc = "clean" /\ at > 3))

PastUnit == pc = "clean" /\ at > 3 /\ "enabled" \in flags /\ safe /\ ~unstopped => Down

Removing ==
  /\ pc \in {"stopping", "remove", "removing", "disable"} => "enabled" \in flags
  /\ pc = "stopping" /\ ~unstopped => unit.active \in {"stopping", "inactive", "failed"}
  /\ pc \in {"remove", "removing", "disable"} /\ ~unstopped =>
       /\ unit.active \in {"inactive", "failed"}
       /\ pc # "remove" => RemoveKnows

ToolsInv == RemoveOK /\ JobsOK /\ Before /\ BinMade /\ BinStays /\ PastUnit /\ Removing

LEMMA VerifyHarmless ==
  ASSUME VerifyKnows, G!Run("verify")
  PROVE  UNCHANGED <<listed, rules, user>>
<1>1. proc["verify"].pc \in {"idle", "first", "second", "leave", "over"}
  BY DEF VerifyKnows, VerifyRuns
<1> QED BY <1>1 DEF G!Run, G!ApplyStep, G!VerifyStep, G!CleanupStep, G!RemoveStep, G!ProbeTables,
     G!Create, G!ProbeCreated, G!AppendNext, G!Attach, G!ProbeAttached, G!Commit, G!VerifyJump,
     G!VerifyChain, G!Leave, G!ProbeDetach, G!Unhook, G!ProbeChain, G!Flush, G!Drop, G!ProbeOwned,
     G!ProbeJumps, G!Unjump, G!ProbeUnjumped, G!Empty, G!ProbeEmptied, G!Delete, G!ProbeDeleted,
     G!ProbeNoChain, G!ProbeNoJump, G!Probe, G!Acts, G!tables

LEMMA RunIsActive ==
  ASSUME NEW p \in Procs, G!Run(p)
  PROVE  G!Active(p)
BY DEF G!Run, G!ApplyStep, G!VerifyStep, G!CleanupStep, G!RemoveStep, G!ProbeTables,
   G!Create, G!ProbeCreated, G!AppendNext, G!Attach, G!ProbeAttached, G!Commit, G!VerifyJump,
   G!VerifyChain, G!Leave, G!ProbeDetach, G!Unhook, G!ProbeChain, G!Flush, G!Drop, G!ProbeOwned,
   G!ProbeJumps, G!Unjump, G!ProbeUnjumped, G!Empty, G!ProbeEmptied, G!Delete, G!ProbeDeleted,
   G!ProbeNoChain, G!ProbeNoJump, G!Probe, G!Acts, G!Active

LEMMA ListedTyped ==
  ASSUME NEW p \in Procs, G!Run(p), listed \in BOOLEAN
  PROVE  listed' \in BOOLEAN
BY DEF G!Run, G!ApplyStep, G!VerifyStep, G!CleanupStep, G!RemoveStep, G!ProbeTables,
   G!Create, G!ProbeCreated, G!AppendNext, G!Attach, G!ProbeAttached, G!Commit, G!VerifyJump,
   G!VerifyChain, G!Leave, G!ProbeDetach, G!Unhook, G!ProbeChain, G!Flush, G!Drop, G!ProbeOwned,
   G!ProbeJumps, G!Unjump, G!ProbeUnjumped, G!Empty, G!ProbeEmptied, G!Delete, G!ProbeDeleted,
   G!ProbeNoChain, G!ProbeNoJump, G!Probe, G!Acts, G!tables, G!Command, G!NewChain, G!AppendRule,
   G!InsertJump, G!FlushChain, G!DeleteChain, G!DeleteJump

\* A run changes itself only.
LEMMA OnlyItself ==
  ASSUME VerifyKnows, NEW p \in Procs, NEW r, G!Become(p, r)
  PROVE  proc'[p] = r /\ \A q \in Procs \ {p} : proc'[q] = proc[q]
BY DEF VerifyKnows, G!Become

LEMMA FinalRemove ==
  ASSUME NEW r \in RemoveRuns, NEW exit \in {"ok", "failed"}
  PROVE  /\ G!Final([r EXCEPT !.exit = exit]) \in RemoveRuns
         /\ G!Final([r EXCEPT !.exit = exit]).pc = "over"
         /\ G!Final([r EXCEPT !.exit = exit]).exit = exit
BY DEF G!Final, RemoveRuns

\* The removal: what it reports it has looked at.
LEMMA RemoveRun ==
  ASSUME VerifyKnows, RemoveOK, G!Run("remove")
  PROVE  RemoveOK' /\ (RemoveKnows => RemoveKnows')
<1> DEFINE r == proc["remove"]
<1>0. listed' \in BOOLEAN /\ "remove" \in Procs
  BY ListedTyped DEF RemoveOK, Procs
<1>1. r \in RemoveRuns /\ r.pc \in G!RemoveSteps \cup {"idle", "over"} /\ r.txn = FALSE
  BY DEF RemoveOK, RemoveRuns
<1>2. G!RemoveStep("remove") /\ r.pc # "over" /\ r.pc # "idle"
  BY <1>1 DEF G!RemoveSteps, G!Run, G!ApplyStep, G!VerifyStep, G!CleanupStep, G!ProbeTables,
     G!Create, G!ProbeCreated, G!AppendNext, G!Attach, G!ProbeAttached, G!Commit, G!ProbeDetach,
     G!Unhook, G!ProbeChain, G!Flush, G!Drop, G!VerifyJump, G!VerifyChain, G!Leave, G!RemoveStep,
     G!ProbeOwned, G!ProbeJumps, G!Unjump, G!ProbeUnjumped, G!Empty, G!ProbeEmptied, G!Delete,
     G!ProbeDeleted, G!ProbeNoChain, G!ProbeNoJump, G!Probe, G!Acts
<1>3. r.exit = "none"
  BY <1>2 DEF RemoveOK
<1>4. ASSUME NEW exit \in {"ok", "failed"}, G!Become("remove", G!Final([r EXCEPT !.exit = exit])),
             exit = "ok" => G!Gone'
      PROVE  RemoveOK' /\ (RemoveKnows => RemoveKnows')
  <2>1. proc'["remove"] = G!Final([r EXCEPT !.exit = exit])
    BY <1>0, <1>4, OnlyItself
  <2>0. /\ G!Final([r EXCEPT !.exit = exit]) \in RemoveRuns
        /\ G!Final([r EXCEPT !.exit = exit]).pc = "over"
        /\ G!Final([r EXCEPT !.exit = exit]).exit = exit
    BY <1>1, <1>4, FinalRemove
  <2>2. /\ proc'["remove"] \in RemoveRuns
        /\ proc'["remove"].pc = "over" /\ proc'["remove"].exit = exit
    BY <2>0, <2>1
  <2>3. RemoveOK'
    BY <1>0, <2>2 DEF RemoveOK
  <2>4. RemoveKnows'
    BY <1>4, <2>2 DEF RemoveKnows
  <2> QED BY <2>3, <2>4
<1>5. ASSUME G!Die("remove", r) PROVE RemoveOK' /\ (RemoveKnows => RemoveKnows')
  BY <1>1, <1>4, <1>5 DEF G!Die, G!Ended
<1>6. ASSUME NEW s \in G!RemoveSteps, NEW b \in BOOLEAN,
             G!Become("remove", [r EXCEPT !.pc = s, !.saw = b]), s = "noJump" => ~listed'
      PROVE  RemoveOK' /\ (RemoveKnows => RemoveKnows')
  <2>1. /\ [r EXCEPT !.pc = s, !.saw = b] \in RemoveRuns
        /\ [r EXCEPT !.pc = s, !.saw = b].pc = s /\ [r EXCEPT !.pc = s, !.saw = b].exit = "none"
    BY <1>1, <1>3 DEF RemoveRuns
  <2> QED BY <1>0, <1>6, <2>1, OnlyItself DEF RemoveOK, RemoveKnows
<1>7. ASSUME NEW s \in G!RemoveSteps, G!Goto("remove", s), s = "noJump" => ~listed'
      PROVE  RemoveOK' /\ (RemoveKnows => RemoveKnows')
  <2>1. /\ [r EXCEPT !.pc = s] \in RemoveRuns
        /\ [r EXCEPT !.pc = s].pc = s /\ [r EXCEPT !.pc = s].exit = "none"
    BY <1>1, <1>3 DEF RemoveRuns
  <2>2. proc'["remove"] = [r EXCEPT !.pc = s]
    BY <1>0, <1>7, OnlyItself DEF G!Goto
  <2> QED BY <1>0, <1>7, <2>1, <2>2 DEF RemoveOK, RemoveKnows
<1>8. CASE G!ProbeOwned("remove")
  <2>1. CASE G!Become("remove", [r EXCEPT !.pc = "jumps", !.saw = listed])
    BY <1>6, <2>1 DEF G!RemoveSteps, RemoveOK
  <2> QED BY <1>5, <1>8, <2>1 DEF G!ProbeOwned
<1>9. CASE G!ProbeNoJump("remove")
  <2>1. CASE G!JumpsAt = {} /\ G!Over("remove", "ok") /\ r.pc = "noJump" /\ UNCHANGED G!tables
    <3>1. RemoveKnows => G!Gone'
      BY <2>1 DEF RemoveKnows, G!Gone, G!tables, G!JumpsAt
    <3>2. RemoveOK' /\ proc'["remove"].pc = "over"
      <4>1. proc'["remove"] = G!Final([r EXCEPT !.exit = "ok"])
        BY <1>0, <2>1, OnlyItself DEF G!Over
      <4> QED BY <1>0, <1>1, <4>1, FinalRemove DEF RemoveOK
    <3> QED BY <3>1, <3>2 DEF RemoveKnows
  <2> QED BY <1>5, <1>9, <2>1 DEF G!ProbeNoJump
<1>10. CASE G!ProbeNoChain("remove")
  <2>1. CASE ~listed /\ G!Goto("remove", "noJump") /\ UNCHANGED G!tables
    BY <1>7, <2>1 DEF G!RemoveSteps, G!tables
  <2> QED BY <1>5, <1>10, <2>1 DEF G!ProbeNoChain, G!Probe
<1>11. CASE G!ProbeJumps("remove")
  <2>1. CASE \E s \in {"unjump", "empty", "noChain"} : G!Goto("remove", s)
    BY <1>7, <2>1 DEF G!RemoveSteps
  <2> QED BY <1>5, <1>11, <2>1 DEF G!ProbeJumps, G!Probe, G!ChainNext
<1>12. CASE G!ProbeUnjumped("remove")
  <2>1. CASE \E s \in {"empty", "noChain"} : G!Goto("remove", s)
    BY <1>7, <2>1 DEF G!RemoveSteps
  <2> QED BY <1>5, <1>12, <2>1 DEF G!ProbeUnjumped, G!Probe, G!ChainNext
<1>13. CASE G!Unjump("remove") \/ G!Empty("remove") \/ G!Delete("remove")
  BY <1>7, <1>13 DEF G!Unjump, G!Empty, G!Delete, G!Acts, G!RemoveSteps
<1>14. CASE G!ProbeEmptied("remove") \/ G!ProbeDeleted("remove")
  BY <1>5, <1>7, <1>14 DEF G!ProbeEmptied, G!ProbeDeleted, G!Probe, G!RemoveSteps
<1> QED BY <1>2, <1>8, <1>9, <1>10, <1>11, <1>12, <1>13, <1>14 DEF G!RemoveStep

\* Nothing that ToolsInv says of the guard is disturbed.
Calm == /\ listed' = listed
        /\ G!Gone => G!Gone'
        /\ \A p \in {"start", "stop", "remove"} : proc'[p] = proc[p]

LEMMA CalmKeeps ==
  ASSUME Calm
  PROVE  /\ RemoveOK => RemoveOK'
         /\ Down => Down'
         /\ RemoveKnows => RemoveKnows'
         /\ G!Active("start")' = G!Active("start") /\ G!Active("stop")' = G!Active("stop")
BY DEF Calm, RemoveOK, Down, NoJobs, RemoveKnows, G!Active

LEMMA CalmSteps ==
  ASSUME VerifyKnows, \/ GuardIdle \/ G!Edit \/ G!Run("verify") \/ G!Start("verify", "verify")
  PROVE  Calm
<1>1. CASE GuardIdle
  BY <1>1 DEF GuardIdle, guardVars, Calm, G!Gone, G!JumpsAt
<1>2. CASE G!Edit
  <2>1. listed' = listed /\ proc' = proc /\ user' = <<"other">> \o user
    BY <1>2 DEF G!Edit
  <2>2. G!JumpsAt = {} => G!JumpsAt' = {}
    BY <2>1 DEF G!JumpsAt
  <2> QED BY <2>1, <2>2 DEF Calm, G!Gone
<1>3. ASSUME UNCHANGED <<listed, rules, user>>, NEW r, G!Become("verify", r) PROVE Calm
  BY <1>3, OnlyItself DEF Procs, Calm, G!Gone, G!JumpsAt
<1>4. CASE G!Run("verify")
  BY <1>3, <1>4, VerifyHarmless, OthersRun DEF Procs
<1>5. CASE G!Start("verify", "verify")
  BY <1>3, <1>5 DEF G!Start, G!tables
<1> QED BY <1>1, <1>2, <1>4, <1>5

\* What of the flow and the world ToolsInv reads.
SameFlow == UNCHANGED <<pc, at, fine, flags, safe, mine, unit, unstopped>>

LEMMA CalmStutter ==
  ASSUME ToolsInv, Calm, SameFlow
  PROVE  ToolsInv'
<1>1. RemoveOK' /\ JobsOK' /\ Before'
  BY CalmKeeps DEF ToolsInv, SameFlow, JobsOK, Before, Calm
<1>2. BinMade' /\ BinStays' /\ PastUnit' /\ Removing'
  BY CalmKeeps DEF ToolsInv, SameFlow, BinMade, BinStays, PastUnit, Removing
<1> QED BY <1>1, <1>2 DEF ToolsInv

LEMMA ToolsGuard ==
  ASSUME VerifyKnows, ToolsInv, SameFlow, NEW p \in Procs, G!Run(p)
  PROVE  ToolsInv'
<1>1. CASE p = "verify"
  BY <1>1, CalmSteps, CalmStutter
<1> SUFFICES ASSUME p \in {"start", "stop", "remove"} PROVE ToolsInv'
  BY <1>1 DEF Procs
<1>2. G!Active(p) /\ listed' \in BOOLEAN
  BY RunIsActive, ListedTyped DEF ToolsInv, RemoveOK
<1>3. \A q \in Procs \ {p} : proc'[q] = proc[q]
  BY OthersRun, OnlyItself
<1>4. "enabled" \in flags /\ (pc \in MainSteps => p = "start") /\ ~Down
  BY <1>2 DEF ToolsInv, Before, Down, NoJobs, JobsOK, G!Active
<1>5. Before' /\ BinMade' /\ BinStays' /\ PastUnit'
  BY <1>4 DEF ToolsInv, SameFlow, Before, BinMade, BinStays, PastUnit
<1>6. CASE p = "remove"
  <2>1. RemoveOK' /\ (RemoveKnows => RemoveKnows')
    BY <1>6, RemoveRun DEF ToolsInv
  <2>2. JobsOK'
    BY <1>3, <1>4, <1>6 DEF ToolsInv, JobsOK, SameFlow, Procs, G!Active
  <2>3. Removing'
    BY <2>1 DEF ToolsInv, Removing, SameFlow
  <2> QED BY <1>5, <2>1, <2>2, <2>3 DEF ToolsInv
<1>7. CASE p \in {"start", "stop"}
  <2>1. RemoveOK'
    BY <1>2, <1>3, <1>7 DEF ToolsInv, RemoveOK, Procs
  <2>2. JobsOK'
    BY <1>2, <1>3, <1>4, <1>7 DEF ToolsInv, JobsOK, SameFlow, Procs, G!Active
  <2>3. Removing'
    BY <1>2, <1>7 DEF ToolsInv, JobsOK, Removing, SameFlow
  <2> QED BY <1>5, <2>1, <2>2, <2>3 DEF ToolsInv
<1> QED BY <1>6, <1>7

LEMMA PlanOrder ==
  /\ Len(Plan) = 12 /\ DOMAIN Plan = 1..12
  /\ Plan[7] = "bin"
  /\ Plan[9] = "systemd" /\ Plan[10] = "enabled"
  /\ Plan[11] = "network" /\ Plan[12] = "container"
  /\ \A k \in 1..8 : Plan[k] = Files[k]
  /\ \A k \in 1..8 : Plan[k] \notin {"systemd", "enabled", "network", "container"}
<1> DEFINE S == {"root", "operator", "data", "plugin", "compose", "pluginFile", "bin", "unit",
                 "systemd", "enabled", "network", "container"}
<1> DEFINE T == <<"systemd", "enabled", "network", "container">>
<1>1. Len(Files) = 8 /\ Files \in Seq(S)
  BY DEF Files
<1>2. T \in Seq(S) /\ Len(T) = 4 /\ Plan = Files \o T
  BY DEF Plan
<1> HIDE DEF S, T
<1>3. \A k \in 1..8 : Plan[k] = Files[k]
  <2>1. \A i \in 1..(Len(Files) + Len(T)) :
          (Files \o T)[i] = IF i <= Len(Files) THEN Files[i] ELSE T[i - Len(Files)]
    BY <1>1, <1>2, ConcatProperties
  <2>2. \A k \in 1..8 : k \in 1..(Len(Files) + Len(T)) /\ k <= Len(Files)
    BY <1>1, <1>2
  <2>3. \A k \in 1..8 : (Files \o T)[k] = Files[k]
    BY <2>1, <2>2, Zenon
  <2> QED BY <1>2, <2>3, Zenon
<1>4. \A k \in 9..12 : Plan[k] = T[k - 8]
  <2> SUFFICES ASSUME NEW k \in 9..12 PROVE Plan[k] = T[k - 8]
    OBVIOUS
  <2>1. k \in 1..(Len(Files) + Len(T)) /\ ~(k <= Len(Files)) /\ k - Len(Files) = k - 8
    BY <1>1, <1>2
  <2>2. (Files \o T)[k] = IF k <= Len(Files) THEN Files[k] ELSE T[k - Len(Files)]
    BY <1>1, <1>2, <2>1, ConcatProperties
  <2> QED BY <1>2, <2>1, <2>2, Zenon
<1>5. /\ Plan[9] = T[1] /\ Plan[10] = T[2] /\ Plan[11] = T[3] /\ Plan[12] = T[4]
  <2>1. /\ Plan[9] = T[9 - 8] /\ Plan[10] = T[10 - 8]
        /\ Plan[11] = T[11 - 8] /\ Plan[12] = T[12 - 8]
    BY <1>4
  <2> QED BY <2>1
<1>6. Len(Plan) = 12 /\ DOMAIN Plan = 1..12
  <2>1. Len(Plan) = Len(Files) + Len(T) /\ Plan \in Seq(S)
    BY <1>1, <1>2, ConcatProperties
  <2> QED BY <1>1, <1>2, <2>1
<1> QED BY <1>3, <1>5, <1>6 DEF Files, T

\* The files are the first eight of Plan, each once.
LEMMA FilesFirst ==
  /\ \A k \in 1..8 : Plan[k] \in FileObjects
  /\ \A k \in 1..12 : Plan[k] \in FileObjects => k \in 1..8
  /\ \A j, k \in 1..8 : Plan[j] = Plan[k] => j = k
  /\ \A o \in FileObjects : \E k \in 1..8 : o = Plan[k]
<1>1. DOMAIN Files = 1..8 /\ FileObjects = {Files[k] : k \in 1..8}
  BY DEF Files, FileObjects
<1>2. \A j, k \in 1..8 : Files[j] = Files[k] => j = k
  BY DEF Files
<1>3. \A k \in 9..12 : Plan[k] \notin FileObjects
  BY PlanOrder DEF FileObjects, Files
<1> QED BY <1>1, <1>2, <1>3, PlanOrder

LEMMA UnplanOrder ==
  /\ Len(Unplan) = 12 /\ Unplan[3] = "enabled"
  /\ \A k \in 1..12 : Unplan[k] = "bin" => k = 5
BY DEF Unplan

\* The steps of the main part other than Enable.
LEMMA ToolsMain ==
  ASSUME InstallInv, ToolsInv, Main, ~Enable, Calm
  PROVE  ToolsInv'
<1>1. /\ pc \in MainSteps
      /\ \/ pc' \in MainSteps \ {"enabling"} /\ at' \in {at, at + 1}
         \/ pc' = "clean" /\ at' = 1
         \/ pc' = "over" /\ at' = at
      /\ flags \subseteq flags' /\ ("enabled" \in flags' => "enabled" \in flags)
      /\ mine \subseteq mine' /\ UNCHANGED <<unstopped, safe>>
  BY DEF Main, Preflight, Reload, Enabled, CheckFile, InstallFile, LookFile, MakeDocker,
     LookDocker, InspectLabel, Verify, GuardVerified, Commit, Abort, Onward, Goto, CleanState,
     MainSteps, FileObjects, Files, DockerObjects, world, history
<1>2. unit'.active = unit.active
  BY DEF InstallInv, Units, Main, Preflight, Reload, Enabled, CheckFile, InstallFile, LookFile,
     MakeDocker, LookDocker, InspectLabel, Verify, GuardVerified, Commit, world
<1>3. RemoveOK' /\ JobsOK' /\ Before'
  <2>1. RemoveOK'
    BY CalmKeeps DEF ToolsInv
  <2>2. JobsOK'
    BY <1>1, <1>2, CalmKeeps DEF ToolsInv, JobsOK, Calm
  <2>3. Before'
    BY <1>1, CalmKeeps DEF ToolsInv, Before, Calm
  <2> QED BY <2>1, <2>2, <2>3
<1>4. BinStays' /\ PastUnit' /\ Removing'
  BY <1>1 DEF ToolsInv, BinStays, PastUnit, Removing, MainSteps
<1>5. BinMade'
  <2>1. at' \in Nat \ {0}
    BY <1>1 DEF ToolsInv, BinMade
  <2>2. ASSUME pc' \in MainSteps, at' = at + 1, at = 7 PROVE "bin" \in mine'
    <3>1. pc = "look" /\ fine
      BY <1>1, <2>2, PlanOrder DEF ToolsInv, BinMade, Main, Preflight, Reload, Enabled, CheckFile,
         InstallFile, LookFile, MakeDocker, LookDocker, InspectLabel, Verify, GuardVerified,
         Commit, Abort, Goto, MainSteps, DockerObjects
    <3> QED BY <1>1, <2>2, <3>1 DEF ToolsInv, BinMade
  <2>3. ASSUME pc' = "look", at' = 7, fine' PROVE "bin" \in mine'
    <3>1. \E o \in FileObjects \cup DockerObjects : InstallFile(o) \/ MakeDocker(o)
      BY <2>3 DEF Main, Preflight, Reload, Enabled, CheckFile, LookFile, LookDocker, InspectLabel,
         Verify, GuardVerified, Commit, Abort, Onward, Goto
    <3> QED BY <2>3, <3>1, PlanOrder DEF InstallFile, MakeDocker, Directories, Goto
  <2> QED BY <1>1, <2>1, <2>2, <2>3 DEF ToolsInv, BinMade
<1> QED BY <1>3, <1>4, <1>5 DEF ToolsInv

LEMMA ToolsEnable ==
  ASSUME InstallInv, ToolsInv, Enable
  PROVE  ToolsInv'
<1>1. /\ pc = "make" /\ Plan[at] = "enabled" /\ "enabled" \in flags'
      /\ UNCHANGED <<mine, safe, unstopped>>
  BY DEF Enable, CleanState, history
<1>2. at > 7 /\ at \in Nat \ {0} /\ "bin" \in mine
  BY <1>1, PlanOrder DEF ToolsInv, BinMade, MainSteps
<1>3. Before' /\ BinStays'
  BY <1>1, <1>2 DEF Before, BinStays
<1>4. proc["stop"].pc = "idle" /\ proc["remove"].pc = "idle"
  BY <1>1 DEF ToolsInv, JobsOK, MainSteps
<1>5. CASE /\ unit' = [loaded |-> TRUE, enabled |-> TRUE, active |-> "starting"]
           /\ G!Start("start", "apply") /\ Goto("enabling")
  <2>1. /\ G!Become("start", G!NewRun("apply", G!EntryOf("apply"))) /\ "start" \in Procs
        /\ UNCHANGED <<listed, rules, user>>
    BY <1>5 DEF G!Start, G!tables, Procs
  <2>2. proc'["stop"] = proc["stop"] /\ proc'["remove"] = proc["remove"]
    BY <2>1, OnlyItself DEF InstallInv, Procs
  <2>3. RemoveOK' /\ JobsOK'
    BY <1>4, <1>5, <2>1, <2>2 DEF ToolsInv, RemoveOK, JobsOK, G!Active
  <2>4. pc' = "enabling" /\ at' = at
    BY <1>5 DEF Goto
  <2>5. BinMade' /\ PastUnit' /\ Removing'
    BY <1>1, <1>2, <2>4 DEF BinMade, PastUnit, Removing
  <2> QED BY <1>3, <2>3, <2>5 DEF ToolsInv
<1>6. CASE /\ \E linked \in BOOLEAN :
                unit' = [unit EXCEPT !.enabled = linked, !.loaded = @ \/ linked]
           /\ Abort /\ GuardIdle
  <2>1. Calm
    BY <1>6, CalmSteps DEF InstallInv
  <2>2. unit'.active = unit.active
    BY <1>6 DEF InstallInv, Units
  <2>3. pc' = "clean" /\ at' = 1
    BY <1>6 DEF Abort
  <2>4. RemoveOK' /\ JobsOK'
    BY <2>1, <2>2, <2>3, CalmKeeps DEF ToolsInv, JobsOK, MainSteps
  <2>5. BinMade' /\ PastUnit' /\ Removing'
    BY <2>3 DEF BinMade, PastUnit, Removing, MainSteps
  <2> QED BY <1>3, <2>4, <2>5 DEF ToolsInv
<1> QED BY <1>5, <1>6 DEF Enable

\* The steps of the clean-up that leave the guard alone and go on.
LEMMA ToolsClean ==
  ASSUME InstallInv, ToolsInv,
         \/ Skip \/ CleanReload
         \/ \E o \in FileObjects : CleanFile(o)
         \/ \E o \in DockerObjects : CleanDocker(o)
  PROVE  ToolsInv'
<1>1. /\ pc = "clean" /\ pc' = "clean" /\ at' = at + 1 /\ at \in Nat \ {0} /\ at <= 12
      /\ UNCHANGED <<flags, safe, unstopped>>
  BY UnplanOrder DEF Skip, CleanReload, CleanFile, CleanDocker, At, Onward, CleanState, history,
     ToolsInv, BinMade
<1>2. Calm
  <2>1. GuardIdle
    BY DEF Skip, CleanReload, CleanFile, CleanDocker
  <2> QED BY <2>1, CalmSteps DEF InstallInv
<1>3. unit'.active = unit.active
  BY DEF InstallInv, Units, Skip, CleanReload, CleanFile, CleanDocker, world
<1>4. at = 3 => "enabled" \notin flags
  BY UnplanOrder DEF Skip, CleanReload, CleanFile, CleanDocker, At, FileObjects, Files,
     DockerObjects
<1>5. "bin" \in mine /\ "bin" \notin mine' => at = 5 /\ safe
  <2>1. ASSUME NEW o \in FileObjects, CleanFile(o), "bin" \in mine, "bin" \notin mine'
        PROVE  at = 5 /\ safe
    <3>1. o = "bin" /\ At(o)
      BY <2>1 DEF CleanFile
    <3> QED BY <1>1, <3>1, UnplanOrder DEF At
  <2> QED BY <2>1 DEF Skip, CleanReload, CleanDocker, DockerObjects, world
<1>6. RemoveOK' /\ JobsOK' /\ Before'
  BY <1>1, <1>2, <1>3, CalmKeeps DEF ToolsInv, JobsOK, Before, Calm, MainSteps
<1>7. BinMade' /\ Removing'
  BY <1>1 DEF BinMade, Removing, MainSteps
<1>8. PastUnit'
  BY <1>1, <1>2, <1>4, CalmKeeps DEF ToolsInv, PastUnit
<1>9. BinStays'
  <2>1. ASSUME "enabled" \in flags, "bin" \notin mine', ~unstopped PROVE Down /\ at > 3
    BY <1>1, <1>5, <2>1 DEF ToolsInv, BinStays, PastUnit
  <2> QED BY <1>1, <1>2, <2>1, CalmKeeps DEF BinStays
<1> QED BY <1>6, <1>7, <1>8, <1>9 DEF ToolsInv

\* From the first disable to the second: the executable stays.
LEMMA ToolsStop ==
  ASSUME InstallInv, ToolsInv, StopUnit \/ Stopped \/ RunRemove \/ Removed \/ Disable
  PROVE  ToolsInv'
<1>1. /\ "enabled" \in flags /\ pc \notin MainSteps /\ pc' \notin MainSteps
      /\ pc # "over" /\ (pc = "clean" => at = 3)
      /\ at \in Nat \ {0} /\ at' \in Nat \ {0}
      /\ unstopped => unstopped'
      /\ UNCHANGED <<flags, mine>>
  <2>1. At("enabled") => at = 3 /\ "enabled" \in flags /\ pc = "clean"
    <3>1. ASSUME At("enabled") PROVE at = 3
      <4>1. at \in 1..12 /\ Unplan[at] = "enabled"
        BY <3>1, UnplanOrder DEF At, ToolsInv, BinMade
      <4> QED BY <4>1 DEF Unplan
    <3> QED BY <3>1 DEF At
  <2> QED BY <2>1 DEF StopUnit, Stopped, RunRemove, Removed, Disable, Onward, Goto, world,
     history, ToolsInv, BinMade, Removing, MainSteps
<1>2. BinMade' /\ Before'
  BY <1>1 DEF BinMade, Before, MainSteps
<1>3. BinStays'
  BY <1>1 DEF ToolsInv, BinStays
<1>4. CASE StopUnit
  <2>1. pc' \in {"remove", "stopping"} /\ PastUnit'
    BY <1>4 DEF StopUnit, Goto, PastUnit
  <2>2. CASE GuardIdle /\ unstopped' = TRUE /\ UNCHANGED unit
    <3>1. RemoveOK' /\ JobsOK'
      BY <1>1, <2>2, CalmSteps, CalmKeeps DEF ToolsInv, JobsOK, InstallInv
    <3>2. Removing'
      BY <1>1, <2>1, <2>2 DEF Removing
    <3> QED BY <1>2, <1>3, <2>1, <3>1, <3>2 DEF ToolsInv
  <2>3. CASE /\ StopJob /\ Goto("stopping") /\ UNCHANGED unstopped
             /\ unit' = [unit EXCEPT !.enabled = FALSE,
                                     !.active = IF @ \in {"starting", "active"}
                                                THEN "stopping" ELSE @]
    <3>1. /\ unit.active \in {"starting", "active"} => unit'.active = "stopping"
          /\ unit.active \notin {"starting", "active"} => unit'.active = unit.active
          /\ unit'.active \in {"stopping", "inactive", "failed"}
      BY <2>3 DEF InstallInv, Units
    <3>2. Removing'
      BY <1>1, <2>3, <3>1 DEF Removing, Goto
    <3>3. RemoveOK' /\ JobsOK'
      <4>1. CASE GuardIdle /\ unit.active \notin {"starting", "active"}
        BY <1>1, <3>1, <4>1, CalmSteps, CalmKeeps DEF ToolsInv, JobsOK, InstallInv
      <4>2. CASE unit.active = "starting" /\ G!Signal("start")
        <5>1. (\E r : G!Become("start", r)) /\ listed' = listed /\ "start" \in Procs
          BY <4>2 DEF G!Signal, G!Die, G!tables, Procs
        <5>2. proc'["stop"] = proc["stop"] /\ proc'["remove"] = proc["remove"]
          BY <5>1, OnlyItself DEF InstallInv, Procs
        <5> QED BY <1>1, <3>1, <4>2, <5>1, <5>2 DEF ToolsInv, RemoveOK, JobsOK, G!Active
      <4>3. CASE unit.active = "active" /\ G!Start("stop", "remove")
        <5>1. (\E r : G!Become("stop", r)) /\ listed' = listed /\ "stop" \in Procs
          BY <4>3 DEF G!Start, G!tables, Procs
        <5>2. proc'["start"] = proc["start"] /\ proc'["remove"] = proc["remove"]
          BY <5>1, OnlyItself DEF InstallInv, Procs
        <5> QED BY <1>1, <3>1, <4>3, <5>1, <5>2 DEF ToolsInv, RemoveOK, JobsOK, G!Active
      <4> QED BY <2>3, <4>1, <4>2, <4>3 DEF StopJob
    <3> QED BY <1>2, <1>3, <2>1, <3>2, <3>3 DEF ToolsInv
  <2> QED BY <1>4, <2>2, <2>3 DEF StopUnit
<1>5. CASE RunRemove
  <2> DEFINE r == G!NewRun("remove", "tables")
  <2>1. /\ G!Become("remove", r) /\ listed' = listed /\ "remove" \in Procs
        /\ pc' = "removing" /\ pc = "remove" /\ UNCHANGED <<unit, unstopped>>
    BY <1>5 DEF RunRemove, G!Start, G!EntryOf, G!tables, Goto, Procs, world, history
  <2>2. r \in RemoveRuns /\ r.pc = "tables" /\ r.exit = "none"
    BY DEF G!NewRun, RemoveRuns, G!RemoveSteps
  <2> HIDE DEF r
  <2>3. /\ proc'["remove"] = r
        /\ proc'["start"] = proc["start"] /\ proc'["stop"] = proc["stop"]
    BY <2>1, OnlyItself DEF InstallInv, Procs
  <2>4. RemoveOK' /\ JobsOK'
    BY <1>1, <2>1, <2>2, <2>3 DEF ToolsInv, RemoveOK, JobsOK, G!Active
  <2>5. PastUnit' /\ Removing'
    BY <1>1, <2>1, <2>2, <2>3 DEF ToolsInv, PastUnit, Removing, RemoveKnows
  <2> QED BY <1>2, <1>3, <2>4, <2>5 DEF ToolsInv
<1>6. ASSUME Calm, unit'.active = unit.active PROVE RemoveOK' /\ JobsOK'
  BY <1>1, <1>6, CalmKeeps DEF ToolsInv, JobsOK
<1>7. CASE Stopped
  <2>1. /\ pc = "stopping" /\ pc' = "remove" /\ Calm /\ UNCHANGED unit
        /\ unit.active # "stopping" \/ unstopped'
    BY <1>7, CalmSteps DEF Stopped, Goto, world, InstallInv
  <2>2. PastUnit' /\ Removing'
    BY <1>1, <2>1 DEF ToolsInv, PastUnit, Removing
  <2> QED BY <1>2, <1>3, <1>6, <2>1, <2>2 DEF ToolsInv
<1>8. CASE Removed
  <2>1. pc = "removing" /\ pc' = "disable" /\ Calm /\ UNCHANGED <<unit, unstopped>>
    BY <1>8, CalmSteps DEF Removed, Goto, world, history, InstallInv
  <2>2. PastUnit' /\ Removing'
    BY <1>1, <2>1, CalmKeeps DEF ToolsInv, PastUnit, Removing
  <2> QED BY <1>2, <1>3, <1>6, <2>1, <2>2 DEF ToolsInv
<1>9. CASE Disable
  <2>1. /\ pc = "disable" /\ pc' = "clean" /\ Calm /\ UNCHANGED unstopped
        /\ safe' => proc["remove"].exit = "ok"
    BY <1>9, CalmSteps DEF Disable, Onward, history, InstallInv
  <2>2. unit'.active = unit.active
    <3>1. \E u : unit' = [unit EXCEPT !.enabled = u]
      BY <1>9 DEF Disable
    <3> QED BY <3>1 DEF InstallInv, Units
  <2>3. ASSUME safe', ~unstopped PROVE Down
    <3>1. NoJobs
      BY <2>1, <2>3 DEF ToolsInv, Removing, JobsOK, NoJobs
    <3>2. G!Gone /\ ~G!Active("remove")
      BY <2>1, <2>3 DEF ToolsInv, Removing, RemoveKnows, RemoveOK, G!Active
    <3> QED BY <3>1, <3>2 DEF Down
  <2>4. PastUnit' /\ Removing'
    BY <2>1, <2>3, CalmKeeps DEF PastUnit, Removing
  <2> QED BY <1>2, <1>3, <1>6, <2>1, <2>2, <2>4 DEF ToolsInv
<1> QED BY <1>4, <1>5, <1>7, <1>8, <1>9

\* Where the flow is cut or over, and what systemd and others do.
LEMMA ToolsRest ==
  ASSUME InstallInv, ToolsInv,
         Finish \/ Interrupt \/ InterruptClean \/ UnitStep \/ \E o \in Free : Others(o)
  PROVE  ToolsInv'
<1>1. Calm
  <2>1. GuardIdle
    BY DEF Finish, Interrupt, InterruptClean, UnitStep, Others
  <2> QED BY <2>1, CalmSteps DEF InstallInv
<1>2. CASE Finish \/ InterruptClean
  <2>1. /\ pc' = "over" /\ at' = 1 /\ pc \notin MainSteps
        /\ UNCHANGED <<flags, mine, unit, safe, unstopped>>
    BY <1>2 DEF Finish, InterruptClean, CleanState, CleanSteps, MainSteps, world
  <2>2. RemoveOK' /\ JobsOK' /\ Before'
    BY <1>1, <2>1, CalmKeeps DEF ToolsInv, JobsOK, Before, Calm, MainSteps
  <2>3. BinMade' /\ PastUnit' /\ Removing' /\ BinStays'
    BY <1>1, <2>1, CalmKeeps DEF ToolsInv, BinMade, PastUnit, Removing, BinStays, MainSteps
  <2> QED BY <2>2, <2>3 DEF ToolsInv
<1>3. CASE Interrupt
  <2>1. /\ pc' = "clean" /\ at' = 1 /\ pc \in MainSteps
        /\ UNCHANGED <<flags, mine, unit, safe, unstopped>>
    BY <1>3 DEF Interrupt, Abort, CleanState, world
  <2>2. RemoveOK' /\ JobsOK' /\ Before'
    BY <1>1, <2>1, CalmKeeps DEF ToolsInv, JobsOK, Before, Calm, MainSteps
  <2>3. BinMade' /\ PastUnit' /\ Removing' /\ BinStays'
    BY <2>1 DEF ToolsInv, BinMade, PastUnit, Removing, BinStays, MainSteps
  <2> QED BY <2>2, <2>3 DEF ToolsInv
<1>4. CASE \E o \in Free : Others(o)
  BY <1>1, <1>4, CalmStutter DEF Others, SameFlow, flow, history
<1>5. CASE UnitStep
  <2>1. UNCHANGED <<pc, at, fine, flags, safe, mine, unstopped>>
    BY <1>5 DEF UnitStep, flow, history
  <2>2. /\ unit.active \in {"starting", "stopping"}
        /\ unit.active = "stopping" => unit'.active = "inactive"
        /\ ~G!Active("start") /\ ~G!Active("stop")
    BY <1>5 DEF UnitStep, InstallInv, Units, ToolsInv, JobsOK, G!Active
  <2>3. RemoveOK' /\ JobsOK' /\ Before'
    BY <1>1, <2>1, <2>2, CalmKeeps DEF ToolsInv, JobsOK, Before, Calm
  <2>4. BinMade' /\ BinStays' /\ PastUnit'
    BY <1>1, <2>1, CalmKeeps DEF ToolsInv, BinMade, BinStays, PastUnit
  <2>5. Removing'
    BY <2>1, <2>2 DEF ToolsInv, Removing
  <2> QED BY <2>3, <2>4, <2>5 DEF ToolsInv
<1> QED BY <1>2, <1>3, <1>4, <1>5

LEMMA InitTools == Init => ToolsInv
<1> SUFFICES ASSUME Init PROVE ToolsInv
  OBVIOUS
<1>1. /\ \A p \in Procs : proc[p] = G!NewRun("verify", "idle")
      /\ listed = FALSE /\ user = <<"other">>
  BY DEF Init, G!Init
<1>2. /\ G!NewRun("verify", "idle") \in RemoveRuns
      /\ G!NewRun("verify", "idle").pc = "idle" /\ G!NewRun("verify", "idle").exit = "none"
  BY DEF G!NewRun, RemoveRuns
<1>3. \A p \in {"start", "stop", "remove"} : proc[p] \in RemoveRuns /\ proc[p].pc = "idle"
                                               /\ proc[p].exit = "none"
  BY <1>1, <1>2 DEF Procs
<1>4. Down
  BY <1>1, <1>3 DEF Down, NoJobs, G!Gone, G!JumpsAt, G!Active
<1>5. RemoveOK /\ JobsOK /\ Before
  BY <1>1, <1>3, <1>4 DEF RemoveOK, JobsOK, Before, G!Active
<1>6. BinMade /\ BinStays /\ PastUnit /\ Removing
  BY DEF Init, BinMade, BinStays, PastUnit, Removing
<1> QED BY <1>5, <1>6 DEF ToolsInv

LEMMA NextTools == InstallInv /\ ToolsInv /\ [Next]_vars => ToolsInv'
<1> SUFFICES ASSUME InstallInv, ToolsInv, [Next]_vars PROVE ToolsInv'
  OBVIOUS
<1> VerifyKnows
  BY DEF InstallInv
<1>1. CASE UNCHANGED vars
  <2>1. Calm /\ SameFlow
    BY <1>1, CalmSteps DEF vars, GuardIdle, SameFlow, flow, world, history
  <2> QED BY <2>1, CalmStutter
<1>2. CASE Main
  <2>1. ~Enable => Calm
    <3>1. ~Enable => GuardIdle \/ G!Start("verify", "verify")
      BY <1>2 DEF Main, Preflight, Reload, Enabled, CheckFile, InstallFile, LookFile, MakeDocker,
         LookDocker, InspectLabel, Verify, GuardVerified, Commit
    <3> QED BY <3>1, CalmSteps
  <2> QED BY <1>2, <2>1, ToolsMain, ToolsEnable
<1>3. CASE Cleanup
  BY <1>3, ToolsClean, ToolsStop, ToolsRest DEF Cleanup
<1>4. CASE GuardStep
  <2>1. SameFlow
    BY <1>4 DEF GuardStep, SameFlow, flow, world, history
  <2>2. CASE G!Edit
    BY <2>1, <2>2, CalmSteps, CalmStutter
  <2> QED BY <1>4, <2>1, <2>2, ToolsGuard DEF GuardStep
<1> QED BY <1>1, <1>2, <1>3, <1>4, ToolsRest DEF Next

LEMMA ToolsInvariance == Spec => []ToolsInv
  BY InitTools, NextTools, Invariance, PTL DEF Spec

\* Chain and jump are never left without the executable that removes them.
THEOREM ToolsOutlastFirewall == Spec => []FirewallKeepsItsTools
<1>1. ToolsInv => FirewallKeepsItsTools
  BY DEF ToolsInv, Before, BinStays, Down, FirewallKeepsItsTools
<1> QED BY <1>1, ToolsInvariance, PTL

-----------------------------------------------------------------------------
(***************************************************************************)
(* What is another's.  In the main part a file or directory of others is   *)
(* late, or stands where the installer is about to look; a file, unlike a  *)
(* directory, does not outlast an install that succeeds (FilesOK, Made).   *)
(* Flags come after the look, so that none is on an earlier object of      *)
(* others (Unflagged, and the last part of LateOK).                        *)
(***************************************************************************)
Placed ==
  /\ pc = "preflight" => at = 1
  /\ pc \in {"preflight", "make", "install", "look"} => at \in 1..12
  /\ pc = "enabling" => at = 10

\* An object has one owner.
Apart == mine \cap theirs = {}

TheirFiles == theirs \cap FileObjects
Awaited(o) == pc = "preflight" \/ (pc = "make" /\ Plan[at] = o)

LateOK ==
  /\ pc \in MainSteps => \A o \in TheirFiles : o \in late \/ Awaited(o)
  /\ flags \cap TheirFiles \subseteq late

FilesOK ==
  pc \in MainSteps => \A o \in TheirFiles \ Directories :
    Awaited(o) \/ (pc \in {"install", "look"} /\ Plan[at] = o)

Made == pc = "look" /\ fine /\ Plan[at] \in FileObjects \ Directories => Plan[at] \in mine

Unflagged == pc \in MainSteps => \A k \in 1..8 : at <= k => Plan[k] \notin flags

FilesInv == Placed /\ Apart /\ LateOK /\ FilesOK /\ Made /\ Unflagged

LEMMA NextPlaced ==
  ASSUME Placed, [Next]_vars
  PROVE  Placed'
<1>1. \A k \in 1..12 : Plan[k] \in FileObjects \cup {"systemd", "network"} => k + 1 \in 1..12
  BY PlanOrder, FilesFirst DEF FileObjects, Files
<1>2. \A k \in 1..12 : Plan[k] = "enabled" => k = 10
  BY PlanOrder
<1>3. ASSUME pc' \notin {"preflight", "make", "install", "look", "enabling"} PROVE Placed'
  BY <1>3 DEF Placed
<1>4. ASSUME at' = at, pc' # "enabling" \/ pc' = pc,
             (pc \in {"preflight", "make", "install", "look"} /\ pc' # "preflight") \/ pc' = pc
      PROVE  Placed'
  BY <1>4 DEF Placed
<1>5. ASSUME NEW o \in FileObjects \cup {"systemd", "network"}, pc \in {"make", "look"},
             Plan[at] = o, Onward("make")
      PROVE  Placed'
  BY <1>1, <1>5 DEF Placed, Onward
<1>6. CASE Main
  <2>1. Preflight \/ Commit \/ InspectLabel \/ Verify \/ GuardVerified => Placed'
    BY <1>3, <1>4 DEF Preflight, Commit, InspectLabel, Verify, GuardVerified, Goto, Abort
  <2>2. Reload => Placed'
    BY <1>3, <1>5 DEF Reload, Abort
  <2>3. Enable => Placed'
    <3>1. Enable => pc = "make" /\ Plan[at] = "enabled" /\ (Goto("enabling") \/ Abort)
      BY DEF Enable
    <3>2. pc = "make" /\ Plan[at] = "enabled" => at = 10
      BY <1>2 DEF Placed
    <3>3. at = 10 /\ Goto("enabling") => Placed'
      BY DEF Goto, Placed
    <3> QED BY <1>3, <3>1, <3>2, <3>3 DEF Abort
  <2>4. Enabled => Placed'
    BY <1>3 DEF Enabled, Onward, Abort, Placed
  <2>5. ASSUME NEW o \in FileObjects, CheckFile(o) \/ InstallFile(o) \/ LookFile(o) PROVE Placed'
    BY <1>3, <1>4, <1>5, <2>5 DEF CheckFile, InstallFile, LookFile, Goto, Abort
  <2>6. ASSUME NEW o \in DockerObjects, MakeDocker(o) \/ LookDocker(o) PROVE Placed'
    BY <1>3, <1>4, <1>5, <2>6 DEF MakeDocker, LookDocker, Goto, Abort, DockerObjects
  <2> QED BY <1>6, <2>1, <2>2, <2>3, <2>4, <2>5, <2>6 DEF Main
<1>7. CASE Cleanup \/ Interrupt \/ InterruptClean
  <2>1. pc' \notin {"preflight", "make", "install", "look", "enabling"}
    BY <1>7 DEF Cleanup, Skip, CleanReload, StopUnit, Stopped, RunRemove, Removed, Disable, Finish,
       CleanFile, CleanDocker, Interrupt, InterruptClean, Abort, Onward, Goto
  <2> QED BY <1>3, <2>1
<1>8. CASE UnitStep \/ GuardStep \/ UNCHANGED vars \/ \E o \in Free : Others(o)
  BY <1>4, <1>8 DEF UnitStep, GuardStep, Others, vars, flow
<1> QED BY <1>6, <1>7, <1>8 DEF Next

\* Nothing of others' goes, nothing is made: what is left to show.
LEMMA FilesStay ==
  ASSUME FilesInv, mine' \subseteq mine, UNCHANGED <<theirs, late>>,
         flags' \cap TheirFiles \subseteq late,
         pc' \notin MainSteps
  PROVE  Apart' /\ LateOK' /\ FilesOK' /\ Made' /\ Unflagged'
BY DEF FilesInv, Apart, LateOK, FilesOK, Made, Unflagged, TheirFiles, MainSteps

\* Where the installer is not at a file, others' files and directories are late
\* ones, and directories.
LEMMA Settled ==
  ASSUME FilesInv, pc \in MainSteps \ {"preflight"},
         pc \notin {"make", "install", "look"} \/ Plan[at] \notin FileObjects
  PROVE  TheirFiles \subseteq late \cap Directories
BY DEF FilesInv, LateOK, FilesOK, Awaited, TheirFiles

\* The steps of the main part that are not at a file.
LEMMA FilesElsewhere ==
  ASSUME FilesInv, ToolsInv,
         \/ Reload \/ Enable \/ Enabled \/ InspectLabel \/ Verify \/ GuardVerified \/ Commit
         \/ \E o \in DockerObjects : MakeDocker(o) \/ LookDocker(o)
  PROVE  Apart' /\ LateOK' /\ FilesOK' /\ Made' /\ Unflagged' /\ UNCHANGED theirs
<1>1. TheirFiles \subseteq late \cap Directories
  <2>1. /\ pc \in MainSteps \ {"preflight"}
        /\ \/ pc \notin {"make", "install", "look"}
           \/ Plan[at] \in {"systemd", "enabled"} \cup DockerObjects
    BY DEF Reload, Enable, Enabled, InspectLabel, Verify, GuardVerified, Commit, MakeDocker,
       LookDocker, MainSteps
  <2>2. \A x \in {"systemd", "enabled"} \cup DockerObjects : x \notin FileObjects
    BY DEF FileObjects, Files, DockerObjects
  <2> QED BY <2>1, <2>2, Settled
<1>2. /\ UNCHANGED <<theirs, late>>
      /\ flags' \cap FileObjects \subseteq flags
      /\ pc' \in MainSteps => at' \in {at, at + 1}
      /\ pc \in MainSteps
      /\ pc' = "look" => Plan[at'] \notin FileObjects
  <2>1. UNCHANGED <<theirs, late>> /\ pc \in MainSteps
    BY DEF Reload, Enable, Enabled, InspectLabel, Verify, GuardVerified, Commit, MakeDocker,
       LookDocker, world, history, MainSteps
  <2>2. pc' \in MainSteps => at' \in {at, at + 1}
    BY DEF Reload, Enable, Enabled, InspectLabel, Verify, GuardVerified, Commit, MakeDocker,
       LookDocker, Abort, Onward, Goto, MainSteps
  <2>3. flags' \subseteq flags \cup {"systemd", "enabled"} \cup DockerObjects
    BY DEF Reload, Enable, Enabled, InspectLabel, Verify, GuardVerified, Commit, MakeDocker,
       LookDocker
  <2>4. ({"systemd", "enabled"} \cup DockerObjects) \cap FileObjects = {}
    BY DEF FileObjects, Files, DockerObjects
  <2>5. pc' = "look" => at' = at /\ Plan[at] \in DockerObjects
    BY DEF Reload, Enable, Enabled, InspectLabel, Verify, GuardVerified, Commit, MakeDocker,
       LookDocker, Abort, Onward, Goto
  <2> QED BY <2>1, <2>2, <2>3, <2>4, <2>5
<1>3. Apart'
  <2>1. ASSUME NEW o, MakeDocker(o) PROVE Apart'
    BY <2>1 DEF FilesInv, Apart, MakeDocker
  <2> QED BY <2>1 DEF FilesInv, Apart, Reload, Enable, Enabled, InspectLabel, Verify, GuardVerified,
     Commit, LookDocker, world
<1>4. LateOK' /\ FilesOK' /\ Made'
  BY <1>1, <1>2 DEF FilesInv, LateOK, FilesOK, Made, TheirFiles
<1>5. Unflagged'
  <2>1. at \in Nat /\ \A k \in 1..8 : Plan[k] \in FileObjects
    BY FilesFirst DEF ToolsInv, BinMade
  <2>2. \A k \in 1..8 : pc' \in MainSteps /\ at' <= k => at <= k
    BY <1>2, <2>1
  <2> QED BY <1>2, <2>1, <2>2 DEF FilesInv, Unflagged
<1> QED BY <1>2, <1>3, <1>4, <1>5

\* Look, install, look again.
LEMMA FilesAt ==
  ASSUME FilesInv, NEW o \in FileObjects, CheckFile(o) \/ InstallFile(o) \/ LookFile(o)
  PROVE  Apart' /\ LateOK' /\ FilesOK' /\ Made' /\ Unflagged' /\ theirs \ theirs' \subseteq late
<1>1. Apart /\ LateOK /\ FilesOK /\ Made /\ Unflagged
  BY DEF FilesInv
<1>2. Plan[at] = o /\ pc \in {"make", "install", "look"} /\ at \in 1..12 /\ pc \in MainSteps
  BY DEF CheckFile, InstallFile, LookFile, FilesInv, Placed, MainSteps
<1>3. CASE CheckFile(o)
  <2>1. UNCHANGED <<mine, theirs, late, flags>> /\ pc = "make"
    BY <1>3 DEF CheckFile, world, history
  <2>2. CASE Abort
    BY <1>1, <2>1, <2>2, FilesStay DEF Abort, MainSteps, LateOK
  <2>3. CASE o \notin theirs /\ pc' = "install" /\ at' = at
    <3>1. TheirFiles \subseteq late \cap Directories
      BY <1>1, <1>2, <2>1, <2>3 DEF LateOK, FilesOK, Awaited, TheirFiles
    <3>2. Apart' /\ LateOK' /\ FilesOK' /\ Made' /\ Unflagged'
      BY <1>1, <1>2, <2>1, <2>3, <3>1 DEF Apart, LateOK, FilesOK, Made, Unflagged, TheirFiles
    <3> QED BY <2>1, <3>2
  <2> QED BY <1>3, <2>1, <2>2, <2>3 DEF CheckFile, Goto
<1>4. CASE InstallFile(o)
  <2>1. /\ pc = "install" /\ pc' = "look" /\ at' = at /\ UNCHANGED flags
        /\ late' = late \cap theirs' /\ theirs' \in {theirs, theirs \ {o}}
    BY <1>4 DEF InstallFile, Goto
  <2>2. TheirFiles \subseteq late
    BY <1>1, <1>2, <2>1 DEF LateOK, Awaited
  <2>3. TheirFiles \ {o} \subseteq Directories
    BY <1>1, <1>2, <2>1 DEF FilesOK, Awaited
  <2>4. Made'
    BY <1>2, <1>4, <2>1 DEF InstallFile, Made
  <2>5. Apart'
    BY <1>1, <1>4 DEF Apart, InstallFile
  <2>6. LateOK' /\ Unflagged'
    BY <1>1, <1>2, <2>1, <2>2 DEF LateOK, Unflagged, TheirFiles
  <2>7. FilesOK'
    BY <1>2, <2>1, <2>3 DEF FilesOK, TheirFiles
  <2> QED BY <2>1, <2>2, <2>4, <2>5, <2>6, <2>7 DEF TheirFiles
<1>5. CASE LookFile(o)
  <2>1. UNCHANGED <<mine, theirs, late>> /\ pc = "look" /\ flags' \subseteq flags \cup {o}
    BY <1>5 DEF LookFile, world, history
  <2>2. TheirFiles \subseteq late
    BY <1>1, <1>2, <2>1 DEF LateOK, Awaited
  <2>3. CASE Abort
    BY <2>1, <2>2, <2>3, FilesStay DEF Abort, MainSteps
  <2>4. CASE fine /\ pc' = "make" /\ at' = at + 1
    <3>1. TheirFiles \subseteq Directories
      BY <1>1, <1>2, <2>1, <2>4 DEF FilesOK, Made, Apart, TheirFiles, Awaited
    <3>2. Apart' /\ LateOK' /\ FilesOK' /\ Made'
      BY <1>1, <2>1, <2>2, <2>4, <3>1 DEF Apart, LateOK, FilesOK, Made, TheirFiles
    <3>3. ASSUME NEW k \in 1..8, at + 1 <= k PROVE Plan[k] \notin flags'
      <4>1. at \in 1..8 /\ at # k /\ at <= k
        BY <1>2, <3>3
      <4>2. Plan[k] # o
        BY <1>2, <4>1, FilesFirst
      <4> QED BY <1>1, <1>2, <2>1, <4>1, <4>2 DEF Unflagged
    <3> QED BY <2>1, <2>4, <3>2, <3>3 DEF Unflagged
  <2> QED BY <1>5, <2>1, <2>3, <2>4 DEF LookFile, Onward
<1> QED BY <1>3, <1>4, <1>5

\* Only late objects are lost, whatever step is taken.
LEMMA NextFiles ==
  ASSUME FilesInv, ToolsInv, [Next]_vars
  PROVE  FilesInv' /\ theirs \ theirs' \subseteq late
<1> DEFINE Held == Apart' /\ LateOK' /\ FilesOK' /\ Made' /\ Unflagged' /\ theirs \ theirs' \subseteq late
<1> SUFFICES Held
  BY NextPlaced DEF FilesInv
<1>1. Apart /\ LateOK /\ FilesOK /\ Made /\ Unflagged
  BY DEF FilesInv
<1>2. CASE Preflight
  <2>1. UNCHANGED <<mine, theirs, late, flags>> /\ pc = "preflight"
    BY <1>2 DEF Preflight, world, history
  <2>2. CASE Abort
    BY <1>1, <2>1, <2>2, FilesStay DEF Abort, MainSteps, LateOK
  <2>3. CASE theirs = {} /\ pc' = "make" /\ at' = at
    BY <1>1, <2>1, <2>3 DEF Apart, LateOK, FilesOK, Made, Unflagged, TheirFiles, MainSteps
  <2> QED BY <1>2, <2>2, <2>3 DEF Preflight, Goto
<1>3. CASE Main
  BY <1>2, <1>3, FilesAt, FilesElsewhere DEF Main
<1>4. CASE Cleanup
  <2>1. pc' \notin MainSteps /\ UNCHANGED flags
    BY <1>4 DEF Cleanup, Skip, CleanReload, StopUnit, Stopped, RunRemove, Removed, Disable, Finish,
       CleanFile, CleanDocker, Onward, Goto, MainSteps
  <2>2. ASSUME NEW o \in FileObjects, CleanFile(o) PROVE Held
    <3>1. /\ o \in flags /\ mine' \subseteq mine /\ theirs' \in {theirs, theirs \ {o}}
          /\ late' = late \cap theirs'
      BY <2>2 DEF CleanFile, At
    <3>2. theirs \ theirs' \subseteq late
      BY <1>1, <2>2, <3>1 DEF LateOK, TheirFiles
    <3> QED BY <1>1, <2>1, <3>1, <3>2 DEF Apart, LateOK, FilesOK, Made, Unflagged, TheirFiles,
       MainSteps
  <2>3. CASE ~\E o \in FileObjects : CleanFile(o)
    <3>1. mine' \subseteq mine /\ UNCHANGED <<theirs, late>>
      BY <1>4, <2>3 DEF Cleanup, Skip, CleanReload, StopUnit, Stopped, RunRemove, Removed, Disable,
         Finish, CleanDocker, world, history
    <3> QED BY <1>1, <2>1, <3>1, FilesStay DEF LateOK
  <2> QED BY <2>2, <2>3
<1>5. CASE Interrupt \/ InterruptClean
  <2>1. pc' \notin MainSteps /\ UNCHANGED <<flags, mine, theirs, late>>
    BY <1>5 DEF Interrupt, InterruptClean, Abort, MainSteps, world
  <2> QED BY <1>1, <2>1, FilesStay DEF LateOK
<1>6. CASE UnitStep \/ GuardStep \/ UNCHANGED vars
  <2>1. UNCHANGED <<pc, at, fine, flags, mine, theirs, late>>
    BY <1>6 DEF UnitStep, GuardStep, vars, flow, world, history
  <2> QED BY <1>1, <2>1 DEF Apart, LateOK, FilesOK, Made, Unflagged, TheirFiles, Awaited
<1>7. ASSUME NEW o \in Free, Others(o) PROVE Held
  <2>1. /\ UNCHANGED <<pc, at, fine, flags, mine>> /\ theirs' = theirs \cup {o}
        /\ o \notin mine \cup theirs /\ late \subseteq late'
        /\ pc = "preflight" \/ (pc \in {"make", "install", "look"} /\ Plan[at] = o)
    BY <1>7 DEF Others, flow
  <2>2. o \in FileObjects => o \in late' \/ (pc \in {"preflight", "make"} /\ o \notin flags)
    <3>1. ASSUME o \in FileObjects, pc \in {"preflight", "make"} PROVE o \notin flags
      <4>1. PICK k \in 1..8 : o = Plan[k] /\ at <= k
        <5>1. CASE pc = "preflight"
          BY <3>1, <5>1, FilesFirst DEF FilesInv, Placed
        <5>2. CASE pc = "make"
          BY <2>1, <3>1, <5>2, FilesFirst DEF FilesInv, Placed
        <5> QED BY <3>1, <5>1, <5>2
      <4> QED BY <1>1, <3>1, <4>1 DEF Unflagged, MainSteps
    <3> QED BY <1>7, <2>1, <3>1 DEF Others
  <2>3. Apart' /\ Made' /\ Unflagged'
    BY <1>1, <2>1 DEF Apart, Made, Unflagged
  <2>4. LateOK'
    BY <1>1, <2>1, <2>2 DEF LateOK, TheirFiles, Awaited
  <2>5. FilesOK'
    BY <1>1, <2>1 DEF FilesOK, TheirFiles, Awaited
  <2> QED BY <2>1, <2>3, <2>4, <2>5
<1> QED BY <1>3, <1>4, <1>5, <1>6, <1>7 DEF Next

LEMMA InitFiles == Init => FilesInv
BY DEF Init, FilesInv, Placed, Apart, LateOK, FilesOK, Made, Unflagged, TheirFiles

LEMMA FilesInvariance == Spec => []FilesInv
  BY InitFiles, NextFiles, ToolsInvariance, PTL DEF Spec

\* What others had when the installer looked for it, and their network and
\* container at all times, is neither removed nor installed over; what took a
\* name after the look can be lost, and nothing else.
THEOREM OthersKeepTheirs == Spec => TheirsStay
<1>1. FilesInv /\ ToolsInv /\ [Next]_vars =>
        [theirs \ theirs' \subseteq late /\ mine' \cap theirs' = {}]_vars
  BY NextFiles DEF FilesInv, Apart
<1> QED BY <1>1, FilesInvariance, ToolsInvariance, PTL DEF Spec, TheirsStay

\* An installer that commits has everything there, all of it its own but for
\* directories that came late, and the guard it verified is in force unless
\* somebody changed the tables since.
THEOREM CommitsComplete == Spec => CommittedIsComplete
<1> DEFINE A == result' = "committed" /\ result = "none" =>
                  /\ Objects \ mine \subseteq theirs \cap late \cap Directories
                  /\ unit.enabled /\ unit.active = "active"
                  /\ "verify" \in quiet => G!InForce
<1>1. InstallInv /\ FilesInv /\ [Next]_vars => [A]_vars
  <2> SUFFICES ASSUME InstallInv, FilesInv, Next, result' = "committed", result = "none"
               PROVE  /\ Objects \ mine \subseteq theirs \cap late \cap Directories
                      /\ unit.enabled /\ unit.active = "active"
                      /\ "verify" \in quiet => G!InForce
    OBVIOUS
  <2>1. Commit
    BY DEF Next, Main, Cleanup, Preflight, Reload, Enable, Enabled, CheckFile, InstallFile,
       LookFile, MakeDocker, LookDocker, InspectLabel, Verify, GuardVerified, Commit, Skip,
       CleanReload, StopUnit, Stopped, RunRemove, Removed, Disable, Finish, CleanFile,
       CleanDocker, Interrupt, InterruptClean, UnitStep, GuardStep, Others, flow, Abort, Onward,
       Goto
  <2>2. pc = "commit"
    BY <2>1 DEF Commit
  <2>3. Ready /\ TheirFiles \subseteq late \cap Directories
    BY <2>2, Settled DEF InstallInv, ReadyOK, MainSteps
  <2>4. Objects \ mine \subseteq theirs \cap late \cap Directories
    BY <2>3 DEF Ready, Objects, TheirFiles
  <2> QED BY <2>2, <2>3, <2>4 DEF InstallInv, LinkedOK, ReadyOK, Ready, MainSteps, VerifyKnows
<1>2. Spec => [][A]_vars
  BY <1>1, Invariance, FilesInvariance, PTL DEF Spec
<1> QED BY <1>2 DEF CommittedIsComplete

-----------------------------------------------------------------------------
(***************************************************************************)
(* What a failed install leaves.  FlagsTrue: what was made has a flag, but *)
(* for the moment between a command and its probe.  CleanedOK: what the    *)
(* clean-up has passed is gone, unless it has noted a failure.  The        *)
(* exceptions, once true, stay.                                            *)
(***************************************************************************)
Excused == said \/ cut \/ unstopped

FlagsTrue ==
  /\ Excused \/ \A o \in mine : o \in flags \/ (pc = "look" /\ Plan[at] = o)
  /\ unit.loaded => "systemd" \in flags
  /\ unit.enabled \/ unit.active # "inactive" => "enabled" \in flags
  /\ pc \in MainSteps /\ at > 9 => "systemd" \in flags
  /\ pc = "enabling" => "systemd" \in flags

Stopping == {"stopping", "remove", "removing", "disable"}

CleanedOK ==
  /\ bad \in Nat
  /\ pc \in MainSteps \cup {"clean"} => safe \/ bad > 0
  /\ pc \in Stopping => at = 3
  /\ pc \in Stopping \cup {"clean"} /\ bad = 0 /\ ~Excused =>
       \A k \in 1..12 : k < at => Unplan[k] \notin mine
  /\ pc \in Stopping /\ ~Excused => ~unit.enabled
  /\ pc = "clean" /\ at > 3 /\ ~Excused =>
       ~unit.enabled /\ unit.active \in {"inactive", "failed"}
  /\ pc = "clean" /\ at > 6 /\ bad = 0 /\ ~Excused => ~unit.loaded

Left ==
  pc = "over" /\ result = "failed" /\ ~Excused =>
    /\ mine = {}
    /\ ~unit.loaded /\ ~unit.enabled /\ unit.active \in {"inactive", "failed"}

LeftInv == FlagsTrue /\ CleanedOK /\ Left

LEMMA LeftMain ==
  ASSUME InstallInv, ToolsInv, LeftInv, FilesInv, Main
  PROVE  LeftInv'
<1> at \in Nat \ {0} /\ unit \in Units /\ FlagsTrue /\ CleanedOK
  BY DEF ToolsInv, BinMade, InstallInv, LeftInv
<1>1. /\ pc \in MainSteps
      /\ \/ pc' \in MainSteps /\ at' \in {at, at + 1}
         \/ pc' = "clean" /\ at' = 1
         \/ pc' = "over" /\ at' = at /\ result' = "committed"
      /\ flags \subseteq flags' /\ UNCHANGED <<safe, bad>> /\ (Excused => Excused')
  <2>1. /\ pc \in MainSteps
        /\ \/ pc' \in MainSteps /\ at' \in {at, at + 1}
           \/ pc' = "clean" /\ at' = 1
           \/ pc' = "over" /\ at' = at /\ result' = "committed"
    BY DEF Main, Preflight, Reload, Enable, Enabled, CheckFile, InstallFile, LookFile, MakeDocker,
       LookDocker, InspectLabel, Verify, GuardVerified, Commit, Abort, Onward, Goto, MainSteps
  <2>2. flags \subseteq flags' /\ UNCHANGED <<safe, bad>>
    BY DEF Main, Preflight, Reload, Enable, Enabled, CheckFile, InstallFile, LookFile, MakeDocker,
       LookDocker, InspectLabel, Verify, GuardVerified, Commit, CleanState
  <2>3. Excused => Excused'
    BY DEF Main, Preflight, Reload, Enable, Enabled, CheckFile, InstallFile, LookFile, MakeDocker,
       LookDocker, InspectLabel, Verify, GuardVerified, Commit, history, Excused
  <2> QED BY <2>1, <2>2, <2>3
<1>2. CleanedOK' /\ Left'
  BY <1>1 DEF CleanedOK, Left, MainSteps, Stopping
<1>3. Excused' \/ \A o \in mine' : o \in flags' \/ (pc' = "look" /\ Plan[at'] = o)
  <2>1. ASSUME NEW o \in Objects, InstallFile(o) \/ MakeDocker(o)
        PROVE  Excused' \/ \A x \in mine' : x \in flags' \/ (pc' = "look" /\ Plan[at'] = x)
    BY <1>1, <2>1 DEF FlagsTrue, CheckFile, InstallFile, MakeDocker, Abort, Goto
  <2>2. ASSUME NEW o \in Objects, LookFile(o) \/ LookDocker(o)
        PROVE  Excused' \/ \A x \in mine' : x \in flags' \/ (pc' = "look" /\ Plan[at'] = x)
    <3>1. pc = "look" /\ Plan[at] = o /\ mine' = mine
      BY <2>2 DEF LookFile, LookDocker, world
    <3>2. o \in mine => o \in flags' \/ said'
      BY <2>2, <3>1 DEF LookFile, LookDocker, FilesInv, Apart
    <3> QED BY <1>1, <3>1, <3>2 DEF FlagsTrue, Excused
  <2>3. CASE UNCHANGED mine /\ pc # "look"
    BY <1>1, <2>3 DEF FlagsTrue
  <2> QED BY <2>1, <2>2, <2>3 DEF Main, Preflight, Reload, Enable, Enabled, CheckFile, InspectLabel,
     Verify, GuardVerified, Commit, world, Objects
<1>4. CASE Enable
  <2>1. /\ "systemd" \in flags /\ "enabled" \in flags' /\ at > 8
    <3>1. pc = "make" /\ Plan[at] = "enabled" /\ "enabled" \in flags'
      BY <1>4 DEF Enable
    <3>2. at > 9
      BY <3>1, PlanOrder
    <3> QED BY <3>1, <3>2 DEF FlagsTrue, MainSteps
  <2> QED BY <1>1, <1>2, <1>3, <2>1 DEF LeftInv, FlagsTrue
<1>5. CASE ~Enable
  <2>1. /\ unit'.enabled = unit.enabled /\ unit'.active = unit.active
        /\ unit'.loaded # unit.loaded => "systemd" \in flags'
        /\ pc' # "enabling"
    BY <1>5 DEF Main, Preflight, Reload, Enabled, CheckFile, InstallFile, LookFile, MakeDocker,
       LookDocker, InspectLabel, Verify, GuardVerified, Commit, world, Units, Abort, Onward, Goto
  <2>2. ASSUME pc' \in MainSteps, at' = at + 1, at = 9 PROVE "systemd" \in flags'
    BY <1>1, <1>5, <2>2, PlanOrder DEF FlagsTrue, Main, Preflight, Reload, Enabled, CheckFile,
       InstallFile, LookFile, MakeDocker, LookDocker, InspectLabel, Verify, GuardVerified, Commit,
       Abort, Goto, MainSteps, DockerObjects, FileObjects, Files
  <2>3. pc' \in MainSteps /\ at' > 9 => "systemd" \in flags'
    BY <1>1, <2>2 DEF FlagsTrue, MainSteps
  <2>4. unit'.loaded => "systemd" \in flags'
    BY <1>1, <2>1 DEF FlagsTrue
  <2> QED BY <1>1, <1>2, <1>3, <2>1, <2>3, <2>4 DEF LeftInv, FlagsTrue
<1> QED BY <1>4, <1>5

\* In the clean-up nothing is made: what is true of the flags stays so.
LEMMA FlagsStay ==
  ASSUME LeftInv, pc \notin MainSteps, pc' \notin MainSteps, mine' \subseteq mine,
         UNCHANGED flags, Excused => Excused',
         unit'.loaded => unit.loaded \/ "systemd" \in flags,
         unit'.enabled => unit.enabled,
         unit'.active # "inactive" => unit.active # "inactive"
  PROVE  FlagsTrue'
BY DEF LeftInv, FlagsTrue, MainSteps

LEMMA UnplanObjects ==
  /\ \A o \in Objects : \E k \in 1..12 : Unplan[k] = o
  /\ Unplan[4] = "unit" /\ Unplan[6] = "systemd"
  /\ \A k \in 1..12 : Unplan[k] \in {"systemd"} => k = 6
<1>1. \A o \in {"root", "operator", "data", "plugin", "compose", "pluginFile", "bin", "unit",
                "network", "container"} : \E k \in 1..12 : Unplan[k] = o
  BY DEF Unplan
<1> QED BY <1>1 DEF Objects, FileObjects, DockerObjects, Files, Unplan

LEMMA LeftClean ==
  ASSUME InstallInv, ToolsInv, LeftInv,
         \/ Skip \/ CleanReload
         \/ \E o \in FileObjects : CleanFile(o)
         \/ \E o \in DockerObjects : CleanDocker(o)
  PROVE  LeftInv'
<1> unit \in Units /\ mine \subseteq Objects /\ FlagsTrue /\ CleanedOK
  BY DEF InstallInv, LeftInv
<1>1. /\ pc = "clean" /\ pc' = "clean" /\ at' = at + 1 /\ at \in 1..12
      /\ UNCHANGED <<flags, safe>> /\ (Excused <=> Excused')
      /\ mine' \subseteq mine
  BY UnplanOrder DEF Skip, CleanReload, CleanFile, CleanDocker, At, Onward, CleanState, history,
     ToolsInv, BinMade, Excused, world
<1>2. bad' \in Nat /\ (bad > 0 => bad' > 0)
  BY DEF CleanedOK, Skip, CleanReload, CleanFile, CleanDocker, CleanState, Cleared, Refused, Fault
<1>3. unit'.enabled = unit.enabled /\ unit'.active = unit.active
  BY DEF Units, Skip, CleanReload, CleanFile, CleanDocker, world
<1>4. bad' > 0 \/ Excused \/ Unplan[at] \notin mine'
  <2>1. CASE Skip
    <3>1. bad > 0 \/ Unplan[at] \notin flags
      BY <1>1, <2>1 DEF Skip, At, CleanedOK
    <3> QED BY <1>1, <1>2, <3>1 DEF FlagsTrue
  <2>2. CASE CleanReload
    BY <1>1, <2>2 DEF CleanReload, At, Objects, FileObjects, DockerObjects, Files
  <2>3. ASSUME NEW o, CleanFile(o) \/ CleanDocker(o) PROVE bad' > 0 \/ Unplan[at] \notin mine'
    BY <2>3 DEF CleanFile, CleanDocker, At, CleanedOK, Refused, Fault
  <2> QED BY <2>1, <2>2, <2>3
<1>5. unit'.loaded => unit.loaded \/ "systemd" \in flags
  BY DEF Skip, CleanReload, CleanFile, CleanDocker, world, At
<1>6. FlagsTrue'
  BY <1>1, <1>3, <1>5, FlagsStay DEF MainSteps
<1>7. at > 5 /\ bad' = 0 /\ ~Excused => ~unit'.loaded
  <2> SUFFICES ASSUME at > 5, bad' = 0, ~Excused PROVE ~unit'.loaded
    OBVIOUS
  <2>1. bad = 0 /\ "unit" \notin mine
    BY <1>1, <1>2, UnplanObjects DEF CleanedOK
  <2>2. CASE CleanReload
    <3>1. at = 6 /\ unit' = [unit EXCEPT !.loaded = "unit" \in mine]
      BY <1>1, <2>1, <2>2, UnplanObjects DEF CleanReload, At, Fault
    <3> QED BY <2>1, <3>1 DEF Units
  <2>3. CASE ~CleanReload
    <3>1. unit' = unit
      BY <2>3 DEF Skip, CleanFile, CleanDocker, world
    <3>2. CASE at > 6
      BY <1>1, <2>1, <3>1, <3>2 DEF CleanedOK
    <3>3. CASE at = 6
      <4>1. Skip
        BY <2>3, <3>3, UnplanObjects DEF CleanFile, CleanDocker, At, FileObjects, DockerObjects,
           Files
      <4>2. "systemd" \notin flags
        BY <1>1, <3>3, <4>1, UnplanObjects DEF Skip, At
      <4> QED BY <3>1, <4>2 DEF FlagsTrue
    <3> QED BY <1>1, <3>2, <3>3
  <2> QED BY <2>2, <2>3
<1>8. at > 2 /\ ~Excused => ~unit'.enabled /\ unit'.active \in {"inactive", "failed"}
  <2>1. CASE at > 3
    BY <1>1, <1>3, <2>1 DEF CleanedOK
  <2>2. CASE at = 3
    <3>1. "enabled" \notin flags
      BY <2>2, UnplanOrder DEF Skip, CleanReload, CleanFile, CleanDocker, At, FileObjects, Files,
         DockerObjects
    <3> QED BY <1>3, <3>1 DEF FlagsTrue
  <2> QED BY <1>1, <2>1, <2>2
<1>9. bad' = 0 /\ ~Excused => \A k \in 1..12 : k < at + 1 => Unplan[k] \notin mine'
  BY <1>1, <1>2, <1>4 DEF CleanedOK
<1>10. CleanedOK'
  BY <1>1, <1>2, <1>7, <1>8, <1>9 DEF CleanedOK, Stopping, MainSteps
<1>11. Left'
  BY <1>1 DEF Left
<1> QED BY <1>6, <1>10, <1>11 DEF LeftInv

LEMMA LeftStop ==
  ASSUME InstallInv, ToolsInv, LeftInv, StopUnit \/ Stopped \/ RunRemove \/ Removed \/ Disable
  PROVE  LeftInv'
<1> unit \in Units /\ mine \subseteq Objects /\ FlagsTrue /\ CleanedOK
  BY DEF InstallInv, LeftInv
<1>1. /\ pc \in Stopping \/ (pc = "clean" /\ at = 3 /\ StopUnit)
      /\ at = 3 /\ UNCHANGED <<flags, mine>> /\ (Excused => Excused')
      /\ \/ pc' \in Stopping /\ at' = 3 /\ bad' = bad
         \/ pc' = "clean" /\ at' = 4 /\ Disable
  <2>1. At("enabled") => at = 3 /\ pc = "clean"
    <3>1. ASSUME At("enabled") PROVE at = 3
      <4>1. at \in 1..12 /\ Unplan[at] = "enabled"
        BY <3>1, UnplanOrder DEF At, ToolsInv, BinMade
      <4> QED BY <4>1 DEF Unplan
    <3> QED BY <3>1 DEF At
  <2> QED BY <2>1 DEF StopUnit, Stopped, RunRemove, Removed, Disable, Onward, Goto, world,
     history, CleanState, CleanedOK, Stopping, Excused
<1>2. bad' \in Nat /\ (bad > 0 => bad' > 0) /\ (pc' = "clean" => safe' \/ bad' > 0)
  BY <1>1 DEF CleanedOK, Disable, Refused, Stopping
<1>3. /\ unit'.loaded = unit.loaded /\ (unit'.enabled => unit.enabled)
      /\ unit'.active # "inactive" => unit.active # "inactive"
  <2>1. CASE StopUnit
    BY <2>1 DEF StopUnit, Units
  <2>2. CASE Disable
    BY <2>2 DEF Disable, Units
  <2> QED BY <2>1, <2>2 DEF Stopped, RunRemove, Removed, world
<1>4. FlagsTrue'
  BY <1>1, <1>3, FlagsStay DEF MainSteps, Stopping
<1>5. ~Excused' => ~unit'.enabled
  <2>1. CASE StopUnit
    BY <2>1 DEF StopUnit, Units, Excused
  <2>2. CASE ~StopUnit
    BY <1>1, <1>3, <2>2 DEF CleanedOK
  <2> QED BY <2>1, <2>2
<1>6. pc' = "clean" /\ ~Excused' => unit'.active \in {"inactive", "failed"}
  <2> SUFFICES ASSUME pc' = "clean", ~Excused' PROVE unit'.active \in {"inactive", "failed"}
    OBVIOUS
  <2>1. pc = "disable" /\ Disable /\ ~unstopped
    BY <1>1 DEF Stopping, Disable, Excused
  <2>2. unit'.active = unit.active
    BY <2>1 DEF Disable, Units
  <2> QED BY <2>1, <2>2 DEF ToolsInv, Removing
<1>7. bad' = 0 /\ ~Excused' => \A k \in 1..12 : k < at' => Unplan[k] \notin mine'
  <2>1. Unplan[3] \notin Objects
    BY UnplanOrder DEF Objects, FileObjects, DockerObjects, Files
  <2> QED BY <1>1, <1>2, <2>1 DEF CleanedOK
<1>8. CleanedOK' /\ Left'
  BY <1>1, <1>2, <1>5, <1>6, <1>7 DEF CleanedOK, Stopping, MainSteps, Left
<1> QED BY <1>4, <1>8 DEF LeftInv

LEMMA LeftRest ==
  ASSUME InstallInv, ToolsInv, LeftInv,
         \/ Finish \/ Interrupt \/ InterruptClean \/ UnitStep \/ GuardStep
         \/ \E o \in Free : Others(o)
  PROVE  LeftInv'
<1> unit \in Units /\ mine \subseteq Objects /\ FlagsTrue /\ CleanedOK
  BY DEF InstallInv, LeftInv
<1>1. CASE Finish
  <2>1. /\ pc = "clean" /\ at > 12 /\ pc' = "over" /\ UNCHANGED <<flags, mine, unit, safe, bad>>
        /\ (Excused => Excused') /\ (bad > 0 => Excused') /\ at \in Nat
    BY <1>1, UnplanOrder DEF Finish, CleanState, world, Excused, ToolsInv, BinMade
  <2>2. FlagsTrue' /\ CleanedOK'
    BY <2>1, FlagsStay DEF CleanedOK, MainSteps, Stopping
  <2>3. ASSUME ~Excused'
        PROVE  mine = {} /\ ~unit.loaded /\ ~unit.enabled /\ unit.active \in {"inactive", "failed"}
    <3>1. bad = 0 /\ ~Excused
      BY <2>1, <2>3 DEF CleanedOK
    <3>2. \A k \in 1..12 : Unplan[k] \notin mine
      BY <2>1, <3>1 DEF CleanedOK
    <3> QED BY <2>1, <3>1, <3>2, UnplanObjects DEF CleanedOK
  <2> QED BY <2>1, <2>2, <2>3 DEF Left, LeftInv
<1>2. CASE Interrupt
  <2>1. /\ pc \in MainSteps /\ pc' = "clean" /\ at' = 1
        /\ UNCHANGED <<flags, mine, unit, safe, bad>>
        /\ (Excused => Excused') /\ (pc = "look" => Excused')
    BY <1>2 DEF Interrupt, Abort, CleanState, world, Excused
  <2>2. FlagsTrue' /\ CleanedOK' /\ Left'
    BY <2>1 DEF FlagsTrue, CleanedOK, Left, MainSteps, Stopping
  <2> QED BY <2>2 DEF LeftInv
<1>3. CASE InterruptClean
  <2>1. /\ pc \notin MainSteps /\ pc' = "over" /\ Excused'
        /\ UNCHANGED <<flags, mine, unit, safe, bad>>
    BY <1>3 DEF InterruptClean, CleanState, world, Excused, CleanSteps, MainSteps
  <2>2. FlagsTrue' /\ CleanedOK' /\ Left'
    BY <2>1, FlagsStay DEF CleanedOK, Left, MainSteps, Stopping
  <2> QED BY <2>2 DEF LeftInv
<1>4. CASE UnitStep
  <2>1. /\ UNCHANGED <<pc, at, flags, safe, bad, result, mine, said, cut, unstopped>>
        /\ unit.active \in {"starting", "stopping"}
        /\ unit'.loaded = unit.loaded /\ unit'.enabled = unit.enabled
    BY <1>4 DEF UnitStep, flow, history, Units
  <2>2. FlagsTrue' /\ CleanedOK' /\ Left'
    BY <2>1 DEF LeftInv, FlagsTrue, CleanedOK, Left, Excused
  <2> QED BY <2>2 DEF LeftInv
<1>5. CASE GuardStep \/ \E o \in Free : Others(o)
  BY <1>5 DEF GuardStep, Others, flow, world, history, LeftInv, FlagsTrue, CleanedOK, Left, Excused
<1> QED BY <1>1, <1>2, <1>3, <1>4, <1>5

LEMMA InitLeft == Init => LeftInv
BY DEF Init, LeftInv, FlagsTrue, CleanedOK, Left, Stopping, MainSteps

LEMMA NextLeft == InstallInv /\ ToolsInv /\ FilesInv /\ LeftInv /\ [Next]_vars => LeftInv'
<1> SUFFICES ASSUME InstallInv, ToolsInv, FilesInv, LeftInv, [Next]_vars PROVE LeftInv'
  OBVIOUS
<1>1. CASE UNCHANGED vars
  BY <1>1 DEF vars, flow, world, history, LeftInv, FlagsTrue, CleanedOK, Left, Excused
<1> QED BY <1>1, LeftMain, LeftClean, LeftStop, LeftRest DEF Next, Cleanup

LEMMA LeftInvariance == Spec => []LeftInv
  BY InitLeft, NextLeft, Invariance, ToolsInvariance, FilesInvariance, PTL DEF Spec

\* A failed install leaves nothing, or says that it may have, but for the two
\* exceptions that LeftoverIsSaid names.
THEOREM LeftoversAreSaid == Spec => []LeftoverIsSaid
<1>1. LeftInv /\ FirewallKeepsItsTools => LeftoverIsSaid
  BY DEF LeftInv, Left, Excused, FirewallKeepsItsTools, LeftoverIsSaid
<1> QED BY <1>1, LeftInvariance, ToolsOutlastFirewall, PTL

-----------------------------------------------------------------------------
(* The guard, run by the installer and by systemd *)

\* The two runs of systemd's and the two of the installer's are started and
\* signalled as the guard's model has it; all else leaves it alone.
LEMMA NextGuard ==
  ASSUME Next
  PROVE  G!Next \/ GuardIdle
<1>1. ASSUME NEW p \in Procs, NEW op \in G!Ops, G!Start(p, op) PROVE G!Next
  BY <1>1 DEF G!Next
<1>2. {"start", "stop", "remove", "verify"} \subseteq Procs
      /\ {"apply", "verify", "remove"} \subseteq G!Ops
  BY DEF Procs, G!Ops
<1>3. Enable => G!Next \/ GuardIdle
  BY <1>1, <1>2 DEF Enable
<1>4. Verify => G!Next \/ GuardIdle
  BY <1>1, <1>2 DEF Verify
<1>5. StopUnit => G!Next \/ GuardIdle
  <2>1. StopUnit => GuardIdle \/ G!Signal("start") \/ G!Start("stop", "remove")
    BY DEF StopUnit, StopJob
  <2> QED BY <1>1, <1>2, <2>1 DEF G!Next
<1>6. RunRemove => G!Next
  BY <1>1, <1>2 DEF RunRemove
<1>7. GuardStep => G!Next
  BY DEF GuardStep, G!Next
<1>8. CASE Main
  BY <1>3, <1>4, <1>8 DEF Main, Preflight, Reload, Enabled, CheckFile, InstallFile, LookFile,
     MakeDocker, LookDocker, InspectLabel, GuardVerified, Commit
<1>9. CASE Cleanup
  BY <1>5, <1>6, <1>9 DEF Cleanup, Skip, CleanReload, Stopped, Removed, Disable, Finish, CleanFile,
     CleanDocker
<1>10. CASE Interrupt \/ InterruptClean \/ UnitStep \/ \E o \in Free : Others(o)
  BY <1>10 DEF Interrupt, InterruptClean, UnitStep, Others
<1> QED BY <1>7, <1>8, <1>9, <1>10 DEF Next

(***************************************************************************)
(* A host with an installer is a host where the guard is run by four       *)
(* processes: every behaviour of the installer is one of EgressGuard, and  *)
(* what is proved of the guard is true of it here.                         *)
(***************************************************************************)
THEOREM GuardRefined == Spec => GuardHolds /\ G!Spec
<1>1. Init => G!Init
  BY DEF Init
<1>2. [Next]_vars => [GuardIdle \/ G!Next]_guardVars /\ [G!Next]_G!vars
  <2>1. /\ GuardIdle \/ UNCHANGED vars => UNCHANGED G!vars
        /\ UNCHANGED vars => UNCHANGED guardVars
    BY DEF GuardIdle, guardVars, vars, G!vars, G!tables
  <2> QED BY <2>1, NextGuard
<1> QED BY <1>1, <1>2, PTL DEF Spec, GuardHolds, G!Spec

-----------------------------------------------------------------------------
(* What is proved of the guard, for the four runs that there are here *)

GP == INSTANCE EgressGuard_proofs

\* The guard's theorems ask for a finite set of runs.
LEMMA FourRuns == GP!EgressAssumption
<1> DEFINE order == <<"start", "stop", "remove", "verify">>
<1>1. order \in Seq(Procs) /\ \A p \in Procs : \E k \in 1..Len(order) : order[k] = p
  <2>1. order \in Seq(Procs)
    BY DEF Procs
  <2>2. /\ Len(order) = 4 /\ order[1] = "start" /\ order[2] = "stop"
        /\ order[3] = "remove" /\ order[4] = "verify"
    OBVIOUS
  <2> HIDE DEF order
  <2> QED BY <2>1, <2>2 DEF Procs
<1>2. GP!IsFiniteSet(Procs)
  <2> HIDE DEF order
  <2> QED BY <1>1 DEF GP!IsFiniteSet
<1> QED BY <1>2, InstallerAssumption DEF GP!EgressAssumption

\* The guard that Installer runs (G) is the guard those theorems are about (GP).
LEMMA SameGuard ==
  /\ G!Init => GP!Init
  /\ [G!Next]_G!vars => [GP!Next]_GP!vars
<1>1. G!Init => GP!Init
  BY DEF G!Init, GP!Init, G!NewRun, GP!NewRun
<1>2. ASSUME NEW p PROVE G!ApplyStep(p) => GP!ApplyStep(p)
  BY DEF G!tables, GP!tables, G!JumpsAt, GP!JumpsAt, G!Become, GP!Become, G!Goto,
         GP!Goto, G!Die, GP!Die, G!Ended, GP!Ended, G!Final, GP!Final, G!ApplyStep,
         GP!ApplyStep, G!ProbeTables, GP!ProbeTables, G!Create, GP!Create,
         G!ProbeCreated, GP!ProbeCreated, G!AppendNext, GP!AppendNext, G!Attach,
         GP!Attach, G!ProbeAttached, GP!ProbeAttached, G!Commit, GP!Commit,
         G!NewChain, GP!NewChain, G!AppendRule, GP!AppendRule, G!InsertJump,
         GP!InsertJump, G!Command, GP!Command
<1>3. ASSUME NEW p PROVE G!VerifyStep(p) => GP!VerifyStep(p)
  BY DEF G!tables, GP!tables, G!JumpsAt, GP!JumpsAt, G!Become, GP!Become, G!Goto,
         GP!Goto, G!Die, GP!Die, G!Ended, GP!Ended, G!Final, GP!Final, G!VerifyStep,
         GP!VerifyStep, G!VerifyJump, GP!VerifyJump, G!VerifyChain, GP!VerifyChain,
         G!Leave, GP!Leave, G!Probe, GP!Probe, G!Over, GP!Over, G!JumpInPlace,
         GP!JumpInPlace, G!Complete, GP!Complete, G!Full, GP!Full
<1>4. ASSUME NEW p PROVE G!CleanupStep(p) => GP!CleanupStep(p)
  BY DEF G!tables, GP!tables, G!JumpsAt, GP!JumpsAt, G!Become, GP!Become, G!Goto,
         GP!Goto, G!Die, GP!Die, G!Ended, GP!Ended, G!Final, GP!Final,
         G!CleanupStep, GP!CleanupStep, G!ProbeDetach, GP!ProbeDetach, G!Unhook,
         GP!Unhook, G!ProbeChain, GP!ProbeChain, G!Flush, GP!Flush, G!Drop, GP!Drop,
         G!Messy, GP!Messy, G!DeleteJump, GP!DeleteJump, G!FlushChain,
         GP!FlushChain, G!DeleteChain, GP!DeleteChain, G!Command, GP!Command
<1>5. ASSUME NEW p PROVE G!RemoveStep(p) => GP!RemoveStep(p)
  BY DEF G!tables, GP!tables, G!JumpsAt, GP!JumpsAt, G!Become, GP!Become, G!Goto,
         GP!Goto, G!Die, GP!Die, G!Ended, GP!Ended, G!Final, GP!Final, G!RemoveStep,
         GP!RemoveStep, G!ProbeOwned, GP!ProbeOwned, G!ProbeJumps, GP!ProbeJumps,
         G!Unjump, GP!Unjump, G!ProbeUnjumped, GP!ProbeUnjumped, G!Empty, GP!Empty,
         G!ProbeEmptied, GP!ProbeEmptied, G!Delete, GP!Delete, G!ProbeDeleted,
         GP!ProbeDeleted, G!ProbeNoChain, GP!ProbeNoChain, G!ProbeNoJump,
         GP!ProbeNoJump, G!ChainNext, GP!ChainNext, G!Acts, GP!Acts, G!Probe,
         GP!Probe, G!Over, GP!Over, G!Jumps, GP!Jumps, G!Cardinality,
         GP!Cardinality, G!DeleteJump, GP!DeleteJump, G!FlushChain, GP!FlushChain,
         G!DeleteChain, GP!DeleteChain, G!Command, GP!Command
<1>6. ASSUME NEW p PROVE G!Run(p) => GP!Run(p)
  BY <1>2, <1>3, <1>4, <1>5 DEF G!Run, GP!Run, G!tables, GP!tables
<1>7. ASSUME NEW p PROVE G!Signal(p) => GP!Signal(p)
  BY DEF G!Signal, GP!Signal, G!Active, GP!Active, G!CleanupSteps, GP!CleanupSteps,
         G!tables, GP!tables, G!JumpsAt, GP!JumpsAt, G!Become, GP!Become, G!Goto,
         GP!Goto, G!Die, GP!Die, G!Ended, GP!Ended, G!Final, GP!Final
<1>8. ASSUME NEW p, NEW op PROVE G!Start(p, op) => GP!Start(p, op)
  BY DEF G!Start, GP!Start, G!Active, GP!Active, G!NewRun, GP!NewRun, G!EntryOf,
         GP!EntryOf, G!Become, GP!Become, G!tables, GP!tables
<1>9. G!Edit => GP!Edit
  BY DEF G!Edit, GP!Edit
<1>10. G!Next => GP!Next
  BY <1>6, <1>7, <1>8, <1>9 DEF G!Next, GP!Next, G!Ops, GP!Ops
<1>11. UNCHANGED G!vars => UNCHANGED GP!vars
  BY DEF G!vars, GP!vars, G!tables, GP!tables
<1> QED BY <1>1, <1>10, <1>11

(***************************************************************************)
(* On the host of the installer the guard keeps what EgressGuard says of   *)
(* it, whichever of systemd's and the installer's runs fail or are         *)
(* interrupted: success is true and a jump to an incomplete chain was      *)
(* reported, also when runs overlap; when none do, there is one jump at    *)
(* most and a failed apply is clean or said, but for an ill-timed signal.  *)
(***************************************************************************)
THEOREM GuardKeepsPromises ==
  Spec => /\ [](G!TypeOK /\ G!SuccessIsTrue /\ G!HollowWasReported /\ G!OneJump)
          /\ G!FailureIsCleanOrSaid
<1>1. GP!Spec => /\ [](GP!TypeOK /\ GP!SuccessIsTrue /\ GP!HollowWasReported /\ GP!OneJump)
                 /\ GP!FailureIsCleanOrSaid
  BY FourRuns, GP!TypeCorrect, GP!SuccessIsHonest, GP!HollowsAreReported, GP!NeverTwoJumps,
     GP!FailuresAreClean, PTL
<1>2. G!Spec => GP!Spec
  BY SameGuard, PTL DEF G!Spec, GP!Spec
<1>3. GP!TypeOK /\ GP!SuccessIsTrue => G!TypeOK /\ G!SuccessIsTrue
  BY DEF G!TypeOK, GP!TypeOK, G!SuccessIsTrue, GP!SuccessIsTrue, G!Runs, GP!Runs,
         G!Steps, GP!Steps, G!Ops, GP!Ops, G!ApplySteps, GP!ApplySteps,
         G!VerifySteps, GP!VerifySteps, G!CleanupSteps, GP!CleanupSteps,
         G!RemoveSteps, GP!RemoveSteps, G!Gone, GP!Gone, G!InForce, GP!InForce,
         G!JumpInPlace, GP!JumpInPlace, G!Complete, GP!Complete, G!Full, GP!Full,
         G!JumpsAt, GP!JumpsAt
<1>4. GP!HollowWasReported /\ GP!OneJump => G!HollowWasReported /\ G!OneJump
  BY DEF G!HollowWasReported, GP!HollowWasReported, G!OneJump, GP!OneJump, G!Jumps,
         GP!Jumps, G!Cardinality, GP!Cardinality, G!JumpsAt, GP!JumpsAt, G!Full,
         GP!Full, G!Active, GP!Active
<1>5. GP!FailureIsCleanOrSaid => G!FailureIsCleanOrSaid
  BY DEF G!FailureIsCleanOrSaid, GP!FailureIsCleanOrSaid, G!vars, GP!vars, G!tables,
         GP!tables, G!Gone, GP!Gone, G!JumpsAt, GP!JumpsAt
<1> QED BY <1>1, <1>2, <1>3, <1>4, <1>5, GuardRefined, PTL

-----------------------------------------------------------------------------
(* Types: the installer's own *)

\* The place in Plan or Unplan: one past the end is where Unplan is left.
Places == at \in 1..13

OwnTyped ==
  /\ pc \in MainSteps \cup CleanSteps \cup {"over"}
  /\ flags \subseteq Flags
  /\ fine \in BOOLEAN /\ safe \in BOOLEAN
  /\ said \in BOOLEAN /\ cut \in BOOLEAN /\ unstopped \in BOOLEAN
  /\ bad \in 0..(MaxFaults + 1)
  /\ result \in {"none", "committed", "failed"}
  /\ theirs \subseteq Objects /\ late \subseteq FileObjects

LEMMA MainTyped ==
  ASSUME Places, Placed, OwnTyped, Main
  PROVE  Places' /\ OwnTyped'
<1>1. \A k \in 1..12 : Plan[k] \in Flags
  BY PlanOrder DEF Flags
<1>2. pc' \in MainSteps \cup CleanSteps \cup {"over"} /\ result' \in {"none", "committed", "failed"}
  BY DEF OwnTyped, Main, Preflight, Reload, Enable, Enabled, CheckFile, InstallFile, LookFile,
     MakeDocker, LookDocker, InspectLabel, Verify, GuardVerified, Commit, Abort, Onward, Goto,
     MainSteps, CleanSteps
<1>3. flags' \subseteq Flags
  <2>1. pc \in {"make", "look"} => Plan[at] \in Flags
    BY <1>1 DEF Placed
  <2> QED BY <2>1 DEF OwnTyped, Main, Preflight, Reload, Enable, Enabled, CheckFile, InstallFile,
     LookFile, MakeDocker, LookDocker, InspectLabel, Verify, GuardVerified, Commit
<1>4. fine' \in BOOLEAN /\ said' \in BOOLEAN
  BY DEF OwnTyped, Main, Preflight, Reload, Enable, Enabled, CheckFile, InstallFile, LookFile,
     MakeDocker, LookDocker, InspectLabel, Verify, GuardVerified, Commit, history
<1>5. /\ UNCHANGED <<safe, bad, cut, unstopped>>
      /\ theirs' \subseteq theirs /\ late' \subseteq late
  BY DEF Main, Preflight, Reload, Enable, Enabled, CheckFile, InstallFile, LookFile, MakeDocker,
     LookDocker, InspectLabel, Verify, GuardVerified, Commit, history, world, CleanState
<1>6. Places'
  <2>1. at' \in {1, at} \/ (at' = at + 1 /\ pc \in {"make", "look", "enabling"})
    BY DEF Main, Preflight, Reload, Enable, Enabled, CheckFile, InstallFile, LookFile, MakeDocker,
       LookDocker, InspectLabel, Verify, GuardVerified, Commit, Abort, Onward, Goto
  <2> QED BY <2>1 DEF Places, Placed
<1> QED BY <1>2, <1>3, <1>4, <1>5, <1>6 DEF OwnTyped

LEMMA CleanTyped ==
  ASSUME Places, OwnTyped, LeftInv, Cleanup
  PROVE  Places' /\ OwnTyped'
<1>1. /\ pc' \in CleanSteps \cup {"over"} /\ UNCHANGED <<result, flags>>
      /\ theirs' \subseteq theirs /\ late' \subseteq late
  BY DEF Cleanup, Skip, CleanReload, StopUnit, Stopped, RunRemove, Removed, Disable, Finish,
     CleanFile, CleanDocker, Onward, Goto, CleanSteps, world, history
<1>2. fine' \in BOOLEAN /\ said' \in BOOLEAN /\ cut' \in BOOLEAN /\ unstopped' \in BOOLEAN
  BY DEF OwnTyped, Cleanup, Skip, CleanReload, StopUnit, Stopped, RunRemove, Removed, Disable,
     Finish, CleanFile, CleanDocker, history
<1>3. safe' \in BOOLEAN
  BY DEF OwnTyped, Cleanup, Skip, CleanReload, StopUnit, Stopped, RunRemove, Removed, Disable,
     Finish, CleanFile, CleanDocker, CleanState
<1>4. bad' \in 0..(MaxFaults + 1)
  <2>1. Fault \/ Refused \/ UNCHANGED bad => bad' \in 0..(MaxFaults + 1)
    BY InstallerAssumption DEF Fault, Refused, OwnTyped
  <2> QED BY <2>1 DEF Cleanup, Skip, CleanReload, StopUnit, Stopped, RunRemove, Removed, Disable,
     Finish, CleanFile, CleanDocker, CleanState, Cleared
<1>5. Places'
  <2>1. at' \in 1..13
    <3>1. at' \in {1, at} \/ (at' = at + 1 /\ (at <= 12 \/ pc = "disable"))
      BY UnplanOrder DEF Cleanup, Skip, CleanReload, StopUnit, Stopped, RunRemove, Removed, Disable,
         Finish, CleanFile, CleanDocker, At, Onward, Goto
    <3>2. pc = "disable" => at = 3
      BY DEF LeftInv, CleanedOK, Stopping
    <3> QED BY <3>1, <3>2 DEF Places
  <2> QED BY <1>1, <2>1 DEF Places, CleanSteps
<1> QED BY <1>1, <1>2, <1>3, <1>4, <1>5 DEF OwnTyped

LEMMA NextOwn ==
  ASSUME Places, Placed, OwnTyped, LeftInv, Next
  PROVE  Places' /\ OwnTyped'
<1>1. CASE Interrupt \/ InterruptClean
  <2>1. /\ pc' \in {"clean", "over"} /\ at' = 1 /\ fine' \in BOOLEAN /\ cut' \in BOOLEAN
        /\ result' \in {"failed", result}
        /\ UNCHANGED <<flags, safe, bad, theirs, late, said, unstopped>>
    BY <1>1 DEF Interrupt, InterruptClean, Abort, CleanState, OwnTyped, world
  <2> QED BY <2>1 DEF OwnTyped, Places, CleanSteps
<1>2. CASE UnitStep \/ GuardStep
  BY <1>2 DEF UnitStep, GuardStep, flow, world, history, OwnTyped, Places
<1>3. ASSUME NEW o \in Free, Others(o) PROVE Places' /\ OwnTyped'
  <2>1. o \in Objects
    BY DEF Free, Objects, FileObjects, Files
  <2>2. theirs' \subseteq Objects /\ late' \subseteq FileObjects
    BY <1>3, <2>1 DEF Others, OwnTyped
  <2>3. UNCHANGED <<flow, said, cut, unstopped>>
    BY <1>3 DEF Others
  <2> QED BY <2>2, <2>3 DEF flow, OwnTyped, Places
<1> QED BY <1>1, <1>2, <1>3, MainTyped, CleanTyped DEF Next

\* Types, of the guard as it is run here and of the installer.
THEOREM TypeCorrect == Spec => []TypeOK
<1> DEFINE Typed == Places /\ OwnTyped
<1>1. Init => Typed
  <2> SUFFICES ASSUME Init PROVE Typed
    OBVIOUS
  <2>1. Places
    BY DEF Init, Places
  <2>2. OwnTyped
    <3>1. 0 \in 0..(MaxFaults + 1)
      BY InstallerAssumption
    <3> QED BY <3>1 DEF Init, OwnTyped, MainSteps
  <2> QED BY <2>1, <2>2
<1>2. Typed /\ LeftInv /\ FilesInv /\ [Next]_vars => Typed'
  <2> SUFFICES ASSUME Typed, LeftInv, FilesInv, [Next]_vars PROVE Typed'
    OBVIOUS
  <2>1. CASE UNCHANGED vars
    BY <2>1 DEF vars, flow, world, history, Places, OwnTyped
  <2> QED BY <2>1, NextOwn DEF FilesInv
<1>3. G!TypeOK /\ Typed /\ InstallInv /\ FilesInv => TypeOK
  BY PlanOrder DEF TypeOK, InstallInv, FilesInv, Apart, Places, OwnTyped, Units
<1> HIDE DEF Typed
<1> QED BY <1>1, <1>2, <1>3, GuardKeepsPromises, Invariance, LeftInvariance, FilesInvariance,
       PTL DEF Spec

=============================================================================
