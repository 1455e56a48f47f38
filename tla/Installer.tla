------------------------------ MODULE Installer ------------------------------
(***************************************************************************)
(* The installer (install.sh) as a transaction: it creates its objects one *)
(* by one, keeps a flag for each, and its EXIT trap removes what is        *)
(* flagged unless the last line committed.  systemd runs the egress guard  *)
(* (EgressGuard) when the unit is enabled or stopped, the installer itself *)
(* runs the guard's verify and remove; all of them share the tables.       *)
(*                                                                         *)
(* Any command may fail, and may fail after taking effect; a signal may    *)
(* come at any step, in the trap too; others may take the name of a file,  *)
(* a directory, the network or the container, also between the look at the *)
(* name and the command that uses it.  One installer runs, once.           *)
(*                                                                         *)
(* Objects that are made and removed alike are one: compose stands for the *)
(* files of the operator directory, plugin and pluginFile for the plugin   *)
(* directories and profile homes and what is in them.                      *)
(***************************************************************************)
EXTENDS Integers, Sequences, FiniteSets

CONSTANTS
  NRules,     \* of the guard's chain
  MaxEdits,   \* bound: changes to DOCKER-USER by others
  MaxFaults   \* bound: commands of the clean-up that fail

ASSUME InstallerAssumption ==
  /\ NRules \in Nat \ {0}
  /\ MaxEdits \in Nat /\ MaxFaults \in Nat

VARIABLES
  listed, rules, user, proc, edits, quiet, overlap,   \* of EgressGuard
  pc, at,     \* the installer's step, the place in Plan or Unplan it is at
  fine,       \* the last command's status was 0
  flags,      \* CREATED_..., INSTALLED_..., RELOADED_SYSTEMD, ENABLED_GUARD
  safe,       \* cleanup's management_safe
  bad,        \* failures that the clean-up noted: its rc is 1 if there are any
  result,     \* "none", "committed", "failed"
  mine,       \* objects that this installer created
  theirs,     \* objects of others
  unit,       \* [loaded, enabled : BOOLEAN, active : ...], as systemd has it
  \* History, read by properties only:
  said,       \* a message names what may be left behind
  cut,        \* a signal between a command and its flag, or in the clean-up
  unstopped,  \* `systemctl disable --now` failed; its status is not used
  late        \* what of theirs are files and directories made after the
              \* installer had found the name free

\* Runs of the guard: ExecStart, ExecStop, and the installer's own two.
Procs == {"start", "stop", "remove", "verify"}

G == INSTANCE EgressGuard

guardVars == <<listed, rules, user, proc, edits, quiet, overlap>>
flow == <<pc, at, fine, flags, safe, bad, result>>
world == <<mine, theirs, unit>>
history == <<said, cut, unstopped, late>>
vars == <<guardVars, flow, world, history>>

Files == <<"root", "operator", "data", "plugin", "compose", "pluginFile",
           "bin", "unit">>
FileObjects == {Files[k] : k \in DOMAIN Files}
Directories == {"root", "operator", "data", "plugin"}
DockerObjects == {"network", "container"}
Objects == FileObjects \cup DockerObjects

\* What is in a directory keeps rmdir from removing it.
Contains ==
  {<<"root", "operator">>, <<"root", "data">>, <<"operator", "compose">>,
   <<"data", "plugin">>, <<"plugin", "pluginFile">>}

\* The order of the script's main part, and that of cleanup.
Plan == Files \o <<"systemd", "enabled", "network", "container">>
Unplan ==
  <<"container", "network", "enabled", "unit", "bin", "systemd", "compose",
    "pluginFile", "plugin", "operator", "data", "root">>

Flags == {Plan[k] : k \in DOMAIN Plan}
MainSteps == {"preflight", "make", "install", "look", "enabling", "inspect",
              "verify", "guard", "commit"}
CleanSteps == {"clean", "stopping", "remove", "removing", "disable"}

Init ==
  /\ G!Init
  /\ pc = "preflight" /\ at = 1 /\ fine = TRUE
  /\ flags = {} /\ safe = TRUE /\ bad = 0 /\ result = "none"
  /\ mine = {}
  /\ theirs = {}
  /\ unit = [loaded |-> FALSE, enabled |-> FALSE, active |-> "inactive"]
  /\ said = FALSE /\ cut = FALSE /\ unstopped = FALSE /\ late = {}

-----------------------------------------------------------------------------
(* Parts of a step *)

GuardIdle == UNCHANGED guardVars
CleanState == UNCHANGED <<safe, bad>>

\* A command of the clean-up fails; or it cannot but fail.
Fault == bad < MaxFaults /\ bad' = bad + 1
Refused == bad' = IF bad = 0 THEN 1 ELSE bad
Cleared == UNCHANGED bad \/ Fault

\* exit: with COMMITTED = 0 the EXIT trap cleans up.
Abort ==
  /\ pc' = "clean" /\ at' = 1
  /\ result' = "failed"

Onward(next) ==
  /\ pc' = next /\ at' = at + 1
  /\ UNCHANGED result

Goto(next) ==
  /\ pc' = next
  /\ UNCHANGED <<at, result>>

-----------------------------------------------------------------------------
(* The main part *)

\* preflight: any of the protected names is taken, or a command fails.
Preflight ==
  /\ pc = "preflight"
  /\ \/ theirs = {} /\ G!Gone /\ ~unit.loaded /\ Goto("make")
     \/ Abort
  /\ GuardIdle /\ CleanState
  /\ UNCHANGED <<fine, flags, world, history>>

\* Mutated form: nothing looks whether the name is taken.
InstallsOver(o) ==
  /\ pc = "make" /\ Plan[at] = o
  /\ Goto("install") \/ Abort
  /\ GuardIdle /\ CleanState
  /\ UNCHANGED <<fine, flags, world, history>>

\* Mutated form: the flag comes first, as that of the daemon-reload does.
FlagsFirst(o) ==
  /\ pc = "make" /\ Plan[at] = o
  /\ flags' = flags \cup {o}
  /\ (o \notin theirs /\ Goto("install")) \/ Abort
  /\ GuardIdle /\ CleanState
  /\ UNCHANGED <<fine, world, history>>

\* The name must be free and its ancestors safe.
CheckFile(o) ==
  /\ pc = "make" /\ Plan[at] = o
  /\ (o \notin theirs /\ Goto("install")) \/ Abort
  /\ GuardIdle /\ CleanState
  /\ UNCHANGED <<fine, flags, world, history>>

\* install.  Should somebody have taken the name meanwhile, it leaves a
\* directory to its owner, with new access rights, and replaces a file; having
\* failed, it may have done no more than unlink that.
InstallFile(o) ==
  /\ pc = "install" /\ Plan[at] = o
  /\ \/ /\ o \in theirs \cap Directories
        /\ fine' \in BOOLEAN
        /\ UNCHANGED <<mine, theirs>>
     \/ /\ o \notin theirs \cap Directories
        /\ fine' \in BOOLEAN
        /\ mine' = mine \cup {o} /\ theirs' = theirs \ {o}
     \/ /\ o \notin theirs \cap Directories
        /\ fine' = FALSE
        /\ UNCHANGED mine /\ theirs' \in {theirs, theirs \ {o}}
  /\ late' = late \cap theirs'
  /\ Goto("look")
  /\ GuardIdle /\ CleanState
  /\ UNCHANGED <<flags, unit, said, cut, unstopped>>

\* Mutated form: the flag waits for a status of 0.
FlagsOnSuccess(o) ==
  /\ pc = "look" /\ Plan[at] = o
  /\ flags' = IF fine THEN flags \cup {o} ELSE flags
  /\ IF fine THEN Onward("make") ELSE Abort
  /\ fine' = TRUE
  /\ GuardIdle /\ CleanState
  /\ UNCHANGED <<world, history>>

\* The flag follows what stands there, whoever made it, but for a symlink,
\* which is refused; the status of install is asked after that.
LookFile(o) ==
  /\ pc = "look" /\ Plan[at] = o
  /\ \/ /\ flags' = flags \cup ((mine \cup theirs) \cap {o})
        /\ IF fine THEN Onward("make") ELSE Abort
     \/ o \in theirs /\ UNCHANGED flags /\ Abort
  /\ fine' = TRUE
  /\ GuardIdle /\ CleanState
  /\ UNCHANGED <<world, history>>

\* The flag comes before the command.
Reload ==
  /\ pc = "make" /\ Plan[at] = "systemd"
  /\ flags' = flags \cup {"systemd"}
  /\ \E loads, status \in BOOLEAN :
       /\ loads \/ ~status
       /\ unit' = [unit EXCEPT !.loaded = loads]
       /\ IF status THEN Onward("make") ELSE Abort
  /\ GuardIdle /\ CleanState
  /\ UNCHANGED <<fine, mine, theirs, history>>

\* enable --now makes the link and queues the start job, or fails before it.
Enable ==
  /\ pc = "make" /\ Plan[at] = "enabled"
  /\ flags' = flags \cup {"enabled"}
  /\ \/ /\ unit' = [loaded |-> TRUE, enabled |-> TRUE, active |-> "starting"]
        /\ G!Start("start", "apply")
        /\ Goto("enabling")
     \/ /\ \E linked \in BOOLEAN :
             unit' = [unit EXCEPT !.enabled = linked, !.loaded = @ \/ linked]
        /\ Abort
        /\ GuardIdle
  /\ CleanState
  /\ UNCHANGED <<fine, mine, theirs, history>>

\* Mutated form: the transaction is committed once the firewall is up.
CommitsEarly ==
  /\ pc = "enabling"
  /\ \/ unit.active = "active" /\ Goto("commit")
     \/ Abort
  /\ GuardIdle /\ CleanState
  /\ UNCHANGED <<fine, flags, world, history>>

\* systemctl waits for the job, or gives up and leaves it running.
Enabled ==
  /\ pc = "enabling"
  /\ \/ unit.active = "active" /\ Onward("make")
     \/ Abort
  /\ GuardIdle /\ CleanState
  /\ UNCHANGED <<fine, flags, world, history>>

\* docker network create, docker compose create.
MakeDocker(o) ==
  /\ pc = "make" /\ Plan[at] = o
  /\ \E done, status \in BOOLEAN :
       /\ done => o \notin mine \cup theirs
       /\ done \/ ~status
       /\ mine' = IF done THEN mine \cup {o} ELSE mine
       /\ fine' = status
  /\ Goto("look")
  /\ GuardIdle /\ CleanState
  /\ UNCHANGED <<flags, theirs, unit, history>>

\* The flag follows the listing, whoever made what is listed, and the status
\* where there is no listing.
LookDocker(o) ==
  /\ pc = "look" /\ Plan[at] = o
  /\ \/ /\ flags' = flags \cup ((mine \cup theirs) \cap {o})
        /\ IF ~fine \/ o \notin mine \cup theirs THEN Abort
           ELSE IF o = "container" THEN Goto("inspect") ELSE Onward("make")
        /\ UNCHANGED said
     \/ /\ flags' = IF fine THEN flags \cup {o} ELSE flags
        /\ said' = (said \/ ~fine)
        /\ Abort
  /\ fine' = TRUE
  /\ GuardIdle /\ CleanState
  /\ UNCHANGED <<world, cut, unstopped, late>>

InspectLabel ==
  /\ pc = "inspect"
  /\ \/ "container" \in mine /\ Goto("verify")
     \/ Abort
  /\ GuardIdle /\ CleanState
  /\ UNCHANGED <<fine, flags, world, history>>

\* verify_install: everything is there, the unit is active, and then the
\* guard's own verify.
Verify ==
  /\ pc = "verify"
  /\ \/ /\ FileObjects \subseteq mine \cup theirs /\ DockerObjects \subseteq mine
        /\ unit.active = "active"
        /\ G!Start("verify", "verify")
        /\ Goto("guard")
     \/ Abort /\ GuardIdle
  /\ CleanState
  /\ UNCHANGED <<fine, flags, world, history>>

GuardVerified ==
  /\ pc = "guard" /\ proc["verify"].pc = "over"
  /\ IF proc["verify"].exit = "ok" THEN Goto("commit") ELSE Abort
  /\ GuardIdle /\ CleanState
  /\ UNCHANGED <<fine, flags, world, history>>

Commit ==
  /\ pc = "commit"
  /\ pc' = "over" /\ result' = "committed"
  /\ GuardIdle /\ CleanState
  /\ UNCHANGED <<at, fine, flags, world, history>>

-----------------------------------------------------------------------------
(* cleanup *)

\* Mutated form: the firewall's tools are removed with the other files.
AtAnyway(o) ==
  /\ pc = "clean" /\ at <= Len(Unplan) /\ Unplan[at] = o
  /\ o \in flags

\* The object that the clean-up is at, if it is flagged; the unit and the
\* guard's executable stay unless management_safe.
At(o) ==
  /\ pc = "clean" /\ at <= Len(Unplan) /\ Unplan[at] = o
  /\ o \in flags
  /\ o \in {"unit", "bin"} => safe

Skip ==
  /\ pc = "clean" /\ at <= Len(Unplan)
  /\ ~At(Unplan[at])
  /\ Onward("clean")
  /\ GuardIdle /\ CleanState
  /\ UNCHANGED <<fine, flags, world, history>>

\* Mutated form: what has the name is removed, without its label.
RemovesByName(o) ==
  /\ At(o)
  /\ \/ mine' = mine \ {o} /\ theirs' = theirs \ {o} /\ Cleared
     \/ UNCHANGED <<mine, theirs>> /\ Fault
  /\ Onward("clean")
  /\ GuardIdle
  /\ UNCHANGED <<fine, flags, safe, unit, history>>

\* List, inspect the label, rm.  Only a managed object is removed; what is
\* not listed is done with.
CleanDocker(o) ==
  /\ At(o)
  /\ \/ o \in mine /\ mine' = mine \ {o} /\ Cleared
     \/ o \in theirs /\ UNCHANGED mine /\ Refused
     \/ o \notin mine \cup theirs /\ UNCHANGED <<mine, bad>>
     \/ UNCHANGED mine /\ Fault
  /\ Onward("clean")
  /\ GuardIdle
  /\ UNCHANGED <<fine, flags, safe, theirs, unit, history>>

Holds(o) == \E c \in mine \cup theirs : <<o, c>> \in Contains

\* rm -f, rmdir: the flag is all they ask for, not whose the object is.  In a
\* directory of others there may be files of others.
CleanFile(o) ==
  /\ At(o)
  /\ \/ /\ ~Holds(o)
        /\ mine' = mine \ {o} /\ theirs' = theirs \ {o}
        /\ Cleared
     \/ /\ Holds(o) \/ o \in theirs \cap Directories
        /\ UNCHANGED <<mine, theirs>> /\ Refused
     \/ UNCHANGED <<mine, theirs>> /\ Fault
  /\ late' = late \cap theirs'
  /\ Onward("clean")
  /\ GuardIdle
  /\ UNCHANGED <<fine, flags, safe, unit, said, cut, unstopped>>

CleanReload ==
  /\ At("systemd")
  /\ \/ unit' = [unit EXCEPT !.loaded = "unit" \in mine] /\ Cleared
     \/ UNCHANGED unit /\ Fault
  /\ Onward("clean")
  /\ GuardIdle
  /\ UNCHANGED <<fine, flags, safe, mine, theirs, history>>

\* systemd stops the unit: a start job is cancelled by SIGTERM to apply, an
\* active unit runs ExecStop.
StopJob ==
  CASE unit.active = "starting" -> G!Signal("start")
    [] unit.active = "active" -> G!Start("stop", "remove")
    [] OTHER -> GuardIdle

\* disable --now is refused, or removes the link and queues the stop job.
StopUnit ==
  /\ At("enabled")
  /\ safe' = FALSE
  /\ \/ /\ GuardIdle
        /\ unstopped' = TRUE
        /\ Goto("remove")
        /\ UNCHANGED unit
     \/ /\ StopJob
        /\ unit' = [unit EXCEPT !.enabled = FALSE,
                                !.active = IF @ \in {"starting", "active"}
                                           THEN "stopping" ELSE @]
        /\ Goto("stopping")
        /\ UNCHANGED unstopped
  /\ UNCHANGED <<fine, flags, bad, mine, theirs, said, cut, late>>

\* Mutated form: the script waits until the unit is inactive.
WaitsForInactive ==
  /\ pc = "stopping" /\ unit.active = "inactive"
  /\ Goto("remove")
  /\ GuardIdle /\ CleanState
  /\ UNCHANGED <<fine, flags, world, history>>

\* systemctl waits for the job, or gives up and leaves it running.
Stopped ==
  /\ pc = "stopping"
  /\ \/ unit.active # "stopping" /\ UNCHANGED unstopped
     \/ unstopped' = TRUE
  /\ Goto("remove")
  /\ GuardIdle /\ CleanState
  /\ UNCHANGED <<fine, flags, world, said, cut, late>>

\* Mutated form: the clean-up empties the chain itself.
FlushesItself ==
  /\ pc = "remove" /\ listed /\ rules' = <<>>
  /\ Goto("disable")
  /\ CleanState
  /\ UNCHANGED <<listed, user, proc, edits, quiet, overlap, fine, flags, world, history>>

RunRemove ==
  /\ pc = "remove"
  /\ G!Start("remove", "remove")
  /\ Goto("removing")
  /\ CleanState
  /\ UNCHANGED <<fine, flags, world, history>>

Removed ==
  /\ pc = "removing" /\ proc["remove"].pc = "over"
  /\ Goto("disable")
  /\ GuardIdle /\ CleanState
  /\ UNCHANGED <<fine, flags, world, history>>

\* The second disable; only both statuses make the removal safe.
Disable ==
  /\ pc = "disable"
  /\ \E unlinked, status \in BOOLEAN :
       /\ unlinked \/ ~status
       /\ unit' = [unit EXCEPT !.enabled = @ /\ ~unlinked]
       /\ safe' = (status /\ proc["remove"].exit = "ok")
  /\ IF safe' THEN UNCHANGED bad ELSE Refused
  /\ Onward("clean")
  /\ GuardIdle
  /\ UNCHANGED <<fine, flags, mine, theirs, history>>

Finish ==
  /\ pc = "clean" /\ at > Len(Unplan)
  /\ pc' = "over" /\ at' = 1
  /\ said' = (said \/ bad > 0)
  /\ GuardIdle /\ CleanState
  /\ UNCHANGED <<fine, flags, result, world, cut, unstopped, late>>

-----------------------------------------------------------------------------
(* Signals, systemd, the guard, users of Docker *)

\* SIGINT, SIGTERM: the trap runs from where the installer is.
Interrupt ==
  /\ pc \in MainSteps \ {"preflight"}
  /\ Abort
  /\ cut' = (cut \/ pc = "look")
  /\ fine' = TRUE
  /\ GuardIdle /\ CleanState
  /\ UNCHANGED <<flags, world, said, unstopped, late>>

\* In the clean-up a signal is the end.
InterruptClean ==
  /\ pc \in CleanSteps
  /\ pc' = "over" /\ at' = 1
  /\ cut' = TRUE
  /\ GuardIdle /\ CleanState
  /\ UNCHANGED <<fine, flags, result, world, said, unstopped, late>>

UnitStep ==
  /\ \/ /\ unit.active = "starting" /\ proc["start"].pc = "over"
        /\ unit' = [unit EXCEPT !.active =
                      IF proc["start"].exit = "ok" THEN "active" ELSE "failed"]
     \/ /\ unit.active = "stopping"
        /\ ~G!Active("start") /\ ~G!Active("stop")
        /\ unit' = [unit EXCEPT !.active = "inactive"]
  /\ GuardIdle
  /\ UNCHANGED <<flow, mine, theirs, history>>

GuardStep ==
  /\ G!Edit \/ \E p \in Procs : G!Run(p)
  /\ UNCHANGED <<flow, world, history>>

\* They take a name before preflight or around its use; in between nobody
\* looks.  One directory and one file stand for all, and what they make under
\* the name is a directory or a file as well.
Free == {"root", "bin"} \cup DockerObjects
Others(o) ==
  /\ pc = "preflight" \/ (pc \in {"make", "install", "look"} /\ Plan[at] = o)
  /\ o \notin mine \cup theirs
  /\ theirs' = theirs \cup {o}
  /\ late' = IF pc \in {"install", "look"} THEN late \cup ({o} \cap FileObjects)
             ELSE late
  /\ GuardIdle
  /\ UNCHANGED <<flow, mine, unit, said, cut, unstopped>>

Main ==
  \/ Preflight \/ Reload \/ Enable \/ Enabled
  \/ \E o \in FileObjects : CheckFile(o) \/ InstallFile(o) \/ LookFile(o)
  \/ \E o \in DockerObjects : MakeDocker(o) \/ LookDocker(o)
  \/ InspectLabel \/ Verify \/ GuardVerified \/ Commit

Cleanup ==
  \/ Skip \/ CleanReload \/ StopUnit \/ Stopped \/ RunRemove \/ Removed
  \/ Disable \/ Finish
  \/ \E o \in FileObjects : CleanFile(o)
  \/ \E o \in DockerObjects : CleanDocker(o)

Next ==
  \/ Main \/ Cleanup \/ Interrupt \/ InterruptClean
  \/ UnitStep \/ GuardStep
  \/ \E o \in Free : Others(o)

Spec == Init /\ [][Next]_vars

\* Every command of the script has an end, systemd goes on with its jobs, and
\* a run of the guard goes on, for iptables waits 5 s for its lock: until the
\* installer is over, as long as one of them can take a step, one of them does.
Progress ==
  /\ pc # "over"
  /\ \/ Cleanup \/ UnitStep \/ Main
     \/ UNCHANGED <<flow, world, history>> /\ \E p \in Procs : G!Run(p)
FairSpec == Spec /\ WF_vars(Progress)

-----------------------------------------------------------------------------
(* Properties *)

TypeOK ==
  /\ G!TypeOK
  /\ pc \in MainSteps \cup CleanSteps \cup {"over"}
  /\ at \in 1..(Len(Plan) + 1)
  /\ flags \subseteq Flags
  /\ {fine, safe, said, cut, unstopped} \subseteq BOOLEAN
  /\ bad \in 0..(MaxFaults + 1)
  /\ result \in {"none", "committed", "failed"}
  /\ mine \subseteq Objects /\ theirs \subseteq Objects
  /\ late \subseteq FileObjects
  /\ mine \cap theirs = {}
  /\ unit \in [loaded : BOOLEAN, enabled : BOOLEAN,
               active : {"inactive", "starting", "active", "failed", "stopping"}]

\* To the guard the installer and systemd are some of those who run it: what
\* they do starts a run, signals one or leaves them alone, so that whatever
\* EgressGuard promises is kept on a host where an installer is at work.  This
\* is G!Spec; that the guard is idle, as it mostly is, is asked first.
GuardHolds == G!Init /\ [][GuardIdle \/ G!Next]_guardVars

\* What others had under a name when the installer looked at it is never removed
\* or installed over, by no step of it and no clean-up; nor is their network or
\* container, whenever they made it, for those are asked for their label.  Only
\* a file or directory that took its name after the look (install.sh:139, 157,
\* 177, 197) can be lost: install replaces it, or it gets the flag of what was
\* installed (144) and is removed by it (289-410), which asks for no owner.
TheirsStay == [][theirs \ theirs' \subseteq late /\ mine' \cap theirs' = {}]_vars

\* A failed install leaves nothing, or says that it may have; the exceptions
\* are signals at the wrong moment and a `disable --now` that failed, whose
\* status the script does not use.
LeftoverIsSaid ==
  (pc = "over" /\ result = "failed" /\ ~said /\ ~cut /\ ~unstopped) =>
    /\ mine = {}
    /\ G!Gone
    /\ ~unit.loaded /\ ~unit.enabled
    /\ unit.active \in {"inactive", "failed"}

\* Chain and jump are never left without the executable that removes them.
FirewallKeepsItsTools ==
  "bin" \in mine \/ G!Gone \/ unstopped

\* When the installer commits, all its objects are there, made by it but for a
\* directory that others made after it had found the name free; systemd has the
\* unit active and will start it again, and unless somebody touched the tables
\* since they were verified, the guard is in force.
CommittedIsComplete ==
  [][result' = "committed" /\ result = "none" =>
       /\ Objects \ mine \subseteq theirs \cap late \cap Directories
       /\ unit.enabled /\ unit.active = "active"
       /\ "verify" \in quiet => G!InForce]_vars

\* The installer ends: no step of it waits for a job of systemd that waits
\* for the installer.
InstallEnds == <>(pc = "over")

=============================================================================
