# A formal model of Scotty

TLA+ specifications of the Scotty deployment: a Discord assistant that drafts
changes at providers (Trello, GoHighLevel, Discord), carries them out once
after a human approval, sends private reminders, answers one fixed trigger
with a setup wizard, and is installed and set up locally by root. TLC checks
the models on small instances; TLAPS proves the central results for every
value of the constants.

Paths such as `approvals.py` are below `src/assistant/scotty_business/`,
`guard.py` below `src/assistant/scotty_guard/`.

## 1. Inventory

| Component | State | Operations | Works with |
|---|---|---|---|
| Approval store (`approvals.py`) | SQLite table of proposals: status, version, expiry, source revision, nonce, approver, receipt | propose, approve, deny, claim_execution, recover_interrupted, complete_execution, reconcile | called by the service, by `Runtime.__init__` |
| Service (`service.py`) | none of its own; each tool call is a thread | propose_*, approve, deny, execute (SMS, announcement, card create, update, merge) | store, adapters |
| Adapters and HTTP (`adapters/`) | none | one mutation or read each, with no retries | providers |
| Reminders (`reminders.py`) | SQLite table: status, due time, destination | create, cancel, claim_due, finish, initialize, run_once | Controller's thread, Discord adapter |
| Wizard (`wizard.py`, `ingress.py`, `guard.py`) | directory of marker files, at most 512 | message_key, claim_delivery, _trim, deliver_once, send_fixed_message | two hooks in two profiles, the outbound queue |
| Controller (`runtime.py`, `__init__.py`) | lazy Runtime, queue of 100 texts, stop event, one thread | tool, ingress, enqueue, _serve, stop; register, on_unload | all of the above |
| Provisioning (`provisioning.py`) | none persisted; Discord's channels | verify the bot, find, create, read back | Discord, a person who confirms |
| Local setup (`setup.py`) | private.json, config.yaml, .env, one config.yaml per profile | collect, provision, validate, publish | provisioning, file system |
| Routing and identity (`routing.py`, `identity.py`, `config.py`, `guard.py`) | parsed configuration; the gateway's state.db, read only | resolve a message or session to a principal | ingress, tools |
| Installer (`install.sh`) | ownership flags; files, network, container, unit | preflight, install, verify, cleanup | Docker, systemd, egress guard |
| Egress guard (`firewall/scotty-egress-guard`) | one iptables chain and its jump | apply, verify, remove, cleanup_apply | iptables |
| Guidance, calculations, tools, fixtures | none | text, arithmetic, build and probe scripts | developers |

**How they interact.** The gateway runs tool calls on its own threads; all go
through `Controller.tool` to one `Runtime`, and meet only in the SQLite
transactions of the store (`BEGIN IMMEDIATE`, so transactions are serial, but
the clock is read before the lock is held and rows are re-read after it is
released). The Controller's thread posts queued texts and polls reminders. A
plugin reload starts a second Controller, with its own queue and thread, while
calls and the thread of the first may still run for some time, on the same
tables. A crash loses threads and queues and keeps tables and marker files;
`compose.yaml` has `restart: "no"`, so the process stays down until someone
starts it.

**What is hard**, and what each component must therefore guarantee:

* *Store and execution.* Two calls race for one proposal; a provider applies a
  request after the caller gave up; the process dies between claim and
  completion; a reload recovers rows that a slow call of the old controller
  still works on; a merge is two writes and two readbacks. Required: nothing
  runs without its recorded approver's decision, no effect is asked for twice,
  ambiguity is recorded as unknown, "verified" is never a guess, the duplicate
  card is archived only after the merged one is confirmed.
* *Reminders.* Two polling threads; a cancel against a claim; a batch larger
  than the limit; an exception that drops the rest of a batch. Required: sent
  at most once, not early, not after a cancel, with a truthful outcome, and
  each due reminder is taken up.
* *Wizard.* Two hooks, two trims, a bounded queue. Required: at most one post
  per message, no message taken for another, and a text that was won is posted
  unless something the code names dropped it.
* *Provisioning and setup.* Late creations, people editing the guild, a crash
  anywhere, reruns, files of two runs side by side. Required: only channels that
  were read back as private are published, reruns reuse what they made, and what
  setup accepts the runtime loads.
* *Installer and egress guard.* Every step, probe and removal may fail, and a
  trap cleans up by flags. Required: nothing removed that others had when the
  installer looked, nothing of one's own left without a message, no jump to an
  incomplete chain in a committed state.
* *Routing.* The source of a message is read four times, by different code and
  against two files. Required: the readings agree, doubt denies, the full profile
  is the maintainer's alone, and nobody configured is locked out.

`PROJECT.json` lists the hazards one by one, each with its line and the
properties that cover it.

## 2. The modules

| Module | What it is |
|---|---|
| `ProposalLifecycle` | abstract: the state graph of a proposal |
| `ApprovalStore` | the proposal table, one action per method |
| `ProviderCalls` | how each reply of a provider is classified (operators only) |
| `ApprovedEffect` | abstract: what a person who approves is promised |
| `ApprovalExecution` | composes store, service threads, providers, process |
| `PromisedReminder` | abstract: what the user of a reminder is promised |
| `ReminderDispatch` | reminder table, polling threads, Discord, process |
| `WizardDelivery` | marker directory, two hooks, outbound queue, thread |
| `Provisioning` | setup, the guild, publication |
| `Admission` | the readings of a source, the files they compare it with, the hooks, tool calls |
| `EgressGuard` | runs of the firewall script over one table |
| `Installer` | install.sh, systemd, users of Docker; composes `EgressGuard` |
| `MC*` | instances; the `.cfg` files choose values and properties |
| `*_proofs` | theorems about the module of that name |

### ApprovalStore, ProposalLifecycle

One variable per column (`status`, `version`, `expires`, `revision`, ...), each
a function of the proposal, plus the clock. Each method is one action, for it
is one transaction. Callers pass any user, any version, any revision and a
clock reading `now` that may be older than the clock (`approvals.py` reads the
time before it takes the write lock). `Admits` is the guard of
`_simple_transition`: principal, version, status and expiry; `MoveTo` its
update. An expired row is moved to `expired` by the call that finds it so, as
in the code. A nonce is modelled as the pair of proposal and version it was
issued for: only equality with the stored one matters.

`ProposalLifecycle` is the state graph of the product's own README, plus the
interruption by a restart. `LifecycleHolds` says that every step of the store
is a step of that graph or a stutter.

### ApprovalExecution, ApprovedEffect, ProviderCalls

`call[w]` is what thread `w` is doing: `pc` is idle, decide, read, clock,
claim, fetch, request, reply, readback or settle. The source records are read
before the claim and compared inside it, the row is fetched again after it in
another transaction, and the effect is requested after that, in the order of
`service.py`. A provider has a `wire` for each effect (sent, applied, lost), so
that a request can take effect before, after or without the answer; `Possible`
says which replies are then possible. `ProviderCalls.MutationResult` turns a
reply into a value, an AmbiguousEffectError, another ProviderError, or an
exception that nobody catches, as `adapters/http.py` and the adapters do:
an uncaught one leaves the row executing (`stranded`). `Crash`, `Reload`,
`Boot` and `BuildRuntime` are the process; `BuildRuntime` is where
`recover_interrupted` runs.

`ApprovedEffect` has one state per proposal and promises: applied only between
the claim and the end, once at most, and never "verified" before it is applied.

### ReminderDispatch, PromisedReminder

`loop[g]` is the thread of controller `g`: wait, clock, claim, fetch, send,
reply, finish, gone. `ClaimDue` takes at most `Limit` scheduled rows that are
due at the clock read before the transaction, oldest first. `Reply` decides an
outcome as `run_once` does; what that does not catch ends the round and leaves
the rest of the batch `dispatching`. `DeclareUnknown` is `initialize`.

### WizardDelivery

`hook[m][h]` is how far a hook is with a message: claim, list, unlink, deliver,
or it found the marker taken; `won` records who created which marker. The key of a message is its id, or the second of
the hook's clock. `markers` maps keys to modification times; `ListMarkers` and
`UnlinkStale` are the two halves of `_trim`, so that two trims overlap and one
gives up at a file that the other was faster to remove. The plugin's hook puts
the text in the queue of its controller, the guard posts it. `left[g]` counts
the posts still allowed in the round of thread `g`.

### Provisioning

A run of setup goes through verify, find, confirm (create), readback for each
plan, then validate and write. `Stops` ends it anywhere: a failing read, a
check that does not hold, a declined confirmation, a signal. A creation has an
answer (`AnswerOf`) and, independently, a fate: applied, pending or dropped;
`ApplyLate` applies a pending one. `Touch` is a person renaming, rescoping or
removing a channel. `files` holds, for each published file, the number of the
run that wrote it. The six files are four steps: the three profile homes are
one, because no property tells them apart.

### Admission

`ResolveRoute`, `GuardAdmits`, `ResolveSession` and `MatchProfileRoute` are the
four readings, one operator for each function (`routing.resolve_route`,
`guard.source_tuple`, `AuthorizedPrincipalResolver.resolve`,
`match_profile_route`), with what each does about a scope that differs from the
guild, an empty text, a thread's parent and a bot. `files` holds, for each of
private.json, config.yaml and .env, the answers it was written from:
`StartSetup`, `WriteNext` and `SetupDies` replace them one by one while the
container is stopped. A message goes through `Arrive` (the gateway's two lists
and native routing), `Dispatch` (the hooks) and `CallTool` (the principal a tool
acts for). Whether the root profile's hook also runs for a message that has a
profile of its own is left open by `docs/claude-app-handoff.md`; `Dispatch` does
either. A text is its class: plain, malformed, credential, command, coding,
wizard, summary.

### EgressGuard

`listed`, `rules` and `user` are the chain, its rules and DOCKER-USER.
`proc[p]` is one run of the script; each iptables command and each inventory is
a step. A command is refused, or takes effect and may report failure all the
same; an inventory may fail. `txn`, `made` and `tied` are APPLY_TRANSACTION
without APPLY_COMMITTED, CREATED_CHAIN and ATTACHED_JUMP; an apply that finds a
chain only verifies it and never opens the transaction. `Die` is `die`, the
ERR trap and what a signal leads to: the EXIT trap, that is `cleanup_apply` by
the flags. `Edit` is another program putting its rule on top.

### Installer

`Plan` is the order of the main part, `Unplan` that of `cleanup`; `at` is the
place in either. A file or directory takes three steps: `CheckFile` finds its
name free, `InstallFile` runs `install`, `LookFile` looks what stands there and
sets the flag; for Docker `MakeDocker` and `LookDocker` are the command and the
probe. `Others` may take the name before each of them. `Enable` starts the unit's ExecStart
as a run of `EgressGuard`, the clean-up's `disable --now` its ExecStop, and the
installer's own `verify` and `remove` are two more runs, so that all four share
the tables; `UnitStep` is systemd noticing that a run has ended.
`GuardHolds` says that all this is a behaviour of `EgressGuard`.

`mine` and `theirs` tell whose an object is. The script knows that of Docker's
objects alone, by their label. For a file it has only the flag, which follows
whatever stands at the path unless it is a symlink, so `LookFile` flags and
`CleanFile` removes an object of others as well as its own; `InstallFile`
replaces a file of others and adopts their directory. `late` is history: those
files and directories of others that took their name after `CheckFile`.

## 3. What is checked

| Run | Question | Bounds |
|---|---|---|
| `store` | Are authorisation, versions, receipts and the life cycle kept under any calls? | 3 roles, 2 proposals, 2 revisions, clock 0..3 |
| `merge` | Two threads, one merge of two cards: once at most, verified truthfully, archive last; refines `StoreSpec` and `ApprovedEffect` | 1 crash or reload, clock 0..1 |
| `sms` | Is ambiguity always unknown, is nothing left executing, do calls and executions end? | 2 threads, 1 edit, 1 crash or reload |
| `shared_card` | Does the revision check protect work verified before? | a merge and an update on overlapping cards |
| `malformed_ack` | (violation) README: a malformed acknowledgement is unknown | 1 announcement |
| `reminders` | Once at most, truthful; refines `PromisedReminder`; is every due reminder taken up, does every dispatch end? | 2 reminders, batch limit 1, 2 controllers, clock 0..1 |
| `wizard` | Is a message with an id delivered once at most, and not taken for another? | 2 messages, directory of 1 marker, queue of 1, 2 controllers |
| `wizard_liveness` | Is a text whose marker was won posted, and a message without an id at most once per second? | 1 message without id, notices, queue of 2, 1 post per round |
| `provisioning` | Is what is published read back, are reruns free of needless twins? | 2 runs, 3 creations, 2 names, each channel changed once |
| `admission` | Do the four readings agree where they must, also over files of two runs? | 2 guilds, 4 channels, 3 users, 6 answers, every small origin |
| `egress` | Is a success true and a failure clean or said, whatever fails, overlaps or interrupts? | 3 runs of the script, 2 rules, 1 edit |
| `install` | Does an install leave nothing, or say so; keep what others had when it looked; end; refines `EgressGuard` | 4 runs of the guard, 1 rule, 1 failing command of the clean-up |

**Why the bounds are enough to be interesting.** Each limit of the code is set
so low that the instance meets it: a batch limit of one for two due reminders,
one marker for two messages, a queue of one for two texts, a single restart
that can fall between any two steps. Races need two threads; a third adds only
permutations. Two seconds are enough for before and after, expiry included.
`TwinsAppliedLate` needs two runs and, because a run asks once for each plan,
three creations. `egress` needs three runs for two that overlap after a third;
symmetry is sound there, for the runs are told apart by nothing but their
state, and no liveness is checked. `install` has one rule and no edits, because
`egress` has more of both, and one fault in the clean-up, because one already
makes its exit status 1; the faults of the main part are not bounded. The
answers of `admission` swap guilds, channels and users between two setups, and
three of the six are ones that setup must refuse. Where a bound is smaller than
one would like, the theorems of section 4 hold for every value of it. The type
invariants are proved; that of `store` is also run. Every property is also shown to fail for a plausible slip in the code (`mutants`): the
mutated operators stand beside the ones they replace, marked "Mutated form".

**Fairness.** A liveness property assumes no more than this:

* a tool call that has begun takes its next step (`WF_vars(Step(w))`): every
  HTTP exchange has a timeout of 20 s and every lock one of 5 s;
* after a restart somebody uses the Controller, so the Runtime is built
  (`WF_vars(BuildRuntime)`): `_serve` itself does it within a second;
* a live thread of `_serve` goes on; `claim_due` is strongly fair, because its
  transaction may fail (a locked database) but not for ever;
* a hook that has begun goes on to its end;
* of the installer, the commands it waits for, systemd's jobs and the runs of the
  guard (`Progress`), as long as one of them can take a step before the installer is
  over, one does: every command ends, and iptables waits 5 s for its lock. Others and signals are free.

Nothing is assumed of people, providers, crashes or restarts: a process that is
down may stay down, and a request may never be applied. That is why
`DueIsTaken`, `DispatchEnds` and `WonIsPosted` state their exceptions (a process
that is down, a batch cut short by an exception nobody catches, a text dropped
by a full queue) in the property.

Deadlock is checked in `admission`, where the container can always be stopped
and started. The other models stop legitimately, at their bound of time, runs or
restarts, or because everything is settled; that nothing stops half-way is what
`ExecutionEnds`, `DispatchEnds`, `WonIsPosted` and `InstallEnds` say.

## 4. What is proved

Assumed are only the assumptions on constants in the modules (TLC evaluates
each): sets of proposals, users, threads, reminders are arbitrary, as are
`Ttl`, limits and the bounds on clock and restarts.

**The store** (`ApprovalStore_proofs`). Type correctness alone is not
inductive, for a version could grow past its range; it becomes so with
`VersionTracksLife`, which ties the version to the status. Authorisation needs
`DecisionTrail`: an unclaimed proposal has no claims, an approved one was
decided by its approver. The receipt needs `ReceiptTrail`. Their conjunction is
`StoreInv`. With it each operation is shown to be an edge of the life cycle:
`StoreImplementsLifecycle`.

**Execution** (`ApprovalExecution_proofs`). First every step of the composition
is shown to be a step of the store or a stutter (`UsesStore`), which gives
`StoreInv` for nothing. The rest hangs on who may act for a proposal: `HoldInv`
says that a claimed proposal is in the hands of one call at most, that this call
has asked for exactly the effects that its `pc` implies, and that after a
recovery nobody still in flight can settle it, because the version has moved on.
From it follow `NeverRetried`, `UnclaimedUntouched`, `VerifiedMeansApplied` and
`ArchiveLast`, and the refinement of `ApprovedEffect` (`KeepsPromise`).
The remaining four need more, `FullInv`. `OutInv` says what must be absent: while a
proposal is claimed its holder knows its version, has had no ambiguous answer it
could forget, and has confirmed nothing it could still call failed
(`AmbiguousStaysOpen`, `FailedSawNothing`), and with `Served`, nobody executes
without a holder (`NothingLeftBehind`). `SeenInv` follows the revision of a record
from the draft through the check inside the claim to the effect
(`ApproverSawVerified`).

**Reminders** (`ReminderDispatch_proofs`). `IInv` has three parts: what a
thread's place in its round says of the rows in its batch (`LoopOK`), that no
two threads have one row (`Disjoint`), and what a row's status says of the
message (`RowOK`). `Disjoint` is what makes `NeverSentTwice` true across
reloads, and needs `RowOK` because a claimed row is never scheduled again.
The refinement of `PromisedReminder` (`RemindersKeepPromise`) follows.

**Admission** (`Admission_proofs`). Lemmas compare the readings for any source
and any configuration (`GatesAgreeAlways`, `SessionReadAlike`, `RouteIsProfile`).
The invariant adds that what setup is writing loads, that files rest while the
container is up, and by which verdict a turn came to its stage. A mixture of two
runs' files does no harm because each property reads one file, or says which two.

**Provisioning** (`Provisioning_proofs`). `Chosen`: what a run has recorded, it
read. `Applied`: a channel nobody touched exists from the moment its request was
applied. `Looked`: of the earlier requests for a name, the run that asks again
had seen each that was applied. `TwinsAppliedLate` is what the last two say of
two channels of one name.

**Egress guard** (`EgressGuard_proofs`). `ShapeOK` ties flags to steps, `Knows`
is what an undisturbed run has established when it is about to succeed, `Owns`
what the flags of an open transaction say of the tables. `Owns` holds only while
no two changing runs overlap (`Alone`); hence the exception in `OneJump` and
`FailureIsCleanOrSaid`. The latter is about open transactions: an apply that failed to
verify a chain it had found, or was killed after APPLY_COMMITTED, leaves the chain and
is not meant. `SuccessIsTrue` needs no such exception, and neither does
`HollowWasReported`. It speaks of all the runs there have been, so its invariant
`Accounted` does too: while a jump leads to an incomplete chain, some run answers for
it. That run is in the middle of building, taking down or reporting, or it has failed
and said so, was cut short, or was a remove. A step that makes the tables so is taken
by a run that answers from then on, and a run stops answering only when it has made
them whole (`HollowsAreReported`).

**Wizard** (`WizardDelivery_proofs`). `Keyed`: which key a hook holds, and whether
it has won its marker. `Marked`: a marker has a winner, and `since` of a key includes
every marker that is no older. `Crowded`: a marker that is gone, is about to be
removed or was won twice was crowded out, which rests on a count of what `_trim`
leaves, also when two trims overlap. `Counted`: a text is in one place of one queue
at most, and is posted by no more hooks than have won and spent a marker. Two posts
therefore need two winners, and two winners of one key a directory full of later
markers (`OncePerMessage`).

**Installer** (`Installer_proofs`). `InstallInv`: the unit was enabled before it
became active, everything was there when the guard's verify began, and that run is
right about the tables at each of its steps (`CommitsComplete`). `ToolsInv`: before
the unit is enabled no run of the guard but verify has begun; the executable goes
only when the clean-up found it safe, and then the guard's remove has succeeded with
neither of systemd's runs beside it, so that nobody is left who could bring the chain
back (`ToolsOutlastFirewall`). `LeftInv`: what was made has its flag but for the
moment between a command and its probe, and what the clean-up has passed is gone
unless it has noted a failure (`LeftoversAreSaid`). `FilesInv` is about the flags,
which do not ask whose an object is: in the main part a file or directory of others is
late, or stands where the installer has still to look, and nothing that is still to
come has a flag; so every flagged one is late, and nothing else of others can be
removed or installed over (`OthersKeepTheirs`). A file of others, unlike a directory,
does not outlast an install that succeeds; so what an installer commits is its own but
for late directories (`CommitsComplete`, with `InstallInv`). Every step is one of the guard's or leaves its state
alone (`GuardRefined`); the theorems about the guard are then instantiated with the
four runs, so that what it promises, with the exceptions stated there, holds on the
installer's host (`GuardKeepsPromises`), and its types with it (`TypeCorrect`).

**Only model-checked.** The liveness properties (`ExecutionEnds`, `DueIsTaken`,
`DispatchEnds`, `WonIsPosted`, `InstallEnds`), whose fairness needs `ENABLED`, which
the prover does not support. Every safety property of a passing run is a theorem.
`VersionTracksLife`, `UnclaimedHasNoEffect`, `CancelledIsNotSent` and `NeverEarly` are
theorems without a run. No module
uses recursion: nothing needed it, and induction over data would be out of the
prover's reach.

## 5. Where the code and its documents differ

1. A malformed acknowledgement is settled as failed, not unknown, for every
   provider if it is not JSON, and for GoHighLevel and Discord if it is not an
   object (`README.md:140`; run `malformed_ack`).
2. The notice to employees promises approval by "main-operator or maintainer";
   only the main operator's tuple is accepted (`policy.py:25`,
   `service.py:99-105`, `approvals.py:294`). Read off the code; no run.
3. "One inbound message delivers exactly once even when two hooks observe it"
   fails for an event without a message id when the hooks look in different
   seconds (`wizard.py:43`). `DeliveredOnce` admits exactly this case.
4. An unknown channel creation is not recorded: `setup.main` never passes
   `recorded`, so a later run may create again (`setup.py:899`).
   `TwinsAppliedLate` admits exactly this case.
5. "Credential text never reaches a model on any route" (`ingress.py:63`,
   `tests/test_routing.py:221`) rests on the plugin's hook. In the maintainer's
   profile setup enables the guard alone, which looks for no credential
   (`guard.py:240-257`). If the gateway runs the root's hook as well, the
   statement holds; the documents leave that open.

Two limits of the code show in the properties as exceptions, and are not claimed
otherwise by any document. `install.sh` does not use the status of the first
`disable --now` of its clean-up, so a unit that was not stopped is not mentioned
(`unstopped` in `LeftoverIsSaid` and `FirewallKeepsItsTools`), and a signal
between a command and its flag, or in the trap, leaves what was just made
(`cut`). Its messages call what the clean-up removes "invocation-owned"
(`install.sh:219`, `install.sh:413`), but between the check that a name is free
(`install.sh:139`, `157`, `177`, `197`) and the flag nothing holds the name: a file
that somebody else puts there is replaced by `install`, a directory is adopted, and
either is flagged and removed by a clean-up. Both are reached in the run `install`;
`TheirsStay` admits exactly these objects (`late`). Two runs of the egress guard that overlap are not kept apart: the
clean-up of the one that loses empties the chain of the one that wins
(`overlap`). And a maintainer's thread is admitted by both gates
(`tests/test_routing.py:143`, `tests/test_maintainer_guard.py:118`) but runs in
the base profile, because native routing compares the channel alone;
`OwnProfile` is therefore about messages without a parent.

## 6. Not modelled

* Data: parsing, formatting, validation of fields, text patterns, YAML and
  JSON rendering, prices and dates. The models keep what control depends on.
* SQLite, iptables, Docker, systemd, Discord and the gateway are modelled as
  far as the code uses them.
* Power loss that undoes a committed transaction or an fsynced file: the
  guarantees of SQLite and of the file system are taken as given.
* Two runs of setup at once: nothing but custom prevents it, and one at a time
  is assumed.
* `ensure_private_channels` with `recorded`, and `ApprovalStore.reconcile` from
  a tool: neither has a caller. `Reconcile` is an action of the store's own
  specification.
* Setup's checks of privacy and membership at Discord are part of
  `Provisioning` only; `Admission` takes the answers as given. Prompts are data.
* `verify_install` compares some fifty values of files, network and container;
  they are one condition, that the objects are there. One installer runs, once.
* Others are assumed to take free names only, a file's with a file and a
  directory's with a directory, one of each standing for all; they remove or
  replace nothing the installer has made.
* The gateway itself: which hooks it runs is left open, as its documents do. A
  fixed notice that both hooks answer may be sent twice; nothing is claimed.
* Guidance and calculations are texts and pure arithmetic with unit tests; the
  scripts under `tools/` are not part of the deployed program.

## 7. Plan

What is left, in order:

1. `ensure_private_channels` with channels that are already recorded, once it has a
   caller; then the runs of `Provisioning` can reuse by identifier.
2. The calculations of `guidance.py` as operators checked against a reference, if
   they come to decide anything; today they are texts for a person.
