---------------------------- MODULE Provisioning ----------------------------
(***************************************************************************)
(* Local setup as root (setup.main): it creates or reuses the two private  *)
(* client channels in Discord (provisioning.py), validates the scope, and  *)
(* publishes the private files, one atomic replacement after the other.    *)
(* Setup may stop anywhere and be run again; Discord may apply a request   *)
(* after setup gave up waiting; people change channels meanwhile.          *)
(*                                                                         *)
(* Modelled is the answer "yes" to creating channels.  One setup runs at a *)
(* time, with the same guild and users and any two channel names.          *)
(* main passes no `recorded`, so each run knows only what Discord lists.   *)
(***************************************************************************)
EXTENDS Integers, FiniteSets, Sequences, ProviderCalls

CONSTANTS
  Names,         \* of text channels
  MaxRuns,       \* bound: times setup is started
  MaxRequests    \* bound: creations requested, over all runs

VARIABLES
  guild,         \* [Ids -> Channels \cup {NoChannel}]
  requests,      \* Seq of creations requested; request k makes channel k
  pc, run, at,   \* setup: its step, its number, the plan or file it is at
  names,         \* [Plans -> Names]: what this run was told
  found,         \* [Plans -> Ids \cup {None}]: outcome.channels
  files,         \* [Files -> run that wrote it, 0 if none]
  \* History, read by properties only:
  unseen,        \* requests unapplied when this run listed the channels
  matched,       \* <<run, plan, id>>: read as the plan's private channel
  bound,         \* [Runs -> [Plans -> Ids \cup {None}]]: IDs it published
  touched        \* channels that people changed or removed

setupVars == <<pc, run, at, names, found>>
history == <<unseen, matched, bound, touched>>
vars == <<guild, requests, setupVars, files, history>>

PlanOrder == <<"main_operator", "employee">>
Plans == {"main_operator", "employee"}
FileOrder == <<"profiles", "private.json", "config.yaml", ".env">>
Files == {FileOrder[i] : i \in 1..4}

Runs == 1..MaxRuns
Ids == 0..MaxRequests     \* 0 is a channel that people made
None == -1
NoChannel == [name |-> "none", scope |-> "none"]

\* scope: whose intended_overwrites the channel carries exactly.
Channels == [name : Names, scope : Plans \cup {"other"}]

ASSUME ProvisioningAssumption ==
  /\ Cardinality(Names) >= 2
  /\ "none" \notin Names
  /\ MaxRuns \in Nat \ {0}
  /\ MaxRequests \in Nat \ {0}

Init ==
  /\ guild \in {[c \in Ids |-> IF c = 0 THEN x ELSE NoChannel] :
                  x \in Channels \cup {NoChannel}}
  /\ requests = <<>>
  /\ pc = "off" /\ run = 0 /\ at = 1
  /\ names \in [Plans -> Names]
  /\ found = [p \in Plans |-> None]
  /\ files = [f \in Files |-> 0]
  /\ unseen = {} /\ matched = {}
  /\ bound = [r \in Runs |-> [p \in Plans |-> None]]
  /\ touched = {}

Exists(c) == guild[c] # NoChannel
Named(n) == {c \in Ids : Exists(c) /\ guild[c].name = n}
Unapplied == {k \in 1..Len(requests) : requests[k].fate = "pending"}

\* _channel_matches: guild, type, name and the exact overwrites.
Matches(c, p) == guild[c] = [name |-> names[p], scope |-> p]

-----------------------------------------------------------------------------
(* Setup *)

\* main: the container is stopped, the operator answers.  Equal names end
\* the run before it asks anything of Discord.
Start(n) ==
  /\ pc = "off" /\ run < MaxRuns
  /\ n["main_operator"] # n["employee"]
  /\ pc' = "verify" /\ run' = run + 1 /\ at' = 1
  /\ names' = n
  /\ found' = [p \in Plans |-> None]
  /\ unseen' = {}
  /\ UNCHANGED <<guild, requests, files, matched, bound, touched>>

\* A read that fails, a check that does not hold, a confirmation declined,
\* an error of the file system, a signal: the run is over.
Stops ==
  /\ pc # "off"
  /\ pc' = "off"
  /\ UNCHANGED <<guild, requests, run, at, names, found, files, history>>

\* _verify_bot, _require_manage_channels: four reads.
VerifyBot ==
  /\ pc = "verify"
  /\ pc' = "find"
  /\ UNCHANGED <<guild, requests, run, at, names, found, files, history>>

\* channels[plan.key] = ...; continue
Records(p, c) ==
  /\ found' = [found EXCEPT ![p] = c]
  /\ IF at < Len(PlanOrder)
     THEN pc' = "find" /\ at' = at + 1
     ELSE pc' = "validate" /\ at' = 1
  /\ UNCHANGED <<run, names>>

Reads(p, c) ==
  matched' = IF guild[c] = [name |-> names[p], scope |-> p]
             THEN matched \cup {<<run, p, c>>} ELSE matched

\* Mutated form: a channel of this name with another scope is passed over.
FindScoped(p) ==
  /\ pc = "find" /\ p = PlanOrder[at]
  /\ {c \in Ids : Matches(c, p)} = {}
  /\ pc' = "confirm"
  /\ unseen' = Unapplied
  /\ UNCHANGED <<guild, requests, run, at, names, found, files, matched, bound, touched>>

\* _find_existing: nothing has this name, so the preview is shown.
FindNone(p) ==
  /\ pc = "find" /\ p = PlanOrder[at]
  /\ Named(names[p]) = {}
  /\ pc' = "confirm"
  /\ unseen' = Unapplied
  /\ UNCHANGED <<guild, requests, run, at, names, found, files, matched, bound, touched>>

\* _find_existing: one does, and matches.  Two, or another scope: Stops.
Reuse(p) ==
  /\ pc = "find" /\ p = PlanOrder[at]
  /\ \E c \in Ids : /\ Named(names[p]) = {c}
                    /\ Matches(c, p)
                    /\ Records(p, c) /\ Reads(p, c)
  /\ UNCHANGED <<guild, requests, files, unseen, bound, touched>>

\* _create: what becomes of the POST.  AmbiguousEffectError and an answer
\* without an id are UNKNOWN; ProviderError, or an exception nobody catches,
\* is an error; only an id is read back.
AnswerOf(reply) ==
  IF reply = "ack" THEN "id"
  ELSE IF reply \in {"timeout", "incomplete", "notObject"} THEN "unknown" ELSE "error"

\* _create: confirmed and asked for.
Create(p, reply, fate) ==
  LET k == Len(requests) + 1 IN
  /\ pc = "confirm" /\ p = PlanOrder[at] /\ k <= MaxRequests
  /\ reply \in AppliedReplies => fate = "applied"
  /\ requests' = Append(requests, [plan |-> p, name |-> names[p],
                                   fate |-> fate, unseen |-> unseen])
  /\ guild' = IF fate = "applied"
              THEN [guild EXCEPT ![k] = [name |-> names[p], scope |-> p]] ELSE guild
  /\ pc' = IF AnswerOf(reply) = "id" THEN "readback" ELSE "off"
  /\ UNCHANGED <<run, at, names, found, files, history>>

\* Mutated form: an id that could not be read back counts as created.
ReadbackSkipped(p) ==
  LET c == Len(requests) IN
  /\ pc = "readback" /\ p = PlanOrder[at]
  /\ Records(p, c) /\ Reads(p, c)
  /\ UNCHANGED <<guild, requests, files, unseen, bound, touched>>

\* _create: the readback.  Unavailable or different, it ends the run.
Readback(p) ==
  LET c == Len(requests) IN
  /\ pc = "readback" /\ p = PlanOrder[at]
  /\ Matches(c, p)
  /\ Records(p, c) /\ Reads(p, c)
  /\ UNCHANGED <<guild, requests, files, unseen, bound, touched>>

\* is_complete, resolve_provisioned_channels, validate_discord_scope (two
\* channels that exist and deny @everyone) and validate_maintainer_route.
Validate ==
  /\ pc = "validate"
  /\ \A p \in Plans : Exists(found[p])
  /\ found["main_operator"] # found["employee"]
  /\ pc' = "write"
  /\ bound' = [bound EXCEPT ![run] = found]
  /\ UNCHANGED <<guild, requests, run, at, names, found, files, unseen, matched, touched>>

\* write_private_state: profile homes, private.json, config.yaml, .env.
Write ==
  /\ pc = "write"
  /\ files' = [files EXCEPT ![FileOrder[at]] = run]
  /\ IF at < Len(FileOrder) THEN at' = at + 1 /\ UNCHANGED pc ELSE pc' = "off" /\ at' = 1
  /\ UNCHANGED <<guild, requests, run, names, found, history>>

-----------------------------------------------------------------------------
(* Discord and the people who manage the guild *)

\* A request that setup no longer waits for takes effect.
ApplyLate(k) ==
  /\ k \in Unapplied
  /\ requests' = [requests EXCEPT ![k].fate = "applied"]
  /\ guild' = [guild EXCEPT ![k] = [name |-> requests[k].name, scope |-> requests[k].plan]]
  /\ UNCHANGED <<setupVars, files, history>>

\* Someone renames, rescopes or removes a channel; once for each.
Touch(c) ==
  /\ Exists(c) /\ c \notin touched
  /\ \E x \in Channels \cup {NoChannel} : guild' = [guild EXCEPT ![c] = x]
  /\ touched' = touched \cup {c}
  /\ UNCHANGED <<requests, setupVars, files, unseen, matched, bound>>

Next ==
  \/ \E n \in [Plans -> Names] : Start(n)
  \/ Stops \/ VerifyBot
  \/ \E p \in Plans :
       \/ FindNone(p) \/ Reuse(p) \/ Readback(p)
       \/ \E reply \in Replies, fate \in {"applied", "pending", "dropped"} :
            Create(p, reply, fate)
  \/ Validate \/ Write
  \/ \E k \in 1..MaxRequests : ApplyLate(k)
  \/ \E c \in Ids : Touch(c)

Spec == Init /\ [][Next]_vars

-----------------------------------------------------------------------------
(* Properties *)

Requests == [plan : Plans, name : Names, fate : {"applied", "pending", "dropped"},
             unseen : SUBSET (1..MaxRequests)]

TypeOK ==
  /\ guild \in [Ids -> Channels \cup {NoChannel}]
  /\ requests \in Seq(Requests) /\ Len(requests) <= MaxRequests
  /\ pc \in {"off", "verify", "find", "confirm", "readback", "validate", "write"}
  /\ run \in 0..MaxRuns
  /\ at \in 1..Len(FileOrder)
  /\ pc \in {"find", "confirm", "readback"} => at <= Len(PlanOrder)
  /\ pc # "off" => run > 0
  /\ names \in [Plans -> Names]
  /\ found \in [Plans -> Ids \cup {None}]
  /\ pc \in {"validate", "write"} => \A p \in Plans : found[p] # None
  /\ files \in [Files -> 0..MaxRuns]
  /\ unseen \subseteq 1..MaxRequests
  /\ matched \subseteq Runs \X Plans \X Ids
  /\ bound \in [Runs -> [Plans -> Ids \cup {None}]]
  /\ touched \subseteq Ids

(***************************************************************************)
(* Whatever is on disk names, for both principals, channels that the run   *)
(* which wrote it had read from Discord as private to exactly that         *)
(* principal and the bot.  A creation whose outcome is unknown, or that    *)
(* could not be read back, is never published.                             *)
(***************************************************************************)
PublishedWasMatched ==
  \A f \in Files : files[f] > 0 =>
    \A p \in Plans : <<files[f], p, bound[files[f]][p]>> \in matched

(***************************************************************************)
(* Over all runs, setup does not make a second channel of a name beside    *)
(* one it made before, as long as nobody has changed that one; unless the  *)
(* earlier request was still unapplied when the later run looked.          *)
(***************************************************************************)
TwinsAppliedLate ==
  \A j, k \in 1..Len(requests) :
    (/\ j < k /\ requests[j].name = requests[k].name
     /\ Exists(j) /\ Exists(k) /\ {j, k} \cap touched = {})
      => j \in requests[k].unseen

=============================================================================
