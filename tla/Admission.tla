------------------------------ MODULE Admission ------------------------------
(***************************************************************************)
(* Who is let in, into which profile, and as whom (routing.py, identity.py,*)
(* config.py, policy.py, ingress.py, guard.py, setup.py).  The source of a *)
(* message is read four times: by native routing (guild and channel only), *)
(* by the plugin's ingress hook, by the guard in the full profile, and by  *)
(* a tool call, from the origin stored with the session.  What they        *)
(* compare it with is in three files, which setup replaces one by one and  *)
(* which may be of different runs when setup died in between.              *)
(*                                                                         *)
(* The gateway, which runs the hooks, is not in this repository; whether   *)
(* the hook of the root also runs for a message that has a profile of its  *)
(* own is open (docs/claude-app-handoff.md), so both are possible.         *)
(***************************************************************************)
EXTENDS FiniteSets

CONSTANTS
  Guilds, Channels, Users,
  GuildOf,    \* [Channels -> Guilds], as Discord has it; threads are channels
  Inputs,     \* what operators tell setup
  Sources     \* what the platforms may say of a message's origin

VARIABLES
  files,      \* [Files -> Configs]: the answers each file was written from
  writing,    \* what setup is about to write, "nothing" if it does not run
  answers,    \* of the setup that runs
  up,         \* the container runs
  stage,      \* of the message in hand
  source, text, profile,
  caller      \* the roles a tool call of this turn was bound to: one or none

vars == <<files, writing, answers, up, stage, source, text, profile, caller>>

ClientRoles == {"main_operator", "employee"}
Roles == ClientRoles \cup {"maintainer"}
Profiles == Roles \cup {"base"}      \* named after the role they serve

Files == {"private.json", "config.yaml", ".env"}
None == "none"                       \* Python's None
Empty == ""                          \* an empty text
IsText(v) == v \notin {None, Empty}

Tuples == [guild : Guilds, channel : Channels, user : Users]
Configs == [Roles -> Tuples]

\* parent: of a thread.  bot: is_bot is anything but False.
Origins == [platform : {"discord", "other"},
            scope : Guilds \cup {None, Empty}, guild : Guilds \cup {None, Empty},
            chat : Channels \cup {Empty}, parent : Channels \cup {None, Empty},
            user : Users \cup {Empty}, bot : BOOLEAN]

ASSUME AdmissionAssumption ==
  /\ {None, Empty} \cap (Guilds \cup Channels \cup Users) = {}
  /\ GuildOf \in [Channels -> Guilds]
  /\ Inputs \subseteq Configs
  /\ Sources \subseteq Origins
  /\ \A c \in Inputs : c["main_operator"].guild = c["employee"].guild

Texts == {"plain", "malformed", "credential", "command", "coding",
          "wizard", "summary"}

-----------------------------------------------------------------------------
(* The readings of a source *)

\* source_fields: a scope that differs from the guild makes both unusable.
GuildField(s) ==
  IF s.scope # None /\ s.guild # None /\ s.scope # s.guild THEN None
  ELSE IF s.scope # None THEN s.scope ELSE s.guild

\* parent_channel_id or channel_id
Effective(chat, parent) == IF IsText(parent) THEN parent ELSE chat

\* authorize_source: the role whose tuple it is, if any.
AuthorizeSource(c, guild, chat, user, parent) ==
  {r \in ClientRoles :
     /\ IsText(guild) /\ IsText(chat) /\ IsText(user) /\ parent # Empty
     /\ c[r] = [guild |-> guild, channel |-> Effective(chat, parent), user |-> user]}

\* resolve_route: the role of a route, or the empty set to reject.
ResolveRoute(c, s) ==
  LET guild == GuildField(s) IN
  IF \/ s.platform # "discord" \/ s.bot
     \/ ~IsText(guild) \/ ~IsText(s.chat) \/ ~IsText(s.user) \/ s.parent = Empty
  THEN {}
  ELSE IF c["maintainer"] = [guild |-> guild, user |-> s.user,
                             channel |-> Effective(s.chat, s.parent)]
  THEN {"maintainer"}
  ELSE AuthorizeSource(c, guild, s.chat, s.user, s.parent)

\* Mutated form: the scope wins where it disagrees with the guild.
ScopeWins(c, s) ==
  LET guild == IF s.scope # None THEN s.scope ELSE s.guild IN
  /\ s.platform = "discord" /\ ~s.bot
  /\ IsText(guild) /\ IsText(s.chat) /\ IsText(s.user) /\ s.parent # Empty
  /\ c["maintainer"] = [guild |-> guild, user |-> s.user,
                        channel |-> Effective(s.chat, s.parent)]

\* Mutated form: the channel is enough, as it is for native routing.
AnyUser(c, s) ==
  /\ s.platform = "discord" /\ ~s.bot
  /\ c["maintainer"].guild = GuildField(s)
  /\ c["maintainer"].channel = Effective(s.chat, s.parent)

\* guard.source_tuple, compared with the maintainer's tuple.
GuardAdmits(c, s) ==
  LET guild == GuildField(s) IN
  /\ s.platform = "discord" /\ ~s.bot
  /\ IsText(guild) /\ IsText(s.chat) /\ IsText(s.user) /\ s.parent # Empty
  /\ c["maintainer"] = [guild |-> guild, user |-> s.user,
                        channel |-> Effective(s.chat, s.parent)]

\* AuthorizedPrincipalResolver.resolve, from the session's origin: an empty
\* scope counts as absent, and is_bot is not asked.
ResolveSession(c, s) ==
  LET guild == IF IsText(s.scope) THEN s.scope ELSE s.guild IN
  IF s.platform # "discord" \/ ~IsText(guild)
     \/ (s.guild # None /\ s.guild # guild)
  THEN {}
  ELSE AuthorizeSource(c, guild, s.chat, s.user, s.parent)

\* match_profile_route: no user, no parent; "base" if no route fits.
Fits(c, s, r) == c[r].guild = GuildField(s) /\ c[r].channel = s.chat
MatchProfileRoute(c, s) ==
  IF s.platform # "discord" \/ \A r \in Roles : ~Fits(c, s, r) THEN "base"
  ELSE CHOOSE r \in Roles : Fits(c, s, r)

-----------------------------------------------------------------------------
(* What is accepted, and what is written *)

\* RuntimeConfig.from_mapping, _maintainer_route
PrivateLoads(c) ==
  /\ c["main_operator"] # c["employee"]
  /\ c["main_operator"].guild = c["employee"].guild
  /\ \A r \in ClientRoles :
       /\ c[r].guild # c["maintainer"].guild
       /\ c[r].channel # c["maintainer"].channel
       /\ c[r].user # c["maintainer"].user

\* parse_profile_routes: no two routes have one source.
RoutesLoad(c) ==
  \A q, r \in Roles :
    c[q].guild = c[r].guild /\ c[q].channel = c[r].channel => q = r

DistinctUsers(c) == \A q, r \in Roles : c[q].user = c[r].user => q = r

\* validate_discord_scope, validate_maintainer_route: distinct channels, each
\* in its guild; privacy and membership are not modelled.
ScopesValid(c) ==
  /\ c["main_operator"].channel # c["employee"].channel
  /\ \A r \in Roles : GuildOf[c[r].channel] = c[r].guild
  /\ c["maintainer"].guild # c["main_operator"].guild

\* Mutated form: users are not compared.
AcceptsAnyUsers(c) == ScopesValid(c)

\* discord_allowed_users raises before anything is written.
SetupAccepts(c) == ScopesValid(c) /\ DistinctUsers(c)

AllowedUsers(c) == {c[r].user : r \in Roles}

\* discord.allowed_channels
AllowedChannels(c) == {c[r].channel : r \in Roles}

-----------------------------------------------------------------------------
(* The hooks *)

\* Mutated form: ingress authorizes by the client roles, as tools do.
ClientsOnly(c, s, t) ==
  /\ PrivateLoads(c)
  /\ AuthorizeSource(c, GuildField(s), s.chat, s.user, s.parent) # {}
  /\ t \notin {"malformed", "credential", "wizard"}

\* IngressGuard.__call__ goes on to the model.
IngressAllows(c, s, t) ==
  /\ PrivateLoads(c)
  /\ ResolveRoute(c, s) # {}
  /\ t \notin {"malformed", "credential", "wizard"}
  /\ ResolveRoute(c, s) = {"maintainer"} \/ t \notin {"command", "coding", "summary"}

\* MaintainerGuard.__call__ goes on to the model.
GuardAllows(c, s, t) == GuardAdmits(c, s) /\ t \notin {"malformed", "wizard"}

\* Mutated form: only the hook of the root is asked.
RootAllows(c, s, t, p, root) == root => IngressAllows(c, s, t)

\* Each profile's own hook, and that of the root in base; root: also elsewhere.
HooksAllow(c, s, t, p, root) ==
  /\ IF p = "maintainer" THEN GuardAllows(c, s, t) ELSE IngressAllows(c, s, t)
  /\ root => IngressAllows(c, s, t)

-----------------------------------------------------------------------------
(* The specification *)

NoSource == [platform |-> "other", scope |-> None, guild |-> None, chat |-> Empty,
             parent |-> None, user |-> Empty, bot |-> TRUE]

\* After one complete setup.
Init ==
  /\ \E c \in Inputs : SetupAccepts(c) /\ files = [f \in Files |-> c]
  /\ writing = "nothing"
  /\ answers = files[".env"]
  /\ up = FALSE
  /\ stage = "none" /\ source = NoSource /\ text = "plain"
  /\ profile = "base" /\ caller = {}

NoMessage == UNCHANGED <<stage, source, text, profile, caller>>

\* setup runs while the container is stopped; what it refuses it refuses
\* before it writes.
StartSetup(c) ==
  /\ ~up /\ writing = "nothing"
  /\ SetupAccepts(c)
  /\ writing' = "private.json" /\ answers' = c
  /\ UNCHANGED <<files, up>> /\ NoMessage

\* write_private_state: one atomic replacement after the other.
WriteNext ==
  /\ writing # "nothing"
  /\ files' = [files EXCEPT ![writing] = answers]
  /\ writing' = CASE writing = "private.json" -> "config.yaml"
                  [] writing = "config.yaml" -> ".env"
                  [] writing = ".env" -> "nothing"
  /\ UNCHANGED <<answers, up>> /\ NoMessage

SetupDies ==
  /\ writing # "nothing"
  /\ writing' = "nothing"
  /\ UNCHANGED <<files, answers, up>> /\ NoMessage

Setting == UNCHANGED <<files, writing, answers>>

\* The operator starts the container, whatever setup left; not during setup.
StartContainer ==
  /\ ~up /\ writing = "nothing"
  /\ up' = TRUE
  /\ Setting /\ NoMessage

Clear == stage' = "none" /\ source' = NoSource /\ text' = "plain"
           /\ profile' = "base" /\ caller' = {}

StopContainer ==
  /\ up /\ up' = FALSE
  /\ Clear /\ Setting

\* The gateway drops senders and channels that are not configured; of a
\* thread the parent may count.
Arrive(s) ==
  /\ up /\ stage = "none"
  /\ s.user \in AllowedUsers(files[".env"])
  /\ {s.chat, s.parent} \cap AllowedChannels(files["config.yaml"]) # {}
  /\ stage' = "arrived" /\ source' = s
  /\ profile' = MatchProfileRoute(files["config.yaml"], s)
  /\ UNCHANGED <<text, caller, up>> /\ Setting

Dispatch(t, root) ==
  /\ stage = "arrived"
  /\ text' = t
  /\ stage' = IF HooksAllow(files["private.json"], source, t, profile, root)
              THEN "running" ELSE "skipped"
  /\ UNCHANGED <<source, profile, caller, up>> /\ Setting

\* Controller.tool in a bounded profile; the full one has no such tool.
CallTool ==
  /\ stage = "running" /\ profile # "maintainer"
  /\ caller' = ResolveSession(files["private.json"], source)
  /\ UNCHANGED <<stage, source, text, profile, up>> /\ Setting

EndTurn ==
  /\ stage \in {"running", "skipped"}
  /\ Clear /\ UNCHANGED up /\ Setting

Next ==
  \/ \E c \in Inputs : StartSetup(c)
  \/ WriteNext \/ SetupDies \/ StartContainer \/ StopContainer
  \/ \E s \in Sources : Arrive(s)
  \/ \E t \in Texts, root \in BOOLEAN : Dispatch(t, root)
  \/ CallTool \/ EndTurn

Spec == Init /\ [][Next]_vars

-----------------------------------------------------------------------------
(* Properties *)

TypeOK ==
  /\ files \in [Files -> Configs]
  /\ writing \in Files \cup {"nothing"}
  /\ answers \in Configs
  /\ up \in BOOLEAN
  /\ stage \in {"none", "arrived", "running", "skipped"}
  /\ source \in Origins
  /\ text \in Texts
  /\ profile \in Profiles
  /\ caller \subseteq ClientRoles

\* The two duplicated readings, of the guard and of the plugin, take the same
\* messages for the maintainer's.
GatesAgree ==
  GuardAdmits(files["private.json"], source)
    <=> ResolveRoute(files["private.json"], source) = {"maintainer"}

\* A tool acts for the principal that ingress let in, although it reads the
\* guild differently and does not ask for bots, and for one at most.
CallerWasAdmitted ==
  caller # {} =>
    /\ caller = ResolveRoute(files["private.json"], source)
    /\ Cardinality(caller) = 1

\* A turn runs in the full profile only for the maintainer of private.json in
\* the channel of config.yaml, even if the two are of different runs.
FullProfileIsMaintainers ==
  (stage = "running" /\ profile = "maintainer") =>
    /\ ResolveRoute(files["private.json"], source) = {"maintainer"}
    /\ files["config.yaml"]["maintainer"].channel = source.chat

\* What setup accepts, the runtime loads, and native routing parses.
SetupLoads ==
  PrivateLoads(files["private.json"]) /\ RoutesLoad(files["config.yaml"])

\* With files of one run nobody configured is locked out: an ordinary message
\* of a principal in its own channel runs in that principal's profile.
OwnProfile ==
  \A r \in Roles :
    (/\ stage \in {"running", "skipped"} /\ text = "plain"
     /\ \A f \in Files : files[f] = files[".env"]
     /\ source.parent = None
     /\ ResolveRoute(files["private.json"], source) = {r})
    => stage = "running" /\ profile = r

=============================================================================
