-------------------------- MODULE Admission_proofs --------------------------
(***************************************************************************)
(* Theorems about admission, for any guilds, channels and users, anything  *)
(* operators may answer and anything a platform may say of an origin.      *)
(*                                                                         *)
(* The lemmas compare the four readings of a source; IInv says that what   *)
(* setup wrote loads, that the files rest while the container runs, and    *)
(* what each stage of a turn was decided by.                               *)
(***************************************************************************)
EXTENDS Admission, FiniteSetTheorems, TLAPS

Loads(c) == PrivateLoads(c) /\ RoutesLoad(c)

Verdict ==
  /\ stage = "running" =>
       \E root \in BOOLEAN :
         HooksAllow(files["private.json"], source, text, profile, root)
  /\ stage = "skipped" =>
       \E root \in BOOLEAN :
         ~HooksAllow(files["private.json"], source, text, profile, root)

InHand ==
  stage # "none" =>
    /\ up /\ source \in Sources
    /\ profile = MatchProfileRoute(files["config.yaml"], source)

CallerBound ==
  caller # {} =>
    /\ stage = "running" /\ profile # "maintainer"
    /\ caller = ResolveSession(files["private.json"], source)

IInv == /\ TypeOK
        /\ SetupLoads
        /\ writing # "nothing" => Loads(answers)
        /\ up => writing = "nothing"
        /\ InHand
        /\ Verdict
        /\ CallerBound

-----------------------------------------------------------------------------
(* What setup accepts *)

LEMMA AcceptedLoads ==
  ASSUME NEW c \in Inputs, SetupAccepts(c)
  PROVE  c \in Configs /\ Loads(c)
<1>1. c \in Configs /\ c["main_operator"].guild = c["employee"].guild
  BY AdmissionAssumption
<1>2. /\ c["main_operator"].channel # c["employee"].channel
      /\ \A r \in Roles : GuildOf[c[r].channel] = c[r].guild
      /\ c["maintainer"].guild # c["main_operator"].guild
      /\ \A q, r \in Roles : c[q].user = c[r].user => q = r
  BY DEF SetupAccepts, ScopesValid, DistinctUsers
<1>3. \A r \in ClientRoles : /\ r \in Roles /\ r # "maintainer"
                             /\ c[r].guild = c["main_operator"].guild
  BY <1>1 DEF ClientRoles, Roles
<1>4. "maintainer" \in Roles
  BY DEF Roles
<1>5. PrivateLoads(c)
  BY <1>1, <1>2, <1>3, <1>4 DEF PrivateLoads
<1>6. ASSUME NEW q \in Roles, NEW r \in Roles,
             c[q].guild = c[r].guild, c[q].channel = c[r].channel
      PROVE  q = r
  <2>1. q = "maintainer" <=> r = "maintainer"
    BY <1>2, <1>3, <1>6 DEF Roles
  <2> QED BY <1>2, <1>6, <2>1 DEF Roles, ClientRoles
<1> QED BY <1>1, <1>5, <1>6 DEF Loads, RoutesLoad

-----------------------------------------------------------------------------
(* The readings compared *)

\* The plugin's reading and the guard's, of any source and configuration.
LEMMA GatesAgreeAlways ==
  ASSUME NEW c, NEW s
  PROVE  GuardAdmits(c, s) <=> ResolveRoute(c, s) = {"maintainer"}
<1>1. \A g, ch, u, pa : "maintainer" \notin AuthorizeSource(c, g, ch, u, pa)
  BY DEF AuthorizeSource, ClientRoles
<1>2. GuardAdmits(c, s) => ResolveRoute(c, s) = {"maintainer"}
  BY DEF GuardAdmits, ResolveRoute
<1>3. ASSUME ResolveRoute(c, s) = {"maintainer"} PROVE GuardAdmits(c, s)
  <2>1. "maintainer" \in ResolveRoute(c, s)
    BY <1>3
  <2> QED BY <1>1, <2>1 DEF GuardAdmits, ResolveRoute
<1> QED BY <1>2, <1>3

\* Whoever is let in has one guild, whichever way it is read.
LEMMA GuildReadAlike ==
  ASSUME NEW s \in Origins, IsText(GuildField(s))
  PROVE  /\ GuildField(s) = IF IsText(s.scope) THEN s.scope ELSE s.guild
         /\ s.guild # None => s.guild = GuildField(s)
  BY DEF GuildField, IsText

\* A tool is bound to the role that ingress resolved, if to any.
LEMMA SessionReadAlike ==
  ASSUME NEW c \in Configs, PrivateLoads(c), NEW s \in Origins,
         ResolveRoute(c, s) # {}, ResolveSession(c, s) # {}
  PROVE  /\ ResolveSession(c, s) = ResolveRoute(c, s)
         /\ Cardinality(ResolveSession(c, s)) = 1
<1> DEFINE g == GuildField(s)
           a == AuthorizeSource(c, g, s.chat, s.user, s.parent)
<1>1. s.platform = "discord" /\ ~s.bot /\ IsText(g) /\ IsText(s.chat) /\ IsText(s.user)
      /\ s.parent # Empty
  BY DEF ResolveRoute
<1>2. g = IF IsText(s.scope) THEN s.scope ELSE s.guild
  BY <1>1, GuildReadAlike
<1>3. ResolveSession(c, s) = a
  BY <1>2 DEF ResolveSession
<1>4. PICK r \in ClientRoles :
        c[r] = [guild |-> g, channel |-> Effective(s.chat, s.parent), user |-> s.user]
  BY <1>3 DEF AuthorizeSource
<1>5. c["maintainer"] # [guild |-> g, user |-> s.user,
                         channel |-> Effective(s.chat, s.parent)]
  <2>1. c[r].guild # c["maintainer"].guild /\ c[r].guild = g
    BY <1>4 DEF PrivateLoads
  <2> QED BY <2>1
<1>6. ResolveRoute(c, s) = a
  BY <1>1, <1>5 DEF ResolveRoute
<1>7. \A q \in a : q \in ClientRoles /\ c[q] = c[r]
  BY <1>4 DEF AuthorizeSource
<1>8. a = {r}
  <2>1. r \in a
    BY <1>1, <1>4 DEF AuthorizeSource
  <2>2. \A q \in a : q = r
    BY <1>4, <1>7 DEF ClientRoles, PrivateLoads
  <2> QED BY <2>1, <2>2
<1>9. Cardinality({r}) = 1
  BY FS_Singleton
<1> QED BY <1>3, <1>6, <1>8, <1>9

\* A principal in its own channel has its own profile.
LEMMA RouteOfItsOwn ==
  ASSUME NEW c \in Configs, Loads(c), NEW s \in Origins, s.parent = None,
         NEW r \in Roles, ResolveRoute(c, s) = {r}
  PROVE  MatchProfileRoute(c, s) = r
<1> DEFINE g == GuildField(s)
<1>1. s.platform = "discord" /\ IsText(s.chat) /\ Effective(s.chat, s.parent) = s.chat
  BY DEF ResolveRoute, Effective, IsText
<1>2. Fits(c, s, r)
  <2>1. CASE c["maintainer"] = [guild |-> g, user |-> s.user,
                                channel |-> Effective(s.chat, s.parent)]
    <3>1. r = "maintainer"
      <4>1. ResolveRoute(c, s) = {} \/ ResolveRoute(c, s) = {"maintainer"}
        BY <2>1 DEF ResolveRoute
      <4> QED BY <4>1
    <3> QED BY <1>1, <2>1, <3>1 DEF Fits
  <2>2. CASE c["maintainer"] # [guild |-> g, user |-> s.user,
                                channel |-> Effective(s.chat, s.parent)]
    <3>1. r \in AuthorizeSource(c, g, s.chat, s.user, s.parent)
      BY <2>2 DEF ResolveRoute
    <3> QED BY <1>1, <3>1 DEF Fits, AuthorizeSource
  <2> QED BY <2>1, <2>2
<1>3. \A q \in Roles : Fits(c, s, q) => q = r
  BY <1>2 DEF Fits, Loads, RoutesLoad
<1> QED BY <1>1, <1>2, <1>3 DEF MatchProfileRoute

LEMMA RouteFits ==
  ASSUME NEW c, NEW s, MatchProfileRoute(c, s) = "maintainer"
  PROVE  Fits(c, s, "maintainer")
<1>1. \E r \in Roles : Fits(c, s, r)
  BY DEF MatchProfileRoute
<1>2. (CHOOSE r \in Roles : Fits(c, s, r)) = "maintainer"
  BY <1>1 DEF MatchProfileRoute
<1> QED BY <1>1, <1>2

\* The rest of what types need.
LEMMA RouteIsProfile ==
  ASSUME NEW c, NEW s
  PROVE  MatchProfileRoute(c, s) \in Profiles
  BY DEF MatchProfileRoute, Profiles

LEMMA SessionIsClients ==
  ASSUME NEW c, NEW s
  PROVE  ResolveSession(c, s) \subseteq ClientRoles
  BY DEF ResolveSession, AuthorizeSource

LEMMA NoSourceIsOrigin == NoSource \in Origins
  BY DEF NoSource, Origins

-----------------------------------------------------------------------------
(* The invariant, action by action *)

LEMMA InitIInv == Init => IInv
<1> SUFFICES ASSUME Init PROVE IInv
  OBVIOUS
<1>1. PICK c \in Inputs : SetupAccepts(c) /\ files = [f \in Files |-> c]
  BY DEF Init
<1>2. c \in Configs /\ Loads(c)
  BY <1>1, AcceptedLoads
<1>3. \A f \in Files : files[f] = c
  BY <1>1
<1>4. TypeOK
  BY <1>1, <1>2, <1>3, NoSourceIsOrigin
  DEF Init, TypeOK, Files, Profiles, Texts
<1>5. SetupLoads
  BY <1>2, <1>3 DEF SetupLoads, Loads, Files
<1>6. /\ writing = "nothing" /\ ~up /\ stage = "none" /\ caller = {}
  BY DEF Init
<1> QED BY <1>4, <1>5, <1>6 DEF IInv, InHand, Verdict, CallerBound

\* Nothing is in hand while the container is down.
LEMMA DownIsIdle ==
  ASSUME IInv, ~up
  PROVE  stage = "none" /\ caller = {}
<1>1. stage = "none"
  BY DEF IInv, InHand
<1> QED BY <1>1 DEF IInv, CallerBound

LEMMA StartSetupIInv ==
  ASSUME IInv, NEW c \in Inputs, StartSetup(c)
  PROVE  IInv'
<1>1. c \in Configs /\ Loads(c)
  BY AcceptedLoads DEF StartSetup
<1>2. stage = "none" /\ caller = {}
  BY DownIsIdle DEF StartSetup
<1>3. TypeOK'
  BY <1>1 DEF IInv, TypeOK, StartSetup, NoMessage, Files
<1>4. SetupLoads'
  BY DEF IInv, SetupLoads, StartSetup
<1>5. (InHand /\ Verdict /\ CallerBound)'
  BY <1>2 DEF InHand, Verdict, CallerBound, StartSetup, NoMessage
<1>6. Loads(answers)' /\ ~up'
  BY <1>1 DEF StartSetup, Loads, PrivateLoads, RoutesLoad
<1> QED BY <1>3, <1>4, <1>5, <1>6 DEF IInv

LEMMA WriteNextIInv ==
  ASSUME IInv, WriteNext
  PROVE  IInv'
<1>1. writing # "nothing" /\ writing \in Files /\ ~up
  BY DEF WriteNext, IInv, TypeOK
<1>2. stage = "none" /\ caller = {}
  BY <1>1, DownIsIdle
<1>3. Loads(answers) /\ answers \in Configs /\ files \in [Files -> Configs]
  BY <1>1 DEF IInv, TypeOK
<1>4. files' \in [Files -> Configs] /\ writing' \in Files \cup {"nothing"}
  BY <1>1, <1>3 DEF WriteNext, Files
<1>5. TypeOK'
  BY <1>4 DEF IInv, TypeOK, WriteNext, NoMessage
<1>6. \A f \in Files : files'[f] = files[f] \/ files'[f] = answers
  BY <1>1, <1>3 DEF WriteNext
<1>7. SetupLoads'
  BY <1>3, <1>6 DEF IInv, SetupLoads, Loads, PrivateLoads, RoutesLoad, Files
<1>8. (InHand /\ Verdict /\ CallerBound)'
  BY <1>2 DEF InHand, Verdict, CallerBound, WriteNext, NoMessage
<1>9. Loads(answers)' /\ ~up'
  BY <1>1, <1>3 DEF WriteNext, Loads, PrivateLoads, RoutesLoad
<1> QED BY <1>5, <1>7, <1>8, <1>9 DEF IInv

LEMMA SetupDiesIInv ==
  ASSUME IInv, SetupDies
  PROVE  IInv'
<1>1. ~up
  BY DEF SetupDies, IInv
<1>2. stage = "none" /\ caller = {}
  BY <1>1, DownIsIdle
<1>3. TypeOK' /\ SetupLoads'
  BY DEF IInv, TypeOK, SetupLoads, SetupDies, NoMessage
<1>4. (InHand /\ Verdict /\ CallerBound)'
  BY <1>2 DEF InHand, Verdict, CallerBound, SetupDies, NoMessage
<1> QED BY <1>1, <1>3, <1>4 DEF IInv, SetupDies

\* The files rest: what is written still loads.
LEMMA RestingFiles ==
  ASSUME IInv, Setting, up' => writing = "nothing"
  PROVE  /\ SetupLoads'
         /\ (writing # "nothing" => Loads(answers))'
         /\ (up => writing = "nothing")'
  BY DEF IInv, SetupLoads, Setting, Loads, PrivateLoads, RoutesLoad

LEMMA StartContainerIInv ==
  ASSUME IInv, StartContainer
  PROVE  IInv'
<1>1. TypeOK'
  BY DEF IInv, TypeOK, StartContainer, Setting, NoMessage
<1>2. stage = "none" /\ caller = {}
  BY DownIsIdle DEF StartContainer
<1>3. (InHand /\ Verdict /\ CallerBound)'
  BY <1>2 DEF InHand, Verdict, CallerBound, StartContainer, NoMessage
<1> QED BY <1>1, <1>3, RestingFiles DEF IInv, StartContainer

\* A turn that is over leaves nothing behind.
LEMMA ClearedIInv ==
  ASSUME IInv, Clear, Setting, up' \in BOOLEAN, up' => up
  PROVE  IInv'
<1>1. TypeOK'
  BY NoSourceIsOrigin DEF IInv, TypeOK, Clear, Setting, Profiles, Texts
<1>2. (InHand /\ Verdict /\ CallerBound)'
  BY DEF InHand, Verdict, CallerBound, Clear
<1>3. up' => writing = "nothing"
  BY DEF IInv
<1> QED BY <1>1, <1>2, <1>3, RestingFiles DEF IInv

LEMMA ArriveIInv ==
  ASSUME IInv, NEW s \in Sources, Arrive(s)
  PROVE  IInv'
<1>1. s \in Origins
  BY AdmissionAssumption
<1>2. TypeOK'
  BY <1>1, RouteIsProfile DEF IInv, TypeOK, Arrive, Setting
<1>3. InHand'
  BY DEF InHand, Arrive, Setting
<1>4. caller = {}
  BY DEF IInv, CallerBound, Arrive
<1>5. (Verdict /\ CallerBound)'
  BY <1>4 DEF Verdict, CallerBound, Arrive
<1>6. up' => writing = "nothing"
  BY DEF IInv, Arrive
<1> QED BY <1>2, <1>3, <1>5, <1>6, RestingFiles DEF IInv, Arrive

LEMMA DispatchIInv ==
  ASSUME IInv, NEW t \in Texts, NEW root \in BOOLEAN, Dispatch(t, root)
  PROVE  IInv'
<1> DEFINE allowed == HooksAllow(files["private.json"], source, t, profile, root)
<1>1. stage' = IF allowed THEN "running" ELSE "skipped"
  BY DEF Dispatch
<1>2. TypeOK'
  BY <1>1 DEF IInv, TypeOK, Dispatch, Setting
<1>3. InHand'
  BY DEF IInv, InHand, Dispatch, Setting
<1>4. /\ allowed <=> HooksAllow(files["private.json"], source, text, profile, root)'
      /\ stage' = "running" => allowed
      /\ stage' = "skipped" => ~allowed
  BY <1>1 DEF Dispatch, Setting, HooksAllow, GuardAllows, GuardAdmits, IngressAllows,
              ResolveRoute, AuthorizeSource, PrivateLoads
<1>5. Verdict'
  BY <1>4 DEF Verdict
<1>6. caller = {}
  BY DEF IInv, CallerBound, Dispatch
<1>7. CallerBound'
  BY <1>6 DEF CallerBound, Dispatch
<1>8. up' => writing = "nothing"
  BY DEF IInv, Dispatch
<1> QED BY <1>2, <1>3, <1>5, <1>7, <1>8, RestingFiles DEF IInv, Dispatch

LEMMA CallToolIInv ==
  ASSUME IInv, CallTool
  PROVE  IInv'
<1>1. TypeOK'
  BY SessionIsClients DEF IInv, TypeOK, CallTool, Setting
<1>2. (InHand /\ Verdict)'
  BY DEF IInv, InHand, Verdict, CallTool, Setting
<1>3. CallerBound'
  BY DEF CallerBound, CallTool, Setting, ResolveSession, AuthorizeSource
<1>4. up' => writing = "nothing"
  BY DEF IInv, CallTool
<1> QED BY <1>1, <1>2, <1>3, <1>4, RestingFiles DEF IInv, CallTool

LEMMA StutterIInv ==
  ASSUME IInv, UNCHANGED vars
  PROVE  IInv'
<1>1. TypeOK' /\ SetupLoads'
  BY DEF IInv, TypeOK, SetupLoads, vars
<1>2. (InHand /\ Verdict /\ CallerBound)'
  BY DEF IInv, InHand, Verdict, CallerBound, vars
<1> QED BY <1>1, <1>2 DEF IInv, vars

LEMMA NextIInv == IInv /\ [Next]_vars => IInv'
<1> SUFFICES ASSUME IInv, [Next]_vars PROVE IInv'
  OBVIOUS
<1>1. ASSUME NEW c \in Inputs, StartSetup(c) PROVE IInv'
  BY <1>1, StartSetupIInv
<1>2. CASE WriteNext
  BY <1>2, WriteNextIInv
<1>3. CASE SetupDies
  BY <1>3, SetupDiesIInv
<1>4. CASE StartContainer
  BY <1>4, StartContainerIInv
<1>5. CASE StopContainer
  BY <1>5, ClearedIInv DEF StopContainer
<1>6. ASSUME NEW s \in Sources, Arrive(s) PROVE IInv'
  BY <1>6, ArriveIInv
<1>7. ASSUME NEW t \in Texts, NEW root \in BOOLEAN, Dispatch(t, root) PROVE IInv'
  BY <1>7, DispatchIInv
<1>8. CASE CallTool
  BY <1>8, CallToolIInv
<1>9. CASE EndTurn
  BY <1>9, ClearedIInv DEF EndTurn, IInv, TypeOK
<1>10. CASE UNCHANGED vars
  BY <1>10, StutterIInv
<1> QED BY <1>1, <1>2, <1>3, <1>4, <1>5, <1>6, <1>7, <1>8, <1>9, <1>10 DEF Next

\* What setup wrote loads, the files rest while the container runs, and every
\* stage of a turn was decided by the files as they are.
THEOREM Invariance == Spec => []IInv
  BY InitIInv, NextIInv, PTL DEF Spec

-----------------------------------------------------------------------------
(* What follows *)

\* Every variable keeps its type.
THEOREM TypeCorrect == Spec => []TypeOK
<1>1. IInv => TypeOK
  BY DEF IInv
<1> QED BY <1>1, Invariance, PTL

\* The runtime and native routing never meet a file of setup's they refuse,
\* wherever setup died.
THEOREM SetupIsLoadable == Spec => []SetupLoads
<1>1. IInv => SetupLoads
  BY DEF IInv
<1> QED BY <1>1, Invariance, PTL

\* The guard of the full profile and the plugin never differ on who the
\* maintainer is.
THEOREM TheGatesAgree == Spec => []GatesAgree
<1>1. GatesAgree
  BY GatesAgreeAlways DEF GatesAgree
<1> QED BY <1>1, PTL

\* A tool acts for the one principal whose message was let in.
THEOREM CallersWereAdmitted == Spec => []CallerWasAdmitted
<1>1. ASSUME IInv PROVE CallerWasAdmitted
  <2> SUFFICES ASSUME caller # {}
               PROVE  /\ caller = ResolveRoute(files["private.json"], source)
                      /\ Cardinality(caller) = 1
    BY DEF CallerWasAdmitted
  <2>1. /\ stage = "running" /\ profile # "maintainer"
        /\ caller = ResolveSession(files["private.json"], source)
    BY <1>1 DEF IInv, CallerBound
  <2>2. IngressAllows(files["private.json"], source, text)
    BY <1>1, <2>1 DEF IInv, Verdict, HooksAllow
  <2>3. files["private.json"] \in Configs /\ source \in Origins
    BY <1>1 DEF IInv, TypeOK, Files
  <2> QED BY <2>1, <2>2, <2>3, SessionReadAlike DEF IngressAllows
<1> QED BY <1>1, Invariance, PTL

\* Nobody but the maintainer has a turn in the full profile, nor the
\* maintainer in another channel, although two files of two setups decide it.
THEOREM OnlyTheMaintainer == Spec => []FullProfileIsMaintainers
<1>1. ASSUME IInv PROVE FullProfileIsMaintainers
  <2> SUFFICES ASSUME stage = "running", profile = "maintainer"
               PROVE  /\ ResolveRoute(files["private.json"], source) = {"maintainer"}
                      /\ files["config.yaml"]["maintainer"].channel = source.chat
    BY DEF FullProfileIsMaintainers
  <2>1. GuardAdmits(files["private.json"], source)
    BY <1>1 DEF IInv, Verdict, HooksAllow, GuardAllows
  <2>2. Fits(files["config.yaml"], source, "maintainer")
    BY <1>1, RouteFits DEF IInv, InHand
  <2> QED BY <2>1, <2>2, GatesAgreeAlways DEF Fits
<1> QED BY <1>1, Invariance, PTL

\* After a setup that ended, every configured principal's ordinary message in
\* its own channel runs in its own profile.
THEOREM NobodyIsLockedOut == Spec => []OwnProfile
<1>1. ASSUME IInv PROVE OwnProfile
  <2> DEFINE c == files["private.json"]
  <2> SUFFICES ASSUME NEW r \in Roles,
                      stage \in {"running", "skipped"}, text = "plain",
                      \A f \in Files : files[f] = files[".env"],
                      source.parent = None,
                      ResolveRoute(c, source) = {r}
               PROVE  stage = "running" /\ profile = r
    BY DEF OwnProfile
  <2>1. files["config.yaml"] = c /\ c \in Configs /\ source \in Origins
    BY <1>1 DEF IInv, TypeOK, Files
  <2>2. Loads(c)
    BY <1>1, <2>1 DEF IInv, SetupLoads, Loads
  <2>3. profile = r
    <3>1. profile = MatchProfileRoute(c, source)
      BY <1>1, <2>1 DEF IInv, InHand
    <3> QED BY <2>1, <2>2, <3>1, RouteOfItsOwn
  <2>4. IngressAllows(c, source, text)
    BY <2>2 DEF IngressAllows, Loads
  <2>5. profile = "maintainer" => GuardAllows(c, source, text)
    BY <2>3, GatesAgreeAlways DEF GuardAllows
  <2>6. \A root \in BOOLEAN : HooksAllow(c, source, text, profile, root)
    BY <2>4, <2>5 DEF HooksAllow
  <2>7. stage # "skipped"
    BY <1>1, <2>6 DEF IInv, Verdict
  <2> QED BY <2>3, <2>7
<1> QED BY <1>1, Invariance, PTL

=============================================================================
