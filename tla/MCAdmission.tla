----------------------------- MODULE MCAdmission -----------------------------
(***************************************************************************)
(* Two guilds with two channels each, three users.  The answers differ in  *)
(* everything that can change hands between two setups: the guilds, the    *)
(* channels, the users; some are not acceptable.  Of the origins, those    *)
(* of bots and of other platforms come without a parent.                   *)
(***************************************************************************)
EXTENDS Admission, TLC

MCGuilds == {"ga", "gb"}
MCChannels == {"a1", "a2", "b1", "b2"}
MCUsers == {"u1", "u2", "u3"}
MCGuildOf == [c \in MCChannels |-> IF c \in {"a1", "a2"} THEN "ga" ELSE "gb"]

Answer(client, route, op, emp, priv, u) ==
  [r \in Roles |->
     CASE r = "main_operator" -> [guild |-> client, channel |-> op, user |-> u[1]]
       [] r = "employee" -> [guild |-> client, channel |-> emp, user |-> u[2]]
       [] r = "maintainer" -> [guild |-> route, channel |-> priv, user |-> u[3]]]

MCInputs ==
  {Answer("ga", "gb", "a1", "a2", "b1", <<"u1", "u2", "u3">>),
   Answer("ga", "gb", "a2", "a1", "b1", <<"u1", "u2", "u3">>),
   Answer("gb", "ga", "b1", "b2", "a1", <<"u3", "u2", "u1">>),
   Answer("ga", "gb", "a1", "a1", "b1", <<"u1", "u2", "u3">>),
   Answer("ga", "gb", "a1", "a2", "b2", <<"u1", "u2", "u2">>),
   Answer("ga", "ga", "a1", "a2", "a1", <<"u1", "u2", "u3">>)}

MCSources ==
  {o \in Origins :
     /\ o.user \in MCUsers /\ o.chat \in MCChannels
     /\ o.parent \in {None, Empty, "a1", "b1"}
     /\ (o.bot \/ o.platform = "other") => o.parent = None /\ o.scope = o.guild}

=============================================================================
