------------------------- MODULE Provisioning_proofs -------------------------
(***************************************************************************)
(* Theorems about channel provisioning, for any channel names and any      *)
(* number of runs of setup and of requests.                                *)
(*                                                                         *)
(* Chosen: what a run has recorded, it read as private to the principal.   *)
(* Applied: unless people changed it, a channel exists from the moment its *)
(* request was applied.  Looked: of the earlier requests for a name, the   *)
(* run that asks again had seen every one that was applied.                *)
(***************************************************************************)
EXTENDS Provisioning, TLAPS

Steps == {"off", "verify", "find", "confirm", "readback", "validate", "write"}
Choosing == {"find", "confirm", "readback"}

Types ==
  /\ TypeOK
  /\ pc = "verify" => at = 1
  /\ pc \in Choosing /\ at = 2 => found["main_operator"] # None

Chosen ==
  /\ \A p \in Plans : found[p] # None => <<run, p, found[p]>> \in matched
  /\ pc = "write" => bound[run] = found
  /\ PublishedWasMatched

Applied ==
  /\ \A c \in Ids : c > Len(requests) => ~Exists(c) /\ c \notin touched
  /\ \A j \in 1..Len(requests) :
       /\ requests[j].fate # "applied" => ~Exists(j) /\ j \notin touched
       /\ requests[j].fate = "applied" /\ j \notin touched =>
            Exists(j) /\ guild[j].name = requests[j].name

\* Request j did not count when a run listed the channels and knew of U.
Missed(j, U) == j \in U \/ j \in touched \/ requests[j].fate = "dropped"

Looked ==
  /\ pc = "confirm" =>
       \A j \in 1..Len(requests) :
         requests[j].name = names[PlanOrder[at]] => Missed(j, unseen)
  /\ \A k \in 1..Len(requests) : \A j \in 1..(k - 1) :
       requests[j].name = requests[k].name => Missed(j, requests[k].unseen)

IInv == Types /\ Chosen /\ Applied /\ Looked

-----------------------------------------------------------------------------
(* Constants *)

LEMMA Orders ==
  /\ Len(PlanOrder) = 2 /\ Len(FileOrder) = 4
  /\ PlanOrder[1] = "main_operator" /\ PlanOrder[2] = "employee"
  /\ \A i \in 1..2 : PlanOrder[i] \in Plans
  /\ \A i \in 1..4 : FileOrder[i] \in Files
  BY DEF PlanOrder, FileOrder, Plans, Files

LEMMA NoChannelIsNone ==
  ASSUME NEW n \in Names, NEW s
  PROVE  [name |-> n, scope |-> s] # NoChannel
<1>1. n # "none"
  BY ProvisioningAssumption
<1> QED BY <1>1 DEF NoChannel

LEMMA NoneIsNoId == None \notin Ids /\ MaxRequests \in Nat /\ MaxRuns \in Nat
  BY ProvisioningAssumption DEF None, Ids

-----------------------------------------------------------------------------
(* The initial states *)

LEMMA InitIInv == Init => IInv
<1> SUFFICES ASSUME Init PROVE IInv
  OBVIOUS
<1>1. PICK x \in Channels \cup {NoChannel} :
        guild = [c \in Ids |-> IF c = 0 THEN x ELSE NoChannel]
  BY DEF Init
<1>2. Len(requests) = 0 /\ requests \in Seq(Requests)
  BY DEF Init
<1>3. TypeOK
  BY <1>1, <1>2, Orders, NoneIsNoId DEF Init, TypeOK
<1>4. Types
  BY <1>3 DEF Init, Types, Choosing
<1>5. Chosen
  BY DEF Init, Chosen, PublishedWasMatched
<1>6. Applied
  BY <1>1, <1>2 DEF Init, Applied, Exists, Ids
<1>7. Looked
  BY <1>2 DEF Init, Looked
<1> QED BY <1>4, <1>5, <1>6, <1>7 DEF IInv

-----------------------------------------------------------------------------
(* Steps that leave one part alone *)

\* Neither the guild nor a request changes, and no channel is looked for.
LEMMA RestingGuild ==
  ASSUME IInv, UNCHANGED <<guild, requests, touched>>, pc' # "confirm"
  PROVE  Applied' /\ Looked'
<1>1. Applied'
  BY DEF IInv, Applied, Exists
<1>2. Looked'
  BY DEF IInv, Looked, Missed
<1> QED BY <1>1, <1>2

\* What was chosen and published stays so.
LEMMA RestingChoice ==
  ASSUME IInv, UNCHANGED <<run, found, files, matched, bound>>, pc' = "write" => pc = "write"
  PROVE  Chosen'
  BY DEF IInv, Chosen, PublishedWasMatched

LEMMA StartIInv ==
  ASSUME IInv, NEW n \in [Plans -> Names], Start(n)
  PROVE  IInv'
<1>1. /\ pc' = "verify" /\ run' = run + 1 /\ at' = 1 /\ run < MaxRuns
      /\ found' = [p \in Plans |-> None]
  BY DEF Start
<1>2. TypeOK'
  BY <1>1, Orders, NoneIsNoId DEF IInv, Types, TypeOK, Start
<1>3. Types'
  BY <1>1, <1>2 DEF Types, Choosing
<1>4. Chosen'
  BY <1>1 DEF IInv, Chosen, PublishedWasMatched, Start
<1>5. Applied' /\ Looked'
  BY <1>1, RestingGuild DEF Start
<1> QED BY <1>3, <1>4, <1>5 DEF IInv

LEMMA StopsIInv ==
  ASSUME IInv, Stops
  PROVE  IInv'
<1>1. Types'
  BY DEF IInv, Types, TypeOK, Choosing, Stops, history
<1>2. Chosen'
  BY RestingChoice DEF Stops, history
<1>3. Applied' /\ Looked'
  BY RestingGuild DEF Stops, history
<1> QED BY <1>1, <1>2, <1>3 DEF IInv

-----------------------------------------------------------------------------
(* Choosing the channels *)

LEMMA VerifyBotIInv ==
  ASSUME IInv, VerifyBot
  PROVE  IInv'
<1>1. Types'
  BY Orders DEF IInv, Types, TypeOK, Choosing, VerifyBot, history
<1>2. Chosen'
  BY RestingChoice DEF VerifyBot, history
<1>3. Applied' /\ Looked'
  BY RestingGuild DEF VerifyBot, history
<1> QED BY <1>1, <1>2, <1>3 DEF IInv

\* A run that finds none of this name misses only what was not applied yet
\* or what people changed.
LEMMA FindNoneIInv ==
  ASSUME IInv, NEW p \in Plans, FindNone(p)
  PROVE  IInv'
<1>1. /\ pc = "find" /\ pc' = "confirm" /\ p = PlanOrder[at] /\ at \in 1..2
      /\ UNCHANGED <<guild, requests, run, at, names, found, files, matched, bound, touched>>
      /\ unseen' = Unapplied
  BY Orders DEF FindNone, IInv, Types, TypeOK
<1>2. Unapplied \subseteq 1..MaxRequests
  BY NoneIsNoId DEF Unapplied, IInv, Types, TypeOK
<1>3. Types'
  BY <1>1, <1>2, Orders DEF IInv, Types, TypeOK, Choosing
<1>4. Chosen'
  BY <1>1, RestingChoice
<1>5. Applied'
  BY <1>1 DEF IInv, Applied, Exists
<1>6. ASSUME NEW j \in 1..Len(requests), requests[j].name = names[p]
      PROVE  Missed(j, Unapplied)
  <2>1. requests[j] \in Requests /\ j \in Ids
    BY NoneIsNoId DEF IInv, Types, TypeOK, Ids
  <2>2. requests[j].fate \in {"applied", "pending", "dropped"}
    BY <2>1 DEF Requests
  <2>3. requests[j].fate = "applied" => j \in touched
    <3>1. ~(Exists(j) /\ guild[j].name = names[p])
      BY <2>1 DEF FindNone, Named
    <3> QED BY <1>6, <3>1 DEF IInv, Applied
  <2> QED BY <2>2, <2>3 DEF Missed, Unapplied
<1>7. Looked'
  BY <1>1, <1>6 DEF IInv, Looked, Missed
<1> QED BY <1>3, <1>4, <1>5, <1>7 DEF IInv

\* A channel read as the plan's is recorded.
LEMMA RecordedIInv ==
  ASSUME IInv, NEW p \in Plans, NEW c \in Ids,
         pc \in Choosing, p = PlanOrder[at],
         Matches(c, p), Records(p, c), Reads(p, c),
         UNCHANGED <<guild, requests, files, unseen, bound, touched>>
  PROVE  IInv'
<1>1. /\ at \in 1..2 /\ run \in Runs /\ names \in [Plans -> Names]
      /\ found \in [Plans -> Ids \cup {None}]
  BY Orders DEF IInv, Types, TypeOK, Choosing, Runs
<1>2. /\ found' = [found EXCEPT ![p] = c] /\ run' = run /\ names' = names
      /\ \/ at = 1 /\ pc' = "find" /\ at' = 2
         \/ at = 2 /\ pc' = "validate" /\ at' = 1
  BY <1>1, Orders DEF Records
<1>3. matched' = matched \cup {<<run, p, c>>}
  BY DEF Reads, Matches
<1>4. c # None
  BY NoneIsNoId
<1>5. found' \in [Plans -> Ids \cup {None}]
  BY <1>1, <1>2
<1>6. at = 1 => found'["main_operator"] # None
  BY <1>1, <1>2, <1>4, Orders
<1>7. at = 2 => \A q \in Plans : found'[q] # None
  <2>1. at = 2 => found["main_operator"] # None
    BY DEF IInv, Types
  <2> QED BY <1>1, <1>2, <1>4, <2>1, Orders DEF Plans
<1>8. matched' \subseteq Runs \X Plans \X Ids
  BY <1>1, <1>3 DEF IInv, Types, TypeOK
<1>9. TypeOK'
  BY <1>1, <1>2, <1>5, <1>7, <1>8, Orders DEF IInv, Types, TypeOK, Choosing
<1>10. Types'
  BY <1>2, <1>6, <1>9 DEF Types, Choosing
<1>11. \A q \in Plans : found'[q] # None => <<run, q, found'[q]>> \in matched'
  BY <1>1, <1>2, <1>3 DEF IInv, Chosen
<1>12. PublishedWasMatched'
  BY <1>3 DEF IInv, Chosen, PublishedWasMatched
<1>13. Chosen'
  BY <1>2, <1>11, <1>12 DEF Chosen
<1>14. Applied' /\ Looked'
  BY <1>2, RestingGuild
<1> QED BY <1>10, <1>13, <1>14 DEF IInv

LEMMA ReuseIInv ==
  ASSUME IInv, NEW p \in Plans, Reuse(p)
  PROVE  IInv'
<1>1. PICK c \in Ids : Matches(c, p) /\ Records(p, c) /\ Reads(p, c)
  BY DEF Reuse
<1> QED BY <1>1, RecordedIInv DEF Reuse, Choosing

LEMMA ReadbackIInv ==
  ASSUME IInv, NEW p \in Plans, Readback(p)
  PROVE  IInv'
<1>1. Len(requests) \in Ids
  BY NoneIsNoId DEF IInv, Types, TypeOK, Ids
<1> QED BY <1>1, RecordedIInv DEF Readback, Choosing

\* The new request is later than all others; its channel is new too.
LEMMA CreateIInv ==
  ASSUME IInv, NEW p \in Plans, NEW reply \in Replies,
         NEW fate \in {"applied", "pending", "dropped"}, Create(p, reply, fate)
  PROVE  IInv'
<1> DEFINE k == Len(requests) + 1
           r == [plan |-> p, name |-> names[p], fate |-> fate, unseen |-> unseen]
<1>1. /\ pc = "confirm" /\ p = PlanOrder[at] /\ k <= MaxRequests
      /\ requests' = Append(requests, r)
      /\ guild' = IF fate = "applied"
                  THEN [guild EXCEPT ![k] = [name |-> names[p], scope |-> p]] ELSE guild
      /\ pc' \in {"readback", "off"}
      /\ UNCHANGED <<run, at, names, found, files, unseen, matched, bound, touched>>
  BY DEF Create, history
<1>2. /\ requests \in Seq(Requests) /\ names[p] \in Names /\ unseen \in SUBSET (1..MaxRequests)
      /\ guild \in [Ids -> Channels \cup {NoChannel}]
  BY DEF IInv, Types, TypeOK
<1>3. k \in Ids /\ k \in Nat /\ Len(requests) \in Nat
  BY <1>1, <1>2, NoneIsNoId DEF Ids
<1>4. r \in Requests
  BY <1>2 DEF Requests
<1>5. /\ requests' \in Seq(Requests) /\ Len(requests') = k /\ requests'[k] = r
      /\ \A j \in 1..Len(requests) : requests'[j] = requests[j]
  BY <1>1, <1>2, <1>4
<1>6. [name |-> names[p], scope |-> p] \in Channels
  BY <1>2 DEF Channels
<1>7. guild' \in [Ids -> Channels \cup {NoChannel}]
  BY <1>1, <1>2, <1>6
<1>8. TypeOK'
  BY <1>1, <1>5, <1>7 DEF IInv, Types, TypeOK, Choosing
<1>9. Types'
  BY <1>1, <1>8 DEF IInv, Types, Choosing
<1>10. Chosen'
  BY <1>1, RestingChoice
<1>11. \A c \in Ids \ {k} : guild'[c] = guild[c]
  BY <1>1, <1>2
<1>12. ~Exists(k) /\ k \notin touched
  BY <1>3 DEF IInv, Applied
<1>13. Applied'
  <2>1. ASSUME NEW c \in Ids, c > k PROVE ~Exists(c)' /\ c \notin touched
    <3>1. c # k /\ c > Len(requests)
      BY <1>3, <2>1 DEF Ids
    <3> QED BY <1>11, <3>1 DEF IInv, Applied, Exists
  <2>2. ASSUME NEW j \in 1..Len(requests)
        PROVE  /\ j \in Ids /\ guild'[j] = guild[j] /\ requests'[j] = requests[j]
    <3>1. j \in Ids /\ j # k
      BY <1>1, <1>3, NoneIsNoId DEF Ids
    <3> QED BY <1>5, <1>11, <3>1
  <2>3. fate = "applied" => guild'[k] # NoChannel /\ guild'[k].name = names[p]
    <3>1. fate = "applied" => guild'[k] = [name |-> names[p], scope |-> p]
      BY <1>1, <1>2, <1>3
    <3>2. [name |-> names[p], scope |-> p] # NoChannel
      BY <1>2, NoChannelIsNone
    <3> QED BY <3>1, <3>2
  <2>4. fate # "applied" => guild'[k] = NoChannel
    BY <1>1, <1>12 DEF Exists
  <2>5. \A j \in 1..k : j = k \/ j \in 1..Len(requests)
    BY <1>3
  <2>6. ASSUME NEW j \in 1..k
        PROVE  /\ requests'[j].fate # "applied" => ~Exists(j)' /\ j \notin touched
               /\ requests'[j].fate = "applied" /\ j \notin touched =>
                    Exists(j)' /\ guild'[j].name = requests'[j].name
    <3>1. CASE j = k
      BY <1>5, <1>12, <2>3, <2>4, <3>1 DEF Exists
    <3>2. CASE j \in 1..Len(requests)
      BY <2>2, <3>2 DEF IInv, Applied, Exists
    <3> QED BY <2>5, <3>1, <3>2
  <2> QED BY <1>1, <1>5, <2>1, <2>6 DEF Applied
<1>14. Looked'
  <2>1. ASSUME NEW i \in 1..k, NEW j \in 1..(i - 1), requests'[j].name = requests'[i].name
        PROVE  Missed(j, requests[i].unseen)'
    <3>1. j \in 1..Len(requests) /\ requests'[j] = requests[j]
      BY <1>3, <1>5
    <3>2. CASE i = k
      <4>1. requests[j].name = names[PlanOrder[at]]
        BY <1>1, <1>5, <2>1, <3>1, <3>2
      <4>2. Missed(j, unseen)
        BY <1>1, <3>1, <4>1 DEF IInv, Looked
      <4> QED BY <1>1, <1>5, <3>1, <3>2, <4>2 DEF Missed
    <3>3. CASE i # k
      <4>1. i \in 1..Len(requests) /\ requests'[i] = requests[i]
        BY <1>3, <1>5, <3>3
      <4>2. Missed(j, requests[i].unseen)
        BY <2>1, <3>1, <4>1 DEF IInv, Looked
      <4> QED BY <1>1, <3>1, <4>1, <4>2 DEF Missed
    <3> QED BY <3>2, <3>3
  <2>2. \A i \in 1..Len(requests') : \A j \in 1..(i - 1) :
          requests'[j].name = requests'[i].name => Missed(j, requests[i].unseen)'
    BY <1>5, <2>1
  <2>3. pc' # "confirm"
    BY <1>1
  <2> QED BY <2>2, <2>3 DEF Looked
<1> QED BY <1>9, <1>10, <1>13, <1>14 DEF IInv

-----------------------------------------------------------------------------
(* Publishing *)

LEMMA ValidateIInv ==
  ASSUME IInv, Validate
  PROVE  IInv'
<1>1. /\ pc = "validate" /\ pc' = "write" /\ run \in Runs
      /\ bound' = [bound EXCEPT ![run] = found] /\ bound'[run] = found
      /\ \A q \in Runs \ {run} : bound'[q] = bound[q]
      /\ UNCHANGED <<guild, requests, run, at, names, found, files, unseen, matched, touched>>
  BY DEF Validate, IInv, Types, TypeOK, Runs
<1>2. Types'
  BY <1>1 DEF IInv, Types, TypeOK, Choosing
<1>3. \A p \in Plans : <<run, p, found[p]>> \in matched
  BY <1>1 DEF IInv, Types, TypeOK, Chosen
<1>4. PublishedWasMatched'
  <2> SUFFICES ASSUME NEW f \in Files, files[f] > 0, NEW p \in Plans
               PROVE  <<files[f], p, bound'[files[f]][p]>> \in matched
    BY <1>1 DEF PublishedWasMatched
  <2>1. files[f] \in Runs
    BY DEF IInv, Types, TypeOK, Runs
  <2> QED BY <1>1, <1>3, <2>1 DEF IInv, Chosen, PublishedWasMatched
<1>5. Chosen'
  BY <1>1, <1>3, <1>4 DEF Chosen
<1>6. Applied' /\ Looked'
  BY <1>1, RestingGuild
<1> QED BY <1>2, <1>5, <1>6 DEF IInv

LEMMA WriteIInv ==
  ASSUME IInv, Write
  PROVE  IInv'
<1>1. /\ pc = "write" /\ pc' \in {"write", "off"}
      /\ files' = [files EXCEPT ![FileOrder[at]] = run]
      /\ UNCHANGED <<guild, requests, run, names, found, unseen, matched, bound, touched>>
  BY DEF Write, history
<1>2. at' \in 1..4 /\ files' \in [Files -> 0..MaxRuns]
  BY <1>1, Orders DEF Write, IInv, Types, TypeOK
<1>3. Types'
  BY <1>1, <1>2, Orders DEF IInv, Types, TypeOK, Choosing
<1>4. \A p \in Plans : <<run, p, bound[run][p]>> \in matched
  BY <1>1 DEF IInv, Types, TypeOK, Chosen
<1>5. \A f \in Files : files'[f] = files[f] \/ files'[f] = run
  BY <1>1 DEF IInv, Types, TypeOK
<1>6. Chosen'
  BY <1>1, <1>4, <1>5 DEF IInv, Chosen, PublishedWasMatched
<1>7. Applied' /\ Looked'
  BY <1>1, RestingGuild
<1> QED BY <1>3, <1>6, <1>7 DEF IInv

-----------------------------------------------------------------------------
(* Discord and people *)

LEMMA ApplyLateIInv ==
  ASSUME IInv, NEW k \in 1..MaxRequests, ApplyLate(k)
  PROVE  IInv'
<1>1. /\ k \in 1..Len(requests) /\ requests[k].fate = "pending"
      /\ requests' = [requests EXCEPT ![k].fate = "applied"]
      /\ guild' = [guild EXCEPT ![k] = [name |-> requests[k].name, scope |-> requests[k].plan]]
      /\ UNCHANGED <<pc, run, at, names, found, files, unseen, matched, bound, touched>>
  BY DEF ApplyLate, Unapplied, setupVars, history
<1>2. /\ requests \in Seq(Requests) /\ requests[k] \in Requests /\ k \in Ids
      /\ guild \in [Ids -> Channels \cup {NoChannel}]
  BY <1>1, NoneIsNoId DEF IInv, Types, TypeOK, Ids
<1>3. requests[k].name \in Names /\ requests[k].plan \in Plans
  BY <1>2 DEF Requests
<1>4. /\ requests' \in Seq(Requests) /\ Len(requests') = Len(requests)
      /\ \A j \in 1..Len(requests) :
           /\ j # k => requests'[j] = requests[j]
           /\ requests'[j].name = requests[j].name
           /\ requests'[j].unseen = requests[j].unseen
      /\ requests'[k].fate = "applied"
  <2>1. [requests[k] EXCEPT !.fate = "applied"] \in Requests
    BY <1>2 DEF Requests
  <2> DEFINE q == [requests[k] EXCEPT !.fate = "applied"]
  <2>2. requests' = [requests EXCEPT ![k] = q]
    BY <1>1
  <2>3. q.fate = "applied" /\ q.name = requests[k].name /\ q.unseen = requests[k].unseen
    BY <1>2 DEF Requests
  <2>4. q \in Requests
    BY <2>1
  <2> HIDE DEF q
  <2>5. requests' \in Seq(Requests) /\ Len(requests') = Len(requests)
    BY <1>1, <1>2, <2>2, <2>4
  <2>6. \A j \in 1..Len(requests) : requests'[j] = IF j = k THEN q ELSE requests[j]
    BY <1>1, <1>2, <2>2
  <2> QED BY <1>1, <2>3, <2>5, <2>6
<1>5. guild' \in [Ids -> Channels \cup {NoChannel}]
  BY <1>1, <1>2, <1>3 DEF Channels
<1>6. Types'
  BY <1>1, <1>4, <1>5 DEF IInv, Types, TypeOK, Choosing
<1>7. Chosen'
  BY <1>1, RestingChoice
<1>8. /\ guild'[k].name = requests'[k].name /\ Exists(k)'
      /\ \A c \in Ids \ {k} : guild'[c] = guild[c]
  BY <1>1, <1>2, <1>3, <1>4, NoChannelIsNone DEF Exists
<1>9. Applied'
  <2>1. ASSUME NEW c \in Ids, c > Len(requests) PROVE ~Exists(c)' /\ c \notin touched
    <3>1. c # k
      BY <1>1, <1>2, <2>1 DEF Ids
    <3> QED BY <1>8, <2>1, <3>1 DEF IInv, Applied, Exists
  <2>2. ASSUME NEW j \in 1..Len(requests)
        PROVE  /\ requests'[j].fate # "applied" => ~Exists(j)' /\ j \notin touched
               /\ requests'[j].fate = "applied" /\ j \notin touched =>
                    Exists(j)' /\ guild'[j].name = requests'[j].name
    <3>1. CASE j = k
      BY <1>4, <1>8, <3>1
    <3>2. CASE j # k
      <4>1. j \in Ids
        BY NoneIsNoId DEF IInv, Types, TypeOK, Ids
      <4> QED BY <1>4, <1>8, <3>2, <4>1 DEF IInv, Applied, Exists
    <3> QED BY <3>1, <3>2
  <2> QED BY <1>1, <1>4, <2>1, <2>2 DEF Applied
<1>10. Looked'
  <2>1. (pc = "confirm" =>
           \A j \in 1..Len(requests) :
             requests[j].name = names[PlanOrder[at]] => Missed(j, unseen))'
    BY <1>1, <1>4 DEF IInv, Looked, Missed
  <2>2. ASSUME NEW i \in 1..Len(requests), NEW j \in 1..(i - 1),
               requests'[j].name = requests'[i].name
        PROVE  Missed(j, requests[i].unseen)'
    <3>1. j \in 1..Len(requests)
      BY <1>2
    <3>2. Missed(j, requests[i].unseen)
      BY <1>4, <2>2, <3>1 DEF IInv, Looked
    <3> QED BY <1>1, <1>4, <3>1, <3>2 DEF Missed
  <2>3. \A i \in 1..Len(requests') : \A j \in 1..(i - 1) :
          requests'[j].name = requests'[i].name => Missed(j, requests[i].unseen)'
    BY <1>4, <2>2
  <2> QED BY <2>1, <2>3 DEF Looked
<1> QED BY <1>6, <1>7, <1>9, <1>10 DEF IInv

LEMMA TouchIInv ==
  ASSUME IInv, NEW c \in Ids, Touch(c)
  PROVE  IInv'
<1>1. PICK x \in Channels \cup {NoChannel} : guild' = [guild EXCEPT ![c] = x]
  BY DEF Touch
<1>2. /\ Exists(c) /\ touched' = touched \cup {c}
      /\ UNCHANGED <<requests, pc, run, at, names, found, files, unseen, matched, bound>>
  BY DEF Touch, setupVars
<1>3. guild \in [Ids -> Channels \cup {NoChannel}]
  BY DEF IInv, Types, TypeOK
<1>4. Types'
  BY <1>1, <1>2, <1>3 DEF IInv, Types, TypeOK, Choosing
<1>5. Chosen'
  BY <1>2, RestingChoice
<1>6. \A d \in Ids \ {c} : guild'[d] = guild[d]
  BY <1>1, <1>3
<1>7. ASSUME NEW d \in Ids, ~Exists(d), d \notin touched
      PROVE  ~Exists(d)' /\ d \notin touched'
  BY <1>2, <1>6, <1>7 DEF Exists
<1>8. \A j \in 1..Len(requests) : j \in Ids
  BY NoneIsNoId DEF IInv, Types, TypeOK, Ids
<1>9. Applied'
  BY <1>2, <1>6, <1>7, <1>8 DEF IInv, Applied, Exists
<1>10. Looked'
  BY <1>2 DEF IInv, Looked, Missed
<1> QED BY <1>4, <1>5, <1>9, <1>10 DEF IInv

LEMMA StutterIInv ==
  ASSUME IInv, UNCHANGED vars
  PROVE  IInv'
<1>1. Types'
  BY DEF IInv, Types, TypeOK, Choosing, vars, setupVars, history
<1>2. Chosen'
  BY RestingChoice DEF vars, setupVars, history
<1>3. Applied' /\ Looked'
  BY DEF IInv, Applied, Looked, Missed, Exists, vars, setupVars, history
<1> QED BY <1>1, <1>2, <1>3 DEF IInv

LEMMA NextIInv == IInv /\ [Next]_vars => IInv'
<1> SUFFICES ASSUME IInv, [Next]_vars PROVE IInv'
  OBVIOUS
<1>1. ASSUME NEW n \in [Plans -> Names], Start(n) PROVE IInv'
  BY <1>1, StartIInv
<1>2. CASE Stops
  BY <1>2, StopsIInv
<1>3. CASE VerifyBot
  BY <1>3, VerifyBotIInv
<1>4. ASSUME NEW p \in Plans, FindNone(p) PROVE IInv'
  BY <1>4, FindNoneIInv
<1>5. ASSUME NEW p \in Plans, Reuse(p) PROVE IInv'
  BY <1>5, ReuseIInv
<1>6. ASSUME NEW p \in Plans, Readback(p) PROVE IInv'
  BY <1>6, ReadbackIInv
<1>7. ASSUME NEW p \in Plans, NEW reply \in Replies,
             NEW fate \in {"applied", "pending", "dropped"}, Create(p, reply, fate)
      PROVE  IInv'
  BY <1>7, CreateIInv
<1>8. CASE Validate
  BY <1>8, ValidateIInv
<1>9. CASE Write
  BY <1>9, WriteIInv
<1>10. ASSUME NEW k \in 1..MaxRequests, ApplyLate(k) PROVE IInv'
  BY <1>10, ApplyLateIInv
<1>11. ASSUME NEW c \in Ids, Touch(c) PROVE IInv'
  BY <1>11, TouchIInv
<1>12. CASE UNCHANGED vars
  BY <1>12, StutterIInv
<1> QED BY <1>1, <1>2, <1>3, <1>4, <1>5, <1>6, <1>7, <1>8, <1>9, <1>10, <1>11, <1>12
        DEF Next

\* Types, and the three parts above, hold of every state.
THEOREM Invariance == Spec => []IInv
  BY InitIInv, NextIInv, PTL DEF Spec

-----------------------------------------------------------------------------
(* What follows *)

\* Every variable keeps its type.
THEOREM TypeCorrect == Spec => []TypeOK
<1>1. IInv => TypeOK
  BY DEF IInv, Types
<1> QED BY <1>1, Invariance, PTL

\* Whatever file is on disk names channels that were read back as private to
\* exactly the principal, in the run that wrote it.
THEOREM OnlyReadChannels == Spec => []PublishedWasMatched
<1>1. IInv => PublishedWasMatched
  BY DEF IInv, Chosen
<1> QED BY <1>1, Invariance, PTL

\* Setup makes a second channel of a name only where the first was requested
\* and unapplied, or changed by people.
THEOREM TwinsHaveOneCause == Spec => []TwinsAppliedLate
<1>1. ASSUME IInv PROVE TwinsAppliedLate
  <2> SUFFICES ASSUME NEW j \in 1..Len(requests), NEW k \in 1..Len(requests),
                      j < k, requests[j].name = requests[k].name,
                      Exists(j), {j, k} \cap touched = {}
               PROVE  j \in requests[k].unseen
    BY DEF TwinsAppliedLate
  <2>1. j \in 1..(k - 1)
    OBVIOUS
  <2>2. Missed(j, requests[k].unseen)
    BY <1>1, <2>1 DEF IInv, Looked
  <2>3. requests[j].fate = "applied"
    BY <1>1 DEF IInv, Applied
  <2> QED BY <2>2, <2>3 DEF Missed
<1> QED BY <1>1, Invariance, PTL

=============================================================================
