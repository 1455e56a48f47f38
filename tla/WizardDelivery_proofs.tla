----------------------- MODULE WizardDelivery_proofs -----------------------
(***************************************************************************)
(* Theorems about the delivery of the wizard, for any messages, limits,    *)
(* clock and number of controllers.                                        *)
(*                                                                         *)
(* Keyed: which key a hook holds, and whether it has won its marker.       *)
(* Marked: a marker has a winner, and what was made since its first making *)
(* includes every marker that is no older.  Crowded: a marker that is gone *)
(* or is about to be removed was crowded out, and so was one that was won  *)
(* twice.  Counted: a text is in one place of one queue at most, and was   *)
(* posted by no more hooks than have won and spent a marker.               *)
(***************************************************************************)
EXTENDS WizardDelivery, SequenceTheorems, FiniteSetTheorems, TLAPS

Holding == {"list", "unlink", "deliver"}

Won(m, h) == \E k \in Keys : <<m, h, k>> \in won

KeyIsOf(m, k) == IF m \in Identified THEN k = m ELSE k \in 0..MaxTime

KeyedAs(m, h, r) ==
  /\ r.pc \in Holding \cup {"claim", "taken"} => r.key \in Keys /\ KeyIsOf(m, r.key)
  /\ r.pc \in {"idle", "claim", "taken"} => ~Won(m, h)
  /\ r.pc \in Holding => Won(m, h)
  /\ r.pc = "taken" /\ m \in Identified => \E g \in Hooks : <<m, g, m>> \in won

Keyed ==
  /\ \A m \in Messages, h \in Hooks : KeyedAs(m, h, hook[m][h])
  /\ \A m \in Messages, h \in Hooks, k \in Keys : <<m, h, k>> \in won => KeyIsOf(m, k)

MadeAt(k, t) ==
  /\ markers[k] # Absent => markers[k] >= t
  /\ \A b \in Keys : markers[b] >= t => b \in since[k]

Marked ==
  /\ \A k \in Keys : markers[k] <= clock
  /\ \A k \in Keys : markers[k] # Absent =>
       \E m \in Messages, h \in Hooks : <<m, h, k>> \in won
  /\ \A m \in Messages, h \in Hooks, k \in Keys : <<m, h, k>> \in won => k \in since[k]
  /\ \A k \in Keys : k \in since[k] => \E t \in 0..clock : MadeAt(k, t)

Crowded ==
  /\ \A k \in Keys : k \in since[k] /\ markers[k] = Absent => CrowdedOut(k)
  /\ \A m \in Messages, h \in Hooks : \A k \in hook[m][h].stale :
       k \in since[k] /\ CrowdedOut(k)
  /\ \A m, n \in Messages, h, i \in Hooks, k \in Keys :
       <<m, h, k>> \in won /\ <<n, i, k>> \in won => CrowdedOut(k) \/ (m = n /\ h = i)

Queued(m) == \E g \in Controllers : InQueue(m, g)

Spent(m, h) == At(m, h, "done") /\ Won(m, h) /\ (h = "root" => ~Queued(m))

Places(m) == {gi \in Controllers \X Nat : /\ gi[2] \in 1..Len(queue[gi[1]])
                                          /\ queue[gi[1]][gi[2]] = m}

CountedOf(m) ==
  /\ Queued(m) => At(m, "root", "done") /\ Won(m, "root")
  /\ \A a, b \in Places(m) : a = b
  /\ posted[m] > 0 => Spent(m, "root") \/ Spent(m, "guard")
  /\ posted[m] > 1 => Spent(m, "root") /\ Spent(m, "guard")
  /\ posted[m] <= 2

Counted == \A m \in Messages : CountedOf(m)

IInv == TypeOK /\ Keyed /\ Marked /\ Crowded /\ Counted

-----------------------------------------------------------------------------
(* Constants, and what the invariant gives *)

LEMMA KeysAreFinite == IsFiniteSet(Keys)
<1>1. IsFiniteSet(Identified)
  BY WizardAssumption, FS_Subset
<1>2. IsFiniteSet(0..MaxTime) /\ IsFiniteSet({})
  BY WizardAssumption, FS_Interval, FS_EmptySet
<1>3. CASE Identified = Messages
  BY <1>1, <1>3 DEF Keys
<1>4. CASE Identified # Messages
  BY <1>1, <1>2, <1>4, FS_Union DEF Keys
<1> QED BY <1>3, <1>4

LEMMA KeyTyped ==
  ASSUME NEW m \in Messages, TypeOK
  PROVE  KeyOf(m) \in Keys /\ KeyIsOf(m, KeyOf(m))
  BY DEF KeyOf, Keys, KeyIsOf, TypeOK

\* The key of a message with an id is no other message's.
LEMMA IdIsOneMessages ==
  ASSUME NEW m \in Messages, NEW n \in Identified, KeyIsOf(m, n)
  PROVE  m = n
  BY WizardAssumption DEF KeyIsOf

LEMMA CrowdedGrows ==
  ASSUME NEW k \in Keys, TypeOK, TypeOK', since[k] \subseteq since'[k], CrowdedOut(k)
  PROVE  CrowdedOut(k)'
<1>1. IsFiniteSet(since'[k])
  BY KeysAreFinite, FS_Subset DEF TypeOK
<1>2. IsFiniteSet(since'[k] \ {k}) /\ since[k] \ {k} \subseteq since'[k] \ {k}
  BY <1>1, FS_RemoveElement
<1>3. Cardinality(since[k] \ {k}) <= Cardinality(since'[k] \ {k})
  BY <1>2, FS_Subset
<1>4. /\ Cardinality(since[k] \ {k}) \in Nat /\ Cardinality(since'[k] \ {k}) \in Nat
  BY <1>2, FS_Subset, FS_CardinalityType
<1> QED BY <1>3, <1>4, WizardAssumption DEF CrowdedOut

\* What a hook lists as stale is crowded out already.
LEMMA StaleIsCrowded ==
  ASSUME TypeOK, Marked, NEW S \in OldestBeyondLimit, NEW a \in S
  PROVE  a \in Keys /\ a \in since[a] /\ CrowdedOut(a)
<1> DEFINE Kept == Present \ S
<1>1. /\ Present \subseteq Keys /\ S \subseteq Present
      /\ \A b \in Kept : markers[a] <= markers[b]
      /\ Cardinality(S) = IF Cardinality(Present) > MaxMarkers
                          THEN Cardinality(Present) - MaxMarkers ELSE 0
  BY DEF OldestBeyondLimit, Present
<1>2. /\ IsFiniteSet(Present) /\ IsFiniteSet(S)
      /\ Cardinality(Present) \in Nat /\ Cardinality(S) \in Nat
  BY <1>1, KeysAreFinite, FS_Subset, FS_CardinalityType
<1>3. Cardinality(S) # 0
  BY <1>2, FS_EmptySet
<1>4. Cardinality(Kept) = MaxMarkers
  <2>1. Present \cap S = S
    BY <1>1
  <2>2. Cardinality(Kept) = Cardinality(Present) - Cardinality(S)
    BY <1>2, <2>1, FS_Difference
  <2> QED BY <1>1, <1>2, <1>3, <2>2, WizardAssumption
<1>5. a \in Keys /\ markers[a] # Absent /\ a \in since[a]
  <2>1. a \in Keys /\ markers[a] # Absent
    BY <1>1 DEF Present
  <2> QED BY <2>1 DEF Marked
<1>6. PICK t \in 0..clock : MadeAt(a, t)
  BY <1>5 DEF Marked
<1>7. Kept \subseteq since[a] \ {a}
  <2> SUFFICES ASSUME NEW b \in Kept PROVE b \in since[a] /\ b # a
    OBVIOUS
  <2>1. b \in Keys /\ markers[b] # Absent /\ markers[a] <= markers[b]
    BY <1>1 DEF Present
  <2>2. markers[a] \in Int /\ markers[b] \in Int /\ t \in Int
    BY <1>5, <2>1, WizardAssumption DEF TypeOK, Absent
  <2> QED BY <1>5, <1>6, <2>1, <2>2 DEF MadeAt
<1>8. IsFiniteSet(since[a] \ {a})
  BY <1>5, KeysAreFinite, FS_Subset, FS_RemoveElement DEF TypeOK
<1>9. Cardinality(Kept) <= Cardinality(since[a] \ {a})
  BY <1>7, <1>8, FS_Subset
<1> HIDE DEF Kept
<1> QED BY <1>4, <1>5, <1>9 DEF CrowdedOut

-----------------------------------------------------------------------------
(* The initial states *)

LEMMA InitIInv == Init => IInv
<1> SUFFICES ASSUME Init PROVE IInv
  OBVIOUS
<1>1. TypeOK
  <2>1. Unseen \in Observations
    BY WizardAssumption DEF Unseen, Observations, Controllers
  <2>2. <<>> \in Seq(Messages \cup Notices) /\ Len(<<>>) <= QueueSize
    BY WizardAssumption
  <2>3. \A g \in Controllers : queue[g] = <<>>
    BY DEF Init
  <2>4. \A g \in Controllers : left[g] \in Gone..PerRound
    BY WizardAssumption DEF Init, Gone
  <2>5. hook \in [Messages -> [Hooks -> Observations]]
    BY <2>1 DEF Init
  <2>6. markers \in [Keys -> {Absent} \cup 0..MaxTime] /\ since \in [Keys -> SUBSET Keys]
    BY DEF Init
  <2>7. /\ queue \in [Controllers -> Seq(Messages \cup Notices)]
        /\ left \in [Controllers -> Gone..PerRound]
    BY <2>2, <2>4 DEF Init
  <2>8. clock \in 0..MaxTime /\ up \in BOOLEAN /\ current \in Controllers
    BY WizardAssumption DEF Init, Controllers
  <2>9. posted \in [Messages -> Nat] /\ won \subseteq Messages \X Hooks \X Keys
    BY DEF Init
  <2>10. \A g \in Controllers : Len(queue[g]) <= QueueSize
    BY <2>2, <2>3
  <2> QED BY <2>5, <2>6, <2>7, <2>8, <2>9, <2>10 DEF Init, TypeOK
<1>2. Keyed
  BY DEF Init, Keyed, KeyedAs, Won, Unseen, Holding
<1>3. Marked
  BY WizardAssumption DEF Init, Marked, Absent
<1>4. Crowded
  BY DEF Init, Crowded, Unseen
<1>5. Counted
  <2> SUFFICES ASSUME NEW m \in Messages PROVE CountedOf(m)
    BY DEF Counted
  <2>1. ~Queued(m) /\ Places(m) = {}
    BY DEF Init, Queued, InQueue, Places
  <2>2. posted[m] = 0
    BY DEF Init
  <2> QED BY <2>1, <2>2 DEF CountedOf
<1> QED BY <1>1, <1>2, <1>3, <1>4, <1>5 DEF IInv

-----------------------------------------------------------------------------
(* One hook moves *)

Sets(m, h, r) == hook' = [hook EXCEPT ![m][h] = r]

LEMMA SetsOne ==
  ASSUME TypeOK, NEW m \in Messages, NEW h \in Hooks, NEW r, Sets(m, h, r)
  PROVE  /\ hook'[m][h] = r
         /\ \A n \in Messages, i \in Hooks :
              n # m \/ i # h => hook'[n][i] = hook[n][i]
  BY DEF TypeOK, Sets

LEMMA SetsTyped ==
  ASSUME TypeOK, NEW m \in Messages, NEW h \in Hooks, NEW r \in Observations,
         Sets(m, h, r)
  PROVE  hook' \in [Messages -> [Hooks -> Observations]]
  BY DEF TypeOK, Sets

LEMMA MoveKeyed ==
  ASSUME TypeOK, Keyed, NEW m \in Messages, NEW h \in Hooks, NEW r, Sets(m, h, r),
         won' = won, KeyedAs(m, h, r)
  PROVE  Keyed'
<1>1. \A n \in Messages, i \in Hooks : KeyedAs(n, i, hook'[n][i])
  BY SetsOne DEF Keyed
<1>2. \A n \in Messages, i \in Hooks : KeyedAs(n, i, hook[n][i])' = KeyedAs(n, i, hook'[n][i])
  BY DEF KeyedAs, Won
<1> QED BY <1>1, <1>2 DEF Keyed

LEMMA MoveCrowded ==
  ASSUME TypeOK, Crowded, NEW m \in Messages, NEW h \in Hooks, NEW r, Sets(m, h, r),
         won' = won, markers' = markers, since' = since,
         \A k \in r.stale : k \in since[k] /\ CrowdedOut(k)
  PROVE  Crowded'
<1>1. \A n \in Messages, i \in Hooks : \A k \in hook'[n][i].stale :
       k \in since[k] /\ CrowdedOut(k)
  BY SetsOne DEF Crowded
<1> QED BY <1>1 DEF Crowded, CrowdedOut

LEMMA MoveCounted ==
  ASSUME TypeOK, Counted, NEW m \in Messages, NEW h \in Hooks, NEW r, Sets(m, h, r),
         won \subseteq won', queue' = queue, posted' = posted, hook[m][h].pc # "done"
  PROVE  Counted'
<1> SUFFICES ASSUME NEW n \in Messages PROVE CountedOf(n)'
  BY DEF Counted
<1>1. Places(n)' = Places(n) /\ Queued(n)' = Queued(n)
  BY DEF Places, Queued, InQueue
<1>2. \A i \in Hooks : Won(n, i) => Won(n, i)'
  BY DEF Won
<1>3. \A i \in Hooks : At(n, i, "done") => At(n, i, "done")'
  BY SetsOne DEF At
<1>4. \A i \in Hooks : Spent(n, i) => Spent(n, i)'
  BY <1>1, <1>2, <1>3 DEF Spent
<1> QED BY <1>1, <1>2, <1>3, <1>4 DEF Counted, CountedOf, Hooks

LEMMA SameMarked ==
  ASSUME TypeOK, TypeOK', Marked, markers' = markers, won' = won, since' = since,
         clock <= clock'
  PROVE  Marked'
<1>1. clock \in Int /\ clock' \in Int /\ \A k \in Keys : markers[k] \in Int
  BY WizardAssumption DEF TypeOK, Absent
<1>2. \A k \in Keys : markers'[k] <= clock'
  BY <1>1 DEF Marked
<1>3. \A t \in 0..clock : t \in 0..clock'
  BY <1>1
<1>4. \A k \in Keys : \A t : MadeAt(k, t) => MadeAt(k, t)'
  BY DEF MadeAt
<1> QED BY <1>2, <1>3, <1>4 DEF Marked

-----------------------------------------------------------------------------
(* The markers *)

LEMMA ClaimKeeps ==
  ASSUME IInv, TypeOK', NEW m \in Messages, NEW h \in Hooks, Claim(m, h)
  PROVE  Keyed' /\ Marked' /\ Crowded' /\ Counted'
<1>a. PICK k : k = hook[m][h].key
  OBVIOUS
<1>b. PICK r : r = [hook[m][h] EXCEPT !.pc = "list"]
  OBVIOUS
<1>1. /\ hook[m][h].pc = "claim" /\ hook[m][h] \in Observations
      /\ Sets(m, h, r) /\ markers[k] = Absent /\ Make(m, h, k)
      /\ UNCHANGED <<clock, procVars, posted, lost>>
  BY <1>a, <1>b DEF Claim, At, Becomes, Sets, IInv, TypeOK
<1>2. r.pc = "list" /\ r.key = k /\ r.stale = hook[m][h].stale
  BY <1>1, <1>a, <1>b DEF Observations
<1>3. k \in Keys /\ KeyIsOf(m, k) /\ ~Won(m, h)
  BY <1>1, <1>a DEF IInv, Keyed, KeyedAs
<1>4. /\ won' = won \cup {<<m, h, k>>} /\ markers' = [markers EXCEPT ![k] = clock]
      /\ since' = [j \in Keys |->
           IF j = k /\ k \notin since[k] THEN {k} \cup {i \in Keys : markers[i] = clock}
           ELSE IF j \in since[j] THEN since[j] \cup {k} ELSE since[j]]
  BY <1>1 DEF Make
<1>5. /\ clock \in 0..MaxTime /\ clock \in Int /\ clock >= 0 /\ clock # Absent /\ clock' = clock
      /\ \A j \in Keys : markers[j] \in Int /\ (markers[j] # Absent => markers[j] \in 0..MaxTime)
      /\ markers'[k] = clock /\ \A j \in Keys : j # k => markers'[j] = markers[j]
  BY <1>1, <1>3, <1>4, WizardAssumption DEF IInv, TypeOK, Absent
<1>6. \A j \in Keys : j \in since'[j] <=> j = k \/ j \in since[j]
  BY <1>3, <1>4
<1>7. \A j \in Keys : j \in since[j] => since[j] \subseteq since'[j] /\ k \in since'[j]
  BY <1>3, <1>4
<1>8. \A j \in Keys : since[j] \subseteq since'[j] \/ (j = k /\ k \notin since[k])
  BY <1>3, <1>4
<1>9. Keyed'
  <2>1. \A n \in Messages, i \in Hooks : n # m \/ i # h => (Won(n, i)' <=> Won(n, i))
    BY <1>4 DEF Won
  <2>2. Won(m, h)'
    BY <1>3, <1>4 DEF Won
  <2>3. KeyedAs(m, h, hook[m][h])'
    BY <1>1, <1>2, <1>3, <2>2, SetsOne DEF KeyedAs, Holding, IInv
  <2>4. ASSUME NEW n \in Messages, NEW i \in Hooks, n # m \/ i # h
        PROVE  KeyedAs(n, i, hook[n][i])'
    <3>1. hook'[n][i] = hook[n][i]
      BY <1>1, <2>4, SetsOne DEF IInv
    <3>2. won \subseteq won'
      BY <1>4
    <3> QED BY <2>1, <2>4, <3>1, <3>2 DEF IInv, Keyed, KeyedAs
  <2>5. \A n \in Messages, i \in Hooks, j \in Keys : <<n, i, j>> \in won' => KeyIsOf(n, j)
    BY <1>3, <1>4 DEF IInv, Keyed
  <2> QED BY <2>3, <2>4, <2>5 DEF Keyed
<1>10. Marked'
  <2>1. \A j \in Keys : markers'[j] <= clock
    BY <1>5 DEF IInv, Marked
  <2>2. \A j \in Keys : markers'[j] # Absent =>
          \E n \in Messages, i \in Hooks : <<n, i, j>> \in won'
    BY <1>4, <1>5 DEF IInv, Marked
  <2>3. \A n \in Messages, i \in Hooks, j \in Keys : <<n, i, j>> \in won' => j \in since'[j]
    BY <1>4, <1>6 DEF IInv, Marked
  <2>4. ASSUME k \notin since[k] PROVE MadeAt(k, clock)'
    <3>1. \A b \in Keys : markers'[b] >= clock => b = k \/ markers[b] = clock
      BY <1>5 DEF IInv, Marked
    <3>2. since'[k] = {k} \cup {i \in Keys : markers[i] = clock}
      BY <1>3, <1>4, <2>4
    <3> QED BY <1>5, <3>1, <3>2 DEF MadeAt
  <2>5. ASSUME NEW j \in Keys, j \in since[j] PROVE \E t \in 0..clock : MadeAt(j, t)'
    <3>1. PICK t \in 0..clock : MadeAt(j, t)
      BY <2>5 DEF IInv, Marked
    <3>2. markers'[j] # Absent => markers'[j] >= t
      BY <1>5, <3>1 DEF MadeAt
    <3>3. \A b \in Keys : markers'[b] >= t => b \in since'[j]
      BY <1>5, <1>7, <2>5, <3>1 DEF MadeAt
    <3>4. MadeAt(j, t)'
      BY <3>2, <3>3 DEF MadeAt
    <3> QED BY <3>4
  <2>6. clock \in 0..clock
    BY <1>5
  <2>7. \A j \in Keys : j \in since'[j] => \E t \in 0..clock' : MadeAt(j, t)'
    BY <1>5, <1>6, <2>4, <2>5, <2>6
  <2> QED BY <1>5, <2>1, <2>2, <2>3, <2>7 DEF Marked
<1>11. Crowded'
  <2>1. \A j \in Keys : j \in since[j] /\ CrowdedOut(j) => CrowdedOut(j)'
    BY <1>7, CrowdedGrows DEF IInv
  <2>2. k \in since[k] => CrowdedOut(k)'
    BY <1>1, <1>3, <2>1 DEF IInv, Crowded
  <2>3. \A j \in Keys : j \in since'[j] /\ markers'[j] = Absent => CrowdedOut(j)'
    BY <1>5, <1>6, <2>1 DEF IInv, Crowded
  <2>4. ASSUME NEW n \in Messages, NEW i \in Hooks, NEW a \in hook'[n][i].stale
        PROVE  a \in since'[a] /\ CrowdedOut(a)'
    <3>1. hook'[n][i].stale = hook[n][i].stale
      BY <1>1, <1>2, SetsOne DEF IInv
    <3>2. a \in Keys /\ a \in since[a] /\ CrowdedOut(a)
      <4>1. hook[n][i] \in Observations
        BY DEF IInv, TypeOK
      <4> QED BY <2>4, <3>1, <4>1 DEF IInv, Crowded, Observations
    <3> QED BY <1>6, <2>1, <3>2
  <2>5. ASSUME NEW n \in Messages, NEW p \in Messages, NEW i \in Hooks, NEW j \in Hooks,
               NEW q \in Keys, <<n, i, q>> \in won', <<p, j, q>> \in won',
               n # p \/ i # j
        PROVE  CrowdedOut(q)'
    <3>1. q = k \/ (<<n, i, q>> \in won /\ <<p, j, q>> \in won)
      BY <1>4, <2>5
    <3>2. <<n, i, q>> \in won \/ <<p, j, q>> \in won
      BY <1>4, <2>5
    <3>3. q \in since[q]
      BY <3>2 DEF IInv, Marked
    <3>4. q = k \/ CrowdedOut(q)
      BY <2>5, <3>1 DEF IInv, Crowded
    <3> QED BY <2>1, <2>2, <3>3, <3>4
  <2> QED BY <2>3, <2>4, <2>5 DEF Crowded
<1>12. Counted'
  BY <1>1, <1>4, MoveCounted DEF IInv, procVars
<1> QED BY <1>9, <1>10, <1>11, <1>12

LEMMA ListKeeps ==
  ASSUME IInv, NEW m \in Messages, NEW h \in Hooks, ListMarkers(m, h)
  PROVE  Keyed' /\ Crowded' /\ Counted'
<1>1. PICK S \in OldestBeyondLimit :
        hook' = [hook EXCEPT ![m][h].pc = "unlink", ![m][h].stale = S]
  BY DEF ListMarkers
<1>2. PICK r : r = [hook[m][h] EXCEPT !.pc = "unlink", !.stale = S]
  OBVIOUS
<1>3. /\ hook[m][h] \in Observations /\ hook[m][h].pc = "list" /\ Sets(m, h, r)
      /\ UNCHANGED <<won, markers, since, queue, posted>>
  <2>1. hook \in [Messages -> [Hooks -> Observations]]
    BY DEF IInv, TypeOK
  <2>2. Sets(m, h, r)
    BY <1>1, <1>2, <2>1 DEF Sets
  <2> QED BY <2>1, <2>2 DEF ListMarkers, At, procVars
<1>4. r.pc = "unlink" /\ r.key = hook[m][h].key /\ r.stale = S
  BY <1>2, <1>3 DEF Observations
<1>5. KeyedAs(m, h, r)
  BY <1>3, <1>4 DEF IInv, Keyed, KeyedAs, Holding
<1>6. \A k \in r.stale : k \in since[k] /\ CrowdedOut(k)
  BY <1>4, StaleIsCrowded DEF IInv
<1> QED BY <1>3, <1>5, <1>6, MoveKeyed, MoveCrowded, MoveCounted DEF IInv

LEMMA UnlinkKeeps ==
  ASSUME IInv, NEW m \in Messages, NEW h \in Hooks, UnlinkStale(m, h)
  PROVE  Keyed' /\ Marked' /\ Crowded' /\ Counted'
<1>1. PICK S \in SUBSET hook[m][h].stale :
        markers' = [k \in Keys |-> IF k \in S THEN Absent ELSE markers[k]]
  BY DEF UnlinkStale
<1>2. PICK r : r = [hook[m][h] EXCEPT !.pc = "deliver", !.stale = {}]
  OBVIOUS
<1>3. /\ hook[m][h] \in Observations /\ hook[m][h].pc = "unlink" /\ Sets(m, h, r)
      /\ UNCHANGED <<clock, won, since, queue, posted>>
  BY <1>2 DEF UnlinkStale, At, Sets, IInv, TypeOK, procVars
<1>4. r.pc = "deliver" /\ r.key = hook[m][h].key /\ r.stale = {}
  BY <1>2, <1>3 DEF Observations
<1>5. KeyedAs(m, h, r)
  BY <1>3, <1>4 DEF IInv, Keyed, KeyedAs, Holding
<1>6. Keyed' /\ Counted'
  BY <1>3, <1>5, MoveKeyed, MoveCounted DEF IInv
<1>7. \A k \in Keys : /\ markers'[k] = markers[k] \/ (markers'[k] = Absent /\ k \in S)
                      /\ markers[k] \in Int
  BY <1>1, WizardAssumption DEF IInv, TypeOK, Absent
<1>8. clock \in Nat
  BY WizardAssumption DEF IInv, TypeOK
<1>9. Marked'
  <2>1. \A k \in Keys : markers'[k] <= clock
    BY <1>7, <1>8 DEF IInv, Marked, Absent
  <2>2. \A k \in Keys : markers'[k] # Absent => markers[k] # Absent
    BY <1>7
  <2>3. \A k \in Keys, t \in 0..clock : MadeAt(k, t) => MadeAt(k, t)'
    BY <1>3, <1>7, <1>8 DEF MadeAt, Absent
  <2> QED BY <1>3, <2>1, <2>2, <2>3 DEF IInv, Marked
<1>10. Crowded'
  <2>1. \A k \in S : CrowdedOut(k)
    BY DEF IInv, Crowded
  <2>2. \A k \in Keys : k \in since[k] /\ markers'[k] = Absent => CrowdedOut(k)
    BY <1>7, <2>1 DEF IInv, Crowded
  <2>3. \A n \in Messages, i \in Hooks : \A k \in hook'[n][i].stale :
          k \in since[k] /\ CrowdedOut(k)
    BY <1>3, <1>4, SetsOne DEF IInv, Crowded
  <2> QED BY <1>3, <2>2, <2>3 DEF IInv, Crowded, CrowdedOut
<1> QED BY <1>6, <1>9, <1>10

-----------------------------------------------------------------------------
(* The queues *)

LEMMA QueuedIsPlaced ==
  ASSUME NEW m, TypeOK
  PROVE  Queued(m) <=> Places(m) # {}
<1>1. \A g \in Controllers : Len(queue[g]) \in Nat
  BY DEF TypeOK
<1>2. ASSUME Queued(m) PROVE Places(m) # {}
  <2>1. PICK g \in Controllers : InQueue(m, g)
    BY <1>2 DEF Queued
  <2>2. PICK i \in 1..Len(queue[g]) : queue[g][i] = m
    BY <2>1 DEF InQueue
  <2>3. <<g, i>> \in Places(m)
    BY <1>1, <2>2 DEF Places
  <2> QED BY <2>3
<1>3. Places(m) # {} => Queued(m)
  BY DEF Places, Queued, InQueue
<1> QED BY <1>2, <1>3

LEMMA QueuedIsPlacedNext ==
  ASSUME NEW m, TypeOK'
  PROVE  Queued(m)' <=> Places(m)' # {}
<1>1. \A g \in Controllers : Len(queue'[g]) \in Nat
  BY DEF TypeOK
<1>2. ASSUME Queued(m)' PROVE Places(m)' # {}
  <2>1. PICK g \in Controllers : InQueue(m, g)'
    BY <1>2 DEF Queued
  <2>2. PICK i \in 1..Len(queue'[g]) : queue'[g][i] = m
    BY <2>1 DEF InQueue
  <2>3. <<g, i>> \in Places(m)'
    BY <1>1, <2>2 DEF Places
  <2> QED BY <2>3
<1>3. Places(m)' # {} => Queued(m)'
  BY DEF Places, Queued, InQueue
<1> QED BY <1>2, <1>3

LEMMA AppendPlaces ==
  ASSUME TypeOK, TypeOK', NEW g \in Controllers, NEW x \in Messages \cup Notices,
         queue' = [queue EXCEPT ![g] = Append(@, x)], NEW m
  PROVE  Places(m)' = Places(m) \cup IF m = x THEN {<<g, Len(queue[g]) + 1>>} ELSE {}
<1>1. /\ queue'[g] = Append(queue[g], x) /\ queue[g] \in Seq(Messages \cup Notices)
      /\ \A f \in Controllers : f # g => queue'[f] = queue[f]
  BY DEF TypeOK
<1>2. /\ Len(queue[g]) \in Nat /\ Len(queue'[g]) = Len(queue[g]) + 1
      /\ \A i \in 1..Len(queue[g]) : queue'[g][i] = queue[g][i]
      /\ queue'[g][Len(queue[g]) + 1] = x
  BY <1>1, AppendProperties
<1>3. ASSUME NEW f \in Controllers, NEW i \in Nat
      PROVE  <<f, i>> \in Places(m)' <=>
               <<f, i>> \in Places(m) \/ (m = x /\ f = g /\ i = Len(queue[g]) + 1)
  <2>1. CASE f = g
    BY <1>2, <2>1 DEF Places
  <2>2. CASE f # g
    BY <1>1, <2>2 DEF Places
  <2> QED BY <2>1, <2>2
<1>4. Places(m) \subseteq Controllers \X Nat /\ Places(m)' \subseteq Controllers \X Nat
  BY DEF Places
<1>5. <<g, Len(queue[g]) + 1>> \in Controllers \X Nat
  BY <1>2
<1> QED BY <1>3, <1>4, <1>5

\* What remains of a queue moves up by one place, and the head is gone.
LEMMA TakePlaces ==
  ASSUME TypeOK, NEW g \in Controllers, Take(g), NEW m,
         \A a, b \in Places(m) : a = b
  PROVE  /\ \A a, b \in Places(m)' : a = b
         /\ Places(m)' # {} => Places(m) # {} /\ Head(queue[g]) # m
         /\ Head(queue[g]) = m => Places(m) # {}
<1>1. /\ queue'[g] = Tail(queue[g]) /\ queue[g] \in Seq(Messages \cup Notices)
      /\ queue[g] # <<>> /\ \A f \in Controllers : f # g => queue'[f] = queue[f]
  BY DEF TypeOK, Take
<1>2. /\ Len(queue[g]) \in Nat /\ Len(queue[g]) >= 1 /\ Len(queue'[g]) = Len(queue[g]) - 1
      /\ \A i \in 1..Len(queue'[g]) : queue'[g][i] = queue[g][i + 1]
      /\ Head(queue[g]) = queue[g][1]
  BY <1>1, HeadTailProperties
<1> DEFINE Up(a) == IF a[1] = g THEN <<g, a[2] + 1>> ELSE a
<1>3. ASSUME NEW a \in Places(m)'
      PROVE  /\ a \in Controllers \X Nat /\ Up(a) \in Places(m)
             /\ Up(a) # <<g, 1>>
  <2>1. PICK f \in Controllers, i \in Nat : a = <<f, i>>
    BY DEF Places
  <2>2. i \in 1..Len(queue'[f]) /\ queue'[f][i] = m
    BY <2>1 DEF Places
  <2>3. CASE f = g
    BY <1>2, <2>1, <2>2, <2>3 DEF Places
  <2>4. CASE f # g
    BY <1>1, <2>1, <2>2, <2>4 DEF Places
  <2> QED BY <2>1, <2>3, <2>4
<1>4. \A a, b \in Controllers \X Nat : Up(a) = Up(b) => a = b
  OBVIOUS
<1>5. Head(queue[g]) = m => <<g, 1>> \in Places(m)
  BY <1>2 DEF Places
<1> HIDE DEF Up
<1> QED BY <1>3, <1>4, <1>5

LEMMA EndsShape ==
  ASSUME IInv, NEW m \in Messages, NEW h \in Hooks, Ends(m, h)
  PROVE  /\ Sets(m, h, Done) /\ Done.pc = "done" /\ Done.stale = {}
         /\ KeyedAs(m, h, Done)
  BY DEF Ends, Sets, Done, Unseen, KeyedAs, Holding

\* A hook that gives up, or that leaves the message to the other one.
LEMMA QuitKeeps ==
  ASSUME IInv, NEW m \in Messages, NEW h \in Hooks, Ends(m, h),
         hook[m][h].pc # "done",
         UNCHANGED <<won, markers, since, queue, posted>>
  PROVE  Keyed' /\ Crowded' /\ Counted'
  BY EndsShape, MoveKeyed, MoveCrowded, MoveCounted DEF IInv

LEMMA EnqueueKeeps ==
  ASSUME IInv, TypeOK', NEW m \in Messages, Enqueue(m)
  PROVE  Keyed' /\ Crowded' /\ Counted'
<1>1. PICK g : g = hook[m]["root"].ctl
  OBVIOUS
<1>2. /\ "root" \in Hooks /\ hook[m]["root"].pc = "deliver" /\ Ends(m, "root")
      /\ g \in Controllers /\ UNCHANGED <<won, markers, since, posted>>
  BY <1>1 DEF Enqueue, At, Hooks, IInv, TypeOK, Observations
<1>3. CASE queue' = queue
  BY <1>2, <1>3, QuitKeeps
<1>4. CASE queue' = [queue EXCEPT ![g] = Append(@, m)]
  <2>1. Keyed' /\ Crowded'
    BY <1>2, EndsShape, MoveKeyed, MoveCrowded DEF IInv
  <2>2. \A n, i : Won(n, i)' = Won(n, i)
    BY <1>2 DEF Won
  <2>3. \A n : Places(n)' = Places(n) \cup IF n = m THEN {<<g, Len(queue[g]) + 1>>} ELSE {}
    BY <1>2, <1>4, AppendPlaces DEF IInv
  <2>4. \A n : (Queued(n) <=> Places(n) # {}) /\ (Queued(n)' <=> Places(n)' # {})
    <3>1. \A n : Queued(n)' <=> Places(n)' # {}
      BY QueuedIsPlacedNext
    <3> QED BY <3>1, QueuedIsPlaced DEF IInv
  <2>5. \A n \in Messages, i \in Hooks :
          n # m \/ i # "root" => hook'[n][i] = hook[n][i]
    BY <1>2, EndsShape, SetsOne DEF IInv
  <2>6. hook'[m]["root"].pc = "done"
    BY <1>2, EndsShape, SetsOne DEF IInv
  <2>7. Won(m, "root") /\ ~Queued(m) /\ ~Spent(m, "root")
    BY <1>2 DEF IInv, Keyed, KeyedAs, Holding, Counted, CountedOf, At, Spent
  <2>8. CountedOf(m)'
    <3>1. Queued(m)' /\ At(m, "root", "done")' /\ Won(m, "root")'
      BY <2>2, <2>3, <2>4, <2>6, <2>7 DEF At
    <3>2. \A a, b \in Places(m)' : a = b
      BY <2>3, <2>4, <2>7
    <3>3. Spent(m, "guard") => Spent(m, "guard")'
      BY <2>2, <2>5 DEF Spent, At, Hooks
    <3> QED BY <1>2, <2>7, <3>1, <3>2, <3>3 DEF IInv, Counted, CountedOf
  <2>9. ASSUME NEW n \in Messages, n # m PROVE CountedOf(n)'
    <3>1. Places(n)' = Places(n) /\ (Queued(n)' <=> Queued(n))
      BY <2>3, <2>4, <2>9
    <3>2. \A i \in Hooks : At(n, i, "done")' = At(n, i, "done")
      BY <2>5, <2>9 DEF At
    <3>3. \A i \in Hooks : Spent(n, i)' <=> Spent(n, i)
      BY <2>2, <3>1, <3>2 DEF Spent
    <3> QED BY <1>2, <2>2, <3>1, <3>2, <3>3 DEF IInv, Counted, CountedOf, Hooks
  <2> QED BY <2>1, <2>8, <2>9 DEF Counted
<1> QED BY <1>1, <1>3, <1>4 DEF Enqueue

LEMMA PostKeeps ==
  ASSUME IInv, NEW m \in Messages, Post(m)
  PROVE  Keyed' /\ Crowded' /\ Counted'
<1>1. /\ "guard" \in Hooks /\ hook[m]["guard"].pc = "deliver" /\ Ends(m, "guard")
      /\ UNCHANGED <<won, markers, since, queue>>
      /\ posted' = [posted EXCEPT ![m] = @ + 1] /\ posted \in [Messages -> Nat]
  BY DEF Post, At, Hooks, procVars, IInv, TypeOK
<1>2. Keyed' /\ Crowded'
  BY <1>1, EndsShape, MoveKeyed, MoveCrowded DEF IInv
<1>3. \A n, i : Won(n, i)' = Won(n, i)
  BY <1>1 DEF Won
<1>4. \A n : Places(n)' = Places(n) /\ Queued(n)' = Queued(n)
  BY <1>1 DEF Places, Queued, InQueue
<1>5. \A n \in Messages, i \in Hooks : At(n, i, "done") => At(n, i, "done")'
  BY <1>1, EndsShape, SetsOne DEF IInv, At
<1>6. \A n \in Messages, i \in Hooks : Spent(n, i) => Spent(n, i)'
  BY <1>3, <1>4, <1>5 DEF Spent
<1>7. ~Spent(m, "guard") /\ Spent(m, "guard")'
  <2>1. Won(m, "guard")
    BY <1>1 DEF IInv, Keyed, KeyedAs, Holding
  <2>2. hook'[m]["guard"].pc = "done"
    BY <1>1, EndsShape, SetsOne DEF IInv
  <2> QED BY <1>1, <1>3, <2>1, <2>2 DEF Spent, At
<1>8. ASSUME NEW n \in Messages PROVE CountedOf(n)'
  <2>1. CountedOf(n)
    BY DEF IInv, Counted
  <2>2. posted'[n] = IF n = m THEN posted[n] + 1 ELSE posted[n]
    BY <1>1
  <2>3. posted[n] \in Nat
    BY <1>1
  <2> QED BY <1>3, <1>4, <1>5, <1>6, <1>7, <2>1, <2>2, <2>3 DEF CountedOf, Hooks
<1> QED BY <1>2, <1>8 DEF Counted

LEMMA SameKeyed ==
  ASSUME Keyed, hook' = hook, won' = won PROVE Keyed'
  BY DEF Keyed, KeyedAs, Won

LEMMA SameCrowded ==
  ASSUME Crowded, hook' = hook, won' = won, markers' = markers, since' = since
  PROVE  Crowded'
  BY DEF Crowded, CrowdedOut

LEMMA DrainKeeps ==
  ASSUME IInv, TypeOK', NEW g \in Controllers, Drain(g)
  PROVE  Counted'
<1>1. Take(g) /\ UNCHANGED <<hook, won>>
  BY DEF Drain
<1>2. Head(queue[g]) \in Messages \cup Notices
  BY <1>1, HeadTailProperties DEF Take, IInv, TypeOK
<1>3. ASSUME NEW n \in Messages PROVE CountedOf(n)'
  <2>1. CountedOf(n) /\ posted[n] \in Nat
    BY DEF IInv, Counted, TypeOK
  <2>2. \A a, b \in Places(n) : a = b
    BY <2>1 DEF CountedOf
  <2>3. /\ \A a, b \in Places(n)' : a = b
        /\ Places(n)' # {} => Places(n) # {} /\ Head(queue[g]) # n
        /\ Head(queue[g]) = n => Places(n) # {}
    BY <1>1, <2>2, TakePlaces DEF IInv
  <2>4. Queued(n)' <=> Places(n)' # {}
    BY QueuedIsPlacedNext
  <2>5. Queued(n) <=> Places(n) # {}
    BY QueuedIsPlaced DEF IInv
  <2>6. \A i \in Hooks : At(n, i, "done")' = At(n, i, "done") /\ Won(n, i)' = Won(n, i)
    BY <1>1 DEF At, Won
  <2>7. \A i \in Hooks : Spent(n, i) => Spent(n, i)'
    BY <2>3, <2>4, <2>5, <2>6 DEF Spent
  <2>8. CASE Head(queue[g]) = n
    <3>1. n \notin Notices
      BY WizardAssumption
    <3>2. posted'[n] = posted[n] + 1
      BY <2>8, <3>1 DEF Drain, IInv, TypeOK
    <3>3. Queued(n) /\ ~Spent(n, "root") /\ ~Queued(n)'
      BY <2>3, <2>4, <2>5, <2>8 DEF Spent
    <3>4. Spent(n, "root")'
      BY <2>1, <2>6, <3>3 DEF CountedOf, Spent, Hooks
    <3> QED BY <2>1, <2>3, <2>6, <2>7, <3>2, <3>3, <3>4 DEF CountedOf, Hooks
  <2>9. CASE Head(queue[g]) # n
    <3>1. posted'[n] = posted[n]
      BY <1>2, <2>9 DEF Drain, IInv, TypeOK
    <3> QED BY <2>1, <2>3, <2>4, <2>5, <2>6, <2>7, <3>1 DEF CountedOf, Hooks
  <2> QED BY <2>8, <2>9
<1> QED BY <1>3 DEF Counted

LEMMA NoticeKeeps ==
  ASSUME IInv, TypeOK', NEW n \in Notices, EnqueueNotice(n)
  PROVE  Counted'
<1>1. /\ current \in Controllers /\ queue' = [queue EXCEPT ![current] = Append(@, n)]
      /\ UNCHANGED <<hook, won, posted>>
  BY DEF EnqueueNotice, IInv, TypeOK
<1>2. ASSUME NEW m \in Messages PROVE CountedOf(m)'
  <2>1. m # n
    BY WizardAssumption
  <2>2. Places(m)' = Places(m)
    BY <1>1, <2>1, AppendPlaces DEF IInv
  <2>3. Queued(m)' <=> Places(m)' # {}
    BY QueuedIsPlacedNext
  <2>4. Queued(m)' <=> Queued(m)
    BY <2>2, <2>3, QueuedIsPlaced DEF IInv
  <2>5. \A i \in Hooks : /\ At(m, i, "done")' = At(m, i, "done") /\ Won(m, i)' = Won(m, i)
                         /\ Spent(m, i)' <=> Spent(m, i)
    BY <1>1, <2>4 DEF At, Won, Spent
  <2> QED BY <1>1, <2>2, <2>4, <2>5 DEF IInv, Counted, CountedOf, Hooks
<1> QED BY <1>2 DEF Counted

LEMMA SameCounted ==
  ASSUME Counted, UNCHANGED <<hook, won, queue, posted>> PROVE Counted'
<1> SUFFICES ASSUME NEW m \in Messages PROVE CountedOf(m)'
  BY DEF Counted
<1>1. Places(m)' = Places(m) /\ Queued(m)' = Queued(m)
  BY DEF Places, Queued, InQueue
<1>2. \A i \in Hooks : /\ At(m, i, "done")' = At(m, i, "done") /\ Won(m, i)' = Won(m, i)
                       /\ Spent(m, i)' <=> Spent(m, i)
  BY <1>1 DEF At, Won, Spent
<1> QED BY <1>1, <1>2 DEF Counted, CountedOf, Hooks

LEMMA CrashKeeps ==
  ASSUME IInv, Crash
  PROVE  Keyed' /\ Crowded' /\ Counted'
<1>1. /\ \A m \in Messages, h \in Hooks : hook'[m][h] = Done \/ hook'[m][h] = hook[m][h]
      /\ Done.pc = "done" /\ Done.stale = {}
      /\ UNCHANGED <<won, markers, since, posted>>
      /\ \A g \in Controllers : queue'[g] = <<>>
  BY DEF Crash, Done, Unseen
<1>2. \A n, i : Won(n, i)' = Won(n, i)
  BY <1>1 DEF Won
<1>3. Keyed'
  <2>1. \A m \in Messages, h \in Hooks : KeyedAs(m, h, hook'[m][h])
    BY <1>1 DEF IInv, Keyed, KeyedAs, Holding
  <2>2. \A m \in Messages, h \in Hooks :
          KeyedAs(m, h, hook[m][h])' = KeyedAs(m, h, hook'[m][h])
    BY <1>1, <1>2 DEF KeyedAs
  <2> QED BY <1>1, <2>1, <2>2 DEF IInv, Keyed
<1>4. Crowded'
  <2>1. \A m \in Messages, h \in Hooks : \A k \in hook'[m][h].stale :
          k \in since[k] /\ CrowdedOut(k)
    BY <1>1 DEF IInv, Crowded
  <2> QED BY <1>1, <2>1 DEF IInv, Crowded, CrowdedOut
<1>5. ASSUME NEW m \in Messages PROVE CountedOf(m)'
  <2>1. ~Queued(m)' /\ Places(m)' = {}
    BY <1>1 DEF Queued, InQueue, Places
  <2>2. \A h \in Hooks : At(m, h, "done") => At(m, h, "done")'
    BY <1>1 DEF At
  <2>3. \A h \in Hooks : Spent(m, h) => Spent(m, h)'
    BY <1>2, <2>1, <2>2 DEF Spent
  <2> QED BY <1>1, <2>1, <2>3 DEF IInv, Counted, CountedOf, Hooks
<1> QED BY <1>3, <1>4, <1>5 DEF Counted

LEMMA ObserveKeeps ==
  ASSUME IInv, NEW m \in Messages, NEW h \in Hooks, Observe(m, h)
  PROVE  Keyed' /\ Crowded' /\ Counted'
<1>1. PICK r : r = [hook[m][h] EXCEPT !.pc = "claim", !.key = KeyOf(m),
                                      !.ctl = IF h = "root" THEN current ELSE @]
  OBVIOUS
<1>2. Sets(m, h, r)
  <2>1. hook \in [Messages -> [Hooks -> Observations]]
    BY DEF IInv, TypeOK
  <2> QED BY <1>1, <2>1 DEF Observe, Sets
<1>3. /\ hook[m][h].pc = "idle" /\ hook[m][h] \in Observations
      /\ UNCHANGED <<won, markers, since, queue, posted>>
  BY DEF Observe, At, procVars, IInv, TypeOK
<1>4. r.pc = "claim" /\ r.key = KeyOf(m) /\ r.stale = hook[m][h].stale
  BY <1>1, <1>3 DEF Observations
<1>5. KeyedAs(m, h, r)
  BY <1>3, <1>4, KeyTyped DEF IInv, Keyed, KeyedAs, Holding
<1>6. \A k \in r.stale : k \in since[k] /\ CrowdedOut(k)
  BY <1>4 DEF IInv, Crowded
<1> QED BY <1>2, <1>3, <1>5, <1>6, MoveKeyed, MoveCrowded, MoveCounted DEF IInv

LEMMA TakenKeeps ==
  ASSUME IInv, NEW m \in Messages, NEW h \in Hooks, ClaimTaken(m, h)
  PROVE  Keyed' /\ Crowded' /\ Counted'
<1>1. PICK r : r = [hook[m][h] EXCEPT !.pc = "taken"]
  OBVIOUS
<1>2. Sets(m, h, r)
  BY <1>1 DEF ClaimTaken, Becomes, Sets
<1>3. /\ hook[m][h].pc = "claim" /\ hook[m][h] \in Observations
      /\ UNCHANGED <<won, markers, since, queue, posted>>
  BY DEF ClaimTaken, At, procVars, IInv, TypeOK
<1>4. r.pc = "taken" /\ r.key = hook[m][h].key /\ r.stale = hook[m][h].stale
  BY <1>1, <1>3 DEF Observations
<1>5. KeyedAs(m, h, r)
  <2>1. KeyedAs(m, h, hook[m][h])
    BY DEF IInv, Keyed
  <2>2. ASSUME m \in Identified PROVE \E g \in Hooks : <<m, g, m>> \in won
    <3>1. m \in Keys /\ markers[m] # Absent
      BY <1>3, <2>1, <2>2 DEF ClaimTaken, KeyedAs, KeyIsOf
    <3>2. PICK n \in Messages, g \in Hooks : <<n, g, m>> \in won
      BY <3>1 DEF IInv, Marked
    <3>3. n = m
      BY <2>2, <3>1, <3>2, IdIsOneMessages DEF IInv, Keyed
    <3> QED BY <3>2, <3>3
  <2> QED BY <1>3, <1>4, <2>1, <2>2 DEF KeyedAs, Holding
<1>6. \A k \in r.stale : k \in since[k] /\ CrowdedOut(k)
  BY <1>4 DEF IInv, Crowded
<1> QED BY <1>2, <1>3, <1>5, <1>6, MoveKeyed, MoveCrowded, MoveCounted DEF IInv

-----------------------------------------------------------------------------
(* Types *)

LEMMA HookTyped ==
  ASSUME TypeOK, NEW m \in Messages, NEW h \in Hooks,
         Observe(m, h) \/ HookStep(m, h) \/ Ends(m, h)
  PROVE  hook' \in [Messages -> [Hooks -> Observations]]
<1>1. hook[m][h] \in Observations /\ current \in Controllers
  BY DEF TypeOK
<1>2. Done \in Observations
  BY WizardAssumption DEF Done, Unseen, Observations, Controllers
<1>3. CASE Ends(m, h)
  BY <1>2, <1>3 DEF Ends, TypeOK
<1>4. CASE Observe(m, h)
  <2>1. KeyOf(m) \in Keys
    BY KeyTyped
  <2>2. PICK r : r = [hook[m][h] EXCEPT !.pc = "claim", !.key = KeyOf(m),
                                        !.ctl = IF h = "root" THEN current ELSE @]
    OBVIOUS
  <2>3. r \in Observations
    BY <1>1, <2>1, <2>2 DEF Observations
  <2>4. Sets(m, h, r)
    BY <1>4, <2>2 DEF Observe, Sets, TypeOK
  <2> QED BY <2>3, <2>4, SetsTyped
<1>5. \A pc \in {"list", "taken", "deliver"} : Becomes(m, h, pc) =>
        hook' \in [Messages -> [Hooks -> Observations]]
  <2> SUFFICES ASSUME NEW pc \in {"list", "taken", "deliver"}, Becomes(m, h, pc)
               PROVE  hook' \in [Messages -> [Hooks -> Observations]]
    OBVIOUS
  <2>1. [hook[m][h] EXCEPT !.pc = pc] \in Observations
    BY <1>1 DEF Observations
  <2>2. Sets(m, h, [hook[m][h] EXCEPT !.pc = pc])
    BY DEF Becomes, Sets
  <2> QED BY <2>1, <2>2, SetsTyped
<1>6. CASE ListMarkers(m, h)
  <2>1. PICK S \in OldestBeyondLimit :
          hook' = [hook EXCEPT ![m][h].pc = "unlink", ![m][h].stale = S]
    BY <1>6 DEF ListMarkers
  <2>2. S \subseteq Keys
    BY DEF OldestBeyondLimit, Present
  <2>3. [hook[m][h] EXCEPT !.pc = "unlink", !.stale = S] \in Observations
    BY <1>1, <2>2 DEF Observations
  <2>4. Sets(m, h, [hook[m][h] EXCEPT !.pc = "unlink", !.stale = S])
    BY <2>1 DEF Sets, TypeOK
  <2> QED BY <2>3, <2>4, SetsTyped
<1>7. CASE UnlinkStale(m, h)
  <2>1. [hook[m][h] EXCEPT !.pc = "deliver", !.stale = {}] \in Observations
    BY <1>1 DEF Observations
  <2>2. Sets(m, h, [hook[m][h] EXCEPT !.pc = "deliver", !.stale = {}])
    BY <1>7 DEF UnlinkStale, Sets, TypeOK
  <2> QED BY <2>1, <2>2, SetsTyped
<1> QED BY <1>3, <1>4, <1>5, <1>6, <1>7
        DEF HookStep, Claim, ClaimTaken, ClaimFails, Ends

LEMMA ClaimTyped ==
  ASSUME IInv, NEW m \in Messages, NEW h \in Hooks, Claim(m, h)
  PROVE  TypeOK'
<1>1. PICK k \in Keys : k = hook[m][h].key
  BY DEF Claim, At, IInv, Keyed, KeyedAs
<1>2. /\ markers' = [markers EXCEPT ![k] = clock] /\ won' = won \cup {<<m, h, k>>}
      /\ since' = [j \in Keys |->
           IF j = k /\ k \notin since[k] THEN {k} \cup {i \in Keys : markers[i] = clock}
           ELSE IF j \in since[j] THEN since[j] \cup {k} ELSE since[j]]
      /\ UNCHANGED <<clock, up, current, queue, left, posted, lost>>
  BY <1>1 DEF Claim, Make, procVars
<1>3. hook' \in [Messages -> [Hooks -> Observations]]
  BY HookTyped DEF IInv, HookStep
<1>4. since' \in [Keys -> SUBSET Keys]
  BY <1>1, <1>2 DEF IInv, TypeOK
<1>5. markers' \in [Keys -> {Absent} \cup 0..MaxTime]
  BY <1>2 DEF IInv, TypeOK
<1>6. won' \subseteq Messages \X Hooks \X Keys
  BY <1>1, <1>2 DEF IInv, TypeOK
<1> QED BY <1>2, <1>3, <1>4, <1>5, <1>6 DEF IInv, TypeOK

LEMMA QueueTyped ==
  ASSUME TypeOK, NEW g \in Controllers,
         \/ /\ Take(g)
         \/ \E x \in Messages \cup Notices :
              /\ Len(queue[g]) < QueueSize
              /\ queue' = [queue EXCEPT ![g] = Append(@, x)]
  PROVE  /\ queue' \in [Controllers -> Seq(Messages \cup Notices)]
         /\ \A f \in Controllers : Len(queue'[f]) <= QueueSize
<1>1. /\ queue[g] \in Seq(Messages \cup Notices) /\ Len(queue[g]) \in Nat
      /\ QueueSize \in Nat /\ Len(queue[g]) <= QueueSize
  BY WizardAssumption DEF TypeOK
<1>2. CASE Take(g)
  <2>1. Tail(queue[g]) \in Seq(Messages \cup Notices) /\ Len(Tail(queue[g])) <= QueueSize
    BY <1>1, <1>2, HeadTailProperties DEF Take
  <2> QED BY <1>2, <2>1 DEF Take, TypeOK
<1>3. ASSUME NEW x \in Messages \cup Notices, Len(queue[g]) < QueueSize,
             queue' = [queue EXCEPT ![g] = Append(@, x)]
      PROVE  /\ queue' \in [Controllers -> Seq(Messages \cup Notices)]
             /\ \A f \in Controllers : Len(queue'[f]) <= QueueSize
  <2>1. /\ Append(queue[g], x) \in Seq(Messages \cup Notices)
        /\ Len(Append(queue[g], x)) <= QueueSize
    BY <1>1, <1>3, AppendProperties
  <2> QED BY <1>3, <2>1 DEF TypeOK
<1> QED BY <1>2, <1>3

LEMMA NextTyped ==
  ASSUME IInv, [Next]_vars
  PROVE  TypeOK'
<1> USE DEF IInv
<1>1. ASSUME NEW m \in Messages, NEW h \in Hooks,
             Observe(m, h) \/ ClaimTaken(m, h) \/ ListMarkers(m, h)
      PROVE  TypeOK'
  <2>1. hook' \in [Messages -> [Hooks -> Observations]]
    BY <1>1, HookTyped DEF HookStep
  <2>2. UNCHANGED <<clock, markers, up, current, queue, left, posted, won, since, lost>>
    BY <1>1 DEF Observe, ClaimTaken, ListMarkers, procVars
  <2> QED BY <2>1, <2>2 DEF TypeOK
<1>2. ASSUME NEW m \in Messages, NEW h \in Hooks, ClaimFails(m, h)
      PROVE  TypeOK'
  <2>1. hook' \in [Messages -> [Hooks -> Observations]]
    BY <1>2, HookTyped DEF HookStep
  <2>2. /\ UNCHANGED <<clock, markers, up, current, queue, left, posted, won, since>>
        /\ lost' = lost \cup {m}
    BY <1>2 DEF ClaimFails, procVars
  <2> QED BY <2>1, <2>2 DEF TypeOK
<1>3. ASSUME NEW m \in Messages, NEW h \in Hooks, UnlinkStale(m, h)
      PROVE  TypeOK'
  <2>1. hook' \in [Messages -> [Hooks -> Observations]]
    BY <1>3, HookTyped DEF HookStep
  <2>2. markers' \in [Keys -> {Absent} \cup 0..MaxTime]
    BY <1>3 DEF UnlinkStale, TypeOK
  <2>3. UNCHANGED <<clock, up, current, queue, left, posted, won, since, lost>>
    BY <1>3 DEF UnlinkStale, procVars
  <2> QED BY <2>1, <2>2, <2>3 DEF TypeOK
<1>4. ASSUME NEW m \in Messages, Enqueue(m)
      PROVE  TypeOK'
  <2>1. hook' \in [Messages -> [Hooks -> Observations]]
    BY <1>4, HookTyped DEF Enqueue, Hooks
  <2>2. hook[m]["root"].ctl \in Controllers
    BY DEF TypeOK, Observations, Hooks
  <2>3. /\ queue' \in [Controllers -> Seq(Messages \cup Notices)]
        /\ \A f \in Controllers : Len(queue'[f]) <= QueueSize
    BY <1>4, <2>2, QueueTyped DEF Enqueue, TypeOK
  <2>4. /\ UNCHANGED <<clock, markers, up, current, left, posted, won, since>>
        /\ lost' \subseteq Messages
    BY <1>4 DEF Enqueue, TypeOK
  <2> QED BY <2>1, <2>3, <2>4 DEF TypeOK
<1>5. ASSUME NEW m \in Messages, Post(m) \/ PostRefused(m)
      PROVE  TypeOK'
  <2>1. hook' \in [Messages -> [Hooks -> Observations]]
    BY <1>5, HookTyped DEF Post, PostRefused, Hooks
  <2>2. posted' \in [Messages -> Nat]
    <3>1. posted \in [Messages -> Nat] /\ posted[m] + 1 \in Nat
      BY DEF TypeOK
    <3> QED BY <1>5, <3>1 DEF Post, PostRefused
  <2>3. /\ UNCHANGED <<clock, markers, up, current, queue, left, won, since>>
        /\ lost' \subseteq Messages
    BY <1>5 DEF Post, PostRefused, procVars, TypeOK
  <2> QED BY <2>1, <2>2, <2>3 DEF TypeOK
<1>6. ASSUME NEW g \in Controllers, Stop(g) \/ EndRound(g)
      PROVE  TypeOK'
  <2>1. left' \in [Controllers -> Gone..PerRound]
    <3>1. left \in [Controllers -> Gone..PerRound] /\ {Gone, PerRound} \subseteq Gone..PerRound
      BY WizardAssumption DEF TypeOK, Gone
    <3> QED BY <1>6, <3>1 DEF Stop, EndRound
  <2> QED BY <1>6, <2>1 DEF Stop, EndRound, TypeOK
<1>7. ASSUME NEW g \in Controllers, Drain(g)
      PROVE  TypeOK'
  <2>1. left' \in [Controllers -> Gone..PerRound]
    <3>1. left \in [Controllers -> Gone..PerRound] /\ left[g] > 0
      BY <1>7 DEF TypeOK, Drain, Take
    <3>2. left[g] - 1 \in Gone..PerRound
      BY <3>1, WizardAssumption DEF Gone
    <3> QED BY <1>7, <3>1, <3>2 DEF Drain
  <2>2. Head(queue[g]) \in Messages \cup Notices
    BY <1>7, HeadTailProperties DEF Drain, Take, TypeOK
  <2>3. posted' \in [Messages -> Nat]
    <3>1. posted \in [Messages -> Nat]
      BY DEF TypeOK
    <3>2. CASE Head(queue[g]) \in Notices
      BY <1>7, <3>1, <3>2 DEF Drain
    <3>3. CASE Head(queue[g]) \notin Notices
      <4>1. posted[Head(queue[g])] + 1 \in Nat
        BY <2>2, <3>1, <3>3
      <4> QED BY <1>7, <3>1, <3>3, <4>1 DEF Drain
    <3> QED BY <3>2, <3>3
  <2>4. /\ queue' \in [Controllers -> Seq(Messages \cup Notices)]
        /\ \A f \in Controllers : Len(queue'[f]) <= QueueSize
    BY <1>7, QueueTyped DEF Drain
  <2> QED BY <1>7, <2>1, <2>3, <2>4 DEF Drain, TypeOK
<1>8. ASSUME NEW n \in Notices, EnqueueNotice(n)
      PROVE  TypeOK'
  <2>1. /\ queue' \in [Controllers -> Seq(Messages \cup Notices)]
        /\ \A f \in Controllers : Len(queue'[f]) <= QueueSize
    BY <1>8, QueueTyped DEF EnqueueNotice, TypeOK
  <2> QED BY <1>8, <2>1 DEF EnqueueNotice, TypeOK
<1>9. CASE Reload \/ Boot
  <2>1. current + 1 \in Controllers
    BY <1>9, WizardAssumption DEF Reload, Boot, Controllers, TypeOK
  <2>2. left' \in [Controllers -> Gone..PerRound]
    <3>1. left \in [Controllers -> Gone..PerRound] /\ PerRound \in Gone..PerRound
      BY WizardAssumption DEF TypeOK, Gone
    <3> QED BY <1>9, <3>1 DEF Reload, Boot
  <2> QED BY <1>9, <2>1, <2>2 DEF Reload, Boot, TypeOK
<1>10. CASE Crash
  <2>1. Done \in Observations
    BY WizardAssumption DEF Done, Unseen, Observations, Controllers
  <2>2. hook' \in [Messages -> [Hooks -> Observations]]
    BY <1>10, <2>1 DEF Crash, TypeOK
  <2>3. /\ queue' \in [Controllers -> Seq(Messages \cup Notices)]
        /\ \A f \in Controllers : Len(queue'[f]) <= QueueSize
    BY <1>10, WizardAssumption DEF Crash
  <2>4. left' \in [Controllers -> Gone..PerRound]
    BY <1>10, WizardAssumption DEF Crash, Gone
  <2> QED BY <1>10, <2>2, <2>3, <2>4 DEF Crash, TypeOK
<1>11. CASE Time
  <2>1. clock' \in 0..MaxTime
    BY <1>11, WizardAssumption DEF Time, TypeOK
  <2> QED BY <1>11, <2>1 DEF Time, TypeOK, procVars
<1>12. CASE UNCHANGED vars
  BY <1>12 DEF vars, procVars, TypeOK
<1> QED BY <1>1, <1>2, <1>3, <1>4, <1>5, <1>6, <1>7, <1>8, <1>9, <1>10, <1>11, <1>12,
           ClaimTyped DEF Next, HookStep, ServeStep

-----------------------------------------------------------------------------
(* The invariant, and the theorems *)

LEMMA NextKeeps ==
  ASSUME IInv, [Next]_vars
  PROVE  IInv'
<1>1. TypeOK'
  BY NextTyped
<1>2. clock <= clock'
  <2>1. clock \in Int
    BY WizardAssumption DEF IInv, TypeOK
  <2>2. ASSUME NEW m \in Messages, NEW h \in Hooks, Observe(m, h) \/ HookStep(m, h)
        PROVE  clock' = clock
    BY <2>2 DEF HookStep, Observe, Claim, ClaimTaken, ClaimFails, ListMarkers, UnlinkStale
  <2>3. ASSUME NEW m \in Messages, Enqueue(m) \/ Post(m) \/ PostRefused(m)
        PROVE  clock' = clock
    BY <2>3 DEF Enqueue, Post, PostRefused
  <2>4. ASSUME NEW g \in Controllers, ServeStep(g)
        PROVE  clock' = clock
    BY <2>4 DEF ServeStep, Stop, Drain, EndRound
  <2>5. ASSUME NEW n \in Notices, EnqueueNotice(n)
        PROVE  clock' = clock
    BY <2>5 DEF EnqueueNotice
  <2>6. CASE Reload \/ Crash \/ Boot \/ UNCHANGED vars
    BY <2>6, <2>1 DEF Reload, Crash, Boot, vars
  <2>7. CASE Time
    BY <2>1, <2>7 DEF Time
  <2> QED BY <2>1, <2>2, <2>3, <2>4, <2>5, <2>6, <2>7 DEF Next
<1>3. ASSUME UNCHANGED <<won, markers, since>> PROVE Marked'
  BY <1>1, <1>2, <1>3, SameMarked DEF IInv
<1>4. ASSUME NEW m \in Messages, NEW h \in Hooks, Observe(m, h) \/ HookStep(m, h)
      PROVE  IInv'
  <2>1. CASE Observe(m, h)
    BY <1>1, <1>3, <2>1, ObserveKeeps DEF Observe, IInv
  <2>2. CASE Claim(m, h)
    BY <1>1, <2>2, ClaimKeeps DEF IInv
  <2>3. CASE ClaimTaken(m, h)
    BY <1>1, <1>3, <2>3, TakenKeeps DEF ClaimTaken, IInv
  <2>4. CASE ClaimFails(m, h)
    BY <1>1, <1>3, <2>4, QuitKeeps DEF ClaimFails, At, procVars, IInv
  <2>5. CASE ListMarkers(m, h)
    BY <1>1, <1>3, <2>5, ListKeeps DEF ListMarkers, IInv
  <2>6. CASE UnlinkStale(m, h)
    BY <1>1, <2>6, UnlinkKeeps DEF IInv
  <2> QED BY <1>4, <2>1, <2>2, <2>3, <2>4, <2>5, <2>6 DEF HookStep
<1>5. ASSUME NEW m \in Messages, Enqueue(m) \/ Post(m) \/ PostRefused(m)
      PROVE  IInv'
  <2>1. CASE Enqueue(m)
    BY <1>1, <1>3, <2>1, EnqueueKeeps DEF Enqueue, IInv
  <2>2. CASE Post(m)
    BY <1>1, <1>3, <2>2, PostKeeps DEF Post, IInv
  <2>3. CASE PostRefused(m)
    BY <1>1, <1>3, <2>3, QuitKeeps DEF PostRefused, At, Hooks, procVars, IInv
  <2> QED BY <1>5, <2>1, <2>2, <2>3
<1>6. ASSUME UNCHANGED <<hook, won, markers, since>>, Counted' PROVE IInv'
  BY <1>1, <1>3, <1>6, SameKeyed, SameCrowded DEF IInv
<1>7. ASSUME UNCHANGED <<hook, won, markers, since, queue, posted>> PROVE IInv'
  BY <1>6, <1>7, SameCounted DEF IInv
<1>8. ASSUME NEW g \in Controllers, ServeStep(g) PROVE IInv'
  <2>1. CASE Drain(g)
    BY <1>1, <1>6, <2>1, DrainKeeps DEF Drain
  <2>2. CASE Stop(g) \/ EndRound(g)
    BY <1>7, <2>2 DEF Stop, EndRound
  <2> QED BY <1>8, <2>1, <2>2 DEF ServeStep
<1>9. ASSUME NEW n \in Notices, EnqueueNotice(n) PROVE IInv'
  BY <1>1, <1>6, <1>9, NoticeKeeps DEF EnqueueNotice
<1>10. CASE Crash
  BY <1>1, <1>3, <1>10, CrashKeeps DEF Crash, IInv
<1>11. CASE Reload \/ Boot \/ Time \/ UNCHANGED vars
  BY <1>7, <1>11 DEF Reload, Boot, Time, procVars, vars
<1> QED BY <1>4, <1>5, <1>8, <1>9, <1>10, <1>11 DEF Next

\* The inductive invariant holds of the marker directory, the hooks, the
\* queues and the threads, through crashes and reloads.
THEOREM Invariance == Spec => []IInv
<1>1. Init => IInv
  BY InitIInv
<1>2. IInv /\ [Next]_vars => IInv'
  BY NextKeeps
<1> QED BY <1>1, <1>2, PTL DEF Spec

\* Every variable keeps its type, and no queue exceeds its size.
THEOREM TypeCorrect == Spec => []TypeOK
<1>1. IInv => TypeOK
  BY DEF IInv
<1> QED BY <1>1, Invariance, PTL

\* A trigger with an id is left alone by a hook only for its other hook.
THEOREM NoneIsSwallowed == Spec => []NotSwallowed
<1>1. IInv => NotSwallowed
  <2> SUFFICES ASSUME IInv, NEW m \in Identified, NEW h \in Hooks, At(m, h, "taken")
               PROVE  \E g \in Hooks \ {h} : <<m, g, m>> \in won
    BY DEF NotSwallowed
  <2>1. m \in Messages /\ m \in Keys
    BY WizardAssumption DEF Keys
  <2>2. KeyedAs(m, h, hook[m][h])
    BY <2>1 DEF IInv, Keyed
  <2>3. ~Won(m, h) /\ \E g \in Hooks : <<m, g, m>> \in won
    BY <2>2 DEF KeyedAs, At
  <2> QED BY <2>1, <2>3 DEF Won
<1> QED BY <1>1, Invariance, PTL

\* The wizard is posted once at most for one message, but for the two cases
\* named: crowded out, or looked at in two seconds without an id.
THEOREM OncePerMessage == Spec => []DeliveredOnce
<1>1. IInv => DeliveredOnce
  <2> SUFFICES ASSUME IInv, NEW m \in Messages, posted[m] > 1,
                      ~(m \notin Identified /\ Cardinality(KeysWon(m)) > 1)
               PROVE  \E k \in KeysWon(m) : CrowdedOut(k)
    BY DEF DeliveredOnce
  <2>1. Won(m, "root") /\ Won(m, "guard")
    BY DEF IInv, Counted, CountedOf, Spent
  <2>2. PICK j \in Keys : <<m, "root", j>> \in won
    BY <2>1 DEF Won
  <2>3. PICK k \in Keys : <<m, "guard", k>> \in won
    BY <2>1 DEF Won
  <2>4. j \in KeysWon(m) /\ k \in KeysWon(m)
    BY <2>2, <2>3 DEF KeysWon, Hooks
  <2>5. j = k
    <3>1. CASE m \in Identified
      BY <2>2, <2>3, <3>1 DEF IInv, Keyed, KeyIsOf, Hooks
    <3>2. CASE m \notin Identified /\ j # k
      <4>1. IsFiniteSet(KeysWon(m)) /\ {j} \cup {k} \subseteq KeysWon(m)
        BY <2>4, KeysAreFinite, FS_Subset DEF KeysWon
      <4>2. IsFiniteSet({j}) /\ Cardinality({j}) = 1 /\ k \notin {j}
        BY <3>2, FS_Singleton
      <4>3. Cardinality({j} \cup {k}) = Cardinality({j}) + 1
        BY <4>2, FS_AddElement
      <4>4. Cardinality({j} \cup {k}) <= Cardinality(KeysWon(m))
        BY <4>1, FS_Subset
      <4>5. Cardinality(KeysWon(m)) \in Nat
        BY <4>1, FS_CardinalityType
      <4> QED BY <3>2, <4>2, <4>3, <4>4, <4>5
    <3> QED BY <3>1, <3>2
  <2>6. CrowdedOut(k)
    BY <2>2, <2>3, <2>5 DEF IInv, Crowded, Hooks
  <2> QED BY <2>4, <2>6
<1> QED BY <1>1, Invariance, PTL

=============================================================================
