--------------------------- MODULE LifecycleProofs ---------------------------
(***************************************************************************)
(* Proofs about Lifecycle: types for any fleet, and for one with a single  *)
(* registering node that the others have as a seed, that live agents       *)
(* spread to every node and stay there.                                    *)
(***************************************************************************)
EXTENDS Lifecycle, GossipSyncProofs, Functions, FiniteSetTheorems

USE LifecycleAssumption

-----------------------------------------------------------------------------
(* With time left out, every step but a purge is a step of GossipSync.     *)
LEMMA TimedIsSync ==
  ASSUME [TimedNext]_timedVars
  PROVE  [Next]_vars \/ \E n \in Nodes : Purge(n)
<1>1. ASSUME NEW n \in Nodes, TimedSyncStep(n) PROVE SyncStep(n)
  BY <1>1, Zenon DEF TimedSyncStep, SyncStep, TimedStartRound, Untimed, TimedPull, TimedMerge,
              TimedPush, TimedDone
<1>2. ASSUME NEW n \in Nodes, NEW r \in Registrations, Register(n, r) PROVE RegisterAgent(n, r)
  BY <1>2, Zenon DEF Register
<1>3. ASSUME NEW n \in Nodes, NEW a \in Agents, NEW v \in 1..MaxRevision, Beat(n, a, v)
      PROVE  Heartbeat(n, a, v)
  BY <1>3, Zenon DEF Beat
<1>4. ASSUME NEW a \in Agents, StopAgent(a) PROVE UNCHANGED vars
  BY <1>4, Zenon DEF StopAgent
<1>5. Tick => UNCHANGED vars
  BY Zenon DEF Tick
<1>6. UNCHANGED timedVars => UNCHANGED vars
  BY Zenon DEF timedVars
<1>7. QED
  BY <1>1, <1>2, <1>3, <1>4, <1>5, <1>6, Zenon DEF TimedNext, Next

(* A purge takes records away and touches nothing else of GossipSync.      *)
LEMMA PurgeType ==
  ASSUME TypeOK, NEW n \in Nodes, Purge(n)
  PROVE  /\ TypeOK'
         /\ registry'[n] = {x \in registry[n] : ttl[n][x.agent] > 0}
         /\ \A k \in Nodes : k # n => registry'[k] = registry[k]
BY Zenon DEF TypeOK, Purge, syncVars, flightVars

(* Time adds nothing that would take the synchronisation out of its types. *)
LEMMA SyncTypeStep ==
  ASSUME TypeOK, [TimedNext]_timedVars
  PROVE  TypeOK'
BY TimedIsSync, TypeStep, PurgeType, Zenon

(* Except by a purge no agent leaves a registry.                           *)
LEMMA ListedStays ==
  ASSUME TypeOK, [Next]_vars, NEW n \in Nodes, NEW a \in Agents, Listed(n, a)
  PROVE  Listed(n, a)'
BY NoStepBack DEF Forward, Listed, Find

(* What a delivery does to the times to live at its target.                *)
LEMMA RenewedIs ==
  ASSUME NEW n \in Nodes, NEW t \in Nodes, NEW d, ttl' = Renewed(n, t, d),
         ttl \in [Nodes -> [Agents -> Nat]], NEW k \in Nodes, NEW a \in Agents
  PROVE  ttl'[k][a] =
           IF k = t /\ \E r \in batch[n] \ batch'[n] : r.agent = a /\ UpsertAccepted(registry[t], r)
             THEN d ELSE ttl[k][a]
BY Zenon DEF Renewed

(* What a delivery gives new time to is in its target's registry.          *)
LEMMA RenewedAreListed ==
  ASSUME TypeOK, NEW n \in Nodes, NEW t \in Nodes, Deliver(n, t), NEW a \in Agents,
         \E r \in batch[n] \ batch'[n] : r.agent = a /\ UpsertAccepted(registry[t], r)
  PROVE  Listed(t, a)'
<1>1. PICK m \in LowestOf(batch[n]) :
        /\ registry' = IF UpsertAccepted(registry[t], m)
                         THEN [registry EXCEPT ![t] = Upsert(@, m)] ELSE registry
        /\ batch' = [batch EXCEPT ![n] = @ \ {m}]
  BY Zenon DEF Deliver, HandOver, Offer
<1>2. batch'[n] = batch[n] \ {m}
  BY <1>1, Zenon DEF TypeOK
<1>3. m.agent = a /\ UpsertAccepted(registry[t], m)
  BY <1>2, Zenon
<1>4. m \in registry'[t]
  BY <1>1, <1>3, Zenon DEF TypeOK, Upsert
<1>5. QED
  BY <1>3, <1>4, Zenon DEF Listed, Find

(* What the last conjunct of TimedTypeOK says.                             *)
OnlyListedLive == \A n \in Nodes, a \in Agents : ttl[n][a] > 0 => Listed(n, a)

(* A delivery renews within the bounds of the times, and only what is      *)
(* listed afterwards.                                                      *)
LEMMA DeliveryTimes ==
  ASSUME TypeOK, [Next]_vars, NEW n \in Nodes, NEW t \in Nodes, Deliver(n, t),
         NEW d \in 0..HeartbeatTTL + PullTTL, ttl' = Renewed(n, t, d),
         ttl \in [Nodes -> [Agents -> 0..HeartbeatTTL + PullTTL]], OnlyListedLive
  PROVE  ttl' \in [Nodes -> [Agents -> 0..HeartbeatTTL + PullTTL]] /\ OnlyListedLive'
<1>1. ttl' \in [Nodes -> [Agents -> 0..HeartbeatTTL + PullTTL]]
  BY Zenon DEF Renewed
<1>2. ASSUME NEW k \in Nodes, NEW a \in Agents, ttl'[k][a] > 0 PROVE Listed(k, a)'
  <2>1. ttl \in [Nodes -> [Agents -> Nat]]
    OBVIOUS
  <2>2. CASE k = t /\ \E r \in batch[n] \ batch'[n] : r.agent = a /\ UpsertAccepted(registry[t], r)
    BY <2>2, RenewedAreListed, Zenon
  <2>3. CASE ~(k = t /\ \E r \in batch[n] \ batch'[n] :
                          r.agent = a /\ UpsertAccepted(registry[t], r))
    <3>1. ttl'[k][a] = ttl[k][a]
      BY <2>1, <2>3, RenewedIs
    <3>2. Listed(k, a)
      BY <1>2, <3>1, Zenon DEF OnlyListedLive
    <3>3. QED
      BY <3>2, ListedStays, Zenon
  <2>4. QED
    BY <2>2, <2>3, Zenon
<1>3. QED
  BY <1>1, <1>2, Zenon DEF OnlyListedLive

(* A registration and a heartbeat start the time of an agent that is then  *)
(* listed.                                                                 *)
LEMMA StampTimes ==
  ASSUME TypeOK, [Next]_vars, NEW n \in Nodes, NEW a \in Agents, Listed(n, a)',
         ttl' = [ttl EXCEPT ![n][a] = HeartbeatTTL],
         ttl \in [Nodes -> [Agents -> 0..HeartbeatTTL + PullTTL]], OnlyListedLive
  PROVE  ttl' \in [Nodes -> [Agents -> 0..HeartbeatTTL + PullTTL]] /\ OnlyListedLive'
<1>1. HeartbeatTTL \in 0..HeartbeatTTL + PullTTL
  OBVIOUS
<1>2. \A k \in Nodes, b \in Agents :
        ttl'[k][b] = IF k = n /\ b = a THEN HeartbeatTTL ELSE ttl[k][b]
  BY Zenon
<1>3. ttl' \in [Nodes -> [Agents -> 0..HeartbeatTTL + PullTTL]]
  BY <1>1, Zenon
<1>4. \A k \in Nodes, b \in Agents : Listed(k, b) => Listed(k, b)'
  BY ListedStays, Zenon
<1>5. QED
  BY <1>2, <1>3, <1>4, Zenon DEF OnlyListedLive

(* Types of everything that has to do with time, and a time to live only   *)
(* for what a node lists: no step of a registration, a heartbeat, a purge  *)
(* or a synchronisation leaves the time of a record behind.                *)
THEOREM TimedTypeCorrect == TimedSpec => []TimedTypeOK
<1>1. TimedInit => TimedTypeOK
  <2>1. Init => TypeOK
    BY SyncAssumption DEF Init, TypeOK
  <2>2. 0 \in 0..HeartbeatTTL + PullTTL /\ 0 \in 0..PullTTL /\ 0 \in 0..SpreadTime
    OBVIOUS
  <2>3. QED
    BY <2>1, <2>2 DEF TimedInit, TimedTypeOK
<1>2. TimedTypeOK /\ [TimedNext]_timedVars => TimedTypeOK'
  <2> SUFFICES ASSUME TimedTypeOK, [TimedNext]_timedVars PROVE TimedTypeOK'
    BY Zenon
  <2> USE DEF TimedTypeOK
  <2>0. TypeOK' /\ TypeOK
    BY SyncTypeStep, Zenon
  <2>1. OnlyListedLive /\ (OnlyListedLive' <=>
          \A n \in Nodes, a \in Agents : ttl'[n][a] > 0 => Listed(n, a)')
    BY Zenon DEF OnlyListedLive
  <2>2. \A n \in Nodes, a \in Agents : [Next]_vars /\ Listed(n, a) => Listed(n, a)'
    BY <2>0, ListedStays, Zenon
  <2>3. ASSUME NEW n \in Nodes, NEW r \in Registrations, Register(n, r) PROVE TimedTypeOK'
    <3>1. [Next]_vars /\ r.agent \in Agents
      BY <2>3, Zenon DEF Register, Next, Registrations, Records
    <3>2. r \in registry'[n]
      BY <2>3, Zenon DEF Register, RegisterAgent, Upsert, TypeOK
    <3>3. Listed(n, r.agent)'
      BY <3>2, Zenon DEF Listed, Find
    <3>4. ttl' \in [Nodes -> [Agents -> 0..HeartbeatTTL + PullTTL]] /\ OnlyListedLive'
      BY <2>0, <2>1, <2>3, <3>1, <3>3, StampTimes, Zenon DEF Register
    <3>5. QED
      BY <2>0, <2>1, <2>3, <3>1, <3>4, Zenon DEF Register
  <2>4. ASSUME NEW n \in Nodes, NEW a \in Agents, NEW v \in 1..MaxRevision, Beat(n, a, v)
        PROVE  TimedTypeOK'
    <3>1. [Next]_vars
      BY <2>4, Zenon DEF Beat, Next
    <3>2. Listed(n, a)
      BY <2>4, Zenon DEF Beat, Heartbeat, HeartbeatAccepted, Listed
    <3>3. Listed(n, a)'
      BY <2>2, <3>1, <3>2, Zenon
    <3>4. ttl' \in [Nodes -> [Agents -> 0..HeartbeatTTL + PullTTL]] /\ OnlyListedLive'
      BY <2>0, <2>1, <2>4, <3>1, <3>3, StampTimes, Zenon DEF Beat
    <3>5. QED
      BY <2>0, <2>1, <2>4, <3>4, Zenon DEF Beat
  <2>5. ASSUME NEW a \in Agents, StopAgent(a) PROVE TimedTypeOK'
    BY <2>0, <2>5, Zenon DEF StopAgent, vars, Listed
  <2>6. ASSUME NEW n \in Nodes, Purge(n) PROVE TimedTypeOK'
    <3>1. /\ registry'[n] = {x \in registry[n] : ttl[n][x.agent] > 0}
          /\ \A k \in Nodes : k # n => registry'[k] = registry[k]
      BY <2>0, <2>6, PurgeType, Zenon
    <3>2. \A k \in Nodes, a \in Agents : ttl[k][a] > 0 => Listed(k, a)'
      BY <3>1 DEF Listed, Find
    <3>3. QED
      BY <2>0, <2>6, <3>2, Zenon DEF Purge, agentVars
  <2>7. ASSUME NEW n \in Nodes, TimedMerge(n) \/ TimedPush(n) PROVE TimedTypeOK'
    <3>1. [Next]_vars
      BY <2>7, Zenon DEF TimedMerge, TimedPush, SyncStep, Next
    <3>2. PICK t \in Nodes, d \in 0..HeartbeatTTL + PullTTL :
            Deliver(n, t) /\ ttl' = Renewed(n, t, d)
      <4>1. peer[n] \in Nodes /\ parsed[n] \in 0..HeartbeatTTL + PullTTL
            /\ HeartbeatTTL \in 0..HeartbeatTTL + PullTTL
        BY DEF TypeOK
      <4>2. QED
        BY <2>7, <4>1, Zenon DEF TimedMerge, TimedPush, Merge, Push, Deliver
    <3>3. ttl' \in [Nodes -> [Agents -> 0..HeartbeatTTL + PullTTL]] /\ OnlyListedLive'
      BY <2>0, <2>1, <3>1, <3>2, DeliveryTimes, Zenon
    <3>4. UNCHANGED <<agentVars, parsed, swept, rounds>>
      BY <2>7, Zenon DEF TimedMerge, TimedPush
    <3>5. QED
      BY <2>0, <2>1, <3>3, <3>4, Zenon DEF agentVars
  <2>8. ASSUME NEW n \in Nodes,
               TimedPull(n) \/ TimedDone(n) \/ TimedStartRound(n) \/ Untimed(n)
        PROVE  TimedTypeOK'
    <3>1. registry' = registry
      BY <2>8, Zenon DEF TimedPull, Pull, TimedDone, Done, LeavePeer, TimedStartRound, StartRound,
                  Untimed, Begin, Stats, Plan
    <3>2. UNCHANGED <<status, beat, age, ttl, swept>>
      BY <2>8, Zenon DEF TimedPull, TimedDone, TimedStartRound, Untimed, agentVars, timeVars
    <3>3. /\ 0 \in 0..PullTTL /\ PullTTL \in 0..PullTTL
          /\ parsed' \in {parsed, [parsed EXCEPT ![n] = 0], [parsed EXCEPT ![n] = PullTTL]}
      BY <2>8 DEF TimedPull, TimedDone, TimedStartRound, Untimed, timeVars
    <3>4. parsed' \in [Nodes -> 0..PullTTL]
      BY <3>3, Zenon
    <3>5. rounds' \in [Nodes -> {"none", "begun", "done"}]
      BY <2>8, Zenon DEF TimedPull, TimedDone, TimedStartRound, Untimed, timeVars
    <3>6. QED
      BY <2>0, <3>1, <3>2, <3>4, <3>5, Zenon DEF Listed
  <2>9. CASE Tick
    <3>1. \A t \in Nat : Less(t) \in Nat /\ Less(t) <= t
      BY DEF Less
    <3>2. /\ ttl' \in [Nodes -> [Agents -> 0..HeartbeatTTL + PullTTL]]
          /\ parsed' \in [Nodes -> 0..PullTTL]
          /\ \A n \in Nodes, a \in Agents : ttl'[n][a] <= ttl[n][a]
      BY <2>9, <3>1 DEF Tick
    <3>3. age' \in [Agents -> 0..SpreadTime]
      BY <2>9 DEF Tick
    <3>4. /\ registry' = registry /\ status' = status /\ beat' = {} /\ swept' = {}
          /\ rounds' \in [Nodes -> {"none", "begun", "done"}]
      BY <2>9, Zenon DEF Tick, vars
    <3>5. ASSUME NEW n \in Nodes, NEW a \in Agents, ttl'[n][a] > 0 PROVE Listed(n, a)'
      <4>1. ttl[n][a] > 0
        BY <3>2, <3>5
      <4>2. QED
        BY <3>4, <4>1, Zenon DEF Listed
    <3>6. QED
      BY <2>0, <3>2, <3>3, <3>4, <3>5, Zenon
  <2>10. CASE UNCHANGED timedVars
    BY <2>10, <2>0, Zenon DEF timedVars, vars, timeVars, agentVars, Listed
  <2>11. QED
    BY <2>3, <2>4, <2>5, <2>6, <2>7, <2>8, <2>9, <2>10, Zenon DEF TimedNext, TimedSyncStep
<1>3. QED
  BY <1>1, <1>2, PTL DEF TimedSpec

-----------------------------------------------------------------------------
(* A fleet around node w: agents register with w, by fresh revisions, and  *)
(* every heartbeat raises theirs; each other node has w among its seeds    *)
(* and visits all of them in a round; there are no more agents than the    *)
(* records of one answer, unless those are not limited.  A record that is  *)
(* pulled lasts for three purge intervals; so does one that is pushed,     *)
(* unless records are pushed to w alone, where heartbeats arrive as well.  *)
Hub(w) ==
  /\ w \in Nodes /\ Registrars = {w} /\ Fresh /\ Rising
  /\ MaxEntries = 0 \/ (IsFiniteSet(Agents) /\ Cardinality(Agents) <= MaxEntries)
  /\ \A n \in Nodes \ {w} : w \in Peers[n] /\ Cardinality(Peers[n]) <= Fanout
  /\ PullTTL >= 3
  /\ \/ HeartbeatTTL >= 3
     \/ HeartbeatTTL >= 2 /\ \A n \in Nodes : Peers[n] \subseteq {w}
  /\ SpreadTime >= 2

Live == {a \in Agents : status[a] = "live"}

(* The cursors are sound as far as live agents are concerned.              *)
LiveGapInv(w) == \E L : L = Live /\ GapInv(w, L)

(* What is so at node w and in the records on their way.                   *)
HomeInv(w) ==
  /\ \A a \in Live : Listed(w, a) /\ ttl[w][a] >= 1 /\ (a \in beat => ttl[w][a] >= 2)
  /\ \A a \in Agents : status[a] = "new" =>
       age[a] = 0 /\ \A n \in Nodes : \A x \in registry[n] \cup batch[n] : x.agent # a
  /\ \A n \in Nodes : pc[n] = "merge" =>
       /\ parsed[n] >= 2 /\ (rounds[n] # "none" => parsed[n] >= 3)
       /\ \A r \in batch[n] : r \in registry[w] /\ r.agent \in Live /\ r.agent \in beat =>
            parsed[n] >= 3
  /\ \A n \in Nodes : todo[n] \subseteq Peers[n] /\ (pc[n] # "idle" => peer[n] \in Peers[n])

(* Node n has visited w in this unit of time, or is merging what it has    *)
(* just pulled from there.                                                 *)
Seen(w, n) ==
  \/ rounds[n] = "done"
  \/ rounds[n] = "begun" /\ (w \notin todo[n] \/ (pc[n] = "push" /\ peer[n] = w))

Merging(w, n) == rounds[n] = "begun" /\ pc[n] = "merge" /\ peer[n] = w

(* Node n holds of agent a what w does.                                    *)
Current(w, n, a) == \E y \in Find(registry[w], a) : y \in registry[n]

Lasts(n, a, t) == Listed(n, a) /\ ttl[n][a] >= t

(* What a visit leaves behind: the record of w; or, once the next          *)
(* heartbeat has replaced it at w, one with time for the purge of this     *)
(* unit of time and the next.  An agent that has just registered can be    *)
(* missing.                                                                *)
Kept(w, n, a) ==
  IF a \in beat THEN Lasts(n, a, 2) \/ (~Listed(n, a) /\ age[a] = 0)
                ELSE Current(w, n, a)

(* A record in the batch of n will bring that about.                       *)
Coming(w, n, a) ==
  \E r \in Find(batch[n], a) :
    IF a \in beat THEN \A x \in Find(registry[n], a) : x.revision <= r.revision
                  ELSE r \in registry[w]

(* What is so of a live agent a at a node n other than w.                  *)
NodeInv(w, n, a) ==
  /\ Listed(n, a) => ttl[n][a] >= 1
  /\ Current(w, n, a) => ttl[n][a] >= 2 /\ (a \in beat => ttl[n][a] >= 3)
  /\ Seen(w, n) => Kept(w, n, a)
  /\ Merging(w, n) => Kept(w, n, a) \/ Coming(w, n, a)
  /\ age[a] >= 2 => Listed(n, a)

LifeInv(w) ==
  /\ LiveGapInv(w) /\ HomeInv(w)
  /\ \A n \in Nodes \ {w}, a \in Live : NodeInv(w, n, a)

(* One answer then holds all the records above the cursor: there is one    *)
(* per agent.                                                              *)
LEMMA AnswerIsWhole ==
  ASSUME NEW w, Hub(w), NEW R \in SUBSET Records,
         \A x, y \in R : x.agent = y.agent => x = y,
         NEW v, NEW S \in EntriesAfterRevision(R, v, MaxEntries)
  PROVE  S = {x \in R : x.revision > v}
<1> DEFINE newer == {x \in R : x.revision > v}
<1>1. CASE MaxEntries = 0
  <2>1. ~(MaxEntries > 0)
    BY <1>1
  <2>2. QED
    BY <2>1, Zenon DEF EntriesAfterRevision
<1>2. CASE IsFiniteSet(Agents) /\ Cardinality(Agents) <= MaxEntries
  <2> DEFINE f == [x \in newer |-> x.agent]
  <2>1. f \in Injection(newer, Agents)
    <3>1. f \in [newer -> Agents]
      BY Zenon DEF Records
    <3>2. \A x, y \in newer : f[x] = f[y] => x = y
      BY Zenon
    <3>3. DOMAIN f = newer
      BY Zenon
    <3> HIDE DEF f
    <3>4. QED
      BY <3>1, <3>2, <3>3, Zenon DEF Injection, IsInjective
  <2> HIDE DEF f
  <2>2. IsFiniteSet(newer) /\ Cardinality(newer) <= Cardinality(Agents)
    BY <1>2, <2>1, FS_Injection, Zenon
  <2>3. Cardinality(newer) \in Nat /\ Cardinality(Agents) \in Nat
    BY <1>2, <2>2, FS_CardinalityType, Zenon
  <2> HIDE DEF newer
  <2>4. ~(Cardinality(newer) > MaxEntries)
    BY <1>2, <2>2, <2>3, SyncAssumption
  <2> USE DEF newer
  <2>5. QED
    BY <2>4, Zenon DEF EntriesAfterRevision
<1>3. QED
  BY <1>1, <1>2, Zenon DEF Hub

(* Nothing changes for a at n that NodeInv looks at.                       *)
LEMMA NodeInvStays ==
  ASSUME NEW w, NEW n, NEW a, NodeInv(w, n, a),
         Find(registry'[n], a) = Find(registry[n], a),
         Find(registry'[w], a) = Find(registry[w], a),
         ttl'[n][a] = ttl[n][a], age'[a] = age[a], a \in beat' <=> a \in beat,
         Seen(w, n)' => Seen(w, n),
         Merging(w, n)' => Merging(w, n) /\ Find(batch[n], a) \subseteq Find(batch'[n], a)
  PROVE  NodeInv(w, n, a)'
<1>1. Listed(n, a)' <=> Listed(n, a)
  BY Zenon DEF Listed
<1>2. Current(w, n, a)' <=> Current(w, n, a)
  BY Zenon DEF Current, Find
<1>3. Kept(w, n, a)' <=> Kept(w, n, a)
  BY <1>1, <1>2, Zenon DEF Kept, Lasts
<1>4. \A y : y \in Find(registry[w], a) <=> y.agent = a /\ y \in registry[w]
  BY Zenon DEF Find
<1>5. \A y : y \in Find(registry[w], a) <=> y.agent = a /\ y \in registry'[w]
  BY Zenon DEF Find
<1>6. \A r \in Find(batch[n], a) : r.agent = a
  BY Zenon DEF Find
<1>7. Coming(w, n, a) /\ Find(batch[n], a) \subseteq Find(batch'[n], a) => Coming(w, n, a)'
  BY <1>4, <1>5, <1>6, Zenon DEF Coming
<1>8. QED
  BY <1>1, <1>2, <1>3, <1>7, Zenon DEF NodeInv

(* The record of a live agent at w is the newest there is.                 *)
LEMMA HomeRecord ==
  ASSUME TypeOK, NEW w \in Nodes, LiveGapInv(w), HomeInv(w), NEW a \in Live
  PROVE  \E y \in registry[w] :
           /\ y \in Records /\ y.agent = a /\ Find(registry[w], a) = {y}
           /\ \A n \in Nodes : \A x \in registry[n] \cup batch[n] :
                x.agent = a => x.revision <= y.revision
<1>1. PICK L : L = Live /\ GapInv(w, L)
  BY Zenon DEF LiveGapInv
<1>2. PICK y \in registry[w] : y.agent = a
  BY DEF HomeInv, Listed, Find
<1>3. \A x, z \in registry[w] : x.agent = z.agent => x = z
  BY <1>1, Zenon DEF GapInv
<1>4. \A n \in Nodes : \A x \in registry[n] \cup batch[n] : x \in Records /\ Held(x)
  BY Zenon DEF TypeOK, Held
<1>5. ASSUME NEW n \in Nodes, NEW x \in registry[n] \cup batch[n], x.agent = a
      PROVE  x.revision <= y.revision
  <2>1. PICK z \in registry[w] : z.agent = a /\ x.revision <= z.revision
    BY <1>1, <1>4, <1>5, Zenon DEF GapInv
  <2>2. QED
    BY <1>2, <1>3, <2>1, Zenon
<1>6. Find(registry[w], a) = {y}
  BY <1>2, <1>3, Zenon DEF Find
<1>7. QED
  BY <1>2, <1>4, <1>5, <1>6, Zenon

(* A registry with one record of an agent, and what an upsert makes of it. *)
LEMMA FindInUpsert ==
  ASSUME NEW R, NEW z, NEW a
  PROVE  Find(Upsert(R, z), a) = IF a = z.agent THEN {z} ELSE Find(R, a)
BY Zenon DEF Upsert, Find

(* GapInv for one more agent, of whom there is no record yet.              *)
LEMMA GapInvForNew ==
  ASSUME TypeOK, NEW w \in Nodes, NEW L, GapInv(w, L), NEW a,
         \A n \in Nodes : \A x \in registry[n] \cup batch[n] : x.agent # a
  PROVE  GapInv(w, L \cup {a})
<1>1. Owed(w, L \cup {a}) = Owed(w, L)
  BY Zenon DEF Owed
<1>2. \A r \in Records : Held(r) /\ r.agent \in L \cup {a} => r.agent \in L
  BY Zenon DEF Held
<1>3. \A x, t, B : Closed(w, L \cup {a}, x, t, B) <=> Closed(w, L, x, t, B)
  BY <1>1, Zenon DEF Closed
<1>4. \A n, v : Has(w, L \cup {a}, n, v) <=> Has(w, L, n, v)
  BY <1>1, Zenon DEF Has
<1>5. QED
  BY <1>2, <1>3, <1>4, Zenon DEF GapInv

(* GapInv for fewer agents.                                                *)
LEMMA GapInvForFewer ==
  ASSUME NEW w, NEW L, NEW M, M \subseteq L, GapInv(w, L)
  PROVE  GapInv(w, M)
<1>1. Owed(w, M) \subseteq Owed(w, L)
  BY Zenon DEF Owed
<1>2. \A x, t, B : Closed(w, L, x, t, B) => Closed(w, M, x, t, B)
  BY <1>1, Zenon DEF Closed
<1>3. \A n, v : Has(w, L, n, v) => Has(w, M, n, v)
  BY <1>1, Zenon DEF Has
<1>4. QED
  BY <1>2, <1>3, Zenon DEF GapInv

(* REGISTER at node w: the agent is new, so no node knows it.              *)
LEMMA RegisterKeepsLife ==
  ASSUME TimedTypeOK, NEW w, Hub(w), LifeInv(w), NEW n \in Nodes, NEW r \in Registrations,
         Register(n, r)
  PROVE  LifeInv(w)'
<1> DEFINE b == r.agent
<1>1. /\ n = w /\ w \in Nodes /\ b \in Agents /\ status[b] = "new" /\ r.revision > issued
      /\ registry' = [registry EXCEPT ![w] = Upsert(@, r)] /\ issued' = r.revision
      /\ UNCHANGED syncVars /\ UNCHANGED <<parsed, swept, rounds, age>>
      /\ status' = [status EXCEPT ![b] = "live"] /\ beat' = beat \cup {b}
      /\ ttl' = [ttl EXCEPT ![w][b] = HeartbeatTTL] /\ HeartbeatTTL >= 2
  BY DEF Register, RegisterAgent, Hub, MayUse, Issue, Registrations
<1>2. /\ TypeOK /\ LiveGapInv(w) /\ HomeInv(w)
      /\ \A k \in Nodes \ {w}, a \in Live : NodeInv(w, k, a)
      /\ status \in [Agents -> {"new", "live", "stopped"}]
      /\ ttl \in [Nodes -> [Agents -> Nat]]
  BY DEF TimedTypeOK, LifeInv
<1>3. Live' = Live \cup {b} /\ b \notin Live
  BY <1>1, <1>2, Zenon DEF Live
<1>4. /\ age[b] = 0
      /\ \A k \in Nodes : \A x \in registry[k] \cup batch[k] : x.agent # b
  BY <1>1, <1>2, Zenon DEF HomeInv
<1>5. /\ \A k \in Nodes : k # w => registry'[k] = registry[k]
      /\ registry'[w] = Upsert(registry[w], r) /\ batch' = batch /\ pc' = pc
      /\ peer' = peer /\ todo' = todo
      /\ ttl'[w][b] = HeartbeatTTL
      /\ \A k \in Nodes, a \in Agents : k # w \/ a # b => ttl'[k][a] = ttl[k][a]
  BY <1>1, <1>2, Zenon DEF TypeOK, syncVars
<1>6. \A a : Find(registry'[w], a) = IF a = b THEN {r} ELSE Find(registry[w], a)
  BY <1>5, FindInUpsert
<1> HIDE DEF b
<1>7. LiveGapInv(w)'
  <2>1. PICK L : L = Live /\ GapInv(w, L)
    BY <1>2, Zenon DEF LiveGapInv
  <2>2. GapInv(w, L \cup {b})
    BY <1>1, <1>2, <1>4, <2>1, GapInvForNew, Zenon
  <2>3. GapInv(w, L \cup {b})'
    BY <1>1, <1>2, <2>2, RegistrarTakes, RegistrationsAreRecords, Zenon
  <2>4. L \cup {b} = Live'
    BY <1>3, <2>1, Zenon
  <2>5. QED
    BY <2>3, <2>4, Zenon DEF LiveGapInv
<1>8. HomeInv(w)'
  <2>1. \A a \in Live' : Listed(w, a)' /\ ttl'[w][a] >= 1 /\ (a \in beat' => ttl'[w][a] >= 2)
    <3>1. ASSUME NEW a \in Live
          PROVE  Listed(w, a)' /\ ttl'[w][a] >= 1 /\ (a \in beat' => ttl'[w][a] >= 2)
      <4>1. a # b /\ a \in Agents
        BY <1>3, Zenon DEF Live
      <4>2. QED
        BY <1>1, <1>2, <1>5, <1>6, <4>1 DEF HomeInv, Listed
    <3>2. Listed(w, b)' /\ ttl'[w][b] >= 1 /\ ttl'[w][b] >= 2
      BY <1>1, <1>5, <1>6 DEF Listed
    <3>3. QED
      BY <1>3, <3>1, <3>2, Zenon
  <2>2. ASSUME NEW a \in Agents, status'[a] = "new"
        PROVE  age'[a] = 0 /\ \A k \in Nodes : \A x \in registry'[k] \cup batch'[k] : x.agent # a
    <3>1. status[a] = "new" /\ a # b
      BY <1>1, <1>2, <2>2, Zenon
    <3>2. age'[a] = 0 /\ \A k \in Nodes : \A x \in registry[k] \cup batch[k] : x.agent # a
      BY <1>1, <1>2, <3>1, Zenon DEF HomeInv
    <3>3. \A x \in registry'[w] : x \in registry[w] \/ x = r
      BY <1>5, Zenon DEF Upsert
    <3>4. QED
      BY <1>1, <1>5, <3>1, <3>2, <3>3, Zenon DEF b
  <2>3. ASSUME NEW k \in Nodes, pc'[k] = "merge"
        PROVE  /\ parsed'[k] >= 2 /\ (rounds'[k] # "none" => parsed'[k] >= 3)
               /\ \A x \in batch'[k] :
                    x \in registry'[w] /\ x.agent \in Live' /\ x.agent \in beat' =>
                      parsed'[k] >= 3
    <3>1. /\ parsed[k] >= 2 /\ (rounds[k] # "none" => parsed[k] >= 3)
          /\ \A x \in batch[k] : x \in registry[w] /\ x.agent \in Live /\ x.agent \in beat =>
               parsed[k] >= 3
      BY <1>2, <1>5, <2>3, Zenon DEF HomeInv
    <3>2. \A x \in batch[k] : x.agent # b /\ (x \in registry'[w] => x \in registry[w])
      BY <1>4, <1>5, Zenon DEF Upsert, b
    <3>3. QED
      BY <1>1, <1>3, <1>5, <3>1, <3>2, Zenon
  <2>4. \A k \in Nodes : todo'[k] \subseteq Peers[k] /\ (pc'[k] # "idle" => peer'[k] \in Peers[k])
    BY <1>2, <1>5, Zenon DEF HomeInv
  <2>5. QED
    BY <2>1, <2>2, <2>3, <2>4, Zenon DEF HomeInv
<1>9. ASSUME NEW k \in Nodes \ {w}, NEW a \in Live'
      PROVE  NodeInv(w, k, a)'
  <2>1. CASE a = b
    <3>1. ~Listed(k, b)' /\ age'[b] = 0 /\ b \in beat'
      BY <1>1, <1>4, <1>5, Zenon DEF Listed, Find
    <3>2. ~Current(w, k, b)'
      BY <3>1, Zenon DEF Listed, Current, Find
    <3>3. QED
      BY <2>1, <3>1, <3>2 DEF NodeInv, Kept
  <2>2. CASE a # b
    <3>1. a \in Live /\ a \in Agents
      BY <1>3, <2>2, Zenon DEF Live
    <3>2. /\ NodeInv(w, k, a) /\ ttl'[k][a] = ttl[k][a] /\ age'[a] = age[a]
          /\ a \in beat' <=> a \in beat
          /\ Find(registry'[k], a) = Find(registry[k], a)
          /\ Find(registry'[w], a) = Find(registry[w], a)
      BY <1>1, <1>2, <1>5, <1>6, <2>2, <3>1, Zenon
    <3>3. /\ Seen(w, k)' <=> Seen(w, k)
          /\ Merging(w, k)' <=> Merging(w, k)
      BY <1>1, <1>5, Zenon DEF Seen, Merging
    <3>4. QED
      BY <1>5, <3>2, <3>3, NodeInvStays, Zenon
  <2>3. QED
    BY <2>1, <2>2, Zenon
<1>10. QED
  BY <1>7, <1>8, <1>9, Zenon DEF LifeInv

(* HEARTBEAT at node w: the record gets a revision no other node has, and  *)
(* what the others hold of the agent was current until now.                *)
LEMMA BeatKeepsLife ==
  ASSUME TimedTypeOK, NEW w, Hub(w), LifeInv(w), NEW n \in Nodes, NEW b \in Agents,
         NEW v \in 1..MaxRevision, Beat(n, b, v)
  PROVE  LifeInv(w)'
<1>1. /\ n = w /\ w \in Nodes /\ status[b] = "live" /\ b \notin beat /\ v > issued
      /\ HeartbeatAccepted(registry[w], b, v)
      /\ registry' = [registry EXCEPT ![w] = RefreshHeartbeat(@, b, 0, v)] /\ issued' = v
      /\ UNCHANGED syncVars /\ UNCHANGED <<status, parsed, swept, rounds, age>>
      /\ beat' = beat \cup {b}
      /\ ttl' = [ttl EXCEPT ![w][b] = HeartbeatTTL] /\ HeartbeatTTL >= 2
  BY DEF Beat, Heartbeat, Hub, MayUse, Issue
<1>2. /\ TypeOK /\ LiveGapInv(w) /\ HomeInv(w)
      /\ \A k \in Nodes \ {w}, a \in Live : NodeInv(w, k, a)
      /\ ttl \in [Nodes -> [Agents -> Nat]]
  BY DEF TimedTypeOK, LifeInv
<1>3. Live' = Live /\ b \in Live
  BY <1>1, Zenon DEF Live
<1>4. PICK L : L = Live /\ GapInv(w, L)
  BY <1>2, Zenon DEF LiveGapInv
<1>5. PICK z \in Records : /\ z.agent = b /\ z.revision = v /\ z.endpoint # NoEndpoint
                           /\ RefreshHeartbeat(registry[w], b, 0, v) = Upsert(registry[w], z)
  <2>1. registry[w] \in SUBSET Records
    BY <1>1, <1>2, Zenon DEF TypeOK
  <2>2. \A x, y \in registry[w] : x.agent = y.agent => x = y
    BY <1>1, <1>4, Zenon DEF GapInv
  <2>3. \A x \in registry[w] : x.endpoint # NoEndpoint
    BY <1>1, <1>4, <2>1, Zenon DEF GapInv, Held
  <2>4. QED
    BY <1>1, <2>1, <2>2, <2>3, HeartbeatIsUpsert
<1>6. registry' = [registry EXCEPT ![w] = Upsert(@, z)]
  BY <1>1, <1>5, Zenon
<1>7. /\ \A k \in Nodes : k # w => registry'[k] = registry[k]
      /\ registry'[w] = Upsert(registry[w], z) /\ batch' = batch /\ pc' = pc
      /\ peer' = peer /\ todo' = todo
      /\ ttl'[w][b] = HeartbeatTTL
      /\ \A k \in Nodes, a \in Agents : k # w \/ a # b => ttl'[k][a] = ttl[k][a]
  BY <1>1, <1>2, <1>6 DEF TypeOK, syncVars
<1>8. \A a : Find(registry'[w], a) = IF a = b THEN {z} ELSE Find(registry[w], a)
  BY <1>5, <1>7, FindInUpsert
<1>9. \A k \in Nodes : z \notin registry[k] /\ z \notin batch[k]
  <2>1. issued \in Nat
    BY <1>2, Zenon DEF TypeOK
  <2>2. Held(z) => z.revision <= issued
    BY <1>4, Zenon DEF GapInv
  <2>3. QED
    BY <1>1, <1>5, <2>1, <2>2 DEF Held
<1>10. LiveGapInv(w)'
  <2>1. GapInv(w, L)'
    BY <1>1, <1>2, <1>4, <1>5, <1>6, RegistrarTakes, Zenon
  <2>2. QED
    BY <1>3, <1>4, <2>1, Zenon DEF LiveGapInv
<1>11. HomeInv(w)'
  <2>1. ASSUME NEW a \in Live'
        PROVE  Listed(w, a)' /\ ttl'[w][a] >= 1 /\ (a \in beat' => ttl'[w][a] >= 2)
    <3>1. CASE a = b
      BY <1>1, <1>7, <1>8, <3>1 DEF Listed
    <3>2. CASE a # b
      <4>1. a \in Live /\ a \in Agents
        BY <1>3, Zenon DEF Live
      <4>2. QED
        BY <1>1, <1>2, <1>7, <1>8, <3>2, <4>1 DEF HomeInv, Listed
    <3>3. QED
      BY <3>1, <3>2, Zenon
  <2>2. ASSUME NEW a \in Agents, status'[a] = "new"
        PROVE  age'[a] = 0 /\ \A k \in Nodes : \A x \in registry'[k] \cup batch'[k] : x.agent # a
    <3>1. status[a] = "new" /\ a # b
      BY <1>1, <2>2, Zenon
    <3>2. age'[a] = 0 /\ \A k \in Nodes : \A x \in registry[k] \cup batch[k] : x.agent # a
      BY <1>1, <1>2, <3>1, Zenon DEF HomeInv
    <3>3. \A x \in registry'[w] : x \in registry[w] \/ x = z
      BY <1>7, Zenon DEF Upsert
    <3>4. QED
      BY <1>1, <1>5, <1>7, <3>1, <3>2, <3>3, Zenon
  <2>3. ASSUME NEW k \in Nodes, pc'[k] = "merge"
        PROVE  /\ parsed'[k] >= 2 /\ (rounds'[k] # "none" => parsed'[k] >= 3)
               /\ \A x \in batch'[k] :
                    x \in registry'[w] /\ x.agent \in Live' /\ x.agent \in beat' =>
                      parsed'[k] >= 3
    <3>1. /\ parsed[k] >= 2 /\ (rounds[k] # "none" => parsed[k] >= 3)
          /\ \A x \in batch[k] : x \in registry[w] /\ x.agent \in Live /\ x.agent \in beat =>
               parsed[k] >= 3
      BY <1>2, <1>7, <2>3, Zenon DEF HomeInv
    <3>2. \A x \in batch[k] : x \in registry'[w] => x.agent # b /\ x \in registry[w]
      BY <1>5, <1>7, <1>9, Zenon DEF Upsert, Find
    <3>3. QED
      BY <1>1, <1>3, <1>7, <3>1, <3>2, Zenon
  <2>4. \A k \in Nodes : todo'[k] \subseteq Peers[k] /\ (pc'[k] # "idle" => peer'[k] \in Peers[k])
    BY <1>2, <1>7, Zenon DEF HomeInv
  <2>5. QED
    BY <2>1, <2>2, <2>3, <2>4, Zenon DEF HomeInv
<1>12. ASSUME NEW k \in Nodes \ {w}, NEW a \in Live'
       PROVE  NodeInv(w, k, a)'
  <2>1. /\ Seen(w, k)' <=> Seen(w, k)
        /\ Merging(w, k)' <=> Merging(w, k)
    BY <1>1, <1>7, Zenon DEF Seen, Merging
  <2>2. a \in Live /\ a \in Agents /\ NodeInv(w, k, a) /\ ttl'[k][a] = ttl[k][a]
    BY <1>2, <1>3, <1>7, Zenon DEF Live
  <2>3. Find(registry'[k], a) = Find(registry[k], a)
    BY <1>7, Zenon
  <2>4. CASE a = b
    <3>1. ~Current(w, k, a)'
      BY <1>7, <1>8, <1>9, <2>4, Zenon DEF Current
    <3>2. Listed(k, a)' <=> Listed(k, a)
      BY <2>3, Zenon DEF Listed
    <3>3. Current(w, k, a) => Lasts(k, a, 2)'
      <4>1. Current(w, k, a) => Listed(k, a)
        BY Zenon DEF Current, Listed, Find
      <4>2. QED
        BY <2>2, <3>2, <4>1, Zenon DEF NodeInv, Lasts
    <3>4. Current(w, k, a) => Kept(w, k, a)'
      BY <1>1, <2>4, <3>3, Zenon DEF Kept
    <3>5. Seen(w, k)' => Kept(w, k, a)'
      BY <1>1, <2>1, <2>2, <2>4, <3>4, Zenon DEF NodeInv, Kept
    <3>6. Coming(w, k, a) => Coming(w, k, a)'
      <4>1. SUFFICES ASSUME Coming(w, k, a) PROVE Coming(w, k, a)'
        BY Zenon
      <4>2. PICK r \in Find(batch[k], a) : r \in registry[w]
        BY <1>1, <2>4, <4>1, Zenon DEF Coming
      <4>3. PICK y \in registry[w] :
              /\ Find(registry[w], a) = {y}
              /\ \A x \in registry[k] \cup batch[k] : x.agent = a => x.revision <= y.revision
        BY <1>1, <1>2, <2>2, HomeRecord, Zenon
      <4>4. r = y
        BY <4>2, <4>3, Zenon DEF Find
      <4>5. \A x \in Find(registry[k], a) : x.revision <= r.revision
        BY <4>3, <4>4, Zenon DEF Find
      <4>6. QED
        BY <1>1, <1>7, <2>3, <2>4, <4>2, <4>5, Zenon DEF Coming
    <3>7. Merging(w, k)' => Kept(w, k, a)' \/ Coming(w, k, a)'
      BY <1>1, <2>1, <2>2, <2>4, <3>4, <3>6, Zenon DEF NodeInv, Kept
    <3>8. QED
      BY <1>1, <2>2, <3>1, <3>2, <3>5, <3>7, Zenon DEF NodeInv
  <2>5. CASE a # b
    <3>1. /\ age'[a] = age[a]
          /\ a \in beat' <=> a \in beat
          /\ Find(registry'[w], a) = Find(registry[w], a)
      BY <1>1, <1>8, <2>5, Zenon
    <3>2. Merging(w, k)' => Merging(w, k) /\ Find(batch[k], a) \subseteq Find(batch'[k], a)
      BY <1>7, <2>1, Zenon
    <3>3. QED
      BY <2>1, <2>2, <2>3, <3>1, <3>2, NodeInvStays, Zenon
  <2>6. QED
    BY <2>4, <2>5, Zenon
<1>13. QED
  BY <1>10, <1>11, <1>12, Zenon DEF LifeInv

(* An agent stops: there is one less to be concerned with.                 *)
LEMMA StopKeepsLife ==
  ASSUME TimedTypeOK, NEW w, LifeInv(w), NEW b \in Agents, StopAgent(b)
  PROVE  LifeInv(w)'
<1>1. /\ UNCHANGED <<registry, todo, pc, peer, local, remote, batch, issued, flightVars>>
      /\ UNCHANGED <<ttl, parsed, beat, swept, rounds, age>>
      /\ status' = [status EXCEPT ![b] = "stopped"]
  BY Zenon DEF StopAgent, vars, syncVars
<1>2. /\ Live' \subseteq Live
      /\ \A a \in Agents : status'[a] = "new" => status[a] = "new"
  BY <1>1, Zenon DEF Live, TimedTypeOK
<1>3. LiveGapInv(w)'
  <2>1. PICK L : L = Live /\ GapInv(w, L)
    BY Zenon DEF LifeInv, LiveGapInv
  <2>2. PICK M : M = Live'
    BY Zenon
  <2>3. GapInv(w, M)
    BY <1>2, <2>1, <2>2, GapInvForFewer, Zenon
  <2>4. GapInv(w, M)'
    BY <1>1, <2>3, Zenon DEF GapInv, Held, Has, Owed, Closed, Target, flightVars
  <2>5. QED
    BY <2>2, <2>4, Zenon DEF LiveGapInv
<1>4. HomeInv(w)'
  BY <1>1, <1>2, Zenon DEF LifeInv, HomeInv, Listed
<1>5. ASSUME NEW n \in Nodes \ {w}, NEW a \in Live' PROVE NodeInv(w, n, a)'
  <2>1. NodeInv(w, n, a)
    BY <1>2, Zenon DEF LifeInv
  <2>2. Seen(w, n)' <=> Seen(w, n)
    BY <1>1, Zenon DEF Seen
  <2>3. Merging(w, n)' <=> Merging(w, n)
    BY <1>1, Zenon DEF Merging
  <2>4. QED
    BY <1>1, <2>1, <2>2, <2>3, NodeInvStays, Zenon
<1>6. QED
  BY <1>3, <1>4, <1>5, Zenon DEF LifeInv

(* purge_expired() at node m: no record of a live agent has run out.       *)
LEMMA PurgeKeepsLife ==
  ASSUME TimedTypeOK, NEW w \in Nodes, LifeInv(w), NEW m \in Nodes, Purge(m)
  PROVE  LifeInv(w)'
<1>1. /\ TypeOK /\ LiveGapInv(w) /\ HomeInv(w)
      /\ \A k \in Nodes \ {w}, a \in Live : NodeInv(w, k, a)
  BY Zenon DEF TimedTypeOK, LifeInv
<1>2. /\ UNCHANGED <<todo, pc, peer, local, remote, batch, issued, flightVars>>
      /\ UNCHANGED <<status, beat, age, ttl, parsed, rounds>>
      /\ registry'[m] = {x \in registry[m] : ttl[m][x.agent] > 0}
      /\ \A k \in Nodes : k # m => registry'[k] = registry[k]
  BY <1>1, PurgeType, Zenon DEF Purge, syncVars, agentVars
<1>3. Live' = Live
  BY <1>2, Zenon DEF Live
<1>4. \A k \in Nodes : \A a \in Live : Listed(k, a) => ttl[k][a] > 0
  <2>1. \A k \in Nodes : \A a \in Live : a \in Agents /\ ttl[k][a] \in Nat
    BY DEF TimedTypeOK, Live
  <2>2. \A a \in Live : ttl[w][a] >= 1
    BY <1>1, Zenon DEF HomeInv
  <2>3. \A k \in Nodes \ {w} : \A a \in Live : Listed(k, a) => ttl[k][a] >= 1
    BY <1>1, Zenon DEF NodeInv
  <2>4. QED
    BY <2>1, <2>2, <2>3
<1>5. \A k \in Nodes : /\ registry'[k] \subseteq registry[k]
                      /\ \A x \in registry[k] : x.agent \in Live => x \in registry'[k]
  BY <1>2, <1>4, Zenon DEF Listed, Find
<1>6. \A k \in Nodes : \A a \in Live : Find(registry'[k], a) = Find(registry[k], a)
  BY <1>5, Zenon DEF Find
<1>7. LiveGapInv(w)'
  <2>1. PICK L : L = Live /\ GapInv(w, L)
    BY <1>1, Zenon DEF LiveGapInv
  <2>2. Owed(w, L)' = Owed(w, L)
    BY <1>5, <2>1, Zenon DEF Owed
  <2>3. \A k \in Nodes : \A y \in Owed(w, L) : y \in registry[k] => y \in registry'[k]
    BY <1>5, <2>1, Zenon DEF Owed
  <2>4. \A r \in Records : Held(r)' => Held(r)
    BY <1>2, <1>5, Zenon DEF Held
  <2>5. \A k \in Nodes : \A x, B : Closed(w, L, x, k, B) => Closed(w, L, x, k, B)'
    BY <2>2, <2>3, Zenon DEF Closed
  <2>6. \A k \in Nodes : \A v : Has(w, L, k, v) => Has(w, L, k, v)'
    BY <2>2, <2>3, Zenon DEF Has
  <2>7. (\A n \in Nodes : \A x, y \in registry[n] : x.agent = y.agent => x = y)'
    BY <1>5, <2>1, Zenon DEF GapInv
  <2>8. /\ \A r \in Records : Held(r)' =>
             r.revision > 0 /\ r.revision <= issued' /\ r.endpoint # NoEndpoint
        /\ \A r, s \in Records : Held(r)' /\ Held(s)' /\ r.revision = s.revision => r = s
    BY <1>2, <2>1, <2>4, Zenon DEF GapInv
  <2>9. \A r \in Records : Held(r)' /\ r.agent \in L =>
          \E y \in registry'[w] : y.agent = r.agent /\ r.revision <= y.revision
    BY <1>5, <2>1, <2>4, Zenon DEF GapInv
  <2>10. \A n \in Nodes : \A x \in registry'[n] : Closed(w, L, x, n, {})'
    BY <1>5, <2>1, <2>5, Zenon DEF GapInv
  <2>11. \A n \in Nodes : Has(w, L, n, local[n])' /\ Has(w, L, peer[n], remote[n])'
    <3>1. \A n \in Nodes : peer[n] \in Nodes /\ peer'[n] = peer[n]
                           /\ local'[n] = local[n] /\ remote'[n] = remote[n]
      BY <1>1, <1>2, Zenon DEF TypeOK
    <3>2. \A n \in Nodes : Has(w, L, n, local[n]) /\ Has(w, L, peer[n], remote[n])
      BY <2>1, Zenon DEF GapInv
    <3>3. QED
      BY <2>2, <2>3, <3>1, <3>2, Zenon DEF Has
  <2>12. \A n \in Nodes : \A x \in batch'[n] : Closed(w, L, x, Target(n), batch[n])'
    <3>1. \A n \in Nodes : Target(n) \in Nodes /\ Target(n)' = Target(n) /\ batch'[n] = batch[n]
      BY <1>1, <1>2, Zenon DEF TypeOK, Target
    <3>2. \A n \in Nodes : \A x \in batch[n] : Closed(w, L, x, Target(n), batch[n])
      BY <2>1, Zenon DEF GapInv
    <3>3. QED
      BY <2>2, <2>3, <3>1, <3>2, Zenon DEF Closed
  <2>13. GapInv(w, L)'
    BY <1>2, <2>1, <2>7, <2>8, <2>9, <2>10, <2>11, <2>12, Zenon DEF GapInv, flightVars
  <2>14. QED
    BY <1>3, <2>1, <2>13, Zenon DEF LiveGapInv
<1>8. HomeInv(w)'
  <2>1. \A a \in Live' : Listed(w, a)' /\ ttl'[w][a] >= 1 /\ (a \in beat' => ttl'[w][a] >= 2)
    BY <1>1, <1>2, <1>3, <1>6, Zenon DEF HomeInv, Listed
  <2>2. \A a \in Agents : status'[a] = "new" =>
          age'[a] = 0 /\ \A n \in Nodes : \A x \in registry'[n] \cup batch'[n] : x.agent # a
    BY <1>1, <1>2, <1>5, Zenon DEF HomeInv
  <2>3. \A n \in Nodes : pc'[n] = "merge" =>
          /\ parsed'[n] >= 2 /\ (rounds'[n] # "none" => parsed'[n] >= 3)
          /\ \A r \in batch'[n] :
               r \in registry'[w] /\ r.agent \in Live' /\ r.agent \in beat' => parsed'[n] >= 3
    BY <1>1, <1>2, <1>3, <1>5, Zenon DEF HomeInv
  <2>4. \A n \in Nodes : todo'[n] \subseteq Peers[n] /\ (pc'[n] # "idle" => peer'[n] \in Peers[n])
    BY <1>1, <1>2, Zenon DEF HomeInv
  <2>5. QED
    BY <2>1, <2>2, <2>3, <2>4, Zenon DEF HomeInv
<1>9. ASSUME NEW n \in Nodes \ {w}, NEW a \in Live' PROVE NodeInv(w, n, a)'
  <2>1. /\ NodeInv(w, n, a) /\ Find(registry'[n], a) = Find(registry[n], a)
        /\ Find(registry'[w], a) = Find(registry[w], a)
    BY <1>1, <1>3, <1>6, Zenon
  <2>2. Seen(w, n)' <=> Seen(w, n)
    BY <1>2, Zenon DEF Seen
  <2>3. Merging(w, n)' <=> Merging(w, n)
    BY <1>2, Zenon DEF Merging
  <2>4. QED
    BY <1>2, <2>1, <2>2, <2>3, NodeInvStays, Zenon
<1>10. QED
  BY <1>7, <1>8, <1>9, Zenon DEF LifeInv

(* A unit of time passes: every other node has visited w in it, and every  *)
(* live agent has sent a heartbeat.                                        *)
LEMMA TickKeepsLife ==
  ASSUME TimedTypeOK, NEW w, Hub(w), LifeInv(w), Tick
  PROVE  LifeInv(w)'
<1>1. /\ TypeOK /\ LiveGapInv(w) /\ HomeInv(w) /\ w \in Nodes
      /\ \A k \in Nodes \ {w}, a \in Live : NodeInv(w, k, a)
  BY Zenon DEF TimedTypeOK, LifeInv, Hub
<1>2. /\ UNCHANGED <<registry, todo, pc, peer, local, remote, batch, issued, flightVars>>
      /\ UNCHANGED status /\ beat' = {}
      /\ \A n \in Nodes : rounds'[n] = "none" /\ (Peers[n] # {} => rounds[n] = "done")
  BY Zenon DEF Tick, vars, syncVars
<1>3. /\ \A n \in Nodes, a \in Agents : ttl[n][a] \in Nat /\ ttl'[n][a] = Less(ttl[n][a])
      /\ \A n \in Nodes : parsed[n] \in Nat /\ parsed'[n] = Less(parsed[n])
      /\ \A a \in Agents : age[a] \in Nat
      /\ \A a \in Agents : age'[a] = age[a] \/ (status[a] = "live" /\ age'[a] = age[a] + 1)
  BY DEF Tick, TimedTypeOK
<1>4. \A t \in Nat : t >= 1 => Less(t) = t - 1
  BY DEF Less
<1>5. Live' = Live /\ \A a \in Live : a \in Agents /\ a \in beat
  BY <1>2, Zenon DEF Live, Tick
<1>6. LiveGapInv(w)'
  <2>1. PICK L : L = Live /\ GapInv(w, L)
    BY <1>1, Zenon DEF LiveGapInv
  <2>2. GapInv(w, L)'
    BY <1>2, <2>1, Zenon DEF GapInv, Held, Has, Owed, Closed, Target, flightVars
  <2>3. QED
    BY <1>5, <2>1, <2>2, Zenon DEF LiveGapInv
<1>7. HomeInv(w)'
  <2>1. ASSUME NEW a \in Live'
        PROVE  Listed(w, a)' /\ ttl'[w][a] >= 1 /\ a \notin beat'
    <3>1. Listed(w, a) /\ ttl[w][a] >= 2
      BY <1>1, <1>5, Zenon DEF HomeInv
    <3>2. ttl'[w][a] = ttl[w][a] - 1
      BY <1>1, <1>3, <1>4, <1>5, <3>1
    <3>3. QED
      BY <1>1, <1>2, <1>3, <1>5, <3>1, <3>2 DEF Listed
  <2>2. \A a \in Agents : status'[a] = "new" =>
          age'[a] = 0 /\ \A n \in Nodes : \A x \in registry'[n] \cup batch'[n] : x.agent # a
    BY <1>1, <1>2, <1>3, Zenon DEF HomeInv
  <2>3. ASSUME NEW n \in Nodes, pc'[n] = "merge" PROVE parsed'[n] >= 2
    <3>1. peer[n] \in Peers[n]
      BY <1>1, <1>2, <2>3, Zenon DEF HomeInv
    <3>2. rounds[n] = "done"
      BY <1>2, <3>1, Zenon
    <3>3. parsed[n] >= 3
      BY <1>1, <1>2, <2>3, <3>2, Zenon DEF HomeInv
    <3>4. QED
      BY <1>3, <1>4, <3>3
  <2>4. \A n \in Nodes : todo'[n] \subseteq Peers[n] /\ (pc'[n] # "idle" => peer'[n] \in Peers[n])
    BY <1>1, <1>2, Zenon DEF HomeInv
  <2>5. QED
    BY <1>2, <2>1, <2>2, <2>3, <2>4, Zenon DEF HomeInv
<1>8. ASSUME NEW n \in Nodes \ {w}, NEW a \in Live' PROVE NodeInv(w, n, a)'
  <2>1. NodeInv(w, n, a) /\ a \in Agents /\ a \in beat /\ ttl[n][a] \in Nat
    BY <1>1, <1>3, <1>5, Zenon
  <2>2. Seen(w, n)
    <3>1. Peers[n] # {}
      BY Zenon DEF Hub
    <3>2. QED
      BY <1>2, <3>1, Zenon DEF Seen
  <2>3. Lasts(n, a, 2) \/ (~Listed(n, a) /\ age[a] = 0)
    BY <2>1, <2>2, Zenon DEF NodeInv, Kept
  <2>4. Listed(n, a)' <=> Listed(n, a)
    BY <1>2, Zenon DEF Listed
  <2>5. Listed(n, a) => ttl[n][a] >= 2 /\ ttl'[n][a] = ttl[n][a] - 1
    BY <1>3, <1>4, <2>1, <2>3 DEF Lasts
  <2>6. Current(w, n, a)' => ttl'[n][a] >= 2
    <3>1. Current(w, n, a)' => Current(w, n, a)
      BY <1>2, Zenon DEF Current
    <3>2. Current(w, n, a) => ttl[n][a] >= 3
      BY <2>1, Zenon DEF NodeInv
    <3>3. Current(w, n, a) => Listed(n, a)
      BY Zenon DEF Current, Listed, Find
    <3>4. QED
      BY <2>1, <2>5, <3>1, <3>2, <3>3
  <2>7. age'[a] >= 2 => Listed(n, a)
    <3>1. age[a] \in Nat /\ (age'[a] = age[a] \/ age'[a] = age[a] + 1)
      BY <1>3, <2>1, Zenon
    <3>2. age'[a] >= 2 => age[a] # 0
      BY <3>1
    <3>3. QED
      BY <2>3, <3>2, Zenon DEF Lasts
  <2>8. ~Seen(w, n)' /\ ~Merging(w, n)' /\ a \notin beat'
    BY <1>2, Zenon DEF Seen, Merging
  <2>9. Listed(n, a)' => ttl'[n][a] >= 1
    BY <2>1, <2>4, <2>5
  <2>10. QED
    BY <2>4, <2>6, <2>7, <2>8, <2>9, Zenon DEF NodeInv
<1>9. QED
  BY <1>6, <1>7, <1>8, Zenon DEF LifeInv

-----------------------------------------------------------------------------
(* The cursors, in a step of a gossip thread.                              *)
LEMMA SyncKeepsLiveGapInv ==
  ASSUME TypeOK, TypeOK', NEW w \in Nodes, LiveGapInv(w), NEW m \in Nodes, SyncStep(m),
         UNCHANGED status
  PROVE  LiveGapInv(w)' /\ Live' = Live
<1>1. Live' = Live
  BY Zenon DEF Live
<1>2. PICK L : L = Live /\ GapInv(w, L)
  BY Zenon DEF LiveGapInv
<1>3. intact'
  BY <1>2, Zenon DEF GapInv, SyncStep, StartRound, Begin, Stats, Pull, Merge, MergePartial, Plan,
     Push, PushRefused, Done, LeavePeer, flightVars
<1>4. GapInv(w, L)'
  BY <1>2, <1>3, SyncKeepsGapInv, Zenon
<1>5. QED
  BY <1>1, <1>2, <1>4, Zenon DEF LiveGapInv

(* The steps of the gossip thread of m that leave every registry alone.    *)
LEMMA QuietStepKeepsLife ==
  ASSUME TimedTypeOK, TimedTypeOK', NEW w \in Nodes, LifeInv(w), NEW m \in Nodes, SyncStep(m),
         UNCHANGED <<registry, status, beat, age, ttl>>,
         \A k \in Nodes : k # m =>
           /\ todo'[k] = todo[k] /\ pc'[k] = pc[k] /\ peer'[k] = peer[k]
           /\ batch'[k] = batch[k] /\ parsed'[k] = parsed[k] /\ rounds'[k] = rounds[k],
         \A x \in batch'[m] : \E k \in Nodes : x \in registry[k] \cup batch[k],
         todo'[m] \subseteq Peers[m], pc'[m] # "idle" => peer'[m] \in Peers[m],
         pc'[m] = "merge" => parsed'[m] >= 3,
         m # w => \A a \in Live :
                    /\ Seen(w, m)' => Kept(w, m, a)
                    /\ Merging(w, m)' => Kept(w, m, a) \/ Coming(w, m, a)'
  PROVE  LifeInv(w)'
<1>1. /\ TypeOK /\ LiveGapInv(w) /\ HomeInv(w)
      /\ \A k \in Nodes \ {w}, a \in Live : NodeInv(w, k, a)
  BY Zenon DEF TimedTypeOK, LifeInv
<1>2. LiveGapInv(w)' /\ Live' = Live
  BY <1>1, SyncKeepsLiveGapInv, Zenon DEF TimedTypeOK
<1>3. HomeInv(w)'
  <2>1. \A a \in Live' : Listed(w, a)' /\ ttl'[w][a] >= 1 /\ (a \in beat' => ttl'[w][a] >= 2)
    BY <1>1, <1>2, Zenon DEF HomeInv, Listed
  <2>2. \A a \in Agents : status'[a] = "new" =>
          age'[a] = 0 /\ \A n \in Nodes : \A x \in registry'[n] \cup batch'[n] : x.agent # a
    BY <1>1 DEF HomeInv
  <2>3. ASSUME NEW n \in Nodes, pc'[n] = "merge"
        PROVE  /\ parsed'[n] >= 2 /\ (rounds'[n] # "none" => parsed'[n] >= 3)
               /\ \A r \in batch'[n] :
                    r \in registry'[w] /\ r.agent \in Live' /\ r.agent \in beat' =>
                      parsed'[n] >= 3
    <3>1. CASE n = m
      <4>1. parsed'[m] >= 3
        BY <2>3, <3>1, Zenon
      <4>2. parsed'[m] \in Nat
        BY DEF TimedTypeOK
      <4>3. QED
        BY <3>1, <4>1, <4>2
    <3>2. CASE n # m
      BY <1>1, <1>2, <2>3, <3>2, Zenon DEF HomeInv
    <3>3. QED
      BY <3>1, <3>2, Zenon
  <2>4. \A n \in Nodes : todo'[n] \subseteq Peers[n] /\ (pc'[n] # "idle" => peer'[n] \in Peers[n])
    BY <1>1, Zenon DEF HomeInv
  <2>5. QED
    BY <2>1, <2>2, <2>3, <2>4, Zenon DEF HomeInv
<1>4. ASSUME NEW n \in Nodes \ {w}, NEW a \in Live' PROVE NodeInv(w, n, a)'
  <2>1. NodeInv(w, n, a)
    BY <1>1, <1>2, Zenon
  <2>2. CASE n # m
    <3>1. (Seen(w, n)' <=> Seen(w, n)) /\ (Merging(w, n)' <=> Merging(w, n))
      BY <2>2, Zenon DEF Seen, Merging
    <3>2. QED
      BY <2>1, <2>2, <3>1, NodeInvStays, Zenon
  <2>3. CASE n = m
    <3>1. (Listed(n, a)' <=> Listed(n, a)) /\ (Current(w, n, a)' <=> Current(w, n, a))
      BY Zenon DEF Listed, Current
    <3>2. Kept(w, n, a)' <=> Kept(w, n, a)
      BY <3>1, Zenon DEF Kept, Lasts
    <3>3. /\ Seen(w, n)' => Kept(w, n, a)
          /\ Merging(w, n)' => Kept(w, n, a) \/ Coming(w, n, a)'
      BY <1>2, <2>3, Zenon
    <3>4. QED
      BY <2>1, <3>1, <3>2, <3>3, Zenon DEF NodeInv
  <2>4. QED
    BY <2>2, <2>3, Zenon
<1>5. QED
  BY <1>2, <1>3, <1>4, Zenon DEF LifeInv

(* A record in flight is delivered to node t, which gives it d.            *)
LEMMA DeliveryKeepsLife ==
  ASSUME TimedTypeOK, TimedTypeOK', NEW w \in Nodes, LifeInv(w), NEW m \in Nodes,
         SyncStep(m), NEW t \in Nodes, Deliver(m, t), pc[m] = "merge" => t = m,
         NEW d \in Nat, ttl' = Renewed(m, t, d), d >= 2,
         t # w => \A r \in batch[m] :
                    r \in registry[w] /\ r.agent \in Live /\ r.agent \in beat => d >= 3,
         UNCHANGED <<todo, pc, peer, status, beat, age, parsed, rounds>>
  PROVE  LifeInv(w)'
<1>1. /\ TypeOK /\ LiveGapInv(w) /\ HomeInv(w)
      /\ \A k \in Nodes \ {w}, a \in Live : NodeInv(w, k, a)
      /\ ttl \in [Nodes -> [Agents -> Nat]]
  BY DEF TimedTypeOK, LifeInv
<1>2. LiveGapInv(w)' /\ Live' = Live
  BY <1>1, SyncKeepsLiveGapInv, Zenon DEF TimedTypeOK
<1>3. PICK r \in batch[m] :
        /\ registry' = IF UpsertAccepted(registry[t], r)
                         THEN [registry EXCEPT ![t] = Upsert(@, r)] ELSE registry
        /\ batch' = [batch EXCEPT ![m] = @ \ {r}]
  BY Zenon DEF Deliver, HandOver, Offer, LowestOf
<1> DEFINE acc == UpsertAccepted(registry[t], r)
<1>4. /\ batch'[m] = batch[m] \ {r}
      /\ \A k \in Nodes : k # m => batch'[k] = batch[k]
  BY <1>1, <1>3, Zenon DEF TypeOK
<1>5. \A k \in Nodes, a \in Agents :
        ttl'[k][a] = IF k = t /\ a = r.agent /\ acc THEN d ELSE ttl[k][a]
  <2>1. ASSUME NEW k \in Nodes, NEW a \in Agents
        PROVE  ttl'[k][a] = IF k = t /\ a = r.agent /\ acc THEN d ELSE ttl[k][a]
    <3>1. ttl'[k][a] =
            IF k = t /\ \E x \in batch[m] \ batch'[m] :
                          x.agent = a /\ UpsertAccepted(registry[t], x)
              THEN d ELSE ttl[k][a]
      BY <1>1, RenewedIs
    <3>2. batch[m] \ batch'[m] = {r}
      BY <1>4, Zenon
    <3>3. QED
      BY <3>1, <3>2, Zenon
  <2>2. QED
    BY <2>1, Zenon
<1>6. PICK L : L = Live /\ GapInv(w, L)
  BY <1>1, Zenon DEF LiveGapInv
<1>7. /\ \A k \in Nodes : k # t => registry'[k] = registry[k]
      /\ acc => /\ registry'[t] = {x \in registry[t] : x.agent # r.agent} \cup {r}
                /\ \A x \in registry[t] : x.agent = r.agent => x.revision <= r.revision
      /\ ~acc => /\ registry'[t] = registry[t]
                 /\ \E x \in registry[t] : x.agent = r.agent /\ x.revision > r.revision
      /\ \A k \in Nodes : \A y \in Owed(w, L) : y \in registry[k] => y \in registry'[k]
      /\ Owed(w, L)' = Owed(w, L)
  <2>1. TypeOK /\ GapInv(w, L)
    BY <1>1, <1>6, Zenon
  <2>2. registry' = IF UpsertAccepted(registry[t], r)
                      THEN [registry EXCEPT ![t] = Upsert(@, r)] ELSE registry
    BY <1>3, Zenon
  <2>3. QED
    BY <2>1, <2>2, Delivery, Zenon
<1> HIDE DEF acc
<1>8. \A a \in Live : Find(registry'[w], a) = Find(registry[w], a)
  BY <1>6, <1>7, Zenon DEF Owed, Find
<1>9. \A k \in Nodes : registry'[k] \subseteq registry[k] \cup {r} /\ batch'[k] \subseteq batch[k]
  BY <1>4, <1>7, Zenon
<1>10. HomeInv(w)'
  <2>1. ASSUME NEW a \in Live'
        PROVE  Listed(w, a)' /\ ttl'[w][a] >= 1 /\ (a \in beat' => ttl'[w][a] >= 2)
    <3>1. a \in Live /\ a \in Agents
      BY <1>2, Zenon DEF Live
    <3>2. Listed(w, a)'
      BY <1>1, <1>8, <3>1, Zenon DEF HomeInv, Listed
    <3>3. ttl'[w][a] = d \/ ttl'[w][a] = ttl[w][a]
      BY <1>5, <3>1, Zenon
    <3>4. QED
      BY <1>1, <3>1, <3>2, <3>3 DEF HomeInv
  <2>2. \A a \in Agents : status'[a] = "new" =>
          age'[a] = 0 /\ \A n \in Nodes : \A x \in registry'[n] \cup batch'[n] : x.agent # a
    BY <1>1, <1>9 DEF HomeInv
  <2>3. ASSUME NEW n \in Nodes, pc'[n] = "merge"
        PROVE  /\ parsed'[n] >= 2 /\ (rounds'[n] # "none" => parsed'[n] >= 3)
               /\ \A x \in batch'[n] :
                    x \in registry'[w] /\ x.agent \in Live' /\ x.agent \in beat' =>
                      parsed'[n] >= 3
    <3>1. \A x \in registry'[w] : x.agent \in Live => x \in registry[w]
      BY <1>8, Zenon DEF Find
    <3>2. QED
      BY <1>1, <1>2, <1>9, <2>3, <3>1, Zenon DEF HomeInv
  <2>4. \A n \in Nodes : todo'[n] \subseteq Peers[n] /\ (pc'[n] # "idle" => peer'[n] \in Peers[n])
    BY <1>1, Zenon DEF HomeInv
  <2>5. QED
    BY <2>1, <2>2, <2>3, <2>4, Zenon DEF HomeInv
<1>11. ASSUME NEW n \in Nodes \ {w}, NEW a \in Live' PROVE NodeInv(w, n, a)'
  <2>1. a \in Live /\ a \in Agents /\ NodeInv(w, n, a)
    BY <1>1, <1>2, Zenon DEF Live
  <2>2. (Seen(w, n)' <=> Seen(w, n)) /\ (Merging(w, n)' <=> Merging(w, n))
    BY Zenon DEF Seen, Merging
  <2>3. Find(registry'[w], a) = Find(registry[w], a)
    BY <1>8, <2>1, Zenon
  <2>4. Current(w, n, a) => Current(w, n, a)'
    <3>1. SUFFICES ASSUME NEW y \in Find(registry[w], a), y \in registry[n]
                   PROVE  y \in registry'[n]
      BY <2>3, Zenon DEF Current
    <3>2. y \in Owed(w, L)
      BY <1>6, <2>1, Zenon DEF Owed, Find
    <3>3. QED
      BY <1>7, <3>1, <3>2, Zenon
  <2>5. PICK h \in registry[w] :
          /\ Find(registry[w], a) = {h}
          /\ \A x \in registry[n] : x.agent = a => x.revision <= h.revision
    <3>1. PICK h \in registry[w] :
            /\ h \in Records /\ h.agent = a /\ Find(registry[w], a) = {h}
            /\ \A k \in Nodes : \A x \in registry[k] \cup batch[k] :
                 x.agent = a => x.revision <= h.revision
      BY <1>1, <2>1, HomeRecord, Zenon
    <3>2. QED
      BY <3>1, Zenon
  <2>6. CASE n = t /\ a = r.agent /\ acc
    <3>1. ttl'[n][a] = d /\ Find(registry'[n], a) = {r}
      BY <1>5, <1>7, <2>1, <2>6, Zenon DEF Find
    <3>2. Listed(n, a)' /\ Lasts(n, a, 2)'
      BY <3>1, Zenon DEF Listed, Lasts
    <3>3. Current(w, n, a)' => r \in registry[w]
      BY <2>3, <3>1, Zenon DEF Current, Find
    <3>4. Current(w, n, a)' /\ a \in beat' => d >= 3
      BY <2>1, <2>6, <3>3, Zenon
    <3>5. Seen(w, n)' => Kept(w, n, a)'
      BY <2>1, <2>2, <2>4, <3>2, Zenon DEF NodeInv, Kept
    <3>6. Coming(w, n, a) /\ a \notin beat => Current(w, n, a)' \/ Coming(w, n, a)'
      <4>1. SUFFICES ASSUME NEW x \in Find(batch[n], a), x \in registry[w], a \notin beat
                     PROVE  Current(w, n, a)' \/ Coming(w, n, a)'
        BY Zenon DEF Coming
      <4>2. x \in Find(registry'[w], a) /\ x \in registry'[w] /\ x.agent = a
        BY <2>3, <4>1, Zenon DEF Find
      <4>3. CASE x = r
        BY <3>1, <4>2, <4>3, Zenon DEF Current, Find
      <4>4. CASE x # r
        <5>1. x \in Find(batch'[n], a)
          BY <1>4, <4>4, Zenon DEF Find
        <5>2. QED
          BY <4>1, <4>2, <5>1, Zenon DEF Coming
      <4>5. QED
        BY <4>3, <4>4, Zenon
    <3>7. Merging(w, n)' => Kept(w, n, a)' \/ Coming(w, n, a)'
      BY <2>1, <2>2, <2>4, <3>2, <3>6, Zenon DEF NodeInv, Kept
    <3>8. QED
      BY <3>1, <3>2, <3>4, <3>5, <3>7 DEF NodeInv
  <2>7. CASE ~(n = t /\ a = r.agent /\ acc)
    <3>1. ttl'[n][a] = ttl[n][a] /\ Find(registry'[n], a) = Find(registry[n], a)
      BY <1>5, <1>7, <2>1, <2>7 DEF Find
    <3>2. CASE ~Merging(w, n) \/ n # m \/ a # r.agent
      <4>1. n # m \/ a # r.agent => Find(batch[n], a) \subseteq Find(batch'[n], a)
        BY <1>4, Zenon DEF Find
      <4>2. QED
        BY <2>1, <2>2, <2>3, <3>1, <3>2, <4>1, NodeInvStays, Zenon
    <3>3. CASE Merging(w, n) /\ n = m /\ a = r.agent
      <4>1. PICK x \in registry[n] : x.agent = a /\ x.revision > r.revision
        BY <1>7, <2>7, <3>3, Zenon DEF Merging
      <4>2. r \in Records /\ x \in Records
        BY <1>1, <1>3, Zenon DEF TypeOK
      <4>3. (Listed(n, a)' <=> Listed(n, a)) /\ (Current(w, n, a)' <=> Current(w, n, a))
        BY <2>3, <3>1, Zenon DEF Listed, Current, Find
      <4>4. Kept(w, n, a)' <=> Kept(w, n, a)
        BY <3>1, <4>3, Zenon DEF Kept, Lasts
      <4>5. Coming(w, n, a) => Coming(w, n, a)'
        <5>1. SUFFICES ASSUME Coming(w, n, a) PROVE Coming(w, n, a)'
          BY Zenon
        <5>2. PICK z \in Find(batch[n], a) :
                IF a \in beat THEN \A y \in Find(registry[n], a) : y.revision <= z.revision
                              ELSE z \in registry[w]
          BY <5>1, Zenon DEF Coming
        <5>3. x.revision <= z.revision
          <6>1. CASE a \in beat
            BY <4>1, <5>2, <6>1, Zenon DEF Find
          <6>2. CASE a \notin beat
            <7>1. z = h
              BY <2>5, <5>2, <6>2, Zenon DEF Find
            <7>2. QED
              BY <2>5, <4>1, <7>1, Zenon
          <6>3. QED
            BY <6>1, <6>2, Zenon
        <5>4. z # r
          <6>1. r.revision \in Nat /\ x.revision \in Nat
            BY <4>1, <4>2 DEF Records
          <6>2. QED
            BY <4>1, <5>3, <6>1
        <5>5. z \in Find(batch'[n], a) /\ (z \in registry[w] => z \in registry'[w])
          BY <1>4, <2>3, <5>4, Zenon DEF Find
        <5>6. QED
          BY <3>1, <5>2, <5>5, Zenon DEF Coming
      <4>6. QED
        BY <2>1, <2>2, <3>1, <4>3, <4>4, <4>5, Zenon DEF NodeInv
    <3>4. QED
      BY <3>2, <3>3, Zenon
  <2>8. QED
    BY <2>6, <2>7, Zenon
<1>12. QED
  BY <1>2, <1>10, <1>11, Zenon DEF LifeInv

(* A round begins, with w among the peers to visit.                        *)
LEMMA StartRoundKeepsLife ==
  ASSUME TimedTypeOK, TimedTypeOK', NEW w, Hub(w), LifeInv(w), NEW m \in Nodes,
         TimedStartRound(m)
  PROVE  LifeInv(w)'
<1>1. /\ SyncStep(m) /\ UNCHANGED <<registry, pc, peer, batch>>
      /\ UNCHANGED <<status, beat, age, ttl, parsed>>
  BY Zenon DEF TimedStartRound, StartRound, SyncStep, agentVars
<1>2. \A k \in Nodes : k # m => todo'[k] = todo[k] /\ rounds'[k] = rounds[k]
  <2>1. /\ todo \in [Nodes -> SUBSET Nodes] /\ rounds \in [Nodes -> {"none", "begun", "done"}]
        /\ \E S : todo' = [todo EXCEPT ![m] = S]
        /\ \E s : rounds' = [rounds EXCEPT ![m] = s]
    BY Zenon DEF TimedStartRound, StartRound, TimedTypeOK, TypeOK
  <2>2. QED
    BY <2>1, Zenon
<1>3. pc[m] = "idle" /\ todo'[m] \in SUBSET Peers[m] /\ (m # w => w \in todo'[m])
  BY DEF TimedStartRound, StartRound, TimedTypeOK, TypeOK, Hub
<1>4. rounds'[m] = "done" => rounds[m] = "done"
  BY Zenon DEF TimedStartRound, TimedTypeOK
<1>5. m # w => (Seen(w, m)' => Seen(w, m)) /\ ~Merging(w, m)'
  BY <1>1, <1>3, <1>4, Zenon DEF Seen, Merging
<1>6. m # w => \A a \in Live : Seen(w, m) => Kept(w, m, a)
  BY Zenon DEF LifeInv, NodeInv
<1>7. w \in Nodes /\ batch[m] = {}
  BY <1>3, Zenon DEF Hub, TimedTypeOK, TypeOK
<1>8. QED
  BY <1>1, <1>2, <1>3, <1>5, <1>6, <1>7, QuietStepKeepsLife, Zenon

(* It turns to a peer and asks for its highest revision.                   *)
LEMMA BeginKeepsLife ==
  ASSUME TimedTypeOK, TimedTypeOK', NEW w, Hub(w), LifeInv(w), NEW m \in Nodes,
         UNCHANGED timeVars, (\E p \in Nodes : Begin(m, p)) \/ Stats(m)
  PROVE  LifeInv(w)'
<1>1. /\ SyncStep(m) /\ UNCHANGED <<registry, todo, batch>>
      /\ UNCHANGED <<status, beat, age, ttl, parsed, rounds>>
  BY Zenon DEF Begin, Stats, SyncStep, timeVars, agentVars
<1>2. \A k \in Nodes : k # m => pc'[k] = pc[k] /\ peer'[k] = peer[k]
  BY DEF Begin, Stats, TimedTypeOK, TypeOK
<1>3. /\ \A k \in Nodes : todo[k] \subseteq Peers[k] /\ (pc[k] # "idle" => peer[k] \in Peers[k])
  BY Zenon DEF LifeInv, HomeInv
<1>4. pc'[m] \in {"stats", "pull"} /\ peer'[m] \in Peers[m]
  <2>1. pc \in [Nodes -> {"idle", "stats", "pull", "merge", "push"}] /\ peer \in [Nodes -> Nodes]
    BY Zenon DEF TimedTypeOK, TypeOK
  <2>2. CASE Stats(m)
    <3>1. pc[m] = "stats" /\ pc' = [pc EXCEPT ![m] = "pull"] /\ peer' = peer
      BY <2>2, Zenon DEF Stats
    <3>2. peer[m] \in Peers[m]
      BY <1>3, <3>1
    <3>3. QED
      BY <2>1, <3>1, <3>2
  <2>3. CASE \E p \in Nodes : Begin(m, p)
    <3>1. PICK p \in todo[m] : pc' = [pc EXCEPT ![m] = "stats"] /\ peer' = [peer EXCEPT ![m] = p]
      BY <2>3, Zenon DEF Begin
    <3>2. QED
      BY <1>3, <2>1, <3>1
  <2>4. QED
    BY <2>2, <2>3, Zenon
<1>5. (Seen(w, m)' => Seen(w, m)) /\ ~Merging(w, m)'
  BY <1>1, <1>4, Zenon DEF Seen, Merging
<1>6. m # w => \A a \in Live : Seen(w, m) => Kept(w, m, a)
  BY Zenon DEF LifeInv, NodeInv
<1>7. w \in Nodes
  BY Zenon DEF Hub
<1>8. QED
  BY <1>1, <1>2, <1>3, <1>4, <1>5, <1>6, <1>7, QuietStepKeepsLife, Zenon

(* It pulls: whatever w has of a live agent is pulled or already there.    *)
LEMMA PullKeepsLife ==
  ASSUME TimedTypeOK, TimedTypeOK', NEW w, Hub(w), LifeInv(w), NEW m \in Nodes, TimedPull(m)
  PROVE  LifeInv(w)'
<1>1. /\ SyncStep(m) /\ UNCHANGED <<registry, todo, peer, local>>
      /\ UNCHANGED <<status, beat, age, ttl, rounds>>
  BY Zenon DEF TimedPull, Pull, SyncStep, agentVars
<1>2. /\ TypeOK /\ LiveGapInv(w) /\ HomeInv(w) /\ w \in Nodes
      /\ \A k \in Nodes \ {w}, a \in Live : NodeInv(w, k, a)
  BY Zenon DEF TimedTypeOK, LifeInv, Hub
<1>3. /\ pc[m] = "pull" /\ pc'[m] = "merge" /\ parsed'[m] >= 3
      /\ \A k \in Nodes : k # m => /\ pc'[k] = pc[k] /\ parsed'[k] = parsed[k]
                                  /\ batch'[k] = batch[k]
  <2>1. /\ pc \in [Nodes -> {"idle", "stats", "pull", "merge", "push"}]
        /\ batch \in [Nodes -> SUBSET Records] /\ parsed \in [Nodes -> 0..PullTTL]
        /\ PullTTL >= 3
    BY Zenon DEF TimedTypeOK, TypeOK, Hub
  <2>2. /\ pc[m] = "pull" /\ pc' = [pc EXCEPT ![m] = "merge"]
        /\ parsed' = [parsed EXCEPT ![m] = PullTTL]
        /\ \E S : batch' = [batch EXCEPT ![m] = S]
    BY Zenon DEF TimedPull, Pull
  <2>3. QED
    BY <2>1, <2>2, Zenon
<1>4. batch'[m] = {x \in registry[peer[m]] : x.revision > local[m]}
  <2>1. PICK S \in EntriesAfterRevision(registry[peer[m]], local[m], MaxEntries) :
          batch' = [batch EXCEPT ![m] = S]
    BY Zenon DEF TimedPull, Pull
  <2>2. batch'[m] = S
    BY <1>2, <2>1, Zenon DEF TypeOK
  <2>3. registry[peer[m]] \in SUBSET Records
    BY <1>2, Zenon DEF TypeOK
  <2>4. \A x, y \in registry[peer[m]] : x.agent = y.agent => x = y
    BY <1>2, Zenon DEF LiveGapInv, GapInv, TypeOK
  <2>5. S = {x \in registry[peer[m]] : x.revision > local[m]}
    BY <2>1, <2>3, <2>4, AnswerIsWhole, Zenon
  <2>6. QED
    BY <2>2, <2>5, Zenon
<1>5. peer[m] \in Nodes /\ peer[m] \in Peers[m] /\ todo[m] \subseteq Peers[m]
  BY <1>2, <1>3, Zenon DEF TypeOK, HomeInv
<1>6. Seen(w, m)' => Seen(w, m)
  BY <1>1, <1>3, Zenon DEF Seen
<1>7. m # w => \A a \in Live : Seen(w, m) => Kept(w, m, a)
  BY <1>2, Zenon DEF NodeInv
<1>8. ASSUME m # w, NEW a \in Live, Merging(w, m)'
      PROVE  Kept(w, m, a) \/ Coming(w, m, a)'
  <2>1. PICK y \in registry[w] :
          /\ y \in Records /\ y.agent = a /\ Find(registry[w], a) = {y}
          /\ \A n \in Nodes : \A x \in registry[n] \cup batch[n] :
               x.agent = a => x.revision <= y.revision
    BY <1>2, HomeRecord, Zenon
  <2>2. peer[m] = w /\ local[m] \in Nat /\ y.revision \in Nat
    <3>1. peer[m] = w
      BY <1>1, <1>8, Zenon DEF Merging
    <3>2. local[m] \in Nat
      BY <1>2 DEF TypeOK
    <3>3. y.revision \in Nat
      BY <2>1 DEF Records
    <3>4. QED
      BY <3>1, <3>2, <3>3, Zenon
  <2>3. CASE y.revision > local[m]
    <3>1. y \in Find(batch'[m], a) /\ y \in registry'[w]
      BY <1>1, <1>4, <2>1, <2>2, <2>3, Zenon DEF Find
    <3>2. \A x \in Find(registry'[m], a) : x.revision <= y.revision
      BY <1>1, <2>1, Zenon DEF Find
    <3>3. QED
      BY <3>1, <3>2, Zenon DEF Coming
  <2>4. CASE y.revision <= local[m]
    <3>1. PICK L : L = Live /\ GapInv(w, L)
      BY <1>2, Zenon DEF LiveGapInv
    <3>2. Has(w, L, m, local[m])
      BY <3>1, Zenon DEF GapInv
    <3>3. y \in registry[m]
      BY <2>1, <2>4, <3>1, <3>2, Zenon DEF Has, Owed
    <3>4. Current(w, m, a) /\ Listed(m, a)
      BY <2>1, <3>3, Zenon DEF Current, Listed, Find
    <3>5. NodeInv(w, m, a)
      BY <1>2, <1>8, Zenon
    <3>6. Lasts(m, a, 2)
      BY <3>4, <3>5, Zenon DEF NodeInv, Lasts
    <3>7. QED
      BY <3>4, <3>6, Zenon DEF Kept
  <2>5. QED
    BY <2>2, <2>3, <2>4
<1>9. \A x \in batch'[m] : \E k \in Nodes : x \in registry[k] \cup batch[k]
  BY <1>4, <1>5, Zenon
<1>10. m # w => \A a \in Live :
                  /\ Seen(w, m)' => Kept(w, m, a)
                  /\ Merging(w, m)' => Kept(w, m, a) \/ Coming(w, m, a)'
  BY <1>6, <1>7, <1>8, Zenon
<1>11. QED
  BY <1>1, <1>2, <1>3, <1>5, <1>9, <1>10, QuietStepKeepsLife, Zenon

(* It plans what to push: everything pulled has been merged, and so it has *)
(* seen w if it pulled from there.                                         *)
LEMMA PlanKeepsLife ==
  ASSUME TimedTypeOK, TimedTypeOK', NEW w, Hub(w), LifeInv(w), NEW m \in Nodes,
         UNCHANGED timeVars, Plan(m)
  PROVE  LifeInv(w)'
<1>1. /\ SyncStep(m) /\ UNCHANGED <<registry, todo, peer>>
      /\ UNCHANGED <<status, beat, age, ttl, parsed, rounds>>
  BY Zenon DEF Plan, SyncStep, timeVars, agentVars
<1>2. /\ TypeOK /\ HomeInv(w) /\ w \in Nodes
      /\ \A k \in Nodes \ {w}, a \in Live : NodeInv(w, k, a)
  BY Zenon DEF TimedTypeOK, LifeInv, Hub
<1>3. /\ pc[m] = "merge" /\ batch[m] = {} /\ pc'[m] = "push"
      /\ \A k \in Nodes : k # m => pc'[k] = pc[k] /\ batch'[k] = batch[k]
  BY <1>2, Zenon DEF Plan, TypeOK
<1>4. \A x \in batch'[m] : x \in registry[m]
  BY <1>2, EntriesAreLowest DEF Plan, TypeOK, LowestPart
<1>5. peer[m] \in Peers[m] /\ todo[m] \subseteq Peers[m]
  BY <1>2, <1>3, Zenon DEF HomeInv
<1>6. (Seen(w, m)' => Seen(w, m) \/ Merging(w, m)) /\ ~Merging(w, m)'
  BY <1>1, <1>3, Zenon DEF Seen, Merging
<1>7. \A a : ~Coming(w, m, a)
  BY <1>3, Zenon DEF Coming, Find
<1>8. m # w => \A a \in Live : Seen(w, m) \/ Merging(w, m) => Kept(w, m, a)
  BY <1>2, <1>7, Zenon DEF NodeInv
<1>9. QED
  BY <1>1, <1>2, <1>3, <1>4, <1>5, <1>6, <1>8, QuietStepKeepsLife, Zenon

(* It is through with a peer.                                              *)
LEMMA DoneKeepsLife ==
  ASSUME TimedTypeOK, TimedTypeOK', NEW w, Hub(w), LifeInv(w), NEW m \in Nodes, TimedDone(m)
  PROVE  LifeInv(w)'
<1>1. SyncStep(m) /\ UNCHANGED <<registry, status, beat, age, ttl>>
  BY Zenon DEF TimedDone, Done, LeavePeer, SyncStep, agentVars
<1>2. /\ TypeOK /\ HomeInv(w) /\ w \in Nodes
      /\ \A k \in Nodes \ {w}, a \in Live : NodeInv(w, k, a)
  BY Zenon DEF TimedTypeOK, LifeInv, Hub
<1>3. /\ pc[m] = "push" /\ batch'[m] = {} /\ pc'[m] = "idle" /\ todo'[m] = todo[m] \ {peer[m]}
      /\ \A k \in Nodes : k # m => /\ pc'[k] = pc[k] /\ batch'[k] = batch[k]
                                  /\ todo'[k] = todo[k] /\ peer'[k] = peer[k]
  BY <1>2, Zenon DEF TimedDone, Done, LeavePeer, TypeOK
<1>4. \A k \in Nodes : k # m => parsed'[k] = parsed[k] /\ rounds'[k] = rounds[k]
  BY Zenon DEF TimedDone, TimedTypeOK
<1>5. /\ rounds'[m] = rounds[m] \/ (rounds'[m] = "done" /\ rounds[m] = "begun" /\ todo'[m] = {})
  BY Zenon DEF TimedDone, TimedTypeOK
<1>6. (Seen(w, m)' => Seen(w, m)) /\ ~Merging(w, m)'
  BY <1>3, <1>5, Zenon DEF Seen, Merging
<1>7. m # w => \A a \in Live : Seen(w, m) => Kept(w, m, a)
  BY <1>2, Zenon DEF NodeInv
<1>8. todo'[m] \subseteq Peers[m]
  BY <1>2, <1>3, Zenon DEF HomeInv
<1>9. QED
  BY <1>1, <1>2, <1>3, <1>4, <1>6, <1>7, <1>8, QuietStepKeepsLife, Zenon

(* It merges a record, with the time it read at the pull.                  *)
LEMMA MergeKeepsLife ==
  ASSUME TimedTypeOK, TimedTypeOK', NEW w, Hub(w), LifeInv(w), NEW m \in Nodes, TimedMerge(m)
  PROVE  LifeInv(w)'
<1>1. /\ SyncStep(m) /\ Deliver(m, m) /\ pc[m] = "merge" /\ ttl' = Renewed(m, m, parsed[m])
      /\ UNCHANGED <<todo, pc, peer, status, beat, age, parsed, rounds>>
  BY Zenon DEF TimedMerge, Merge, SyncStep, agentVars
<1>2. /\ parsed[m] >= 2
      /\ \A r \in batch[m] : r \in registry[w] /\ r.agent \in Live /\ r.agent \in beat =>
           parsed[m] >= 3
  BY <1>1, Zenon DEF LifeInv, HomeInv
<1>3. parsed[m] \in Nat /\ w \in Nodes
  BY LifecycleAssumption DEF TimedTypeOK, Hub
<1>4. QED
  BY <1>1, <1>2, <1>3, DeliveryKeepsLife, Zenon

(* It pushes one, which gets the time of a heartbeat at the peer.          *)
LEMMA PushKeepsLife ==
  ASSUME TimedTypeOK, TimedTypeOK', NEW w, Hub(w), LifeInv(w), NEW m \in Nodes, TimedPush(m)
  PROVE  LifeInv(w)'
<1>1. /\ SyncStep(m) /\ Deliver(m, peer[m]) /\ pc[m] = "push"
      /\ ttl' = Renewed(m, peer[m], HeartbeatTTL)
      /\ UNCHANGED <<todo, pc, peer, status, beat, age, parsed, rounds>>
  BY Zenon DEF TimedPush, Push, Deliver, SyncStep, agentVars
<1>2. peer[m] \in Peers[m] /\ peer[m] \in Nodes
  BY <1>1, Zenon DEF LifeInv, HomeInv, TimedTypeOK, TypeOK
<1>3. HeartbeatTTL >= 2 /\ (peer[m] # w => HeartbeatTTL >= 3)
  BY <1>2, LifecycleAssumption DEF Hub
<1>4. HeartbeatTTL \in Nat /\ w \in Nodes
  BY LifecycleAssumption, Zenon DEF Hub
<1>5. QED
  BY <1>1, <1>2, <1>3, <1>4, DeliveryKeepsLife, Zenon

(* No step breaks the invariant.                                           *)
LEMMA StepKeepsLife ==
  ASSUME TimedTypeOK, TimedTypeOK', NEW w, Hub(w), LifeInv(w), [TimedNext]_timedVars
  PROVE  LifeInv(w)'
<1>1. CASE \E n \in Nodes, r \in Registrations : Register(n, r)
  BY <1>1, RegisterKeepsLife, Zenon
<1>2. CASE \E n \in Nodes, a \in Agents, v \in 1..MaxRevision : Beat(n, a, v)
  BY <1>2, BeatKeepsLife, Zenon
<1>3. CASE \E a \in Agents : StopAgent(a)
  BY <1>3, StopKeepsLife, Zenon
<1>4. ASSUME NEW n \in Nodes, Purge(n)
      PROVE  LifeInv(w)'
  BY <1>4, PurgeKeepsLife, Zenon DEF Hub
<1>5. ASSUME NEW n \in Nodes, TimedSyncStep(n)
      PROVE  LifeInv(w)'
  BY <1>5, StartRoundKeepsLife, BeginKeepsLife, PullKeepsLife, MergeKeepsLife, PlanKeepsLife,
     PushKeepsLife, DoneKeepsLife, Zenon DEF TimedSyncStep, Untimed
<1>6. CASE Tick
  BY <1>6, TickKeepsLife, Zenon
<1>7. CASE UNCHANGED timedVars
  <2>1. /\ UNCHANGED <<registry, todo, pc, peer, local, remote, batch, issued, flightVars>>
        /\ UNCHANGED <<status, beat, age, ttl, parsed, swept, rounds>>
    BY <1>7, Zenon DEF timedVars, timeVars, agentVars, vars, syncVars
  <2>2. Live' = Live /\ HomeInv(w)'
    BY <2>1, Zenon DEF LifeInv, HomeInv, Live, Listed, Find
  <2>3. LiveGapInv(w)'
    <3>1. PICK L : L = Live /\ GapInv(w, L)
      BY Zenon DEF LifeInv, LiveGapInv
    <3>2. GapInv(w, L)'
      BY <2>1, <3>1, Zenon DEF GapInv, Has, Owed, Closed, Held, Target, flightVars
    <3>3. QED
      BY <2>2, <3>1, <3>2, Zenon DEF LiveGapInv
  <2>4. ASSUME NEW n \in Nodes \ {w}, NEW a \in Live
        PROVE  NodeInv(w, n, a)'
    <3>1. NodeInv(w, n, a)
      BY <2>4, Zenon DEF LifeInv
    <3>2. (Seen(w, n)' => Seen(w, n)) /\ (Merging(w, n)' => Merging(w, n))
      BY <2>1, Zenon DEF Seen, Merging
    <3>3. QED
      BY <2>1, <3>1, <3>2, NodeInvStays, Zenon
  <2>5. QED
    BY <2>2, <2>3, <2>4, Zenon DEF LifeInv
<1>8. QED
  BY <1>1, <1>2, <1>3, <1>4, <1>5, <1>6, <1>7, Zenon DEF TimedNext

(* Nor does it fail at the start, when there are no records and no agents. *)
LEMMA LifeStarts ==
  ASSUME TimedInit, NEW w, Hub(w)
  PROVE  LifeInv(w)
<1>1. /\ Live = {} /\ \A n \in Nodes : registry[n] = {} /\ batch[n] = {} /\ pc[n] = "idle"
                                      /\ todo[n] = {}
  BY Zenon DEF TimedInit, Init, Live
<1>2. HomeInv(w)
  BY <1>1, Zenon DEF HomeInv, TimedInit
<1>3. LiveGapInv(w)
  <2>1. GapInv(w, {})
    BY SyncAssumption DEF TimedInit, Init, GapInv, Has, Owed, Closed, Held, Hub
  <2>2. QED
    BY <1>1, <2>1, Zenon DEF LiveGapInv
<1>4. QED
  BY <1>1, <1>2, <1>3, Zenon DEF LifeInv

(* So it always holds.                                                     *)
LEMMA LifeAlways ==
  ASSUME NEW w, Hub(w)
  PROVE  TimedSpec => []LifeInv(w)
<1>1. TimedInit => LifeInv(w)
  BY LifeStarts, Zenon
<1>2. TimedTypeOK /\ TimedTypeOK' /\ LifeInv(w) /\ [TimedNext]_timedVars => LifeInv(w)'
  BY StepKeepsLife, Zenon
<1>3. QED
  BY <1>1, <1>2, TimedTypeCorrect, PTL DEF TimedSpec

(***************************************************************************)
(* The lifecycle manager's purge never takes a live agent from any node    *)
(* that lists it, and nor does any other step: a purge comes while a       *)
(* heartbeat, or what gossip brought of the last one, still has time left. *)
(***************************************************************************)
THEOREM LiveAgentsAreKept ==
  ASSUME NEW w, Hub(w)
  PROVE  TimedSpec => LiveAgentsStayListed
<1> DEFINE Stay == \A n \in Nodes, a \in Agents :
                     status[a] = "live" /\ Listed(n, a) => Listed(n, a)'
<1>1. ASSUME TimedTypeOK, LifeInv(w), [TimedNext]_timedVars
      PROVE  Stay
  <2> SUFFICES ASSUME NEW n \in Nodes, NEW a \in Agents, status[a] = "live", Listed(n, a)
               PROVE  Listed(n, a)'
    BY Zenon
  <2>1. TypeOK
    BY <1>1, Zenon DEF TimedTypeOK
  <2>2. CASE [Next]_vars
    BY <2>1, <2>2, ListedStays, Zenon
  <2>3. ASSUME NEW m \in Nodes, Purge(m)
        PROVE  Listed(n, a)'
    <3>1. ttl[n][a] >= 1
      BY <1>1, Zenon DEF LifeInv, HomeInv, NodeInv, Live
    <3>2. ttl[n][a] > 0
      BY <1>1, <3>1, LifecycleAssumption DEF TimedTypeOK
    <3>3. \A x \in registry[n] : x.agent = a => x \in registry'[n]
      BY <2>1, <2>3, <3>2, PurgeType, Zenon
    <3>4. QED
      BY <3>3, Zenon DEF Listed, Find
  <2>4. QED
    BY <1>1, <2>2, <2>3, TimedIsSync, Zenon
<1>2. TimedTypeOK /\ LifeInv(w) /\ [TimedNext]_timedVars => [Stay]_timedVars
  BY <1>1, Zenon
<1>3. QED
  BY <1>2, LifeAlways, TimedTypeCorrect, PTL DEF TimedSpec, LiveAgentsStayListed

(***************************************************************************)
(* A live agent is listed on every node within SpreadTime: the gossip      *)
(* round that each node makes in every unit of time brings it there, for   *)
(* all that purges have taken out of the registries the cursors come from. *)
(***************************************************************************)
THEOREM RegistrationsSpread ==
  ASSUME NEW w, Hub(w)
  PROVE  TimedSpec => []SpreadsInTime
<1>1. LifeInv(w) => SpreadsInTime
  BY LifecycleAssumption, Zenon DEF LifeInv, HomeInv, NodeInv, SpreadsInTime, Live, Hub
<1>2. QED
  BY <1>1, LifeAlways, PTL

=============================================================================
