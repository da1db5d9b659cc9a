--------------------------- MODULE GossipSyncProofs ---------------------------
(***************************************************************************)
(* Proofs about GossipSync, for any number of nodes in any topology of     *)
(* seeds, any limit, fan-out and number of failures: types, revisions that *)
(* never go back, and the cursor from which a synchronisation starts.      *)
(***************************************************************************)
EXTENDS GossipSync, TLAPS

USE SyncAssumption

-----------------------------------------------------------------------------
(* An answer to SYNC_PULL, cut off or not, and a push plan are both a      *)
(* lowest part of the records above the cursor.                            *)
LowestPart(T, R, v) ==
  /\ T \subseteq R
  /\ \A x \in T : x.revision > v
  /\ \A x \in T, y \in R \ T : y.revision > v => x.revision <= y.revision

(* entries_after_revision() returns a lowest part.                         *)
LEMMA EntriesAreLowest ==
  ASSUME NEW R, NEW v, NEW S \in EntriesAfterRevision(R, v, MaxEntries)
  PROVE  LowestPart(S, R, v)
BY Zenon DEF EntriesAfterRevision, LowestPart

(* A cut-off answer still is one.                                          *)
LEMMA CutIsLowest ==
  ASSUME NEW R, NEW v, NEW S, LowestPart(S, R, v), NEW T \in SUBSET S,
         \A x \in T, y \in S \ T : x.revision <= y.revision
  PROVE  LowestPart(T, R, v)
BY Zenon DEF LowestPart

LEMMA CutBatchIsLowest ==
  ASSUME NEW n, NEW S \in EntriesAfterRevision(registry[peer[n]], local[n], MaxEntries),
         NEW T \in SUBSET S, CutBatch(n, S, T)
  PROVE  LowestPart(T, registry[peer[n]], local[n]) /\ batch' = [batch EXCEPT ![n] = T]
BY EntriesAreLowest, CutIsLowest, Zenon DEF CutBatch

(* What is left of a number is not above it.                               *)
LEMMA PrefixBelow ==
  ASSUME NEW v \in 0..MaxRevision, NEW u \in Prefixes(v)
  PROVE  u \in 0..MaxRevision /\ u <= v
<1>1. u \in 0..v
  BY Zenon DEF Prefixes
<1>2. QED
  BY <1>1

(* What is left of a line is a record still.                               *)
LEMMA CutLineType ==
  ASSUME NEW r \in Records
  PROVE  CutLine(r) \subseteq Records
<1> DEFINE ending(a, e, v) == [r EXCEPT !.agent = a, !.endpoint = e, !.revision = v,
                                        !.metadata = NoMetadata]
<1>1. /\ r.agent \in Agents /\ r.endpoint \in Endpoints /\ NoEndpoint \in Endpoints
      /\ ShorterName[r.agent] \subseteq Agents /\ ShorterEndpoint[r.endpoint] \subseteq Endpoints
  BY Zenon DEF Records
<1>2. /\ r.revision \in 0..MaxRevision /\ 0 \in 0..MaxRevision
      /\ Prefixes(r.revision) \subseteq 0..MaxRevision
  <2>1. r.revision \in 0..MaxRevision
    BY Zenon DEF Records
  <2>2. 0 \in 0..MaxRevision
    OBVIOUS
  <2>3. QED
    BY <2>1, <2>2, PrefixBelow, Zenon
<1>3. \A a \in Agents, e \in Endpoints, v \in 0..MaxRevision : ending(a, e, v) \in Records
  BY Zenon DEF Records
<1> HIDE DEF ending
<1>4. CutLine(r) =
        ({ending(a, NoEndpoint, 0) : a \in ShorterName[r.agent] \cup {r.agent}}
         \cup {ending(r.agent, e, 0) : e \in ShorterEndpoint[r.endpoint] \cup {r.endpoint}}
         \cup {ending(r.agent, r.endpoint, v) : v \in Prefixes(r.revision) \cup {r.revision}})
        \ {r}
  BY Zenon DEF CutLine, ending
<1>5. ASSUME NEW c \in CutLine(r)
      PROVE  \E a \in Agents, e \in Endpoints, v \in 0..MaxRevision : c = ending(a, e, v)
  <2>1. \/ \E a \in ShorterName[r.agent] \cup {r.agent} : c = ending(a, NoEndpoint, 0)
        \/ \E e \in ShorterEndpoint[r.endpoint] \cup {r.endpoint} : c = ending(r.agent, e, 0)
        \/ \E v \in Prefixes(r.revision) \cup {r.revision} : c = ending(r.agent, r.endpoint, v)
    BY <1>4, Zenon
  <2>2. QED
    BY <1>1, <1>2, <2>1, Zenon
<1>6. ASSUME NEW c \in CutLine(r) PROVE c \in Records
  <2>1. PICK a \in Agents, e \in Endpoints, v \in 0..MaxRevision : c = ending(a, e, v)
    BY <1>5, Zenon
  <2>2. ending(a, e, v) \in Records
    BY <1>3, Zenon
  <2>3. QED
    BY <2>1, <2>2, Zenon
<1>7. QED
  BY <1>6, Zenon

(* A heartbeat keeps a record, and a set of records.                       *)
LEMMA RefreshedRecord ==
  ASSUME NEW x \in Records, NEW v \in 1..MaxRevision
  PROVE  LET z == [x EXCEPT !.expires = 0, !.revision = v]
         IN z \in Records /\ z.agent = x.agent /\ z.endpoint = x.endpoint /\ z.revision = v
<1>1. v \in 0..MaxRevision
  OBVIOUS
<1>2. [x EXCEPT !.expires = 0, !.revision = v] \in Records
  BY <1>1, Zenon DEF Records
<1>3. /\ [x EXCEPT !.expires = 0, !.revision = v].agent = x.agent
      /\ [x EXCEPT !.expires = 0, !.revision = v].endpoint = x.endpoint
      /\ [x EXCEPT !.expires = 0, !.revision = v].revision = v
  BY DEF Records
<1>4. QED
  BY <1>2, <1>3, Zenon

LEMMA RefreshType ==
  ASSUME NEW R \in SUBSET Records, NEW a, NEW v \in 1..MaxRevision
  PROVE  RefreshHeartbeat(R, a, 0, v) \in SUBSET Records
<1>1. \A x \in R : [x EXCEPT !.expires = 0, !.revision = v] \in Records
  BY RefreshedRecord, Zenon
<1>2. QED
  BY <1>1, Zenon DEF RefreshHeartbeat, Find

(* Delivering a record keeps the types of registries and batches, and a    *)
(* node without a batch gets none.                                         *)
LEMMA DeliverType ==
  ASSUME TypeOK, NEW n \in Nodes, NEW t \in Nodes, Deliver(n, t)
  PROVE  /\ registry' \in [Nodes -> SUBSET Records]
         /\ batch' \in [Nodes -> SUBSET Records]
         /\ \A m \in Nodes : batch'[m] \subseteq batch[m]
<1>1. PICK r \in LowestOf(batch[n]) :
        /\ registry' = IF UpsertAccepted(registry[t], r)
                         THEN [registry EXCEPT ![t] = Upsert(@, r)] ELSE registry
        /\ batch' = [batch EXCEPT ![n] = @ \ {r}]
  BY Zenon DEF Deliver, HandOver, Offer
<1>2. r \in Records
  BY Zenon DEF LowestOf, TypeOK
<1>3. QED
  BY <1>1, <1>2, Zenon DEF Upsert, TypeOK

LEMMA RegistrationsAreRecords ==
  Registrations \subseteq Records /\ \A r \in Registrations : r.endpoint # NoEndpoint
<1>1. 1..MaxRevision \subseteq 0..MaxRevision
  OBVIOUS
<1>2. QED
  BY <1>1, Zenon DEF Registrations, Records

(* Every step keeps the types.                                             *)
LEMMA TypeStep == ASSUME TypeOK, [Next]_vars PROVE TypeOK'
<1>0. Registrations \subseteq Records
  BY RegistrationsAreRecords
<1>1. ASSUME NEW n \in Nodes, NEW r \in Registrations, RegisterAgent(n, r)
      PROVE  TypeOK'
  <2>1. registry' \in [Nodes -> SUBSET Records]
    BY <1>0, <1>1, Zenon DEF RegisterAgent, Upsert, TypeOK
  <2>2. issued' \in Nat
    BY <1>1 DEF RegisterAgent, Issue, TypeOK, Registrations
  <2>3. QED
    BY <1>1, <2>1, <2>2, Zenon DEF RegisterAgent, TypeOK, syncVars, flightVars
<1>2. ASSUME NEW n \in Nodes, NEW a \in Agents, NEW v \in 1..MaxRevision, Heartbeat(n, a, v)
      PROVE  TypeOK'
  <2>1. registry' \in [Nodes -> SUBSET Records]
    BY <1>2, RefreshType, Zenon DEF Heartbeat, TypeOK
  <2>2. issued' \in Nat
    BY <1>2 DEF Heartbeat, Issue, TypeOK
  <2>3. QED
    BY <1>2, <2>1, <2>2, Zenon DEF Heartbeat, TypeOK, syncVars, flightVars
<1>3. ASSUME NEW n \in Nodes, StartRound(n) PROVE TypeOK'
  BY <1>3 DEF StartRound, TypeOK, flightVars
<1>4. ASSUME NEW n \in Nodes, NEW p \in Nodes, Begin(n, p) PROVE TypeOK'
  BY <1>4 DEF Begin, TypeOK, flightVars
<1>5. ASSUME NEW n \in Nodes, Stats(n) PROVE TypeOK'
  BY <1>5 DEF Stats, TypeOK, flightVars
<1>6. ASSUME NEW n \in Nodes, Pull(n) PROVE TypeOK'
  <2>1. PICK S : /\ LowestPart(S, registry[peer[n]], local[n])
                 /\ batch' = [batch EXCEPT ![n] = S]
    BY <1>6, EntriesAreLowest, Zenon DEF Pull
  <2>2. S \in SUBSET Records
    BY <2>1, Zenon DEF LowestPart, TypeOK
  <2>3. QED
    BY <1>6, <2>1, <2>2 DEF Pull, TypeOK, flightVars
<1>7. ASSUME NEW n \in Nodes, PullCut(n) PROVE TypeOK'
  <2>1. PICK S : /\ LowestPart(S, registry[peer[n]], local[n])
                 /\ batch' = [batch EXCEPT ![n] = S]
    BY <1>7, CutBatchIsLowest, Zenon DEF PullCut
  <2>2. S \in SUBSET Records
    BY <2>1, Zenon DEF LowestPart, TypeOK
  <2>3. QED
    BY <1>7, <2>1, <2>2 DEF PullCut, CutBatch, TypeOK
<1>8. ASSUME NEW n \in Nodes, PullCutInLine(n) PROVE TypeOK'
  <2>1. PICK S \in EntriesAfterRevision(registry[peer[n]], local[n], MaxEntries) :
          \E T \in SUBSET S : \E r \in LowestOf(S \ T) : \E c \in CutLine(r) :
            CutBatch(n, S, T) /\ partial' = [partial EXCEPT ![n] = {c}]
    BY <1>8, Zenon DEF PullCutInLine
  <2>2. PICK T, r, c :
          /\ T \in SUBSET S /\ r \in S /\ c \in CutLine(r)
          /\ CutBatch(n, S, T) /\ partial' = [partial EXCEPT ![n] = {c}]
    BY <2>1, Zenon DEF LowestOf
  <2>3. LowestPart(S, registry[peer[n]], local[n])
    BY EntriesAreLowest, Zenon
  <2>4. S \in SUBSET Records /\ T \in SUBSET Records
    BY <2>2, <2>3, Zenon DEF LowestPart, TypeOK
  <2>5. c \in Records
    BY <2>2, <2>4, CutLineType, Zenon
  <2>6. partial' \in [Nodes -> SUBSET Records] /\ batch' \in [Nodes -> SUBSET Records]
    BY <2>2, <2>4, <2>5, Zenon DEF CutBatch, TypeOK
  <2>7. failures' \in Nat
    BY <2>2 DEF CutBatch, TypeOK
  <2>8. pc' = [pc EXCEPT ![n] = "merge"] /\ \A m \in Nodes : m # n => partial'[m] = partial[m] /\ batch'[m] = batch[m]
    BY <2>2, Zenon DEF CutBatch, TypeOK
  <2>9. QED
    BY <1>8, <2>6, <2>7, <2>8, Zenon DEF PullCutInLine, TypeOK
<1>9. ASSUME NEW n \in Nodes, StatsCut(n) PROVE TypeOK'
  <2>1. PICK h, u : h \in 0..MaxRevision /\ u \in Prefixes(h) /\ remote' = [remote EXCEPT ![n] = u]
    BY <1>9, Zenon DEF StatsCut
  <2>2. u \in 0..MaxRevision
    BY <2>1, PrefixBelow, Zenon
  <2>3. QED
    BY <1>9, <2>1, <2>2 DEF StatsCut, TypeOK
<1>10. ASSUME NEW n \in Nodes, Merge(n) PROVE TypeOK'
  BY <1>10, DeliverType, Zenon DEF Merge, TypeOK, flightVars
<1>11. ASSUME NEW n \in Nodes, MergePartial(n) PROVE TypeOK'
  <2>1. PICK r \in partial[n] : Offer(n, r)
    BY <1>11, Zenon DEF MergePartial
  <2>2. r \in Records
    BY Zenon DEF TypeOK
  <2>3. registry' \in [Nodes -> SUBSET Records]
    BY <2>1, <2>2, Zenon DEF Offer, Upsert, TypeOK
  <2>4. QED
    BY <1>11, <2>3, Zenon DEF MergePartial, TypeOK
<1>12. ASSUME NEW n \in Nodes, Plan(n) PROVE TypeOK'
  <2>1. PICK S : /\ LowestPart(S, registry[n], remote[n])
                 /\ batch' = [batch EXCEPT ![n] = S]
    BY <1>12, EntriesAreLowest, Zenon DEF Plan
  <2>2. S \in SUBSET Records
    BY <2>1, Zenon DEF LowestPart, TypeOK
  <2>3. QED
    BY <1>12, <2>1, <2>2, Zenon DEF Plan, TypeOK, flightVars
<1>13. ASSUME NEW n \in Nodes, Push(n) PROVE TypeOK'
  <2>1. Deliver(n, peer[n]) /\ peer[n] \in Nodes
    BY <1>13, Zenon DEF Push, Deliver, TypeOK
  <2>2. QED
    BY <1>13, <2>1, DeliverType, Zenon DEF Push, TypeOK, flightVars
<1>14. ASSUME NEW n \in Nodes, PushRefused(n) PROVE TypeOK'
  <2>1. PICK r : batch' = [batch EXCEPT ![n] = @ \ {r}]
    BY <1>14, Zenon DEF PushRefused
  <2>2. /\ batch' \in [Nodes -> SUBSET Records]
        /\ \A m \in Nodes : batch'[m] \subseteq batch[m]
    BY <2>1, Zenon DEF TypeOK
  <2>3. QED
    BY <1>14, <2>2, Zenon DEF PushRefused, TypeOK, flightVars
<1>15. ASSUME NEW n \in Nodes, Done(n) \/ Fail(n) PROVE TypeOK'
  <2>1. LeavePeer(n) /\ pc[n] # "merge"
    BY <1>15, Zenon DEF Done, Fail
  <2>2. partial[n] = {} /\ UNCHANGED <<registry, issued, partial, intact>>
    BY <2>1, Zenon DEF LeavePeer, TypeOK
  <2>3. failures' \in Nat
    BY <1>15 DEF Done, Fail, TypeOK
  <2>4. /\ pc' = [pc EXCEPT ![n] = "idle"] /\ todo' = [todo EXCEPT ![n] = @ \ {peer[n]}]
        /\ batch' = [batch EXCEPT ![n] = {}] /\ local' = [local EXCEPT ![n] = 0]
        /\ remote' = [remote EXCEPT ![n] = 0] /\ peer' = [peer EXCEPT ![n] = n]
    BY <2>1, Zenon DEF LeavePeer
  <2>5. /\ local' \in [Nodes -> 0..MaxRevision] /\ remote' \in [Nodes -> 0..MaxRevision]
        /\ pc' \in [Nodes -> {"idle", "stats", "pull", "merge", "push"}]
        /\ todo' \in [Nodes -> SUBSET Nodes] /\ peer' \in [Nodes -> Nodes]
        /\ batch' \in [Nodes -> SUBSET Records]
    BY <2>4 DEF TypeOK
  <2>6. \A m \in Nodes : m # n => pc'[m] = pc[m] /\ batch'[m] = batch[m]
    BY <2>4, Zenon DEF TypeOK
  <2>7. batch'[n] = {}
    BY <2>4, Zenon DEF TypeOK
  <2>8. QED
    BY <2>2, <2>3, <2>5, <2>6, <2>7, Zenon DEF TypeOK
<1>16. CASE UNCHANGED vars
  BY <1>16, Zenon DEF vars, syncVars, flightVars, TypeOK
<1>17. QED
  BY <1>1, <1>2, <1>3, <1>4, <1>5, <1>6, <1>7, <1>8, <1>9, <1>10, <1>11, <1>12, <1>13, <1>14,
     <1>15, <1>16, Zenon
  DEF Next, SyncStep, BadStep

(* Type correctness of the synchronisation protocol.                       *)
THEOREM TypeCorrect == Spec => []TypeOK
<1>1. Init => TypeOK
  BY DEF Init, TypeOK
<1>2. TypeOK /\ [Next]_vars => TypeOK'
  BY TypeStep, Zenon
<1>3. QED
  BY <1>1, <1>2, PTL DEF Spec

-----------------------------------------------------------------------------
(* No step takes an agent from a registry, or lowers its revision.         *)
Forward == \A n \in Nodes : \A x \in registry[n] :
             \E y \in registry'[n] : y.agent = x.agent /\ y.revision >= x.revision

LEMMA NoStepBack ==
  ASSUME TypeOK, [Next]_vars
  PROVE  Forward
<1> USE DEF Forward
<1>0. ASSUME NEW R \in SUBSET Records, NEW r \in Records, UpsertAccepted(R, r)
      PROVE  \A x \in R : \E y \in Upsert(R, r) : y.agent = x.agent /\ y.revision >= x.revision
  BY <1>0 DEF UpsertAccepted, Upsert, Find, Records
<1>1. ASSUME NEW n \in Nodes, NEW r \in Registrations, RegisterAgent(n, r) PROVE Forward
  BY <1>0, <1>1, RegistrationsAreRecords DEF RegisterAgent, TypeOK, Records
<1>2. ASSUME NEW n \in Nodes, NEW a \in Agents, NEW v \in 1..MaxRevision, Heartbeat(n, a, v)
      PROVE  Forward
  <2> DEFINE Bump(y) == [y EXCEPT !.expires = 0, !.revision = v]
  <2>1. \A y \in registry[n] : Bump(y).revision = v /\ Bump(y).agent = y.agent
    BY DEF Records, TypeOK
  <2>2. registry'[n] = {y \in registry[n] : y.agent # a} \cup
                         {Bump(y) : y \in {y \in registry[n] : y.agent = a}}
    BY <1>2, Zenon DEF Heartbeat, RefreshHeartbeat, Find, TypeOK
  <2>3. \A y \in registry[n] : y.agent = a => v >= y.revision
    BY <1>2, Zenon DEF Heartbeat, HeartbeatAccepted, Find
  <2>4. \A k \in Nodes : k # n => registry'[k] = registry[k]
    BY <1>2, Zenon DEF Heartbeat, TypeOK
  <2> HIDE DEF Bump
  <2>5. \A k \in Nodes : \A x \in registry[k] : x.revision \in Nat
    BY DEF TypeOK, Records
  <2>6. ASSUME NEW x \in registry[n]
        PROVE  \E y \in registry'[n] : y.agent = x.agent /\ y.revision >= x.revision
    <3>1. CASE x.agent = a
      BY <2>1, <2>2, <2>3, <3>1, Zenon
    <3>2. CASE x.agent # a
      BY <2>2, <2>5, <3>2
    <3>3. QED
      BY <3>1, <3>2, Zenon
  <2>7. QED
    BY <2>4, <2>5, <2>6
<1>3. ASSUME NEW t \in Nodes, NEW r \in Records, Offer(t, r) PROVE Forward
  BY <1>0, <1>3 DEF Offer, TypeOK, Records
<1>4. CASE registry' = registry
  BY <1>4 DEF TypeOK, Records
<1>5. ASSUME NEW n \in Nodes, SyncStep(n) \/ BadStep(n)
      PROVE  registry' = registry \/ \E t \in Nodes, r \in Records : Offer(t, r)
  <2>1. CASE Merge(n) \/ MergePartial(n) \/ Push(n)
    BY <2>1, Zenon DEF Merge, MergePartial, Push, Deliver, HandOver, LowestOf, TypeOK
  <2>2. CASE ~(Merge(n) \/ MergePartial(n) \/ Push(n))
    BY <1>5, <2>2, Zenon DEF SyncStep, BadStep, StartRound, Begin, Stats, StatsCut, Pull, PullCut,
       PullCutInLine, Plan, PushRefused, Done, Fail, LeavePeer
  <2>3. QED
    BY <2>1, <2>2, Zenon
<1>6. UNCHANGED vars => registry' = registry
  BY Zenon DEF vars
<1>7. QED
  BY <1>1, <1>2, <1>3, <1>4, <1>5, <1>6, Zenon DEF Next

(* Whatever interleaving of registrations, pulls and pushes a registry     *)
(* sees, no agent of it goes back to a lower revision or disappears: each  *)
(* of upsert() and refresh_heartbeat() guards against it by itself.        *)
THEOREM RevisionsNeverGoBack == Spec => NeverGoesBack
<1>1. TypeOK /\ [Next]_vars => Forward
  BY NoStepBack, Zenon
<1>2. QED
  BY <1>1, TypeCorrect, PTL DEF Spec, NeverGoesBack, Forward

-----------------------------------------------------------------------------
(* The strengthening of NoGaps for a single registrar w.  It is about the  *)
(* records of the agents in L, all of them here; where records expire, the *)
(* ones that do not.                                                       *)
Held(r) == \E n \in Nodes : r \in registry[n] \/ r \in batch[n]

(* What every node is owed: the registrar's records of the agents in L.    *)
Owed(w, L) == {y \in registry[w] : y.agent \in L}

(* Node n has what it is owed up to revision v: a cursor at v skips none.  *)
Has(w, L, n, v) == \A y \in Owed(w, L) : y.revision <= v => y \in registry[n]

Target(n) == IF pc[n] = "push" THEN peer[n] ELSE n

(* Wherever the registrar's records up to x are needed, node t has them or *)
(* they are in B, to be delivered before x.                                *)
Closed(w, L, x, t, B) ==
  \A y \in Owed(w, L) : y.revision <= x.revision => y \in registry[t] \/ y \in B

GapInv(w, L) ==
  /\ intact
  /\ \A n \in Nodes : \A x, y \in registry[n] : x.agent = y.agent => x = y
  /\ \A r \in Records : Held(r) =>
       r.revision > 0 /\ r.revision <= issued /\ r.endpoint # NoEndpoint
  /\ \A r, s \in Records : Held(r) /\ Held(s) /\ r.revision = s.revision => r = s
  /\ \A r \in Records : Held(r) /\ r.agent \in L =>
       \E y \in registry[w] : y.agent = r.agent /\ r.revision <= y.revision
  /\ \A n \in Nodes : \A x \in registry[n] : Closed(w, L, x, n, {})
  /\ \A n \in Nodes : Has(w, L, n, local[n]) /\ Has(w, L, peer[n], remote[n])
  /\ \A n \in Nodes : local[n] <= issued /\ remote[n] <= issued
  /\ \A n \in Nodes : pc[n] = "idle" => remote[n] = 0
  /\ \A n \in Nodes : \A x \in batch[n] : Closed(w, L, x, Target(n), batch[n])

(* The registrar takes a record with a fresh revision, by a registration   *)
(* or by a heartbeat.                                                      *)
LEMMA RegistrarTakes ==
  ASSUME TypeOK, NEW w \in Nodes, NEW L, GapInv(w, L), NEW z \in Records, z.revision > issued,
         z.endpoint # NoEndpoint, registry' = [registry EXCEPT ![w] = Upsert(@, z)],
         issued' = z.revision, UNCHANGED syncVars
  PROVE  GapInv(w, L)'
<1> USE DEF syncVars, flightVars
<1>1. /\ \A n \in Nodes : n # w => registry'[n] = registry[n]
      /\ registry'[w] = {x \in registry[w] : x.agent # z.agent} \cup {z}
  BY Zenon DEF TypeOK, Upsert, Find
<1>2. \A n \in Nodes : \A x \in registry[n] \cup batch[n] :
        x \in Records /\ Held(x) /\ x.revision < z.revision
  BY DEF TypeOK, Held, GapInv, Records
<1>3. \A r \in Records : Held(r)' => Held(r) \/ r = z
  BY <1>1, Zenon DEF Held
<1>4. \A r \in Records : Held(r) => r.revision < z.revision
  BY DEF GapInv, Records, TypeOK
<1>5. (\A n \in Nodes : \A x, y \in registry[n] : x.agent = y.agent => x = y)'
  BY <1>1 DEF GapInv
<1>6. \A r \in Records : Held(r)' =>
           r.revision > 0 /\ r.revision <= issued' /\ r.endpoint # NoEndpoint
  BY <1>3, <1>4 DEF Records, GapInv, TypeOK
<1>7. \A r, s \in Records : Held(r)' /\ Held(s)' /\ r.revision = s.revision => r = s
  BY <1>3, <1>4 DEF GapInv, Records
<1>8. \A r \in Records : Held(r)' /\ r.agent \in L =>
        \E y \in registry'[w] : y.agent = r.agent /\ r.revision <= y.revision
  BY <1>1, <1>3, <1>4 DEF GapInv, Records
<1>9. \A y \in Owed(w, L)' : y = z \/ (y \in Owed(w, L) /\ y \in Records /\ y.agent # z.agent)
  BY <1>1, <1>2, Zenon DEF Owed
<1>10. \A B : \A t \in Nodes, x \in Records :
         x.revision < z.revision /\ Closed(w, L, x, t, B) => Closed(w, L, x, t, B)'
  <2> SUFFICES ASSUME NEW B, NEW t \in Nodes, NEW x \in Records, x.revision < z.revision,
                      Closed(w, L, x, t, B), NEW y \in Owed(w, L)', y.revision <= x.revision
               PROVE  y \in registry'[t] \/ y \in B
    BY Zenon DEF Closed
  <2>1. y \in Owed(w, L) /\ y.agent # z.agent
    BY <1>9 DEF Records
  <2>2. QED
    BY <1>1, <2>1, Zenon DEF Closed
<1>11. \A n \in Nodes : \A x \in registry'[n] : Closed(w, L, x, n, {})'
  <2> SUFFICES ASSUME NEW n \in Nodes, NEW x \in registry'[n] PROVE Closed(w, L, x, n, {})'
    BY Zenon
  <2>1. CASE x \in registry[n]
    BY <1>2, <1>10, <2>1, Zenon DEF GapInv
  <2>2. CASE n = w
    BY <2>2, Zenon DEF Closed, Owed
  <2>3. QED
    BY <1>1, <2>1, <2>2, Zenon
<1>12. \A n \in Nodes : \A v \in 0..MaxRevision :
         v <= issued /\ Has(w, L, n, v) => Has(w, L, n, v)'
  <2> SUFFICES ASSUME NEW n \in Nodes, NEW v \in 0..MaxRevision, v <= issued, Has(w, L, n, v),
                      NEW y \in Owed(w, L)', y.revision <= v
               PROVE  y \in registry'[n]
    BY Zenon DEF Has
  <2>1. y \in Owed(w, L) /\ y.agent # z.agent
    BY <1>9 DEF Records, TypeOK
  <2>2. QED
    BY <1>1, <2>1, Zenon DEF Has
<1>13. \A n \in Nodes : /\ Has(w, L, n, local[n])' /\ Has(w, L, peer[n], remote[n])'
                       /\ local'[n] <= issued' /\ remote'[n] <= issued'
  <2>1. \A n \in Nodes : /\ Has(w, L, n, local[n]) /\ Has(w, L, peer[n], remote[n])
                        /\ local[n] <= issued /\ remote[n] <= issued
    BY Zenon DEF GapInv
  <2>2. \A n \in Nodes : local[n] \in 0..MaxRevision /\ remote[n] \in 0..MaxRevision
                         /\ peer[n] \in Nodes
    BY Zenon DEF TypeOK
  <2>3. issued \in Nat /\ issued' \in Nat /\ issued <= issued'
    BY DEF TypeOK, Records
  <2>4. QED
    BY <1>12, <2>1, <2>2, <2>3 DEF Has, Owed
<1>14. \A n \in Nodes : \A x \in batch'[n] : Closed(w, L, x, Target(n), batch[n])'
  <2> SUFFICES ASSUME NEW n \in Nodes, NEW x \in batch[n]
               PROVE  Closed(w, L, x, Target(n), batch[n])'
    BY Zenon
  <2>1. Target(n) \in Nodes /\ Closed(w, L, x, Target(n), batch[n])
    BY Zenon DEF Target, TypeOK, GapInv
  <2>2. Target(n)' = Target(n) /\ batch'[n] = batch[n]
    BY Zenon DEF Target
  <2>3. QED
    BY <1>2, <1>10, <2>1, <2>2, Zenon DEF Closed
<1>15. QED
  BY <1>5, <1>6, <1>7, <1>8, <1>11, <1>13, <1>14, Zenon DEF GapInv

(* What a delivery to node t does to the registries: the record is taken   *)
(* or refused by its revision, and no node loses what it is owed.          *)
LEMMA Delivery ==
  ASSUME TypeOK, NEW w \in Nodes, NEW L, GapInv(w, L), NEW n \in Nodes, NEW t \in Nodes,
         NEW m \in batch[n],
         registry' = IF UpsertAccepted(registry[t], m)
                       THEN [registry EXCEPT ![t] = Upsert(@, m)] ELSE registry
  PROVE  /\ \A k \in Nodes : k # t => registry'[k] = registry[k]
         /\ UpsertAccepted(registry[t], m) =>
              /\ registry'[t] = {x \in registry[t] : x.agent # m.agent} \cup {m}
              /\ \A x \in registry[t] : x.agent = m.agent => x.revision <= m.revision
         /\ ~UpsertAccepted(registry[t], m) =>
              /\ registry'[t] = registry[t]
              /\ \E x \in registry[t] : x.agent = m.agent /\ x.revision > m.revision
         /\ \A k \in Nodes : \A y \in Owed(w, L) : y \in registry[k] => y \in registry'[k]
         /\ Owed(w, L)' = Owed(w, L)
<1> DEFINE acc == UpsertAccepted(registry[t], m)
<1>1. m \in Records /\ Held(m)
  BY Zenon DEF TypeOK, Held
<1>2. \A k \in Nodes : \A x \in registry[k] : x \in Records /\ Held(x)
  BY Zenon DEF TypeOK, Held
<1>3. /\ \A k \in Nodes : k # t => registry'[k] = registry[k]
      /\ acc => registry'[t] = {x \in registry[t] : x.agent # m.agent} \cup {m}
      /\ ~acc => registry'[t] = registry[t]
  BY Zenon DEF TypeOK, Upsert, Find
<1>4. /\ acc => \A x \in registry[t] : x.agent = m.agent => x.revision <= m.revision
      /\ ~acc => \E x \in registry[t] : x.agent = m.agent /\ x.revision > m.revision
  <2>1. m.revision \in Nat /\ m.key = NoKey
    BY <1>1 DEF Records
  <2>2. \A x \in registry[t] : x.revision \in Nat /\ x.key = NoKey
    BY <1>2 DEF Records
  <2>3. QED
    BY <2>1, <2>2 DEF UpsertAccepted, Find
<1> HIDE DEF acc
<1>5. acc => \A y \in Owed(w, L) : y \in registry[t] /\ y.agent = m.agent => y = m
  <2> SUFFICES ASSUME NEW y \in Owed(w, L), y \in registry[t], acc, y.agent = m.agent
               PROVE  y = m
    BY Zenon
  <2>1. y \in registry[w] /\ y.agent \in L
    BY Zenon DEF Owed
  <2>2. PICK z \in registry[w] : z.agent = m.agent /\ m.revision <= z.revision
    BY <1>1, <2>1, Zenon DEF GapInv
  <2>3. z = y
    BY <2>1, <2>2 DEF GapInv
  <2>4. y.revision = m.revision
    BY <1>1, <1>2, <1>4, <2>2, <2>3 DEF Records
  <2>5. QED
    BY <1>1, <1>2, <2>1, <2>4, Zenon DEF GapInv
<1>6. \A k \in Nodes : \A y \in Owed(w, L) : y \in registry[k] => y \in registry'[k]
  BY <1>3, <1>5, Zenon
<1>7. Owed(w, L)' = Owed(w, L)
  <2>1. Owed(w, L) \subseteq Owed(w, L)'
    BY <1>6, Zenon DEF Owed
  <2>2. ASSUME NEW y \in Owed(w, L)', y \notin Owed(w, L) PROVE FALSE
    <3>1. acc /\ t = w /\ y = m /\ m.agent \in L
      BY <1>3, <2>2, Zenon DEF Owed
    <3>2. PICK z \in registry[w] : z.agent = m.agent /\ m.revision <= z.revision
      BY <1>1, <3>1, Zenon DEF GapInv
    <3>3. z = m
      BY <1>5, <3>1, <3>2, Zenon DEF Owed
    <3>4. QED
      BY <2>2, <3>1, <3>2, <3>3, Zenon DEF Owed
  <2>3. QED
    BY <2>1, <2>2, Zenon
<1>8. QED
  BY <1>3, <1>4, <1>6, <1>7, Zenon DEF acc

(* A record in flight is delivered to the node it is meant for.            *)
LEMMA DeliverKeepsGapInv ==
  ASSUME TypeOK, NEW w \in Nodes, NEW L, GapInv(w, L), NEW n \in Nodes, NEW t \in Nodes,
         t = Target(n), Deliver(n, t),
         UNCHANGED <<todo, pc, peer, local, remote, issued, flightVars>>
  PROVE  GapInv(w, L)'
<1>1. PICK m \in LowestOf(batch[n]) :
        /\ registry' = IF UpsertAccepted(registry[t], m)
                         THEN [registry EXCEPT ![t] = Upsert(@, m)] ELSE registry
        /\ batch' = [batch EXCEPT ![n] = @ \ {m}]
  BY Zenon DEF Deliver, HandOver, Offer
<1> DEFINE acc == UpsertAccepted(registry[t], m)
<1>2. m \in batch[n] /\ m \in Records /\ Held(m) /\ \A y \in batch[n] : m.revision <= y.revision
  BY Zenon DEF LowestOf, TypeOK, Held
<1>3. \A k \in Nodes : \A x \in registry[k] \cup batch[k] : x \in Records /\ Held(x)
  BY Zenon DEF TypeOK, Held
<1>4. /\ \A k \in Nodes : k # t => registry'[k] = registry[k]
      /\ acc => /\ registry'[t] = {x \in registry[t] : x.agent # m.agent} \cup {m}
                /\ \A x \in registry[t] : x.agent = m.agent => x.revision <= m.revision
      /\ ~acc => /\ registry'[t] = registry[t]
                 /\ \E x \in registry[t] : x.agent = m.agent /\ x.revision > m.revision
      /\ \A k \in Nodes : \A y \in Owed(w, L) : y \in registry[k] => y \in registry'[k]
      /\ Owed(w, L)' = Owed(w, L)
  BY <1>1, <1>2, Delivery
<1> HIDE DEF acc
<1>5. /\ batch'[n] = batch[n] \ {m}
      /\ \A k \in Nodes : k # n => batch'[k] = batch[k]
  BY <1>1, Zenon DEF TypeOK
<1>6. Owed(w, L) \subseteq registry[w]
  BY Zenon DEF Owed
<1>7. \A r \in Records : Held(r)' => Held(r)
  <2>1. \A k \in Nodes : registry'[k] \subseteq registry[k] \cup {m} /\ batch'[k] \subseteq batch[k]
    BY <1>4, <1>5, Zenon
  <2>2. QED
    BY <1>2, <2>1, Zenon DEF Held
<1>8. (\A k \in Nodes : \A x, y \in registry[k] : x.agent = y.agent => x = y)'
  <2>1. \A k \in Nodes : \A x, y \in registry[k] : x.agent = y.agent => x = y
    BY Zenon DEF GapInv
  <2>2. \A k \in Nodes : registry'[k] = registry[k] \/
          registry'[k] = {x \in registry[k] : x.agent # m.agent} \cup {m}
    BY <1>4, Zenon
  <2>3. QED
    BY <2>1, <2>2, Zenon
<1>9. /\ \A r \in Records : Held(r)' =>
           r.revision > 0 /\ r.revision <= issued' /\ r.endpoint # NoEndpoint
      /\ \A r, s \in Records : Held(r)' /\ Held(s)' /\ r.revision = s.revision => r = s
  BY <1>7, Zenon DEF GapInv
<1>10. \A r \in Records : Held(r)' /\ r.agent \in L =>
        \E y \in registry'[w] : y.agent = r.agent /\ r.revision <= y.revision
  <2> SUFFICES ASSUME NEW r \in Records, Held(r), r.agent \in L
               PROVE  \E y \in registry'[w] : y.agent = r.agent /\ r.revision <= y.revision
    BY <1>7, Zenon
  <2>1. PICK y \in registry[w] : y.agent = r.agent /\ r.revision <= y.revision
    BY Zenon DEF GapInv
  <2>2. y \in Owed(w, L)
    BY <2>1, Zenon DEF Owed
  <2>3. QED
    BY <1>4, <2>1, <2>2, Zenon
<1>11. Closed(w, L, m, t, batch[n])
  BY <1>2, Zenon DEF GapInv
<1>12. \A k \in Nodes : \A x \in registry'[k] : Closed(w, L, x, k, {})'
  <2> SUFFICES ASSUME NEW k \in Nodes, NEW x \in registry'[k], NEW y \in Owed(w, L),
                      y.revision <= x.revision
               PROVE  y \in registry'[k]
    BY <1>4, Zenon DEF Closed
  <2>1. CASE x \in registry[k]
    <3>1. y \in registry[k]
      BY <2>1, Zenon DEF GapInv, Closed
    <3>2. QED
      BY <1>4, <3>1, Zenon
  <2>2. CASE acc /\ k = t /\ x = m
    <3>1. CASE y \in registry[t]
      BY <1>4, <2>2, <3>1, Zenon
    <3>2. CASE y \in batch[n]
      <4>1. y.revision = m.revision
        BY <1>2, <1>3, <2>2, <3>2 DEF Records
      <4>2. y = m
        BY <1>2, <1>3, <1>6, <4>1, Zenon DEF GapInv
      <4>3. QED
        BY <1>4, <2>2, <4>2, Zenon
    <3>3. QED
      BY <1>11, <2>2, <3>1, <3>2, Zenon DEF Closed
  <2>3. QED
    BY <1>4, <2>1, <2>2
<1>13. m \in Owed(w, L) => m \in registry'[t]
  <2>1. CASE acc
    BY <1>4, <2>1, Zenon
  <2>2. CASE ~acc /\ m \in Owed(w, L)
    <3>1. PICK x \in registry[t] : x.agent = m.agent /\ x.revision > m.revision
      BY <1>4, <2>2, Zenon
    <3>2. m.revision <= x.revision
      BY <1>2, <1>3, <3>1 DEF Records
    <3>3. QED
      BY <1>4, <2>2, <3>1, <3>2, Zenon DEF GapInv, Closed
  <2>3. QED
    BY <2>1, <2>2, Zenon
<1>14. \A k \in Nodes : \A x \in batch'[k] : Closed(w, L, x, Target(k), batch[k])'
  <2> SUFFICES ASSUME NEW k \in Nodes, NEW x \in batch'[k], NEW y \in Owed(w, L),
                      y.revision <= x.revision
               PROVE  y \in registry'[Target(k)] \/ y \in batch'[k]
    BY <1>4, Zenon DEF Closed, Target
  <2>1. y \in registry[Target(k)] \/ y \in batch[k]
    BY <1>5, Zenon DEF GapInv, Closed
  <2>2. CASE y \in registry[Target(k)]
    <3>1. Target(k) \in Nodes
      BY Zenon DEF Target, TypeOK
    <3>2. QED
      BY <1>4, <2>2, <3>1, Zenon
  <2>3. CASE y \in batch[k] /\ ~(k = n /\ y = m)
    BY <1>5, <2>3, Zenon
  <2>4. CASE k = n /\ y = m
    BY <1>13, <2>4, Zenon
  <2>5. QED
    BY <2>1, <2>2, <2>3, <2>4, Zenon
<1>15. \A k \in Nodes : Has(w, L, k, local[k])' /\ Has(w, L, peer[k], remote[k])'
  <2>1. \A k \in Nodes : Has(w, L, k, local[k]) /\ Has(w, L, peer[k], remote[k])
    BY Zenon DEF GapInv
  <2>2. \A k \in Nodes : peer[k] \in Nodes
    BY Zenon DEF TypeOK
  <2>3. QED
    BY <1>4, <2>1, <2>2, Zenon DEF Has
<1>16. QED
  BY <1>8, <1>9, <1>10, <1>12, <1>14, <1>15, Zenon DEF GapInv, flightVars

(* A fetch fills the batch of n with a lowest part of the source's records *)
(* above a cursor up to which the target has what it is owed.              *)
LEMMA FetchKeepsGapInv ==
  ASSUME TypeOK, NEW w \in Nodes, NEW L, GapInv(w, L), NEW n \in Nodes,
         NEW src \in Nodes, NEW tgt \in Nodes, NEW v \in 0..MaxRevision, Has(w, L, tgt, v),
         NEW S, LowestPart(S, registry[src], v), batch' = [batch EXCEPT ![n] = S],
         pc' \in [Nodes -> {"idle", "stats", "pull", "merge", "push"}],
         pc'[n] # "idle", \A k \in Nodes : k # n => pc'[k] = pc[k],
         tgt = IF pc'[n] = "push" THEN peer[n] ELSE n,
         UNCHANGED <<registry, todo, peer, local, remote, issued, intact>>
  PROVE  GapInv(w, L)'
<1>1. S \subseteq registry[src] /\ \A x \in S : x \in Records /\ Held(x)
  BY Zenon DEF LowestPart, TypeOK, Held
<1>2. batch'[n] = S /\ \A k \in Nodes : k # n => batch'[k] = batch[k]
  BY Zenon DEF TypeOK
<1>3. \A r \in Records : Held(r)' => Held(r)
  BY <1>1, <1>2, Zenon DEF Held
<1>4. \A k \in Nodes : \A x \in registry[k] : x \in Records /\ Held(x)
  BY Zenon DEF TypeOK, Held
<1>5. \A x \in S : \A y \in Owed(w, L) :
        y.revision <= x.revision => y \in registry[tgt] \/ y \in S
  <2> SUFFICES ASSUME NEW x \in S, NEW y \in Owed(w, L), y.revision <= x.revision, y \notin S
               PROVE  y \in registry[tgt]
    BY Zenon
  <2>1. y \in registry[src]
    BY <1>1, Zenon DEF GapInv, Closed
  <2>2. CASE y.revision > v
    <3>1. x.revision = y.revision
      BY <1>1, <1>4, <2>1, <2>2 DEF LowestPart, Records
    <3>2. x = y
      BY <1>1, <1>4, <2>1, <3>1, Zenon DEF GapInv
    <3>3. QED
      BY <3>2, Zenon
  <2>3. CASE y.revision <= v
    BY <2>3, Zenon DEF Has
  <2>4. y.revision \in Nat
    BY <1>4, <2>1 DEF Records
  <2>5. QED
    BY <2>2, <2>3, <2>4
<1>6. \A k \in Nodes : \A x \in batch'[k] : Closed(w, L, x, Target(k), batch[k])'
  <2> SUFFICES ASSUME NEW k \in Nodes, NEW x \in batch'[k]
               PROVE  Closed(w, L, x, Target(k), batch[k])'
    BY Zenon
  <2>1. CASE k = n
    BY <1>2, <1>5, <2>1, Zenon DEF Closed, Target, Owed
  <2>2. CASE k # n
    BY <1>2, <2>2 DEF GapInv, Closed, Target, Owed
  <2>3. QED
    BY <2>1, <2>2, Zenon
<1>7. /\ \A r \in Records : Held(r)' =>
           r.revision > 0 /\ r.revision <= issued' /\ r.endpoint # NoEndpoint
      /\ \A r, s \in Records : Held(r)' /\ Held(s)' /\ r.revision = s.revision => r = s
      /\ \A r \in Records : Held(r)' /\ r.agent \in L =>
           \E y \in registry'[w] : y.agent = r.agent /\ r.revision <= y.revision
  BY <1>3, Zenon DEF GapInv
<1>8. \A k \in Nodes : \A x \in registry'[k] : Closed(w, L, x, k, {})'
  BY Zenon DEF GapInv, Closed, Owed
<1>9. \A k \in Nodes : /\ Has(w, L, k, local[k])' /\ Has(w, L, peer[k], remote[k])'
                       /\ local'[k] <= issued' /\ remote'[k] <= issued'
  BY Zenon DEF GapInv, Has, Owed
<1>10. \A k \in Nodes : pc'[k] = "idle" => remote'[k] = 0
  BY Zenon DEF GapInv
<1>11. QED
  BY <1>6, <1>7, <1>8, <1>9, <1>10, Zenon DEF GapInv

(* A step that leaves registries alone and moves only the cursors of n,    *)
(* which has no records in flight afterwards.                              *)
LEMMA CursorKeepsGapInv ==
  ASSUME TypeOK, NEW w \in Nodes, NEW L, GapInv(w, L), NEW n \in Nodes,
         batch' = [batch EXCEPT ![n] = {}],
         \A k \in Nodes : k # n => /\ pc'[k] = pc[k] /\ peer'[k] = peer[k]
                                  /\ local'[k] = local[k] /\ remote'[k] = remote[k],
         Has(w, L, n, local'[n]), Has(w, L, peer'[n], remote'[n]),
         local'[n] <= issued, remote'[n] <= issued,
         pc'[n] = "idle" => remote'[n] = 0,
         UNCHANGED <<registry, issued, intact>>
  PROVE  GapInv(w, L)'
<1>1. batch'[n] = {} /\ \A k \in Nodes : k # n => batch'[k] = batch[k]
  BY Zenon DEF TypeOK
<1>2. \A r \in Records : Held(r)' => Held(r)
  BY <1>1, Zenon DEF Held
<1>3. \A k \in Nodes : \A x \in batch'[k] : Closed(w, L, x, Target(k), batch[k])'
  BY <1>1 DEF GapInv, Closed, Target, Owed
<1>4. /\ \A r \in Records : Held(r)' =>
           r.revision > 0 /\ r.revision <= issued' /\ r.endpoint # NoEndpoint
      /\ \A r, s \in Records : Held(r)' /\ Held(s)' /\ r.revision = s.revision => r = s
      /\ \A r \in Records : Held(r)' /\ r.agent \in L =>
           \E y \in registry'[w] : y.agent = r.agent /\ r.revision <= y.revision
  BY <1>2, Zenon DEF GapInv
<1>5. \A k \in Nodes : \A x \in registry'[k] : Closed(w, L, x, k, {})'
  BY Zenon DEF GapInv, Closed, Owed
<1>6. \A k \in Nodes : /\ Has(w, L, k, local[k])' /\ Has(w, L, peer[k], remote[k])'
                       /\ local'[k] <= issued' /\ remote'[k] <= issued'
  BY Zenon DEF GapInv, Has, Owed
<1>7. \A k \in Nodes : pc'[k] = "idle" => remote'[k] = 0
  BY Zenon DEF GapInv
<1>8. QED
  BY <1>3, <1>4, <1>5, <1>6, <1>7, Zenon DEF GapInv

(* Nothing is owed at revision 0.                                          *)
LEMMA ZeroIsSound ==
  ASSUME TypeOK, NEW w \in Nodes, NEW L, GapInv(w, L), NEW k \in Nodes
  PROVE  Has(w, L, k, 0)
<1>1. \A y \in Owed(w, L) : y \in Records /\ y.revision > 0
  BY Zenon DEF Owed, TypeOK, GapInv, Held
<1>2. QED
  BY <1>1 DEF Has, Records

(* The highest revision of a registry is a sound cursor.                   *)
LEMMA HighestIsSound ==
  ASSUME TypeOK, NEW w \in Nodes, NEW L, GapInv(w, L), NEW k \in Nodes, NEW v \in 0..MaxRevision,
         IsHighestRevision(registry[k], v)
  PROVE  Has(w, L, k, v) /\ v <= issued
<1>1. CASE v = 0
  BY <1>1, ZeroIsSound DEF TypeOK
<1>2. ASSUME NEW x \in registry[k], x.revision = v
      PROVE  Has(w, L, k, v) /\ v <= issued
  <2>1. x \in Records /\ Held(x) /\ Closed(w, L, x, k, {})
    BY Zenon DEF TypeOK, Held, GapInv
  <2>2. QED
    BY <1>2, <2>1, Zenon DEF Has, Closed, GapInv
<1>3. QED
  BY <1>1, <1>2, Zenon DEF IsHighestRevision

(* An accepted heartbeat with a fresh revision is a registration of the    *)
(* refreshed record.                                                       *)
LEMMA HeartbeatIsUpsert ==
  ASSUME NEW R \in SUBSET Records, \A x, y \in R : x.agent = y.agent => x = y,
         NEW a \in Agents, NEW v \in 1..MaxRevision, HeartbeatAccepted(R, a, v)
  PROVE  \E z \in Records : /\ z.agent = a /\ z.revision = v
                          /\ \E x \in R : z.endpoint = x.endpoint
                          /\ RefreshHeartbeat(R, a, 0, v) = Upsert(R, z)
<1>1. PICK x \in R : x.agent = a
  BY Zenon DEF HeartbeatAccepted, Find
<1> DEFINE Bump(y) == [y EXCEPT !.expires = 0, !.revision = v]
<1>2. \A y \in R : /\ Bump(y) \in Records /\ Bump(y).revision = v
                  /\ Bump(y).agent = y.agent /\ Bump(y).endpoint = y.endpoint
  BY RefreshedRecord, Zenon
<1>3. RefreshHeartbeat(R, a, 0, v) = {y \in R : y.agent # a} \cup {Bump(y) : y \in {y \in R : y.agent = a}}
  BY Zenon DEF RefreshHeartbeat, Find
<1> HIDE DEF Bump
<1>4. {y \in R : y.agent = a} = {x}
  BY <1>1, Zenon
<1>5. {Bump(y) : y \in {y \in R : y.agent = a}} = {Bump(x)}
  BY <1>4, Zenon
<1>6. Upsert(R, Bump(x)) = {y \in R : y.agent # a} \cup {Bump(x)}
  BY <1>1, <1>2, Zenon DEF Upsert, Find
<1>7. QED
  BY <1>1, <1>2, <1>3, <1>5, <1>6, Zenon

(* A step of a gossip thread, completed, cut off or failed.                *)
LEMMA SyncKeepsGapInv ==
  ASSUME TypeOK, TypeOK', NEW w \in Nodes, NEW L, GapInv(w, L), NEW n \in Nodes,
         SyncStep(n) \/ BadStep(n), intact'
  PROVE  GapInv(w, L)'
<1>0. \A k \in Nodes : Has(w, L, k, 0)
  BY ZeroIsSound, Zenon
<1>1. CASE StartRound(n)
  <2>1. UNCHANGED <<registry, pc, peer, local, remote, batch, issued, intact>>
    BY <1>1, Zenon DEF StartRound, flightVars
  <2>2. QED
    BY <2>1 DEF GapInv, Held, Has, Owed, Closed, Target
<1>2. ASSUME NEW p \in Nodes, Begin(n, p) PROVE GapInv(w, L)'
  <2>1. PICK h \in 0..MaxRevision :
          IsHighestRevision(registry[n], h) /\ local' = [local EXCEPT ![n] = h]
    BY <1>2, Zenon DEF Begin
  <2>2. Has(w, L, n, h) /\ h <= issued
    BY <2>1, HighestIsSound, Zenon
  <2>3. local'[n] = h /\ remote'[n] = 0 /\ batch' = [batch EXCEPT ![n] = {}]
    BY <1>2, <2>1 DEF Begin, TypeOK, GapInv
  <2>4. /\ Has(w, L, n, local'[n]) /\ Has(w, L, peer'[n], remote'[n])
        /\ local'[n] <= issued /\ remote'[n] <= issued
    BY <1>0, <2>2, <2>3 DEF TypeOK
  <2>5. \A k \in Nodes : k # n => /\ pc'[k] = pc[k] /\ peer'[k] = peer[k]
                                 /\ local'[k] = local[k] /\ remote'[k] = remote[k]
    BY <1>2, <2>1 DEF Begin, TypeOK
  <2>6. UNCHANGED <<registry, issued, intact>> /\ (pc'[n] = "idle" => remote'[n] = 0)
    BY <1>2, <2>3, Zenon DEF Begin, flightVars
  <2>7. QED
    BY <2>3, <2>4, <2>5, <2>6, CursorKeepsGapInv, Zenon
<1>3. CASE Stats(n) \/ StatsCut(n)
  <2>1. PICK h \in 0..MaxRevision, u \in 0..MaxRevision :
          IsHighestRevision(registry[peer[n]], h) /\ u <= h /\ remote' = [remote EXCEPT ![n] = u]
    <3>1. CASE Stats(n)
      <4>1. PICK h \in 0..MaxRevision :
              IsHighestRevision(registry[peer[n]], h) /\ remote' = [remote EXCEPT ![n] = h]
        BY <3>1, Zenon DEF Stats
      <4>2. h <= h
        OBVIOUS
      <4>3. QED
        BY <4>1, <4>2, Zenon
    <3>2. CASE StatsCut(n)
      <4>1. PICK h, u :
              /\ h \in 0..MaxRevision /\ u \in Prefixes(h) /\ IsHighestRevision(registry[peer[n]], h)
              /\ remote' = [remote EXCEPT ![n] = u]
        BY <3>2, Zenon DEF StatsCut
      <4>2. u \in 0..MaxRevision /\ u <= h
        BY <4>1, PrefixBelow, Zenon
      <4>3. QED
        BY <4>1, <4>2, Zenon
    <3>3. QED
      BY <1>3, <3>1, <3>2, Zenon
  <2>2. peer[n] \in Nodes /\ Has(w, L, peer[n], h) /\ h <= issued
    BY <2>1, HighestIsSound, Zenon DEF TypeOK
  <2>3. Has(w, L, peer[n], u) /\ u <= issued
    <3>1. \A y \in Owed(w, L) : y.revision \in Nat
      BY DEF Owed, TypeOK, Records
    <3>2. QED
      BY <2>1, <2>2, <3>1 DEF Has, TypeOK
  <2>4. /\ pc[n] = "stats" /\ pc' = [pc EXCEPT ![n] = "pull"]
        /\ UNCHANGED <<registry, peer, local, batch, issued, intact>>
    BY <1>3, Zenon DEF Stats, StatsCut, flightVars
  <2>5. batch[n] = {} /\ batch' = [batch EXCEPT ![n] = {}]
    BY <2>4 DEF TypeOK
  <2>6. remote'[n] = u /\ pc'[n] = "pull"
    BY <2>1, <2>4, Zenon DEF TypeOK
  <2>7. /\ Has(w, L, n, local'[n]) /\ Has(w, L, peer'[n], remote'[n])
        /\ local'[n] <= issued /\ remote'[n] <= issued
    BY <2>3, <2>4, <2>6, Zenon DEF GapInv
  <2>8. \A k \in Nodes : k # n => /\ pc'[k] = pc[k] /\ peer'[k] = peer[k]
                                 /\ local'[k] = local[k] /\ remote'[k] = remote[k]
    BY <2>1, <2>4, Zenon DEF TypeOK
  <2>9. pc'[n] # "idle"
    BY <2>6, Zenon
  <2>10. QED
    BY <2>4, <2>5, <2>7, <2>8, <2>9, CursorKeepsGapInv, Zenon
<1>4. CASE Pull(n) \/ PullCut(n)
  <2>1. PICK S : /\ LowestPart(S, registry[peer[n]], local[n])
                 /\ batch' = [batch EXCEPT ![n] = S]
    BY <1>4, EntriesAreLowest, CutBatchIsLowest, Zenon DEF Pull, PullCut
  <2>2. peer[n] \in Nodes /\ local[n] \in 0..MaxRevision /\ Has(w, L, n, local[n])
    BY Zenon DEF TypeOK, GapInv
  <2>3. /\ pc'[n] = "merge" /\ \A k \in Nodes : k # n => pc'[k] = pc[k]
        /\ UNCHANGED <<registry, todo, peer, local, remote, issued, intact>>
    BY <1>4, Zenon DEF Pull, PullCut, CutBatch, TypeOK, flightVars
  <2>4. pc' \in [Nodes -> {"idle", "stats", "pull", "merge", "push"}]
    BY Zenon DEF TypeOK
  <2>5. QED
    BY <2>1, <2>2, <2>3, <2>4, FetchKeepsGapInv, Zenon
<1>5. CASE Merge(n)
  <2>1. n = Target(n) /\ Deliver(n, n)
        /\ UNCHANGED <<todo, pc, peer, local, remote, issued, flightVars>>
    BY <1>5, Zenon DEF Merge, Target
  <2>2. QED
    BY <2>1, DeliverKeepsGapInv, Zenon
<1>6. CASE Plan(n)
  <2>1. PICK S : /\ LowestPart(S, registry[n], remote[n])
                 /\ batch' = [batch EXCEPT ![n] = S]
    BY <1>6, EntriesAreLowest, Zenon DEF Plan
  <2>2. peer[n] \in Nodes /\ remote[n] \in 0..MaxRevision /\ Has(w, L, peer[n], remote[n])
    BY Zenon DEF TypeOK, GapInv
  <2>3. /\ pc'[n] = "push" /\ \A k \in Nodes : k # n => pc'[k] = pc[k]
        /\ UNCHANGED <<registry, todo, peer, local, remote, issued, intact>>
    BY <1>6, Zenon DEF Plan, TypeOK, flightVars
  <2>4. pc' \in [Nodes -> {"idle", "stats", "pull", "merge", "push"}]
    BY Zenon DEF TypeOK
  <2>5. QED
    BY <2>1, <2>2, <2>3, <2>4, FetchKeepsGapInv, Zenon
<1>7. CASE Push(n)
  <2>1. peer[n] = Target(n) /\ peer[n] \in Nodes /\ Deliver(n, peer[n])
        /\ UNCHANGED <<todo, pc, peer, local, remote, issued, flightVars>>
    BY <1>7, Zenon DEF Push, Deliver, Target, TypeOK
  <2>2. QED
    BY <2>1, DeliverKeepsGapInv, Zenon
<1>8. CASE Done(n) \/ Fail(n)
  <2>1. /\ pc' = [pc EXCEPT ![n] = "idle"] /\ batch' = [batch EXCEPT ![n] = {}]
        /\ local' = [local EXCEPT ![n] = 0] /\ remote' = [remote EXCEPT ![n] = 0]
        /\ peer' = [peer EXCEPT ![n] = n] /\ UNCHANGED <<registry, issued, intact>>
    BY <1>8, Zenon DEF Done, Fail, LeavePeer
  <2>2. /\ pc \in [Nodes -> {"idle", "stats", "pull", "merge", "push"}]
        /\ peer \in [Nodes -> Nodes] /\ local \in [Nodes -> 0..MaxRevision]
        /\ remote \in [Nodes -> 0..MaxRevision]
    BY Zenon DEF TypeOK
  <2>3. /\ local'[n] = 0 /\ remote'[n] = 0 /\ peer'[n] = n
        /\ \A k \in Nodes : k # n => /\ pc'[k] = pc[k] /\ peer'[k] = peer[k]
                                    /\ local'[k] = local[k] /\ remote'[k] = remote[k]
    BY <2>1, <2>2
  <2>4. 0 <= issued
    BY DEF TypeOK
  <2>5. /\ Has(w, L, n, local'[n]) /\ Has(w, L, peer'[n], remote'[n])
        /\ local'[n] <= issued /\ remote'[n] <= issued
    BY <1>0, <2>3, <2>4, Zenon
  <2>6. QED
    BY <2>1, <2>3, <2>5, CursorKeepsGapInv, Zenon
<1>9. CASE MergePartial(n) \/ PullCutInLine(n)
  BY <1>9, Zenon DEF MergePartial, PullCutInLine, TypeOK, GapInv
<1>10. CASE PushRefused(n)
  <2>1. PICK r \in batch[n] : r.endpoint = NoEndpoint
    BY <1>10, Zenon DEF PushRefused, LowestOf
  <2>2. r \in Records /\ Held(r)
    BY Zenon DEF TypeOK, Held
  <2>3. QED
    BY <2>1, <2>2, Zenon DEF GapInv
<1>11. QED
  BY <1>1, <1>2, <1>3, <1>4, <1>5, <1>6, <1>7, <1>8, <1>9, <1>10, Zenon DEF SyncStep, BadStep

(* The cursor invariant holds throughout when one node registers agents    *)
(* with fresh revisions, for all of them, until an answer is cut off       *)
(* within a line.                                                          *)
LEMMA GapInvAlways ==
  ASSUME NEW w \in Nodes, Registrars = {w}, Fresh
  PROVE  Spec => [](intact => GapInv(w, Agents))
<1>1. Init => GapInv(w, Agents)
  BY DEF Init, GapInv, Held, Has, Owed, Closed
<1>2. TypeOK /\ TypeOK' /\ (intact => GapInv(w, Agents)) /\ [Next]_vars
        => (intact' => GapInv(w, Agents)')
  <2>0. ASSUME intact', [Next]_vars PROVE intact
    BY <2>0, Zenon DEF Next, SyncStep, BadStep, RegisterAgent, Heartbeat, StartRound, Begin, Stats,
       StatsCut, Pull, PullCut, PullCutInLine, Merge, MergePartial, Plan, Push, PushRefused, Done,
       Fail, LeavePeer, vars, syncVars, flightVars
  <2> SUFFICES ASSUME TypeOK, TypeOK', GapInv(w, Agents), [Next]_vars, intact'
               PROVE  GapInv(w, Agents)'
    BY <2>0, Zenon
  <2>1. ASSUME NEW n \in Nodes, NEW r \in Registrations, RegisterAgent(n, r)
        PROVE  GapInv(w, Agents)'
    <3>1. n = w /\ r.revision > issued
      BY <2>1, Zenon DEF RegisterAgent, MayUse
    <3>2. /\ registry' = [registry EXCEPT ![w] = Upsert(@, r)]
          /\ issued' = r.revision /\ UNCHANGED syncVars
      BY <2>1, <3>1, Zenon DEF RegisterAgent, Issue
    <3>3. QED
      BY <3>1, <3>2, RegistrarTakes, RegistrationsAreRecords, Zenon
  <2>2. ASSUME NEW n \in Nodes, NEW a \in Agents, NEW v \in 1..MaxRevision, Heartbeat(n, a, v)
        PROVE  GapInv(w, Agents)'
    <3>1. n = w /\ v > issued
      BY <2>2, Zenon DEF Heartbeat, MayUse
    <3>2. PICK z \in Records :
            /\ z.revision = v /\ z.endpoint # NoEndpoint
            /\ RefreshHeartbeat(registry[w], a, 0, v) = Upsert(registry[w], z)
      <4>1. registry[w] \in SUBSET Records
        BY Zenon DEF TypeOK
      <4>2. \A x, y \in registry[w] : x.agent = y.agent => x = y
        BY Zenon DEF GapInv
      <4>3. HeartbeatAccepted(registry[w], a, v)
        BY <2>2, <3>1, Zenon DEF Heartbeat
      <4>4. \A x \in registry[w] : x.endpoint # NoEndpoint
        BY <4>1, Zenon DEF GapInv, Held
      <4>5. QED
        BY <4>1, <4>2, <4>3, <4>4, HeartbeatIsUpsert
    <3>3. /\ registry' = [registry EXCEPT ![w] = RefreshHeartbeat(registry[w], a, 0, v)]
          /\ issued' = v /\ UNCHANGED syncVars
      BY <2>2, <3>1, Zenon DEF Heartbeat, Issue
    <3>4. registry' = [registry EXCEPT ![w] = Upsert(@, z)]
      BY <3>2, <3>3, Zenon
    <3>5. QED
      BY <3>1, <3>2, <3>3, <3>4, RegistrarTakes, Zenon
  <2>3. ASSUME NEW n \in Nodes, SyncStep(n) \/ BadStep(n)
        PROVE  GapInv(w, Agents)'
    BY <2>3, SyncKeepsGapInv, Zenon
  <2>4. CASE UNCHANGED vars
    BY <2>4, Zenon DEF vars, syncVars, flightVars, GapInv, Held, Has, Owed, Closed, Target
  <2>5. QED
    BY <2>1, <2>2, <2>3, <2>4, Zenon DEF Next
<1>3. QED
  BY <1>1, <1>2, TypeCorrect, PTL DEF Spec

(* With one registering node and fresh revisions, a node that has reached  *)
(* a revision has everything the registrar holds up to it: the cursor that *)
(* sync_with_peer() starts from never skips a record.                      *)
THEOREM CursorIsSound ==
  ASSUME NEW w \in Nodes, Registrars = {w}, Fresh
  PROVE  Spec => []NoGaps
<1>1. TypeOK /\ (intact => GapInv(w, Agents)) => NoGaps
  BY DEF GapInv, NoGaps, Closed, Owed, TypeOK, Records
<1>2. QED
  BY <1>1, GapInvAlways, TypeCorrect, PTL

(* Under the same assumptions the highest revision stands for the whole    *)
(* registry: a node that has reached the registrar's holds its records and *)
(* no others.  Without gaps it has all of them; anything else it held      *)
(* would be an older record of one of the same agents, and a registry has  *)
(* one record per agent.                                                   *)
THEOREM CaughtUpIsEqual ==
  ASSUME NEW w \in Nodes, Registrars = {w}, Fresh
  PROVE  Spec => []EqualRevisionsEqualRecords
<1>1. ASSUME TypeOK, GapInv(w, Agents), NEW n \in Nodes, NEW h \in 0..MaxRevision,
             IsHighestRevision(registry[w], h), IsHighestRevision(registry[n], h)
      PROVE  registry[n] = registry[w]
  <2>1. registry[n] \subseteq Records /\ registry[w] \subseteq Records
    BY <1>1, Zenon DEF TypeOK
  <2>2. ASSUME NEW y \in registry[w] PROVE y \in registry[n]
    <3>0. y \in Records /\ y.revision > 0 /\ y.revision <= h
      BY <1>1, <2>1, <2>2, Zenon DEF GapInv, Held, IsHighestRevision
    <3>1. PICK x \in registry[n] : x.revision = h
      BY <1>1, <3>0 DEF IsHighestRevision, Records
    <3>2. y.revision <= x.revision
      BY <1>1, <2>2, <3>1, Zenon DEF IsHighestRevision
    <3>3. y.agent \in Agents
      BY <2>1, <2>2 DEF Records
    <3>4. Closed(w, Agents, x, n, {})
      BY <1>1, <3>1, Zenon DEF GapInv
    <3>5. QED
      BY <2>2, <3>2, <3>3, <3>4 DEF Closed, Owed
  <2>3. ASSUME NEW x \in registry[n] PROVE x \in registry[w]
    <3>1. x \in Records /\ x.agent \in Agents
      BY <2>1, <2>3 DEF Records
    <3>2. Held(x)
      BY <2>3, Zenon DEF Held
    <3>3. PICK y \in registry[w] : y.agent = x.agent
      BY <1>1, <3>1, <3>2, Zenon DEF GapInv
    <3>4. y \in registry[n]
      BY <2>2, Zenon
    <3>5. y = x
      BY <1>1, <2>3, <3>3, <3>4, Zenon DEF GapInv
    <3>6. QED
      BY <3>5, Zenon
  <2>4. QED
    BY <2>2, <2>3, Zenon
<1>2. TypeOK /\ (intact => GapInv(w, Agents)) => EqualRevisionsEqualRecords
  BY <1>1, Zenon DEF EqualRevisionsEqualRecords
<1>3. QED
  BY <1>2, GapInvAlways, TypeCorrect, PTL

=============================================================================
