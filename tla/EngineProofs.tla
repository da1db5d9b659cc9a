---------------------------- MODULE EngineProofs ----------------------------
(***************************************************************************)
(* Proofs about Engine, for any agents, registrations, clocks and bounds:  *)
(* types, one record for each agent, the pinned keys, how long a heartbeat *)
(* counts, and what the log and a recovery make of the registry.           *)
(***************************************************************************)
EXTENDS Engine, TLAPS

USE RecordAssumption, EngineAssumption

-----------------------------------------------------------------------------
(* The conversions between the forms of a record keep its type.            *)
LEMMA WithExpiryType ==
  ASSUME NEW q \in Registration, NEW t \in Nat
  PROVE  WithExpiry(q, t) \in AgentRecords
BY Zenon DEF WithExpiry, Registration, AgentRecords

(* A registration through protobuf is an agent record,                     *)
LEMMA FromProtoType ==
  ASSUME NEW q \in Registration
  PROVE  FromProto(q) \in Registration
BY Zenon DEF FromProto, Registration, SignatureTexts

(* what is logged of it is a log entry,                                    *)
LEMMA ToEntryType ==
  ASSUME NEW r \in AgentRecords
  PROVE  ToEntry(r) \in Entries
BY Zenon DEF ToEntry, AgentRecords, Entries, SignatureTexts

(* and what is recovered from that is an agent record again.               *)
LEMMA FromEntryType ==
  ASSUME NEW e \in Entries, NEW t \in Nat
  PROVE  FromEntry(e, t) \in AgentRecords
BY Zenon DEF FromEntry, AgentRecords, Entries, SignatureTexts

(* Loading a record keeps a set of records.                                *)
LEMMA LoadType ==
  ASSUME NEW R \in SUBSET AgentRecords, NEW r \in AgentRecords, NEW t \in Nat
  PROVE  LoadRecord(R, r, t) \in SUBSET AgentRecords
BY Zenon DEF LoadRecord, Find, AgentRecords

(* So does a heartbeat.                                                    *)
LEMMA RefreshType ==
  ASSUME NEW R \in SUBSET AgentRecords, NEW a, NEW t \in Nat, NEW v \in Revisions
  PROVE  RefreshHeartbeat(R, a, t, v) \in SUBSET AgentRecords
<1>1. \A x \in R : [x EXCEPT !.expires = t, !.revision = v] \in AgentRecords
  BY Zenon DEF AgentRecords
<1>2. QED
  BY <1>1, Zenon DEF RefreshHeartbeat, Find

(* verify_and_register leaves a trust store.                               *)
LEMMA RegisterType ==
  ASSUME NEW tr \in [Agents -> KeyTexts], NEW r \in AgentRecords
  PROVE  Register(tr, r) \in [Agents -> KeyTexts]
BY Zenon DEF Register, AgentRecords

(* A process starts with an empty trust store and no promises.             *)
LEMMA EmptyTypes ==
  EmptyTrust \in [Agents -> KeyTexts] /\ NoDeadline \in [Agents -> Nat]
BY Zenon DEF EmptyTrust, NoDeadline, KeyTexts

(* Going on to the next pulled record leaves the thread idle or in a batch.*)
LEMMA NextInBatchType ==
  ASSUME batch \in Seq(AgentRecords), batch # <<>>, NextInBatch
  PROVE  /\ batch' \in Seq(AgentRecords)
         /\ gsPc' \in {"idle", "verify"}
         /\ gsPc' = "idle" <=> batch' = <<>>
BY DEF NextInBatch

-----------------------------------------------------------------------------
(* Type correctness of the engine: every step of every thread leaves the   *)
(* registry, the trust store, the log and the threads' work well-typed.    *)
THEOREM TypeCorrect == Spec => []TypeOK
<1>1. Init => TypeOK
  <2> SUFFICES ASSUME Init PROVE TypeOK
    BY Zenon
  <2>1. records \in SUBSET AgentRecords /\ acked \in SUBSET Acks
    BY Zenon DEF Init
  <2>2. wal \in Seq(Entries) /\ batch \in Seq(AgentRecords) /\ loadIx \in Nat \ {0}
    BY DEF Init
  <2>3. QED
    BY <2>1, <2>2, EmptyTypes, Zenon DEF Init, TypeOK
<1>2. TypeOK /\ [Next]_vars => TypeOK'
  <2> SUFFICES ASSUME TypeOK, [Next]_vars PROVE TypeOK'
    BY Zenon
  <2>1. CASE Start
    BY <2>1 DEF TypeOK, Start, ctlVars, gsVars
  <2>2. CASE Load
    <3>1. wal[loadIx] \in Entries /\ now \in Nat /\ now + Year \in Nat
      BY <2>2 DEF Load, TypeOK
    <3>2. records' \in SUBSET AgentRecords
      BY <2>2, <3>1, FromEntryType, LoadType, Zenon DEF Load, TypeOK
    <3>3. QED
      BY <2>2, <3>2 DEF Load, TypeOK, ctlVars, gsVars
  <2>3. CASE StartThreads
    BY <2>3, Zenon DEF TypeOK, StartThreads, ctlVars, gsVars
  <2>4. CASE Purge
    BY <2>4, Zenon DEF TypeOK, Purge, PurgeExpired, ctlVars, gsVars
  <2>5. ASSUME NEW q \in Submissions, NEW proto \in BOOLEAN, CtlRegister(q, proto)
        PROVE  TypeOK'
    <3>1. q \in Registration /\ FromProto(q) \in Registration
      BY FromProtoType, Zenon
    <3>2. ctlReq' \in AgentRecords
      BY <2>5, <3>1, WithExpiryType DEF CtlRegister, TypeOK
    <3>3. QED
      BY <2>5, <3>2, Zenon DEF CtlRegister, TypeOK, gsVars
  <2>6. CASE CtlUpsert
    <3>1. records' \in SUBSET AgentRecords
      BY <2>6, Zenon DEF CtlUpsert, Upsert, TypeOK
    <3>2. QED
      BY <2>6, <3>1, Zenon DEF CtlUpsert, TypeOK, gsVars
  <2>7. CASE CtlAppend
    BY <2>7, ToEntryType DEF CtlAppend, TypeOK, gsVars
  <2>8. CASE CtlFinish
    <3>1. ctlReq \in AgentRecords
      BY <2>8, Zenon DEF CtlFinish, TypeOK
    <3>2. trust' \in [Agents -> KeyTexts]
      BY <2>8, <3>1, RegisterType, Zenon DEF CtlFinish, TypeOK
    <3>3. acked' \in SUBSET Acks
      BY <2>8, <3>1 DEF CtlFinish, TypeOK, Acks, AgentRecords
    <3>4. deadline' \in [Agents -> Nat]
      BY <2>8, <3>1, Zenon DEF CtlFinish, TypeOK, AgentRecords
    <3>5. QED
      BY <2>8, <3>2, <3>3, <3>4, Zenon DEF CtlFinish, TypeOK, gsVars
  <2>9. ASSUME NEW a \in Agents, NEW v \in Revisions, CtlHeartbeat(a, v)
        PROVE  TypeOK'
    <3>1. ctlReq' \in Heartbeats
      BY <2>9 DEF CtlHeartbeat, TypeOK, Heartbeats
    <3>2. QED
      BY <2>9, <3>1, Zenon DEF CtlHeartbeat, TypeOK, gsVars
  <2>10. CASE CtlRefresh
    <3>1. ctlReq.agent \in Agents /\ ctlReq.revision \in Revisions /\ ctlReq.expires \in Nat
      BY <2>10, Zenon DEF CtlRefresh, TypeOK, Heartbeats
    <3>2. records' \in SUBSET AgentRecords
      BY <2>10, <3>1, RefreshType DEF CtlRefresh, TypeOK
    <3>3. deadline' \in [Agents -> Nat]
      BY <2>10, <3>1, Zenon DEF CtlRefresh, TypeOK
    <3>4. QED
      BY <2>10, <3>2, <3>3, Zenon DEF CtlRefresh, TypeOK, gsVars
  <2>11. ASSUME NEW b \in Batches, GossipPull(b)
         PROVE  TypeOK'
    <3>1. PICK n \in 1..MaxBatch : b \in [1..n -> Submissions]
      BY Zenon DEF Batches
    <3>2. \A i \in 1..n : WithExpiry(b[i], now + PullTTL) \in AgentRecords
      BY <3>1, WithExpiryType DEF TypeOK
    <3>3. batch' \in [1..n -> AgentRecords]
      BY <2>11, <3>1, <3>2, Zenon DEF GossipPull
    <3>4. batch' \in Seq(AgentRecords) /\ Len(batch') = n
      BY <3>3
    <3>5. batch' # <<>>
      BY <3>4
    <3>6. QED
      BY <2>11, <3>4, <3>5, Zenon DEF GossipPull, TypeOK, ctlVars
  <2>12. CASE GossipVerify
    <3>1. Head(batch) \in AgentRecords
      BY <2>12 DEF GossipVerify, TypeOK
    <3>2. trust' \in [Agents -> KeyTexts]
      BY <2>12, <3>1, RegisterType, Zenon DEF GossipVerify, TypeOK
    <3>3. QED
      BY <2>12, <3>2, NextInBatchType, Zenon DEF GossipVerify, TypeOK, ctlVars
  <2>13. CASE GossipUpsert
    <3>1. records' \in SUBSET AgentRecords
      BY <2>13 DEF GossipUpsert, Upsert, TypeOK
    <3>2. QED
      BY <2>13, <3>1, NextInBatchType, Zenon DEF GossipUpsert, TypeOK, ctlVars
  <2>14. CASE GossipAppend
    <3>1. Head(batch) \in AgentRecords
      BY <2>14 DEF GossipAppend, TypeOK
    <3>2. wal' \in Seq(Entries)
      BY <2>14, <3>1, ToEntryType DEF GossipAppend, TypeOK
    <3>3. QED
      BY <2>14, <3>2, NextInBatchType, Zenon DEF GossipAppend, TypeOK, ctlVars
  <2>15. CASE Crash
    <3>1. records' \in SUBSET AgentRecords /\ batch' \in Seq(AgentRecords)
      BY <2>15 DEF Crash
    <3>2. QED
      BY <2>15, <3>1, EmptyTypes, Zenon DEF Crash, TypeOK
  <2>16. CASE Tick
    BY <2>16 DEF Tick, TypeOK, ctlVars, gsVars
  <2>17. CASE UNCHANGED vars
    BY <2>17, Zenon DEF TypeOK, vars, ctlVars, gsVars
  <2>18. QED
    BY <2>1, <2>2, <2>3, <2>4, <2>5, <2>6, <2>7, <2>8, <2>9, <2>10, <2>11, <2>12,
       <2>13, <2>14, <2>15, <2>16, <2>17, Zenon DEF Next
<1>3. QED
  BY <1>1, <1>2, PTL DEF Spec

-----------------------------------------------------------------------------
(* No operation of the registry makes a second record for an agent.        *)
LEMMA OperationsKeepUnique ==
  ASSUME NEW R, \A x, y \in R : x.agent = y.agent => x = y
  PROVE  /\ \A r : \A x, y \in Upsert(R, r) : x.agent = y.agent => x = y
         /\ \A t : \A x, y \in PurgeExpired(R, t) : x.agent = y.agent => x = y
BY Zenon DEF Upsert, PurgeExpired, Find

(* Nor does load_from_persistence, whichever expiry it gives the record.   *)
LEMMA LoadKeepsUnique ==
  ASSUME NEW R, NEW r \in AgentRecords, NEW t,
         \A x, y \in R : x.agent = y.agent => x = y
  PROVE  \A x, y \in LoadRecord(R, r, t) : x.agent = y.agent => x = y
<1>1. [r EXCEPT !.expires = t].agent = r.agent
  BY Zenon DEF AgentRecords
<1>2. QED
  BY <1>1, Zenon DEF LoadRecord, Find

(* Nor does refresh_heartbeat, which rewrites records in place.            *)
LEMMA RefreshKeepsUnique ==
  ASSUME NEW R \in SUBSET AgentRecords, NEW a, NEW t, NEW v,
         \A x, y \in R : x.agent = y.agent => x = y
  PROVE  \A x, y \in RefreshHeartbeat(R, a, t, v) : x.agent = y.agent => x = y
<1>1. \A x \in R : [x EXCEPT !.expires = t, !.revision = v].agent = x.agent
  BY Zenon DEF AgentRecords
<1> DEFINE Bump(x) == [x EXCEPT !.expires = t, !.revision = v]
<1>2. \A x \in RefreshHeartbeat(R, a, t, v) :
        \/ x \in R /\ x.agent # a
        \/ \E z \in R : z.agent = a /\ x = Bump(z) /\ x.agent = a
  BY <1>1, Zenon DEF RefreshHeartbeat, Find
<1> HIDE DEF Bump
<1>3. QED
  BY <1>2

(* The registry lists no agent twice: OneRecordPerAgent is inductive.      *)
THEOREM UniqueRecords == Spec => []OneRecordPerAgent
<1>1. Init => OneRecordPerAgent
  BY Zenon DEF Init, OneRecordPerAgent
<1>2. TypeOK /\ OneRecordPerAgent /\ [Next]_vars => OneRecordPerAgent'
  <2> SUFFICES ASSUME TypeOK, OneRecordPerAgent, [Next]_vars PROVE OneRecordPerAgent'
    BY Zenon
  <2>1. CASE Load
    <3>1. FromEntry(wal[loadIx], now) \in AgentRecords
      BY <2>1, FromEntryType DEF Load, TypeOK
    <3>2. QED
      BY <2>1, <3>1, LoadKeepsUnique, Zenon DEF Load, OneRecordPerAgent
  <2>2. CASE Purge
    BY <2>2, OperationsKeepUnique, Zenon DEF Purge, OneRecordPerAgent
  <2>3. CASE CtlUpsert
    BY <2>3, OperationsKeepUnique, Zenon DEF CtlUpsert, OneRecordPerAgent
  <2>4. CASE CtlRefresh
    BY <2>4, RefreshKeepsUnique DEF CtlRefresh, OneRecordPerAgent, TypeOK
  <2>5. CASE GossipUpsert
    BY <2>5, OperationsKeepUnique, Zenon DEF GossipUpsert, OneRecordPerAgent
  <2>6. CASE Crash
    BY <2>6, Zenon DEF Crash, OneRecordPerAgent
  <2>7. CASE UNCHANGED records
    BY <2>7, Zenon DEF OneRecordPerAgent
  <2>8. QED
    BY <2>1, <2>2, <2>3, <2>4, <2>5, <2>6, <2>7, Zenon
    DEF Next, vars, Start, StartThreads, CtlRegister, CtlAppend, CtlFinish,
        CtlHeartbeat, GossipPull, GossipVerify, GossipAppend, Tick
<1>3. QED
  BY <1>1, <1>2, TypeCorrect, PTL DEF Spec

-----------------------------------------------------------------------------
(* A signed record between the gossip thread's check and its append has    *)
(* the pinned key: the check pins it or finds it pinned, and no step of    *)
(* the other threads changes a pin (only a crash empties the store, and it *)
(* empties the batch with it).                                             *)
THEOREM PinIsRespected == Spec => []MergeRespectsPin
<1>1. Init => MergeRespectsPin
  BY Zenon DEF Init, MergeRespectsPin
<1>2. TypeOK /\ MergeRespectsPin /\ [Next]_vars => MergeRespectsPin'
  <2> SUFFICES ASSUME TypeOK, MergeRespectsPin, [Next]_vars PROVE MergeRespectsPin'
    BY Zenon
  <2>1. \A k \in KeyTexts : Canonical[k] \in KeyTexts
    BY Zenon
  <2>2. CASE GossipVerify
    <3> DEFINE r == Head(batch)
    <3>1. r \in AgentRecords
      BY <2>2 DEF GossipVerify, TypeOK
    <3>2. CASE Verdict(trust, r) \in {"Valid", "Missing"}
      <4>1. SignatureStatus(r) = "Valid" => trust[r.agent] \in {NoKey, Canonical[r.key]}
        BY <3>2, Zenon DEF Verdict
      <4>2. SignatureStatus(r) = "Valid" => Register(trust, r)[r.agent] = Canonical[r.key]
        BY <3>1, <4>1, Zenon DEF Register, TypeOK, AgentRecords
      <4>3. trust' = Register(trust, r) /\ batch' = batch
        BY <2>2, <3>2, Zenon DEF GossipVerify
      <4>4. QED
        BY <4>2, <4>3, Zenon DEF MergeRespectsPin, SignatureStatus
    <3>3. CASE Verdict(trust, r) \notin {"Valid", "Missing"}
      BY <2>2, <3>3, Zenon DEF GossipVerify, NextInBatch, MergeRespectsPin
    <3>4. QED
      BY <3>2, <3>3, Zenon
  <2>3. CASE CtlFinish
    <3>1. ctlReq \in AgentRecords
      BY <2>3, Zenon DEF CtlFinish, TypeOK
    <3>2. \A a \in Agents : trust[a] # NoKey => trust'[a] = trust[a]
      BY <2>3, <3>1, Zenon DEF CtlFinish, Register, TypeOK, AgentRecords
    <3>3. SUFFICES ASSUME gsPc \in {"upsert", "append"},
                          SignatureStatus(Head(batch)) = "Valid"
                   PROVE  trust'[Head(batch).agent] = Canonical[Head(batch).key]
      BY <2>3, Zenon DEF CtlFinish, gsVars, MergeRespectsPin, SignatureStatus
    <3>4. Head(batch).agent \in Agents
      <4>1. Head(batch) \in AgentRecords
        BY <3>3 DEF TypeOK
      <4>2. QED
        BY <4>1, Zenon DEF AgentRecords
    <3>5. Canonical[Head(batch).key] # NoKey
      BY <3>3, Zenon DEF SignatureStatus
    <3>6. QED
      BY <3>2, <3>3, <3>4, <3>5, Zenon DEF MergeRespectsPin
  <2>4. CASE GossipUpsert
    BY <2>4, Zenon DEF GossipUpsert, NextInBatch, MergeRespectsPin, SignatureStatus
  <2>5. CASE GossipAppend
    BY <2>5, Zenon DEF GossipAppend, NextInBatch, MergeRespectsPin
  <2>6. CASE gsPc' \in {"idle", "verify"}
    BY <2>6, Zenon DEF MergeRespectsPin
  <2>7. CASE UNCHANGED <<gsPc, batch, trust>>
    BY <2>7, Zenon DEF MergeRespectsPin, SignatureStatus
  <2>8. QED
    BY <2>2, <2>3, <2>4, <2>5, <2>6, <2>7, Zenon
    DEF Next, vars, gsVars, Start, Load, StartThreads, Purge, CtlRegister, CtlUpsert,
        CtlAppend, CtlHeartbeat, CtlRefresh, GossipPull, Crash, Tick
<1>3. QED
  BY <1>1, <1>2, TypeCorrect, PTL DEF Spec

-----------------------------------------------------------------------------
(* The strengthening of HeartbeatHonoured.  No promise reaches further     *)
(* than HeartbeatTTL from now, no listed record expires before the promise *)
(* made for its agent, the request in progress promises no less than the   *)
(* one before it, and whatever the gossip thread has in hand expires no    *)
(* earlier than a heartbeat that came in right now would.                  *)
Promised(a, t) == \A x \in records : x.agent = a => t <= x.expires

Listed(a) == \E x \in records : x.agent = a

DeadlineInv ==
  /\ \A a \in Agents : deadline[a] <= now + HeartbeatTTL
  /\ mode # "running" => \A a \in Agents : deadline[a] = 0
  /\ \A a \in Agents : Promised(a, deadline[a])
  /\ \A a \in Agents : mode = "running" /\ now < deadline[a] => Listed(a)
  /\ ctlPc # "idle" => /\ deadline[ctlReq.agent] <= ctlReq.expires
                       /\ ctlReq.expires <= now + HeartbeatTTL
  /\ ctlPc \in {"append", "finish"} =>
       /\ Promised(ctlReq.agent, ctlReq.expires)
       /\ now < ctlReq.expires => Listed(ctlReq.agent)
  /\ \A i \in DOMAIN batch : /\ batch[i].expires = Head(batch).expires
                             /\ now + PullTTL <= batch[i].expires + MergeBound

(* The request in progress names an agent and an expiry.                   *)
LEMMA RequestType ==
  ASSUME TypeOK, ctlPc # "idle"
  PROVE  ctlReq.agent \in Agents /\ ctlReq.expires \in Nat
<1>1. ctlReq \in AgentRecords \/ ctlReq \in Heartbeats
  BY Zenon DEF TypeOK
<1>2. QED
  BY <1>1, Zenon DEF AgentRecords, Heartbeats

(* The record the gossip thread is working on.                             *)
LEMMA HeadOfBatch ==
  ASSUME TypeOK, gsPc # "idle"
  PROVE  /\ Head(batch) = batch[1] /\ 1 \in DOMAIN batch
         /\ Head(batch) \in AgentRecords
         /\ Head(batch).agent \in Agents /\ Head(batch).expires \in Nat
<1>1. batch \in Seq(AgentRecords) /\ batch # <<>>
  BY Zenon DEF TypeOK
<1>2. Head(batch) = batch[1] /\ 1 \in DOMAIN batch /\ Head(batch) \in AgentRecords
  BY <1>1
<1>3. QED
  BY <1>2, Zenon DEF AgentRecords

(* The rest of a batch came from the same answer.                          *)
LEMMA TailOfBatch ==
  ASSUME TypeOK, DeadlineInv, gsPc # "idle", NextInBatch, now' = now
  PROVE  \A i \in DOMAIN batch' : /\ batch'[i].expires = Head(batch').expires
                                  /\ now' + PullTTL <= batch'[i].expires + MergeBound
<1>1. batch \in Seq(AgentRecords) /\ batch # <<>> /\ batch' = Tail(batch)
  BY Zenon DEF TypeOK, NextInBatch
<1>2. ASSUME NEW i \in DOMAIN batch'
      PROVE  /\ i + 1 \in DOMAIN batch /\ batch'[i] = batch[i + 1]
             /\ 2 \in DOMAIN batch /\ Head(batch') = batch[2]
  BY <1>1
<1>3. QED
  BY <1>2, Zenon DEF DeadlineInv

(* Replacing an agent's record by one that expires no earlier than t keeps *)
(* a promise up to t, and keeps the agent listed.                          *)
LEMMA UpsertKeepsPromise ==
  ASSUME NEW r, NEW a, NEW t, records' = Upsert(records, r),
         Promised(a, t), r.agent = a => t <= r.expires
  PROVE  /\ Promised(a, t)'
         /\ (Listed(a) \/ r.agent = a) => Listed(a)'
BY Zenon DEF Upsert, Find, Promised, Listed

(* An acknowledged agent stays listed for the TTL it was promised, if a    *)
(* pulled batch is merged within PullTTL - HeartbeatTTL of being parsed.   *)
(* Nothing in the code enforces that bound; without it a batch that was    *)
(* parsed long ago replaces a fresh heartbeat's expiry with an older one.  *)
THEOREM HeartbeatIsHonoured ==
  ASSUME HeartbeatTTL + MergeBound <= PullTTL
  PROVE  Spec => []HeartbeatHonoured
<1>1. Init => DeadlineInv
  BY DEF Init, DeadlineInv, NoDeadline, Promised, Listed
<1>2. TypeOK /\ DeadlineInv /\ [Next]_vars => DeadlineInv'
  <2> SUFFICES ASSUME TypeOK, DeadlineInv, [Next]_vars PROVE DeadlineInv'
    BY Zenon
  <2>0. /\ now \in Nat /\ \A a \in Agents : deadline[a] \in Nat
        /\ \A x \in records : x.agent \in Agents /\ x.expires \in Nat
    BY Zenon DEF TypeOK, AgentRecords
  <2>1. CASE Start
    BY <2>1, Zenon DEF Start, DeadlineInv, Promised, Listed, ctlVars, gsVars
  <2>2. CASE Load
    <3>1. \A a \in Agents : deadline'[a] = 0
      BY <2>2, Zenon DEF Load, DeadlineInv
    <3>2. records' \in SUBSET AgentRecords
      <4>1. wal[loadIx] \in Entries /\ now + Year \in Nat
        BY <2>2 DEF Load, TypeOK
      <4>2. QED
        BY <2>2, <4>1, FromEntryType, LoadType, Zenon DEF Load, TypeOK
    <3>3. \A a \in Agents : Promised(a, deadline[a])'
      BY <3>1, <3>2 DEF Promised, AgentRecords
    <3>4. ctlPc' = "idle"
      BY <2>2, Zenon DEF Load, TypeOK, ctlVars
    <3>5. QED
      BY <2>2, <3>1, <3>3, <3>4, Zenon DEF Load, DeadlineInv, gsVars
  <2>3. CASE StartThreads
    BY <2>0, <2>3 DEF StartThreads, DeadlineInv, Promised, Listed, ctlVars, gsVars
  <2>4. CASE Purge
    <3>1. PICK t \in 0..now : records' = {x \in records : x.expires > t}
      BY <2>4, Zenon DEF Purge, PurgeExpired
    <3>2. \A a \in Agents, u \in Nat :
            Promised(a, u) => Promised(a, u)' /\ (now < u /\ Listed(a) => Listed(a)')
      BY <2>0, <3>1 DEF Promised, Listed
    <3>3. \A a \in Agents : /\ Promised(a, deadline[a])'
                            /\ mode' = "running" /\ now' < deadline'[a] => Listed(a)'
      BY <2>0, <2>4, <3>2, Zenon DEF Purge, DeadlineInv, Promised
    <3>4. ctlPc' \in {"append", "finish"} =>
            /\ Promised(ctlReq.agent, ctlReq.expires)'
            /\ now' < ctlReq'.expires => Listed(ctlReq.agent)'
      BY <2>4, <3>2, RequestType, Zenon DEF Purge, DeadlineInv, ctlVars, Promised, Listed
    <3>5. QED
      BY <2>4, <3>3, <3>4, Zenon DEF Purge, DeadlineInv, ctlVars, gsVars
  <2>5. ASSUME NEW q \in Submissions, NEW proto \in BOOLEAN, CtlRegister(q, proto)
        PROVE  DeadlineInv'
    <3>1. ctlReq'.expires = now + HeartbeatTTL
      BY <2>5, Zenon DEF CtlRegister, WithExpiry
    <3>2. ctlReq'.agent \in Agents
      BY <2>5, FromProtoType, Zenon DEF CtlRegister, WithExpiry, Registration
    <3>3. /\ ctlPc' = "upsert"
          /\ UNCHANGED <<mode, records, batch, now, deadline>>
      BY <2>5, Zenon DEF CtlRegister, gsVars
    <3>4. ctlReq'.expires <= now + HeartbeatTTL /\ deadline[ctlReq'.agent] <= ctlReq'.expires
      <4>1. deadline[ctlReq'.agent] <= now + HeartbeatTTL /\ now + HeartbeatTTL \in Nat
        BY <2>0, <3>2 DEF DeadlineInv
      <4>2. QED
        BY <3>1, <4>1
    <3>5. QED
      BY <3>3, <3>4, Zenon DEF DeadlineInv, Promised, Listed
  <2>6. CASE CtlUpsert
    <3>1. ctlReq.agent \in Agents /\ ctlReq.expires \in Nat
      BY <2>6, RequestType, Zenon DEF CtlUpsert
    <3>2. CASE UpsertAccepted(records, ctlReq)
      <4>1. \A a \in Agents : /\ Promised(a, deadline[a])'
                              /\ Listed(a) => Listed(a)'
        BY <2>6, <3>2, UpsertKeepsPromise, Zenon DEF CtlUpsert, DeadlineInv
      <4>2. Promised(ctlReq.agent, ctlReq.expires)' /\ Listed(ctlReq.agent)'
        BY <2>6, <3>1, <3>2 DEF CtlUpsert, Upsert, Find, Promised, Listed
      <4>3. /\ ctlPc = "upsert" /\ ctlPc' = "append"
            /\ UNCHANGED <<mode, ctlReq, batch, now, deadline>>
        BY <2>6, <3>2, Zenon DEF CtlUpsert, gsVars
      <4>4. QED
        BY <4>1, <4>2, <4>3, Zenon DEF DeadlineInv, Promised
    <3>3. CASE ~UpsertAccepted(records, ctlReq)
      BY <2>6, <3>3, Zenon DEF CtlUpsert, DeadlineInv, gsVars, Promised, Listed
    <3>4. QED
      BY <3>2, <3>3, Zenon
  <2>7. CASE CtlAppend
    BY <2>7, Zenon DEF CtlAppend, DeadlineInv, gsVars, Promised, Listed
  <2>8. CASE CtlFinish
    <3>1. ctlReq.agent \in Agents /\ ctlReq.expires \in Nat
      BY <2>8, RequestType, Zenon DEF CtlFinish
    <3>2. \A a \in Agents :
            deadline'[a] = IF a = ctlReq.agent THEN ctlReq.expires ELSE deadline[a]
      BY <2>8, <3>1, Zenon DEF CtlFinish, TypeOK
    <3>3. mode = "running"
      BY <2>8, Zenon DEF CtlFinish, TypeOK
    <3>4. /\ ctlPc = "finish" /\ ctlPc' = "idle"
          /\ UNCHANGED <<mode, records, batch, now>>
      BY <2>8, Zenon DEF CtlFinish, gsVars
    <3>5. \A a \in Agents : /\ deadline'[a] <= now + HeartbeatTTL
                            /\ Promised(a, deadline[a])'
                            /\ now < deadline'[a] => Listed(a)'
      BY <3>1, <3>2, <3>3, <3>4, Zenon DEF DeadlineInv, Promised, Listed
    <3>6. QED
      BY <3>3, <3>4, <3>5, Zenon DEF DeadlineInv
  <2>9. ASSUME NEW a \in Agents, NEW v \in Revisions, CtlHeartbeat(a, v)
        PROVE  DeadlineInv'
    <3>1. ctlReq'.agent = a /\ ctlReq'.expires = now + HeartbeatTTL
      BY <2>9, Zenon DEF CtlHeartbeat
    <3>2. /\ ctlPc' = "refresh"
          /\ UNCHANGED <<mode, records, batch, now, deadline>>
      BY <2>9, Zenon DEF CtlHeartbeat, gsVars
    <3>3. ctlReq'.expires <= now + HeartbeatTTL /\ deadline[ctlReq'.agent] <= ctlReq'.expires
      <4>1. deadline[a] <= now + HeartbeatTTL /\ now + HeartbeatTTL \in Nat
        BY <2>0, <2>9 DEF DeadlineInv
      <4>2. QED
        BY <3>1, <4>1
    <3>4. QED
      BY <3>2, <3>3, Zenon DEF DeadlineInv, Promised, Listed
  <2>10. CASE CtlRefresh
    <3>1. ctlReq.agent \in Agents /\ ctlReq.expires \in Nat /\ mode = "running"
      BY <2>10, RequestType, Zenon DEF CtlRefresh, TypeOK
    <3>2. CASE HeartbeatAccepted(records, ctlReq.agent, ctlReq.revision)
      <4> DEFINE Bump(x) == [x EXCEPT !.expires = ctlReq.expires,
                                      !.revision = ctlReq.revision]
      <4>1. records' = (records \ Find(records, ctlReq.agent))
                         \cup {Bump(x) : x \in Find(records, ctlReq.agent)}
        BY <2>10, <3>2, Zenon DEF CtlRefresh, RefreshHeartbeat
      <4>2. \A x \in records : Bump(x).agent = x.agent /\ Bump(x).expires = ctlReq.expires
        BY Zenon DEF TypeOK, AgentRecords
      <4> HIDE DEF Bump
      <4>3. \A a \in Agents :
              deadline'[a] = IF a = ctlReq.agent THEN ctlReq.expires ELSE deadline[a]
        BY <2>10, <3>1, <3>2, Zenon DEF CtlRefresh, TypeOK
      <4>4. \A a \in Agents : Promised(a, deadline[a])'
        BY <3>1, <4>1, <4>2, <4>3 DEF DeadlineInv, Promised, Find
      <4>5. \A a \in Agents : Listed(a) => Listed(a)'
        BY <4>1, <4>2, Zenon DEF Listed, Find
      <4>6. Listed(ctlReq.agent)
        BY <3>2, Zenon DEF HeartbeatAccepted, Find, Listed
      <4>7. QED
        BY <2>10, <3>1, <4>3, <4>4, <4>5, <4>6, Zenon DEF CtlRefresh, DeadlineInv, gsVars
    <3>3. CASE ~HeartbeatAccepted(records, ctlReq.agent, ctlReq.revision)
      BY <2>10, <3>3, Zenon DEF CtlRefresh, DeadlineInv, gsVars, Promised, Listed
    <3>4. QED
      BY <3>2, <3>3, Zenon
  <2>11. ASSUME NEW b \in Batches, GossipPull(b)
         PROVE  DeadlineInv'
    <3>1. PICK n \in 1..MaxBatch : b \in [1..n -> Submissions]
      BY Zenon DEF Batches
    <3>2. batch' = [i \in 1..n |-> WithExpiry(b[i], now + PullTTL)]
      BY <2>11, <3>1, Zenon DEF GossipPull
    <3>3. Head(batch') = batch'[1] /\ 1 \in 1..n
      BY <3>2
    <3>4. \A i \in 1..n : batch'[i].expires = now + PullTTL
      BY <3>2, Zenon DEF WithExpiry
    <3>5. \A i \in DOMAIN batch' : /\ batch'[i].expires = Head(batch').expires
                                   /\ now' + PullTTL <= batch'[i].expires + MergeBound
      <4>1. DOMAIN batch' = 1..n /\ now' = now
        BY <2>11, <3>2, Zenon DEF GossipPull
      <4>2. now + PullTTL <= (now + PullTTL) + MergeBound
        BY <2>0
      <4>3. QED
        BY <3>3, <3>4, <4>1, <4>2, Zenon
    <3>6. QED
      BY <2>11, <3>5, Zenon DEF GossipPull, DeadlineInv, ctlVars, Promised, Listed
  <2>12. CASE GossipVerify
    <3>1. \A i \in DOMAIN batch' : /\ batch'[i].expires = Head(batch').expires
                                   /\ now' + PullTTL <= batch'[i].expires + MergeBound
      BY <2>12, TailOfBatch, Zenon DEF GossipVerify, DeadlineInv
    <3>2. QED
      BY <2>12, <3>1, Zenon DEF GossipVerify, DeadlineInv, ctlVars, Promised, Listed
  <2>13. CASE GossipUpsert
    <3> DEFINE r == Head(batch)
    <3>1. /\ r.agent \in Agents /\ r.expires \in Nat
          /\ \A t \in Nat : t <= now + HeartbeatTTL => t <= r.expires
      <4>1. gsPc # "idle"
        BY <2>13, Zenon DEF GossipUpsert
      <4>2. r = batch[1] /\ 1 \in DOMAIN batch /\ r.agent \in Agents /\ r.expires \in Nat
        BY <4>1, HeadOfBatch, Zenon
      <4>3. now + PullTTL <= r.expires + MergeBound
        BY <4>2, Zenon DEF DeadlineInv
      <4> HIDE DEF r
      <4>4. QED
        BY <2>0, <4>2, <4>3
    <3>2. \A i \in DOMAIN batch' : /\ batch'[i].expires = Head(batch').expires
                                   /\ now' + PullTTL <= batch'[i].expires + MergeBound
      BY <2>13, TailOfBatch, Zenon DEF GossipUpsert, DeadlineInv
    <3>3. CASE UpsertAccepted(records, r)
      <4>1. \A a \in Agents : \A t \in Nat : t <= now + HeartbeatTTL /\ Promised(a, t) =>
              Promised(a, t)' /\ (Listed(a) => Listed(a)')
        <5>1. records' = Upsert(records, r)
          BY <2>13, <3>3, Zenon DEF GossipUpsert
        <5>2. ASSUME NEW a \in Agents, NEW t \in Nat, t <= now + HeartbeatTTL,
                     Promised(a, t)
              PROVE  Promised(a, t)' /\ (Listed(a) => Listed(a)')
          <6>1. t <= r.expires
            BY <3>1, <5>2, Zenon
          <6>2. QED
            BY <5>1, <5>2, <6>1, Zenon DEF Upsert, Find, Promised, Listed
        <5>3. QED
          BY <5>2, Zenon
      <4>2. \A a \in Agents : /\ Promised(a, deadline[a])'
                              /\ mode' = "running" /\ now' < deadline'[a] => Listed(a)'
        BY <2>0, <2>13, <4>1 DEF GossipUpsert, DeadlineInv, Promised
      <4>3. ctlPc' \in {"append", "finish"} =>
              /\ Promised(ctlReq.agent, ctlReq.expires)'
              /\ now' < ctlReq'.expires => Listed(ctlReq.agent)'
        BY <2>13, <4>1, RequestType, Zenon DEF GossipUpsert, DeadlineInv, ctlVars, Promised, Listed
      <4>4. QED
        BY <2>13, <3>2, <4>2, <4>3, Zenon DEF GossipUpsert, DeadlineInv, ctlVars
    <3>4. CASE ~UpsertAccepted(records, r)
      BY <2>13, <3>2, <3>4, Zenon DEF GossipUpsert, DeadlineInv, ctlVars, Promised, Listed
    <3>5. QED
      BY <3>3, <3>4, Zenon
  <2>14. CASE GossipAppend
    <3>1. \A i \in DOMAIN batch' : /\ batch'[i].expires = Head(batch').expires
                                   /\ now' + PullTTL <= batch'[i].expires + MergeBound
      BY <2>14, TailOfBatch, Zenon DEF GossipAppend
    <3>2. QED
      BY <2>14, <3>1, Zenon DEF GossipAppend, DeadlineInv, ctlVars, Promised, Listed
  <2>15. CASE Crash
    <3>1. \A a \in Agents : deadline'[a] = 0
      BY <2>15, Zenon DEF Crash, NoDeadline
    <3>2. mode' = "down" /\ records' = {} /\ ctlPc' = "idle" /\ batch' = <<>> /\ now' = now
      BY <2>15, Zenon DEF Crash
    <3>3. \A a \in Agents : deadline'[a] <= now' + HeartbeatTTL
      BY <2>0, <3>1, <3>2
    <3>4. DOMAIN batch' = {}
      BY <3>2
    <3>5. QED
      BY <3>1, <3>2, <3>3, <3>4, Zenon DEF DeadlineInv, Promised, Listed
  <2>16. CASE Tick
    <3>1. \A i \in DOMAIN batch : batch[i].expires \in Nat
      <4>1. \A i \in DOMAIN batch : batch[i] \in AgentRecords
        BY DEF TypeOK
      <4>2. QED
        BY <4>1, Zenon DEF AgentRecords
    <3>2. \A i \in DOMAIN batch : now + PullTTL < batch[i].expires + MergeBound
      <4>1. CASE batch = <<>>
        BY <4>1
      <4>2. CASE batch # <<>>
        BY <2>16, <4>2, Zenon DEF Tick, DeadlineInv, TypeOK
      <4>3. QED
        BY <4>1, <4>2, Zenon
    <3>3. now' = now + 1 /\ UNCHANGED <<mode, records, ctlPc, ctlReq, batch, deadline>>
      BY <2>16, Zenon DEF Tick, ctlVars, gsVars
    <3>4. \A i \in DOMAIN batch' : /\ batch'[i].expires = Head(batch').expires
                                   /\ now' + PullTTL <= batch'[i].expires + MergeBound
      BY <2>0, <3>1, <3>2, <3>3 DEF DeadlineInv
    <3>5. \A a \in Agents : /\ deadline'[a] <= now' + HeartbeatTTL
                            /\ mode' = "running" /\ now' < deadline'[a] => Listed(a)'
      BY <2>0, <3>3, SMTT(20) DEF DeadlineInv, Listed
    <3>6. ctlPc' # "idle" =>
            /\ deadline'[ctlReq'.agent] <= ctlReq'.expires
            /\ ctlReq'.expires <= now' + HeartbeatTTL
            /\ now < ctlReq'.expires \/ ~(now' < ctlReq'.expires)
      BY <2>0, <3>3, RequestType DEF DeadlineInv
    <3>7. QED
      BY <3>3, <3>4, <3>5, <3>6, Zenon DEF DeadlineInv, Promised, Listed
  <2>17. CASE UNCHANGED vars
    BY <2>17, Zenon DEF vars, ctlVars, gsVars, DeadlineInv, Promised, Listed
  <2>18. QED
    BY <2>1, <2>2, <2>3, <2>4, <2>5, <2>6, <2>7, <2>8, <2>9, <2>10, <2>11, <2>12,
       <2>13, <2>14, <2>15, <2>16, <2>17, Zenon DEF Next
<1>3. DeadlineInv => HeartbeatHonoured
  BY Zenon DEF DeadlineInv, HeartbeatHonoured, Listed, Find
<1>4. QED
  BY <1>1, <1>2, <1>3, TypeCorrect, PTL DEF Spec

-----------------------------------------------------------------------------
LogSet == {wal[i] : i \in DOMAIN wal}

(* An append adds its entry to the log and removes none.                   *)
LEMMA AppendGrowsLog ==
  ASSUME wal \in Seq(Entries), NEW e \in Entries, wal' = Append(wal, e)
  PROVE  LogSet' = LogSet \cup {e}
<1>1. DOMAIN wal = 1..Len(wal) /\ DOMAIN wal' = 1..(Len(wal) + 1) /\ Len(wal) \in Nat
  OBVIOUS
<1>2. \A i \in 1..Len(wal) : wal'[i] = wal[i]
  OBVIOUS
<1>3. wal'[Len(wal) + 1] = e
  OBVIOUS
<1>4. QED
  BY <1>1, <1>2, <1>3 DEF LogSet

(* Only an append changes the log.                                         *)
LEMMA LogSteps ==
  ASSUME TypeOK, [Next]_vars
  PROVE  UNCHANGED wal \/ CtlAppend \/ GossipAppend
BY Zenon DEF Next, vars, Start, Load, StartThreads, Purge, CtlRegister, CtlUpsert, CtlFinish,
       CtlHeartbeat, CtlRefresh, GossipPull, GossipVerify, GossipUpsert, Crash, Tick

(* Until the process dies, an accepted entry is in the log or on its way.  *)
LEMMA AcceptedKept ==
  ASSUME TypeOK, [Next]_vars, ~Crash
  PROVE  Pending \cup LogSet \subseteq (Pending \cup LogSet)'
<1>1. CASE CtlAppend
  <2>1. ToEntry(ctlReq) \in Entries
    BY <1>1, ToEntryType, Zenon DEF CtlAppend, TypeOK
  <2>2. LogSet' = LogSet \cup {ToEntry(ctlReq)}
    BY <1>1, <2>1, AppendGrowsLog, Zenon DEF CtlAppend, TypeOK
  <2>3. QED
    BY <1>1, <2>2, Zenon DEF CtlAppend, Pending, gsVars
<1>2. CASE GossipAppend
  <2>1. ToEntry(Head(batch)) \in Entries
    BY <1>2, ToEntryType DEF GossipAppend, TypeOK
  <2>2. LogSet' = LogSet \cup {ToEntry(Head(batch))}
    BY <1>2, <2>1, AppendGrowsLog, Zenon DEF GossipAppend, TypeOK
  <2>3. QED
    BY <1>2, <2>2, Zenon DEF GossipAppend, Pending, ctlVars
<1>3. CASE ~CtlAppend /\ ~GossipAppend
  <2>1. LogSet' = LogSet
    BY <1>3, LogSteps, Zenon DEF LogSet
  <2>2. Pending \subseteq Pending'
    BY <1>3, Zenon DEF Pending, Next, vars, ctlVars, gsVars, Start, Load, StartThreads, Purge,
       CtlRegister, CtlUpsert, CtlFinish, CtlHeartbeat, CtlRefresh, GossipPull,
       GossipVerify, GossipUpsert, Tick
  <2>3. QED
    BY <2>1, <2>2, Zenon
<1>4. QED
  BY <1>1, <1>2, <1>3, Zenon

-----------------------------------------------------------------------------
(* x could be rebuilt from an entry of S, at a revision not above its own. *)
BackedBy(x, S) ==
  \E e \in S : /\ e.agent = x.agent /\ e.endpoint = x.endpoint
               /\ e.key = Canonical[x.key] /\ e.revision <= x.revision

(* A record is backed by its own on-disk form.                             *)
LEMMA RecordBacksItself ==
  ASSUME NEW r \in AgentRecords, NEW S, ToEntry(r) \in S
  PROVE  BackedBy(r, S)
<1>1. r.revision <= r.revision
  BY DEF AgentRecords, Revisions
<1>2. QED
  BY <1>1, Zenon DEF BackedBy, ToEntry

(* A record loaded from an entry of the log is backed by that entry, with  *)
(* either of the two expiries load_from_persistence gives it.              *)
LEMMA LoadedIsBacked ==
  ASSUME NEW e \in Entries, NEW S, e \in S, e.key = Canonical[e.key], NEW t, NEW u
  PROVE  /\ BackedBy(FromEntry(e, t), S)
         /\ BackedBy([FromEntry(e, t) EXCEPT !.expires = u], S)
<1>1. e.revision <= e.revision
  BY DEF Entries, Revisions
<1>2. QED
  BY <1>1, Zenon DEF BackedBy, FromEntry

(* A heartbeat keeps a record's agent, endpoint and key.                   *)
LEMMA RefreshedIsBacked ==
  ASSUME NEW x \in AgentRecords, NEW S \in SUBSET Entries, BackedBy(x, S),
         NEW t, NEW v \in Revisions, v >= x.revision
  PROVE  BackedBy([x EXCEPT !.expires = t, !.revision = v], S)
<1> DEFINE y == [x EXCEPT !.expires = t, !.revision = v]
<1>1. y.agent = x.agent /\ y.endpoint = x.endpoint /\ y.key = x.key /\ y.revision = v
  BY Zenon DEF AgentRecords
<1>2. PICK e \in S : /\ e.agent = x.agent /\ e.endpoint = x.endpoint
                     /\ e.key = Canonical[x.key] /\ e.revision <= x.revision
  BY Zenon DEF BackedBy
<1>3. e.revision <= v
  BY <1>2 DEF AgentRecords, Entries, Revisions
<1>4. QED
  BY <1>1, <1>2, <1>3, Zenon DEF BackedBy

(* ... so a heartbeat leaves every record backed.                          *)
LEMMA RefreshKeepsBacked ==
  ASSUME NEW R \in SUBSET AgentRecords, NEW S \in SUBSET Entries, NEW a, NEW t,
         NEW v \in Revisions, \A x \in R : BackedBy(x, S),
         \A x \in Find(R, a) : v >= x.revision
  PROVE  \A y \in RefreshHeartbeat(R, a, t, v) : BackedBy(y, S)
<1> DEFINE Bump(x) == [x EXCEPT !.expires = t, !.revision = v]
<1>1. \A x \in Find(R, a) : BackedBy(Bump(x), S)
  BY RefreshedIsBacked, Zenon DEF Find
<1>2. RefreshHeartbeat(R, a, t, v) = (R \ Find(R, a)) \cup {Bump(x) : x \in Find(R, a)}
  BY Zenon DEF RefreshHeartbeat
<1> HIDE DEF Bump
<1>3. QED
  BY <1>1, <1>2, Zenon

(* Log entries hold key bytes: their key text is already canonical.        *)
CanonicalLog == \A i \in DOMAIN wal : wal[i].key = Canonical[wal[i].key]

(* Every append decodes the key text to bytes, so the log stays canonical. *)
LEMMA LogIsCanonical == Spec => []CanonicalLog
<1>1. Init => CanonicalLog
  BY DEF Init, CanonicalLog
<1>2. TypeOK /\ CanonicalLog /\ [Next]_vars => CanonicalLog'
  <2> SUFFICES ASSUME TypeOK, CanonicalLog, [Next]_vars PROVE CanonicalLog'
    BY Zenon
  <2>1. \A r \in AgentRecords : ToEntry(r).key = Canonical[ToEntry(r).key]
    BY Zenon DEF AgentRecords, ToEntry
  <2>2. ASSUME NEW r \in AgentRecords, ToEntry(r) \in Entries, wal' = Append(wal, ToEntry(r))
        PROVE  CanonicalLog'
    <3>1. wal \in Seq(Entries) /\ ToEntry(r).key = Canonical[ToEntry(r).key]
      BY <2>1, Zenon DEF TypeOK
    <3>2. \A i \in DOMAIN wal' : wal'[i] = ToEntry(r) \/ (i \in DOMAIN wal /\ wal'[i] = wal[i])
      BY <2>2, <3>1
    <3>3. QED
      BY <3>1, <3>2, Zenon DEF CanonicalLog
  <2>3. CASE CtlAppend \/ GossipAppend
    <3>1. CtlAppend => ctlReq \in AgentRecords /\ ToEntry(ctlReq) \in Entries
      BY ToEntryType, Zenon DEF CtlAppend, TypeOK
    <3>2. GossipAppend => Head(batch) \in AgentRecords /\ ToEntry(Head(batch)) \in Entries
      BY ToEntryType DEF GossipAppend, TypeOK
    <3>3. QED
      BY <2>2, <2>3, <3>1, <3>2, Zenon DEF CtlAppend, GossipAppend
  <2>4. CASE UNCHANGED wal
    BY <2>4, Zenon DEF CanonicalLog
  <2>5. QED
    BY <2>3, <2>4, LogSteps, Zenon
<1>3. QED
  BY <1>1, <1>2, TypeCorrect, PTL DEF Spec

(* Every listed record is in the log or about to be: an upsert makes its   *)
(* own entry pending in the same step, an append only moves an entry from  *)
(* pending to the log, and recovery lists nothing but log entries.         *)
THEOREM LogBacksRegistry == Spec => []RegistryBackedByLog
<1> DEFINE S == Pending \cup LogSet
           Backed == \A x \in records : BackedBy(x, S)
<1>1. RegistryBackedByLog <=> Backed
  BY Zenon DEF RegistryBackedByLog, BackedBy, LogSet
<1>2. Init => Backed
  BY Zenon DEF Init
<1>3. TypeOK /\ CanonicalLog /\ Backed /\ [Next]_vars => Backed'
  <2> SUFFICES ASSUME TypeOK, CanonicalLog, Backed, [Next]_vars PROVE Backed'
    BY Zenon
  <2>1. CASE Crash
    BY <2>1, Zenon DEF Crash
  <2>2. CASE ~Crash
    <3>1. S \subseteq S'
      BY <2>2, AcceptedKept, Zenon
    <3>2. \A x \in records : BackedBy(x, S')
      BY <3>1, Zenon DEF BackedBy
    <3>3. CASE Load
      <4> DEFINE e == wal[loadIx]
      <4>1. e \in Entries /\ e \in S' /\ e.key = Canonical[e.key]
        <5>1. wal \in Seq(Entries) /\ loadIx \in 1..Len(wal)
          <6>1. wal \in Seq(Entries) /\ loadIx \in Nat \ {0}
            BY Zenon DEF TypeOK
          <6>2. loadIx <= Len(wal)
            BY <3>3, Zenon DEF Load
          <6>3. QED
            BY <6>1, <6>2
        <5>2. e \in Entries /\ e \in LogSet
          BY <5>1 DEF LogSet
        <5>3. QED
          BY <3>1, <5>1, <5>2 DEF CanonicalLog
      <4>2. /\ BackedBy(FromEntry(e, now), S')
            /\ BackedBy([FromEntry(e, now) EXCEPT !.expires = now + Year], S')
        BY <4>1, LoadedIsBacked, Zenon
      <4>3. records' \subseteq records \cup {FromEntry(e, now),
                                   [FromEntry(e, now) EXCEPT !.expires = now + Year]}
        BY <3>3, Zenon DEF Load, LoadRecord
      <4>4. QED
        BY <3>2, <4>2, <4>3, Zenon
    <3>4. CASE Purge
      BY <3>2, <3>4, Zenon DEF Purge, PurgeExpired
    <3>5. CASE CtlUpsert
      <4>1. CASE UpsertAccepted(records, ctlReq)
        <5>1. ctlReq \in AgentRecords
          BY <3>5, Zenon DEF CtlUpsert, TypeOK
        <5>2. ToEntry(ctlReq) \in Pending'
          BY <3>5, <4>1, Zenon DEF CtlUpsert, Pending
        <5>3. BackedBy(ctlReq, S')
          BY <5>1, <5>2, RecordBacksItself, Zenon
        <5>4. QED
          BY <3>2, <3>5, <4>1, <5>3 DEF CtlUpsert, Upsert
      <4>2. CASE ~UpsertAccepted(records, ctlReq)
        BY <3>2, <3>5, <4>2, Zenon DEF CtlUpsert
      <4>3. QED
        BY <4>1, <4>2, Zenon
    <3>6. CASE CtlRefresh
      <4>1. CASE HeartbeatAccepted(records, ctlReq.agent, ctlReq.revision)
        <5>1. ctlReq.revision \in Revisions
          BY <3>6, Zenon DEF CtlRefresh, TypeOK, Heartbeats
        <5>2. S' \in SUBSET Entries
          <6>1. S \in SUBSET Entries
            BY ToEntryType, SMTT(20) DEF Pending, LogSet, TypeOK
          <6>2. S' \subseteq S
            BY <3>6, Zenon DEF CtlRefresh, Pending, LogSet, gsVars
          <6>3. QED
            BY <6>1, <6>2, Zenon
        <5>3. records' = RefreshHeartbeat(records, ctlReq.agent, ctlReq.expires,
                                          ctlReq.revision)
          BY <3>6, <4>1, Zenon DEF CtlRefresh
        <5>4. QED
          BY <3>2, <4>1, <5>1, <5>2, <5>3, RefreshKeepsBacked, Zenon DEF HeartbeatAccepted, TypeOK
      <4>2. CASE ~HeartbeatAccepted(records, ctlReq.agent, ctlReq.revision)
        BY <3>2, <3>6, <4>2, Zenon DEF CtlRefresh
      <4>3. QED
        BY <4>1, <4>2, Zenon
    <3>7. CASE GossipUpsert
      <4>1. CASE UpsertAccepted(records, Head(batch))
        <5>1. Head(batch) \in AgentRecords
          BY <3>7 DEF GossipUpsert, TypeOK
        <5>2. ToEntry(Head(batch)) \in Pending'
          BY <3>7, <4>1, Zenon DEF GossipUpsert, Pending
        <5>3. BackedBy(Head(batch), S')
          BY <5>1, <5>2, RecordBacksItself, Zenon
        <5>4. QED
          BY <3>2, <3>7, <4>1, <5>3, Zenon DEF GossipUpsert, Upsert
      <4>2. CASE ~UpsertAccepted(records, Head(batch))
        BY <3>2, <3>7, <4>2, Zenon DEF GossipUpsert
      <4>3. QED
        BY <4>1, <4>2, Zenon
    <3>8. CASE UNCHANGED records
      BY <3>2, <3>8, Zenon
    <3>9. QED
      BY <2>2, <3>3, <3>4, <3>5, <3>6, <3>7, <3>8, Zenon
      DEF Next, vars, Start, StartThreads, CtlRegister, CtlAppend, CtlFinish,
          CtlHeartbeat, GossipPull, GossipVerify, GossipAppend, Tick
  <2>3. QED
    BY <2>1, <2>2, Zenon
<1>4. Spec => []Backed
  BY <1>2, <1>3, TypeCorrect, LogIsCanonical, PTL DEF Spec
<1>5. QED
  BY <1>1, <1>4, PTL

-----------------------------------------------------------------------------
(* What ListedAsSigned asks of one record.                                 *)
Genuine(x) == x.key # NoKey /\ x.signature # NoSignature => SignatureCovers(x)

(* A record whose signature was checked, or that has none, is genuine.     *)
LEMMA CheckedIsGenuine ==
  ASSUME Libsodium, NEW r \in AgentRecords, SignatureStatus(r) # "Invalid"
  PROVE  Genuine(r)
<1> SUFFICES ASSUME r.key # NoKey, r.signature # NoSignature PROVE SignatureCovers(r)
  BY Zenon DEF Genuine
<1>1. r.signature = Sign(Canonical[r.key], r)
  BY Zenon DEF SignatureStatus
<1>2. /\ r.metadata \in Metadata /\ r.revision \in Revisions
      /\ [r EXCEPT !.metadata = r.metadata, !.revision = r.revision] = r
  BY Zenon DEF AgentRecords
<1>3. r.revision <= r.revision
  BY <1>2 DEF Revisions
<1>4. QED
  BY <1>1, <1>2, <1>3, Zenon DEF SignatureCovers

(* The payload that a signature covers says nothing of the expiry, and the *)
(* fields it covers are the same in two records that agree on these.       *)
LEMMA SameCover ==
  ASSUME NEW x \in AgentRecords, NEW y \in AgentRecords,
         y.agent = x.agent, y.endpoint = x.endpoint, y.signature = x.signature,
         Canonical[y.key] = Canonical[x.key],
         y.metadata \in {x.metadata, NoMetadata}, y.revision >= x.revision,
         SignatureCovers(x)
  PROVE  SignatureCovers(y)
<1>1. PICK m \in Metadata, v \in Revisions :
        /\ v <= x.revision /\ x.metadata \in {m, NoMetadata}
        /\ x.signature = Sign(Canonical[x.key], [x EXCEPT !.metadata = m, !.revision = v])
  BY Zenon DEF SignatureCovers
<1>2. v <= y.revision
  BY <1>1 DEF AgentRecords, Revisions
<1>3. Sign(Canonical[x.key], [x EXCEPT !.metadata = m, !.revision = v])
        = Sign(Canonical[y.key], [y EXCEPT !.metadata = m, !.revision = v])
  BY Zenon DEF Sign, AgentRecords
<1>4. y.metadata \in {m, NoMetadata}
  BY <1>1, Zenon
<1>5. QED
  BY <1>1, <1>2, <1>3, <1>4, Zenon DEF SignatureCovers

(* What is recovered from the on-disk form of a genuine record is genuine: *)
(* the log keeps the bytes of key and signature, or neither.               *)
LEMMA RecoveredIsGenuine ==
  ASSUME NEW r \in AgentRecords, Genuine(r), NEW t \in Nat
  PROVE  Genuine(FromEntry(ToEntry(r), t))
<1> DEFINE y == FromEntry(ToEntry(r), t)
<1> SUFFICES ASSUME y.key # NoKey, y.signature # NoSignature PROVE SignatureCovers(y)
  BY Zenon DEF Genuine
<1>1. y \in AgentRecords
  BY ToEntryType, FromEntryType, Zenon
<1>2. /\ y.agent = r.agent /\ y.endpoint = r.endpoint /\ y.metadata = NoMetadata
      /\ y.revision = r.revision /\ y.key = Canonical[r.key] /\ y.signature = r.signature
  BY Zenon DEF FromEntry, ToEntry
<1>3. r.key # NoKey /\ Canonical[y.key] = Canonical[r.key] /\ y.revision >= r.revision
  <2>1. r.key # NoKey /\ Canonical[y.key] = Canonical[r.key]
    BY <1>2, Zenon DEF AgentRecords
  <2>2. r.revision \in Revisions
    BY Zenon DEF AgentRecords
  <2>3. QED
    BY <1>2, <2>1, <2>2 DEF Revisions
<1>4. SignatureCovers(r)
  BY <1>2, <1>3, Zenon DEF Genuine
<1>5. QED
  BY <1>1, <1>2, <1>3, <1>4, SameCover, Zenon

(* A later expiry changes nothing, nor does a heartbeat's revision.        *)
LEMMA RaisedIsGenuine ==
  ASSUME NEW x \in AgentRecords, Genuine(x), NEW t \in Nat, NEW v \in Revisions,
         v >= x.revision
  PROVE  Genuine([x EXCEPT !.expires = t, !.revision = v])
<1> DEFINE y == [x EXCEPT !.expires = t, !.revision = v]
<1>1. /\ y \in AgentRecords /\ y.agent = x.agent /\ y.endpoint = x.endpoint
      /\ y.metadata = x.metadata /\ y.revision = v /\ y.key = x.key
      /\ y.signature = x.signature
  BY Zenon DEF AgentRecords
<1> HIDE DEF y
<1>2. x.key # NoKey /\ x.signature # NoSignature => SignatureCovers(y)
  BY <1>1, SameCover, Zenon DEF Genuine
<1>3. Genuine(y)
  BY <1>1, <1>2, Zenon DEF Genuine
<1>4. QED
  BY <1>3, Zenon DEF y

(* Every copy of a record that can still reach the registry is genuine:    *)
(* the listed ones, what recovery would make of the log, and the records   *)
(* the threads have checked and not yet logged.                            *)
GenuineInv ==
  /\ \A x \in records : Genuine(x)
  /\ \A i \in DOMAIN wal : Genuine(FromEntry(wal[i], 0))
  /\ ctlPc \in {"upsert", "append"} => Genuine(ctlReq)
  /\ gsPc \in {"upsert", "append"} => Genuine(Head(batch))

(* An append of a genuine record keeps the log genuine.                    *)
LEMMA AppendKeepsGenuine ==
  ASSUME TypeOK, GenuineInv, NEW r \in AgentRecords, Genuine(r),
         wal' = Append(wal, ToEntry(r))
  PROVE  \A i \in DOMAIN wal' : Genuine(FromEntry(wal'[i], 0))
<1>1. ToEntry(r) \in Entries /\ Genuine(FromEntry(ToEntry(r), 0))
  BY ToEntryType, RecoveredIsGenuine
<1>2. wal \in Seq(Entries)
  BY Zenon DEF TypeOK
<1>3. \A i \in DOMAIN wal' : wal'[i] = ToEntry(r) \/ (i \in DOMAIN wal /\ wal'[i] = wal[i])
  BY <1>1, <1>2
<1>4. QED
  BY <1>1, <1>3, Zenon DEF GenuineInv

(* Recovery lists genuine records, with either of the expiries it gives.   *)
LEMMA LoadKeepsGenuine ==
  ASSUME TypeOK, GenuineInv, Load
  PROVE  \A x \in records' : Genuine(x)
<1> DEFINE e == wal[loadIx]
           z == FromEntry(e, 0)
<1>1. wal \in Seq(Entries) /\ loadIx \in Nat \ {0} /\ loadIx <= Len(wal)
  BY Zenon DEF TypeOK, Load
<1>2. loadIx \in DOMAIN wal /\ e \in Entries
  BY <1>1
<1>3. z \in AgentRecords /\ Genuine(z) /\ z.revision >= z.revision
  <2>1. z \in AgentRecords
    BY <1>2, FromEntryType
  <2>2. Genuine(z)
    BY <1>2, Zenon DEF GenuineInv
  <2>3. QED
    BY <2>1, <2>2 DEF AgentRecords, Revisions
<1>4. ASSUME NEW t \in Nat PROVE Genuine(FromEntry(e, t))
  <2> DEFINE y == FromEntry(e, t)
  <2>1. y \in AgentRecords
    BY <1>2, <1>4, FromEntryType
  <2>2. /\ y.agent = z.agent /\ y.endpoint = z.endpoint /\ y.metadata = z.metadata
        /\ y.revision = z.revision /\ y.key = z.key /\ y.signature = z.signature
    BY Zenon DEF FromEntry
  <2> HIDE DEF y, z
  <2>3. SignatureCovers(z) => SignatureCovers(y)
    BY <1>3, <2>1, <2>2, SameCover, Zenon
  <2>4. Genuine(y)
    BY <1>3, <2>2, <2>3, Zenon DEF Genuine
  <2>5. QED
    BY <2>4, Zenon DEF y
<1>5. now \in Nat /\ now + Year \in Nat
  BY DEF TypeOK
<1>6. records' \subseteq records \cup {FromEntry(e, now), FromEntry(e, now + Year)}
  <2>1. [FromEntry(e, now) EXCEPT !.expires = now + Year] = FromEntry(e, now + Year)
    BY DEF FromEntry
  <2>2. QED
    BY <2>1, Zenon DEF Load, LoadRecord
<1>7. QED
  BY <1>4, <1>5, <1>6, Zenon DEF GenuineInv

(* Signatures are checked only on arrival, yet what is listed stays under  *)
(* the signature that was checked, through the log, recovery, heartbeats   *)
(* and any interleaving of the two threads.                                *)
THEOREM ListedRecordsAreSigned == Spec => []ListedAsSigned
<1>1. Init => GenuineInv
  BY DEF Init, GenuineInv
<1>2. Libsodium /\ TypeOK /\ GenuineInv /\ [Next]_vars => GenuineInv'
  <2> SUFFICES ASSUME Libsodium, TypeOK, GenuineInv, [Next]_vars PROVE GenuineInv'
    BY Zenon
  <2>1. CASE Load
    <3>1. \A x \in records' : Genuine(x)
      BY <2>1, LoadKeepsGenuine
    <3>2. QED
      BY <2>1, <3>1, Zenon DEF Load, ctlVars, gsVars, GenuineInv
  <2>2. CASE Purge
    BY <2>2, Zenon DEF Purge, PurgeExpired, ctlVars, gsVars, GenuineInv
  <2>3. ASSUME NEW q \in Submissions, NEW proto \in BOOLEAN, CtlRegister(q, proto)
        PROVE  GenuineInv'
    <3> DEFINE p == IF proto THEN FromProto(q) ELSE q
    <3>1. p \in Registration /\ now + HeartbeatTTL \in Nat
      <4>1. p \in Registration
        BY FromProtoType, Zenon
      <4>2. QED
        BY <4>1 DEF TypeOK
    <3>2. ctlReq' \in AgentRecords /\ SignatureStatus(ctlReq') # "Invalid"
      <4>1. ctlReq' = WithExpiry(p, now + HeartbeatTTL) /\ SignatureAllowed(ctlReq')
        BY <2>3, Zenon DEF CtlRegister
      <4>2. QED
        BY <3>1, <4>1, WithExpiryType, Zenon DEF SignatureAllowed
    <3>3. Genuine(ctlReq')
      BY <3>2, CheckedIsGenuine, Zenon
    <3>4. QED
      BY <2>3, <3>3, Zenon DEF CtlRegister, gsVars, GenuineInv
  <2>4. CASE CtlUpsert
    <3>1. CASE UpsertAccepted(records, ctlReq)
      <4>1. \A x \in records' : x \in records \/ x = ctlReq
        <5>1. records' = Upsert(records, ctlReq)
          BY <2>4, <3>1, Zenon DEF CtlUpsert
        <5>2. QED
          BY <5>1, Zenon DEF Upsert
      <4>2. /\ Genuine(ctlReq) /\ ctlReq' = ctlReq /\ wal' = wal
            /\ gsPc' = gsPc /\ batch' = batch
        BY <2>4, <3>1, Zenon DEF CtlUpsert, gsVars, GenuineInv
      <4>3. QED
        BY <4>1, <4>2, Zenon DEF GenuineInv
    <3>2. CASE ~UpsertAccepted(records, ctlReq)
      BY <2>4, <3>2, Zenon DEF CtlUpsert, gsVars, GenuineInv
    <3>3. QED
      BY <3>1, <3>2, Zenon
  <2>5. CASE CtlAppend
    <3>1. ctlReq \in AgentRecords /\ Genuine(ctlReq)
      BY <2>5, Zenon DEF CtlAppend, TypeOK, GenuineInv
    <3>2. \A i \in DOMAIN wal' : Genuine(FromEntry(wal'[i], 0))
      BY <2>5, <3>1, AppendKeepsGenuine, Zenon DEF CtlAppend
    <3>3. QED
      BY <2>5, <3>2, Zenon DEF CtlAppend, gsVars, GenuineInv
  <2>6. CASE CtlRefresh
    <3>1. CASE HeartbeatAccepted(records, ctlReq.agent, ctlReq.revision)
      <4> DEFINE Bump(x) == [x EXCEPT !.expires = ctlReq.expires,
                                      !.revision = ctlReq.revision]
      <4>1. ctlReq.revision \in Revisions /\ ctlReq.expires \in Nat
        BY <2>6, Zenon DEF CtlRefresh, TypeOK, Heartbeats
      <4>2. \A x \in Find(records, ctlReq.agent) : Genuine(Bump(x))
        BY <3>1, <4>1, RaisedIsGenuine, Zenon DEF HeartbeatAccepted, Find, TypeOK, GenuineInv
      <4>3. records' = (records \ Find(records, ctlReq.agent))
                         \cup {Bump(x) : x \in Find(records, ctlReq.agent)}
        BY <2>6, <3>1, Zenon DEF CtlRefresh, RefreshHeartbeat
      <4> HIDE DEF Bump
      <4>4. \A x \in records' : Genuine(x)
        BY <4>2, <4>3, Zenon DEF GenuineInv
      <4>5. QED
        BY <2>6, <4>4, Zenon DEF CtlRefresh, gsVars, GenuineInv
    <3>2. CASE ~HeartbeatAccepted(records, ctlReq.agent, ctlReq.revision)
      BY <2>6, <3>2, Zenon DEF CtlRefresh, gsVars, GenuineInv
    <3>3. QED
      BY <3>1, <3>2, Zenon
  <2>7. CASE GossipVerify
    <3>1. CASE Verdict(trust, Head(batch)) \in {"Valid", "Missing"}
      <4>1. Head(batch) \in AgentRecords
        BY <2>7 DEF GossipVerify, TypeOK
      <4>2. SignatureStatus(Head(batch)) # "Invalid"
        BY <3>1, Zenon DEF Verdict
      <4>3. Genuine(Head(batch))
        BY <4>1, <4>2, CheckedIsGenuine, Zenon
      <4>4. QED
        BY <2>7, <3>1, <4>3, Zenon DEF GossipVerify, ctlVars, GenuineInv
    <3>2. CASE Verdict(trust, Head(batch)) \notin {"Valid", "Missing"}
      BY <2>7, <3>2, Zenon DEF GossipVerify, NextInBatch, ctlVars, GenuineInv
    <3>3. QED
      BY <3>1, <3>2, Zenon
  <2>8. CASE GossipUpsert
    BY <2>8, Zenon DEF GossipUpsert, NextInBatch, Upsert, ctlVars, GenuineInv
  <2>9. CASE GossipAppend
    <3>1. Head(batch) \in AgentRecords
      BY <2>9 DEF GossipAppend, TypeOK
    <3>2. Genuine(Head(batch))
      BY <2>9, Zenon DEF GossipAppend, GenuineInv
    <3>3. \A i \in DOMAIN wal' : Genuine(FromEntry(wal'[i], 0))
      BY <2>9, <3>1, <3>2, AppendKeepsGenuine, Zenon DEF GossipAppend
    <3>4. QED
      BY <2>9, <3>3, Zenon DEF GossipAppend, NextInBatch, ctlVars, GenuineInv
  <2>10. CASE Crash
    BY <2>10, Zenon DEF Crash, GenuineInv
  <2>11. CASE \/ CtlFinish \/ (\E a \in Agents, revision \in Revisions : CtlHeartbeat(a, revision))
              \/ (\E b \in Batches : GossipPull(b))
    BY <2>11, Zenon DEF CtlFinish, CtlHeartbeat, GossipPull, ctlVars, gsVars, GenuineInv
  <2>12. CASE Start \/ StartThreads \/ Tick \/ UNCHANGED vars
    BY <2>12, Zenon DEF Start, StartThreads, Tick, vars, ctlVars, gsVars, GenuineInv
  <2>13. QED
    BY <2>1, <2>2, <2>3, <2>4, <2>5, <2>6, <2>7, <2>8, <2>9, <2>10, <2>11, <2>12, Zenon
    DEF Next
<1>3. GenuineInv => ListedAsSigned
  BY Zenon DEF GenuineInv, Genuine, ListedAsSigned
<1>4. ~Libsodium => ListedAsSigned
  BY Zenon DEF ListedAsSigned
<1>5. CASE Libsodium
  BY <1>1, <1>2, <1>3, <1>5, TypeCorrect, PTL DEF Spec
<1>6. CASE ~Libsodium
  BY <1>4, <1>6, PTL
<1>7. QED
  BY <1>5, <1>6

-----------------------------------------------------------------------------
(* R lists agent a at revision v or a later one.                           *)
Covers(R, a, v) == \E x \in R : x.agent = a /\ x.revision >= v

(* Loading a record covers it, and uncovers nothing: an older or equal     *)
(* record is left out only for one that is at least as new.                *)
LEMMA LoadCovers ==
  ASSUME NEW R \in SUBSET AgentRecords, NEW r \in AgentRecords, NEW t
  PROVE  /\ Covers(LoadRecord(R, r, t), r.agent, r.revision)
         /\ \A a : \A v \in Nat : Covers(R, a, v) => Covers(LoadRecord(R, r, t), a, v)
<1>1. r.revision \in Nat /\ \A x \in R : x.revision \in Nat
  BY DEF AgentRecords, Revisions
<1> DEFINE s == [r EXCEPT !.expires = t]
<1>2. s.agent = r.agent /\ s.revision = r.revision
  BY Zenon DEF AgentRecords
<1>3. CASE Find(R, r.agent) = {}
  <2>1. LoadRecord(R, r, t) = R \cup {s}
    BY <1>3, Zenon DEF LoadRecord
  <2> HIDE DEF s
  <2>2. QED
    BY <1>1, <1>2, <2>1 DEF Covers
<1>4. CASE Find(R, r.agent) # {} /\ \A x \in Find(R, r.agent) : r.revision > x.revision
  <2>1. LoadRecord(R, r, t) = (R \ Find(R, r.agent)) \cup {r}
    BY <1>4, Zenon DEF LoadRecord
  <2>2. QED
    BY <1>1, <1>4, <2>1 DEF Covers, Find
<1>5. CASE Find(R, r.agent) # {} /\ ~\A x \in Find(R, r.agent) : r.revision > x.revision
  <2>1. LoadRecord(R, r, t) = R
    BY <1>5, Zenon DEF LoadRecord
  <2>2. QED
    BY <1>1, <1>5, <2>1 DEF Covers, Find
<1>6. QED
  BY <1>3, <1>4, <1>5, Zenon

(* The strengthening of RecoveryCoversAcked: what has been answered OK, or *)
(* is about to be, is in the log, and recovery covers what it has read.    *)
RecoveryInv ==
  /\ \A q \in acked : \E e \in LogSet : e.agent = q.agent /\ e.revision = q.revision
  /\ ctlPc = "finish" => ToEntry(ctlReq) \in LogSet
  /\ mode = "loading" =>
       \A i \in DOMAIN wal :
         i < loadIx /\ wal[i].revision > 0 => Covers(records, wal[i].agent, wal[i].revision)

(* The log never loses an entry.                                           *)
LEMMA LogMonotonic ==
  ASSUME TypeOK, [Next]_vars
  PROVE  LogSet \subseteq LogSet'
<1>1. CASE CtlAppend
  <2>1. ToEntry(ctlReq) \in Entries
    BY <1>1, ToEntryType, Zenon DEF CtlAppend, TypeOK
  <2>2. QED
    BY <1>1, <2>1, AppendGrowsLog, Zenon DEF CtlAppend, TypeOK
<1>2. CASE GossipAppend
  <2>1. ToEntry(Head(batch)) \in Entries
    BY <1>2, ToEntryType DEF GossipAppend, TypeOK
  <2>2. QED
    BY <1>2, <2>1, AppendGrowsLog, Zenon DEF GossipAppend, TypeOK
<1>3. CASE UNCHANGED wal
  BY <1>3, Zenon DEF LogSet
<1>4. QED
  BY <1>1, <1>2, <1>3, LogSteps, Zenon

(* A restart forgets no acknowledged registration of a positive revision.  *)
(* OK is answered only after the append, no step removes a log entry, and  *)
(* loading keeps the highest revision of each agent in whatever order the  *)
(* threads happened to log them.                                           *)
THEOREM RecoveryIsComplete == Spec => []RecoveryCoversAcked
<1>1. Init => RecoveryInv
  BY Zenon DEF Init, RecoveryInv
<1>2. TypeOK /\ RecoveryInv /\ [Next]_vars => RecoveryInv'
  <2> SUFFICES ASSUME TypeOK, RecoveryInv, [Next]_vars PROVE RecoveryInv'
    BY Zenon
  <2>1. LogSet \subseteq LogSet'
    BY LogMonotonic, Zenon
  <2>2. \A q \in acked' : \E e \in LogSet' : e.agent = q.agent /\ e.revision = q.revision
    <3>1. CASE CtlFinish
      <4>1. ToEntry(ctlReq) \in LogSet'
        BY <2>1, <3>1, Zenon DEF CtlFinish, RecoveryInv
      <4>2. ToEntry(ctlReq).agent = ctlReq.agent /\ ToEntry(ctlReq).revision = ctlReq.revision
        BY Zenon DEF ToEntry
      <4>3. acked' = acked \cup {[agent |-> ctlReq.agent, revision |-> ctlReq.revision]}
        BY <3>1, Zenon DEF CtlFinish
      <4>4. ASSUME NEW q \in acked
            PROVE  \E e \in LogSet' : e.agent = q.agent /\ e.revision = q.revision
        BY <2>1, Zenon DEF RecoveryInv
      <4>5. ASSUME NEW q, q = [agent |-> ctlReq.agent, revision |-> ctlReq.revision]
            PROVE  \E e \in LogSet' : e.agent = q.agent /\ e.revision = q.revision
        BY <4>1, <4>2, <4>5, Zenon
      <4>6. QED
        BY <4>3, <4>4, <4>5, Zenon
    <3>2. CASE UNCHANGED acked
      BY <2>1, <3>2, Zenon DEF RecoveryInv
    <3>3. QED
      BY <3>1, <3>2, Zenon DEF Next, vars, Start, Load, StartThreads, Purge, CtlRegister,
         CtlUpsert, CtlAppend, CtlHeartbeat, CtlRefresh, GossipPull, GossipVerify,
         GossipUpsert, GossipAppend, Crash, Tick
  <2>3. ctlPc' = "finish" => ToEntry(ctlReq') \in LogSet'
    <3>1. CASE CtlAppend
      <4>1. ToEntry(ctlReq) \in Entries
        BY <3>1, ToEntryType, Zenon DEF CtlAppend, TypeOK
      <4>2. ToEntry(ctlReq) \in LogSet' /\ ctlReq' = ctlReq
        BY <3>1, <4>1, AppendGrowsLog, Zenon DEF CtlAppend, TypeOK
      <4>3. QED
        BY <4>2, Zenon
    <3>2. CASE UNCHANGED <<ctlPc, ctlReq>>
      BY <2>1, <3>2, Zenon DEF RecoveryInv
    <3>3. CASE ctlPc' # "finish"
      BY <3>3, Zenon
    <3>4. QED
      BY <3>1, <3>2, <3>3, Zenon DEF Next, vars, ctlVars, Start, Load, StartThreads, Purge,
         CtlRegister, CtlUpsert, CtlFinish, CtlHeartbeat, CtlRefresh, GossipPull,
         GossipVerify, GossipUpsert, GossipAppend, Crash, Tick
  <2>4. ASSUME mode' = "loading", NEW i \in DOMAIN wal', i < loadIx', wal'[i].revision > 0
        PROVE  Covers(records', wal'[i].agent, wal'[i].revision)
    <3>1. CASE Start
      <4>1. wal' = wal /\ loadIx' = 1
        BY <3>1, Zenon DEF Start
      <4>2. i \in 1..Len(wal) /\ Len(wal) \in Nat
        BY <2>4, <4>1 DEF TypeOK
      <4>3. QED
        BY <2>4, <4>1, <4>2
    <3>2. CASE Load
      <4> DEFINE r == FromEntry(wal[loadIx], now)
      <4>1. /\ wal' = wal /\ i \in DOMAIN wal /\ i <= loadIx /\ loadIx \in DOMAIN wal
            /\ wal[i].revision \in Nat /\ i \in Nat /\ loadIx \in Nat
        <5>1. wal' = wal /\ i \in 1..Len(wal) /\ loadIx \in 1..Len(wal) /\ i <= loadIx
          <6>1. wal' = wal /\ loadIx' = loadIx + 1 /\ loadIx <= Len(wal)
            BY <3>2, Zenon DEF Load
          <6>2. wal \in Seq(Entries) /\ loadIx \in Nat \ {0}
            BY Zenon DEF TypeOK
          <6>3. DOMAIN wal = 1..Len(wal) /\ Len(wal) \in Nat
            BY <6>2
          <6>4. QED
            BY <2>4, <6>1, <6>2, <6>3
        <5>2. wal \in Seq(Entries)
          BY Zenon DEF TypeOK
        <5>3. wal[i] \in Entries /\ DOMAIN wal = 1..Len(wal)
          BY <5>1, <5>2
        <5>4. wal[i].revision \in Revisions
          BY <5>3, Zenon DEF Entries
        <5>5. QED
          BY <5>1, <5>3, <5>4 DEF Revisions
      <4>2. r \in AgentRecords /\ r.agent = wal[loadIx].agent /\ r.revision = wal[loadIx].revision
        <5>1. wal[loadIx] \in Entries /\ now \in Nat
          <6>1. wal \in Seq(Entries) /\ now \in Nat
            BY Zenon DEF TypeOK
          <6>2. QED
            BY <4>1, <6>1
        <5>2. r \in AgentRecords
          BY <5>1, FromEntryType, Zenon
        <5>3. QED
          BY <5>2, Zenon DEF FromEntry
      <4>3. CASE i = loadIx
        BY <2>4, <3>2, <4>1, <4>2, <4>3, LoadCovers, Zenon DEF Load, TypeOK
      <4>4. CASE i < loadIx
        <5>1. Covers(records, wal[i].agent, wal[i].revision)
          BY <2>4, <3>2, <4>1, <4>4, Zenon DEF Load, RecoveryInv
        <5>2. QED
          BY <3>2, <4>1, <4>2, <5>1, LoadCovers, Zenon DEF Load, TypeOK
      <4>5. QED
        BY <4>1, <4>3, <4>4, SMTT(20)
    <3>3. CASE UNCHANGED <<mode, records, wal, loadIx>>
      BY <2>4, <3>3, Zenon DEF RecoveryInv
    <3>4. CASE mode = "running"
      BY <2>4, <3>4, Zenon DEF TypeOK, Next, vars, ctlVars, gsVars, Start, Load, StartThreads, Purge,
         CtlRegister, CtlUpsert, CtlAppend, CtlFinish, CtlHeartbeat, CtlRefresh,
         GossipPull, GossipVerify, GossipUpsert, GossipAppend, Crash, Tick
    <3>5. QED
      BY <2>4, <3>1, <3>2, <3>3, <3>4, Zenon DEF TypeOK, Next, vars, StartThreads, Purge,
         CtlRegister, CtlUpsert, CtlAppend, CtlFinish, CtlHeartbeat, CtlRefresh,
         GossipPull, GossipVerify, GossipUpsert, GossipAppend, Crash, Tick
  <2>5. QED
    BY <2>2, <2>3, <2>4, Zenon DEF RecoveryInv
<1>3. TypeOK /\ RecoveryInv => RecoveryCoversAcked
  <2> SUFFICES ASSUME TypeOK, RecoveryInv, Recovered, NEW q \in acked, q.revision > 0
               PROVE  Covers(records, q.agent, q.revision)
    BY Zenon DEF RecoveryCoversAcked, Covers
  <2>1. PICK i \in DOMAIN wal : wal[i].agent = q.agent /\ wal[i].revision = q.revision
    BY DEF RecoveryInv, LogSet
  <2>2. i < loadIx
    BY DEF Recovered, TypeOK
  <2>3. QED
    BY <2>1, <2>2, Zenon DEF RecoveryInv, Recovered
<1>4. QED
  BY <1>1, <1>2, <1>3, TypeCorrect, PTL DEF Spec

=============================================================================
