-------------------------------- MODULE Engine --------------------------------
(***************************************************************************)
(* One beacon_engine process (main.cpp) and its restarts.  Three threads   *)
(* share the registry, the trust store and the write-ahead log:            *)
(*                                                                         *)
(*   control  serves one REGISTER, MERGE or HEARTBEAT at a time, in the    *)
(*            line protocol or as a protobuf frame;                        *)
(*   gossip   merges the records a peer returned for SYNC_PULL;            *)
(*   main     recovers the log, starts the others, purges expired agents.  *)
(*                                                                         *)
(* A step is what a thread does between two points where another thread    *)
(* can run: each critical section of mutex_ (AgentRegistry), mutex_        *)
(* (IdentityService) and persistence_mutex_ (PersistenceService) is one    *)
(* step, and AgentRegistry::upsert is two, because it calls on_upsert_     *)
(* after it has released the registry's lock.  A crash can come between    *)
(* any two steps.  Requests that fail to parse, read-only requests (LIST,  *)
(* STATS, SYNC_PULL, find) and refusals change no variable of this module. *)
(*                                                                         *)
(* The log is a sequence of whole entries here; its bytes are the subject  *)
(* of module Persistence.                                                  *)
(***************************************************************************)
EXTENDS IdentityService, Sequences

CONSTANTS
  Submissions,        \* the registrations agents and peers submit
  RequireSignatures,  \* trust.require_signatures
  HeartbeatTTL,       \* lifecycle.heartbeat_ttl
  PullTTL,            \* the minute parse_agent_lines gives a pulled record
  Year,               \* the 365 days of load_from_persistence
  MergeBound,         \* longest time a pulled batch waits to be merged
  MaxTime,            \* bound: the clock stops here
  MaxLog,             \* bound: entries in the write-ahead log
  MaxBatch            \* bound: records in one SYNC_PULL response

ASSUME EngineAssumption ==
  /\ Submissions \subseteq Registration
  /\ RequireSignatures \in BOOLEAN
  /\ HeartbeatTTL \in Nat /\ PullTTL \in Nat /\ Year \in Nat
  /\ MergeBound \in Nat /\ MaxTime \in Nat /\ MaxLog \in Nat /\ MaxBatch \in Nat

VARIABLES
  mode,      \* "down", "loading" (main before the threads start), "running"
  records,   \* registry: AgentRegistry::records_
  trust,     \* IdentityService::trust_store_
  wal,       \* the entries on disk, oldest first
  loadIx,    \* next recovered entry to load
  ctlPc,     \* control thread: where it is in the current request
  ctlReq,    \* ... and the record or heartbeat it is working on
  ctlProto,  \* ... and whether it came as a protobuf frame
  gsPc,      \* gossip thread: where it is in AgentRegistry::merge
  batch,     \* ... and the pulled records it has still to merge
  now,       \* Clock::now()
  acked,     \* history: [agent, revision] of every registration answered OK
  deadline   \* history: until when the last OK promises to list an agent

ctlVars == <<ctlPc, ctlReq, ctlProto>>
gsVars == <<gsPc, batch>>
vars == <<mode, records, trust, wal, loadIx, ctlVars, gsVars, now, acked, deadline>>

NoRequest == [agent |-> "none"]
Heartbeats == [agent : Agents, revision : Revisions, expires : Nat]
Acks == [agent : Agents, revision : Revisions]
NoDeadline == [a \in Agents |-> 0]

Init ==
  /\ mode = "down"
  /\ records = {} /\ trust = EmptyTrust
  /\ wal = <<>> /\ loadIx = 1
  /\ ctlPc = "idle" /\ ctlReq = NoRequest /\ ctlProto = FALSE
  /\ gsPc = "idle" /\ batch = <<>>
  /\ now = 0 /\ acked = {} /\ deadline = NoDeadline

-----------------------------------------------------------------------------
(***************************************************************************)
(* main(): recovery.  recover() hands back the entries of the log whose    *)
(* timestamp, which is the record's revision, exceeds that of the snapshot *)
(* (0: the engine never takes one).                                        *)
(***************************************************************************)
Start ==
  /\ mode = "down"
  /\ mode' = "loading" /\ loadIx' = 1
  /\ UNCHANGED <<records, trust, wal, ctlVars, gsVars, now, acked, deadline>>

Load ==
  /\ mode = "loading" /\ loadIx <= Len(wal)
  /\ records' = IF wal[loadIx].revision > 0
                  THEN LoadRecord(records, FromEntry(wal[loadIx], now), now + Year)
                  ELSE records
  /\ loadIx' = loadIx + 1
  /\ UNCHANGED <<mode, trust, wal, ctlVars, gsVars, now, acked, deadline>>

StartThreads ==
  /\ mode = "loading" /\ loadIx > Len(wal)
  /\ mode' = "running"
  /\ UNCHANGED <<records, trust, wal, loadIx, ctlVars, gsVars, now, acked, deadline>>

(* The main loop.  Clock::now() is read before purge_expired takes the     *)
(* lock, so the purge may use an older time than the current one.          *)
Purge ==
  /\ mode = "running"
  /\ \E t \in 0..now : records' = PurgeExpired(records, t)
  /\ UNCHANGED <<mode, trust, wal, loadIx, ctlVars, gsVars, now, acked, deadline>>

-----------------------------------------------------------------------------
(***************************************************************************)
(* The control thread: handle_line() and handle_control_request_payload(). *)
(* Register and Merge differ only in the text of the answer.               *)
(***************************************************************************)
AllowedWhenOptional(r) == RequireSignatures => SignatureStatus(r) = "Valid"

SignatureAllowed(r) ==
  /\ RequireSignatures => SignatureStatus(r) = "Valid"
  /\ ~RequireSignatures => SignatureStatus(r) # "Invalid"

(* from_proto() receives bytes, so its texts are always well-formed.       *)
FromProto(q) ==
  [q EXCEPT !.key = Canonical[q.key],
            !.signature = IF q.signature = MalformedSignature THEN NoSignature
                                                              ELSE q.signature]

CtlRegister(q, proto) ==
  /\ mode = "running" /\ ctlPc = "idle"
  /\ LET r == WithExpiry(IF proto THEN FromProto(q) ELSE q, now + HeartbeatTTL)
     IN SignatureAllowed(r) /\ ctlReq' = r
  /\ ctlPc' = "upsert" /\ ctlProto' = proto
  /\ UNCHANGED <<mode, records, trust, wal, loadIx, gsVars, now, acked, deadline>>

CtlUpsert ==
  /\ ctlPc = "upsert"
  /\ IF UpsertAccepted(records, ctlReq)
       THEN /\ records' = Upsert(records, ctlReq)
            /\ ctlPc' = "append" /\ UNCHANGED <<ctlReq, ctlProto>>
       ELSE /\ ctlPc' = "idle" /\ ctlReq' = NoRequest /\ ctlProto' = FALSE
            /\ UNCHANGED records
  /\ UNCHANGED <<mode, trust, wal, loadIx, gsVars, now, acked, deadline>>

CtlAppend ==
  /\ ctlPc = "append" /\ Len(wal) < MaxLog
  /\ wal' = Append(wal, ToEntry(ctlReq))
  /\ ctlPc' = "finish"
  /\ UNCHANGED <<mode, records, trust, loadIx, ctlReq, ctlProto, gsVars, now, acked,
                 deadline>>

(* register_identity() and the answer OK.  The protobuf handler passes     *)
(* verify_and_register() the record it has moved from, whose key is empty. *)
CtlFinish ==
  /\ ctlPc = "finish"
  /\ trust' = IF ctlProto THEN trust ELSE Register(trust, ctlReq)
  /\ acked' = acked \cup {[agent |-> ctlReq.agent, revision |-> ctlReq.revision]}
  /\ deadline' = [deadline EXCEPT ![ctlReq.agent] = ctlReq.expires]
  /\ ctlPc' = "idle" /\ ctlReq' = NoRequest /\ ctlProto' = FALSE
  /\ UNCHANGED <<mode, records, wal, loadIx, gsVars, now>>

CtlHeartbeat(a, revision) ==
  /\ mode = "running" /\ ctlPc = "idle"
  /\ ctlReq' = [agent |-> a, revision |-> revision, expires |-> now + HeartbeatTTL]
  /\ ctlPc' = "refresh"
  /\ UNCHANGED <<mode, records, trust, wal, loadIx, ctlProto, gsVars, now, acked, deadline>>

CtlRefresh ==
  /\ ctlPc = "refresh"
  /\ IF HeartbeatAccepted(records, ctlReq.agent, ctlReq.revision)
       THEN /\ records' = RefreshHeartbeat(records, ctlReq.agent, ctlReq.expires,
                                           ctlReq.revision)
            /\ deadline' = [deadline EXCEPT ![ctlReq.agent] = ctlReq.expires]
       ELSE UNCHANGED <<records, deadline>>
  /\ ctlPc' = "idle" /\ ctlReq' = NoRequest
  /\ UNCHANGED <<mode, trust, wal, loadIx, ctlProto, gsVars, now, acked>>

-----------------------------------------------------------------------------
(***************************************************************************)
(* The gossip thread: merge_response() parses the whole answer, then       *)
(* AgentRegistry::merge() takes one record after the other.                *)
(***************************************************************************)
Batches == UNION {[1..n -> Submissions] : n \in 1..MaxBatch}

GossipPull(b) ==
  /\ mode = "running" /\ gsPc = "idle"
  /\ batch' = [i \in DOMAIN b |-> WithExpiry(b[i], now + PullTTL)]
  /\ gsPc' = "verify"
  /\ UNCHANGED <<mode, records, trust, wal, loadIx, ctlVars, now, acked, deadline>>

NextInBatchStaysBusy ==
  /\ batch' = Tail(batch)
  /\ gsPc' = "verify"

NextInBatch ==
  /\ batch' = Tail(batch)
  /\ gsPc' = IF Tail(batch) = <<>> THEN "idle" ELSE "verify"

GossipVerify ==
  /\ gsPc = "verify"
  /\ trust' = Register(trust, Head(batch))
  /\ IF Verdict(trust, Head(batch)) \in {"Valid", "Missing"}
       THEN gsPc' = "upsert" /\ UNCHANGED batch
       ELSE NextInBatch
  /\ UNCHANGED <<mode, records, wal, loadIx, ctlVars, now, acked, deadline>>

GossipUpsertUnlogged ==
  /\ gsPc = "upsert"
  /\ records' = IF UpsertAccepted(records, Head(batch)) THEN Upsert(records, Head(batch))
                                                        ELSE records
  /\ NextInBatch
  /\ UNCHANGED <<mode, trust, wal, loadIx, ctlVars, now, acked, deadline>>

GossipUpsert ==
  /\ gsPc = "upsert"
  /\ IF UpsertAccepted(records, Head(batch))
       THEN /\ records' = Upsert(records, Head(batch))
            /\ gsPc' = "append" /\ UNCHANGED batch
       ELSE NextInBatch /\ UNCHANGED records
  /\ UNCHANGED <<mode, trust, wal, loadIx, ctlVars, now, acked, deadline>>

GossipAppend ==
  /\ gsPc = "append" /\ Len(wal) < MaxLog
  /\ wal' = Append(wal, ToEntry(Head(batch)))
  /\ NextInBatch
  /\ UNCHANGED <<mode, records, trust, loadIx, ctlVars, now, acked, deadline>>

-----------------------------------------------------------------------------
(* The process dies: everything but the log is lost, and with it the       *)
(* promises made to heartbeats, which are never logged.                    *)
Crash ==
  /\ mode # "down"
  /\ mode' = "down" /\ records' = {} /\ trust' = EmptyTrust
  /\ ctlPc' = "idle" /\ ctlReq' = NoRequest /\ ctlProto' = FALSE
  /\ gsPc' = "idle" /\ batch' = <<>>
  /\ deadline' = NoDeadline
  /\ UNCHANGED <<wal, loadIx, now, acked>>

(* Time passes.  A pulled batch is merged within MergeBound of its arrival *)
(* (the code sets no such limit: MergeBound >= MaxTime switches it off).   *)
Tick ==
  /\ now < MaxTime
  /\ gsPc # "idle" => now + PullTTL < Head(batch).expires + MergeBound
  /\ now' = now + 1
  /\ UNCHANGED <<mode, records, trust, wal, loadIx, ctlVars, gsVars, acked, deadline>>

Next ==
  \/ Start \/ Load \/ StartThreads \/ Purge
  \/ \E q \in Submissions, proto \in BOOLEAN : CtlRegister(q, proto)
  \/ CtlUpsert \/ CtlAppend \/ CtlFinish
  \/ \E a \in Agents, revision \in Revisions : CtlHeartbeat(a, revision)
  \/ CtlRefresh
  \/ \E b \in Batches : GossipPull(b)
  \/ GossipVerify \/ GossipUpsert \/ GossipAppend
  \/ Crash \/ Tick

Spec == Init /\ [][Next]_vars

-----------------------------------------------------------------------------
(***************************************************************************)
(* Properties.                                                             *)
(***************************************************************************)

(* Types, and what each thread is working on at each of its points: a      *)
(* request is a full record until it is answered, the gossip thread is     *)
(* busy exactly while its batch is not empty, and nobody works before the  *)
(* threads are started.                                                    *)
TypeOK ==
  /\ mode \in {"down", "loading", "running"}
  /\ records \in SUBSET AgentRecords
  /\ trust \in [Agents -> KeyTexts]
  /\ wal \in Seq(Entries) /\ loadIx \in Nat \ {0}
  /\ ctlPc \in {"idle", "upsert", "append", "finish", "refresh"}
  /\ ctlPc \in {"upsert", "append", "finish"} => ctlReq \in AgentRecords
  /\ ctlPc = "refresh" => ctlReq \in Heartbeats
  /\ ctlProto \in BOOLEAN
  /\ gsPc \in {"idle", "verify", "upsert", "append"}
  /\ batch \in Seq(AgentRecords) /\ (gsPc = "idle" <=> batch = <<>>)
  /\ mode # "running" => ctlPc = "idle" /\ gsPc = "idle"
  /\ now \in Nat /\ acked \in SUBSET Acks /\ deadline \in [Agents -> Nat]

(* The registry never lists an agent twice, whichever of the control and   *)
(* gossip threads inserts it, and whatever recovery loaded before them:    *)
(* upsert and load_from_persistence look up and write under one lock.      *)
OneRecordPerAgent ==
  \A x, y \in records : x.agent = y.agent => x = y

(* The entries accepted into the registry whose append is still to come:   *)
(* upsert has released the lock and on_upsert_ has not yet run.            *)
Pending ==
  (IF ctlPc = "append" THEN {ToEntry(ctlReq)} ELSE {}) \cup
  (IF gsPc = "append" THEN {ToEntry(Head(batch))} ELSE {})

(* Whatever the registry lists has been logged, or is about to be by the   *)
(* thread that put it there: same agent, endpoint and key, at a revision   *)
(* that only heartbeats have raised since.  Two threads may append in the  *)
(* opposite order to their upserts, and either may overwrite the other's   *)
(* record before it is on disk; a crash clears the registry, never more.   *)
RegistryBackedByLog ==
  \A x \in records :
    \E e \in Pending \cup {wal[i] : i \in DOMAIN wal} :
      /\ e.agent = x.agent /\ e.endpoint = x.endpoint
      /\ e.key = Canonical[x.key] /\ e.revision <= x.revision

Recovered == mode = "loading" /\ loadIx > Len(wal)

(* A restart forgets no registration that was answered OK: when recovery   *)
(* is done the agent is listed again at the acknowledged revision or a     *)
(* later one, however the appends of the two threads were interleaved and  *)
(* however often the process died, recovery included.  Revision 0 is left  *)
(* out: recover() drops its entries as no newer than an absent snapshot.   *)
RecoveryCoversAcked ==
  Recovered =>
    \A q \in acked :
      q.revision > 0 =>
        \E x \in records : x.agent = q.agent /\ x.revision >= q.revision

(* AgentRegistry::merge checks a pulled record against the trust store and *)
(* upserts it in two steps, and the control thread can pin a key between   *)
(* them: even so a signed record that the gossip thread goes on to upsert  *)
(* and log carries the key pinned for its agent at that moment.            *)
MergeRespectsPin ==
  /\ gsPc \in {"upsert", "append"}
  /\ SignatureStatus(Head(batch)) = "Valid"
  => trust[Head(batch).agent] = Canonical[Head(batch).key]

(* The signature of x is one that its key made for its agent and endpoint; *)
(* the revision may have risen since, and the metadata may be gone.        *)
SignatureCovers(x) ==
  \E m \in Metadata, v \in Revisions :
    /\ v <= x.revision /\ x.metadata \in {m, NoMetadata}
    /\ x.signature = Sign(Canonical[x.key], [x EXCEPT !.metadata = m, !.revision = v])

(* Signatures are checked when a record arrives, never when it is loaded   *)
(* from the log or raised by a heartbeat, and the on-disk form rewrites    *)
(* key and signature: even so no listed record carries a signature that    *)
(* its key did not make for that agent at that endpoint.                   *)
ListedAsSigned ==
  Libsodium =>
    \A x \in records : x.key # NoKey /\ x.signature # NoSignature => SignatureCovers(x)

(* An agent whose registration or heartbeat was answered OK stays listed   *)
(* until the TTL it was promised has run out, in spite of purges that use  *)
(* an old time and of pulled records that replace its own with an expiry   *)
(* computed when they were parsed.  It needs pulled batches to be merged   *)
(* within PullTTL - HeartbeatTTL.                                          *)
HeartbeatHonoured ==
  \A a \in Agents :
    mode = "running" /\ now < deadline[a] => Find(records, a) # {}

-----------------------------------------------------------------------------
(***************************************************************************)
(* What the documentation says and the code does not do.                   *)
(***************************************************************************)

(* README: the log ensures "state recovery after crashes".  A recovered    *)
(* agent is not already expired when the threads start.                    *)
RecoveredAgentsAreLive ==
  Recovered => \A x \in records : x.expires > now

=============================================================================
