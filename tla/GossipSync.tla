------------------------------ MODULE GossipSync ------------------------------
(***************************************************************************)
(* Push-pull synchronisation between engines: GossipService's rounds and   *)
(* SyncClient::sync_with_peer on each node, against the control server of  *)
(* the peer.  Every request to the peer is a connection of its own (STATS, *)
(* SYNC_PULL, one MERGE per pushed record), so registrations and the       *)
(* synchronisations of other nodes interleave between any two of them, and *)
(* any of them can fail.                                                   *)
(*                                                                         *)
(* The fleet is unsigned (the SDK's default): verify_and_register answers  *)
(* Missing and lets every record pass.  Time stands still: records neither *)
(* expire nor are purged, and their expiry is the constant 0.              *)
(***************************************************************************)
EXTENDS AgentRegistry

CONSTANTS
  Nodes,        \* the engines
  Peers,        \* Peers[n]: the peers n was given as seeds
  Agents,
  Endpoints,    \* values of node_id and endpoint
  NoEndpoint,   \* the one of them in which either is empty
  Metadata,     \* the metadata agents register with
  NoMetadata,   \* metadata of which a part or everything is missing
  ShorterName,  \* ShorterName[a]: the agent ids that a cut in a can leave
  ShorterEndpoint,  \* the same for endpoints
  Radix,        \* of the numbers in a message (10)
  Registrars,   \* the nodes that agents register with
  Fresh,        \* whether every registration has a revision never used before
  MaxRevision,  \* bound: the highest revision
  MaxEntries,   \* gossip.max_registry_items_per_round (0: unlimited)
  Fanout,       \* GOSSIP_FANOUT
  MaxFailures   \* bound: failed or cut-off exchanges

ASSUME SyncAssumption ==
  /\ Peers \in [Nodes -> SUBSET Nodes]
  /\ Registrars \subseteq Nodes
  /\ NoEndpoint \in Endpoints /\ NoMetadata \notin Metadata
  /\ ShorterName \in [Agents -> SUBSET Agents]
  /\ ShorterEndpoint \in [Endpoints -> SUBSET Endpoints]
  /\ Radix \in Nat \ {0, 1}
  /\ Fresh \in BOOLEAN
  /\ MaxRevision \in Nat /\ MaxEntries \in Nat /\ Fanout \in Nat /\ MaxFailures \in Nat

(* A registration names a node and an endpoint; a record parsed from an    *)
(* answer need not.                                                        *)
Records ==
  [agent : Agents, endpoint : Endpoints, metadata : Metadata \cup {NoMetadata},
   revision : 0..MaxRevision, key : {NoKey}, expires : {0}]

Registrations ==
  [agent : Agents, endpoint : Endpoints \ {NoEndpoint}, metadata : Metadata,
   revision : 1..MaxRevision, key : {NoKey}, expires : {0}]

VARIABLES
  registry,  \* registry[n]: the records of node n
  todo,      \* todo[n]: peers still to visit in n's current round
  pc,        \* pc[n]: where n's gossip thread is in sync_with_peer
  peer,      \* peer[n]: the peer it synchronises with
  local,     \* local[n]: local_revision
  remote,    \* remote[n]: remote_revision
  batch,     \* batch[n]: records pulled and not merged, or planned and not pushed
  partial,   \* partial[n]: the record parsed from a line cut off, after batch[n]
  issued,    \* history: the highest revision registered so far
  failures,  \* number of failed or cut-off exchanges so far
  intact     \* history: no answer has been cut off within a line

flightVars == <<partial, failures, intact>>
syncVars == <<todo, pc, peer, local, remote, batch, flightVars>>
vars == <<registry, syncVars, issued>>

Init ==
  /\ registry = [n \in Nodes |-> {}]
  /\ todo = [n \in Nodes |-> {}]
  /\ pc = [n \in Nodes |-> "idle"]
  /\ peer = [n \in Nodes |-> n]
  /\ local = [n \in Nodes |-> 0]
  /\ remote = [n \in Nodes |-> 0]
  /\ batch = [n \in Nodes |-> {}]
  /\ partial = [n \in Nodes |-> {}]
  /\ issued = 0 /\ failures = 0 /\ intact = TRUE

-----------------------------------------------------------------------------
(* An agent's REGISTER or HEARTBEAT at node n; a refused one changes       *)
(* nothing.                                                                *)
MayUse(v) == Fresh => v > issued

Issue(v) == issued' = IF v > issued THEN v ELSE issued

RegisterAgent(n, r) ==
  /\ n \in Registrars /\ MayUse(r.revision)
  /\ UpsertAccepted(registry[n], r)
  /\ registry' = [registry EXCEPT ![n] = Upsert(@, r)]
  /\ Issue(r.revision)
  /\ UNCHANGED syncVars

Heartbeat(n, a, v) ==
  /\ n \in Registrars /\ MayUse(v)
  /\ HeartbeatAccepted(registry[n], a, v)
  /\ registry' = [registry EXCEPT ![n] = RefreshHeartbeat(@, a, 0, v)]
  /\ Issue(v)
  /\ UNCHANGED syncVars

-----------------------------------------------------------------------------
(* The timer of the gossip thread fires: a round over at most Fanout       *)
(* peers in random order.                                                  *)
StartRoundShort(n) ==
  /\ pc[n] = "idle" /\ todo[n] = {} /\ Peers[n] # {}
  /\ \E S \in SUBSET Peers[n] :
       /\ IF Cardinality(Peers[n]) <= Fanout THEN Cardinality(S) = Cardinality(Peers[n]) - 1
                                             ELSE Cardinality(S) = Fanout
       /\ todo' = [todo EXCEPT ![n] = S]
  /\ UNCHANGED <<registry, pc, peer, local, remote, batch, issued, flightVars>>

StartRound(n) ==
  /\ pc[n] = "idle" /\ todo[n] = {} /\ Peers[n] # {}
  /\ \E S \in SUBSET Peers[n] :
       /\ IF Cardinality(Peers[n]) <= Fanout THEN S = Peers[n]
                                             ELSE Cardinality(S) = Fanout
       /\ todo' = [todo EXCEPT ![n] = S]
  /\ UNCHANGED <<registry, pc, peer, local, remote, batch, issued, flightVars>>

(* sync_with_peer(): local_revision is read first ...                      *)
Begin(n, p) ==
  /\ pc[n] = "idle" /\ p \in todo[n]
  /\ \E h \in 0..MaxRevision :
       IsHighestRevision(registry[n], h) /\ local' = [local EXCEPT ![n] = h]
  /\ peer' = [peer EXCEPT ![n] = p]
  /\ pc' = [pc EXCEPT ![n] = "stats"]
  /\ UNCHANGED <<registry, todo, remote, batch, issued, flightVars>>

(* ... then remote_revision, by STATS ...                                  *)
Stats(n) ==
  /\ pc[n] = "stats"
  /\ \E h \in 0..MaxRevision :
       IsHighestRevision(registry[peer[n]], h) /\ remote' = [remote EXCEPT ![n] = h]
  /\ pc' = [pc EXCEPT ![n] = "pull"]
  /\ UNCHANGED <<registry, todo, peer, local, batch, issued, flightVars>>

(* send_command() reads to the end of the stream, wherever that is: what   *)
(* is left of an answer to STATS can show fewer digits, or no revision.    *)
Prefixes(v) == {u \in 0..v : u = 0 \/ \E d \in 1..v : u = v \div (Radix^d)}

StatsCut(n) ==
  /\ pc[n] = "stats" /\ failures < MaxFailures
  /\ \E h \in 0..MaxRevision : \E u \in Prefixes(h) :
       IsHighestRevision(registry[peer[n]], h) /\ remote' = [remote EXCEPT ![n] = u]
  /\ pc' = [pc EXCEPT ![n] = "pull"]
  /\ failures' = failures + 1
  /\ UNCHANGED <<registry, todo, peer, local, batch, issued, partial, intact>>

(* ... then SYNC_PULL after local_revision.                                *)
Pull(n) ==
  /\ pc[n] = "pull"
  /\ \E S \in EntriesAfterRevision(registry[peer[n]], local[n], MaxEntries) :
       batch' = [batch EXCEPT ![n] = S]
  /\ pc' = [pc EXCEPT ![n] = "merge"]
  /\ UNCHANGED <<registry, todo, peer, local, remote, issued, flightVars>>

(* What parse_agent_lines() makes of the line of r when the answer ends    *)
(* within it.  The fields come in the order agent_id, node_id and endpoint,*)
(* revision, metadata: the last one that arrives can be shorter than it    *)
(* was, and those after it are missing.  A line without agent_id is no     *)
(* record, and a revision without a digit is 0.                            *)
CutLine(r) ==
  LET ending(a, e, v) == [r EXCEPT !.agent = a, !.endpoint = e, !.revision = v,
                                   !.metadata = NoMetadata]
  IN ({ending(a, NoEndpoint, 0) : a \in ShorterName[r.agent] \cup {r.agent}}
      \cup {ending(r.agent, e, 0) : e \in ShorterEndpoint[r.endpoint] \cup {r.endpoint}}
      \cup {ending(r.agent, r.endpoint, v) : v \in Prefixes(r.revision) \cup {r.revision}})
     \ {r}

(* The answer to SYNC_PULL is cut off too, and nobody looks for its END:   *)
(* between two lines, it counts as a complete one ...                      *)
CutBatch(n, S, T) ==
  /\ \A x \in T, y \in S \ T : x.revision <= y.revision
  /\ batch' = [batch EXCEPT ![n] = T]
  /\ pc' = [pc EXCEPT ![n] = "merge"]
  /\ failures' = failures + 1

PullCut(n) ==
  /\ pc[n] = "pull" /\ failures < MaxFailures
  /\ \E S \in EntriesAfterRevision(registry[peer[n]], local[n], MaxEntries) :
       \E T \in SUBSET S : CutBatch(n, S, T)
  /\ UNCHANGED <<registry, todo, peer, local, remote, issued, partial, intact>>

(* ... and within a line, what is left of it counts as a record.           *)
PullCutInLine(n) ==
  /\ pc[n] = "pull" /\ failures < MaxFailures
  /\ \E S \in EntriesAfterRevision(registry[peer[n]], local[n], MaxEntries) :
       \E T \in SUBSET S : \E r \in LowestOf(S \ T) : \E c \in CutLine(r) :
         CutBatch(n, S, T) /\ partial' = [partial EXCEPT ![n] = {c}]
  /\ intact' = FALSE
  /\ UNCHANGED <<registry, todo, peer, local, remote, issued>>

(* A record reaches node t.                                                *)
Offer(t, r) ==
  registry' = IF UpsertAccepted(registry[t], r)
                THEN [registry EXCEPT ![t] = Upsert(@, r)] ELSE registry

(* The next record of batch[n], in ascending order, does.                  *)
HandOver(n, t, r) == Offer(t, r) /\ batch' = [batch EXCEPT ![n] = @ \ {r}]

Deliver(n, t) == \E r \in LowestOf(batch[n]) : HandOver(n, t, r)

Merge(n) ==
  /\ pc[n] = "merge"
  /\ Deliver(n, n)
  /\ UNCHANGED <<todo, pc, peer, local, remote, issued, flightVars>>

MergePartial(n) ==
  /\ pc[n] = "merge" /\ batch[n] = {}
  /\ \E r \in partial[n] : Offer(n, r)
  /\ partial' = [partial EXCEPT ![n] = {}]
  /\ UNCHANGED <<todo, pc, peer, local, remote, batch, issued, failures, intact>>

(* plan_push_pull(): what the registry now has above remote_revision.      *)
Plan(n) ==
  /\ pc[n] = "merge" /\ batch[n] = {} /\ partial[n] = {}
  /\ \E S \in EntriesAfterRevision(registry[n], remote[n], MaxEntries) :
       batch' = [batch EXCEPT ![n] = S]
  /\ pc' = [pc EXCEPT ![n] = "push"]
  /\ UNCHANGED <<registry, todo, peer, local, remote, issued, flightVars>>

(* push_entries(): one MERGE each; a refusal is not an error.  A MERGE     *)
(* without node or endpoint is refused before the registry sees it.        *)
Push(n) ==
  /\ pc[n] = "push"
  /\ \E r \in LowestOf(batch[n]) : r.endpoint # NoEndpoint /\ HandOver(n, peer[n], r)
  /\ UNCHANGED <<todo, pc, peer, local, remote, issued, flightVars>>

PushRefused(n) ==
  /\ pc[n] = "push"
  /\ \E r \in LowestOf(batch[n]) :
       r.endpoint = NoEndpoint /\ batch' = [batch EXCEPT ![n] = @ \ {r}]
  /\ UNCHANGED <<registry, todo, pc, peer, local, remote, issued, flightVars>>

LeavePeerKeepsBatch(n) ==
  /\ pc' = [pc EXCEPT ![n] = "idle"]
  /\ todo' = [todo EXCEPT ![n] = @ \ {peer[n]}]
  /\ local' = [local EXCEPT ![n] = 0]
  /\ remote' = [remote EXCEPT ![n] = 0]
  /\ peer' = [peer EXCEPT ![n] = n]
  /\ UNCHANGED <<registry, batch, issued, partial, intact>>

LeavePeer(n) ==
  /\ pc' = [pc EXCEPT ![n] = "idle"]
  /\ todo' = [todo EXCEPT ![n] = @ \ {peer[n]}]
  /\ batch' = [batch EXCEPT ![n] = {}]
  /\ local' = [local EXCEPT ![n] = 0]
  /\ remote' = [remote EXCEPT ![n] = 0]
  /\ peer' = [peer EXCEPT ![n] = n]
  /\ UNCHANGED <<registry, issued, partial, intact>>

Done(n) ==
  /\ pc[n] = "push" /\ batch[n] = {}
  /\ LeavePeer(n)
  /\ UNCHANGED failures

(* A connection cannot be made, or breaks before its answer is complete:   *)
(* sync_with_peer_tcp() catches the exception and goes on to the next peer.*)
(* A MERGE whose answer is lost is a Push followed by this.                *)
Fail(n) ==
  /\ pc[n] \in {"stats", "pull", "push"} /\ failures < MaxFailures
  /\ LeavePeer(n)
  /\ failures' = failures + 1

SyncStep(n) ==
  \/ StartRound(n) \/ (\E p \in Nodes : Begin(n, p)) \/ Stats(n) \/ Pull(n) \/ Merge(n)
  \/ MergePartial(n) \/ Plan(n) \/ Push(n) \/ PushRefused(n) \/ Done(n)

(* An exchange that fails or whose answer is cut off.                      *)
BadStep(n) == StatsCut(n) \/ PullCut(n) \/ PullCutInLine(n) \/ Fail(n)

Next ==
  \/ \E n \in Nodes, r \in Registrations : RegisterAgent(n, r)
  \/ \E n \in Nodes, a \in Agents, v \in 1..MaxRevision : Heartbeat(n, a, v)
  \/ \E n \in Nodes : SyncStep(n) \/ BadStep(n)

Spec == Init /\ [][Next]_vars

(* Every gossip thread keeps going: its timer fires every two seconds, and *)
(* each exchange ends, by an answer or by a failure.                       *)
FairSpec == Spec /\ \A n \in Nodes : WF_vars(SyncStep(n))

-----------------------------------------------------------------------------
(***************************************************************************)
(* Properties.                                                             *)
(***************************************************************************)

(* Types; a node synchronises with one of its peers, and holds records in  *)
(* flight only while it merges or pushes, incomplete ones only after an    *)
(* answer was cut off within a line.                                       *)
TypeOK ==
  /\ registry \in [Nodes -> SUBSET Records]
  /\ todo \in [Nodes -> SUBSET Nodes]
  /\ pc \in [Nodes -> {"idle", "stats", "pull", "merge", "push"}]
  /\ peer \in [Nodes -> Nodes]
  /\ local \in [Nodes -> 0..MaxRevision]
  /\ remote \in [Nodes -> 0..MaxRevision]
  /\ batch \in [Nodes -> SUBSET Records]
  /\ \A n \in Nodes : batch[n] # {} => pc[n] \in {"merge", "push"}
  /\ partial \in [Nodes -> SUBSET Records]
  /\ \A n \in Nodes : partial[n] # {} => pc[n] = "merge" /\ ~intact
  /\ issued \in Nat /\ failures \in Nat /\ intact \in BOOLEAN

(* No node ever holds an agent at a lower revision than it did before, or  *)
(* drops one, whatever stale, repeated or incomplete record a peer         *)
(* delivers: pulls, pushes and registrations of several nodes interleave   *)
(* on one registry.                                                        *)
NeverGoesBack ==
  [][\A n \in Nodes : \A x \in registry[n] :
       \E y \in registry'[n] : y.agent = x.agent /\ y.revision >= x.revision]_vars

(* With one registering node and fresh revisions, the revision cursor of   *)
(* synchronisation is sound: a node that has reached revision v has every  *)
(* record that the registrar holds up to v, through any number of relays,  *)
(* limits, failures and cut-off answers, unless one was cut within a line. *)
NoGaps ==
  intact =>
    \A w \in Registrars, n \in Nodes :
      \A x \in registry[n], y \in registry[w] : y.revision <= x.revision => y \in registry[n]

(* The highest revision stands for the whole registry, as sync_with_peer() *)
(* takes it to when it compares the two before it pulls and pushes: with   *)
(* one registering node and fresh revisions, a node whose highest revision *)
(* is the registrar's has the registrar's records, and no others, however  *)
(* its relays were interleaved with replacements at the registrar, unless  *)
(* an answer was cut within a line.                                        *)
EqualRevisionsEqualRecords ==
  intact =>
    \A w \in Registrars, n \in Nodes, h \in 0..MaxRevision :
      IsHighestRevision(registry[w], h) /\ IsHighestRevision(registry[n], h)
        => registry[n] = registry[w]

(* README: gossip "ensures eventual consistency across the network".       *)
(* Registrations end (they are bounded here); from some point on all nodes *)
(* have the same registry, unless an answer was cut within a line.         *)
EventualConsistency ==
  <>[](intact => \A m, n \in Nodes : registry[m] = registry[n])

=============================================================================
