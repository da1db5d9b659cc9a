------------------------------ MODULE Lifecycle ------------------------------
(***************************************************************************)
(* Agents that come, send heartbeats and stop, on engines that synchronise *)
(* as in GossipSync, with time superposed on it: every record has a time   *)
(* to live on every node, which registrations, heartbeats, pulls and       *)
(* pushes renew and which the purge of the main loop looks at.             *)
(*                                                                         *)
(* One unit of time is purge_interval.  Remaining times run down to 0 and  *)
(* stay there, so that time goes on for ever in finitely many states.      *)
(***************************************************************************)
EXTENDS GossipSync

CONSTANTS
  HeartbeatTTL,  \* lifecycle.heartbeat_ttl, in units of purge_interval
  PullTTL,       \* the minute parse_agent_lines gives a pulled record
  Rising,        \* whether heartbeats raise the revision (the SDK: by default not)
  SpreadTime     \* time by which a registration is to be on every node

ASSUME LifecycleAssumption ==
  /\ HeartbeatTTL \in Nat /\ PullTTL \in Nat /\ SpreadTime \in Nat
  /\ Rising \in BOOLEAN

VARIABLES
  status,  \* status[a]: "new", "live" or "stopped"
  ttl,     \* ttl[n][a]: time to live of n's record of a, 0 if it is over
  parsed,  \* parsed[n]: the same for the records in batch[n]
  beat,    \* the agents that sent a heartbeat in this unit of time
  swept,   \* the nodes that purged in it
  rounds,  \* rounds[n]: whether n has begun, or completed, a round in it
  age      \* history: time since a registered, up to SpreadTime

agentVars == <<status, beat, age>>
timeVars == <<agentVars, ttl, parsed, swept, rounds>>
timedVars == <<vars, timeVars>>

TimedInit ==
  /\ Init
  /\ status = [a \in Agents |-> "new"]
  /\ ttl = [n \in Nodes |-> [a \in Agents |-> 0]]
  /\ parsed = [n \in Nodes |-> 0]
  /\ beat = {} /\ swept = {}
  /\ rounds = [n \in Nodes |-> "none"]
  /\ age = [a \in Agents |-> 0]

Listed(n, a) == Find(registry[n], a) # {}

-----------------------------------------------------------------------------
(* The agents.  A registration and a heartbeat get the same time to live.  *)
Register(n, r) ==
  /\ status[r.agent] = "new"
  /\ RegisterAgent(n, r)
  /\ status' = [status EXCEPT ![r.agent] = "live"]
  /\ beat' = beat \cup {r.agent}
  /\ ttl' = [ttl EXCEPT ![n][r.agent] = HeartbeatTTL]
  /\ UNCHANGED <<parsed, swept, rounds, age>>

Beat(n, a, v) ==
  /\ status[a] = "live" /\ a \notin beat
  /\ \A x \in Find(registry[n], a) : IF Rising THEN v > issued ELSE v = x.revision
  /\ Heartbeat(n, a, v)
  /\ beat' = beat \cup {a}
  /\ ttl' = [ttl EXCEPT ![n][a] = HeartbeatTTL]
  /\ UNCHANGED <<status, parsed, swept, rounds, age>>

StopAgent(a) ==
  /\ status[a] = "live"
  /\ status' = [status EXCEPT ![a] = "stopped"]
  /\ UNCHANGED <<vars, ttl, parsed, beat, swept, rounds, age>>

-----------------------------------------------------------------------------
(* The main loop: purge_expired(), then it sleeps for purge_interval.      *)
PurgeTooSoon(n) ==
  /\ n \notin swept
  /\ registry' = [registry EXCEPT ![n] = {x \in @ : ttl[n][x.agent] > 1}]
  /\ swept' = swept \cup {n}
  /\ UNCHANGED <<syncVars, issued, agentVars, ttl, parsed, rounds>>

Purge(n) ==
  /\ n \notin swept
  /\ registry' = [registry EXCEPT ![n] = {x \in @ : ttl[n][x.agent] > 0}]
  /\ swept' = swept \cup {n}
  /\ UNCHANGED <<syncVars, issued, agentVars, ttl, parsed, rounds>>

-----------------------------------------------------------------------------
(* The gossip thread.  parse_agent_lines() stamps what was pulled when it  *)
(* is parsed; a pushed record is stamped by the peer, as a registration.   *)
(* The expiry that the sender had for it is not part of the message.       *)
Renewed(n, t, d) ==
  [ttl EXCEPT ![t] =
     [a \in Agents |->
        IF \E r \in batch[n] \ batch'[n] : r.agent = a /\ UpsertAccepted(registry[t], r)
          THEN d ELSE @[a]]]

PullUnstamped(n) ==
  /\ Pull(n)
  /\ parsed' = [parsed EXCEPT ![n] = 0]
  /\ UNCHANGED <<agentVars, ttl, swept, rounds>>

TimedPull(n) ==
  /\ Pull(n)
  /\ parsed' = [parsed EXCEPT ![n] = PullTTL]
  /\ UNCHANGED <<agentVars, ttl, swept, rounds>>

TimedMerge(n) ==
  /\ Merge(n)
  /\ ttl' = Renewed(n, n, parsed[n])
  /\ UNCHANGED <<agentVars, parsed, swept, rounds>>

PushKeepsTTL(n) ==
  /\ Push(n)
  /\ ttl' = Renewed(n, peer[n], 0)
  /\ UNCHANGED <<agentVars, parsed, swept, rounds>>

TimedPush(n) ==
  /\ Push(n)
  /\ ttl' = Renewed(n, peer[n], HeartbeatTTL)
  /\ UNCHANGED <<agentVars, parsed, swept, rounds>>

TimedDone(n) ==
  /\ Done(n)
  /\ rounds' = IF todo'[n] = {} /\ rounds[n] = "begun"
                 THEN [rounds EXCEPT ![n] = "done"] ELSE rounds
  /\ parsed' = [parsed EXCEPT ![n] = 0]
  /\ UNCHANGED <<agentVars, ttl, swept>>

TimedStartRound(n) ==
  /\ StartRound(n)
  /\ rounds' = [rounds EXCEPT ![n] = IF @ = "none" THEN "begun" ELSE @]
  /\ UNCHANGED <<agentVars, ttl, parsed, swept>>

Untimed(n) ==
  /\ (\E p \in Nodes : Begin(n, p)) \/ Stats(n) \/ Plan(n)
  /\ UNCHANGED timeVars

TimedSyncStep(n) ==
  TimedStartRound(n) \/ Untimed(n) \/ TimedPull(n) \/ TimedMerge(n) \/ TimedPush(n) \/ TimedDone(n)

-----------------------------------------------------------------------------
(* A unit of time passes, in which every main loop has purged, every       *)
(* gossip thread has made a round (it starts one every two seconds)        *)
(* and every live agent has sent a heartbeat.                              *)
Less(t) == IF t > 0 THEN t - 1 ELSE 0

Tick ==
  /\ swept = Nodes /\ \A n \in Nodes : Peers[n] # {} => rounds[n] = "done"
  /\ \A a \in Agents : status[a] = "live" => a \in beat
  /\ ttl' = [n \in Nodes |-> [a \in Agents |-> Less(ttl[n][a])]]
  /\ parsed' = [n \in Nodes |-> Less(parsed[n])]
  /\ beat' = {} /\ swept' = {}
  /\ rounds' = [n \in Nodes |-> "none"]
  /\ age' = [a \in Agents |->
               IF status[a] = "live" /\ age[a] < SpreadTime THEN age[a] + 1 ELSE age[a]]
  /\ UNCHANGED <<vars, status>>

TimedNext ==
  \/ \E n \in Nodes, r \in Registrations : Register(n, r)
  \/ \E n \in Nodes, a \in Agents, v \in 1..MaxRevision : Beat(n, a, v)
  \/ \E a \in Agents : StopAgent(a)
  \/ \E n \in Nodes : Purge(n) \/ TimedSyncStep(n)
  \/ Tick

TimedSpec == TimedInit /\ [][TimedNext]_timedVars

(* Time goes on, and the main loop and the gossip thread of every node     *)
(* with it.                                                                *)
TimedFairSpec ==
  /\ TimedSpec
  /\ WF_timedVars(Tick)
  /\ \A n \in Nodes : WF_timedVars(Purge(n)) /\ WF_timedVars(TimedSyncStep(n))
  /\ \A a \in Agents :
       WF_timedVars(\E n \in Nodes, v \in 1..MaxRevision : Beat(n, a, v))

-----------------------------------------------------------------------------
(***************************************************************************)
(* Properties.                                                             *)
(***************************************************************************)

(* Types, and a record that a node lists and that has not run out is the   *)
(* only thing with a time to live.                                         *)
TimedTypeOK ==
  /\ TypeOK
  /\ status \in [Agents -> {"new", "live", "stopped"}]
  /\ ttl \in [Nodes -> [Agents -> 0..HeartbeatTTL + PullTTL]]
  /\ parsed \in [Nodes -> 0..PullTTL]
  /\ beat \in SUBSET Agents /\ swept \in SUBSET Nodes
  /\ rounds \in [Nodes -> {"none", "begun", "done"}]
  /\ age \in [Agents -> 0..SpreadTime]
  /\ \A n \in Nodes, a \in Agents : ttl[n][a] > 0 => Listed(n, a)

(* docs/protocol.md: "Heartbeats refresh the expiry."  No node drops an    *)
(* agent that keeps sending heartbeats: its home node because they arrive  *)
(* there, the others because its record is renewed by pulls and pushes.    *)
LiveAgentsStayListed ==
  [][\A n \in Nodes, a \in Agents :
       status[a] = "live" /\ Listed(n, a) => Listed(n, a)']_timedVars

(* A live agent is on every node within SpreadTime of its registration,    *)
(* although purges take away the records by which nodes know how far they  *)
(* are.                                                                    *)
SpreadsInTime ==
  \A n \in Nodes, a \in Agents :
    status[a] = "live" /\ age[a] = SpreadTime => Listed(n, a)

(* docs/protocol.md: "Expired agents are purged by the lifecycle manager." *)
(* An agent that has stopped is not listed for ever.                       *)
StoppedAgentsAreForgotten ==
  \A a \in Agents : status[a] = "stopped" ~> \A n \in Nodes : ~Listed(n, a)

=============================================================================
