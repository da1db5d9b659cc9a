------------------------ MODULE UdpHandshakeResponder ------------------------
(***************************************************************************)
(* UdpHandshakeResponder: a worker that answers each BEACON_HELLO datagram *)
(* with a BEACON_WELCOME, and the owner that starts and stops it.  UDP     *)
(* loses what does not fit the receive buffer, and what is sent to a port  *)
(* that nobody has bound.  A datagram is its sender and its text.          *)
(***************************************************************************)
EXTENDS PeerHandshake, FiniteSets

CONSTANTS
  Peers,
  Owner,         \* the sender of the datagram with which stop() wakes the worker
  Texts,         \* texts that peers send: hellos, good and bad, and heartbeats
  NodeId,        \* config_.node_id
  Revisions,     \* what registry_.stats() may find as the highest revision
  BufferSize,    \* datagrams the receive buffer holds
  MaxStarts,     \* bound: calls of start()
  MaxDatagrams,  \* bound: datagrams from peers
  MaxFaults      \* bound: failures of a socket call

(* A text that begins like a hello was made by encode_peer_hello(), or by  *)
(* the SDK's probe_peer(), from some name and number.                      *)
ASSUME ResponderAssumption ==
  /\ Owner \notin Peers
  /\ \A text \in Texts :
       text[1].name = "BEACON_HELLO" => /\ text = encode_peer_hello(HelloOf(text))
                                        /\ HelloOf(text).listen_port \in Int
  /\ BufferSize \in Nat \ {0}
  /\ MaxStarts \in Nat /\ MaxDatagrams \in Nat /\ MaxFaults \in Nat

VARIABLES
  worker,     \* where run() is: "none" without a thread, "exited" before join
  stopping,   \* stopping_
  owner,      \* where stop() is
  buffer,     \* datagrams received and not read
  data,       \* the ones receive_from() returned: at most one
  welcomes,   \* welcomes[p]: answers sent to p that p can decode
  hellos,     \* hellos[p], history: proper hellos sent by p
  starts, datagrams, faults

vars == <<worker, stopping, owner, buffer, data, welcomes, hellos, starts, datagrams, faults>>

Stopper == [from |-> Owner, text |-> <<Word("BEACON_STOP")>>]
Datagrams == [from : Peers, text : Texts] \cup {Stopper}

(* The hello of a peer that has a name and a port.                         *)
Proper(text) ==
  /\ text = encode_peer_hello(HelloOf(text))
  /\ HelloOf(text).node_id # "" /\ HelloOf(text).listen_port \in 1..MaxPort

Init ==
  /\ worker = "none" /\ stopping = FALSE /\ owner = "idle"
  /\ buffer = <<>> /\ data = {}
  /\ welcomes = [p \in Peers |-> 0] /\ hellos = [p \in Peers |-> 0]
  /\ starts = 0 /\ datagrams = 0 /\ faults = 0

Bound == worker \notin {"none", "starting", "exited"}

Arrive(d) ==
  buffer' = IF Bound /\ Len(buffer) < BufferSize THEN Append(buffer, d) ELSE buffer

-----------------------------------------------------------------------------
Start ==
  /\ owner = "idle" /\ worker = "none" /\ starts < MaxStarts
  /\ stopping' = FALSE /\ worker' = "starting"
  /\ starts' = starts + 1
  /\ UNCHANGED <<owner, buffer, data, welcomes, hellos, datagrams, faults>>

Stop ==
  /\ owner = "idle" /\ worker # "none"
  /\ stopping' = TRUE /\ owner' = "wake"
  /\ UNCHANGED <<worker, buffer, data, welcomes, hellos, starts, datagrams, faults>>

(* The datagram BEACON_STOP; like any other, it can be lost.               *)
WakeSkipped ==
  /\ owner = "wake"
  /\ owner' = "join"
  /\ UNCHANGED <<worker, stopping, buffer, data, welcomes, hellos, starts, datagrams, faults>>

Wake ==
  /\ owner = "wake"
  /\ Arrive(Stopper)
  /\ owner' = "join"
  /\ UNCHANGED <<worker, stopping, data, welcomes, hellos, starts, datagrams, faults>>

(* Its socket cannot be opened, or cannot send, and that is ignored.       *)
WakeFails ==
  /\ owner = "wake" /\ faults < MaxFaults
  /\ owner' = "unwoken"
  /\ faults' = faults + 1
  /\ UNCHANGED <<worker, stopping, buffer, data, welcomes, hellos, starts, datagrams>>

Join ==
  /\ owner \in {"join", "unwoken"} /\ worker = "exited"
  /\ worker' = "none" /\ owner' = "idle"
  /\ UNCHANGED <<stopping, buffer, data, welcomes, hellos, starts, datagrams, faults>>

-----------------------------------------------------------------------------
ExitRunKeepsSocket == worker' = "exited" /\ data' = {} /\ UNCHANGED buffer

(* The worker returns, and its socket closes.                              *)
ExitRun == worker' = "exited" /\ buffer' = <<>> /\ data' = {}

Bind ==
  /\ worker = "starting"
  /\ worker' = "loop"
  /\ UNCHANGED <<stopping, owner, buffer, data, welcomes, hellos, starts, datagrams, faults>>

LoopTestIgnoresFlag ==
  /\ worker = "loop"
  /\ worker' = "receive"
  /\ UNCHANGED <<stopping, owner, buffer, data, welcomes, hellos, starts, datagrams, faults>>

LoopTest ==
  /\ worker = "loop"
  /\ IF stopping THEN ExitRun ELSE worker' = "receive" /\ UNCHANGED <<buffer, data>>
  /\ UNCHANGED <<stopping, owner, welcomes, hellos, starts, datagrams, faults>>

Receive ==
  /\ worker = "receive" /\ buffer # <<>>
  /\ data' = {Head(buffer)} /\ buffer' = Tail(buffer)
  /\ worker' = "received"
  /\ UNCHANGED <<stopping, owner, welcomes, hellos, starts, datagrams, faults>>

(* The hellos among the datagrams at hand.                                 *)
Greeting == {d \in data : decode_peer_hello(d.text) # {}}

(* A welcome goes to the sender of the hello.                              *)
Welcome(d, revision) ==
  LET welcome == encode_peer_welcome([node_id |-> NodeId, registry_revision |-> revision])
  IN [welcomes EXCEPT ![d.from] = @ + Cardinality(decode_peer_welcome(welcome))]

Answer ==
  /\ worker = "received"
  /\ IF stopping THEN ExitRun ELSE worker' = "loop" /\ data' = {} /\ UNCHANGED buffer
  /\ IF stopping \/ Greeting = {}
       THEN UNCHANGED welcomes
       ELSE \E d \in Greeting, revision \in Revisions : welcomes' = Welcome(d, revision)
  /\ UNCHANGED <<stopping, owner, hellos, starts, datagrams, faults>>

(* Opening the socket, receiving or answering throws: run() ends for good. *)
SocketFails ==
  /\ worker \in {"starting", "receive"} \/ (worker = "received" /\ ~stopping /\ Greeting # {})
  /\ faults < MaxFaults
  /\ ExitRun
  /\ faults' = faults + 1
  /\ UNCHANGED <<stopping, owner, welcomes, hellos, starts, datagrams>>

(* The process dies: its thread, socket and buffer go with it.             *)
Killed ==
  /\ worker' = "none" /\ stopping' = FALSE /\ owner' = "idle"
  /\ buffer' = <<>> /\ data' = {}
  /\ UNCHANGED <<welcomes, hellos, starts, datagrams, faults>>

-----------------------------------------------------------------------------
PeerSends(p, text) ==
  /\ datagrams < MaxDatagrams
  /\ Arrive([from |-> p, text |-> text])
  /\ datagrams' = datagrams + 1
  /\ hellos' = IF Proper(text) THEN [hellos EXCEPT ![p] = @ + 1] ELSE hellos
  /\ UNCHANGED <<worker, stopping, owner, data, welcomes, starts, faults>>

WorkerStep == Bind \/ LoopTest \/ Receive \/ Answer

Next ==
  \/ Start \/ Stop \/ Wake \/ WakeFails \/ Join
  \/ WorkerStep \/ SocketFails \/ Killed
  \/ \E p \in Peers, text \in Texts : PeerSends(p, text)

Spec == Init /\ [][Next]_vars

-----------------------------------------------------------------------------
(***************************************************************************)
(* Properties.                                                             *)
(***************************************************************************)

(* Types; the buffer never holds more than it can, and is that of a socket *)
(* run() has bound.                                                        *)
TypeOK ==
  /\ worker \in {"none", "starting", "loop", "receive", "received", "exited"}
  /\ stopping \in BOOLEAN /\ owner \in {"idle", "wake", "join", "unwoken"}
  /\ buffer \in Seq(Datagrams) /\ Len(buffer) <= BufferSize
  /\ ~Bound => buffer = <<>>
  /\ data \subseteq Datagrams /\ (data # {} <=> worker = "received")
  /\ welcomes \in [Peers -> Nat] /\ hellos \in [Peers -> Nat]
  /\ starts \in Nat /\ datagrams \in Nat /\ faults \in Nat

(* stop() needs its datagram only when the worker waits for one, and then  *)
(* it cannot be lost without another being there to wake the worker: it is *)
(* dropped by an unbound port before the worker has looked at stopping_,   *)
(* or by a full buffer.                                                    *)
WakeUpNotLost == owner = "join" /\ worker = "receive" => buffer # <<>>

(* Each welcome goes to a peer that sent a proper hello, one for each: the *)
(* datagram that wakes the worker, a heartbeat or a hello with a port out  *)
(* of range is not answered, and nothing is answered twice or to somebody  *)
(* else, across restarts.                                                  *)
OnlyHellosAnswered == \A p \in Peers : welcomes[p] <= hellos[p]

(* stop() waits for a worker that it has not woken and that nobody else    *)
(* has: the next datagram will.                                            *)
Hung == owner = "unwoken" /\ worker = "receive" /\ buffer = <<>>

(* stop() returns, or the process dies.  A failure to send the datagram,   *)
(* which stop() does not notice, matters only if the worker waits for one  *)
(* and there is none.                                                      *)
StopReturns ==
  /\ owner \in {"wake", "join"} ~> owner \in {"idle", "unwoken"}
  /\ owner = "unwoken" /\ ~Hung ~> owner = "idle"

=============================================================================
