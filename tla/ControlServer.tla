---------------------------- MODULE ControlServer ----------------------------
(***************************************************************************)
(* ControlServer: one worker thread that accepts and serves one connection *)
(* at a time, the owner that starts and stops it, and the clients of the   *)
(* control port.  A step is what happens between two blocking calls, or    *)
(* between two looks at stopping_.                                         *)
(*                                                                         *)
(* What a request does to the registry is the subject of module Engine;    *)
(* here it is only whether it was carried out, and as what.  A request is  *)
(* the bytes of a line or of a frame, and TCP may deliver it in several    *)
(* segments.                                                               *)
(***************************************************************************)
EXTENDS Framing, FiniteSets

CONSTANTS
  Clients,
  Request,    \* Request[c]: the bytes client c sends
  Cuts,       \* Cuts[c]: after how many bytes of it a segment may end
  Impatient,  \* clients that give up after a timeout (the SDK: 3 s)
  NoClient,
  Waker,      \* the connection stop() makes to wake the worker
  MaxStarts,  \* bound: calls of start()
  MaxFaults   \* bound: failures to bind, to accept or to wake the worker

newline == 10

ASSUME ServerAssumption ==
  /\ Request \in [Clients -> Seq(Byte)]
  /\ \A c \in Clients : Cuts[c] \subseteq 1..Len(Request[c]) /\ Len(Request[c]) \in Cuts[c]
  /\ Impatient \subseteq Clients
  /\ NoClient \notin Clients /\ Waker \notin Clients /\ Waker # NoClient
  /\ MaxStarts \in Nat /\ MaxFaults \in Nat

VARIABLES
  worker,    \* where run() is: "none" without a thread, "exited" before join
  stopping,  \* stopping_
  owner,     \* where stop() is
  backlog,   \* connections waiting to be accepted
  cur,       \* the connection being served
  client,    \* client[c]: its last connection: "new", "open", "answered" or "failed"
  arrived,   \* arrived[c]: how many bytes of c's request have arrived
  answer,    \* answer[c]: what c was answered with
  starts, faults

vars == <<worker, stopping, owner, backlog, cur, client, arrived, answer, starts, faults>>

Init ==
  /\ worker = "none" /\ stopping = FALSE /\ owner = "idle"
  /\ backlog = <<>> /\ cur = NoClient
  /\ client = [c \in Clients |-> "new"]
  /\ arrived = [c \in Clients |-> 0]
  /\ answer = [c \in Clients |-> "none"]
  /\ starts = 0 /\ faults = 0

(* The acceptor exists from the bind until run() returns.                  *)
Bound == worker \notin {"none", "starting", "exited"}

-----------------------------------------------------------------------------
(***************************************************************************)
(* The owner.  start() does nothing while worker_ is joinable, which an    *)
(* exited thread still is.                                                 *)
(***************************************************************************)
Start ==
  /\ owner = "idle" /\ worker = "none" /\ starts < MaxStarts
  /\ stopping' = FALSE /\ worker' = "starting"
  /\ starts' = starts + 1
  /\ UNCHANGED <<owner, backlog, cur, client, arrived, answer, faults>>

Stop ==
  /\ owner = "idle" /\ worker # "none"
  /\ stopping' = TRUE
  /\ owner' = "wake"
  /\ UNCHANGED <<worker, backlog, cur, client, arrived, answer, starts, faults>>

(* The connection is refused while nothing listens, and that is ignored.   *)
WakeSkipped ==
  /\ owner = "wake"
  /\ owner' = "join"
  /\ UNCHANGED <<worker, stopping, backlog, cur, client, arrived, answer, starts, faults>>

Wake ==
  /\ owner = "wake"
  /\ backlog' = IF Bound THEN Append(backlog, Waker) ELSE backlog
  /\ owner' = "join"
  /\ UNCHANGED <<worker, stopping, cur, client, arrived, answer, starts, faults>>

(* Its socket cannot be made or connected though the port is bound, and    *)
(* that is ignored too.                                                    *)
WakeFails ==
  /\ owner = "wake" /\ faults < MaxFaults
  /\ owner' = "unwoken"
  /\ faults' = faults + 1
  /\ UNCHANGED <<worker, stopping, backlog, cur, client, arrived, answer, starts>>

Join ==
  /\ owner \in {"join", "unwoken"} /\ worker = "exited"
  /\ worker' = "none" /\ owner' = "idle"
  /\ UNCHANGED <<stopping, backlog, cur, client, arrived, answer, starts, faults>>

-----------------------------------------------------------------------------
(***************************************************************************)
(* run().                                                                  *)
(***************************************************************************)
ExitRunKeepsAcceptor == worker' = "exited" /\ UNCHANGED <<backlog, client>>

(* The worker returns: the acceptor closes and resets what waited there.   *)
ExitRun ==
  /\ worker' = "exited" /\ backlog' = <<>>
  /\ client' = [c \in Clients |->
                  IF client[c] = "open" /\ \E i \in DOMAIN backlog : backlog[i] = c
                    THEN "failed" ELSE client[c]]

Bind ==
  /\ worker = "starting"
  /\ worker' = "loop"
  /\ UNCHANGED <<stopping, owner, backlog, cur, client, arrived, answer, starts, faults>>

LoopTestIgnoresFlag ==
  /\ worker = "loop"
  /\ worker' = "accept"
  /\ UNCHANGED <<stopping, owner, backlog, cur, client, arrived, answer, starts, faults>>

LoopTest ==
  /\ worker = "loop"
  /\ IF stopping THEN ExitRun ELSE worker' = "accept" /\ UNCHANGED <<backlog, client>>
  /\ UNCHANGED <<stopping, owner, cur, arrived, answer, starts, faults>>

Accept ==
  /\ worker = "accept" /\ backlog # <<>>
  /\ cur' = Head(backlog) /\ backlog' = Tail(backlog)
  /\ worker' = "accepted"
  /\ UNCHANGED <<stopping, owner, client, arrived, answer, starts, faults>>

(* An exception from the constructor of the acceptor or from accept() ends *)
(* run() for good.                                                         *)
BindOrAcceptFails ==
  /\ worker \in {"starting", "accept"} /\ faults < MaxFaults
  /\ ExitRun
  /\ faults' = faults + 1
  /\ UNCHANGED <<stopping, owner, cur, arrived, answer, starts>>

(* The socket goes out of scope: what it served is disconnected.           *)
CloseSessionKeepsSocket(a) ==
  /\ worker' = "loop" /\ UNCHANGED cur
  /\ answer' = [c \in Clients |-> IF c = cur THEN a ELSE answer[c]]
  /\ client' = [c \in Clients |->
                  IF c = cur /\ client[c] = "open"
                    THEN IF a = "none" THEN "failed" ELSE "answered"
                    ELSE client[c]]

CloseSession(a) ==
  /\ worker' = "loop" /\ cur' = NoClient
  /\ answer' = [c \in Clients |-> IF c = cur THEN a ELSE answer[c]]
  /\ client' = [c \in Clients |->
                  IF c = cur /\ client[c] = "open"
                    THEN IF a = "none" THEN "failed" ELSE "answered"
                    ELSE client[c]]

SecondLook ==
  /\ worker = "accepted"
  /\ IF stopping THEN CloseSession("none")
                 ELSE worker' = "peek" /\ UNCHANGED <<cur, client, answer>>
  /\ UNCHANGED <<stopping, owner, backlog, arrived, starts, faults>>

-----------------------------------------------------------------------------
(***************************************************************************)
(* serve_session().  Each read blocks until it has what it needs or the    *)
(* client has closed the connection; the latter throws, and the session    *)
(* ends without an answer.                                                 *)
(***************************************************************************)
HasLine(c) == \E i \in 1..arrived[c] : Request[c][i] = newline

(* The peek takes whatever has arrived.                                    *)
HasHeader(c) == arrived[c] >= kHeaderSize /\ is_binary_frame_header(Request[c])

PeekIgnoresClose ==
  /\ worker = "peek" /\ arrived[cur] > 0
  /\ worker' = IF HasHeader(cur) THEN "frame" ELSE "line"
  /\ UNCHANGED <<stopping, owner, backlog, cur, client, arrived, answer, starts, faults>>

PeekMagic ==
  /\ worker = "peek"
  /\ \/ /\ arrived[cur] > 0
        /\ worker' = IF arrived[cur] > kHeaderSize /\ HasHeader(cur) THEN "frame" ELSE "line"
        /\ UNCHANGED <<cur, client, answer>>
     \/ /\ arrived[cur] = 0 /\ client[cur] = "failed"
        /\ CloseSession("none")
  /\ UNCHANGED <<stopping, owner, backlog, arrived, starts, faults>>

Peek ==
  /\ worker = "peek"
  /\ \/ /\ arrived[cur] > 0
        /\ worker' = IF HasHeader(cur) THEN "frame" ELSE "line"
        /\ UNCHANGED <<cur, client, answer>>
     \/ /\ arrived[cur] = 0 /\ client[cur] = "failed"
        /\ CloseSession("none")
  /\ UNCHANGED <<stopping, owner, backlog, arrived, starts, faults>>

(* handle_control_frame() carries out a control request, and answers       *)
(* invalid_control_frame to any other frame.                               *)
FrameAnswer(c) ==
  LET frame == decode_frame(SubSeq(Request[c], 1, FrameLength(Request[c])))
  IN IF \E f \in frame : f.kind = ControlRequest THEN "frame" ELSE "error"

ServeFrame ==
  /\ worker = "frame"
  /\ \/ /\ arrived[cur] >= FrameLength(Request[cur])
        /\ CloseSession(FrameAnswer(cur))
     \/ /\ arrived[cur] < FrameLength(Request[cur]) /\ client[cur] = "failed"
        /\ CloseSession("none")
  /\ UNCHANGED <<stopping, owner, backlog, arrived, starts, faults>>

(* handle_line() carries out a line, and answers ERR to the bytes of a     *)
(* frame.                                                                  *)
LineAnswer(c) == IF is_binary_frame_header(Request[c]) THEN "error" ELSE "line"

ServeLine ==
  /\ worker = "line"
  /\ \/ HasLine(cur) /\ CloseSession(LineAnswer(cur))
     \/ ~HasLine(cur) /\ client[cur] = "failed" /\ CloseSession("none")
  /\ UNCHANGED <<stopping, owner, backlog, arrived, starts, faults>>

-----------------------------------------------------------------------------
(***************************************************************************)
(* Clients: SyncClient::send_command() and the SDK's _round_trip() and     *)
(* _round_trip_proto().                                                    *)
(***************************************************************************)
(* A connection is refused while nothing listens.  A client makes the next *)
(* one when the worker has seen the end of the last.                       *)
Connect(c) ==
  /\ client[c] # "open" /\ cur # c /\ \A i \in DOMAIN backlog : backlog[i] # c
  /\ client' = [client EXCEPT ![c] = IF Bound THEN "open" ELSE "failed"]
  /\ backlog' = IF Bound THEN Append(backlog, c) ELSE backlog
  /\ arrived' = [arrived EXCEPT ![c] = 0]
  /\ answer' = [answer EXCEPT ![c] = "none"]
  /\ UNCHANGED <<worker, stopping, owner, cur, starts, faults>>

Send(c) ==
  /\ client[c] = "open"
  /\ \E n \in Cuts[c] : n > arrived[c] /\ arrived' = [arrived EXCEPT ![c] = n]
  /\ UNCHANGED <<worker, stopping, owner, backlog, cur, client, answer, starts, faults>>

Timeout(c) ==
  /\ c \in Impatient /\ client[c] = "open"
  /\ client' = [client EXCEPT ![c] = "failed"]
  /\ UNCHANGED <<worker, stopping, owner, backlog, cur, arrived, answer, starts, faults>>

-----------------------------------------------------------------------------
WorkerStep ==
  Bind \/ LoopTest \/ Accept \/ SecondLook \/ Peek \/ ServeFrame \/ ServeLine

Next ==
  \/ Start \/ Stop \/ Wake \/ WakeFails \/ Join
  \/ WorkerStep \/ BindOrAcceptFails
  \/ \E c \in Clients : Connect(c) \/ Send(c) \/ Timeout(c)

Spec == Init /\ [][Next]_vars

-----------------------------------------------------------------------------
(***************************************************************************)
(* Properties.                                                             *)
(***************************************************************************)

(* Types; a connection is served exactly while the worker is in a session. *)
TypeOK ==
  /\ worker \in {"none", "starting", "loop", "accept", "accepted", "peek", "frame", "line",
                 "exited"}
  /\ stopping \in BOOLEAN /\ owner \in {"idle", "wake", "join", "unwoken"}
  /\ backlog \in Seq(Clients \cup {Waker}) /\ cur \in Clients \cup {NoClient, Waker}
  /\ cur # NoClient <=> worker \in {"accepted", "peek", "frame", "line"}
  /\ client \in [Clients -> {"new", "open", "answered", "failed"}]
  /\ arrived \in [Clients -> Nat]
  /\ answer \in [Clients -> {"none", "line", "frame", "error"}]
  /\ starts \in Nat /\ faults \in Nat

(* stop() sets stopping_, then connects, then joins, and the worker looks  *)
(* at stopping_ before and after it accepts: however these interleave,     *)
(* with the connection refused because the port is not yet bound, or       *)
(* queued behind clients, a worker that stop() waits for is not blocked in *)
(* accept() with nothing to accept, and the waking connection is never     *)
(* served as a client.                                                     *)
WakeUpNotLost ==
  /\ owner = "join" /\ worker = "accept" => backlog # <<>>
  /\ worker \in {"peek", "frame", "line"} => cur # Waker

(* stop() waits for a worker that it has not woken and that nobody else    *)
(* has: the next connection will.                                          *)
Hung == owner = "unwoken" /\ worker = "accept" /\ backlog = <<>>

(* stop() returns: the session in progress ends, since its client          *)
(* completes its request or gives up, and the worker leaves its loop.  A   *)
(* failure to connect, which stop() does not notice, matters only if the   *)
(* worker is in accept() with nothing to accept.                           *)
StopReturns ==
  /\ owner \in {"wake", "join"} ~> owner \in {"idle", "unwoken"}
  /\ owner = "unwoken" /\ ~Hung ~> owner = "idle"

(* Nobody who got a connection is left hanging: one worker serves them in  *)
(* turn, and each is answered, disconnected or gives up, also those that   *)
(* a stop or a failed accept() finds in the backlog.                       *)
ClientsFinish ==
  \A c \in Clients : client[c] = "open" ~> client[c] \in {"answered", "failed"}

(* docs/protocol.md: frames are "wired into the TCP control server".  A    *)
(* frame that is answered is answered as a frame, however its bytes        *)
(* arrive: the worker takes the kind of a request from its first look at   *)
(* the socket, and the length of a frame from its header.                  *)
FramesAreServedAsFrames ==
  \A c \in Clients :
    is_binary_frame_header(Request[c]) => answer[c] \in {"none", "frame"}

=============================================================================
