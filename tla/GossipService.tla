---------------------------- MODULE GossipService ----------------------------
(***************************************************************************)
(* GossipService of one node against the control server of its peer: a     *)
(* worker that waits for a timer, then sends the commands of a             *)
(* synchronisation one after the other, each on a connection of its own    *)
(* and without a timeout, and the owner that starts and stops it.  Unlike  *)
(* the servers, stop() only sets stopping_ and waits: nothing interrupts   *)
(* the worker.  What the commands carry is the subject of GossipSync.      *)
(***************************************************************************)
EXTENDS ControlServer

CONSTANTS
  Gossiper,      \* the client of the peer's server that this service is
  MaxCommands    \* STATS, SYNC_PULL, and one SYNC_MERGE for each entry pushed

ASSUME GossipAssumption ==
  Gossiper \in Clients \ Impatient /\ MaxCommands \in Nat \ {0}

VARIABLES
  gworker,     \* where run() is: "none" without a thread, "exited" before join
  gstopping,   \* stopping_
  gowner,      \* "join" within stop()
  todo         \* commands left in this synchronisation

gossipVars == <<gworker, gstopping, gowner, todo>>
linkVars == <<vars, gossipVars>>

LinkInit ==
  /\ Init
  /\ gworker = "none" /\ gstopping = FALSE /\ gowner = "idle" /\ todo = 0

-----------------------------------------------------------------------------
GStart ==
  /\ gowner = "idle" /\ gworker = "none"
  /\ gstopping' = FALSE /\ gworker' = "schedule"
  /\ UNCHANGED <<gowner, todo, vars>>

GStop ==
  /\ gowner = "idle" /\ gworker # "none"
  /\ gstopping' = TRUE /\ gowner' = "join"
  /\ UNCHANGED <<gworker, todo, vars>>

GJoin ==
  /\ gowner = "join" /\ gworker = "exited"
  /\ gworker' = "none" /\ gowner' = "idle"
  /\ UNCHANGED <<gstopping, todo, vars>>

(* schedule_round()                                                        *)
Schedule ==
  /\ gworker = "schedule"
  /\ gworker' = IF gstopping THEN "exited" ELSE "timer"
  /\ UNCHANGED <<gstopping, gowner, todo, vars>>

(* The timer's handler; a round with a peer has at least two commands, if  *)
(* it gets that far.                                                       *)
TimerFires ==
  /\ gworker = "timer"
  /\ IF gstopping THEN gworker' = "exited" /\ UNCHANGED todo
                  ELSE gworker' = "send" /\ todo' \in 1..MaxCommands
  /\ UNCHANGED <<gstopping, gowner, vars>>

(* send_command(): a refused connection throws, which ends the round.      *)
SendUntilAccepted ==
  /\ gworker = "send" /\ Connect(Gossiper)
  /\ gworker' = IF Bound THEN "await" ELSE "send"
  /\ UNCHANGED <<gstopping, gowner, todo>>

SendCommand ==
  /\ gworker = "send" /\ Connect(Gossiper)
  /\ gworker' = IF Bound THEN "await" ELSE "schedule"
  /\ UNCHANGED <<gstopping, gowner, todo>>

(* A connection closed without an answer is an error, or an empty answer.  *)
Answered ==
  /\ gworker = "await" /\ client[Gossiper] \in {"answered", "failed"}
  /\ todo' = todo - 1
  /\ \/ gworker' = IF todo' > 0 THEN "send" ELSE "schedule"
     \/ client[Gossiper] = "failed" /\ gworker' = "schedule"
  /\ UNCHANGED <<gstopping, gowner, vars>>

-----------------------------------------------------------------------------
GossipStep == Schedule \/ TimerFires \/ SendCommand \/ Answered

(* The peer's server, its owner and its other clients.                     *)
ServerStep ==
  /\ \/ Start \/ Stop \/ Wake \/ WakeFails \/ Join
     \/ WorkerStep \/ BindOrAcceptFails
     \/ \E c \in Clients \ {Gossiper} : Connect(c) \/ Timeout(c)
     \/ \E c \in Clients : Send(c)
  /\ UNCHANGED gossipVars

LinkNext == GStart \/ GStop \/ GJoin \/ GossipStep \/ ServerStep

(* The server's worker runs whenever it is not blocked; a stop() that was  *)
(* begun goes on; a client sends all of its request (sendall, write); an   *)
(* impatient one does not wait for ever; and the gossip worker runs, its   *)
(* timer always expiring.                                                  *)
LinkSpec ==
  /\ LinkInit /\ [][LinkNext]_linkVars
  /\ WF_linkVars(WorkerStep /\ UNCHANGED gossipVars)
  /\ WF_linkVars(Wake /\ UNCHANGED gossipVars) /\ WF_linkVars(Join /\ UNCHANGED gossipVars)
  /\ \A c \in Clients : /\ WF_linkVars(Send(c) /\ UNCHANGED gossipVars)
                        /\ WF_linkVars(Timeout(c) /\ UNCHANGED gossipVars)
  /\ WF_linkVars(GossipStep) /\ WF_linkVars(GJoin)

-----------------------------------------------------------------------------
(***************************************************************************)
(* Properties.                                                             *)
(***************************************************************************)

(* Nobody waits in vain: an open connection is in the backlog or is the    *)
(* one being served, and the worker that will get to it is running, also   *)
(* while the server stops, fails or is started again; the gossip worker    *)
(* awaits only a connection it has made, in a round that will end.         *)
NobodyWaitsInVain ==
  /\ \A c \in Clients :
       client[c] = "open" => Bound /\ (cur = c \/ \E i \in DOMAIN backlog : backlog[i] = c)
  /\ gworker \in {"send", "await"} => todo \in 1..MaxCommands
  /\ gworker = "await" => client[Gossiper] # "new"

(* stop() of the gossip service returns, though nothing wakes its worker   *)
(* and no read has a timeout: the peer's server answers, refuses or resets *)
(* each connection, also when it is stopped, fails or restarts, and a      *)
(* round has an end.                                                       *)
GossipStops == gowner = "join" ~> gowner = "idle"

=============================================================================
