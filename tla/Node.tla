-------------------------------- MODULE Node ---------------------------------
(***************************************************************************)
(* One engine process over its lifetimes: main() loads or creates the      *)
(* identity, and only then starts the handshake responder; when the        *)
(* process dies, the responder's thread, socket and buffer go with it, and *)
(* the two identity files stay.  main() itself never stops the responder;  *)
(* Stop and the later Starts are calls the class offers its owner.         *)
(***************************************************************************)
EXTENDS UdpHandshakeResponder, IdentityStore

nodeVars == <<vars, identityVars>>

NodeInit == Init /\ IdentityInit

OwnerStep == boot = "up" /\ (Start \/ Stop \/ Wake \/ WakeFails \/ Join) /\ UNCHANGED identityVars

ResponderStep == WorkerStep /\ UNCHANGED identityVars

ResponderFails == SocketFails /\ UNCHANGED identityVars

PeerStep ==
  /\ \E p \in Peers, text \in Texts : PeerSends(p, text)
  /\ UNCHANGED identityVars

IdentityStep == LoadOrCreate /\ UNCHANGED vars

Crash == Die /\ Killed

NodeNext ==
  OwnerStep \/ ResponderStep \/ ResponderFails \/ PeerStep \/ IdentityStep \/ Crash

(* Fairness is that of the responder, while the process lives.             *)
NodeSpec ==
  /\ NodeInit /\ [][NodeNext]_nodeVars
  /\ WF_nodeVars(ResponderStep)
  /\ WF_nodeVars(Wake /\ UNCHANGED identityVars)
  /\ WF_nodeVars(Join /\ UNCHANGED identityVars)

=============================================================================
