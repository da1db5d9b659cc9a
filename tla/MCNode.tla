------------------------------- MODULE MCNode --------------------------------
(***************************************************************************)
(* Instances of Node for TLC: two peers that send proper hellos and hellos *)
(* with a port out of range (the SDK's probe_peer() does not check it).    *)
(***************************************************************************)
EXTENDS Node

Hello(port) == encode_peer_hello([node_id |-> "n2", listen_port |-> port])
SomeTexts == {Hello(43170), Hello(70000)}
SomeRevisions == {0, 7}

=============================================================================
