----------------------------- MODULE MCGossipSync -----------------------------
(***************************************************************************)
(* Instances of GossipSync for TLC: two engines that are each other's      *)
(* seed, alone and with a third one that only the second visits.           *)
(***************************************************************************)
EXTENDS GossipSync

CONSTANTS n1, n2, n3, a1, a2

TwoPeers == [n \in {n1, n2} |-> {n1, n2} \ {n}]

RelayPeers == [n \in {n1, n2, n3} |-> CASE n = n1 -> {n2} [] n = n2 -> {n1, n3} [] n = n3 -> {}]

(* The id of a1 is what is left of the id of a2, and no endpoint is a part *)
(* of another but the empty one.                                           *)
FirstIsPrefix == [a \in Agents |-> {a1} \ {a}]

EmptyIsPrefix == [e \in Endpoints |-> {NoEndpoint}]

=============================================================================
