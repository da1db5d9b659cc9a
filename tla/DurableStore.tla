----------------------------- MODULE DurableStore -----------------------------
(***************************************************************************)
(* What a persistence layer promises to the registry, without files: every *)
(* agent has a highest stamp that recovery would bring back; a stamp       *)
(* becomes durable at one instant and is never lost again, and an append   *)
(* returns only after that instant.  Crashes, recoveries and snapshots do  *)
(* not show.                                                               *)
(***************************************************************************)
EXTENDS Naturals

CONSTANTS Agents, MaxStamp

VARIABLES
  store,  \* store[a]: the stamp a has after recovery, 0 if it has none
  acked   \* the appends that have returned

Init == store = [a \in Agents |-> 0] /\ acked = {}

Commit(a, v) ==
  /\ v > store[a]
  /\ store' = [store EXCEPT ![a] = v]
  /\ UNCHANGED acked

Ack(a, v) ==
  /\ v <= store[a]
  /\ acked' = acked \cup {[agent |-> a, stamp |-> v]}
  /\ UNCHANGED store

Next == \E a \in Agents, v \in 1..MaxStamp : Commit(a, v) \/ Ack(a, v)

Spec == Init /\ [][Next]_<<store, acked>>

=============================================================================
