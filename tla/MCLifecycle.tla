----------------------------- MODULE MCLifecycle -----------------------------
(***************************************************************************)
(* Instances of Lifecycle for TLC: two engines, of which the second has    *)
(* the first as its seed.                                                  *)
(***************************************************************************)
EXTENDS Lifecycle

CONSTANTS n1, n2, a1, a2

OneSeed == [n \in {n1, n2} |-> {n1} \ {n}]

(* The id of a1 is what is left of the id of a2, and no endpoint is a part *)
(* of another but the empty one.                                           *)
FirstIsPrefix == [a \in Agents |-> {a1} \ {a}]

EmptyIsPrefix == [e \in Endpoints |-> {NoEndpoint}]

=============================================================================
