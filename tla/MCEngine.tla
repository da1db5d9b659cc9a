------------------------------- MODULE MCEngine -------------------------------
(***************************************************************************)
(* Instances of Engine for TLC.  The registrations cover one agent moving  *)
(* between endpoints at equal and at rising revisions, two keys, an        *)
(* upper-case spelling of a key, a malformed key text, metadata under a    *)
(* signature, and a signature made for another endpoint.                   *)
(***************************************************************************)
EXTENDS Engine

CONSTANTS a1, a2, e1, e2, k1, k1Upper, k2, kBad, m0, m1

MCCanonical ==
  [k \in {k1, k1Upper, k2, kBad, NoKey} |->
     CASE k \in {k1, k1Upper} -> k1 [] k = k2 -> k2 [] OTHER -> NoKey]

Unsigned(a, e, v) ==
  [agent |-> a, endpoint |-> e, metadata |-> m0, revision |-> v, key |-> NoKey,
   signature |-> NoSignature]

Signed(a, e, m, v, k) ==
  LET q == [agent |-> a, endpoint |-> e, metadata |-> m, revision |-> v]
  IN [agent |-> a, endpoint |-> e, metadata |-> m, revision |-> v, key |-> k,
      signature |-> Sign(MCCanonical[k], q)]

(* An agent that registers at equal and at rising revisions with two keys, *)
(* one of them in upper case, unsigned with a key text that is not         *)
(* hexadecimal (in a protobuf request, without a key), and with a          *)
(* signature that does not cover the endpoint.                             *)
MixedSubmissions ==
  {Signed(a1, e1, m0, 1, k1Upper), Signed(a1, e2, m1, 2, k2),
   [Unsigned(a1, e2, 1) EXCEPT !.key = kBad],
   [Signed(a1, e1, m0, 1, k1) EXCEPT !.endpoint = e2]}

(* One agent, for the runs about time.                                     *)
TimedSubmissions == {Unsigned(a1, e1, 1), Unsigned(a1, e2, 2)}

=============================================================================
