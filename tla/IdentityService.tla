--------------------------- MODULE IdentityService ---------------------------
(***************************************************************************)
(* beacon::IdentityService: the trust store maps an agent to the key bytes *)
(* it was first seen with.  verify_and_register() looks up and inserts     *)
(* under one lock, so it is one step; forget_key() and                     *)
(* check_key_consistency() have no caller in the engine.                   *)
(***************************************************************************)
EXTENDS AgentRecord

EmptyTrust == [a \in Agents |-> NoKey]

(* The status verify_and_register() returns ...                            *)
VerdictIgnoresStore(trust, r) == SignatureStatus(r)

Verdict(trust, r) ==
  IF SignatureStatus(r) = "Valid" /\ trust[r.agent] \notin {NoKey, Canonical[r.key]}
    THEN "Invalid"
    ELSE SignatureStatus(r)

(* ... and what it leaves in the trust store.                              *)
Register(trust, r) ==
  IF SignatureStatus(r) = "Valid" /\ trust[r.agent] = NoKey
    THEN [trust EXCEPT ![r.agent] = Canonical[r.key]]
    ELSE trust

=============================================================================
