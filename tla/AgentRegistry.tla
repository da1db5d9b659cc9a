---------------------------- MODULE AgentRegistry ----------------------------
(***************************************************************************)
(* The operations of beacon::AgentRegistry as functions of the registry's  *)
(* contents.  records_ is a vector searched linearly by agent_id and only  *)
(* ever touched under mutex_, so each operation is one atomic step of the  *)
(* thread that calls it, and the registry is the SET of the records in the *)
(* vector.  That there is at most one record per agent is not built into   *)
(* this representation: it is a property of how the operations use it.     *)
(*                                                                         *)
(* A record has at least the fields agent, revision, key and expires; what *)
(* else it carries is up to the module that uses the registry.             *)
(***************************************************************************)
EXTENDS Naturals, FiniteSets

CONSTANT NoKey            \* an empty public_key_hex

(***************************************************************************)
(* Looking up.                                                             *)
(***************************************************************************)
Find(R, a) == {x \in R : x.agent = a}

(* The field highest_revision of stats(): 0 when the registry is empty.    *)
IsHighestRevision(R, h) ==
  /\ h \in {0} \cup {x.revision : x \in R}
  /\ \A x \in R : x.revision <= h

(***************************************************************************)
(* upsert().  A record is refused when it is older than the one it would   *)
(* replace, or when both carry a key and the keys differ.                  *)
(***************************************************************************)
AcceptsAnyRevision(R, rec) ==
  \A x \in Find(R, rec.agent) :
    x.key = NoKey \/ rec.key = NoKey \/ x.key = rec.key

UpsertAccepted(R, rec) ==
  \A x \in Find(R, rec.agent) :
    /\ rec.revision >= x.revision
    /\ x.key = NoKey \/ rec.key = NoKey \/ x.key = rec.key

UpsertAppends(R, rec) == R \cup {rec}

Upsert(R, rec) == (R \ Find(R, rec.agent)) \cup {rec}

(***************************************************************************)
(* refresh_heartbeat(): only the expiry and the revision change, and the   *)
(* upsert callback is not called.                                          *)
(***************************************************************************)
HeartbeatAccepted(R, a, revision) ==
  /\ Find(R, a) # {}
  /\ \A x \in Find(R, a) : revision >= x.revision

RefreshHeartbeat(R, a, expires, revision) ==
  (R \ Find(R, a)) \cup
    {[x EXCEPT !.expires = expires, !.revision = revision] : x \in Find(R, a)}

(***************************************************************************)
(* purge_expired().                                                        *)
(***************************************************************************)
PurgeEarly(R, t) == {x \in R : x.expires > t + 1}

PurgeExpired(R, t) == {x \in R : x.expires > t}

(***************************************************************************)
(* entries_after_revision(): the records above a revision cursor, sorted   *)
(* by revision and cut to the limit (0 means no limit).  std::sort is not  *)
(* stable and says nothing about the order of equal revisions, so where    *)
(* the cut falls among equals any choice is possible: the operator is the  *)
(* set of all results.  A result is a set; its readers go through it in    *)
(* ascending order of revision (LowestOf).                                 *)
(***************************************************************************)
EntriesNewestFirst(R, revision, limit) ==
  LET newer == {x \in R : x.revision > revision}
  IN IF limit > 0 /\ Cardinality(newer) > limit
       THEN {S \in SUBSET newer :
               /\ Cardinality(S) = limit
               /\ \A x \in S, y \in newer \ S : x.revision >= y.revision}
       ELSE {newer}

EntriesAfterRevision(R, revision, limit) ==
  LET newer == {x \in R : x.revision > revision}
  IN IF limit > 0 /\ Cardinality(newer) > limit
       THEN {S \in SUBSET newer :
               /\ Cardinality(S) = limit
               /\ \A x \in S, y \in newer \ S : x.revision <= y.revision}
       ELSE {newer}

LowestOf(S) == {x \in S : \A y \in S : x.revision <= y.revision}

(***************************************************************************)
(* One iteration of the loop of load_from_persistence().  The record that  *)
(* opens an agent's entry gets an expiry a year ahead; a later and newer   *)
(* one overwrites the whole entry with the restored record, including the  *)
(* expiry that record was constructed with.                                *)
(***************************************************************************)
LoadKeepsFirst(R, rec, farFuture) ==
  IF Find(R, rec.agent) = {}
    THEN R \cup {[rec EXCEPT !.expires = farFuture]}
    ELSE R

LoadRecord(R, rec, farFuture) ==
  IF Find(R, rec.agent) = {}
    THEN R \cup {[rec EXCEPT !.expires = farFuture]}
  ELSE IF \A x \in Find(R, rec.agent) : rec.revision > x.revision
    THEN (R \ Find(R, rec.agent)) \cup {rec}
  ELSE R

=============================================================================
