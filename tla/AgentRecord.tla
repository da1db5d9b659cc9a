----------------------------- MODULE AgentRecord -----------------------------
(***************************************************************************)
(* beacon::AgentRecord as one engine handles it: its fields, the status of *)
(* its signature (crypto.cpp) and its on-disk form (the conversions of     *)
(* main.cpp between AgentRecord and the protobuf RegistryEntry).           *)
(*                                                                         *)
(* node_id and endpoint are treated alike everywhere and are one field,    *)
(* endpoint.  metadata is a field of its own because the on-disk form      *)
(* drops it and the signature covers it.                                   *)
(***************************************************************************)
EXTENDS AgentRegistry

CONSTANTS
  Agents,             \* agent identifiers
  Endpoints,          \* values of (node_id, endpoint)
  Metadata,           \* metadata maps, the empty one included
  NoMetadata,         \* the empty metadata map
  MaxRevision,        \* revisions are 0..MaxRevision (uint64_t in the code)
  Keys,               \* non-empty texts of public_key_hex
  Canonical,          \* encode_hex(decode_hex(_)) on key texts
  NoSignature,        \* an empty signature_hex
  MalformedSignature, \* a signature_hex that is not hexadecimal
  Libsodium           \* built with BEACONNODE_ENABLE_LIBSODIUM

Revisions == 0..MaxRevision
KeyTexts == Keys \cup {NoKey}

(* Canonical maps a key text to the lower-case text of the same bytes, and *)
(* a text that is not hexadecimal to the empty text.                       *)
ASSUME RecordAssumption ==
  /\ MaxRevision \in Nat
  /\ NoMetadata \in Metadata
  /\ NoKey \notin Keys
  /\ Canonical \in [KeyTexts -> KeyTexts]
  /\ Canonical[NoKey] = NoKey
  /\ \A k \in KeyTexts : Canonical[Canonical[k]] = Canonical[k]
  /\ Libsodium \in BOOLEAN

-----------------------------------------------------------------------------
(* A signature is the key and the payload it was made for.                 *)
Signatures ==
  [key : Keys, agent : Agents, endpoint : Endpoints, metadata : Metadata,
   revision : Revisions]

SignatureTexts == Signatures \cup {NoSignature, MalformedSignature}

(* What an agent or a peer submits: a record without an expiry.            *)
Registration ==
  [agent : Agents, endpoint : Endpoints, metadata : Metadata,
   revision : Revisions, key : KeyTexts, signature : SignatureTexts]

AgentRecords ==
  [agent : Agents, endpoint : Endpoints, metadata : Metadata,
   revision : Revisions, key : KeyTexts, signature : SignatureTexts,
   expires : Nat]

WithExpiry(q, t) ==
  [agent |-> q.agent, endpoint |-> q.endpoint, metadata |-> q.metadata,
   revision |-> q.revision, key |-> q.key, signature |-> q.signature,
   expires |-> t]

-----------------------------------------------------------------------------
(* Signing is external (libsodium, the Python SDK); the payload is the one *)
(* of canonical_agent_payload: every field but the expiry.                 *)
Sign(key, q) ==
  [key |-> key, agent |-> q.agent, endpoint |-> q.endpoint,
   metadata |-> q.metadata, revision |-> q.revision]

SignatureStatus(r) ==
  CASE r.key = NoKey \/ r.signature = NoSignature -> "Missing"
    [] /\ r.key # NoKey /\ r.signature # NoSignature
       /\ Canonical[r.key] = NoKey \/ r.signature = MalformedSignature -> "Invalid"
    [] OTHER ->
         IF ~Libsodium THEN "Unsupported"
         ELSE IF r.signature = Sign(Canonical[r.key], r) THEN "Valid"
         ELSE "Invalid"

-----------------------------------------------------------------------------
(* The on-disk form: no metadata, no expiry, key and signature as bytes.   *)
Entries ==
  [agent : Agents, endpoint : Endpoints, revision : Revisions,
   key : KeyTexts, signature : Signatures \cup {NoSignature}]

ToEntry(r) ==
  [agent |-> r.agent, endpoint |-> r.endpoint, revision |-> r.revision,
   key |-> Canonical[r.key],
   signature |-> IF r.signature = MalformedSignature THEN NoSignature
                                                     ELSE r.signature]

(* A restored record: metadata stays empty and expires_at keeps the value  *)
(* of its default initialiser, the time t at which it was constructed.     *)
FromEntry(e, t) ==
  [agent |-> e.agent, endpoint |-> e.endpoint, metadata |-> NoMetadata,
   revision |-> e.revision, key |-> e.key, signature |-> e.signature,
   expires |-> t]

=============================================================================
