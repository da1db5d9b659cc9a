------------------------- MODULE IdentityStoreProofs -------------------------
(***************************************************************************)
(* Proofs about IdentityStore, for any names and any number of starts,     *)
(* deaths and failed writes, and for the engine process of module Node.    *)
(***************************************************************************)
EXTENDS Node, UdpHandshakeResponderProofs

Steps == {"check", "open_key", "write_key", "open_config", "write_config"}

IdentityTypeOK ==
  /\ boot \in Steps \cup {"down", "refused", "up"}
  /\ keypair \in Nat /\ keyfile \in Int
  /\ boots \in Nat /\ writeFailures \in Nat

(* The config file commits: until it exists nothing has been returned, and *)
(* from then on neither file is written again.  The start that creates it  *)
(* has put its own key in the key file before.                             *)
Commits ==
  /\ boot \in {"open_key", "write_key", "open_config"} => config = NoFile /\ keypair > 0
  /\ boot = "write_config" => config = Empty /\ keypair > 0
  /\ boot = "write_config" \/ config = NoFile => loaded = {}
  /\ loaded \subseteq {config}

CommitsIntact ==
  writeFailures = 0 =>
    /\ boot = "write_config" \/ config = NoFile => returned = {}
    /\ returned \subseteq {config}
    /\ boot \in {"open_config", "write_config"} => keyfile = keypair
    /\ config # NoFile => keyfile > 0 /\ config.public_key_hex \in {NoKey, keyfile}
    /\ boot # "refused"

IdentityInv == IdentityTypeOK /\ Commits /\ CommitsIntact

USE DEF NoKey, CutKey, NoKeyFile

(* A config file is told from none by what it has as its key.              *)
LEMMA Identities ==
  /\ \A n, k : Identity(n, k).public_key_hex = k
  /\ Empty # NoFile /\ Empty.public_key_hex = NoKey
  /\ \A n : \A k \in Nat : Identity(n, k) # NoFile
<1>1. \A n, k : Identity(n, k).public_key_hex = k
  BY DEF Identity
<1>2. NoFile.public_key_hex = -2 /\ Empty.public_key_hex = 0
  BY <1>1 DEF NoFile, Empty
<1>3. QED
  BY <1>1, <1>2

(* Before the first start there are no files.                              *)
LEMMA InitInv == IdentityInit => IdentityInv
BY DEF IdentityInit, IdentityInv, IdentityTypeOK, Commits, CommitsIntact, Steps

(* Each step keeps the types.                                              *)
LEMMA StepTypes ==
  ASSUME IdentityTypeOK, [IdentityNext]_identityVars
  PROVE  IdentityTypeOK'
<1> USE DEF IdentityTypeOK, Steps
<1>1. CASE Boot
  BY <1>1 DEF Boot
<1>2. CASE Load
  BY <1>2 DEF Load
<1>3. CASE Generate
  BY <1>3 DEF Generate
<1>4. CASE OpenKey
  BY <1>4 DEF OpenKey
<1>5. CASE WriteKey
  BY <1>5 DEF WriteKey
<1>6. CASE OpenConfig
  BY <1>6 DEF OpenConfig
<1>7. CASE WriteConfig
  BY <1>7 DEF WriteConfig
<1>8. CASE WriteFails
  BY <1>8 DEF WriteFails
<1>9. CASE Die
  BY <1>9 DEF Die
<1>10. CASE UNCHANGED identityVars
  BY <1>10 DEF identityVars
<1>11. QED
  BY <1>1, <1>2, <1>3, <1>4, <1>5, <1>6, <1>7, <1>8, <1>9, <1>10
     DEF IdentityNext, LoadOrCreate

(* Each step keeps the order in which the two files are written.           *)
LEMMA StepCommits ==
  ASSUME IdentityInv, [IdentityNext]_identityVars
  PROVE  Commits'
<1> USE DEF IdentityInv, IdentityTypeOK, Commits
<1>1. CASE Boot
  BY <1>1 DEF Boot
<1>2. CASE Load
  <2>1. CASE keyfile \in {NoKeyFile, NoKey, CutKey}
    BY <1>2, <2>1 DEF Load
  <2>2. CASE keyfile \notin {NoKeyFile, NoKey, CutKey}
    BY <1>2, <2>2 DEF Load
  <2>3. QED
    BY <2>1, <2>2
<1>3. CASE Generate
  BY <1>3 DEF Generate
<1>4. CASE OpenKey
  BY <1>4 DEF OpenKey
<1>5. CASE WriteKey
  BY <1>5 DEF WriteKey
<1>6. CASE OpenConfig
  BY <1>6, Identities DEF OpenConfig
<1>7. CASE WriteConfig
  BY <1>7, Identities DEF WriteConfig
<1>8. CASE WriteFails
  BY <1>8 DEF WriteFails
<1>9. CASE Die
  BY <1>9 DEF Die
<1>10. CASE UNCHANGED identityVars
  BY <1>10 DEF identityVars
<1>11. QED
  BY <1>1, <1>2, <1>3, <1>4, <1>5, <1>6, <1>7, <1>8, <1>9, <1>10
     DEF IdentityNext, LoadOrCreate

(* A failed write ends what CommitsIntact says, and no step takes it back. *)
LEMMA StepCommitsIntact ==
  ASSUME IdentityInv, [IdentityNext]_identityVars
  PROVE  CommitsIntact'
<1> USE DEF IdentityInv, IdentityTypeOK, Commits, CommitsIntact
<1>1. CASE Boot
  BY <1>1 DEF Boot
<1>2. CASE Load
  <2>1. CASE keyfile \in {NoKeyFile, NoKey, CutKey}
    BY <1>2, <2>1 DEF Load
  <2>2. CASE keyfile \notin {NoKeyFile, NoKey, CutKey}
    BY <1>2, <2>2 DEF Load
  <2>3. QED
    BY <2>1, <2>2
<1>3. CASE Generate
  BY <1>3 DEF Generate
<1>4. CASE OpenKey
  BY <1>4 DEF OpenKey
<1>5. CASE WriteKey
  BY <1>5 DEF WriteKey
<1>6. CASE OpenConfig
  BY <1>6, Identities DEF OpenConfig
<1>7. CASE WriteConfig
  BY <1>7, Identities DEF WriteConfig
<1>8. CASE WriteFails
  <2>1. writeFailures' # 0
    BY <1>8 DEF WriteFails
  <2>2. QED
    BY <2>1 DEF CommitsIntact
<1>9. CASE Die
  BY <1>9 DEF Die
<1>10. CASE UNCHANGED identityVars
  BY <1>10 DEF identityVars
<1>11. QED
  BY <1>1, <1>2, <1>3, <1>4, <1>5, <1>6, <1>7, <1>8, <1>9, <1>10
     DEF IdentityNext, LoadOrCreate

(* The invariant, from which the three properties follow.                  *)
LEMMA IdentityInvariant == IdentitySpec => []IdentityInv
<1>1. IdentityInv /\ [IdentityNext]_identityVars => IdentityInv'
  BY StepTypes, StepCommits, StepCommitsIntact DEF IdentityInv
<1>2. QED
  BY InitInv, <1>1, PTL DEF IdentitySpec

(* Every start of the engine gets the same identity, whenever and however  *)
(* often it is killed, unless a file could not be written.                 *)
THEOREM OneIdentity == IdentitySpec => []IdentityStable
<1>1. IdentityInv => IdentityStable
  BY DEF IdentityInv, Commits, CommitsIntact, IdentityStable
<1>2. QED
  BY <1>1, IdentityInvariant, PTL

(* The key file holds the secret key of the public key that was returned.  *)
THEOREM KeysAlwaysMatch == IdentitySpec => []KeysMatch
<1>1. IdentityInv => KeysMatch
  BY DEF IdentityInv, Commits, CommitsIntact, KeysMatch
<1>2. QED
  BY <1>1, IdentityInvariant, PTL

(* No start is refused because an earlier one was killed.                  *)
THEOREM StartsAreNeverRefused == IdentitySpec => []NeverRefused
<1>1. IdentityInv => NeverRefused
  BY DEF IdentityInv, CommitsIntact, NeverRefused
<1>2. QED
  BY <1>1, IdentityInvariant, PTL

-----------------------------------------------------------------------------
(* The engine process, with its responder and its deaths, uses the store   *)
(* as the store's own specification says: what is proved of the store      *)
(* holds of the engine.                                                    *)
THEOREM NodeUsesStore == NodeSpec => IdentitySpec
<1>1. NodeInit => IdentityInit
  BY DEF NodeInit
<1>2. [NodeNext]_nodeVars => [IdentityNext]_identityVars
  <2> SUFFICES ASSUME [NodeNext]_nodeVars PROVE [IdentityNext]_identityVars
    OBVIOUS
  <2>1. CASE OwnerStep \/ ResponderStep \/ ResponderFails \/ PeerStep
    <3>1. UNCHANGED identityVars
      BY <2>1 DEF OwnerStep, ResponderStep, ResponderFails, PeerStep
    <3>2. QED
      BY <3>1
  <2>2. CASE IdentityStep
    BY <2>2 DEF IdentityStep, IdentityNext
  <2>3. CASE Crash
    BY <2>3 DEF Crash, IdentityNext
  <2>4. CASE UNCHANGED nodeVars
    BY <2>4 DEF nodeVars
  <2>5. QED
    BY <2>1, <2>2, <2>3, <2>4 DEF NodeNext
<1>3. QED
  BY <1>1, <1>2, PTL DEF NodeSpec, IdentitySpec

(* It uses the responder, too, as the responder's specification says.      *)
THEOREM NodeUsesResponder == NodeSpec => Spec
<1>1. NodeInit => Init
  BY DEF NodeInit
<1>2. [NodeNext]_nodeVars => [Next]_vars
  <2> SUFFICES ASSUME [NodeNext]_nodeVars PROVE [Next]_vars
    OBVIOUS
  <2>1. CASE OwnerStep
    BY <2>1 DEF OwnerStep, Next
  <2>2. CASE ResponderStep \/ ResponderFails
    BY <2>2 DEF ResponderStep, ResponderFails, Next
  <2>3. CASE PeerStep
    BY <2>3 DEF PeerStep, Next
  <2>4. CASE IdentityStep
    BY <2>4 DEF IdentityStep
  <2>5. CASE Crash
    BY <2>5 DEF Crash, Next
  <2>6. CASE UNCHANGED nodeVars
    BY <2>6 DEF nodeVars
  <2>7. QED
    BY <2>1, <2>2, <2>3, <2>4, <2>5, <2>6 DEF NodeNext
<1>3. QED
  BY <1>1, <1>2, PTL DEF NodeSpec, Spec

(* Everything that is promised of the two holds of the engine process,     *)
(* with the responder dying and starting between any two steps of a boot.  *)
THEOREM NodeIsSafe ==
  NodeSpec => [](/\ TypeOK /\ WakeUpNotLost /\ OnlyHellosAnswered
                 /\ IdentityStable /\ KeysMatch /\ NeverRefused)
BY NodeUsesStore, NodeUsesResponder, TypeCorrect, WakeUpIsNotLost, HellosAreAnsweredOnce,
   OneIdentity, KeysAlwaysMatch, StartsAreNeverRefused, PTL

=============================================================================
