---------------------------- MODULE IdentityStore ----------------------------
(***************************************************************************)
(* IdentityStore::load_or_create(), called once by each start of the       *)
(* engine, and its two files: the key file with the secret key, and the    *)
(* config file with the name and the public key.  A process that dies      *)
(* leaves the files as they are; a file is opened (created or emptied) and *)
(* written in two steps, and neither is checked.                           *)
(*                                                                         *)
(* Keys are numbered in the order of their generation; the number stands   *)
(* for the public key and for the secret one.                              *)
(***************************************************************************)
EXTENDS Integers

CONSTANTS
  Names,             \* node names the engine may be started with
  MaxBoots,          \* bound: starts of the engine
  MaxWriteFailures   \* bound: failures to open or to write a file

ASSUME IdentityAssumption ==
  /\ Names \subseteq STRING /\ "" \notin Names /\ MaxBoots \in Nat /\ MaxWriteFailures \in Nat

NoKey == 0     \* no key in the file, or the empty public key
CutKey == -1   \* a key of which a part is missing
NoKeyFile == -2
CutName == "cut"
Identity(n, k) == [node_id |-> n, public_key_hex |-> k]
Empty == Identity("", NoKey)
NoFile == Identity("", NoKeyFile)

VARIABLES
  boot,       \* where main() is: "down", or the step of load_or_create(), or "up"
  name,       \* config.node.node_id of this start
  config,     \* identity.txt: NoFile, or the two values read_value() finds in it
  keyfile,    \* identity.txt.key: NoKeyFile, or the key in it
  keypair,    \* the last key generated
  returned,   \* history: identities returned
  loaded,     \* history: the ones of them that were read from the files
  boots, writeFailures

identityVars ==
  <<boot, name, config, keyfile, keypair, returned, loaded, boots, writeFailures>>

(* What a write that fails on the way leaves of the three lines.           *)
Cut(n, k) ==
  {Empty, Identity(CutName, NoKey), Identity(n, NoKey), Identity(n, CutKey), Identity(n, k)}

IdentityInit ==
  /\ boot = "down" /\ name \in Names
  /\ config = NoFile /\ keyfile = NoKeyFile /\ keypair = NoKey
  /\ returned = {} /\ loaded = {} /\ boots = 0 /\ writeFailures = 0

-----------------------------------------------------------------------------
Boot ==
  /\ boot \in {"down", "refused"} /\ boots < MaxBoots
  /\ boot' = "check" /\ name' \in Names
  /\ boots' = boots + 1
  /\ UNCHANGED <<config, keyfile, keypair, returned, loaded, writeFailures>>

(* The config file exists: its values, whatever they are, if the key file  *)
(* has the size of a key; otherwise an exception that nobody catches.      *)
Load ==
  /\ boot = "check" /\ config # NoFile
  /\ IF keyfile \in {NoKeyFile, NoKey, CutKey}
       THEN boot' = "refused" /\ UNCHANGED <<returned, loaded>>
       ELSE /\ boot' = "up"
            /\ returned' = returned \cup {config} /\ loaded' = loaded \cup {config}
  /\ UNCHANGED <<name, config, keyfile, keypair, boots, writeFailures>>

GenerateAlways ==
  /\ boot = "check"
  /\ keypair' = keypair + 1
  /\ boot' = "open_key"
  /\ UNCHANGED <<name, config, keyfile, returned, loaded, boots, writeFailures>>

Generate ==
  /\ boot = "check" /\ config = NoFile
  /\ keypair' = keypair + 1
  /\ boot' = "open_key"
  /\ UNCHANGED <<name, config, keyfile, returned, loaded, boots, writeFailures>>

OpenKeyUnlessThere ==
  /\ boot = "open_key"
  /\ keyfile' = IF keyfile = NoKeyFile THEN NoKey ELSE keyfile
  /\ boot' = IF keyfile = NoKeyFile THEN "write_key" ELSE "open_config"
  /\ UNCHANGED <<name, config, keypair, returned, loaded, boots, writeFailures>>

OpenKeyOnly ==
  /\ boot = "open_key"
  /\ keyfile' = NoKey
  /\ boot' = "open_config"
  /\ UNCHANGED <<name, config, keypair, returned, loaded, boots, writeFailures>>

OpenKey ==
  /\ boot = "open_key"
  /\ keyfile' = NoKey
  /\ boot' = "write_key"
  /\ UNCHANGED <<name, config, keypair, returned, loaded, boots, writeFailures>>

WriteKey ==
  /\ boot = "write_key"
  /\ keyfile' = keypair
  /\ boot' = "open_config"
  /\ UNCHANGED <<name, config, keypair, returned, loaded, boots, writeFailures>>

OpenConfig ==
  /\ boot = "open_config"
  /\ config' = Empty
  /\ boot' = "write_config"
  /\ UNCHANGED <<name, keyfile, keypair, returned, loaded, boots, writeFailures>>

WriteConfig ==
  /\ boot = "write_config"
  /\ config' = Identity(name, keypair)
  /\ returned' = returned \cup {Identity(name, keypair)}
  /\ boot' = "up"
  /\ UNCHANGED <<name, keyfile, keypair, loaded, boots, writeFailures>>

(* An open that fails leaves the file as it was, and what is written to    *)
(* the stream then goes nowhere; a write that fails leaves a part.         *)
WriteFails ==
  /\ writeFailures < MaxWriteFailures /\ writeFailures' = writeFailures + 1
  /\ \/ boot = "open_key" /\ boot' = "open_config" /\ UNCHANGED <<config, keyfile, returned>>
     \/ /\ boot = "write_key" /\ boot' = "open_config"
        /\ keyfile' \in {NoKey, CutKey} /\ UNCHANGED <<config, returned>>
     \/ /\ boot = "open_config" /\ boot' = "up"
        /\ returned' = returned \cup {Identity(name, keypair)} /\ UNCHANGED <<config, keyfile>>
     \/ /\ boot = "write_config" /\ boot' = "up"
        /\ config' \in Cut(name, keypair)
        /\ returned' = returned \cup {Identity(name, keypair)} /\ UNCHANGED keyfile
  /\ UNCHANGED <<name, keypair, loaded, boots>>

LoadOrCreate ==
  Boot \/ Load \/ Generate \/ OpenKey \/ WriteKey \/ OpenConfig \/ WriteConfig \/ WriteFails

(* The process dies.                                                       *)
Die ==
  /\ boot \notin {"down", "refused"}
  /\ boot' = "down"
  /\ UNCHANGED <<name, config, keyfile, keypair, returned, loaded, boots, writeFailures>>

IdentityNext == LoadOrCreate \/ Die

IdentitySpec == IdentityInit /\ [][IdentityNext]_identityVars

-----------------------------------------------------------------------------
(***************************************************************************)
(* Properties.                                                             *)
(***************************************************************************)

(* Whenever the engine is killed, and under whatever name it is started    *)
(* again, all its starts get one identity.  If a file could not be written *)
(* the first start and the later ones may differ, but never two later ones.*)
IdentityStable ==
  /\ \A i, j \in loaded : i = j
  /\ writeFailures = 0 => \A i, j \in returned : i = j

(* The public key the engine was given belongs to the secret key in the    *)
(* key file, also after starts that died between the two files; a start    *)
(* that died while it wrote the config file leaves an identity without key.*)
KeysMatch ==
  writeFailures = 0 => \A i \in returned : i.public_key_hex \in {NoKey, keyfile}

(* A start is never refused because an earlier one was killed: the config  *)
(* file, whose presence commits the identity, comes after the key file.    *)
NeverRefused == writeFailures = 0 => boot # "refused"

=============================================================================
