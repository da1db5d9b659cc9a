----------------------------- MODULE Persistence -----------------------------
(***************************************************************************)
(* PersistenceService: the write-ahead log and the snapshot as files, the  *)
(* steps of append_entry(), create_snapshot() and recover() between which  *)
(* the process can die, and what the file system can do to them.           *)
(*                                                                         *)
(* persistence_mutex_ is held throughout each operation, so one operation  *)
(* runs at a time.  The log is a sequence of words: an entry is a word for *)
(* its size, one for its checksum and PayloadSize words of payload.  The   *)
(* snapshot is the set of its entries: recover() refuses one with trailing *)
(* bytes or an impossible size, and create_snapshot() renames it into      *)
(* place only after fsync, so what is read there is what was written.      *)
(*                                                                         *)
(* The caller is AgentRegistry: it appends in any order, since on_upsert_  *)
(* is called after its mutex is released, snapshots the highest stamp it   *)
(* had of each agent, and after a restart has what load_from_persistence() *)
(* makes of the recovered entries, again the highest stamp of each agent.  *)
(***************************************************************************)
EXTENDS Naturals, Sequences, FiniteSets, FiniteSetsExt

CONSTANTS
  Agents,
  MaxStamp,      \* bound: stamps (timestamp, the revision) are 1..MaxStamp
  PayloadSize,   \* words in a serialized entry
  MaxEntrySize,  \* MAX_ENTRY_SIZE
  MaxRecords,    \* MAX_SNAPSHOT_RECORDS
  AboveSnapshot, \* whether stamps exceed those other agents have in the snapshot
  Faults,        \* the faults that can happen, a subset of AllFaults
  Misreads,      \* what words not written as a size can read as
  MaxAppends,    \* bound: calls of append_entry
  MaxSnapshots   \* bound: calls of create_snapshot

(* tear: a crash leaves part of an append on disk (power loss, or an entry *)
(* larger than the stdio buffer); full: writes fail, which nobody checks;  *)
(* rename: the snapshot cannot be put in place; open: a file cannot be     *)
(* opened.                                                                 *)
AllFaults == {"tear", "full", "rename", "open"}

ASSUME PersistenceAssumption ==
  /\ MaxStamp \in Nat /\ PayloadSize \in Nat \ {0} /\ MaxRecords \in Nat
  /\ AboveSnapshot \in BOOLEAN /\ Faults \subseteq AllFaults
  /\ MaxEntrySize \in Nat /\ PayloadSize <= MaxEntrySize /\ Misreads \subseteq Nat
  /\ MaxAppends \in Nat /\ MaxSnapshots \in Nat

Entries == [agent : Agents, stamp : 1..MaxStamp]

(* Words of the log; ix numbers the words of a payload.                    *)
Word(is, e, ix) == [is |-> is, of |-> e, ix |-> ix]

Words ==
  [is : {"size", "crc"}, of : Entries, ix : {0}]
    \cup [is : {"data"}, of : Entries, ix : 1..PayloadSize]

Serialized(e) == <<Word("size", e, 0), Word("crc", e, 0)>>
                   \o [i \in 1..PayloadSize |-> Word("data", e, i)]

EntrySize == PayloadSize + 2

VARIABLES
  misread,    \* what a checksum or a payload word reads as when taken as a size
  pc,         \* "down", "idle", or where the running operation is
  cur,        \* the entries it was given
  wal,        \* registry.wal: the words on disk
  snapshot,   \* registry.bin: its entries
  walOpen,    \* wal_file_ is not null
  mem,        \* mem[a]: the stamp the registry has for a
  acked,      \* history: appends that have returned
  safe,       \* history: entries written to an undamaged log, and not lost with
              \* a snapshot that replaced it and was not itself in order
  written,    \* history: entries all of whose words reached the disk
  appends, snapshots  \* calls so far

files == <<wal, snapshot>>
vars == <<misread, pc, cur, files, walOpen, mem, acked, safe, written, appends, snapshots>>

Init ==
  /\ misread \in [{"crc", "data"} -> Misreads]
  /\ pc = "down" /\ cur = {}
  /\ wal = <<>> /\ snapshot = {} /\ walOpen = FALSE
  /\ mem = [a \in Agents |-> 0]
  /\ acked = {} /\ safe = {} /\ written = {}
  /\ appends = 0 /\ snapshots = 0

-----------------------------------------------------------------------------
(***************************************************************************)
(* recover().                                                              *)
(***************************************************************************)
(* A word read as a size that was not written as one can be any number.    *)
SizeAt(w, i) == IF w[i].is = "size" THEN PayloadSize ELSE misread[w[i].is]

(* compute_crc32(buffer) = read_checksum, for the entry with its header at *)
(* i: the checksum is that of the payload which follows.                   *)
ChecksumAgreesAlways(w, i) == TRUE

ChecksumAgrees(w, i) ==
  /\ w[i+1].is = "crc" /\ SizeAt(w, i) = PayloadSize
  /\ \A k \in 1..PayloadSize : w[i+1+k] = Word("data", w[i+1].of, k)

(* The replay loop.  An entry that is too large or fails its checksum is   *)
(* dropped and reading goes on behind it; an incomplete one ends the loop. *)
ReplayMissesLast(w) ==
  LET from[i \in 1..Len(w)+1] ==
        IF i + 1 > Len(w) THEN {}
        ELSE IF SizeAt(w, i) > MaxEntrySize THEN from[i + 2]
        ELSE IF i + 1 + SizeAt(w, i) >= Len(w) THEN {}
        ELSE from[i + 2 + SizeAt(w, i)] \cup
               (IF ChecksumAgrees(w, i) THEN {w[i+1].of} ELSE {})
  IN from[1]

Replay(w) ==
  LET from[i \in 1..Len(w)+1] ==
        IF i + 1 > Len(w) THEN {}
        ELSE IF SizeAt(w, i) > MaxEntrySize THEN from[i + 2]
        ELSE IF i + 1 + SizeAt(w, i) > Len(w) THEN {}
        ELSE from[i + 2 + SizeAt(w, i)] \cup
               (IF ChecksumAgrees(w, i) THEN {w[i+1].of} ELSE {})
  IN from[1]

(* max_snapshot_timestamp is the highest stamp of ANY agent; replayed      *)
(* entries up to it are dropped as stale.                                  *)
SnapshotReadable == Cardinality(snapshot) <= MaxRecords

Recoverable ==
  IF SnapshotReadable
    THEN snapshot \cup {e \in Replay(wal) : e.stamp > Max({s.stamp : s \in snapshot} \cup {0})}
    ELSE {}

(* What load_from_persistence() keeps of them.                             *)
Latest(es) == [a \in Agents |-> Max({e.stamp : e \in {e \in es : e.agent = a}} \cup {0})]

(* open_wal(): a failure is only reported.                                 *)
OpenWal == walOpen' \in {TRUE} \cup {b \in {FALSE} : "open" \in Faults}

(* The constructor opens the log, then main() recovers.  An unreadable     *)
(* snapshot throws, and the process ends before it has started.            *)
Recover ==
  /\ pc = "down" /\ SnapshotReadable
  /\ mem' = Latest(Recoverable)
  /\ OpenWal
  /\ pc' = "idle"
  /\ UNCHANGED <<misread, cur, files, acked, safe, written, appends, snapshots>>

-----------------------------------------------------------------------------
(***************************************************************************)
(* append_entry().  The stamp is below the registry's when another thread  *)
(* has overtaken this one between the locks of the two.                    *)
(***************************************************************************)
MayAppend(e) ==
  AboveSnapshot => \A s \in snapshot : s.agent # e.agent => e.stamp > s.stamp

(* Stamps m after an upsert of e.                                          *)
Raised(m, e) == [m EXCEPT ![e.agent] = IF e.stamp > @ THEN e.stamp ELSE @]

AppendEntry(e) ==
  /\ pc = "idle" /\ appends < MaxAppends /\ MayAppend(e)
  /\ mem' = Raised(mem, e)
  /\ cur' = {e} /\ pc' = "append"
  /\ appends' = appends + 1
  /\ UNCHANGED <<misread, files, walOpen, acked, safe, written, snapshots>>

(* Whether the log is a sequence of whole entries.                         *)
Undamaged(w) ==
  /\ Len(w) % EntrySize = 0
  /\ \A k \in 0..(Len(w) \div EntrySize) - 1 :
       SubSeq(w, k * EntrySize + 1, (k + 1) * EntrySize) = Serialized(w[k * EntrySize + 1].of)

(* fflush and fsync: n words of the entry e get to the disk.               *)
WriteWords(e, n) == wal' = wal \o SubSeq(Serialized(e), 1, n)

Flush ==
  /\ pc = "append"
  /\ \E e \in cur :
       \/ /\ walOpen
          /\ WriteWords(e, EntrySize)
          /\ written' = written \cup {e}
          /\ safe' = IF Undamaged(wal) THEN safe \cup {e} ELSE safe
       \/ /\ walOpen /\ "full" \in Faults
          /\ \E n \in 0..EntrySize - 1 : WriteWords(e, n)
          /\ UNCHANGED <<safe, written>>
       \/ /\ ~walOpen
          /\ UNCHANGED <<wal, safe, written>>
  /\ pc' = "appended"
  /\ UNCHANGED <<misread, cur, snapshot, walOpen, mem, acked, appends, snapshots>>

Return ==
  /\ pc = "appended"
  /\ acked' = acked \cup cur
  /\ cur' = {} /\ pc' = "idle"
  /\ UNCHANGED <<misread, files, walOpen, mem, safe, written, appends, snapshots>>

-----------------------------------------------------------------------------
(***************************************************************************)
(* create_snapshot(): the log is closed and the temporary file written     *)
(* (nothing reads it); the file is renamed; the log is truncated whether   *)
(* that worked or not, and opened again.                                   *)
(***************************************************************************)
CreateSnapshotTruncatesFirst ==
  /\ pc = "idle" /\ snapshots < MaxSnapshots
  /\ cur' = {e \in Entries : e.stamp = mem[e.agent]}
  /\ walOpen' = FALSE /\ pc' = "snapshot"
  /\ snapshots' = snapshots + 1
  /\ wal' = <<>>
  /\ UNCHANGED <<misread, snapshot, mem, acked, safe, written, appends>>

CreateSnapshotKeepsLogOpen ==
  /\ pc = "idle" /\ snapshots < MaxSnapshots
  /\ cur' = {e \in Entries : e.stamp = mem[e.agent]}
  /\ pc' = "snapshot"
  /\ snapshots' = snapshots + 1
  /\ UNCHANGED <<misread, files, walOpen, mem, acked, safe, written, appends>>

CreateSnapshot ==
  /\ pc = "idle" /\ snapshots < MaxSnapshots
  /\ cur' = {e \in Entries : e.stamp = mem[e.agent]}
  /\ walOpen' = FALSE /\ pc' = "snapshot"
  /\ snapshots' = snapshots + 1
  /\ UNCHANGED <<misread, files, mem, acked, safe, written, appends>>

SnapshotNotOpened ==
  /\ pc = "snapshot" /\ "open" \in Faults
  /\ OpenWal
  /\ cur' = {} /\ pc' = "idle"
  /\ UNCHANGED <<misread, files, mem, acked, safe, written, appends, snapshots>>

SnapshotRename ==
  /\ pc = "snapshot"
  /\ \/ snapshot' = cur /\ UNCHANGED safe
     \/ "full" \in Faults /\ snapshot' \in SUBSET cur /\ safe' = {}
     \/ "rename" \in Faults /\ UNCHANGED snapshot /\ safe' = {}
  /\ pc' = "renamed"
  /\ UNCHANGED <<misread, cur, wal, walOpen, mem, acked, written, appends, snapshots>>

SnapshotTruncate ==
  /\ pc = "renamed"
  /\ \/ wal' = <<>>
     \/ "open" \in Faults /\ UNCHANGED wal
  /\ OpenWal
  /\ cur' = {} /\ pc' = "idle"
  /\ UNCHANGED <<misread, snapshot, mem, acked, safe, written, appends, snapshots>>

-----------------------------------------------------------------------------
(* The process dies at any point; during an append, part of the entry may  *)
(* have been written.                                                      *)
Crash ==
  /\ pc # "down"
  /\ \/ UNCHANGED wal
     \/ /\ pc = "append" /\ walOpen /\ "tear" \in Faults
        /\ \E e \in cur, n \in 1..EntrySize - 1 : WriteWords(e, n)
  /\ pc' = "down" /\ cur' = {} /\ walOpen' = FALSE
  /\ mem' = [a \in Agents |-> 0]
  /\ UNCHANGED <<misread, snapshot, acked, safe, written, appends, snapshots>>

Next ==
  \/ Recover \/ (\E e \in Entries : AppendEntry(e)) \/ Flush \/ Return
  \/ CreateSnapshot \/ SnapshotNotOpened \/ SnapshotRename \/ SnapshotTruncate
  \/ Crash

Spec == Init /\ [][Next]_vars

-----------------------------------------------------------------------------
(***************************************************************************)
(* Properties.                                                             *)
(***************************************************************************)

(* Types; an operation has its entries exactly while it runs, and a closed *)
(* process has neither.                                                    *)
TypeOK ==
  /\ misread \in [{"crc", "data"} -> Misreads]
  /\ pc \in {"down", "idle", "append", "appended", "snapshot", "renamed"}
  /\ cur \in SUBSET Entries /\ (pc \in {"down", "idle"} => cur = {})
  /\ wal \in Seq(Words) /\ snapshot \in SUBSET Entries
  /\ walOpen \in BOOLEAN /\ (pc \in {"down", "snapshot", "renamed"} => ~walOpen)
  /\ mem \in [Agents -> 0..MaxStamp]
  /\ acked \in SUBSET Entries /\ safe \in SUBSET Entries /\ written \in SUBSET Entries
  /\ appends \in 0..MaxAppends /\ snapshots \in 0..MaxSnapshots

(* The file layer implements the durable store: an append takes effect at  *)
(* one instant and before it returns, and a crash anywhere in an append,   *)
(* in the rotation of the log or in a recovery loses and invents nothing.  *)
Store == INSTANCE DurableStore WITH store <- Latest(Recoverable)

StoreImplemented == Store!Spec

(* However the files are damaged (torn and short writes, failed renames,   *)
(* logs that could not be opened or truncated) and whatever the misaligned *)
(* words happen to be, replay invents nothing: every entry it takes from   *)
(* the log was once written there completely.                              *)
RecoversOnlyWritten == Replay(wal) \subseteq written

(* A torn or short write costs nothing that was logged before it: entries  *)
(* that went into an undamaged log stay recoverable at their stamp or a    *)
(* later one, through later tears, appends behind them, logs that cannot   *)
(* be opened or truncated, snapshots that replace the damaged log, and     *)
(* crashes in all of these.  Only a snapshot that was not written or not   *)
(* renamed can lose them, see Durable.                                     *)
SafeSurvives ==
  \A e \in safe : Latest(Recoverable)[e.agent] >= e.stamp

(* README: "Durable registry state via Write-Ahead Logging (WAL) and       *)
(* binary snapshots, ensuring state recovery after crashes".               *)
Durable ==
  \A e \in acked : Latest(Recoverable)[e.agent] >= e.stamp

=============================================================================
