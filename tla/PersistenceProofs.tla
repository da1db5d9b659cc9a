------------------------- MODULE PersistenceProofs --------------------------
(***************************************************************************)
(* Proofs about Persistence, for any agents, stamps, payload size and any  *)
(* number of appends, snapshots and crashes.                               *)
(***************************************************************************)
EXTENDS ReplayProofs, FiniteSetTheorems

(* The fields of an entry.                                                 *)
LEMMA EntryType ==
  ASSUME NEW e \in Entries
  PROVE  e.agent \in Agents /\ e.stamp \in 1..MaxStamp /\ e = [agent |-> e.agent, stamp |-> e.stamp]
BY Zenon DEF Entries

(* Latest: the highest stamp of an agent, 0 when it has none.              *)
LEMMA LatestIs ==
  ASSUME NEW es, es \subseteq Entries, NEW a \in Agents
  PROVE  /\ Latest(es)[a] \in 0..MaxStamp
         /\ \A e \in es : e.agent = a => e.stamp <= Latest(es)[a]
         /\ Latest(es)[a] = 0 \/ \E e \in es : e.agent = a /\ e.stamp = Latest(es)[a]
<1> DEFINE S == {e.stamp : e \in {e \in es : e.agent = a}} \cup {0}
<1>1. Latest(es)[a] = Max(S)
  BY Zenon DEF Latest
<1>2. S \subseteq 0..MaxStamp /\ S # {} /\ MaxStamp \in Nat
  BY PersistenceAssumption, EntryType
<1>3. Max(S) \in S /\ \A x \in S : x <= Max(S)
  <2> HIDE DEF S
  <2> QED
    BY <1>2, MaxIs, Zenon
<1>4. \A e \in es : e.agent = a => e.stamp \in S
  BY Zenon
<1>5. \A x \in S : x = 0 \/ \E e \in es : e.agent = a /\ e.stamp = x
  BY Zenon
<1> HIDE DEF S
<1>6. QED
  BY <1>1, <1>2, <1>3, <1>4, <1>5, Zenon

(* Latest has a stamp for every agent.                                     *)
LEMMA LatestType ==
  ASSUME NEW es, es \subseteq Entries
  PROVE  Latest(es) \in [Agents -> 0..MaxStamp]
<1>1. Latest(es) = [a \in Agents |-> Latest(es)[a]]
  BY Zenon DEF Latest
<1>2. \A a \in Agents : Latest(es)[a] \in 0..MaxStamp
  BY LatestIs, Zenon
<1>3. QED
  BY <1>1, <1>2, Zenon

(* Replay returns entries, of which the log has the last words.            *)
LEMMA ReplayTyped ==
  ASSUME TypeOK
  PROVE  Replay(wal) \subseteq Entries /\ Replay(wal) \subseteq {wal[j].of : j \in LastWords(wal)}
<1>1. misread \in Misreading /\ wal \in Seq(Words)
  BY Zenon DEF TypeOK, Misreading
<1>2. Replay(wal) = Run(misread, wal)[1]
  BY ReplayIsRun, Zenon
<1>3. Run(misread, wal)[1] \subseteq {wal[j].of : j \in LastWords(wal)}
  BY <1>1, RunChecked, Zenon
<1>4. ASSUME NEW j \in LastWords(wal)
      PROVE  wal[j].of \in Entries
  <2>1. wal[j] \in Words
    BY <1>1 DEF LastWords
  <2>2. QED
    BY <2>1, Zenon DEF Words
<1>5. QED
  BY <1>2, <1>3, <1>4, Zenon

(* What recover() returns: nothing but entries of the two files; when the  *)
(* snapshot can be read, all of it, and the replayed entries above every   *)
(* stamp in it.                                                            *)
LEMMA RecoverableIs ==
  ASSUME TypeOK
  PROVE  /\ Recoverable \subseteq Entries
         /\ Recoverable \subseteq snapshot \cup Replay(wal)
         /\ SnapshotReadable => snapshot \subseteq Recoverable
         /\ SnapshotReadable =>
              \A e \in Replay(wal) : (\A s \in snapshot : e.stamp > s.stamp) => e \in Recoverable
<1> DEFINE S == {s.stamp : s \in snapshot} \cup {0}
<1>1. snapshot \subseteq Entries /\ Replay(wal) \subseteq Entries
  BY ReplayTyped, Zenon DEF TypeOK
<1>2. Recoverable \subseteq snapshot \cup Replay(wal)
  BY Zenon DEF Recoverable
<1>3. SnapshotReadable => snapshot \subseteq Recoverable
  BY Zenon DEF Recoverable
<1>4. ASSUME SnapshotReadable, NEW e \in Replay(wal), \A s \in snapshot : e.stamp > s.stamp
      PROVE  e \in Recoverable
  <2>1. S \subseteq 0..MaxStamp /\ S # {} /\ MaxStamp \in Nat
    BY <1>1, PersistenceAssumption, EntryType
  <2>2. e.stamp \in 1..MaxStamp
    BY <1>1, EntryType, Zenon
  <2>3. \A x \in S : e.stamp > x
    BY <1>4, <2>2
  <2>4. Max(S) \in S
    <3> HIDE DEF S
    <3> QED
      BY <2>1, MaxIs, Zenon
  <2>5. e.stamp > Max(S)
    BY <2>3, <2>4, Zenon
  <2>6. QED
    BY <1>4, <2>5, Zenon DEF Recoverable
<1>5. QED
  BY <1>1, <1>2, <1>3, <1>4, Zenon

(* A write leaves words in the log.                                        *)
LEMMA WriteTyped ==
  ASSUME TypeOK, NEW e \in Entries, NEW n \in 0..EntrySize, WriteWords(e, n)
  PROVE  wal' \in Seq(Words)
BY WrittenWords, Zenon DEF WriteWords, TypeOK

(* The initial state has the right types.                                  *)
LEMMA TypeInit == Init => TypeOK
<1> SUFFICES ASSUME Init PROVE TypeOK
  BY Zenon
<1>1. wal \in Seq(Words)
  BY DEF Init
<1>2. mem \in [Agents -> 0..MaxStamp] /\ appends \in 0..MaxAppends /\ snapshots \in 0..MaxSnapshots
  BY PersistenceAssumption DEF Init
<1>3. QED
  BY <1>1, <1>2, Zenon DEF Init, TypeOK

(* Types, and which operations have entries and an open log, for every     *)
(* step of append_entry(), create_snapshot(), recover() and a crash.       *)
THEOREM TypeCorrect == Spec => []TypeOK
<1>1. Init => TypeOK
  BY TypeInit, Zenon
<1>2. TypeOK /\ [Next]_vars => TypeOK'
  <2> SUFFICES ASSUME TypeOK, [Next]_vars
               PROVE  TypeOK'
    BY Zenon
  <2> USE DEF files
  <2>1. CASE Recover
    <3>1. mem' \in [Agents -> 0..MaxStamp]
      BY <2>1, RecoverableIs, LatestType, Zenon DEF Recover
    <3>2. QED
      BY <2>1, <3>1, Zenon DEF Recover, OpenWal, TypeOK
  <2>2. ASSUME NEW e \in Entries, AppendEntry(e)
        PROVE  TypeOK'
    <3>1. e.agent \in Agents /\ e.stamp \in 0..MaxStamp
      BY EntryType, PersistenceAssumption
    <3>2. mem' \in [Agents -> 0..MaxStamp]
      BY <2>2, <3>1, Zenon DEF AppendEntry, Raised, TypeOK
    <3>3. appends' \in 0..MaxAppends
      BY <2>2, PersistenceAssumption DEF AppendEntry, TypeOK
    <3>4. QED
      BY <2>2, <3>2, <3>3, Zenon DEF AppendEntry, TypeOK
  <2>3. CASE Flush
    <3>1. wal' \in Seq(Words)
      <4>1. \A n \in 0..EntrySize - 1 : n \in 0..EntrySize
        BY EntrySizeType
      <4>2. EntrySize \in 0..EntrySize
        BY EntrySizeType
      <4>3. PICK e \in cur : \/ WriteWords(e, EntrySize)
                             \/ \E n \in 0..EntrySize - 1 : WriteWords(e, n)
                             \/ UNCHANGED wal
        BY <2>3, Zenon DEF Flush
      <4>4. e \in Entries /\ wal \in Seq(Words)
        BY Zenon DEF TypeOK
      <4>5. QED
        BY <4>1, <4>2, <4>3, <4>4, WriteTyped, Zenon
    <3>2. safe' \in SUBSET Entries /\ written' \in SUBSET Entries
      BY <2>3, Zenon DEF Flush, TypeOK
    <3>3. QED
      BY <2>3, <3>1, <3>2, Zenon DEF Flush, TypeOK
  <2>4. CASE Return
    BY <2>4, Zenon DEF Return, TypeOK
  <2>5. CASE CreateSnapshot
    <3>1. snapshots' \in 0..MaxSnapshots
      BY <2>5, PersistenceAssumption DEF CreateSnapshot, TypeOK
    <3>2. QED
      BY <2>5, <3>1, Zenon DEF CreateSnapshot, TypeOK
  <2>6. CASE SnapshotNotOpened
    BY <2>6, Zenon DEF SnapshotNotOpened, OpenWal, TypeOK
  <2>7. CASE SnapshotRename
    <3>1. snapshot' \in SUBSET Entries /\ safe' \in SUBSET Entries
      BY <2>7, Zenon DEF SnapshotRename, TypeOK
    <3>2. QED
      BY <2>7, <3>1, Zenon DEF SnapshotRename, TypeOK
  <2>8. CASE SnapshotTruncate
    <3>1. wal' \in Seq(Words)
      <4>1. <<>> \in Seq(Words)
        OBVIOUS
      <4>2. QED
        BY <2>8, <4>1, Zenon DEF SnapshotTruncate, TypeOK
    <3>2. QED
      BY <2>8, <3>1, Zenon DEF SnapshotTruncate, OpenWal, TypeOK
  <2>9. CASE Crash
    <3>1. wal' \in Seq(Words)
      <4>1. \A n \in 1..EntrySize - 1 : n \in 0..EntrySize
        BY EntrySizeType
      <4>2. \/ \E e \in cur, n \in 1..EntrySize - 1 : WriteWords(e, n)
            \/ UNCHANGED wal
        BY <2>9, Zenon DEF Crash
      <4>3. cur \subseteq Entries /\ wal \in Seq(Words)
        BY Zenon DEF TypeOK
      <4>4. QED
        BY <4>1, <4>2, <4>3, WriteTyped, Zenon
    <3>2. mem' \in [Agents -> 0..MaxStamp]
      BY <2>9, PersistenceAssumption DEF Crash
    <3>3. QED
      BY <2>9, <3>1, <3>2, Zenon DEF Crash, TypeOK
  <2>10. CASE UNCHANGED vars
    BY <2>10, Zenon DEF vars, TypeOK
  <2>11. QED
    BY <2>1, <2>2, <2>3, <2>4, <2>5, <2>6, <2>7, <2>8, <2>9, <2>10, Zenon DEF Next
<1>3. QED
  BY <1>1, <1>2, PTL DEF Spec

(* The inductive form of RecoversOnlyWritten: the last word of a payload   *)
(* is in the log only for an entry written as a whole.  Replay can take    *)
(* nothing else, whatever it misreads.                                     *)
LastWordsLogged == \A j \in LastWords(wal) : wal[j].of \in written

(* Every change of the log keeps that: it is truncated, or grows by part   *)
(* of an entry or by all of one that is then counted as written.           *)
LEMMA LoggedStays ==
  ASSUME TypeOK, LastWordsLogged, written \subseteq written',
         wal' \in {wal, <<>>} \/
           \E e \in Entries, n \in 0..EntrySize :
             WriteWords(e, n) /\ (n = EntrySize => e \in written')
  PROVE  LastWordsLogged'
<1>1. CASE wal' = wal
  BY <1>1, Zenon DEF LastWordsLogged, LastWords
<1>2. CASE wal' = <<>>
  BY <1>2 DEF LastWordsLogged, LastWords
<1>3. ASSUME NEW e \in Entries, NEW n \in 0..EntrySize,
             WriteWords(e, n), n = EntrySize => e \in written'
      PROVE  LastWordsLogged'
  <2>1. wal' = wal \o SubSeq(Serialized(e), 1, n) /\ wal \in Seq(Words)
    BY <1>3, Zenon DEF WriteWords, TypeOK
  <2>2. \A j \in LastWords(wal') :
          (j \in LastWords(wal) /\ wal'[j] = wal[j]) \/ (n = EntrySize /\ wal'[j].of = e)
    <3> DEFINE v == wal \o SubSeq(Serialized(e), 1, n)
    <3>1. \A j \in LastWords(v) :
            (j \in LastWords(wal) /\ v[j] = wal[j]) \/ (n = EntrySize /\ v[j].of = e)
      BY <2>1, LastWordsWritten, Zenon
    <3> HIDE DEF v
    <3>2. wal' = v
      BY <2>1, Zenon DEF v
    <3>3. QED
      BY <3>1, <3>2, Zenon
  <2>3. \A j \in LastWords(wal') : wal'[j].of \in written'
    BY <1>3, <2>2, Zenon DEF LastWordsLogged
  <2>4. QED
    BY <2>3, Zenon DEF LastWordsLogged
<1>4. QED
  BY <1>1, <1>2, <1>3, Zenon

(* An empty log has no such words.                                         *)
LEMMA LoggedInit == Init => LastWordsLogged
BY DEF Init, LastWordsLogged, LastWords

(* LastWordsLogged is invariant.                                           *)
LEMMA LoggedAlways == Spec => []LastWordsLogged
<1>1. Init => LastWordsLogged
  BY LoggedInit, Zenon
<1>2. TypeOK /\ LastWordsLogged /\ [Next]_vars => LastWordsLogged'
  <2> SUFFICES ASSUME TypeOK, LastWordsLogged, [Next]_vars
               PROVE  LastWordsLogged'
    BY Zenon
  <2>1. /\ written \subseteq written'
        /\ \/ wal' \in {wal, <<>>}
           \/ \E e \in Entries, n \in 0..EntrySize :
                WriteWords(e, n) /\ (n = EntrySize => e \in written')
    <3> USE DEF files
    <3>1. /\ EntrySize \in 0..EntrySize
          /\ \A n \in 0..EntrySize - 1 : n \in 0..EntrySize /\ n # EntrySize
          /\ \A n \in 1..EntrySize - 1 : n \in 0..EntrySize /\ n # EntrySize
      BY EntrySizeType
    <3>2. cur \subseteq Entries
      BY Zenon DEF TypeOK
    <3>3. CASE Flush
      <4>1. PICK e \in cur : \/ WriteWords(e, EntrySize) /\ written' = written \cup {e}
                             \/ /\ \E n \in 0..EntrySize - 1 : WriteWords(e, n)
                                /\ UNCHANGED written
                             \/ UNCHANGED <<wal, written>>
        BY <3>3, Zenon DEF Flush
      <4>2. QED
        BY <3>1, <3>2, <4>1, Zenon
    <3>4. CASE Crash
      BY <3>1, <3>2, <3>4, Zenon DEF Crash
    <3>5. CASE SnapshotTruncate
      BY <3>5, Zenon DEF SnapshotTruncate
    <3>6. CASE UNCHANGED <<wal, written>>
      BY <3>6, Zenon
    <3>7. QED
      BY <3>3, <3>4, <3>5, <3>6, Zenon DEF Next, Recover, AppendEntry, Return, CreateSnapshot,
           SnapshotNotOpened, SnapshotRename, vars
  <2>2. QED
    BY <2>1, LoggedStays, Zenon
<1>3. QED
  BY <1>1, <1>2, TypeCorrect, PTL DEF Spec

(* recover() invents nothing: whichever faults happen and whatever the     *)
(* misaligned words of a damaged log read as, every entry that the replay  *)
(* loop takes was once written there as a whole.                           *)
THEOREM OnlyWritten == Spec => []RecoversOnlyWritten
<1>1. TypeOK /\ LastWordsLogged => RecoversOnlyWritten
  BY ReplayTyped, Zenon DEF LastWordsLogged, RecoversOnlyWritten
<1>2. QED
  BY <1>1, TypeCorrect, LoggedAlways, PTL

(* The agents fit into a snapshot that recover() accepts: it refuses one   *)
(* with more than MAX_SNAPSHOT_RECORDS records, which create_snapshot()    *)
(* does not check.                                                         *)
RecordsFit == IsFiniteSet(Agents) /\ Cardinality(Agents) <= MaxRecords

(* Either no snapshots are taken, as in the engine today, or stamps exceed *)
(* those that other agents have in the snapshot, and the agents fit.       *)
SnapshotsUsable == MaxSnapshots = 0 \/ (AboveSnapshot /\ RecordsFit)

(* What this means in a state.                                             *)
SnapshotSound == snapshot = {} \/ (AboveSnapshot /\ RecordsFit)

(* Without calls of create_snapshot() there is never a snapshot.           *)
LEMMA SoundAlways ==
  ASSUME SnapshotsUsable
  PROVE  Spec => []SnapshotSound
<1>1. CASE MaxSnapshots = 0
  <2> DEFINE None == snapshot = {} /\ pc \notin {"snapshot", "renamed"}
  <2>1. Init => None
    BY Zenon DEF Init
  <2>2. TypeOK /\ None /\ [Next]_vars => None'
    <3> SUFFICES ASSUME TypeOK, None, [Next]_vars PROVE None'
      BY Zenon
    <3>1. ~CreateSnapshot
      <4>1. snapshots \in 0..0
        BY <1>1, Zenon DEF TypeOK
      <4>2. ~(snapshots < MaxSnapshots)
        BY <1>1, <4>1
      <4>3. QED
        BY <4>2, Zenon DEF CreateSnapshot
    <3>2. QED
      BY <3>1, Zenon DEF Next, vars, files, Recover, AppendEntry, Flush, Return,
         SnapshotNotOpened, SnapshotRename, SnapshotTruncate, Crash
  <2>3. None => SnapshotSound
    BY Zenon DEF SnapshotSound
  <2>4. QED
    BY <2>1, <2>2, <2>3, TypeCorrect, PTL DEF Spec
<1>2. CASE AboveSnapshot /\ RecordsFit
  <2>1. SnapshotSound
    BY <1>2, Zenon DEF SnapshotSound
  <2>2. QED
    BY <2>1, PTL
<1>3. QED
  BY <1>1, <1>2, Zenon DEF SnapshotsUsable

(* An entry is covered by the snapshot, or above all of it.                *)
Covered(e) == \E s \in snapshot : s.agent = e.agent /\ e.stamp <= s.stamp
Above(e) == \A s \in snapshot : e.stamp > s.stamp

(* The snapshot has one entry of an agent.                                 *)
OnePerAgent == \A s, t \in snapshot : s.agent = t.agent => s = t

(* The registry has whatever is safe or in the snapshot.                   *)
MemCovers == pc # "down" => \A e \in safe \cup snapshot : e.stamp <= mem[e.agent]

(* What the running operation was given: an append an entry the registry   *)
(* has taken, a snapshot all that the registry has; once it is renamed it  *)
(* covers what is safe.                                                    *)
CurKnown ==
  /\ pc \in {"append", "appended"} =>
       \E e \in Entries :
         /\ cur = {e} /\ e.stamp <= mem[e.agent]
         /\ \A s \in snapshot : s.agent # e.agent => e.stamp > s.stamp
  /\ pc \in {"snapshot", "renamed"} => cur = {e \in Entries : e.stamp = mem[e.agent]}
  /\ pc = "renamed" => \A e \in safe : Covered(e)

(* The heart of the invariant: each safe entry is covered by the snapshot, *)
(* or is above it and in the part of the log that is in order.             *)
LogKeeps ==
  \E G : /\ Starts(wal, G)
         /\ \A e \in safe : Covered(e) \/ (Above(e) /\ \E g \in G : wal[g].of = e)

(* The inductive form of SafeSurvives.                                     *)
SafeInv == OnePerAgent /\ MemCovers /\ CurKnown /\ LogKeeps

(* So the snapshot can be read.                                            *)
LEMMA SnapshotFits ==
  ASSUME TypeOK, OnePerAgent, SnapshotSound
  PROVE  SnapshotReadable
<1>0. CASE snapshot = {}
  <2>1. Cardinality(snapshot) = 0
    BY <1>0, FS_EmptySet, Zenon
  <2>2. QED
    BY <2>1, PersistenceAssumption DEF SnapshotReadable
<1> SUFFICES ASSUME RecordsFit PROVE SnapshotReadable
  BY <1>0, Zenon DEF SnapshotSound
<1> DEFINE f == [s \in snapshot |-> s.agent]
<1>1. f \in [snapshot -> Agents]
  BY EntryType, Zenon DEF TypeOK
<1>2. f \in Injection(snapshot, Agents)
  BY <1>1, Zenon DEF Injection, IsInjective, OnePerAgent
<1>3. Cardinality(snapshot) <= Cardinality(Agents) /\ IsFiniteSet(snapshot)
  BY <1>2, FS_Injection, Zenon DEF RecordsFit
<1>4. Cardinality(snapshot) \in Nat /\ Cardinality(Agents) \in Nat
  BY <1>3, FS_CardinalityType, Zenon DEF RecordsFit
<1>5. QED
  BY <1>3, <1>4, PersistenceAssumption DEF SnapshotReadable, RecordsFit

(* recover() returns every safe entry, or a later one of the agent.        *)
LEMMA SafeIsRecoverable ==
  ASSUME TypeOK, SafeInv, SnapshotSound
  PROVE  /\ \A e \in safe : e.stamp <= Latest(Recoverable)[e.agent]
         /\ \A e \in snapshot : e.stamp <= Latest(Recoverable)[e.agent]
<1>1. SnapshotReadable
  BY SnapshotFits, Zenon DEF SafeInv
<1>2. snapshot \subseteq Recoverable /\ Recoverable \subseteq Entries
  BY <1>1, RecoverableIs, Zenon
<1>3. \A e \in Recoverable : e.stamp <= Latest(Recoverable)[e.agent]
  BY <1>2, EntryType, LatestIs, Zenon
<1>4. ASSUME NEW e \in safe
      PROVE  e.stamp <= Latest(Recoverable)[e.agent]
  <2>1. PICK G : Starts(wal, G)
                 /\ \A d \in safe : Covered(d) \/ (Above(d) /\ \E g \in G : wal[g].of = d)
    BY Zenon DEF SafeInv, LogKeeps
  <2>2. CASE Covered(e)
    <3>1. PICK s \in snapshot : s.agent = e.agent /\ e.stamp <= s.stamp
      BY <2>2, Zenon DEF Covered
    <3>2. s.stamp <= Latest(Recoverable)[e.agent]
      BY <1>2, <1>3, <3>1, Zenon
    <3>3. e.stamp \in Nat /\ s.stamp \in Nat /\ Latest(Recoverable)[e.agent] \in Nat
      <4>1. s \in Entries /\ e \in Entries /\ e.agent \in Agents
        BY EntryType, Zenon DEF TypeOK
      <4>2. s.stamp \in 1..MaxStamp /\ e.stamp \in 1..MaxStamp
        BY <4>1, EntryType, Zenon
      <4>3. Latest(Recoverable)[e.agent] \in 0..MaxStamp
        BY <1>2, <4>1, LatestIs, Zenon
      <4>4. QED
        BY <4>2, <4>3, PersistenceAssumption
    <3>4. QED
      BY <3>1, <3>2, <3>3
  <2>3. CASE Above(e) /\ \E g \in G : wal[g].of = e
    <3>1. e \in Replay(wal)
      BY <2>1, <2>3, ReplayIsRun, RunTakesStarts DEF TypeOK, Misreading
    <3>2. e \in Recoverable
      BY <1>1, <2>3, <3>1, RecoverableIs, Zenon DEF Above
    <3>3. QED
      BY <1>3, <3>2, Zenon
  <2>4. QED
    BY <2>1, <2>2, <2>3, Zenon
<1>5. QED
  BY <1>2, <1>3, <1>4, Zenon

(* Steps that leave files and history alone.                               *)
LEMMA LogKeepsStays ==
  ASSUME LogKeeps, UNCHANGED <<wal, snapshot, safe>>
  PROVE  LogKeeps'
BY Zenon DEF LogKeeps, Covered, Above

(* A torn or short write leaves the part of the log in order as it was.    *)
LEMMA PartialWriteKeeps ==
  ASSUME TypeOK, LogKeeps, NEW e \in Entries, NEW n \in 0..EntrySize, WriteWords(e, n),
         UNCHANGED <<snapshot, safe>>
  PROVE  LogKeeps'
<1>1. PICK G : Starts(wal, G)
               /\ \A d \in safe : Covered(d) \/ (Above(d) /\ \E g \in G : wal[g].of = d)
  BY Zenon DEF LogKeeps
<1>2. /\ wal \in Seq(Words) /\ wal' \in Seq(Words) /\ Len(wal) <= Len(wal')
      /\ \A i \in 1..Len(wal) : wal'[i] = wal[i]
  <2>1. wal \in Seq(Words) /\ wal' = wal \o SubSeq(Serialized(e), 1, n)
    BY Zenon DEF WriteWords, TypeOK
  <2>2. /\ wal' \in Seq(Words) /\ Len(wal') = Len(wal) + n
        /\ \A i \in 1..Len(wal) : wal'[i] = wal[i]
    BY <2>1, WrittenWords, Zenon
  <2>3. Len(wal) \in Nat /\ n \in Nat
    BY <2>1
  <2>4. Len(wal) <= Len(wal')
    BY <2>2, <2>3
  <2>5. QED
    BY <2>1, <2>2, <2>4, Zenon
<1>3. Starts(wal', G) /\ \A g \in G : wal'[g] = wal[g]
  BY <1>1, <1>2, StartsStay
<1>4. \A d \in safe' : Covered(d)' \/ (Above(d)' /\ \E g \in G : wal'[g].of = d)
  BY <1>1, <1>3, Zenon DEF Covered, Above
<1>5. QED
  BY <1>3, <1>4, Zenon DEF LogKeeps

(* A complete write to an undamaged log puts its entry into the part in    *)
(* order, above the snapshot or covered by it.                             *)
LEMMA WholeWriteKeeps ==
  ASSUME TypeOK, MemCovers, CurKnown, LogKeeps, pc = "append", NEW e \in cur,
         WriteWords(e, EntrySize), Undamaged(wal), UNCHANGED snapshot, safe' = safe \cup {e}
  PROVE  LogKeeps'
<1>1. PICK G : Starts(wal, G)
               /\ \A d \in safe : Covered(d) \/ (Above(d) /\ \E g \in G : wal[g].of = d)
  BY Zenon DEF LogKeeps
<1>2. PICK U : Starts(wal, U) /\ (Len(wal) = 0 \/ Len(wal) + 1 - EntrySize \in U)
  BY UndamagedStarts, Zenon DEF TypeOK
<1> DEFINE new == Len(wal) + 1
           H == G \cup U \cup {new}
<1>3. /\ e \in Entries
      /\ \A s \in snapshot : s.agent # e.agent => e.stamp > s.stamp
  BY Zenon DEF CurKnown
<1>4. /\ wal \in Seq(Words) /\ wal' \in Seq(Words) /\ Len(wal') = Len(wal) + EntrySize
      /\ Len(wal) <= Len(wal') /\ \A i \in 1..Len(wal) : wal'[i] = wal[i]
  <2>1. EntrySize \in 0..EntrySize /\ wal \in Seq(Words) /\ Len(wal) \in Nat
    BY EntrySizeType DEF TypeOK
  <2>2. wal' = wal \o SubSeq(Serialized(e), 1, EntrySize)
    BY Zenon DEF WriteWords
  <2>3. /\ wal' \in Seq(Words) /\ Len(wal') = Len(wal) + EntrySize
        /\ \A i \in 1..Len(wal) : wal'[i] = wal[i]
    BY <1>3, <2>1, <2>2, WrittenWords, Zenon
  <2>4. QED
    BY <2>1, <2>3, EntrySizeType
<1>5. Block(wal', new) /\ wal'[new].of = e
  BY <1>3, <1>4, BlockWritten, Zenon DEF WriteWords
<1>6. /\ Starts(wal', G) /\ \A g \in G : wal'[g] = wal[g]
      /\ Starts(wal', U)
  BY <1>1, <1>2, <1>4, StartsStay
<1>7. Starts(wal', H)
  <2>1. new \in 1..Len(wal') /\ (new = 1 \/ new - EntrySize \in U)
    BY <1>2, <1>4, EntrySizeType
  <2>2. QED
    BY <1>5, <1>6, <2>1, Zenon DEF Starts
<1>8. Covered(e) \/ Above(e)
  <2>1. \A s \in snapshot : s.stamp <= mem[s.agent] /\ s.stamp \in Nat
    BY EntryType DEF MemCovers, TypeOK
  <2>2. e.stamp \in Nat
    BY <1>3, EntryType
  <2>3. ASSUME NEW s \in snapshot, ~(e.stamp > s.stamp)
        PROVE  Covered(e)
    <3>1. s.agent = e.agent
      BY <1>3, <2>3, Zenon
    <3>2. e.stamp <= s.stamp
      BY <2>1, <2>2, <2>3
    <3>3. QED
      BY <3>1, <3>2, Zenon DEF Covered
  <2>4. QED
    BY <2>3, Zenon DEF Above
<1> HIDE DEF new
<1>9. \A d \in safe' : Covered(d)' \/ (Above(d)' /\ \E g \in H : wal'[g].of = d)
  BY <1>1, <1>5, <1>6, <1>8, Zenon DEF Covered, Above
<1>10. QED
  BY <1>7, <1>9, Zenon DEF LogKeeps

(* A snapshot in place covers all that is safe.                            *)
LEMMA CoveredByCur ==
  ASSUME TypeOK, MemCovers, pc = "snapshot", cur = {e \in Entries : e.stamp = mem[e.agent]},
         snapshot' = cur
  PROVE  \A e \in safe : Covered(e)'
<1> SUFFICES ASSUME NEW e \in safe
             PROVE  Covered(e)'
  BY Zenon
<1> DEFINE s == [agent |-> e.agent, stamp |-> mem[e.agent]]
<1>1. e.agent \in Agents /\ e.stamp \in 1..MaxStamp /\ e.stamp <= mem[e.agent]
      /\ mem[e.agent] \in 0..MaxStamp
  BY EntryType, Zenon DEF TypeOK, MemCovers
<1>2. mem[e.agent] \in 1..MaxStamp
  BY <1>1, PersistenceAssumption
<1>3. s \in cur /\ s.agent = e.agent /\ e.stamp <= s.stamp
  BY <1>1, <1>2, Zenon DEF Entries
<1>4. QED
  BY <1>3, Zenon DEF Covered

(* Every step keeps the invariant, one case per step of the operations.    *)
LEMMA SafeInvStep ==
  ASSUME TypeOK, SafeInv, SnapshotSound, [Next]_vars
  PROVE  SafeInv'
<1> USE DEF files
<1>1. /\ OnePerAgent /\ MemCovers /\ CurKnown /\ LogKeeps
      /\ snapshot \subseteq Entries /\ safe \subseteq Entries
      /\ \A e \in safe \cup snapshot : e.agent \in Agents /\ e.stamp \in Nat
  BY EntryType DEF SafeInv, TypeOK
<1>2. CASE Recover
  <2>1. MemCovers'
    BY <1>2, SafeIsRecoverable, Zenon DEF Recover, MemCovers
  <2>2. OnePerAgent' /\ CurKnown'
    BY <1>1, <1>2, Zenon DEF Recover, OnePerAgent, CurKnown
  <2>3. LogKeeps'
    BY <1>1, <1>2, LogKeepsStays, Zenon DEF Recover
  <2>4. QED
    BY <2>1, <2>2, <2>3, Zenon DEF SafeInv
<1>3. ASSUME NEW e \in Entries, AppendEntry(e)
      PROVE  SafeInv'
  <2>1. e.agent \in Agents /\ e.stamp \in Nat /\ mem \in [Agents -> Nat]
    BY EntryType, PersistenceAssumption DEF TypeOK
  <2>2. mem' = Raised(mem, e)
        /\ \A s \in snapshot : s.agent # e.agent => e.stamp > s.stamp
    BY <1>3, <2>1, Zenon DEF AppendEntry, MayAppend, SnapshotSound
  <2>3. MemCovers'
    <3> SUFFICES ASSUME NEW d \in safe \cup snapshot
                 PROVE  d.stamp <= mem'[d.agent]
      BY <1>3, Zenon DEF AppendEntry, MemCovers
    <3>1. d.stamp <= mem[d.agent]
      BY <1>1, <1>3, Zenon DEF AppendEntry, MemCovers
    <3>2. QED
      BY <1>1, <2>1, <2>2, <3>1 DEF Raised
  <2>4. CurKnown'
    <3>1. e.stamp <= mem'[e.agent]
      BY <2>1, <2>2 DEF Raised
    <3>2. QED
      BY <1>3, <2>2, <3>1, Zenon DEF AppendEntry, CurKnown
  <2>5. OnePerAgent'
    BY <1>1, <1>3, Zenon DEF AppendEntry, OnePerAgent
  <2>6. LogKeeps'
    BY <1>1, <1>3, LogKeepsStays, Zenon DEF AppendEntry
  <2>7. QED
    BY <2>3, <2>4, <2>5, <2>6, Zenon DEF SafeInv
<1>4. CASE Flush
  <2>1. PICK e \in cur :
          \/ /\ WriteWords(e, EntrySize)
             /\ safe' = IF Undamaged(wal) THEN safe \cup {e} ELSE safe
          \/ (\E n \in 0..EntrySize - 1 : WriteWords(e, n)) /\ UNCHANGED safe
          \/ UNCHANGED <<wal, safe>>
    BY <1>4, Zenon DEF Flush
  <2>2. e \in Entries /\ e.stamp <= mem[e.agent] /\ cur = {e}
    BY <1>1, <1>4, Zenon DEF Flush, CurKnown
  <2>3. safe' \subseteq safe \cup {e}
    BY <2>1, Zenon
  <2>4. MemCovers'
    BY <1>1, <1>4, <2>2, <2>3, EntryType DEF Flush, MemCovers
  <2>5. OnePerAgent' /\ CurKnown'
    BY <1>1, <1>4, Zenon DEF Flush, OnePerAgent, CurKnown
  <2>6. LogKeeps'
    <3>1. EntrySize \in 0..EntrySize /\ \A n \in 0..EntrySize - 1 : n \in 0..EntrySize
      BY EntrySizeType
    <3>2. CASE WriteWords(e, EntrySize) /\ Undamaged(wal) /\ safe' = safe \cup {e}
      BY <1>1, <1>4, <3>2, WholeWriteKeeps, Zenon DEF Flush
    <3>3. CASE (\E n \in 0..EntrySize : WriteWords(e, n)) /\ UNCHANGED safe
      BY <1>1, <1>4, <2>2, <3>3, PartialWriteKeeps, Zenon DEF Flush
    <3>4. CASE UNCHANGED <<wal, safe>>
      BY <1>1, <1>4, <3>4, LogKeepsStays, Zenon DEF Flush
    <3>5. QED
      BY <2>1, <3>1, <3>2, <3>3, <3>4, Zenon
  <2>7. QED
    BY <2>4, <2>5, <2>6, Zenon DEF SafeInv
<1>5. CASE Return
  <2>1. OnePerAgent' /\ MemCovers' /\ CurKnown'
    BY <1>1, <1>5, Zenon DEF Return, OnePerAgent, MemCovers, CurKnown
  <2>2. LogKeeps'
    BY <1>1, <1>5, LogKeepsStays, Zenon DEF Return
  <2>3. QED
    BY <2>1, <2>2, Zenon DEF SafeInv
<1>6. CASE CreateSnapshot
  <2>1. OnePerAgent' /\ MemCovers' /\ CurKnown'
    BY <1>1, <1>6, Zenon DEF CreateSnapshot, OnePerAgent, MemCovers, CurKnown
  <2>2. LogKeeps'
    BY <1>1, <1>6, LogKeepsStays, Zenon DEF CreateSnapshot
  <2>3. QED
    BY <2>1, <2>2, Zenon DEF SafeInv
<1>7. CASE SnapshotNotOpened
  <2>1. OnePerAgent' /\ MemCovers' /\ CurKnown'
    BY <1>1, <1>7, Zenon DEF SnapshotNotOpened, OnePerAgent, MemCovers, CurKnown
  <2>2. LogKeeps'
    BY <1>1, <1>7, LogKeepsStays, Zenon DEF SnapshotNotOpened
  <2>3. QED
    BY <2>1, <2>2, Zenon DEF SafeInv
<1>8. CASE SnapshotRename
  <2>1. cur = {e \in Entries : e.stamp = mem[e.agent]} /\ pc = "snapshot" /\ pc' = "renamed"
        /\ UNCHANGED <<cur, mem, wal>>
    BY <1>1, <1>8, Zenon DEF SnapshotRename, CurKnown
  <2>2. \/ snapshot' = cur /\ safe' = safe
        \/ safe' = {} /\ (snapshot' \subseteq cur \/ snapshot' = snapshot)
    BY <1>8, Zenon DEF SnapshotRename
  <2>3. \A s \in cur : s.agent \in Agents /\ s.stamp \in Nat /\ s.stamp = mem[s.agent]
    BY <2>1, EntryType
  <2>4. OnePerAgent'
    <3>1. \A s, t \in cur : s.agent = t.agent => s = t
      BY <2>1, <2>3, EntryType
    <3>2. QED
      BY <1>1, <2>2, <3>1, Zenon DEF OnePerAgent
  <2>5. MemCovers'
    <3>1. \A s \in cur : s.stamp <= mem[s.agent]
      BY <2>3
    <3>2. QED
      BY <1>1, <2>1, <2>2, <3>1, Zenon DEF MemCovers
  <2>6. \A e \in safe' : Covered(e)'
    BY <1>1, <2>1, <2>2, CoveredByCur, Zenon
  <2>7. CurKnown'
    BY <2>1, <2>6, Zenon DEF CurKnown
  <2>8. LogKeeps'
    <3>1. Starts(wal', {})
      BY Zenon DEF Starts
    <3>2. QED
      BY <2>6, <3>1, Zenon DEF LogKeeps
  <2>9. QED
    BY <2>4, <2>5, <2>7, <2>8, Zenon DEF SafeInv
<1>9. CASE SnapshotTruncate
  <2>1. OnePerAgent' /\ MemCovers' /\ CurKnown'
    BY <1>1, <1>9, Zenon DEF SnapshotTruncate, OnePerAgent, MemCovers, CurKnown
  <2>2. \A e \in safe' : Covered(e)'
    BY <1>1, <1>9, Zenon DEF SnapshotTruncate, CurKnown, Covered
  <2>3. LogKeeps'
    <3>1. Starts(wal', {})
      BY Zenon DEF Starts
    <3>2. QED
      BY <2>2, <3>1, Zenon DEF LogKeeps
  <2>4. QED
    BY <2>1, <2>3, Zenon DEF SafeInv
<1>10. CASE Crash
  <2>1. OnePerAgent' /\ MemCovers' /\ CurKnown'
    BY <1>1, <1>10, Zenon DEF Crash, OnePerAgent, MemCovers, CurKnown
  <2>2. LogKeeps'
    <3>1. \A n \in 1..EntrySize - 1 : n \in 0..EntrySize
      BY EntrySizeType
    <3>2. CASE UNCHANGED wal
      BY <1>1, <1>10, <3>2, LogKeepsStays, Zenon DEF Crash
    <3>3. CASE \E e \in cur, n \in 1..EntrySize - 1 : WriteWords(e, n)
      <4>1. cur \subseteq Entries /\ UNCHANGED <<snapshot, safe>>
        BY <1>10, Zenon DEF Crash, TypeOK
      <4>2. QED
        BY <1>1, <3>1, <3>3, <4>1, PartialWriteKeeps, Zenon
    <3>4. QED
      BY <1>10, <3>2, <3>3, Zenon DEF Crash
  <2>3. QED
    BY <2>1, <2>2, Zenon DEF SafeInv
<1>11. CASE UNCHANGED vars
  <2>1. OnePerAgent' /\ MemCovers' /\ CurKnown'
    BY <1>1, <1>11, Zenon DEF vars, OnePerAgent, MemCovers, CurKnown, Covered
  <2>2. LogKeeps'
    BY <1>1, <1>11, LogKeepsStays, Zenon DEF vars
  <2>3. QED
    BY <2>1, <2>2, Zenon DEF SafeInv
<1>12. QED
  BY <1>2, <1>3, <1>4, <1>5, <1>6, <1>7, <1>8, <1>9, <1>10, <1>11, Zenon DEF Next

(* SafeInv is invariant when snapshots are usable.                         *)
LEMMA SafeInvAlways ==
  ASSUME SnapshotsUsable
  PROVE  Spec => []SafeInv
<1>1. Init => SafeInv
  <2> SUFFICES ASSUME Init PROVE SafeInv
    BY Zenon
  <2>1. LogKeeps
    <3>1. Starts(wal, {})
      BY Zenon DEF Starts
    <3>2. QED
      BY <3>1, Zenon DEF Init, LogKeeps
  <2>2. QED
    BY <2>1, Zenon DEF Init, SafeInv, OnePerAgent, MemCovers, CurKnown
<1>2. TypeOK /\ SafeInv /\ SnapshotSound /\ [Next]_vars => SafeInv'
  BY SafeInvStep, Zenon
<1>3. Spec => []SnapshotSound
  BY SoundAlways, Zenon
<1>4. QED
  BY <1>1, <1>2, <1>3, TypeCorrect, PTL DEF Spec

(* What once went into an undamaged log stays recoverable, through any     *)
(* number of torn and short writes, appends behind them, files that cannot *)
(* be opened, renames that fail and crashes, if no snapshots are taken, or *)
(* stamps exceed those that other agents have in the snapshot and the      *)
(* agents fit into one.                                                    *)
THEOREM SafeEntriesSurvive ==
  ASSUME SnapshotsUsable
  PROVE  Spec => []SafeSurvives
<1>1. TypeOK /\ SafeInv /\ SnapshotSound => SafeSurvives
  <2> SUFFICES ASSUME TypeOK, SafeInv, SnapshotSound, NEW e \in safe
               PROVE  Latest(Recoverable)[e.agent] >= e.stamp
    BY Zenon DEF SafeSurvives
  <2>1. e.stamp <= Latest(Recoverable)[e.agent]
    BY SafeIsRecoverable, Zenon
  <2>2. e.stamp \in Nat /\ Latest(Recoverable)[e.agent] \in Nat
    <3>1. e.agent \in Agents /\ e.stamp \in 1..MaxStamp
      BY EntryType, Zenon DEF TypeOK
    <3>2. Latest(Recoverable)[e.agent] \in 0..MaxStamp
      BY <3>1, RecoverableIs, LatestIs, Zenon
    <3>3. QED
      BY <3>1, <3>2, PersistenceAssumption
  <2>3. QED
    BY <2>1, <2>2, Zenon
<1>2. Spec => []SafeInv
  BY SafeInvAlways, Zenon
<1>3. Spec => []SnapshotSound
  BY SoundAlways, Zenon
<1>4. QED
  BY <1>1, <1>2, <1>3, TypeCorrect, PTL

(* Adding an entry raises the agent's stamp to its own, or leaves it.      *)
LEMMA LatestAdd ==
  ASSUME NEW es, es \subseteq Entries, NEW e \in Entries
  PROVE  Latest(es \cup {e}) = Raised(Latest(es), e)
<1> DEFINE ds == es \cup {e}
<1>1. e.agent \in Agents /\ e.stamp \in Nat /\ ds \subseteq Entries
  BY EntryType
<1>2. Latest(es) \in [Agents -> Nat] /\ Latest(ds) \in [Agents -> Nat]
  BY <1>1, LatestType, PersistenceAssumption
<1>3. ASSUME NEW a \in Agents
      PROVE  Latest(ds)[a] = IF a = e.agent /\ e.stamp > Latest(es)[a]
                               THEN e.stamp ELSE Latest(es)[a]
  <2>1. /\ \A d \in es : d.agent = a => d.stamp <= Latest(es)[a]
        /\ Latest(es)[a] = 0 \/ \E d \in es : d.agent = a /\ d.stamp = Latest(es)[a]
    BY LatestIs, Zenon
  <2>2. /\ \A d \in ds : d.agent = a => d.stamp <= Latest(ds)[a]
        /\ Latest(ds)[a] = 0 \/ \E d \in ds : d.agent = a /\ d.stamp = Latest(ds)[a]
    BY <1>1, LatestIs, Zenon
  <2>3. Latest(es)[a] \in Nat /\ Latest(ds)[a] \in Nat /\ Latest(es)[a] <= Latest(ds)[a]
    <3>1. Latest(es)[a] \in Nat /\ Latest(ds)[a] \in Nat /\ es \subseteq ds
      BY <1>2, Zenon
    <3> HIDE DEF ds
    <3>2. QED
      BY <2>1, <2>2, <3>1
  <2>4. CASE a = e.agent
    <3>1. e.stamp <= Latest(ds)[a]
      BY <2>2, <2>4, Zenon
    <3>2. Latest(ds)[a] <= e.stamp \/ Latest(ds)[a] <= Latest(es)[a]
      BY <1>1, <2>1, <2>2, <2>3, <2>4
    <3>3. QED
      BY <1>1, <2>3, <2>4, <3>1, <3>2
  <2>5. CASE a # e.agent
    <3>1. Latest(ds)[a] = 0 => Latest(ds)[a] <= Latest(es)[a]
      BY <2>3
    <3>2. ASSUME NEW d \in ds, d.agent = a, d.stamp = Latest(ds)[a]
          PROVE  Latest(ds)[a] <= Latest(es)[a]
      <4>1. d \in es
        BY <2>5, <3>2, Zenon
      <4>2. QED
        BY <2>1, <3>2, <4>1, Zenon
    <3>3. Latest(ds)[a] <= Latest(es)[a]
      BY <2>2, <3>1, <3>2, Zenon
    <3>4. QED
      BY <2>3, <2>5, <3>3
  <2>6. QED
    BY <2>4, <2>5, Zenon
<1> HIDE DEF ds
<1>4. Latest(ds) = Raised(Latest(es), e)
  BY <1>1, <1>2, <1>3, Zenon DEF Raised
<1>5. QED
  BY <1>4, Zenon DEF ds

(* Without faults the log is undamaged, everything written is safe, and    *)
(* the registry has what is safe, but for the entry being appended.        *)
Faultless ==
  /\ walOpen <=> pc \in {"idle", "append", "appended"}
  /\ Undamaged(wal) /\ written = safe /\ snapshot \subseteq safe /\ acked \subseteq safe
  /\ pc \in {"idle", "appended", "snapshot", "renamed"} => mem = Latest(safe)
  /\ pc = "append" => \A e \in cur : mem = Raised(Latest(safe), e)
  /\ pc = "appended" => cur \subseteq safe

(* Recovery returns just what is safe.                                     *)
ViewOK == Latest(Recoverable) = Latest(safe)

(* This follows from the invariants: nothing safe is lost and nothing else *)
(* is returned.                                                            *)
LEMMA FaultlessView ==
  ASSUME TypeOK, LastWordsLogged, SafeInv, SnapshotSound, Faultless
  PROVE  ViewOK
<1>1. Replay(wal) \subseteq safe
  BY ReplayTyped DEF LastWordsLogged, Faultless
<1>2. Recoverable \subseteq safe /\ safe \subseteq Entries /\ Recoverable \subseteq Entries
  BY <1>1, RecoverableIs, Zenon DEF Faultless, TypeOK
<1>3. Latest(Recoverable) \in [Agents -> Nat] /\ Latest(safe) \in [Agents -> Nat]
  BY <1>2, LatestType, PersistenceAssumption
<1>4. ASSUME NEW a \in Agents
      PROVE  Latest(Recoverable)[a] = Latest(safe)[a]
  <2>1. Latest(Recoverable)[a] \in Nat /\ Latest(safe)[a] \in Nat
    BY <1>3, Zenon
  <2>2. Latest(Recoverable)[a] <= Latest(safe)[a]
    BY <1>2, <2>1, LatestIs
  <2>3. Latest(safe)[a] <= Latest(Recoverable)[a]
    <3>1. Latest(safe)[a] = 0 \/ \E e \in safe : e.agent = a /\ e.stamp = Latest(safe)[a]
      BY <1>2, LatestIs, Zenon
    <3>2. QED
      BY <2>1, <3>1, SafeIsRecoverable
  <2>4. QED
    BY <2>1, <2>2, <2>3
<1>5. QED
  BY <1>3, <1>4 DEF ViewOK

(* An empty log is undamaged.                                              *)
LEMMA UndamagedEmpty == Undamaged(<<>>)
<1>1. Len(<<>>) = 0 /\ 0 % EntrySize = 0 /\ 0 \div EntrySize = 0
  BY EntrySizeType
<1>2. 0..0 - 1 = {}
  OBVIOUS
<1>3. QED
  BY <1>1, <1>2, Zenon DEF Undamaged

(* Every step keeps Faultless when no fault happens.                       *)
LEMMA FaultlessStep ==
  ASSUME TypeOK, SafeInv, Faultless, ViewOK, Faults = {}, [Next]_vars
  PROVE  Faultless'
<1> USE DEF files
<1>1. /\ walOpen <=> pc \in {"idle", "append", "appended"}
      /\ Undamaged(wal) /\ written = safe /\ snapshot \subseteq safe /\ acked \subseteq safe
      /\ pc \in {"idle", "appended", "snapshot", "renamed"} => mem = Latest(safe)
  BY Zenon DEF Faultless
<1>2. OpenWal => walOpen' = TRUE
  BY Zenon DEF OpenWal
<1>3. CASE Recover
  BY <1>1, <1>2, <1>3, Zenon DEF Recover, Faultless, ViewOK
<1>4. ASSUME NEW e \in Entries, AppendEntry(e)
      PROVE  Faultless'
  <2>1. /\ mem = Latest(safe) /\ mem' = Raised(Latest(safe), e)
        /\ cur' = {e} /\ pc' = "append" /\ pc = "idle"
        /\ UNCHANGED <<wal, snapshot, walOpen, safe, written, acked>>
    BY <1>1, <1>4, Zenon DEF AppendEntry
  <2>2. QED
    BY <1>1, <2>1, Zenon DEF Faultless
<1>5. CASE Flush
  <2>1. PICK e \in cur : WriteWords(e, EntrySize) /\ written' = written \cup {e}
                         /\ safe' = safe \cup {e}
    BY <1>1, <1>5, Zenon DEF Flush
  <2>2. cur = {e} /\ e \in Entries /\ pc = "append" /\ pc' = "appended"
        /\ UNCHANGED <<cur, snapshot, walOpen, mem, acked>>
    BY <1>5, Zenon DEF Flush, SafeInv, CurKnown
  <2>3. Undamaged(wal')
    BY <1>1, <2>1, <2>2, UndamagedGrows, Zenon DEF WriteWords, TypeOK
  <2>4. mem' = Latest(safe')
    <3>1. mem = Raised(Latest(safe), e)
      BY <2>2, Zenon DEF Faultless
    <3>2. safe \subseteq Entries
      BY Zenon DEF TypeOK
    <3>3. Latest(safe \cup {e}) = Raised(Latest(safe), e)
      BY <2>2, <3>2, LatestAdd, Zenon
    <3>4. QED
      BY <2>1, <2>2, <3>1, <3>3, Zenon
  <2>5. QED
    BY <1>1, <2>1, <2>2, <2>3, <2>4, Zenon DEF Faultless
<1>6. CASE Return
  BY <1>1, <1>6, Zenon DEF Return, Faultless
<1>7. CASE CreateSnapshot
  BY <1>1, <1>7, Zenon DEF CreateSnapshot, Faultless
<1>8. CASE SnapshotNotOpened
  BY <1>8, Zenon DEF SnapshotNotOpened
<1>9. CASE SnapshotRename
  <2>1. /\ snapshot' = cur /\ pc = "snapshot" /\ pc' = "renamed"
        /\ cur = {e \in Entries : e.stamp = mem[e.agent]} /\ mem = Latest(safe)
        /\ UNCHANGED <<cur, wal, walOpen, mem, safe, written, acked>>
    BY <1>1, <1>9, Zenon DEF SnapshotRename, SafeInv, CurKnown
  <2>2. ASSUME NEW e \in cur
        PROVE  e \in safe
    <3>1. /\ e \in Entries /\ e.agent \in Agents /\ e.stamp \in 1..MaxStamp
          /\ e.stamp = Latest(safe)[e.agent] /\ safe \subseteq Entries
      BY <2>1, EntryType, Zenon DEF TypeOK
    <3>2. PICK d \in safe : d.agent = e.agent /\ d.stamp = e.stamp
      BY <3>1, LatestIs
    <3>3. d = e
      BY <3>1, <3>2, EntryType, Zenon
    <3>4. QED
      BY <3>3, Zenon
  <2>3. QED
    BY <1>1, <2>1, <2>2, Zenon DEF Faultless
<1>10. CASE SnapshotTruncate
  <2>1. wal' = <<>> /\ walOpen' = TRUE /\ pc = "renamed" /\ pc' = "idle" /\ cur' = {}
        /\ UNCHANGED <<snapshot, mem, safe, written, acked>>
    BY <1>2, <1>10, Zenon DEF SnapshotTruncate
  <2>2. Undamaged(<<>>)
    BY UndamagedEmpty, Zenon
  <2>3. Undamaged(wal')
    BY <2>1, <2>2, Zenon
  <2>4. QED
    BY <1>1, <2>1, <2>3, Zenon DEF Faultless
<1>11. CASE Crash
  <2>1. UNCHANGED <<wal, snapshot, safe, written, acked>> /\ pc' = "down" /\ walOpen' = FALSE
    BY <1>11, Zenon DEF Crash
  <2>2. QED
    BY <1>1, <2>1, Zenon DEF Faultless
<1>12. CASE UNCHANGED vars
  BY <1>12, Zenon DEF vars, Faultless
<1>13. QED
  BY <1>3, <1>4, <1>5, <1>6, <1>7, <1>8, <1>9, <1>10, <1>11, <1>12, Zenon DEF Next

(* Each step of the file layer is a step of the store or leaves it as it   *)
(* is: the append takes effect in Flush, is returned in Return, and        *)
(* neither a rotation of the log nor a crash changes anything.             *)
LEMMA StoreStep ==
  ASSUME TypeOK, SafeInv, Faultless, ViewOK, ViewOK', Faults = {}, [Next]_vars
  PROVE  [Store!Next]_<<Latest(Recoverable), acked>>
<1> USE DEF files
<1>1. Latest(Recoverable) = Latest(safe) /\ Latest(Recoverable)' = Latest(safe')
  BY Zenon DEF ViewOK
<1>2. safe \subseteq Entries
  BY Zenon DEF TypeOK
<1>3. CASE Flush
  <2>1. PICK e \in cur : safe' = safe \cup {e}
    BY <1>3, Zenon DEF Flush, Faultless
  <2>2. e \in Entries /\ acked' = acked
    BY <1>3, Zenon DEF Flush, TypeOK
  <2>3. Latest(safe') = Raised(Latest(safe), e)
    BY <1>2, <2>1, <2>2, LatestAdd, Zenon
  <2>4. /\ e.agent \in Agents /\ e.stamp \in 1..MaxStamp
        /\ Latest(safe) \in [Agents -> 0..MaxStamp]
    BY <1>2, <2>2, EntryType, LatestType, Zenon
  <2>5. CASE ~(e.stamp > Latest(safe)[e.agent])
    <3>1. Latest(safe') = Latest(safe)
      BY <2>3, <2>4, <2>5, Zenon DEF Raised
    <3>2. QED
      BY <1>1, <2>2, <3>1, Zenon
  <2>6. CASE e.stamp > Latest(safe)[e.agent]
    <3>1. Latest(safe') = [Latest(safe) EXCEPT ![e.agent] = e.stamp]
      BY <2>3, <2>4, <2>6, Zenon DEF Raised
    <3>2. Store!Commit(e.agent, e.stamp)
      BY <1>1, <2>2, <2>6, <3>1, Zenon DEF Store!Commit
    <3>3. QED
      BY <2>4, <3>2, Zenon DEF Store!Next
  <2>7. QED
    BY <2>5, <2>6, Zenon
<1>4. CASE Return
  <2>1. PICK e \in Entries : cur = {e}
    BY <1>4, Zenon DEF Return, SafeInv, CurKnown
  <2>2. e \in safe /\ safe' = safe /\ acked' = acked \cup {e}
    BY <1>4, <2>1, Zenon DEF Return, Faultless
  <2>3. e.agent \in Agents /\ e.stamp \in 1..MaxStamp /\ e = [agent |-> e.agent, stamp |-> e.stamp]
    BY EntryType, Zenon
  <2>4. e.stamp <= Latest(safe)[e.agent]
    BY <1>2, <2>2, <2>3, LatestIs, Zenon
  <2>5. Store!Ack(e.agent, e.stamp)
    BY <1>1, <2>2, <2>3, <2>4, Zenon DEF Store!Ack
  <2>6. QED
    BY <2>3, <2>5, Zenon DEF Store!Next
<1>5. CASE UNCHANGED <<safe, acked>>
  BY <1>1, <1>5, Zenon
<1>6. QED
  <2>1. ~Flush /\ ~Return => UNCHANGED <<safe, acked>>
    BY Zenon DEF Next, Recover, AppendEntry, CreateSnapshot, SnapshotNotOpened, SnapshotRename,
         SnapshotTruncate, Crash, vars
  <2>2. QED
    BY <1>3, <1>4, <1>5, <2>1, Zenon

(* Without faults, Faultless holds and recovery returns what is safe.      *)
LEMMA FaultlessAlways ==
  ASSUME Faults = {}, SnapshotsUsable
  PROVE  Spec => [](SafeInv /\ SnapshotSound /\ Faultless /\ ViewOK)
<1>1. Init => Faultless
  <2>1. Undamaged(<<>>)
    BY UndamagedEmpty, Zenon
  <2>2. QED
    BY <2>1, Zenon DEF Init, Faultless
<1>2. TypeOK /\ LastWordsLogged /\ SafeInv /\ SnapshotSound /\ Faultless => ViewOK
  BY FaultlessView, Zenon
<1>3. TypeOK /\ SafeInv /\ Faultless /\ ViewOK /\ [Next]_vars => Faultless'
  BY FaultlessStep, Zenon
<1>4. Spec => []LastWordsLogged
  BY LoggedAlways, Zenon
<1>5. Spec => []SafeInv
  BY SafeInvAlways, Zenon
<1>6. Spec => []SnapshotSound
  BY SoundAlways, Zenon
<1>7. QED
  BY <1>1, <1>2, <1>3, <1>4, <1>5, <1>6, TypeCorrect, PTL DEF Spec

(* Without faults the files implement the durable store DurableStore: an   *)
(* append takes effect at one instant before append_entry() returns, and a *)
(* crash at any point of an append, a snapshot or a recovery loses and     *)
(* invents nothing.                                                        *)
THEOREM FilesImplementStore ==
  ASSUME Faults = {}, SnapshotsUsable
  PROVE  Spec => StoreImplemented
<1>1. Init => Store!Init
  <2> SUFFICES ASSUME Init
               PROVE  Store!Init
    BY Zenon
  <2>1. TypeOK /\ LastWordsLogged
    BY TypeInit, LoggedInit, Zenon
  <2>2. Replay(wal) = {} /\ snapshot = {} /\ acked = {}
    BY <2>1, ReplayTyped, Zenon DEF LastWordsLogged, LastWords, Init
  <2>3. Recoverable = {}
    BY <2>1, <2>2, RecoverableIs, Zenon
  <2>4. Latest({}) = [a \in Agents |-> 0]
    <3>1. \A a \in Agents : Latest({})[a] = 0
      BY LatestIs, Zenon
    <3>2. Latest({}) \in [Agents -> 0..MaxStamp]
      BY LatestType, Zenon
    <3>3. QED
      BY <3>1, <3>2, Zenon
  <2>5. QED
    BY <2>2, <2>3, <2>4, Zenon DEF Store!Init
<1>2. /\ TypeOK /\ SafeInv /\ Faultless /\ ViewOK /\ ViewOK' /\ [Next]_vars
      => [Store!Next]_<<Latest(Recoverable), acked>>
  BY StoreStep, Zenon
<1>3. Spec => [](SafeInv /\ SnapshotSound /\ Faultless /\ ViewOK)
  BY FaultlessAlways, Zenon
<1>4. QED
  BY <1>1, <1>2, <1>3, TypeCorrect, PTL DEF Spec, StoreImplemented, Store!Spec

(* Where the README's claim holds: if no write tears or fails, every       *)
(* append that returned is recovered, at its stamp or a later one, after   *)
(* crashes anywhere in appends, rotations and recoveries.  persist_tail    *)
(* shows it to fail with a torn write.                                     *)
THEOREM DurableWithoutFaults ==
  ASSUME Faults = {}, SnapshotsUsable
  PROVE  Spec => []Durable
<1>1. Faultless /\ SafeSurvives => Durable
  BY Zenon DEF Faultless, SafeSurvives, Durable
<1>2. Spec => []Faultless
  <2>1. Spec => [](SafeInv /\ SnapshotSound /\ Faultless /\ ViewOK)
    BY FaultlessAlways, Zenon
  <2>2. QED
    BY <2>1, PTL
<1>3. Spec => []SafeSurvives
  BY SafeEntriesSurvive, Zenon
<1>4. QED
  BY <1>1, <1>2, <1>3, PTL

=============================================================================
