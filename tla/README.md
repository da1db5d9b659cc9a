# BeaconNode in TLA+

Models, model checks and proofs of BeaconNode: a registry of agents that each
engine keeps in memory and in a write-ahead log, that agents change through a
control port, and that engines synchronise by gossip.

## The system

| part | what it does | modelled in |
|---|---|---|
| agent registry (`beacon/agent_registry`) | vector of records under a mutex: upsert, heartbeat, merge, purge, select by revision, load | `AgentRegistry`, used by `Engine` and `GossipSync` |
| records, signatures (`beacon/types.hpp`, `crypto`) | fields, canonical payload, status of a signature, hexadecimal texts | `AgentRecord` |
| trust store (`beacon/identity_service`) | first key seen for an agent is pinned | `IdentityService` |
| control protocol (`beacon/control_protocol`, `control_protobuf`) | REGISTER, MERGE, HEARTBEAT, STATS, LIST, SYNC_PULL as lines or frames | `Engine` (what requests do), `ControlServer` (how they are served) |
| engine (`beacon_engine/main.cpp`) | recovers the log, loads the identity, starts the threads, purges | `Engine`, `Node`, `Lifecycle` |
| persistence (`beacon_net/persistence_service`) | log and snapshot files | `Persistence`, which implements `DurableStore` |
| synchronisation (`beacon_net/sync_client`, `gossip_service`, `beacon/registry_sync`) | rounds of push and pull with random peers | `GossipSync` (what is exchanged), `GossipService` (its thread and connections) |
| expiry (`main.cpp`, `sync_client`, `control_protocol`) | times to live given by registrations, heartbeats, pulls and pushes, and purges | `Lifecycle` (several engines), `Engine` (one) |
| control server (`beacon_net/control_server`) | one thread, one connection at a time | `ControlServer` |
| framing (`beacon/framing`) | header of nine bytes and a payload | `Framing` |
| UDP responder (`beacon_net/udp_handshake_responder`) | answers hellos | `UdpHandshakeResponder` |
| handshake texts (`beacon/peer_handshake`) | hello and welcome | `PeerHandshake` |
| identity store (`beacon/identity_store`) | key file and identity file | `IdentityStore` |

### Not modelled

* The secure buffer: locking and wiping memory has no counterpart in a state
  machine; `constant_time_equals` is equality of keys in `IdentityService`.
* The reputation counters: nothing in the engine calls `record_malformed`.
* The gossip scheduler: its result is only counted and printed.
* The configuration: default values, constants here; the file is never loaded.
* The tokenizer of the line protocol, the texts of answers, LIST (reads only),
  `describe_frame_kind`, path resolution and file permissions: wording and
  checks of the environment that no modelled state depends on.
* `forget_key` and `check_key_consistency` of the trust store: no caller.
* Of the Python SDK, the protobuf messages, `sync.py` and its key files; its
  connections and its hello are modelled as clients.
* The churn simulation, which is itself a model.

## Modules

**AgentRegistry** has the registry's operations as operators on a set of
records. Each runs under `mutex_`, so each is one step of whatever thread calls
it. That an agent has one record is not built in; it is proved.
`EntriesAfterRevision` is the *set* of possible results, because the unstable
sort leaves open which of several equal revisions a limit keeps.

**AgentRecord** and **IdentityService** add keys, signatures and the on-disk
form. A key is a text; `Canonical` is what decoding and encoding it again makes
of it (another spelling of the same key, or the empty text if it is not
hexadecimal). A signature is the key and payload it was made for, so that a
changed revision invalidates it.

**Engine** is one process with its restarts. The control thread serves a
request in steps `CtlRegister` (parse, check the signature), `CtlUpsert`,
`CtlAppend` (the callback, after the registry's lock was released) and
`CtlFinish` (pin the key, answer); a heartbeat is `CtlHeartbeat`, `CtlRefresh`.
The gossip thread goes through a pulled batch with `GossipVerify`,
`GossipUpsert`, `GossipAppend`. The main thread recovers (`Start`, `Load` for
each entry, `StartThreads`) and purges. `Crash` can come between any two steps.
`acked` and `deadline` are history variables: what was answered OK, and until
when an agent was promised to be listed. The log is a sequence of whole entries;
the files are the subject of `Persistence`.

**GossipSync** is several engines. A round is `StartRound`, then for each peer
`Begin` (read the local revision), `Stats`, `Pull`, `Merge` for each record,
`Plan`, `Push` for each record, `Done`. Each request is a connection of its own,
so everything else interleaves between them. `Fail` is an exception. An answer
that ends early is taken for a complete one: `StatsCut` may lose digits of the
revision, `PullCut` the last lines, and `PullCutInLine` ends within a line, of
which `CutLine` says what the parser makes: the last field that arrives can be
shorter than it was (of a number, a prefix of its digits in base `Radix`) and the
fields after it are empty. `MergePartial` merges such a record like any other;
`PushRefused` is a MERGE without endpoint, which the peer refuses. `intact` is a
history variable: no line was cut so far. The fleet is unsigned and time stands
still. The UDP heartbeat sent before each synchronisation
changes nothing at the receiver: `decode_peer_hello` rejects it.

**Persistence** has the log as a sequence of words (size, checksum, payload),
so that a torn entry and a misaligned reader can be expressed: `misread` is what
a word that is not a size reads as when it is taken for one, chosen once for a
behaviour, and a size above `MaxEntrySize` is implausible. Which faults happen
(`tear`, `full`, `rename`, `open`) is a constant. Appends come in any order of
stamps, because the registry calls back after it has released its lock.
**DurableStore** says what the registry relies on: a stamp becomes durable at
one instant, before its append returns, and is never lost. `create_snapshot` is
called by the tests but not by the engine.

**Lifecycle** superposes time on `GossipSync`. A record has a time to live on
each node, in units of `purge_interval`; `Register`, `Beat`, `TimedMerge` and
`TimedPush` set it as the code does, `Purge` is the main loop and `Tick` lets a
unit pass once every loop has done its part of it. Times run down to 0 and stay
there, so behaviours are infinite and states are not. Exchanges do not fail
here, and no answer is cut off.

**Framing** has encoder, decoder and length on sequences of bytes, with the
shifts of the code as arithmetic on bytes.

**ControlServer** and **UdpHandshakeResponder** are two worker threads with the
owner that starts and stops them. A step is what happens between two blocking
calls or two looks at `stopping_`. A request is its bytes and arrives in
segments (`Cuts`); a client connects again when its last connection is over. A
datagram is its sender and its text, a sequence of the tokens that
`split_tokens` finds (**PeerHandshake**). `stop()` wakes the worker with a
connection or datagram of its own and ignores it if that fails (`WakeFails`).

**GossipService** puts the worker of a gossip service in front of a peer's
`ControlServer`, as one of its clients: `Schedule`, `TimerFires`, then
`SendCommand` and `Answered` for each command. Its `stop()` (`GStop`, `GJoin`)
interrupts nothing.

**IdentityStore** is `load_or_create` over its two files: `Load`, or `Generate`,
`OpenKey`, `WriteKey`, `OpenConfig`, `WriteConfig`. Opening truncates, and a
death (`Die`) can come between any two steps; `WriteFails` is an open or a write
that fails unnoticed. **Node** composes it with the responder: one process that
starts, loads its identity, serves and dies (`Crash`, which is `Die` and
`Killed` in one step).

`MC*` modules give the constants their values. Operators next to a definition
whose names describe a defect (`UpsertAppends`, `WakeSkipped`, ...) are mutated
forms of that definition: PROJECT.json says which run must fail with each.

## Runs

| run | shows |
|---|---|
| `engine` | `OneRecordPerAgent`; `RegistryBackedByLog` (what is listed is logged or about to be); `RecoveryCoversAcked` (a restart forgets no acknowledged registration of positive revision); `MergeRespectsPin` (a signed record that gossip upserts has the pinned key); `ListedAsSigned` (nothing is listed under a signature that does not cover its agent, endpoint and key); `HeartbeatHonoured` (an agent stays listed as long as it was promised) |
| `sync_relay` | `NeverGoesBack`, whatever arrives; and, unless an answer was cut within a line, `NoGaps` (a node that reached a revision has all records up to it), `EqualRevisionsEqualRecords` (one that reached the registrar's highest has its records and no others) and `EventualConsistency`, through a relay |
| `persist_store` | `StoreImplemented`: the files implement `DurableStore`, rotations included; `Durable` (what was appended is recovered), without faults |
| `persist_faults` | under all faults, `RecoversOnlyWritten` (replay invents nothing) and `SafeSurvives` (damage costs nothing logged before it) |
| `server_stop` | `WakeUpNotLost`; `NobodyWaitsInVain` (an open connection is being served or in the queue of a running server); `StopReturns` (unless its own connection failed and nobody else makes one); `ClientsFinish`; `GossipStops` (also the gossip service's `stop()` returns, though its reads have no timeout); `FramesAreServedAsFrames`, when headers arrive whole |
| `node` | `WakeUpNotLost`, `OnlyHellosAnswered`, `StopReturns` of the responder (with the same exception for its datagram); `IdentityStable`, `KeysMatch`, `NeverRefused` of the identity, across deaths at any step |
| `lifecycle` | `LiveAgentsStayListed` (no node drops an agent whose heartbeats continue); `SpreadsInTime` (and every node gets it within two units) |

The type invariants also say which variables are in use at which point of a
thread.

### Where the code differs from what is documented

These runs end in a counterexample; PROJECT.json quotes the document.

| run | behaviour |
|---|---|
| `engine_expired` | an agent with several log entries is recovered already expired and purged at once (`load_from_persistence` sets the expiry, then overwrites the record) |
| `sync_two_writers` | an agent registered below another engine's highest revision is never synchronised |
| `persist_tail` | the entry appended behind a torn tail is lost |
| `server_frames` | a frame whose header arrives in two parts is answered as a line |
| `lifecycle_stopped` | two engines list a stopped agent for ever: a pull gives the record a fresh minute and a push a fresh heartbeat TTL, so that whichever node purged it gets it back |

The models show more of the kind, without a run of their own:

* With an unchanged revision, which is what the SDK's `heartbeat()` sends by
  default, a heartbeat prolongs an agent only at the engine it reaches. The
  others are never sent the record again and purge it while it lives
  (`LiveAgentsStayListed` fails in `Lifecycle` with `Rising = FALSE`).
* A pull whose answer ends within a line, behind the revision, leaves a record
  without metadata at its full revision. It is not fetched again until the agent
  registers or sends a heartbeat with a higher revision, or the record expires, and
  can be pushed on.
  Cut before the revision it has revision 0 and may lack its endpoint or carry
  only the beginning of the agent's id; a record under such an id stays until it
  expires (`sync_client.cpp:57`, `CutLine`; `NoGaps` fails without `intact`).
* If the connection with which `stop()` wakes the worker fails, `stop()` waits
  until somebody else connects (`control_server.cpp:94`,
  `udp_handshake_responder.cpp:45`, `Hung`).
* `require_signatures` does not apply to pulled records (`agent_registry.cpp:57`,
  `GossipVerify`), although docs/deployment.md says it rejects unsigned gossip
  merges.
* Purges are not logged, so a restart lists purged agents again, for a year.
* An engine that dies while it writes its identity file runs under an identity
  without name and key from then on (`Load` takes the empty values);
  `IdentityStable` and `KeysMatch` allow for that.
* An acknowledged registration of revision 0 is logged and not recovered
  (`persistence_service.cpp:250`, `Load`), although Blueprint.txt says the
  registry survives crashes.
* Of two records of equal revision the later wins in `upsert` and the earlier in
  `load_from_persistence` (`agent_registry.cpp:135`, `LoadRecord`);
  docs/protocol.md has "newer or equal revisions replace older local records".
* A heartbeat with a higher revision leaves a signature that does not verify
  (`agent_registry.cpp:48`, `CtlRefresh`), and peers refuse the record.
* `Durable` also fails with `Faults = {"rename"}` (a failed rename still truncates
  the log, `persistence_service.cpp:148`) and with `AboveSnapshot = FALSE` (after a
  snapshot, entries up to the highest revision of *any* agent are dropped,
  `persistence_service.cpp:250`). The engine takes no snapshots yet.

### Bounds

*Engine.* Two log entries and batches of two let both threads append in either
order before a crash, with equal and higher revisions, two keys, an upper-case
spelling of one and a malformed text in conflict, and a signature that was made
for another endpoint. TTLs of 1 and 2 and one tick allow a promise, a batch that
is pulled before it and merged after it, an expiry and a purge. One agent is enough
because every operation concerns a single agent; the proofs cover any number.

*GossipSync.* Two revisions over two agents and three engines: two that are each
other's seed and a third that only the second visits, so that what it has came
through a relay. At most one record per exchange, so that a cursor moves with
records left behind, and one failure or cut-off answer, also within a line: the
id of one agent is the beginning of the other's, and in base 2 the revision 2 can
be cut to 1. Larger batches, more engines and other seed lists are covered by
the proofs of `NoGaps`, `EqualRevisionsEqualRecords` and `NeverGoesBack`. `EventualConsistency` presumes that
registrations end, which the bound on revisions ensures. No state constraint is
used.

*Persistence.* Two agents, payloads of two words, three or four appends, up to
two rotations. `Misreads` holds the sizes that behave differently: 0 (which reads on
behind the header), that of a payload, one larger than an entry and one above
`MaxEntrySize`; without faults none is ever used. Agents are interchangeable, and `persist_faults` uses this
symmetry.

*Servers.* A gossip service that sends lines and a client that sends a frame with
a newline in it and gives up, each any number of times; two starts and one
failure of bind, accept or the wake-up. *Node:* two peers, hellos with a good port and one
out of range, a buffer of one datagram and two datagrams, so that the wake-up
competes for the buffer; three starts of the process, two names and one failed
write. When no calls are left a stopped server has nothing to do, so deadlock is
not checked there.

*Lifecycle.* Two engines, one seeded with the other, so that one record travels
by pull and back by push; two agents, answers of at most two records and four
revisions. The TTLs are 2 and 3
units instead of the 3 and 6 of the defaults: less slack, and reached within the
bound on revisions. When the revisions are used up live agents can send no more
heartbeats and time stops, so deadlock is not checked. `lifecycle_stopped` has
the default TTLs.

### Fairness

`GossipSync`, `Lifecycle`: weak fairness of each node's gossip thread (its timer fires every
two seconds and its exchanges end). No fairness of failures, which are bounded.
`Lifecycle` adds time, purges and the heartbeats of live agents.
`ControlServer`: weak fairness of the worker, of a `stop()` that has begun, of a
client's sending (`sendall`, `write` send everything), and of the timeout of
clients that have one. A client that connects and never sends would block the
worker and `stop()`: the code sets no timeout, and `StopReturns` and
`ClientsFinish` rest on this assumption. `GossipService`: its worker, whose timer
always expires. `Node`: the responder's worker and a `stop()` that has begun.

### Assumptions to know about

* `HeartbeatHonoured` needs a pulled batch to be merged within `MergeBound`, with
  `HeartbeatTTL + MergeBound <= PullTTL`. With the defaults (30 s and 60 s) this
  allows 30 s, which the code does not enforce.
* `NoGaps`, `EqualRevisionsEqualRecords` and `EventualConsistency` need one registering engine and revisions
  never used before, which `sync_two_writers` shows, and no answer cut within a
  line.
* The persistence runs need `AboveSnapshot`: an agent's stamps exceed those that
  other agents have in the snapshot. The proofs need it, and that the agents fit
  into a snapshot that `recover()` accepts, only if snapshots are taken
  (`SnapshotsUsable`); the engine takes none, which is `MaxSnapshots = 0`.
* `SafeSurvives` exempts a snapshot that was not written or renamed, see above.
* `LiveAgentsStayListed` and `SpreadsInTime` need one registering engine,
  revisions never used before (`Fresh`), heartbeats that raise the revision
  (`Rising`; the SDK's do not by default, `client.py:53`), one in each
  `purge_interval`, rounds that complete in it, and no more agents than one answer
  carries.
* `FramesAreServedAsFrames` needs the nine bytes of a header in one segment, as
  one small `sendall` usually gives; `server_frames` shows what happens otherwise.
* One engine uses a directory, and a process that dies loses nothing it has
  written (a power failure could: the identity files are not synced).
* `StopReturns` is unconditional for a `stop()` whose own connection or datagram
  goes out; otherwise it excludes `Hung`.
* Datagrams that begin like a hello were made by `encode_peer_hello` or the SDK.
* Checksums do not collide, fsync does what it says, and the build has protobuf
  (without it there is no log and frames are refused).

## Proofs

TLAPS checks these for every value of the constants that satisfies the named
assumptions of the modules (`RecordAssumption`, `EngineAssumption`,
`SyncAssumption`, `LifecycleAssumption`, `PersistenceAssumption`,
`ServerAssumption`, `GossipAssumption`, `ResponderAssumption`,
`IdentityAssumption`) and the hypotheses named below. Every invariant and action
property of a passing run has a theorem.

**EngineProofs.** `TypeCorrect`, then six safety theorems. `UniqueRecords` is
inductive relative to types. `LogBacksRegistry`: a record is listed only by a
thread that then stands before its append, so the entry moves from pending to
logged; a heartbeat only raises the revision; while recovery loads, records come
from the log itself. `RecoveryIsComplete` needs a strengthening that follows an
acknowledgement: acknowledged implies logged, and after loading the first
`loadIx - 1` entries each of them is covered by a listed record of at least its
revision. `PinIsRespected`: a pinned key is not changed while the process lives,
and between check and upsert the pin is the record's own. `HeartbeatIsHonoured`
(if `HeartbeatTTL + MergeBound <= PullTTL`) strengthens the promise to the
record's expiry: the listed record expires no earlier than the promise, and every
record waiting in a batch expires no earlier than any promise that can be
outstanding when it is merged.

`ListedRecordsAreSigned` is about records that are checked once and then copied
and rebuilt. `GenuineInv` says that a key and a signature that are both present
agree in every place where a checked record can be: the registry, the log, and
what either thread has checked and not yet upserted or appended. The on-disk form
rewrites the key in its canonical spelling and drops the metadata, and a heartbeat
changes the revision; neither touches what the signature is about
(`RecoveredIsGenuine`, `RaisedIsGenuine`).

**GossipSyncProofs.** `TypeCorrect`; `RevisionsNeverGoBack`; and, if
`Registrars = {w}` and `Fresh`, `CursorIsSound` and `CaughtUpIsEqual`, for any
number of nodes, seed lists, limits and failures, as long as no line was cut. The
invariant `GapInv` says
that every held record is at or below the registrar's for its agent, that two
held records of one revision are the same, and that every record is closed:
whatever the registrar has up to its revision is in the same registry or, for a
record in flight, in its target or still in the batch before it. Delivery in
ascending order and the cursors `local` and `remote`, which never exceed what
their registry has reached, keep it inductive. It is stated for a set of agents,
so that `LifecycleProofs` can use it for the live ones.

**LifecycleProofs.** `TimedTypeCorrect`; and for a fleet around one node
(`Hub(w)`: agents register with `w` and raise their revisions, all others have
`w` among their seeds and visit all of these in a round, there are no more agents
than one answer may carry or it has no limit, pulled records last three purge
intervals, pushed ones too or only `w` is pushed to)
`LiveAgentsAreKept` and `RegistrationsSpread`, which are `LiveAgentsStayListed`
and `SpreadsInTime` with a `SpreadTime` of two or more. The default TTLs, three
and six intervals, satisfy `Hub`, and so does the default limit of 256 records
for up to 256 agents (`config.hpp:21`); the SDK's default heartbeat does not
(`Rising`). `AnswerIsWhole` shows that the limit then cuts nothing off: the
records of a registry are distinct agents, so there are at most as many. The
invariant `LifeInv` has three parts.
`LiveGapInv` is `GapInv` for the live agents: those that stopped may be purged
and leave gaps. `HomeInv` says that at `w` a live agent has time left, more after
this unit's heartbeat, and that pulled records on their way have enough.
`NodeInv` says of every other node what its visit to `w` does: before the visit
what it lists has time left; after it, it has the record of `w` (`Current`), or
one that lasts until the next visit if the heartbeat of this unit came after the
pull (`Kept`); in between, the record is in its batch (`Coming`).
`Tick` and `Purge` preserve this because a unit ends only when every round is
done.

**ReplayProofs, PersistenceProofs.** `Replay` reads the log by a recursive
function, so its facts need induction over the position. `RunUnfolds` shows that
the function exists and is the fixed point of its body, and the facts about it
go by least counterexample (`LeastNat`), which needs no operator as parameter:
what replay takes was checked against a last word that is in the log
(`RunChecked`), and it takes every entry whose block starts where the blocks
before it end (`RunTakesStarts`), whatever follows. From these: `OnlyWritten`,
with the invariant that the last word of a payload is in the log only if the
whole entry was (`LastWordsLogged`); `SafeEntriesSurvive`, where `SafeInv` says
that each safe entry is covered by the snapshot or is above it and starts a block
of the log's undamaged beginning, and that the snapshot being written has it too;
`FilesImplementStore`, the refinement of `DurableStore`, step by step; and
`DurableWithoutFaults`, the documented durability. The last two are for
`Faults = {}`, where the whole log is undamaged (`Faultless`); `persist_tail`
shows that a torn write alone refutes the last. The last three are for
`SnapshotsUsable`.

**ControlServerProofs**, **UdpHandshakeResponderProofs.** `TypeCorrect` and
`WakeUpIsNotLost`. `WakeUpNotLost` becomes inductive with what surrounds it: a
`stop()` in progress has set the flag (so a worker cannot go back to blocking),
nothing waits at a closed port, and the waking connection exists only while
`stop()` joins. A `stop()` that could not make it is in another state
(`"unwoken"`), about which the theorem says nothing.

`WholeHeadersAreServed` (if `HeadersArriveWhole`) rests on `FrameRoundTrip`: for
every payload shorter than 2^32 bytes `decode_frame` inverts `encode_frame`, and
the length that the server computes from the header is the frame's. Its invariant
`FrameInv` says that a frame is never handled as a line, since whatever has
arrived of it includes the header. `HellosAreAnsweredOnce` counts: the welcomes of
a peer, the proper hellos of it in the buffer and the one being answered are
together at most the hellos it sent; a full buffer, a closed port and a death only
lose some.

`WaitsAreServed` is the safety half of `ClientsFinish` and `GossipStops`: an open
connection is in the server's hands (`HeldInv`), because whenever the worker
leaves its loop it closes the acceptor and with it all that queued there; and a
gossip worker that waits has made its connection, in a round with commands left
(`RoundInv`). That the server then gets to it is fairness, and model-checked.

**IdentityStoreProofs.** `OneIdentity`, `KeysAlwaysMatch`,
`StartsAreNeverRefused`. The invariant says that the config file commits: until
it exists nothing was returned, the key file is complete before it is created,
and afterwards neither file is written by a later start.

`LinkUsesServer`, `NodeUsesStore` and `NodeUsesResponder` show that the composed
specifications use their components as these specify. `LinkIsSafe` and
`NodeIsSafe` state what follows: the safety properties of all components hold
together in the composition.

Only model-checked: liveness (`EventualConsistency`, `StopReturns`,
`ClientsFinish`, `GossipStops`), which rests on fairness and is beyond the
prover. What is not covered by a theorem on the safety side is what its
hypotheses leave out: several registrars, torn writes and headers in several
parts, for which the violation runs show what can happen, and fleets other than
`Hub`.
