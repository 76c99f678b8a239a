# TLA+ models of distr-hnsw

distr-hnsw is a self-hosted store: files are cut into encrypted,
content-addressed objects, replicated on agents in different failure domains,
and projected into one SQLite database by portal processes. A vector engine
keeps partitions with a write-ahead log, snapshots and an HNSW graph. This
directory models the parts whose correctness depends on order, failure and
concurrency, model-checks them with TLC and proves the central results with
TLAPS.

## 1. The system and its parts

| Component | State | Operations | Modules |
|---|---|---|---|
| Commit spine (`portal.rs`, transactions of `metadata.rs`) | uploads, chunks, delete operations, files, placements, incarnations; per process the verified incarnations and the call in progress | upload, delete, download | `CommitSpine`, `FileLifecycle` |
| Agent store (`durability.rs`, `agent.rs`) | one volume: identity, objects, directories, used bytes | put, delete, inventory, admission, first open | `AgentStore` |
| Recovery (`recovery.rs`) | evidence on the agents, files, recovery_pending | `recover --apply` | `Recovery` |
| Garbage collection (`lifecycle.rs`) | gc_proofs, scans, placements | plan, derive again, apply | `GarbageCollection` |
| Maintenance (`reconcile.rs`, `lifecycle.rs`) | placements in every state, object health | scrub, repair, drain, retire | `Maintenance` |
| Job leases (`metadata.rs`) | lease files and locks, job and scan rows | open, close, interrupt the jobs of the dead | `JobLeases` |
| Schema (`metadata.rs`) | version, columns, tables | open from any older version | `SchemaMigration` |
| Backup, restore (`backup.rs`) | target objects, snapshots, verified rows | backup job, restore metadata, restore objects | `Backup` |
| Index archive (`index_archive.rs`) | index_archives rows, portal files, local directory | archive, truncate, restore | `IndexArchive` |
| Keys and trust (`grant.rs`, `trust.rs`, `access.rs`, `agent_client.rs`) | signing keys, epochs, key-set versions, tokens; the agent's stored trust | rotate, retire, revoke, join, push, reset | `KeyTrust` |
| Portal service (`portal_server.rs`, `auth.rs`, `metadata/identity.rs`) | users, sessions, keys, audit log; slots, permits, spool, queue; rate buckets | login, request, revoke; upload, download, delete | `PortalAccess`, `PortalQueue`, `PeerLimiter` |
| Network edges (`tls.rs`, `tailscale.rs`) | bound address; certificate, sleep, backoff | bind, watch; obtain, maintain, read dates | `TailnetBind`, `CertificateUpkeep`, `CertificateTime` |
| Partition (`partition.rs`, `wal.rs`, `snapshot.rs`) | segments, snapshots, live records, window; keys, slots, tombstones | upsert, delete, snapshot, truncate, compact, open | `PartitionLog`, `SlotTable`, `RecordMap` |
| HNSW graph (`hnsw.rs`) | neighbour lists, levels, entry, tombstones | insert, search, filtered search, parallel build | `HnswLinks`, `HnswGraph`, `ParallelBuild` |

How they interact: every portal process (the serving worker and each command)
opens the same SQLite file. A transaction is atomic, but a call makes many of
them and awaits agents in between; no lock spans a call. Agents know nothing of
files; they answer PUT, GET, DELETE, inventory and health. Recovery, garbage
collection, maintenance and backup are further commands on the same database
and the same agents. The partition engine shares no state with the blob plane
except through the index archive. `portal serve` puts one worker, fed by a
bounded queue, between its HTTP handlers and the portal.

What is hard: calls that interleave in the database; state read before an await
and used after it; volumes that vanish or are swapped under an agent's name;
lost answers; processes that die between two transactions; retries under one
key from two processes; power loss between a write and its sync; threads that
write one another's lists. PROJECT.json lists these hazards at their lines.

A module that needs the effect of another part without its steps takes it in
one step and says so in its head: `GarbageCollection`, `Recovery`,
`Maintenance` and `Backup` contain the upload and the delete of `CommitSpine`
with their loops folded.

## 2. The modules

One action is one database transaction (or statement outside of one), one
request to an agent, one file operation, or one critical section, whichever is
the unit the code cannot be interrupted in. The head of each module states its
abstractions; PROJECT.json maps each definition to its lines.

### CommitSpine, FileLifecycle

The call in progress is a program counter `pc`, the local variables of the code
(`req`), the object being replicated or read back (`obj`) and the agent the loop
has reached (`at`); `inc` is `Portal::incarnations`, which outlives a call but
not the process.

| Code | Actions |
|---|---|
| `Portal::upload`, first read | `StartUpload` |
| `Portal::delete`, first reads; `create_delete_operation` | `StartDelete`, `CreateDelete` |
| `verify_remote_agents`, `observe_agent_incarnation` | `VerifyAgent`, `VerifyRefused`, `VerifyUnreachable`, `VerifyDone` |
| `create_upload` and the reload after it | `PlanUpload`, `ReloadUpload` |
| admission and the SELECT of `advance_upload`; its UPDATE | `AdmitUpload`, `AdmissionRefused`, `AdvanceUpload` |
| chunk loop, `set_chunk_object`; `set_manifest_plan` | `ReadChunk`, `ChunksDone`; `PlanManifest` |
| `replicate` | `PendPlacement`, `EnsurePlacement`, `PutObject`, `PutFailed`, `ConfirmPlacement`, `ReplicateDone` |
| the live check | `BeginCheck`, `GetReplica`, `GetFailed`, `CheckDone` |
| `commit_file`, `commit_delete` | `CommitFile`, `CommitDelete` |
| process death, edited source, swapped volume, bit rot | `Crash`, `EditSource`, `MountVolume`, `CorruptCopy` |

`lost`, `lostSince` and `lostAfter` are history, used only by properties, as are
`acked` and `overlap` in `GarbageCollection` (files acknowledged, never deleted
and never found gone with all volumes; files whose upload ran while a proof about
them was applied).
`FileLifecycle` is what a client sees of a file: absent, visible with one
revision, deleted for good; the spine implements it.

### AgentStore

Every file operation of `put`, `delete`, the listing and
`load_or_create_incarnation` is a step of a thread. A directory entry is certain
to survive a power failure only once its directory was synced.

### Recovery, GarbageCollection, Maintenance

Each is one operator command step by step beside folded uploads and deletes,
lost, rotten and replaced volumes and, for the first two, a portal restored from
an old snapshot. `Recovery` lists, reads, repairs and decides file by file;
`GarbageCollection` plans, derives again, deletes agent by agent, removes rows
and finishes; `Maintenance` runs scrub, repair, drain and retire by one or two
operators.

### Backup, IndexArchive

`Backup` copies the history object by object to a directory or bucket, ships the
snapshot it took first, and restores metadata and objects. Objects and snapshots
are entries of the target (`target.seen`), which outlive a power failure for
certain once their directory was synced (`target.durable`); `target.taken` is
history: the entries that `put_new` found there and took for stored before they
were synced. `IndexArchive`
commits manifest, segments and newest snapshot of a partition one after the
other, truncates the local log, and restores a set of rows.

### KeyTrust

The portal's keys, epochs and key-set versions, one agent's three durable trust
files, two portal processes; joins with a token, pushes, resets.

### PortalAccess, PortalQueue, PeerLimiter

Requests take the database lock once per group of statements: `PortalAccess`
interleaves them with one another and with the identity commands. `PortalQueue`
follows a request through connection slot, permit, spool, queue, worker and
answer; a client may hang up anywhere. `PeerLimiter` is the token bucket of
failed attempts, with its table of limited size.

### TailnetBind, CertificateUpkeep, CertificateTime

The portal resolves, waits, obtains a certificate, serves, and ends when its
address changes; `maintain` sleeps, fetches and installs; `der_time` is checked
against a calendar that counts days.

### PartitionLog, SlotTable, RecordMap

`PartitionLog` is the disk (`segs`, whose frames are in the page cache, dropped
from it, durable or unreadable; `snaps`) and the open partition (`mem`, writer,
mutation and compaction under way). `SlotTable` is the tables behind `mem`: keys,
slots, vectors and the tombstone bitmap, as they are written, compacted on
another thread, encoded and checked on load. `RecordMap` is the map from keys to
records which the tables implement.

### HnswLinks, HnswGraph, ParallelBuild

`HnswLinks` holds the pure parts: candidate order, neighbour selection, greedy
descent, beam search. `HnswGraph` is the single writer with searches from every
state in between. `ParallelBuild` inserts each slot of a chunk by a thread of
its own that locks one list at a time, and then links the orphans.

### JobLeases, SchemaMigration

Lease files, their locks and the interruption of jobs when a database is opened;
`Database::open` from every version, transaction by transaction, by two processes
that may die. A batch of the schema is one step: each of its statements is
`IF NOT EXISTS` or `OR IGNORE`, so a half-done batch is completed by the next
open.

### Proof modules

`CommitSpineProofs`, `GarbageCollectionProofs`, `RecoveryProofs`,
`KeyTrustProofs`, `PortalQueueProofs`, `PortalAccessProofs`, `AdmissionProofs`
(about `AgentStore` and `PeerLimiter`) and `MaintenanceProofs` (about
`Maintenance` and `JobLeases`) extend the modules they are about and add nothing
to them; section 5 says what they prove.

## 3. Runs

Modules that share no variable are explored side by side in one run: `part` says
which of them moves and the others rest in one initial state. A property of one
module then holds in the run exactly if it holds of the module alone.

`Settings` and the cases of the MC modules are families of small instances (which
faults, how many, how many processes): a behaviour picks one at the start. All
runs allow the system to stop (`CHECK_DEADLOCK FALSE`): finished calls leave
nothing to do once the bounds are used up. A property is the conjunction of the
named parts in its definition.

| Run | Instance | Properties |
|---|---|---|
| `spine_shared` | 2 processes, 2 agents, 1 upload key, 2 delete keys; uploads with a loss, deletes with a loss, both without | `TypeOK`, `Downloadable`, `OneMarker`, `ImplementsLifecycle` |
| `spine_solo` | 1 process, 3 agents of which two share a domain, 2 contents, 2 faults of which 1 may be a hiccup | `CommitSound` (copies alive in two domains at commit, one manifest, planned content only), `RetryConverges` |
| `partition` | 3 sequence numbers, segments of 2 frames, window 1; 2 stops or 2 power losses with a failing call, one of each with rot, rot with a failing call; tables of 3 keys, 3 log entries | `LogIntact`, `AckedSurvive`, `AppliedOnce`, `TablesConsistent`, `ImplementsMap` |
| `admission` | store: 1 or 2 threads, 2 to 4 objects, 1 or 2 faults; access: 1 or 2 users, 2 nodes, 2 sessions, a key; limiter: 2 peers, a table of 1, bursts 1 and 2 | `AckedDurable`, `StoreAccounted`, `IdentityStable`, `AccessRefused`, `ChangesAudited`, `LimitsKept` |
| `gc` | 1 file, 2 collectors, 2 agents, a retention and a grace of 1 in 2 units of time | `CollectionSafe`, `EventuallyCollected` |
| `recovery` | 1 file, 2 or 3 agents, 2 versions of manifest or marker | `RecoveredHonest`, `DeletedForGood`, `RecoveryConverges` |
| `maintenance` | 2 operators or 1, 2 objects, 3 agents | `PlacementsHonest`, `RepairConverges` |
| `trust` | 2 processes, 1 agent, up to 3 keys, resets and restores | `TrustSound`, `JoinConverges` |
| `archive` | backup: 2 overlapping jobs with a stop or failed put and a power failure of the target; 2 files and a power failure; a stop, a power failure and the loss of portal and agents; 2 jobs and a lost portal; a bucket, 3 agents, a failure and 2 losses; jobs without end with 2 stops or failures; archive: 3 or 2 entries, crash, delete, restore | `BackupRestorable`, `ArchiveRestorable`, `JobsConverge` |
| `service` | 4 requests of 2 callers, 1 crash; 2 addresses; 2 certificate policies; every day to 2110 | `RequestsKept`, `RecordedOwn`, `Answered`, `ServesOwnAddress`, `CertificateKept` |
| `hnsw` | build: 4 slots on 2 levels, 6 on one; graph: 4 slots on a triangle or on a line | `BuildsSound`, `BuildsEnd`, `SearchesSound` |
| `database` | 2 processes, 2 files, versions 0 to 12, 1 crash; 3 processes, 1 job, which may be one that an older release left running without an owner, 2 crashes or failed writes | `SchemaSound`, `LeasesSound`, `EverythingSettles` |

Why the bounds are enough. `MaxVolumes` 2 lets an agent be wiped and get its old
volume back, which is every case `observe_agent_incarnation` distinguishes. One
chunk per file: chunks are handled one after the other and share no state, and
the live check already covers two objects. `MaxMints` leaves room for one
manifest or marker more than a correct run mints, so that a second one is seen.
Three sequence numbers and segments of two frames give one rotation and a partly
filled segment; window 1 with two operations lets an operation leave the window
and return. `WordBits` 2 stands for the 64 bits of a bitmap word and puts a word
boundary inside three slots. Two collectors, operators or threads are the least
that race; a third adds no new pair. The certificate policies keep the ratios of
the code (renewal in the last third, backoff that doubles, a refresh shorter than
the renewal window). Symmetry is used in `spine_shared` only, where no liveness is
checked and the processes have the same abilities.

Fairness. A call that has begun keeps taking steps: the runtime polls a future
that is ready, and an answer or a timeout always comes. Clients and operators
repeat what failed (`RetryConverges`, `RecoveryConverges`, `RepairConverges`,
`JobsConverge`, `JoinConverges`, `EventuallyCollected`): these say what the code
does for someone who retries, not that anybody must. The supervisor restarts the
portal, and its loops run (`ServesOwnAddress`, `Answered`, `EverythingSettles`).
A thread of the builder that can go on does (`BuildsEnd`). Faults are never fair
and finite in number. Strong fairness is used where a retry is enabled only
between the steps of another process.

Preconditions that the properties name, and why: `AckedDurable` needs prefix
directories that existed before; `UsedExact` disjoint objects per thread
and no failing sync, as does `QuotaKept` after a fault;
`AckedSurvive` not both a stop and a power loss; `RetirementSafe` that no upload
runs beside a retirement; `NeededKept` that the upload did not run while its own
proof was applied; `KeysVouched` no restored database, and an operator who ends
a key only when the joined agents and the running commands know the active one
(`AgentMoved`, as the documents tell); `ArchiveConverges` one
deletion; `SpoolDrained` no hang-up on a download; `EveryoneLinked` one level;
`RecoveredHonest` and `DeletedForGood` losses in one failure domain only;
`CommitSound` one process per key; `BackupRestorable` excepts the entries that
`put_new` took over as identical before their directory was synced (`taken`), and
says that there are none without a stop, a failed put, a lost portal or a second
job, and never in a bucket. Without them the code does not keep the
property: section 4 says what happens instead. `Answered` assumes that a client
that stays sends its body. A database that a newer release has opened is refused
and excepted from `EverythingSettles`; a stale opener of an old database may set
`user_version` back for a moment, which `VersionHonest` allows because it asks
nothing of a lower version.

## 4. Where the code and its documents disagree

Each was found as a counterexample when the named part of a property was checked
without its precondition.

Commit spine. `advance_upload` (metadata.rs:1045) reads the state in one
statement and writes it in another: a process that read `staging` may set an
upload back to `replicating_chunks` after a second process under the same key has
replicated its manifest. `set_manifest_plan` then accepts a second manifest, and
the first process has `commit_file` commit it on placement rows alone.
architecture.md:149 says rows alone never authorise a commit, and :151 that a
generation has exactly one manifest. `Downloadable` holds all the same.

Partition. A process stops between `append_unsynced` and `sync`; recovery applies
the frame from the page cache and a retry is answered from the window
(partition.rs:708) before any sync: m3-engine-contract.md:111 says only synced
entries are acknowledged. If that frame fills the segment, `WalWriter::open`
(wal.rs:434) starts the next one without syncing it, against :133, and a power
loss then makes the partition refuse to open. With either fault alone, and for
operations acknowledged by their own call, nothing is lost. Rot is modelled in
frames that durable frames follow: the last frame of the log, when it rots, reads
like a torn tail and is cut off (wal.rs:289), which no check can tell apart.

Garbage collection. An expired upload whose rows are all confirmed may be retried
and commit between the second derivation and a DELETE (lifecycle.rs:840,
m1-lifecycle-contract.md:77). A process that dies between a pending and a
confirmed row blocks the object for ever (lifecycle.rs:690, against
architecture.md:83). A staged upload whose chunk was collected, and which is then
retried, committed and deleted, is not collected again, because its first proof
counts as applied.

Maintenance. `retire` reads the history once (lifecycle.rs:428), so that a file
committed after that may lose a copy with the wiped volume, against
hardening-2026-10.md:68. `drain` counts copies on an agent drained before
(lifecycle.rs:307, m1-storage-contract.md:348).

Trust. A database restored from before a revocation is refused by every agent
that has seen the later epoch (grant.rs:468), where deployment.md:260 expects
`recover --apply` to suffice. A key retired before a lost join is recorded makes
the same join repeat without end.

Backup. `put_new` answers Identical for a path whose directory entry was never
synced (backup.rs:191 and :215, against the comment at :166). It happens in two
ways: a job stops, or its put fails, between link and sync (:226) and the next
job finds the file; or a second job finds it while the first is still about to
sync. The object is then recorded as verified, no later job copies it again, a
snapshot that names it is shipped, and a power failure of the target takes it
away. The same holds of the snapshot itself. A snapshot is named after the
time it is shipped (backup.rs:586), so that of two overlapping jobs the older
snapshot may sort last and be restored as the latest (:947).

Index archive. When the replacement of a deleted part is deleted too, every later
archive stops (index_archive.rs:213, against the comment at :166).

Agent store. `ensure_child_directory` takes an existing prefix directory without
syncing its parent (durability.rs:519, DESIGN.md:303). Two PUTs of one missing
object both add its bytes (durability.rs:259). A PUT whose directory sync fails
after the rename leaves an object that is not counted, and the next PUT of it
returns before the counter (durability.rs:291, :269): the quota may be passed by
its size until the agent starts again. An identity file found is served
without a sync (durability.rs:196, m1-storage-contract.md:90). Two faults may
bring back an object whose DELETE was not synced.

Portal. `login` and `create_key` may insert a live row for a user who was
disabled in between (portal_server.rs:1465, deployment.md:117); it is never
accepted. `api-key revoke` records after its change (main.rs:1282,
deployment.md:131). A download whose client hangs up may leave its plaintext in
the spool (portal_server.rs:1885, against :417). The limiters read the clock
before they take their lock (portal_server.rs:655): of two threads the later
reading may be stored first, and the time between the two is refilled twice. The
model reads it under the lock.

HNSW. A list full of vectors equal to its own drops every other back-link, so
that sequential insertion strands slots too (hnsw.rs:413, against :1131). The
parallel builder may link a slot to itself, which `link_level0_orphans` counts as
an in-link (hnsw.rs:985, :1141), and two slots that only link to each other are
left unreachable (hnsw.rs:1145, m3-engine-contract.md:331).

By design, and worth knowing: recovery that meets a second manifest of a
generation blocks the file; a log is truncated only through an archive; an archive
of a partition without entries restores empty.

## 5. Proofs

Each theorem holds for every value of the constants that satisfies the named
assumption of its module, so for any number of agents, processes, files or
requests and any bounds on faults, where a run fixes a few. What the runs check
is the formula the theorem states.

| Module | Theorem | Assumptions on the constants | Inductive invariant |
|---|---|---|---|
| `CommitSpineProofs` | `TypeCorrect`: `TypeOK` | `ConstantsAssumption`, `NoneAssumption` | `Wellformed` |
| | `CommittedFilesAreDownloadable`: `Downloadable` | | `Wellformed`, `Durable` |
| | `SpineImplementsLifecycle`: `ImplementsLifecycle` | | `Wellformed` |
| | `DeletesShareOneMarker`: `OneMarker` | | `Wellformed`, `MarkersNamed` |
| | `CommitsAreSound`: `CommitSound` | the same and `OneUploader` | `CommitInv` |
| `GarbageCollectionProofs` | `CollectionIsSafe`: `CollectionSafe` | `GcAssumption` | `GcInv` |
| `RecoveryProofs` | `RecoveryIsHonest`: `RecoveredHonest` | `RecoveryAssumption` | `RecInv` |
| | `DeletedStaysDeleted`: `DeletedForGood` | | `RecInv` |
| `KeyTrustProofs` | `TrustIsSound`: `TrustSound` | `KeyTrustAssumption` | `TrustInv` |
| `PortalQueueProofs` | `RequestsAreKept`: `RequestsKept` | `QueueAssumption` | `Held` |
| | `ChangesAreRecorded`: `RecordedOwn` | | `Held`, `Records` |
| `PortalAccessProofs` | `ChangesAreAudited`: `ChangesAudited` | `AccessAssumption` | `AccessInv` |
| | `AccessIsRefused`: `AccessRefused` | | |
| `AdmissionProofs` | `AcknowledgedIsDurable`: `AckedDurable` | `StoreAssumption` | `StoreInv` |
| | `IdentityIsStable`: `IdentityStable` | | |
| | `StoreIsAccounted`: `StoreAccounted` | | `StoreInv`, `BooksInv` |
| | `LimitsAreKept`: `LimitsKept` | `BurstAssumption` | `LimitInv` |
| `MaintenanceProofs` | `PlacementsAreHonest`: `PlacementsHonest` | `MaintenanceAssumption`, `RetiresAlone` | `Sound` |
| | `LeasesAreSound`: `LeasesSound` | `JobLeasesAssumption` | `LeaseInv` |

The assumptions say of which kind the constants are (numbers, finite sets, at
least one volume, file or key), and nothing about the protocol.
`RecoveryAssumption` says one thing more: losses stay inside one failure domain.
The code keeps two copies in two domains and promises nothing once both domains
have lost theirs. `MaintenanceAssumption` says that what is stored at the start is
in two domains, as a commit leaves it.

**Commit spine.** `TypeOK` is not inductive: an action that indexes a row needs
the row to exist. `Wellformed` adds `TablesOK` (what the rows of different
tables imply about each other) and `ProcAt` for every process (what it may rely
on at its step); rows are never removed, so what a process relies on outlives
the steps of others. `Durable` says that an agent that never lost data still
serves its first volume (`Steady`), that each confirmed row on it has a valid
copy behind it (`Kept`), that a process about to write has its row in place and
one about to confirm has had its write acknowledged (`Promised`), and that each
object a file rests on was confirmed in two failure domains, lost agents
excepted (`Backed`). The theorem covers any number of processes under one key,
the race of section 4 included. `MarkersNamed` says that no marker is written
that a delete operation does not record and that the operations of one file
agree on it. `CommitSound` needs `OneUploader`, at most one process that uploads,
and any number may delete: section 4 says what two do. `PlanKept` says that the row
of an upload keeps its plan and that all chunks and manifests, on the volumes and
in hand, are of it; it is inductive because nobody moves the row between the
SELECT of `advance_upload` and its UPDATE. `Checked` says what the live check has
found so far (`CheckedAt`): each object passed was read back in two domains, and is
still valid there but for agents that lost data since the check began.

**Garbage collection.** What may be deleted is decided from tables which a
restore takes back and an upload moves on, so `GcInv` ties them to what really
happened. `History`: a file that a table, the snapshot or any volume shows as
deleted was deleted, and an acknowledged one that was not is known to the tables
unless they await recovery. `CollectorsOK`: the candidates of a collection are
content, of an expired upload or of a file once deleted (`CandsOK`); the proof at
hand is about the object at hand (`CurOK`); and beyond the second derivation the
object's file is neither being uploaded nor acknowledged, unless that overlap was
noted, while the agents passed no longer serve the object (`DeletingOK`).
`Settled` and `ProofsOK` carry the last part to the proofs that are applied: files
committed before the start are not uploaded again, and an unmounted volume is
blank. The action part of `CollectionSafe` then follows because only the two
DELETE steps take anything off a volume. The proof asked for one correction: a
file that a recovery finds gone with every volume is no longer counted as
acknowledged (`acked`), since nothing is left of it to protect.

**Recovery.** An agent outside the domain that loses data keeps what it holds
(`Held`), and what was acknowledged was stored in two domains, so some such agent
holds it (`AckedHeld`). The table may still not show it, because a restore takes
the table back. `Known` says that then the portal counts as unrecovered and the
pass under way will come to it (`Coming`): the object is on an agent the pass has
yet to list, or was listed, or was read and its file is still to be judged. An
upload or a delete that commits meanwhile writes its row itself. `PassOK` says
that what the pass read from such an agent is there, that each file to be judged
has evidence, and that what the pass is about to install is held. `RowsOK` is what
a row implies about the agents, in the table, in the snapshot and in the rows a
pass compares with: `RecoveredHonest` and the order of the generations follow.

**Keys and trust.** `KeysVouched` is not inductive because what an agent will
hold travels: through two reads of the tables, a join or a push that waits.
`Vouched` says how such material may lag behind the tables (a lower version,
never a later epoch, always a key in common), and `KeysOK` that all of it does:
on the volume, in the offer being stored and in every process. `AgentOK` is the
state of the volume at each write of a join and of a reset; a crash there leaves
one of these states.

**Portal service.** The bounds of `RequestsKept` follow from exact counts
(`Counted`) and these from where each request may be (`Placed`): a handler that
is gone leaves nothing behind but its job, which keeps its body and its permit.
`QueueOK`: no request is queued twice or beside its own run. `Records` adds what
the worker has recorded at each of its steps (`RecordAt`), and that every file is
under the key of the request that wrote it (`FilesOwned`).

**Access.** A handler reads, records and writes in separate groups of statements,
and other requests and `users` commands come between. `HandlersHold` says what it
may rely on there: what it is about to change is in the log, and the token or key
it is about to store is still free; `TokensApart` says that no two handlers are
about to store the same one. `ExposedEnded` carries the refusal of a cookie to the
requests after it, and `SeenKept` ties the last admission to `last_seen_at`, which
is written only when `touch` has passed: a session is so ended early by less than
that interval, and never admitted late.

**Agent store.** An acknowledgement is the last of a PUT's steps, so `StoreInv`
says what a PUT may rely on before it (`PutsOK`): one that found its object good,
or renamed it into place, finds it good until it answers, and safe from a power
failure once a directory was synced, unless a DELETE or rot came between. The
directories of a volume in use stay durable (`DirsOK`), so a power failure takes
nothing that was synced. `IdentityOK` says where an identity that was served is
found again after one fault, and `ListOK` that everything up to a listing's cursor
that was there throughout is in what the listing got; that a page leaves no gap
below its cursor is `PageFacts`, for any finite set and page size.
`StoreAccounted` is about sums, over objects and over threads, so `BooksInv` says
what each stands for. `Room`: what is counted and what was let in fit in the quota
and one object for each other thread, because a PUT is let in on the counter alone
and the others have at most one object each in flight. `Clean`, before the first
fault: the files and the removals not yet counted take no more than the counter
and the PUTs about to add to it, and each file that a power failure could bring
back has its DELETE waiting for its sync. `Exact`, where no two threads share an
object and no sync fails: the counter is the size of a set of objects (`Reckoned`),
through any deaths, power failures and rot. A sum is a fold over a set;
`SmallestBad` replaces induction: of the finite sets for which a claim fails there
is one that has no smaller of them inside.

**Maintenance.** What an operation decides rests on answers it got earlier.
`Sound` says of one under way (`Working`) that no volume it relies on was retired,
that what it has called durable is so unless something was lost since it began,
and that the objects which retire has found elsewhere are there but for one copy
per loss (`Spared`). The theorem takes `RetiresAlone`: where agents are retired,
one operator works and all uploads are over, which is what the run explores;
section 4 says what an upload beside a retirement may lose. Without retirement the
operators are any number. What `repair_object` adds is a recursive function over
the candidates; `RepairedWithin` shows by a least counterexample that its result
stays within the agents it was given.

**Job leases.** A live job is left alone because its owner's lease file is there
and locked (`LeaseHeld`), the job names that owner (`JobOwned`), no two processes
share a lease (`LeaseOwn`), and a lease created but not yet locked, which looks
dead to `is_alive`, is named by no running job (`NotYet`).

**Limiter.** `RateKept` speaks of every span of time. `WithinBudget` speaks of
the spans that end now: what a peer was given since any of its records and the
tokens it has left fit in the burst and the time passed; a peer without a bucket
was given no more than the time passed, which is why a full bucket may be
forgotten.

`JobLeases`, `PeerLimiter` and `PortalAccess` share a run with other modules and
state their assumption as a definition, which the theorems take as a hypothesis
and `MCDatabase` and `MCAdmission` assume of their constants.

Only model-checked:

- everything under fairness (`RetryConverges`, `EventuallyCollected`,
  `RecoveryConverges`, `RepairConverges`, `JoinConverges`, `JobsConverge`,
  `Answered`, `BuildsEnd`, `EverythingSettles`, the liveness parts of
  `ServesOwnAddress` and `CertificateKept`): liveness and ENABLED are outside of
  what TLAPS proves;
- what recursive functions and folds compute, which needs induction over data:
  the HNSW modules, `CertificateTime`, replay in `PartitionLog` and `SlotTable`
  (the sums of sizes in `AgentStore` and `RepairedWithin` are the exceptions, by a
  least counterexample);
- `SchemaSound`, whose versions are a fixed list that TLC goes through completely;
- `Backup`, `IndexArchive`, `TailnetBind`, `CertificateUpkeep` and the rest
  of `PartitionLog`, whose safety TLC checks within the bounds of their runs.

## 6. What is left out

- The RAM budget of admission in the partition engine, temporaries and their
  sweep in the agent store (no request sees one), dry runs, status reports and
  drill records, which write nothing the models read.
- Header stripping, CSRF and origin checks: they refuse a request and change
  nothing else. What a grant says of operation, object and expiry.
- The LocalAPI client, PEM and DER framing, byte layouts, hashes and ciphers:
  the models use that a hash identifies its content.
- Distances and vector storage (floating point), the quality (recall) of the
  graph; `Quantized` uses one step where the code has 127 per half-range.
- Command line, benchmarks, prototype and scripts.
