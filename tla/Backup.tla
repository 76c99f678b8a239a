------------------------------- MODULE Backup -------------------------------
(***************************************************************************)
(* Offsite backup and restore (backup.rs): jobs that copy the history to a *)
(* target object by object and ship a snapshot of the database, beside     *)
(* uploads, deletes and garbage collection; crashes of a job, a power      *)
(* failure at the target, the loss of the portal and of every agent, and   *)
(* the three commands of a restore.                                        *)
(*                                                                         *)
(* Abstractions                                                            *)
(*  - A file is one data object (its manifest and chunks) and, once        *)
(*    deleted, one marker.  Upload, delete and recover are single actions, *)
(*    as CommitSpine and Recovery detail them; gc derives its proof and    *)
(*    applies it, as GarbageCollection details.                            *)
(*  - The target is a directory, with one directory per kind of object and *)
(*    one for snapshots, whose entries last once it is synced, or an S3    *)
(*    bucket, which writes durably.  The catalog is advisory and only ends *)
(*    the job.                                                             *)
(***************************************************************************)
EXTENDS Integers, FiniteSets, Functions

CONSTANTS
    Processes,      \* processes that run backup jobs
    Settings        \* what a deployment may have and meet

ASSUME BackupAssumption ==
    \A x \in Settings :
      /\ {x.clock, x.jobs, x.faults, x.power, x.losses} \subseteq Nat
      /\ x.procs \subseteq Processes /\ x.deletable \subseteq x.files
      /\ Cardinality(Range(x.domain)) >= 2 /\ x.adapter \in {"dir", "s3"}

MINIMUM_REPLICAS == 2
Data(f) == <<"data", f>>
Marker(f) == <<"marker", f>>
Snapshot(d, at) == <<"sqlite", d, at>>
Kind(o) == o[1]
FileStates == {"none", "committed", "deleted", "recovery_blocked"}

VARIABLES
    db,         \* the portal's tables
    copies,     \* agent -> objects it holds intact
    target,     \* entries listed at the target, those that survive a power failure, and
                \* (auxiliary) those put_new found there before their directory was synced,
                \* and that no sync has reached since
    proc,       \* process -> its backup job
    gcProof,    \* the object gc is about to delete, or none
    restoring,  \* what restore_objects listed and has yet to place, how it fares, and
                \* (auxiliary) the files committed in the restored snapshot and the
                \* taken entries that were missing in the listing
    clock, jobs, faults, power, losses,
    setting     \* the one of Settings this deployment has

vars == <<db, copies, target, proc, gcProof, restoring, clock, jobs, faults, power, losses, setting>>

Files     == setting.files
Deletable == setting.deletable  \* bound: the files that clients delete
Procs     == setting.procs      \* the processes in use
Domain    == setting.domain     \* agent -> failure domain
Agents    == DOMAIN Domain
Adapter   == setting.adapter    \* "dir" or "s3"
MaxClock  == setting.clock      \* bounds: the clock that stamps snapshots,
MaxJobs   == setting.jobs       \*   jobs (none if 0),
MaxFaults == setting.faults     \*   crashes and failed requests,
MaxPower  == setting.power      \*   power failures of the target,
MaxLosses == setting.losses     \*   losses of the portal and of the agents

Objects == {"data", "marker"} \X Files

NoDb == [gen |-> 0]
IdleJob == [pc |-> "idle", gen |-> 0, snap |-> NoDb, todo |-> {}, obj |-> {}, failed |-> FALSE]
NotRestoring(base) == [active |-> FALSE, todo |-> {}, failed |-> FALSE, done |-> FALSE,
                       listed |-> {}, missing |-> {}, base |-> base]
MaxGen == 2 * Cardinality(Files) + 2 * MaxLosses + 1

Databases == [st : [Files -> FileStates], gen : 1..MaxGen, gone : SUBSET Objects, known : BOOLEAN,
              verified : SUBSET Objects, shipped : 0..MaxGen, pending : BOOLEAN]

IsEntry(o) ==
    IF Kind(o) = "sqlite" THEN o[2] \in Databases /\ o[3] \in 0..MaxClock ELSE o \in Objects

\* The type invariant: tables, agents, target and jobs.
TypeOK ==
    /\ setting \in Settings
    /\ db \in Databases
    /\ db.shipped <= db.gen
    /\ copies \in [Agents -> SUBSET Objects]
    /\ target.durable \subseteq target.seen /\ target.taken \cap target.durable = {}
    /\ \A o \in target.seen \cup target.taken : IsEntry(o)
    /\ \A p \in Procs :
         /\ proc[p].pc \in {"idle", "begun", "snapshot", "history", "object", "put", "sync", "check"}
         /\ proc[p].snap \in Databases \cup {NoDb}
         /\ proc[p].todo \subseteq Objects /\ proc[p].failed \in BOOLEAN
         /\ \A o \in proc[p].obj : IsEntry(o)
    /\ gcProof \subseteq Objects
    /\ restoring \in [active : BOOLEAN, todo : SUBSET Objects, failed : BOOLEAN, done : BOOLEAN,
                      listed : SUBSET Objects, missing : SUBSET Objects, base : SUBSET Files]
    /\ clock \in 0..MaxClock /\ faults \in 0..MaxFaults /\ power \in 0..MaxPower /\ losses \in 0..MaxLosses

Init ==
    /\ setting \in Settings
    /\ db = [st |-> [f \in Files |-> "none"], gen |-> 1, gone |-> {}, known |-> FALSE,
             verified |-> {}, shipped |-> 0, pending |-> FALSE]
    /\ copies = [a \in Agents |-> {}]
    /\ target = [seen |-> {}, durable |-> {}, taken |-> {}]
    /\ proc = [p \in Procs |-> IdleJob]
    /\ gcProof = {} /\ restoring = NotRestoring({})
    /\ clock = 0 /\ jobs = 0 /\ faults = 0 /\ power = 0 /\ losses = 0

Fault == faults < MaxFaults /\ faults' = faults + 1
Set(p, r) == proc' = [proc EXCEPT ![p] = r]
Spread(S) == Cardinality({Domain[a] : a \in S}) >= MINIMUM_REPLICAS
Holders(o) == {a \in Agents : o \in copies[a]}
Put(S, O) == [a \in Agents |-> IF a \in S THEN copies[a] \cup O ELSE copies[a]]

-----------------------------------------------------------------------------
(* The rest of the portal *)

\* An upload replicates and commits.
Upload(f) ==
    /\ db.st[f] = "none"
    /\ \E S \in SUBSET Agents : Spread(S) /\ copies' = Put(S, {Data(f)})
    /\ db' = [db EXCEPT !.st[f] = "committed", !.gen = @ + 1]
    /\ UNCHANGED <<target, proc, gcProof, restoring, clock, jobs, faults, power, losses>>

\* A delete replicates its marker and commits.
Delete(f) ==
    /\ f \in Deletable /\ db.st[f] = "committed"
    /\ \E S \in SUBSET Agents : Spread(S) /\ copies' = Put(S, {Marker(f)})
    /\ db' = [db EXCEPT !.st[f] = "deleted", !.gen = @ + 1]
    /\ UNCHANGED <<target, proc, gcProof, restoring, clock, jobs, faults, power, losses>>

\* gc proves that the data of a deleted file may go: every known target has it.
GcDerive(f) ==
    /\ ~db.pending /\ gcProof = {}
    /\ db.st[f] = "deleted" /\ Data(f) \notin db.gone
    /\ db.known => Data(f) \in db.verified
    /\ gcProof' = {Data(f)}
    /\ UNCHANGED <<db, copies, target, proc, restoring, clock, jobs, faults, power, losses>>

GcApply ==
    /\ gcProof # {}
    /\ copies' = [a \in Agents |-> copies[a] \ gcProof]
    /\ db' = [db EXCEPT !.gone = @ \cup gcProof]
    /\ gcProof' = {}
    /\ UNCHANGED <<target, proc, restoring, clock, jobs, faults, power, losses>>

-----------------------------------------------------------------------------
(* A backup job *)

\* create_backup_job makes the target known.
BeginJob(p) ==
    /\ proc[p].pc = "idle"
    /\ IF MaxJobs = 0 THEN UNCHANGED jobs ELSE jobs < MaxJobs /\ jobs' = jobs + 1
    /\ db' = [db EXCEPT !.known = TRUE]
    /\ Set(p, [IdleJob EXCEPT !.pc = "begun"])
    /\ UNCHANGED <<copies, target, gcProof, restoring, clock, faults, power, losses>>

\* The content generation decides whether a snapshot is due.
ReadGeneration(p) ==
    /\ proc[p].pc = "begun"
    /\ Set(p, [proc[p] EXCEPT !.gen = db.gen, !.pc = IF db.shipped = db.gen THEN "history" ELSE "snapshot"])
    /\ UNCHANGED <<db, copies, target, gcProof, restoring, clock, jobs, faults, power, losses>>

\* snapshot_into: VACUUM INTO.
SnapshotInto(p) ==
    /\ proc[p].pc = "snapshot"
    /\ Set(p, [proc[p] EXCEPT !.snap = db, !.pc = "history"])
    /\ UNCHANGED <<db, copies, target, gcProof, restoring, clock, jobs, faults, power, losses>>

\* history_objects: what was ever committed and gc has not applied.
History(d) ==
    ({Data(f) : f \in {g \in Files : d.st[g] # "none"}} \cup {Marker(f) : f \in {g \in Files : d.st[g] = "deleted"}})
        \ d.gone

ReadHistory(p) ==
    /\ proc[p].pc = "history"
    /\ Set(p, [proc[p] EXCEPT !.todo = History(db), !.pc = "object"])
    /\ UNCHANGED <<db, copies, target, gcProof, restoring, clock, jobs, faults, power, losses>>

\* The next object: skipped if verified, else fetched from any agent that has it.
NextObject(p) ==
    /\ proc[p].pc = "object" /\ proc[p].todo # {}
    /\ LET o == CHOOSE x \in proc[p].todo : TRUE
           rest == [proc[p] EXCEPT !.todo = @ \ {o}]
       IN Set(p, IF o \in db.verified THEN rest
                 ELSE IF Holders(o) = {} THEN [rest EXCEPT !.failed = TRUE]
                 ELSE [rest EXCEPT !.obj = {o}, !.pc = "put"])
    /\ UNCHANGED <<db, copies, target, gcProof, restoring, clock, jobs, faults, power, losses>>

Shipping(p) == \E o \in proc[p].obj : Kind(o) = "sqlite"

\* put_new fails, before the link or at the sync: an object is left unverified and
\* the job goes on, a snapshot ends it.
PutFails(p) ==
    /\ proc[p].pc \in {"put", "sync"}
    /\ Fault
    /\ Set(p, IF Shipping(p) THEN IdleJob ELSE [proc[p] EXCEPT !.pc = "object", !.obj = {}, !.failed = TRUE])
    /\ UNCHANGED <<db, copies, target, gcProof, restoring, clock, jobs, power, losses>>

\* Mutant: the directory is not synced.
Unsynced(p) == "check"
\* put_new on a new path: link, then sync the directory.
AfterLink(p) == "sync"

\* A path that exists with the same bytes is Identical, without a sync.
PutNew(p) ==
    /\ proc[p].pc = "put" /\ Adapter = "dir"
    /\ IF proc[p].obj \subseteq target.seen
       THEN /\ target' = [target EXCEPT !.taken = @ \cup (proc[p].obj \ target.durable)]
            /\ Set(p, [proc[p] EXCEPT !.pc = "check"])
       ELSE /\ target' = [target EXCEPT !.seen = @ \cup proc[p].obj]
            /\ Set(p, [proc[p] EXCEPT !.pc = AfterLink(p)])
    /\ UNCHANGED <<db, copies, gcProof, restoring, clock, jobs, faults, power, losses>>

\* One sync makes every entry of its directory last.
Synced(O) ==
    [target EXCEPT !.durable = @ \cup {o \in target.seen : \E x \in O : Kind(o) = Kind(x)},
                   !.taken = {o \in @ : o \notin target.seen \/ \A x \in O : Kind(o) # Kind(x)}]

SyncDirectory(p) ==
    /\ proc[p].pc = "sync"
    /\ target' = Synced(proc[p].obj)
    /\ Set(p, [proc[p] EXCEPT !.pc = "check"])
    /\ UNCHANGED <<db, copies, gcProof, restoring, clock, jobs, faults, power, losses>>

\* Conditional PutObject; a key that exists is read and compared.
PutNewS3(p) ==
    /\ proc[p].pc = "put" /\ Adapter = "s3"
    /\ target' = [target EXCEPT !.seen = @ \cup proc[p].obj, !.durable = @ \cup proc[p].obj]
    /\ Set(p, [proc[p] EXCEPT !.pc = "check"])
    /\ UNCHANGED <<db, copies, gcProof, restoring, clock, jobs, faults, power, losses>>

\* The copy is read back and recorded as verified.
RecordObject(p) ==
    /\ proc[p].pc = "check" /\ ~Shipping(p)
    /\ LET ok == proc[p].obj \subseteq target.seen IN
         /\ db' = IF ok THEN [db EXCEPT !.verified = @ \cup proc[p].obj] ELSE db
         /\ Set(p, [proc[p] EXCEPT !.pc = "object", !.obj = {}, !.failed = @ \/ ~ok])
    /\ UNCHANGED <<copies, target, gcProof, restoring, clock, jobs, faults, power, losses>>

\* Mutant: the database as it is after the copying is shipped.
ShippedNow(p) == db
\* The snapshot taken before the objects were copied is shipped.
Shipped(p) == proc[p].snap

\* The snapshot is withheld while an object it may name is unverified.
MayShip(p) == proc[p].snap # NoDb /\ ~proc[p].failed

\* put_new of the snapshot, under the time the copying ended, is next.
ShipSnapshot(p) ==
    /\ proc[p].pc = "object" /\ proc[p].todo = {}
    /\ Set(p, IF MayShip(p) THEN [proc[p] EXCEPT !.obj = {Snapshot(Shipped(p), clock)}, !.pc = "put"]
              ELSE IdleJob)
    /\ UNCHANGED <<db, copies, target, gcProof, restoring, clock, jobs, faults, power, losses>>

\* record_backup_snapshot: the generation read before the snapshot was taken.
RecordedGeneration(p) == proc[p].gen

\* The snapshot is read back and recorded.
RecordSnapshot(p) ==
    /\ proc[p].pc = "check" /\ Shipping(p)
    /\ db' = IF proc[p].obj \subseteq target.seen THEN [db EXCEPT !.shipped = RecordedGeneration(p)] ELSE db
    /\ Set(p, IdleJob)
    /\ UNCHANGED <<copies, target, gcProof, restoring, clock, jobs, faults, power, losses>>

\* The process stops, an object or a snapshot cannot be read back, or the catalog
\* cannot be written.
StopJob(p) ==
    /\ proc[p].pc # "idle"
    /\ Fault
    /\ Set(p, IdleJob)
    /\ UNCHANGED <<db, copies, target, gcProof, restoring, clock, jobs, power, losses>>

-----------------------------------------------------------------------------
(* Losses and restore *)

\* The target's host loses power: an entry whose directory was not synced may go.
PowerFailure ==
    /\ power < MaxPower /\ power' = power + 1
    /\ \E kept \in SUBSET (target.seen \ target.durable) :
         target' = [seen |-> target.durable \cup kept, durable |-> target.durable \cup kept,
                    taken |-> target.taken \ kept]
    /\ proc' = [p \in Procs |-> IdleJob]
    /\ UNCHANGED <<db, copies, gcProof, restoring, clock, jobs, faults, losses>>

\* Every agent is lost and replaced by an empty one.
LoseAgents ==
    /\ losses < MaxLosses /\ losses' = losses + 1
    /\ copies' = [a \in Agents |-> {}]
    /\ restoring' = NotRestoring(restoring.base)
    /\ UNCHANGED <<db, target, proc, gcProof, clock, jobs, faults, power>>

\* restore_metadata picks the snapshot whose name sorts last: its stamp is the
\* time it was shipped at.
Snapshots == {o \in target.seen : Kind(o) = "sqlite"}
Latest == {s \in Snapshots : \A t \in Snapshots : t[3] <= s[3]}

\* The portal is lost; restore metadata opens the latest snapshot elsewhere.
RestoreMetadata ==
    /\ losses < MaxLosses /\ losses' = losses + 1
    /\ \E s \in Latest :
         /\ db' = [s[2] EXCEPT !.pending = TRUE]
         /\ restoring' = NotRestoring({f \in Files : s[2].st[f] = "committed"})
    /\ proc' = [p \in Procs |-> IdleJob] /\ gcProof' = {}
    /\ UNCHANGED <<copies, target, clock, jobs, faults, power>>

\* restore_objects lists the target and places every object.
BeginRestore ==
    /\ db.pending /\ ~restoring.active
    /\ restoring' = [NotRestoring(restoring.base) EXCEPT !.active = TRUE,
                        !.todo = target.seen \cap Objects, !.listed = target.seen \cap Objects,
                        !.missing = (target.taken \ target.seen) \cap Objects]
    /\ UNCHANGED <<db, copies, target, proc, gcProof, clock, jobs, faults, power, losses>>

\* The agents an object goes to: one per domain, until there are two.
OnePerDomain(S) == Cardinality(S) = MINIMUM_REPLICAS /\ Spread(S)

RestoreObject(o) ==
    /\ restoring.active /\ o \in restoring.todo \cap target.seen
    /\ \E S \in SUBSET Agents : OnePerDomain(S) /\ copies' = Put(S, {o})
    /\ restoring' = [restoring EXCEPT !.todo = @ \ {o}]
    /\ UNCHANGED <<db, target, proc, gcProof, clock, jobs, faults, power, losses>>

\* Too few agents accept the object and return it intact, or it has vanished: it
\* counts as failed, although some agents may hold it now.
RestoreFails(o) ==
    /\ restoring.active /\ o \in restoring.todo
    /\ \/ o \in target.seen /\ Fault /\ \E S \in SUBSET Agents : copies' = Put(S, {o})
       \/ o \notin target.seen /\ UNCHANGED <<faults, copies>>
    /\ restoring' = [restoring EXCEPT !.todo = @ \ {o}, !.failed = TRUE]
    /\ UNCHANGED <<db, target, proc, gcProof, clock, jobs, power, losses>>

EndRestore ==
    /\ restoring.active /\ restoring.todo = {}
    /\ restoring' = [restoring EXCEPT !.active = FALSE, !.done = ~restoring.failed]
    /\ UNCHANGED <<db, copies, target, proc, gcProof, clock, jobs, faults, power, losses>>

\* recover --apply on the restored database: the database's own deletions and the
\* agents' objects decide, and what wins is brought to two domains.
Recover ==
    /\ db.pending
    /\ LET gone == {f \in Files : db.st[f] = "deleted" \/ Holders(Marker(f)) # {}}
           live == {f \in Files \ gone : Holders(Data(f)) # {}}
           wins == {o \in {Marker(f) : f \in gone} \cup {Data(f) : f \in live} : Holders(o) # {}}
       IN /\ db' = [db EXCEPT !.pending = FALSE, !.gen = @ + 1,
                               !.st = [f \in Files |->
                                   IF f \in gone THEN "deleted" ELSE IF f \in live THEN "committed"
                                   ELSE IF @[f] = "none" THEN "none" ELSE "recovery_blocked"]]
          /\ \E S \in SUBSET Agents : OnePerDomain(S) /\ copies' = Put(S, wins)
    /\ UNCHANGED <<target, proc, gcProof, restoring, clock, jobs, faults, power, losses>>

Tick ==
    /\ clock < MaxClock /\ clock' = clock + 1
    /\ UNCHANGED <<db, copies, target, proc, gcProof, restoring, jobs, faults, power, losses>>

JobStep(p) ==
    \/ ReadGeneration(p) \/ SnapshotInto(p) \/ ReadHistory(p) \/ NextObject(p) \/ PutNew(p) \/ PutNewS3(p)
    \/ SyncDirectory(p) \/ RecordObject(p) \/ ShipSnapshot(p) \/ RecordSnapshot(p)

Activity ==
    \/ \E f \in Files : Upload(f) \/ Delete(f) \/ GcDerive(f)
    \/ GcApply
    \/ \E p \in Procs : BeginJob(p) \/ JobStep(p) \/ PutFails(p) \/ StopJob(p)
    \/ PowerFailure \/ LoseAgents \/ RestoreMetadata \/ BeginRestore \/ EndRestore \/ Recover \/ Tick
    \/ \E o \in Objects : RestoreObject(o) \/ RestoreFails(o)

Next == UNCHANGED setting /\ Activity

Spec == Init /\ [][Next]_vars

\* `portal backup --interval` begins a job again and again, and a job goes on.
FairSpec ==
    /\ Spec
    /\ \A p \in Processes : WF_vars(p \in Procs /\ UNCHANGED setting /\ (BeginJob(p) \/ JobStep(p)))
    /\ WF_vars(UNCHANGED setting /\ GcApply)

-----------------------------------------------------------------------------
(* Properties *)

\* Entries that are at the target for good, or that a put_new took for stored
\* (Identical) before the put_new that linked them had synced their directory.
Kept == target.durable \cup target.taken

\* Every snapshot at the target can be restored from the target alone: the data
\* of each file it shows as committed and the marker of each deletion it shows
\* are there for good, although files were committed, deleted and collected while
\* the job ran, jobs overlapped, put_new failed half way, jobs stopped and the
\* target lost power.  Excepted are the taken entries, which a power failure may
\* remove (run_backup).
SnapshotComplete ==
    \A s \in Snapshots : \A f \in Files :
        /\ s[2].st[f] = "committed" => Data(f) \in Kept
        /\ s[2].st[f] = "deleted" => Marker(f) \in Kept

\* What the database records as verified or as shipped survives every power
\* failure of the target, the taken entries excepted; also in a database that was
\* itself restored from there (DirectoryTarget::put_new, S3Target::put_new).
VerifiedDurable ==
    /\ db.verified \subseteq Kept
    /\ db.shipped > 0 => \E s \in Kept : Kind(s) = "sqlite" /\ s[2].gen >= db.shipped

\* An entry is taken only after a job stopped, failed or was lost with the portal
\* between link and sync, or beside another job, and never in a bucket: one process
\* that goes on makes all it records durable.
TakenOnlyAfterStop ==
    (Adapter = "s3" \/ (faults = 0 /\ losses = 0 /\ Cardinality(Procs) = 1)) => target.taken = {}

\* After restore metadata, a restore objects that reports no failure and
\* recover, files are what the snapshot and the markers listed at the target say:
\* no deletion comes undone, and a committed file is readable in two domains,
\* unless its data is a taken entry that was missing in the listing.
RestoredFaithful ==
    [][(db.pending /\ ~db'.pending /\ restoring.done) =>
        \A f \in Files :
            /\ Marker(f) \in restoring.listed => db'.st[f] = "deleted"
            /\ (f \in restoring.base /\ Marker(f) \notin restoring.listed /\ Data(f) \notin restoring.missing)
                 => db'.st[f] \in {"committed", "deleted"} /\ Spread(Holders(Data(f)))]_vars

\* Repeated jobs end with a shipped snapshot of the present content and every
\* object of the history verified, where nothing is lost.
BackupConverges ==
    (MaxJobs = 0 /\ MaxPower = 0 /\ MaxLosses = 0) => <>[](db.shipped = db.gen /\ History(db) \subseteq db.verified)

\* What was shipped can be restored, and is what is restored (run_backup,
\* DirectoryTarget::put_new, restore_objects).
BackupRestorable == [](TypeOK /\ SnapshotComplete /\ VerifiedDurable /\ TakenOnlyAfterStop) /\ RestoredFaithful
=============================================================================
