-------------------------- MODULE SchemaMigration ---------------------------
(***************************************************************************)
(* Opening the metadata database (crates/distr-hnsw/src/metadata.rs,       *)
(* Database::open): the version is read, the old forms are migrated and    *)
(* the current schema is applied, by several processes at once, each of    *)
(* which may die between two steps.  A transaction, a statement outside of *)
(* one, or a batch of statements of which each does nothing where it was   *)
(* done before (CREATE ... IF NOT EXISTS, INSERT OR IGNORE) is one step.   *)
(* SQLite with synchronous = FULL is external.                             *)
(*                                                                         *)
(* A table is known by the form migration looks at; a file stands for its  *)
(* row, its manifest and chunk rows and one placement.  A version 2 that   *)
(* no release wrote, which open refuses as ambiguous, is not among the old *)
(* databases.                                                              *)
(***************************************************************************)
EXTENDS Naturals, Sequences, SequencesExt

CONSTANTS
    Processes,
    Files,
    OldFiles,           \* the files an old database holds
    Versions,           \* the versions an old database may have
    MaxCrashes          \* bound on the crashes

ASSUME OldAssumption == OldFiles \subseteq Files /\ Versions \subseteq 0..12

VARIABLES
    db,             \* the database file
    pc,             \* a process is "closed", "opening" or "open"
    todo,           \* the steps Database::open has left
    saw,            \* what it read of the schema outside a transaction
    truth,          \* the rows that were committed by those who use the database
    crashes

vars == <<db, pc, todo, saw, truth, crashes>>

SchemaVersion == 11

Groups == {"lifecycle", "meta", "backup", "gc", "archive", "trigger", "access", "identity"}
LeaseTables == {"reconcile_jobs", "backup_jobs"}

\* The groups of tables a database of a version has.
GroupsAt(v) ==
    {g \in Groups : \/ g = "lifecycle" /\ v >= 4
                    \/ g = "meta" /\ v >= 5
                    \/ g = "backup" /\ v >= 6
                    \/ g = "gc" /\ v >= 7
                    \/ g = "archive" /\ v >= 8
                    \/ g = "trigger" /\ v >= 9
                    \/ g = "access" /\ v >= 10
                    \/ g = "identity" /\ v >= 11}

\* The forms the columns of versions 1 and 2 came in.
OldColumns(v) ==
    IF v = 1 THEN {{}}
    ELSE IF v = 2 THEN {{"upload"}, {"history"}, {"upload", "history"}, {"upload", "history", "file"}}
    ELSE IF v = 0 THEN {{}} ELSE {{"upload", "history", "file"}}

NewRow == [incarnation |-> "none", state |-> "confirmed"]

\* columns: "upload" and "file", the envelope columns of the two chunk tables;
\* "history", the tables of file_manifests and deletions and the new form of files.
Old(v, columns) ==
    LET files == IF v = 0 THEN {} ELSE OldFiles
    IN  [version |-> v,
         columns |-> columns,
         placements |-> IF v = 0 THEN "absent" ELSE IF v < 4 THEN "v3" ELSE IF v < 7 THEN "v4" ELSE "v7",
         made |-> GroupsAt(v),
         leases |-> IF v >= 9 THEN LeaseTables ELSE {},
         files |-> files,
         manifests |-> IF "history" \in columns THEN files ELSE {},
         placed |-> [f \in files |-> [incarnation |-> IF v < 4 THEN "none" ELSE "observed",
                                       state |-> "confirmed"]]]

Init ==
    /\ \E v \in Versions : \E columns \in OldColumns(v) : db = Old(v, columns)
    /\ pc = [p \in Processes |-> "closed"]
    /\ todo = [p \in Processes |-> << >>] /\ saw = [p \in Processes |-> {}]
    /\ truth = [files |-> db.files, placed |-> db.placed]
    /\ crashes = 0

-----------------------------------------------------------------------------
\* apply_schema, apply_v9 in the middle of it.
ApplySchema ==
    <<"base", "lifecycle", "meta", "backup", "gc", "archive",
      "look_reconcile_jobs", "lease_reconcile_jobs", "look_backup_jobs", "lease_backup_jobs",
      "trigger", "access", "identity", "version">>

\* The match on the version.
Path(v) ==
    IF v = 1 THEN <<"projection", "base", "v4">> \o ApplySchema
    ELSE IF v = 2 THEN <<"look_upload", "look_history", "look_file", "to_v3", "base", "v4">> \o ApplySchema
    ELSE IF v = 3 THEN <<"v4">> \o ApplySchema
    ELSE IF v \in 4..6 THEN <<"v7">> \o ApplySchema
    ELSE ApplySchema

\* Database::open reads the version; an unknown one is refused.
Open(p) ==
    /\ pc[p] = "closed" /\ db.version <= SchemaVersion
    /\ pc' = [pc EXCEPT ![p] = "opening"]
    /\ todo' = [todo EXCEPT ![p] = Path(db.version)]
    /\ saw' = [saw EXCEPT ![p] = {}]
    /\ UNCHANGED <<db, truth, crashes>>

At(p, step) == pc[p] = "opening" /\ todo[p] # << >> /\ Head(todo[p]) = step

Proceed(p) ==
    /\ todo' = [todo EXCEPT ![p] = Tail(@)]
    /\ pc' = [pc EXCEPT ![p] = IF Len(todo[p]) = 1 THEN "open" ELSE @]

\* A statement fails, its transaction is rolled back and open returns the error.
Fails(p) ==
    /\ pc' = [pc EXCEPT ![p] = "closed"] /\ todo' = [todo EXCEPT ![p] = << >>]
    /\ UNCHANGED db

\* A step that writes the database, unless it fails.
Writes(p, fails, new) ==
    /\ IF fails THEN Fails(p) ELSE Proceed(p) /\ db' = new
    /\ UNCHANGED <<saw, truth, crashes>>

-----------------------------------------------------------------------------
\* migrate_projection_schema_to_v3: columns that are there already cannot be
\* added, tables that are there cannot be created.
ProjectionToV3(p, addUpload) ==
    Writes(p, "history" \in db.columns \/ (addUpload /\ "upload" \in db.columns),
           [db EXCEPT !.columns = {"upload", "history", "file"}, !.version = 3,
                      !.placements = "v3", !.manifests = db.files])

\* migrate_recovery_schema_to_v3
RecoveryToV3(p, add) ==
    Writes(p, add \cap db.columns # {},
           [db EXCEPT !.columns = @ \cup add, !.version = 3])

MigrateV1ToV3(p) == At(p, "projection") /\ ProjectionToV3(p, TRUE)

\* migrate_v2_to_v3 looks at the columns and tables, one after the other.
Look(p) ==
    \E column \in {"upload", "history", "file"} :
        /\ At(p, "look_" \o column)
        /\ saw' = [saw EXCEPT ![p] = IF column \in db.columns THEN @ \cup {column} ELSE @]
        /\ Proceed(p)
        /\ UNCHANGED <<db, truth, crashes>>

\* A version 2 of no known form is refused.
MigrateV2ToV3(p) ==
    /\ At(p, "to_v3")
    /\ IF "history" \in saw[p]
       THEN IF "upload" \in saw[p] THEN RecoveryToV3(p, {"file"} \ saw[p])
            ELSE RecoveryToV3(p, {"upload", "file"})
       ELSE IF "upload" \in saw[p] THEN ProjectionToV3(p, FALSE)
            ELSE Writes(p, TRUE, db)

\* The rows of a rebuilt table, with the columns of version 3 only.
Narrowed(placed) == [f \in DOMAIN placed |-> [placed[f] EXCEPT !.incarnation = "none"]]

\* Mutant: the rebuild does not look whether it was done.
MigrateV3ToV4Again(p) ==
    /\ At(p, "v4")
    /\ Writes(p, FALSE, [db EXCEPT !.placements = "v7", !.placed = Narrowed(@), !.made = @ \cup {"lifecycle"}])

\* migrate_v3_to_v4: the transaction does not write a version.
MigrateV3ToV4(p) ==
    /\ At(p, "v4")
    /\ Writes(p, FALSE,
              IF db.placements = "v3"
              THEN [db EXCEPT !.placements = "v7", !.placed = Narrowed(@), !.made = @ \cup {"lifecycle"}]
              ELSE [db EXCEPT !.made = @ \cup {"lifecycle"}])

\* migrate_to_v7
MigrateToV7(p) ==
    /\ At(p, "v7")
    /\ Writes(p, FALSE, [db EXCEPT !.placements = "v7"])

\* BASE_SCHEMA creates what is not there, in its current form.
ApplyBase(p) ==
    /\ At(p, "base")
    /\ Writes(p, FALSE,
              [db EXCEPT !.placements = IF @ = "absent" THEN "v7" ELSE @,
                         !.columns = @ \cup {"history"}
                                       \cup (IF db.placements = "absent" THEN {"upload"} ELSE {})
                                       \cup (IF "history" \in @ THEN {} ELSE {"file"})])

\* The other groups of tables, and apply_v9's trigger.
ApplyGroup(p) ==
    \E g \in Groups : At(p, g) /\ Writes(p, FALSE, [db EXCEPT !.made = @ \cup {g}])

\* apply_v9 looks for a column, outside a transaction, and adds it if it is missing.
LookForLease(p) ==
    \E t \in LeaseTables :
        /\ At(p, "look_" \o t)
        /\ saw' = [saw EXCEPT ![p] = IF t \in db.leases THEN @ \cup {t} ELSE @]
        /\ Proceed(p)
        /\ UNCHANGED <<db, truth, crashes>>

AddLease(p) ==
    \E t \in LeaseTables :
        /\ At(p, "lease_" \o t)
        /\ Writes(p, t \notin saw[p] /\ t \in db.leases, [db EXCEPT !.leases = @ \cup {t}])

SetVersion(p) == At(p, "version") /\ Writes(p, FALSE, [db EXCEPT !.version = SchemaVersion])

\* The process dies.
Crash(p) ==
    /\ crashes < MaxCrashes /\ pc[p] # "closed"
    /\ crashes' = crashes + 1
    /\ pc' = [pc EXCEPT ![p] = "closed"] /\ todo' = [todo EXCEPT ![p] = << >>]
    /\ UNCHANGED <<db, saw, truth>>

-----------------------------------------------------------------------------
\* Those who have the database open use it (CommitSpine, Maintenance): a file
\* is committed, an agent's incarnation is observed, a placement is orphaned.
Store(placed) ==
    /\ db' = [db EXCEPT !.files = DOMAIN placed, !.manifests = DOMAIN placed, !.placed = placed]
    /\ truth' = [files |-> DOMAIN placed, placed |-> placed]
    /\ UNCHANGED <<pc, todo, saw, crashes>>

Commit(p, f) ==
    /\ pc[p] = "open" /\ f \notin db.files
    /\ Store([g \in db.files \cup {f} |-> IF g = f THEN NewRow ELSE db.placed[g]])

Adopt(p, f) ==
    /\ pc[p] = "open" /\ f \in db.files /\ db.placed[f].incarnation = "none"
    /\ Store([db.placed EXCEPT ![f].incarnation = "observed"])

Orphan(p, f) ==
    /\ pc[p] = "open" /\ f \in db.files /\ db.placed[f].state = "confirmed"
    /\ Store([db.placed EXCEPT ![f].state = "orphaned"])

Opening(p) ==
    \/ Open(p) \/ MigrateV1ToV3(p) \/ Look(p) \/ MigrateV2ToV3(p) \/ MigrateV3ToV4(p)
    \/ MigrateToV7(p) \/ ApplyBase(p) \/ ApplyGroup(p) \/ LookForLease(p) \/ AddLease(p)
    \/ SetVersion(p)

Next ==
    \E p \in Processes :
        \/ Opening(p)
        \/ Crash(p)
        \/ \E f \in Files : Commit(p, f) \/ Adopt(p, f) \/ Orphan(p, f)

Spec == Init /\ [][Next]_vars

\* A process that is opening goes on, and one that has ended is started again.
FairSpec == Spec /\ \A p \in Processes : WF_vars(Opening(p))

-----------------------------------------------------------------------------
Rows == [incarnation : {"none", "observed"}, state : {"confirmed", "orphaned"}]

\* The rows are such as their table admits: no incarnation before version 4,
\* nothing orphaned before version 7; and whoever has run the rebuild has left
\* the old table behind.
TypeOK ==
    /\ db.version \in 0..12
    /\ db.columns \subseteq {"upload", "history", "file"}
    /\ db.made \subseteq Groups /\ db.leases \subseteq LeaseTables
    /\ DOMAIN db.placed \subseteq Files
    /\ \A f \in DOMAIN db.placed :
           /\ db.placed[f] \in Rows
           /\ db.placements = "v3" => db.placed[f].incarnation = "none"
           /\ db.placements # "v7" => db.placed[f].state # "orphaned"
    /\ \A p \in Processes : pc[p] = "opening" /\ Len(todo[p]) < Len(ApplySchema) =>
           db.placements \notin {"absent", "v3"}

\* Every row that was ever committed is there, with what was last written to
\* it, however many processes migrate at once and wherever they die: no
\* rebuild runs over rows that are newer than the table it was written for.
RowsKept ==
    /\ db.files = truth.files /\ db.placed = truth.placed
    /\ "history" \in db.columns => db.manifests = db.files

Complete ==
    /\ db.columns = {"upload", "history", "file"}
    /\ db.placements = "v7" /\ db.made = Groups /\ db.leases = LeaseTables

\* A database that says it is current has every table, column and state.
VersionHonest == db.version = SchemaVersion => Complete

\* Whoever got the database open has all of the schema under it, also while
\* another process still migrates from a version it read earlier.
OpenComplete == (\E p \in Processes : pc[p] = "open") => Complete

\* After crashes at any statement every process gets the database open.
OpensAgain == <>[](\A p \in Processes : pc[p] = "open")

\* Migration loses no row and nobody works on half a schema (Database::open).
SchemaSound == TypeOK /\ RowsKept /\ VersionHonest /\ OpenComplete
================================================================================
