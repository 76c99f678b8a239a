----------------------------- MODULE MCArchive -----------------------------
(***************************************************************************)
(* What is kept elsewhere, for TLC: backups of the portal (Backup) and     *)
(* archives of a partition (IndexArchive).  They share no variable, so     *)
(* that a property of one holds of both together if it holds while the     *)
(* other rests: a behaviour moves one of them.                             *)
(***************************************************************************)
EXTENDS Backup, TLC

CONSTANTS a1, a2, a3, f1, f2, p1, p2

VARIABLES
    part,           \* which of the two moves
    segs, snaps, high, files, rows, arch, complete, rest, crashes, deletes, partition

archiveVars == <<segs, snaps, high, files, rows, arch, complete, rest, crashes, deletes, partition>>
allVars == <<part, vars, archiveVars>>

TwoProcesses == {p1, p2}
TwoSites == a1 :> "east" @@ a2 :> "west"
TwoSitesThree == a1 :> "east" @@ a2 :> "east" @@ a3 :> "west"

Case(domain, fs, deletable, ps, adapter, bound, failed, cut, lost) ==
    [domain |-> domain, files |-> fs, deletable |-> deletable, procs |-> ps, adapter |-> adapter,
     clock |-> 0, jobs |-> bound, faults |-> failed, power |-> cut, losses |-> lost]

\* Jobs without end, of which two may stop or fail.
Unbounded == Case(TwoSites, {f1}, {f1}, {p1}, "dir", 0, 2, 0, 0)

\* Besides: jobs that overlap, one of which may stop between link and sync, where
\* the target loses power; two files and a power failure; a job that stops between
\* link and sync, another that takes over what it left, a power failure, and a
\* restore after the loss of the portal and of every agent; two jobs beside a delete
\* and a restore of the portal; a bucket, where everything is lost and restored.
BackupCases ==
    {Unbounded,
     Case(TwoSites, {f1}, {f1}, {p1, p2}, "dir", 2, 1, 1, 0),
     Case(TwoSites, {f1, f2}, {f1, f2}, {p1}, "dir", 1, 0, 1, 0),
     Case(TwoSites, {f1}, {}, {p1}, "dir", 2, 1, 1, 2),
     Case(TwoSites, {f1}, {f1}, {p1}, "dir", 2, 0, 0, 1),
     [Case(TwoSitesThree, {f1}, {f1}, {p1}, "s3", 1, 1, 0, 2) EXCEPT !.clock = 1]}

Partition(segcap, bulk, seq, stops, deleted, restored) ==
    [segcap |-> segcap, bulk |-> bulk, seq |-> seq, crashes |-> stops, deletes |-> deleted,
     restores |-> restored]

\* Segments of two entries; archives that are repeated after a delete; a
\* partition that was bulk loaded, archived and restored.
ArchiveCases ==
    {Partition(2, FALSE, 3, 1, 0, 0), Partition(1, FALSE, 2, 1, 1, 0), Partition(1, TRUE, 2, 0, 1, 1)}

Archive == INSTANCE IndexArchive WITH Settings <- ArchiveCases, setting <- partition

ASSUME PartitionAssumption == Archive!ArchiveAssumption

ArchiveInit ==
    /\ part \in {"backup", "archive"}
    /\ Init
    /\ Archive!Init /\ (part = "backup" => partition = Partition(2, FALSE, 3, 1, 0, 0))
    /\ (part = "archive" => setting = Unbounded)

BackupOnly(A) == part = "backup" /\ UNCHANGED <<part, setting, archiveVars>> /\ A
ArchiveOnly(A) == part = "archive" /\ UNCHANGED <<part, partition, vars>> /\ A

\* With the fairness of FairSpec in both modules.
ArchiveSpec ==
    /\ ArchiveInit /\ [][BackupOnly(Next) \/ ArchiveOnly(Archive!Next)]_allVars
    /\ \A p \in Processes : WF_allVars(BackupOnly(p \in Procs /\ (BeginJob(p) \/ JobStep(p))))
    /\ WF_allVars(BackupOnly(GcApply))
    /\ WF_allVars(ArchiveOnly(Archive!BeginArchive)) /\ WF_allVars(ArchiveOnly(Archive!ArchivePart))
    /\ WF_allVars(ArchiveOnly(Archive!CheckVisible)) /\ WF_allVars(ArchiveOnly(Archive!Record))
    /\ SF_allVars(ArchiveOnly(Archive!EndArchive)) /\ WF_allVars(ArchiveOnly(Archive!Reopen))

\* The local partition and its archive recover what they held (archive,
\* candidates, truncate_wal, restore).
ArchiveRestorable == Archive!ArchiveRestorable

\* Repeated backup jobs end with everything verified and shipped (run_backup),
\* and archiving again brings every part back (archive).
JobsConverge ==
    (part = "backup" => BackupConverges) /\ (part = "archive" => Archive!ArchiveConverges)
=============================================================================
