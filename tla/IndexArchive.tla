---------------------------- MODULE IndexArchive ----------------------------
(***************************************************************************)
(* Archive and restore of a vector partition through the blob plane        *)
(* (index_archive.rs, with the index_archives table of metadata.rs).       *)
(*                                                                         *)
(* A partition directory holds WAL segments and snapshots.  `archive` runs *)
(* offline under the directory lock and commits the manifest, every        *)
(* segment and the newest snapshot as files of the portal, one after the   *)
(* other, recording each in index_archives.  The process may die between   *)
(* any two statements, and another portal process may delete a file at any *)
(* moment.  `restore` chooses the rows it needs, downloads them and        *)
(* publishes the directory only if a full recovery succeeds there.         *)
(*                                                                         *)
(* A segment is [end, torn]: it is named after its first sequence number,  *)
(* ends with number `end`, and torn says whether bytes of an unfinished    *)
(* frame follow.  A snapshot is its high-water mark.  A file of the portal *)
(* is the part it was uploaded for, the part's content (which stands for   *)
(* its hash) and whether it replaces a deleted file: together, its         *)
(* idempotency key, which stands for its id.                               *)
(***************************************************************************)
EXTENDS Integers, Sequences, FiniteSets, SequencesExt, FiniteSetsExt

CONSTANT Settings       \* what a partition may be and meet

ArchiveAssumption ==
    \A x \in Settings :
      /\ x.segcap \in Nat \ {0} /\ x.bulk \in BOOLEAN
      /\ {x.seq, x.crashes, x.deletes, x.restores} \subseteq Nat

VARIABLES
    segs,       \* local segments: first sequence number -> [end, torn]
    snaps,      \* high-water marks of the local snapshots
    high,       \* last acknowledged sequence number
    files,      \* files committed at the portal -> whether they are visible
    rows,       \* index_archives: part -> [content, file]
    arch,       \* the archiving process
    complete,   \* `high` when an archive last ended; -1 before
    rest,       \* the restoring process
    crashes, deletes,
    setting     \* the one of Settings this partition has

localVars == <<segs, snaps, high>>
portalVars == <<files, rows>>
faultVars == <<crashes, deletes>>
vars == <<segs, snaps, high, files, rows, arch, complete, rest, crashes, deletes, setting>>

SegCap      == setting.segcap       \* entries a segment holds before the next append rotates
BulkLoaded  == setting.bulk         \* bulk_load made the partition (config.base_snapshot)
MaxSeq      == setting.seq          \* bounds: sequence numbers,
MaxCrashes  == setting.crashes      \*   deaths of the archiving process and torn writes,
MaxDeletes  == setting.deletes      \*   archived files an operator deletes,
MaxRestores == setting.restores     \*   restores

Manifest == <<"manifest", 0>>
Snapshot(h) == <<"snapshot", h>>
Segment(first) == <<"wal_segment", first>>

Unlocked == [pc |-> "idle", todo |-> << >>, replacing |-> FALSE]
NotRestoring == [pc |-> "idle", set |-> [p \in {} |-> 0], floor |-> -1, got |-> -1, runs |-> 0]

Init ==
    /\ setting \in Settings
    /\ segs = [f \in {1} |-> [end |-> 0, torn |-> FALSE]]
    /\ snaps = IF BulkLoaded THEN {0} ELSE {}
    /\ high = 0
    /\ files = [k \in {} |-> TRUE]
    /\ rows = [p \in {} |-> 0]
    /\ arch = Unlocked
    /\ complete = -1
    /\ rest = NotRestoring
    /\ crashes = 0
    /\ deletes = 0

-----------------------------------------------------------------------------
(* What Partition::recover and Wal::open make of a directory that holds    *)
(* the snapshots S and the segments W.                                     *)

Newest(S) == IF S = {} THEN 0 ELSE Max(S)

\* The high-water mark after the replay of every entry above the snapshot.
RecoveredHigh(S, W) == Max({Newest(S)} \cup {W[f].end : f \in DOMAIN W})

Opens(S, W) ==
    LET base == Newest(S)
        firsts == DOMAIN W
    IN  /\ BulkLoaded => S # {}
        /\ \A f \in firsts : W[f].torn => f = Max(firsts)
        /\ \A f \in firsts : W[f].end > base =>
              f <= base + 1 \/ \E g \in firsts : g < f /\ W[g].end >= f - 1
        /\ IF firsts = {} THEN base = 0
           ELSE /\ \E f \in firsts : f <= base + 1
                /\ W[Max(firsts)].end = RecoveredHigh(S, W)

-----------------------------------------------------------------------------
(* The partition's own process, when it holds the lock.                    *)

NewestSegment == Max(DOMAIN segs)

Write ==
    /\ arch.pc = "idle"
    /\ high < MaxSeq
    /\ ~segs[NewestSegment].torn
    /\ high' = high + 1
    /\ LET full == segs[NewestSegment].end - NewestSegment + 1 >= SegCap
           first == IF full THEN high + 1 ELSE NewestSegment
       IN  segs' = [f \in DOMAIN segs \cup {first} |->
                       IF f = first THEN [end |-> high + 1, torn |-> FALSE] ELSE segs[f]]
    /\ UNCHANGED <<snaps, portalVars, arch, complete, rest, faultVars>>

WriteSnapshot ==
    /\ arch.pc = "idle"
    /\ ~segs[NewestSegment].torn
    /\ high \notin snaps
    /\ snaps' = snaps \cup {high}
    /\ UNCHANGED <<segs, high, portalVars, arch, complete, rest, faultVars>>

\* The partition's process dies while it appends a frame.
Tear ==
    /\ arch.pc = "idle"
    /\ crashes < MaxCrashes
    /\ ~segs[NewestSegment].torn
    /\ segs' = [segs EXCEPT ![NewestSegment].torn = TRUE]
    /\ crashes' = crashes + 1
    /\ UNCHANGED <<snaps, high, portalVars, arch, complete, rest, deletes>>

\* The next Partition::open cuts the torn tail off.
Reopen ==
    /\ arch.pc = "idle"
    /\ segs[NewestSegment].torn
    /\ segs' = [segs EXCEPT ![NewestSegment].torn = FALSE]
    /\ UNCHANGED <<snaps, high, portalVars, arch, complete, rest, faultVars>>

-----------------------------------------------------------------------------
(* archive                                                                 *)

Ascending(S) == SetToSortSeq(S, LAMBDA a, b : a < b)
SegmentParts == [i \in 1..Cardinality(DOMAIN segs) |-> Segment(Ascending(DOMAIN segs)[i])]
SnapshotParts == IF snaps = {} THEN << >> ELSE <<Snapshot(Newest(snaps))>>

\* Mutant: the snapshot is committed before the segments.
SnapshotFirst == <<Manifest>> \o SnapshotParts \o SegmentParts

candidates == <<Manifest>> \o SegmentParts \o SnapshotParts

Content(p) ==
    CASE p[1] = "manifest" -> 0
      [] p[1] = "snapshot" -> p[2]
      [] OTHER -> segs[p[2]]

Visible(f) == f \in DOMAIN files /\ files[f]

\* lock and inspect: the verification of the directory repairs nothing.
BeginArchive ==
    /\ arch.pc = "idle"
    /\ Opens(snaps, segs)
    /\ arch' = [Unlocked EXCEPT !.pc = "part", !.todo = candidates]
    /\ UNCHANGED <<localVars, portalVars, complete, rest, faultVars>>

Key(p, replacing) == <<p, Content(p), replacing>>

\* Portal::upload answers with the key's committed file, or commits one.
upload(key) == files' = [k \in DOMAIN files \cup {key} |-> k \in DOMAIN files => files[k]]

\* Mutant: a recorded part counts as unchanged although its file was deleted.
UnchangedByHash(p) == p \in DOMAIN rows /\ rows[p].content = Content(p)

Unchanged(p) ==
    /\ p \in DOMAIN rows
    /\ rows[p].content = Content(p)
    /\ Visible(rows[p].file)

ArchivePart ==
    /\ arch.pc = "part"
    /\ arch.todo # << >>
    /\ LET p == Head(arch.todo)
       IN  \/ /\ Unchanged(p)
              /\ arch' = [arch EXCEPT !.todo = Tail(@)]
              /\ UNCHANGED files
           \/ /\ ~Unchanged(p)
              /\ upload(Key(p, FALSE))
              /\ arch' = [arch EXCEPT !.pc = "check"]
    /\ UNCHANGED <<localVars, rows, complete, rest, faultVars>>

\* The file of the part at hand.
Uploaded == Key(Head(arch.todo), arch.replacing)

\* The check after an upload: the key's file may have been deleted, and a file
\* under a key that names the deleted one takes its place.
CheckVisible ==
    /\ arch.pc = "check"
    /\ \/ /\ Visible(Uploaded)
          /\ arch' = [arch EXCEPT !.pc = "record"]
          /\ UNCHANGED files
       \/ /\ ~Visible(Uploaded)
          /\ ~arch.replacing
          /\ upload(Key(Head(arch.todo), TRUE))
          /\ arch' = [arch EXCEPT !.replacing = TRUE]
       \/ /\ ~Visible(Uploaded)
          /\ arch.replacing        \* "archived part is not visible after upload"
          /\ arch' = Unlocked
          /\ UNCHANGED files
    /\ UNCHANGED <<localVars, rows, complete, rest, faultVars>>

Record ==
    /\ arch.pc = "record"
    /\ LET p == Head(arch.todo)
       IN  rows' = [q \in DOMAIN rows \cup {p} |->
                       IF q = p THEN [content |-> Content(p), file |-> Uploaded]
                       ELSE rows[q]]
    /\ arch' = [arch EXCEPT !.pc = "part", !.todo = Tail(@), !.replacing = FALSE]
    /\ UNCHANGED <<localVars, files, complete, rest, faultVars>>

\* A segment ends before the next one begins.
Covered(next, covered) == next <= covered + 1

\* The segments that some later one follows at or below the snapshot's mark.
WhollyCovered(firsts, covered) ==
    {f \in firsts : LET later == {g \in firsts : g > f}
                    IN  later # {} /\ Covered(Min(later), covered)}

\* truncate_wal: one covered segment goes, the oldest first.
Truncate ==
    /\ arch.pc = "part"
    /\ arch.todo = << >>
    /\ LET gone == WhollyCovered(DOMAIN segs, Newest(snaps))
       IN  /\ gone # {}
           /\ segs' = [f \in DOMAIN segs \ {Min(gone)} |-> segs[f]]
    /\ UNCHANGED <<snaps, high, portalVars, arch, complete, rest, faultVars>>

\* The archive ends, with or without truncate_wal.
EndArchive ==
    /\ arch.pc = "part"
    /\ arch.todo = << >>
    /\ arch' = Unlocked
    /\ complete' = high
    /\ UNCHANGED <<localVars, portalVars, rest, faultVars>>

Crash ==
    /\ arch.pc # "idle"
    /\ crashes < MaxCrashes
    /\ arch' = Unlocked
    /\ crashes' = crashes + 1
    /\ UNCHANGED <<localVars, portalVars, complete, rest, deletes>>

\* `portal delete` of a file that holds an archived part.
DeleteFile(f) ==
    /\ deletes < MaxDeletes
    /\ Visible(f)
    /\ files' = [files EXCEPT ![f] = FALSE]
    /\ deletes' = deletes + 1
    /\ UNCHANGED <<localVars, rows, arch, complete, rest, crashes>>

-----------------------------------------------------------------------------
(* restore                                                                 *)

RowSnapshots == {h \in 0..MaxSeq : Snapshot(h) \in DOMAIN rows}
RowSegments == {f \in 1..MaxSeq : Segment(f) \in DOMAIN rows}

\* The rows a restore needs; none without the manifest.
restore_set ==
    LET covered == Newest(RowSnapshots)
        parts == {Manifest}
                 \cup {Segment(f) : f \in RowSegments \ WhollyCovered(RowSegments, covered)}
                 \cup {Snapshot(h) : h \in RowSnapshots \cap {covered}}
    IN  IF Manifest \in DOMAIN rows THEN [p \in parts |-> rows[p]] ELSE [p \in {} |-> 0]

SetSnapshots(set) == {h \in 0..MaxSeq : Snapshot(h) \in DOMAIN set}
SetSegments(set) ==
    [f \in {f \in 1..MaxSeq : Segment(f) \in DOMAIN set} |-> set[Segment(f)].content]

\* The restored directory recovers as Partition::open requires.
SetOpens(set) == Opens(SetSnapshots(set), SetSegments(set))
SetHigh(set) == RecoveredHigh(SetSnapshots(set), SetSegments(set))

BeginRestore ==
    /\ rest.pc = "idle"
    /\ rest.runs < MaxRestores
    /\ restore_set # [p \in {} |-> 0]
    /\ rest' = [pc |-> "download", set |-> restore_set, floor |-> complete, got |-> -1,
                runs |-> rest.runs + 1]
    /\ UNCHANGED <<localVars, portalVars, arch, complete, faultVars>>

\* Every file is downloaded, checked and recovered in the staging directory
\* before the rename; a failure leaves nothing behind.
EndRestore ==
    /\ rest.pc = "download"
    /\ LET ok == SetOpens(rest.set) /\ \A p \in DOMAIN rest.set : Visible(rest.set[p].file)
       IN  rest' = IF ok THEN [rest EXCEPT !.pc = "published", !.got = SetHigh(rest.set)]
                   ELSE [NotRestoring EXCEPT !.runs = rest.runs]
    /\ UNCHANGED <<localVars, portalVars, arch, complete, faultVars>>

Archive == BeginArchive \/ ArchivePart \/ CheckVisible \/ Record \/ Truncate \/ EndArchive

Activity ==
    \/ Write \/ WriteSnapshot \/ Tear \/ Reopen
    \/ Archive \/ Crash
    \/ \E f \in DOMAIN files : DeleteFile(f)
    \/ BeginRestore \/ EndRestore

Next == UNCHANGED setting /\ Activity

Spec == Init /\ [][Next]_vars

\* The operator runs the archive again whenever it stopped.
FairSpec ==
    /\ Spec
    /\ WF_vars(UNCHANGED setting /\ BeginArchive) /\ WF_vars(UNCHANGED setting /\ ArchivePart)
    /\ WF_vars(UNCHANGED setting /\ CheckVisible) /\ WF_vars(UNCHANGED setting /\ Record)
    /\ SF_vars(UNCHANGED setting /\ EndArchive) /\ WF_vars(UNCHANGED setting /\ Reopen)

-----------------------------------------------------------------------------

Parts == {Manifest} \cup {Snapshot(h) : h \in 0..MaxSeq} \cup {Segment(f) : f \in 1..MaxSeq + 1}
Segments == [end : 0..MaxSeq, torn : BOOLEAN]

\* The values every variable takes: segments and rows of known parts, files
\* that rows and processes name exist.
TypeOK ==
    /\ setting \in Settings
    /\ DOMAIN segs \subseteq 1..MaxSeq + 1 /\ DOMAIN segs # {}
    /\ \A f \in DOMAIN segs : segs[f] \in Segments
    /\ snaps \subseteq 0..high
    /\ high \in 0..MaxSeq
    /\ \A f \in DOMAIN files : files[f] \in BOOLEAN /\ f[1] \in Parts
    /\ DOMAIN rows \subseteq Parts
    /\ \A p \in DOMAIN rows : rows[p].file \in DOMAIN files
    /\ arch.pc \in {"idle", "part", "check", "record"}
    /\ Range(arch.todo) \subseteq Parts
    /\ arch.replacing \in BOOLEAN
    /\ complete \in -1..high
    /\ rest.pc \in {"idle", "download", "published"} /\ rest.got \in -1..MaxSeq /\ rest.runs \in 0..MaxRestores
    /\ crashes \in 0..MaxCrashes /\ deletes \in 0..MaxDeletes

\* Whatever an archive truncated and wherever it stopped, the local directory
\* recovers every acknowledged entry ("copy-first": truncate_wal removes only
\* segments wholly below the archived snapshot).
LocalIntact == Opens(snaps, segs) /\ RecoveredHigh(snaps, segs) = high

\* After the first archive that ended, the recorded rows always form a set
\* that recovers at least what that archive held, also in the middle of a
\* later archive and after one that was interrupted: "an interrupted archive
\* can leave an older snapshot with newer segments (recoverable) but never a
\* newer snapshot with stale segments" (candidates), as long as nobody deletes
\* an archived file.
Restorable == (deletes = 0 /\ complete >= 0) => SetOpens(restore_set) /\ SetHigh(restore_set) >= complete

\* What restore publishes holds at least every entry of the last archive that
\* ended before it read the rows, and nothing that was never acknowledged.
RestoredFaithful == rest.pc = "published" => rest.got >= rest.floor /\ rest.got <= high

\* Every part of the directory is recorded with its content in a visible file.
Archived ==
    \A p \in Range(candidates) :
        p \in DOMAIN rows /\ rows[p].content = Content(p) /\ Visible(rows[p].file)

\* However files were deleted and wherever archives stopped, running archive
\* again brings every part back: "a part counts as unchanged only when its
\* recorded hash matches and the recorded file is still visible; otherwise it
\* is uploaded again" (archive), as long as no part's file is deleted twice.
ArchiveConverges == MaxDeletes <= 1 => <>[]Archived

\* The local partition and the archive both recover what they held, and a
\* restore publishes it (archive, candidates, truncate_wal, restore).
ArchiveRestorable == TypeOK /\ LocalIntact /\ Restorable /\ RestoredFaithful
=============================================================================
