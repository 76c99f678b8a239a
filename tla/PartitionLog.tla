---------------------------- MODULE PartitionLog ----------------------------
(***************************************************************************)
(* One partition of the vector index: its write-ahead log in segments, its *)
(* snapshots, the idempotency window, recovery, truncation of the log and  *)
(* compaction.  Sources: partition.rs, wal.rs, snapshot.rs (crate          *)
(* distr-hnsw-index).                                                      *)
(*                                                                         *)
(* A mutation is one call (mutate), but the process can stop or the power  *)
(* can fail between its append, its fdatasync and its acknowledgement, so  *)
(* each of those is an action.  Calls on an open partition do not overlap  *)
(* (&mut self, under the directory lock); only a compaction spans calls.   *)
(*                                                                         *)
(* Abstractions                                                            *)
(*  - An operation id stands for its request: its key, and whether it      *)
(*    deletes it.  The live record of a key is the operation that wrote it.*)
(*  - A frame of the log knows where its bytes are:                        *)
(*      "cache"    written, in the page cache only                         *)
(*      "dropped"  the same, but its pages were marked clean by a failed   *)
(*                 fdatasync, so no later one writes them                  *)
(*      "disk"     durable                                                 *)
(*      "bad"      torn or damaged: its checksum does not match            *)
(*    Readers see the page cache until the power fails.                    *)
(*  - The rotation size is SegCap frames.  A new segment file's directory  *)
(*    entry is durable once its header is (create_segment syncs both).     *)
(*  - Slots, vectors and the graph are not modelled: a search reads them,  *)
(*    and what it may return is the live record of a key.  Requests that   *)
(*    are refused before they reach the log change nothing.                *)
(***************************************************************************)
EXTENDS Integers, Sequences, FiniteSets, SequencesExt

CONSTANTS
    Ops,            \* operation ids; clients retry them at any time
    KeyOf,          \* the key each operation writes
    Deletes,        \* the operations that delete their key
    Window,         \* config.idempotency_window
    SegCap,         \* frames a segment holds before the next append rotates
    MaxSeq,         \* bound on sequence numbers
    Settings,       \* how a partition may have been made, and how often its process
                    \* stops, its power is cut, a call fails and stored bytes rot
    None            \* no value

Faults == {"stop", "cut", "error", "rot"}

ASSUME PartitionAssumption ==
    /\ Deletes \subseteq Ops
    /\ Window \in Nat \ {0} /\ SegCap \in Nat \ {0} /\ MaxSeq \in Nat
    /\ Settings \subseteq [bulk : BOOLEAN, faults : [Faults -> Nat]]

Keys == {KeyOf[o] : o \in Ops}

VARIABLES
    segs,       \* the segment files, in the order of their first sequence
    snaps,      \* the snapshot file at each high-water mark, or None
    pc,         \* where the process is
    mem,        \* the partition in memory
    snapHw,     \* snapshot_high_water
    cur,        \* the segment the writer appends to, by its first sequence
    poisoned,   \* the writer refuses appends
    req,        \* the mutation under way
    plan,       \* the captured state of a compaction, or None
    acks,       \* what clients were told (history)
    setting,    \* the one of Settings this partition has
    left        \* the faults that remain of it

vars == <<segs, snaps, pc, mem, snapHw, cur, poisoned, req, plan, acks, setting, left>>
disk == <<segs, snaps>>
writer == <<snapHw, cur, poisoned, req, plan>>

-----------------------------------------------------------------------------
(* The state in memory: partition.rs *)

\* config.base_snapshot: bulk_load made the partition.
BulkLoaded == setting.bulk

\* log is history: every operation the state reflects, by sequence number.
Empty == [hw     |-> 0,
          live   |-> [k \in Keys |-> IF BulkLoaded THEN "bulk" ELSE None],
          window |-> <<>>,
          log    |-> <<>>]

InWindow(w, o) == \E i \in DOMAIN w : w[i].op = o
SeqIn(w, o) == w[CHOOSE i \in DOMAIN w : w[i].op = o].seq

\* IdempotencyWindow::record: a known id keeps its place; the oldest leaves.
Record(w, o, n) ==
    LET known  == [i \in DOMAIN w |-> IF w[i].op = o THEN [op |-> o, seq |-> n] ELSE w[i]]
        longer == IF InWindow(w, o) THEN known ELSE Append(w, [op |-> o, seq |-> n])
    IN  IF Len(longer) > Window THEN Tail(longer) ELSE longer

\* Partition::apply, shared by mutations, replay and compaction.
Applied(st, e) ==
    [hw     |-> e.seq,
     live   |-> [st.live EXCEPT ![KeyOf[e.op]] = IF e.op \in Deletes THEN None ELSE e.op],
     window |-> Record(st.window, e.op, e.seq),
     log    |-> Append(st.log, e.op)]

-----------------------------------------------------------------------------
(* The log on disk: wal.rs *)

NewSegment(first) == [first |-> first, headed |-> TRUE, entries |-> <<>>]
Headless(first)   == [first |-> first, headed |-> FALSE, entries |-> <<>>]

Frame(o, n, at) == [op |-> o, seq |-> n, at |-> at]
Readable(e) == e.at # "bad"

\* read_segment: the frames before the first unreadable one.  Only the newest
\* segment may have a torn tail, and only if no readable frame follows it.
FirstBad(s) ==
    IF \E i \in DOMAIN s.entries : ~Readable(s.entries[i])
    THEN CHOOSE i \in DOMAIN s.entries :
            /\ ~Readable(s.entries[i])
            /\ \A j \in 1..(i - 1) : Readable(s.entries[j])
    ELSE Len(s.entries) + 1

Torn(s) == ~s.headed \/ FirstBad(s) <= Len(s.entries)

ReadOK(s, active) ==
    /\ s.headed \/ active
    /\ Torn(s) => active /\ \A j \in FirstBad(s)..Len(s.entries) : ~Readable(s.entries[j])
    /\ \A i \in 1..(FirstBad(s) - 1) : s.entries[i].seq = s.first + i - 1

Read(s) == SubSeq(s.entries, 1, FirstBad(s) - 1)
LastSeq(s) == s.first - 1 + Len(Read(s))

Moved(s, at) ==
    [s EXCEPT !.entries = [i \in DOMAIN @ |->
        IF @[i].at = "cache" THEN [@[i] EXCEPT !.at = at] ELSE @[i]]]

\* sync_data, sync_all: the dirty pages of one file reach the disk.  When they
\* fail, the pages stay dirty or are dropped.
Synced(s) == Moved(s, "disk")
Unsynced(s) == {Moved(s, "cache"), Moved(s, "dropped")}

\* truncate_torn_tail on the newest segment, if recovery found one torn.
Repaired ==
    IF segs = <<>> \/ ~Torn(Last(segs)) THEN segs
    ELSE IF ~Last(segs).headed THEN Front(segs)
    ELSE Append(Front(segs), Synced([Last(segs) EXCEPT !.entries = Read(Last(segs))]))

-----------------------------------------------------------------------------
(* Partition::recover *)

\* Entries at or below the high-water mark are skipped; a gap is an error.
Step(r, e) ==
    IF ~r.ok \/ e.seq <= r.st.hw THEN r
    ELSE [ok |-> e.seq = r.st.hw + 1, st |-> Applied(r.st, e)]

Replay(st, entries) == FoldLeft(Step, [ok |-> TRUE, st |-> st], entries)

AllEntries(ss) == FlattenSeq([i \in DOMAIN ss |-> Read(ss[i])])

Usable == {h \in DOMAIN snaps : snaps[h] # None /\ snaps[h].ok}
Newest == CHOOSE h \in Usable : \A g \in Usable : g <= h
\* Mutant: the window of the snapshot is not loaded.
BaseStateForgetful ==
    IF Usable = {} THEN [Empty EXCEPT !.live = [k \in Keys |-> None]]
    ELSE [snaps[Newest].st EXCEPT !.window = <<>>]

BaseState == IF Usable = {} THEN [Empty EXCEPT !.live = [k \in Keys |-> None]]
             ELSE snaps[Newest].st

\* The log continues from the snapshot and reaches it.  (The code tests each
\* segment against the mark as replay advances it; a segment can only pass
\* that test after an earlier one passed this.)
HistoryOK ==
    IF segs = <<>> THEN BaseState.hw = 0
    ELSE /\ \E i \in DOMAIN segs : segs[i].first <= BaseState.hw + 1
         /\ \E i \in DOMAIN segs : LastSeq(segs[i]) >= BaseState.hw

Recovered == Replay(BaseState, AllEntries(segs))

RecoveryOK ==
    /\ BulkLoaded => Usable # {}
    /\ \A i \in DOMAIN segs : ReadOK(segs[i], i = Len(segs))
    /\ Recovered.ok
    /\ HistoryOK

\* WalWriter::open after last_seq: refuses a newest segment that ends anywhere
\* else.
WriterOK ==
    segs # <<>> => ~Torn(Last(segs)) /\ LastSeq(Last(segs)) = mem.hw

-----------------------------------------------------------------------------
Spend(f) == left[f] > 0 /\ left' = [left EXCEPT ![f] = @ - 1]

\* What the process holds in memory is gone.
Forget ==
    /\ pc' = "down" /\ mem' = Empty
    /\ snapHw' = 0 /\ cur' = 0 /\ poisoned' = FALSE
    /\ req' = None /\ plan' = None
    /\ UNCHANGED acks

InitRest ==
    /\ mem = Empty /\ snapHw = 0 /\ poisoned = FALSE
    /\ req = None /\ plan = None
    /\ acks = {} /\ left = setting.faults

\* Partition::create, or bulk_load with its snapshot at mark 0, completed.
Created ==
    /\ segs = <<NewSegment(1)>>
    /\ snaps = [h \in 0..MaxSeq |->
                   IF h = 0 /\ BulkLoaded THEN [st |-> Empty, ok |-> TRUE, linked |-> TRUE]
                   ELSE None]
    /\ pc = "idle" /\ cur = 1
    /\ InitRest

\* The process stopped after the manifest was durable, before the first
\* segment had its header; a bulk load has no snapshot yet.
Interrupted ==
    /\ segs \in {<<>>, <<Headless(1)>>}
    /\ snaps = [h \in 0..MaxSeq |-> None]
    /\ pc = "down" /\ cur = 0
    /\ InitRest

Init == setting \in Settings /\ (Created \/ Interrupted)

\* Partition::open up to the writer: recover, then repair a torn tail.
Recover ==
    /\ pc = "down" /\ RecoveryOK
    /\ pc' = "opening" /\ mem' = Recovered.st /\ snapHw' = BaseState.hw
    /\ segs' = Repaired
    /\ UNCHANGED <<snaps, cur, poisoned, req, plan, acks, left>>

\* WalWriter::open: extend the newest segment, or start one if it is full.
\* The segment it leaves behind is not synced.
Extends == segs # <<>> /\ Len(Last(segs).entries) < SegCap

OpenWriter ==
    /\ pc = "opening" /\ WriterOK
    /\ segs' = IF Extends THEN segs ELSE Append(segs, NewSegment(mem.hw + 1))
    /\ cur' = Last(segs').first
    /\ pc' = "idle"
    /\ UNCHANGED <<snaps, mem, snapHw, poisoned, req, plan, acks, left>>

\* The new segment could not be completed or opened; open returns an error.
OpenWriterFailed ==
    /\ pc = "opening" /\ WriterOK /\ ~Extends
    /\ Spend("error")
    /\ segs' \in {Append(segs, Headless(mem.hw + 1)), Append(segs, NewSegment(mem.hw + 1))}
    /\ Forget
    /\ UNCHANGED snaps

-----------------------------------------------------------------------------
(* upsert and delete: mutate, sync_and_apply *)

\* The operation is looked up in the window before anything is logged.
Admitted(o) == pc = "idle" /\ ~InWindow(mem.window, o)

CanAppend(o) == Admitted(o) /\ ~poisoned /\ Last(segs).first + Len(Last(segs).entries) <= MaxSeq

\* append_unsynced: rotate syncs the full segment before its successor exists.
MustRotate == Len(Last(segs).entries) >= SegCap
NextSeq == Last(segs).first + Len(Last(segs).entries)

Rotated ==
    IF MustRotate
    THEN Append(Append(Front(segs), Synced(Last(segs))), NewSegment(NextSeq))
    ELSE segs

WithFrame(ss, e) ==
    Append(Front(ss), [Last(ss) EXCEPT !.entries = Append(@, e)])

AppendFrame(o) ==
    /\ CanAppend(o)
    /\ segs' = WithFrame(Rotated, Frame(o, NextSeq, "cache"))
    /\ cur' = Last(segs').first
    /\ req' = [op |-> o, seq |-> NextSeq]
    /\ pc' = "appended"
    /\ UNCHANGED <<snaps, mem, snapHw, poisoned, plan, acks, left>>

\* write_all fails, possibly after part of the frame.
AppendFailed(o) ==
    /\ CanAppend(o) /\ Spend("error")
    /\ segs' \in {Rotated, WithFrame(Rotated, Frame(o, NextSeq, "bad"))}
    /\ cur' = Last(segs').first
    /\ poisoned' = TRUE
    /\ UNCHANGED <<snaps, pc, mem, snapHw, req, plan, acks>>

\* rotate fails: in the sync of the full segment, or with the new file there,
\* its header written or not.
RotateFailed(o) ==
    /\ CanAppend(o) /\ MustRotate /\ Spend("error")
    /\ \/ segs' \in {Append(Front(segs), s) : s \in Unsynced(Last(segs))}
       \/ \E s \in {Headless(NextSeq), NewSegment(NextSeq)} :
             segs' = Append(Append(Front(segs), Synced(Last(segs))), s)
    /\ poisoned' = TRUE
    /\ UNCHANGED <<snaps, pc, mem, snapHw, cur, req, plan, acks>>

\* Mutant: acknowledged before the fdatasync.
SyncSkipped ==
    /\ pc = "appended" /\ pc' = "synced"
    /\ UNCHANGED <<disk, mem, writer, acks, left>>

Sync ==
    /\ pc = "appended" /\ pc' = "synced"
    /\ segs' = Append(Front(segs), Synced(Last(segs)))
    /\ UNCHANGED <<snaps, mem, writer, acks, left>>

\* A failed fdatasync is never retried, and the mutation fails.
SyncFailed ==
    /\ pc = "appended" /\ Spend("error")
    /\ segs' \in {Append(Front(segs), s) : s \in Unsynced(Last(segs))}
    /\ poisoned' = TRUE
    /\ pc' = "idle" /\ req' = None
    /\ UNCHANGED <<snaps, mem, snapHw, cur, plan, acks>>

ApplyAndAcknowledge ==
    /\ pc = "synced" /\ pc' = "idle" /\ req' = None
    /\ mem' = Applied(mem, req)
    /\ acks' = acks \cup {[op |-> req.op, seq |-> req.seq, how |-> "applied"]}
    /\ UNCHANGED <<disk, snapHw, cur, poisoned, plan, left>>

\* A retry within the window is answered from memory.
Deduplicate(o) ==
    /\ pc = "idle" /\ InWindow(mem.window, o)
    /\ acks' = acks \cup {[op |-> o, seq |-> SeqIn(mem.window, o), how |-> "deduplicated"]}
    /\ UNCHANGED <<disk, pc, mem, writer, left>>

-----------------------------------------------------------------------------
(* Snapshots, truncation, compaction *)

Written(st) == [st |-> st, ok |-> TRUE, linked |-> TRUE]

Snapshot ==
    /\ pc = "idle"
    /\ snaps' = [snaps EXCEPT ![mem.hw] = Written(mem)]
    /\ snapHw' = mem.hw
    /\ UNCHANGED <<segs, pc, mem, cur, poisoned, req, plan, acks, left>>

\* The rename happened, the directory sync after it did not: the file is
\* there until the power fails.  (An earlier failure leaves a temporary file.)
SnapshotFailed ==
    /\ pc = "idle" /\ Spend("error")
    /\ mem.hw \notin Usable
    /\ snaps' = [snaps EXCEPT ![mem.hw] = [Written(mem) EXCEPT !.linked = FALSE]]
    /\ UNCHANGED <<segs, pc, mem, writer, acks>>

\* Mutants: one sequence too far; the writer's own segment too.
CoveredTooFar ==
    {i \in 1..(Len(segs) - 1) : segs[i + 1].first <= snapHw + 2 /\ segs[i].first # cur}
\* truncate_wal_below_snapshot: the segments whose successor starts at or
\* below the mark, except the writer's own.
Covered ==
    {i \in 1..(Len(segs) - 1) : segs[i + 1].first <= snapHw + 1 /\ segs[i].first # cur}

Without(removed) ==
    LET kept == {i \in DOMAIN segs : i \notin removed}
    IN  [n \in 1..Cardinality(kept) |->
            segs[CHOOSE i \in kept : Cardinality({j \in kept : j <= i}) = n]]

\* Oldest first; a removal that fails, or a stop, ends it half way.
TruncateWal ==
    /\ pc = "idle"
    /\ \E last \in Covered : segs' = Without({i \in Covered : i <= last})
    /\ UNCHANGED <<snaps, pc, mem, writer, acks, left>>

\* capture_compaction and build: a copy of the live rows at the rebuild point.
CaptureCompaction ==
    /\ pc = "idle" /\ plan = None
    /\ plan' = mem
    /\ UNCHANGED <<disk, pc, mem, snapHw, cur, poisoned, req, acks, left>>

\* finish_compaction: catch up from the log, to the mark and no further.
Missed ==
    SelectSeq(AllEntries(segs), LAMBDA e : plan.hw < e.seq /\ e.seq <= mem.hw)

CaughtUp == FoldLeft(Applied, plan, Missed)

CatchUpOK ==
    /\ \A i \in DOMAIN segs : segs[i].first <= mem.hw => ReadOK(segs[i], i = Len(segs))
    /\ \A i \in DOMAIN Missed : Missed[i].seq = plan.hw + i
    /\ CaughtUp.hw = mem.hw

FinishCompaction ==
    /\ pc = "idle" /\ plan # None /\ CatchUpOK
    /\ snaps' = [snaps EXCEPT ![mem.hw] = Written(CaughtUp)]
    /\ mem' = CaughtUp
    /\ snapHw' = mem.hw
    /\ plan' = None
    /\ UNCHANGED <<segs, pc, cur, poisoned, req, acks, left>>

\* Its snapshot was renamed into place but the directory was not synced.
CompactionFailed ==
    /\ pc = "idle" /\ plan # None /\ CatchUpOK /\ Spend("error")
    /\ mem.hw \notin Usable
    /\ snaps' = [snaps EXCEPT ![mem.hw] = [Written(CaughtUp) EXCEPT !.linked = FALSE]]
    /\ plan' = None
    /\ UNCHANGED <<segs, pc, mem, snapHw, cur, poisoned, req, acks>>

\* The log it needs was truncated meanwhile, or cannot be read.
CompactionRefused ==
    /\ pc = "idle" /\ plan # None /\ ~CatchUpOK
    /\ plan' = None
    /\ UNCHANGED <<disk, pc, mem, snapHw, cur, poisoned, req, acks, left>>

-----------------------------------------------------------------------------
(* Faults *)

\* The process ends, or drops the partition to open it again; the page cache
\* stays.
Stop ==
    /\ pc # "down" /\ Spend("stop")
    /\ Forget
    /\ UNCHANGED disk

\* What the power leaves of a segment: every durable frame; of the others any,
\* whole or torn, and the file may end after the last durable one.
LastDurable(s) ==
    LET durable == {i \in DOMAIN s.entries : s.entries[i].at = "disk"}
    IN  IF durable = {} THEN 0 ELSE CHOOSE i \in durable : \A j \in durable : j <= i

Images(s) ==
    UNION {{[s EXCEPT !.entries = [i \in 1..n |-> [@[i] EXCEPT !.at = f[i]]]] :
               f \in {g \in [1..n -> {"disk", "bad"}] :
                         \A i \in 1..n : s.entries[i].at \in {"disk", "bad"}
                                            => g[i] = s.entries[i].at}} :
           n \in LastDurable(s)..Len(s.entries)}

CutPower(ss) ==
    /\ segs' \in {t \in [DOMAIN ss -> UNION {Images(ss[i]) : i \in DOMAIN ss}] :
                     \A i \in DOMAIN ss : t[i] \in Images(ss[i])}
    /\ snaps' \in {t \in [DOMAIN snaps -> {None} \cup {[snaps[h] EXCEPT !.linked = TRUE] :
                                                          h \in {g \in DOMAIN snaps : snaps[g] # None}}] :
                     \A h \in DOMAIN snaps :
                        \/ snaps[h] = None /\ t[h] = None
                        \/ snaps[h] # None /\ t[h] = [snaps[h] EXCEPT !.linked = TRUE]
                        \/ snaps[h] # None /\ ~snaps[h].linked /\ t[h] = None}
    /\ Forget

PowerLoss == Spend("cut") /\ CutPower(segs)

\* The power fails during a truncation, before the directory is synced: any of
\* the removals may have reached the disk.
TruncateCut ==
    /\ pc = "idle" /\ Covered # {} /\ Spend("cut")
    /\ \E removed \in SUBSET Covered : CutPower(Without(removed))

\* Stored bytes rot while the partition is closed: a frame with durable frames
\* after it, or a snapshot.
DamageFrame ==
    /\ pc = "down" /\ Spend("rot")
    /\ \E i \in DOMAIN segs : \E j \in DOMAIN segs[i].entries :
          /\ Readable(segs[i].entries[j])
          /\ \E m \in i..Len(segs) : \E n \in DOMAIN segs[m].entries :
                /\ m > i \/ n > j
                /\ segs[m].entries[n].at = "disk"
          /\ segs' = [segs EXCEPT ![i].entries[j].at = "bad"]
    /\ UNCHANGED <<snaps, pc, mem, writer, acks>>

DamageSnapshot ==
    /\ pc = "down" /\ Spend("rot")
    /\ \E h \in Usable : snaps' = [snaps EXCEPT ![h].ok = FALSE]
    /\ UNCHANGED <<segs, pc, mem, writer, acks>>

-----------------------------------------------------------------------------
Mutation ==
    \/ \E o \in Ops : AppendFrame(o) \/ AppendFailed(o) \/ RotateFailed(o) \/ Deduplicate(o)
    \/ Sync \/ SyncFailed \/ ApplyAndAcknowledge

Upkeep ==
    \/ Snapshot \/ SnapshotFailed \/ TruncateWal
    \/ CaptureCompaction \/ FinishCompaction \/ CompactionFailed
    \/ CompactionRefused

Activity ==
    \/ Recover \/ OpenWriter \/ OpenWriterFailed
    \/ Mutation
    \/ Upkeep
    \/ Stop \/ PowerLoss \/ TruncateCut \/ DamageFrame \/ DamageSnapshot

Next == UNCHANGED setting /\ Activity

Spec == Init /\ [][Next]_vars

-----------------------------------------------------------------------------
(* Properties *)

States == [hw : 0..MaxSeq, live : [Keys -> Ops \cup {None, "bulk"}],
           window : Seq([op : Ops, seq : 1..MaxSeq]), log : Seq(Ops)]

\* Every variable has the shape the code gives it.
TypeOK ==
    /\ \A i \in DOMAIN segs :
          /\ segs[i].first \in 1..(MaxSeq + 1) /\ segs[i].headed \in BOOLEAN
          /\ segs[i].entries \in Seq([op : Ops, seq : 1..MaxSeq,
                                     at : {"cache", "dropped", "disk", "bad"}])
    /\ snaps \in [0..MaxSeq -> {None} \cup [st : States, ok : BOOLEAN, linked : BOOLEAN]]
    /\ pc \in {"down", "opening", "idle", "appended", "synced"}
    /\ mem \in States /\ plan \in {None} \cup States
    /\ snapHw \in 0..MaxSeq /\ cur \in 0..(MaxSeq + 1) /\ poisoned \in BOOLEAN
    /\ req \in {None} \cup [op : Ops, seq : 1..MaxSeq]
    /\ acks \subseteq [op : Ops, seq : 1..MaxSeq, how : {"applied", "deduplicated"}]
    /\ setting \in Settings /\ left \in [Faults -> Nat]

\* The faults of a kind that have happened.
Seen(f) == left[f] < setting.faults[f]

Serving == pc # "down"

\* The record of each key that a log alone determines.
LiveAfter(log, k) ==
    LET writes == {i \in DOMAIN log : KeyOf[log[i]] = k}
        last   == CHOOSE i \in writes : \A j \in writes : j <= i
    IN  CASE writes = {}             -> Empty.live[k]
          [] log[last] \in Deletes -> None
          [] OTHER                   -> log[last]

Faithful(st) ==
    /\ st.hw = Len(st.log)
    /\ \A k \in Keys : st.live[k] = LiveAfter(st.log, k)
    /\ Len(st.window) = (IF st.hw < Window THEN st.hw ELSE Window)
    /\ \A i \in DOMAIN st.window :
          /\ st.window[i].seq = st.hw - Len(st.window) + i
          /\ st.window[i].op = st.log[st.window[i].seq]

\* However a state came about (mutations, replay from any snapshot, compaction
\* with its catch-up), it is what its log says: each key holds its last write,
\* and the window holds exactly the last operations with their sequences.
StateIsReplay ==
    /\ Serving => Faithful(mem)
    /\ \A h \in Usable : Faithful(snaps[h].st) /\ snaps[h].st.hw = h

\* An operation is in the log twice only if at least Window others lie between:
\* retries, reopens and compactions never apply one again sooner.
ExactlyOnce ==
    \A i, j \in DOMAIN mem.log : i < j /\ mem.log[i] = mem.log[j] => j - i > Window

Holds(a) == a.seq <= mem.hw /\ mem.log[a.seq] = a.op

\* A partition that serves has every operation a client was told of, under the
\* sequence number the client was told, whatever stops or loses its power; not if
\* both happened, because what a stopped process left in the page cache is replayed
\* and acknowledged without a sync.
AckedSurvive == Serving /\ ~(Seen("stop") /\ Seen("cut")) => \A a \in acks : Holds(a)

\* Whatever stops or fails, and if a frame rots that durable frames follow, or a
\* snapshot, a partition that opens at all has every operation whose own call was
\* acknowledged; what is lost makes open refuse.  (The last frame of the log, if it
\* rots, cannot be told from a torn write and is cut off.)
NoSilentLoss == Serving => \A a \in acks : a.how = "applied" => Holds(a)

\* A bulk load that never ended is refused.
LoadUnfinished ==
    BulkLoaded /\ segs \in {<<>>, <<Headless(1)>>} /\ \A h \in DOMAIN snaps : snaps[h] = None

\* Unless bytes rot, open succeeds: no stop and no power loss leaves a directory
\* that recovery or the writer refuses (both together may: SealedSynced).
Recoverable ==
    ~Seen("rot") /\ ~(Seen("stop") /\ Seen("cut")) /\ ~LoadUnfinished =>
        /\ pc = "down" => RecoveryOK
        /\ pc = "opening" => WriterOK

\* Contract section 4, rule 3: a segment with a successor is durable, so damage
\* in it is never a torn write.  A process that stops between append and sync is
\* the exception: WalWriter::open leaves a full segment behind unsynced.
SealedSynced ==
    ~Seen("stop") /\ ~Seen("rot") => \A i \in 1..(Len(segs) - 1) :
        segs[i + 1].headed => \A j \in DOMAIN segs[i].entries : segs[i].entries[j].at = "disk"

\* The directory is one that recovery reads, or refuses: no loss goes unseen
\* (Wal::recover, WalWriter::open, Partition::open).
LogIntact == TypeOK /\ Recoverable /\ SealedSynced /\ NoSilentLoss

\* What is served is the replay of the log, in which a retried operation is
\* there once (Partition::mutate, finish_compaction, replay).
AppliedOnce == StateIsReplay /\ ExactlyOnce
=============================================================================
