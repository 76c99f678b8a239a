------------------------------- MODULE SlotTable -------------------------------
(***************************************************************************)
(* The tables of a partition (crates/distr-hnsw-index/src/partition.rs):     *)
(* keys, slot records, vectors and the graph's tombstone bitmap, as upserts,  *)
(* deletes, compaction beside them, snapshots and recovery change them.       *)
(* A snapshot is what snapshot.rs writes and checks on load.                  *)
(*                                                                          *)
(* The log is whole here; what a crash does to it is PartitionLog's matter,   *)
(* and what the links look like HnswGraph's and ParallelBuild's.              *)
(***************************************************************************)
EXTENDS Integers, Sequences, SequencesExt, FiniteSets

CONSTANTS
    Keys,
    Values,             \* what a record holds: a vector and a payload
    Base,               \* the value of a bulk-loaded record, its payload empty
    PayloadOf,          \* the payload of each value, a sequence
    BaseKeys,           \* the keys of a bulk load, in its order
    WordBits,           \* slots per word of the bitmap (the code has 64)
    MaxEntries,         \* bound on the log
    None

WordAssumption == WordBits \in Nat \ {0}

VARIABLES
    st,             \* the served state
    log,            \* the entries of the write-ahead log
    plan,           \* the compaction under way: None, captured or built
    snap            \* the newest snapshot, None at first

vars == <<st, log, plan, snap>>

Max32 == 0          \* the code's u32::MAX: no live slot (slots count from 1 here)

Empty == [table |-> << >>, keys |-> [k \in {} |-> 0], slots |-> << >>, vectors |-> << >>,
          words |-> 0, masked |-> {}, hw |-> 0]

CeilDiv(n, d) == (n + d - 1) \div d

\* bulk_load: one key per row, empty payloads, the bitmap of build_parallel.
BulkLoaded ==
    LET n == Len(BaseKeys)
    IN  [table |-> BaseKeys,
         keys |-> [k \in ToSet(BaseKeys) |->
                      LET i == CHOOSE i \in 1..n : BaseKeys[i] = k IN [index |-> i, live |-> i]],
         slots |-> [i \in 1..n |-> [version |-> 0, tombstone |-> FALSE, key |-> i, payload |-> PayloadOf[Base]]],
         vectors |-> [i \in 1..n |-> Base],
         words |-> CeilDiv(n, WordBits), masked |-> {}, hw |-> 0]

-----------------------------------------------------------------------------
\* The index of a key in the key table, a new one at its end.
Index(s, k) == IF k \in DOMAIN s.keys THEN s.keys[k].index ELSE Len(s.table) + 1

Live(s, k) == IF k \in DOMAIN s.keys THEN s.keys[k].live ELSE Max32

\* Hnsw::insert: the row, and a word when the bitmap has no bit for it.
Inserted(s, v) ==
    LET vectors == Append(s.vectors, v)
    IN  [s EXCEPT !.vectors = vectors,
                  !.words = IF s.words * WordBits < Len(vectors) THEN s.words + 1 ELSE s.words]

\* Hnsw::tombstone and the record's flag.
Tombstoned(s, slot) ==
    IF slot = Max32 THEN s
    ELSE [s EXCEPT !.masked = @ \cup {slot}, !.slots[slot].tombstone = TRUE]

WithKey(s, k, entry) == [s EXCEPT !.keys = [j \in DOMAIN s.keys \cup {k} |-> IF j = k THEN entry ELSE s.keys[j]]]

\* apply, an upsert
Upserted(s, k, v) ==
    LET index == Index(s, k)
        masked == Tombstoned(Inserted(s, v), Live(s, k))
        named == [masked EXCEPT !.table = IF k \in DOMAIN s.keys THEN @ ELSE Append(@, k)]
    IN  [WithKey(named, k, [index |-> index, live |-> Len(s.vectors) + 1]) EXCEPT
            !.slots = Append(@, [version |-> s.hw + 1, tombstone |-> FALSE, key |-> index,
                                 payload |-> PayloadOf[v]]),
            !.hw = @ + 1]

\* Mutant: a deleted key keeps its slot.
DeletedKept(s, k) == [Tombstoned(s, Live(s, k)) EXCEPT !.hw = @ + 1]

\* apply, a delete
Deleted(s, k) ==
    LET masked == Tombstoned(s, Live(s, k))
        gone == IF Live(s, k) = Max32 THEN masked
                ELSE WithKey(masked, k, [index |-> Index(s, k), live |-> Max32])
    IN  [gone EXCEPT !.hw = @ + 1]

Applied(s, e) == IF e.value = None THEN Deleted(s, e.key) ELSE Upserted(s, e.key, e.value)

\* Mutant: the first entry after the rebuild point is skipped.
AfterNext(hw) == SubSeq(log, hw + 2, Len(log))

\* The entries after a sequence number, in order.
After(hw) == SubSeq(log, hw + 1, Len(log))

-----------------------------------------------------------------------------
\* The old slots a rebuild keeps, in slot order.
Survivors(s) == SelectSeq([i \in 1..Len(s.slots) |-> i], LAMBDA i : ~s.slots[i].tombstone)

\* capture_compaction
Captured(s) ==
    LET old == Survivors(s)
    IN  [s |-> s, old |-> old, built |-> FALSE,
         slots |-> [i \in DOMAIN old |-> s.slots[old[i]]],
         vectors |-> [i \in DOMAIN old |-> s.vectors[old[i]]]]

\* old_to_new
Renumbered(old, slot) ==
    IF slot \in ToSet(old) THEN CHOOSE i \in DOMAIN old : old[i] = slot ELSE Max32

\* build: a graph over the kept rows, and the keys renumbered.
Built(c) ==
    [table |-> c.s.table,
     keys |-> [k \in DOMAIN c.s.keys |-> [c.s.keys[k] EXCEPT !.live = Renumbered(c.old, @)]],
     slots |-> c.slots, vectors |-> c.vectors,
     words |-> CeilDiv(Len(c.vectors), WordBits), masked |-> {}, hw |-> c.s.hw]

-----------------------------------------------------------------------------
Offset(slots, i) == FoldLeft(LAMBDA n, r : n + Len(r.payload), 0, SubSeq(slots, 1, i - 1))

\* The sections snapshot and encode_section write.
Encoded(s) ==
    [keys |-> [i \in 1..Len(s.table) |-> [key |-> s.table[i], live |-> Live(s, s.table[i])]],
     slots |-> [i \in 1..Len(s.slots) |->
                   [version |-> s.slots[i].version, tombstone |-> s.slots[i].tombstone,
                    key |-> s.slots[i].key,
                    offset |-> Offset(s.slots, i), length |-> Len(s.slots[i].payload)]],
     payloads |-> FlattenSeq([i \in 1..Len(s.slots) |-> s.slots[i].payload]),
     vectors |-> s.vectors,
     words |-> s.words, masked |-> s.masked, count |-> Cardinality(s.masked), hw |-> s.hw]

\* load's and from_parts' checks of the shape, and validate_structure: every
\* reference has a target, and bitmap, flags and count agree.
ValidateStructure(f) ==
    /\ Len(f.vectors) = Len(f.slots)
    /\ f.words = CeilDiv(Len(f.slots), WordBits)
    /\ \A i \in 1..Len(f.slots) :
           /\ f.slots[i].offset + f.slots[i].length <= Len(f.payloads)
           /\ (i \in f.masked) = f.slots[i].tombstone
           /\ f.slots[i].key \in 1..Len(f.keys)
    /\ Cardinality({i \in 1..Len(f.slots) : f.slots[i].tombstone}) = f.count
    /\ \A i \in 1..Len(f.keys) :
           f.keys[i].live # Max32 =>
               /\ f.keys[i].live \in 1..Len(f.slots)
               /\ ~f.slots[f.keys[i].live].tombstone /\ f.slots[f.keys[i].live].key = i

\* load and recover: the tables from the sections.
Loaded(f) ==
    [table |-> [i \in 1..Len(f.keys) |-> f.keys[i].key],
     keys |-> [k \in {f.keys[i].key : i \in 1..Len(f.keys)} |->
                  LET i == CHOOSE i \in 1..Len(f.keys) : f.keys[i].key = k
                  IN  [index |-> i, live |-> f.keys[i].live]],
     slots |-> [i \in 1..Len(f.slots) |->
                   [version |-> f.slots[i].version, tombstone |-> f.slots[i].tombstone,
                    key |-> f.slots[i].key,
                    payload |-> SubSeq(f.payloads, f.slots[i].offset + 1,
                                       f.slots[i].offset + f.slots[i].length)]],
     vectors |-> f.vectors, words |-> f.words, masked |-> f.masked, hw |-> f.hw]

-----------------------------------------------------------------------------
\* A created partition, or a bulk-loaded one with its base snapshot.
Init ==
    /\ log = << >> /\ plan = None
    /\ \/ st = Empty /\ snap = None
       \/ st = BulkLoaded /\ snap = Encoded(BulkLoaded)

\* mutate, once the entry is synced
Mutate(e) ==
    /\ Len(log) < MaxEntries
    /\ log' = Append(log, e)
    /\ st' = Applied(st, e)
    /\ UNCHANGED <<plan, snap>>

Upsert(k, v) == Mutate([key |-> k, value |-> v])

Delete(k) == Mutate([key |-> k, value |-> None])

CaptureCompaction ==
    /\ plan = None
    /\ plan' = Captured(st)
    /\ UNCHANGED <<st, log, snap>>

\* On another thread, while the partition serves.
Build ==
    /\ plan # None /\ ~plan.built
    /\ plan' = [built |-> TRUE, s |-> Built(plan)]
    /\ UNCHANGED <<st, log, snap>>

\* finish_compaction: catch up from the log, snapshot, swap.
FinishCompaction ==
    /\ plan # None /\ plan.built
    /\ st' = FoldLeft(Applied, plan.s, After(plan.s.hw))
    /\ snap' = Encoded(st')
    /\ plan' = None
    /\ UNCHANGED log

\* The snapshot is written and the process ends before the swap.
FinishInterrupted ==
    /\ plan # None /\ plan.built
    /\ snap' = Encoded(FoldLeft(Applied, plan.s, After(plan.s.hw)))
    /\ ValidateStructure(snap')
    /\ st' = Loaded(snap')
    /\ plan' = None
    /\ UNCHANGED log

Snapshot ==
    /\ snap' = Encoded(st)
    /\ UNCHANGED <<st, log, plan>>

\* The process ends and the partition is opened again: the snapshot if it
\* passes, the log after it.
Reopen ==
    /\ snap # None => ValidateStructure(snap)
    /\ LET base == IF snap = None THEN Empty ELSE Loaded(snap)
       IN  st' = FoldLeft(Applied, base, After(base.hw))
    /\ plan' = None
    /\ UNCHANGED <<log, snap>>

Next ==
    \/ \E k \in Keys : Delete(k) \/ \E v \in Values : Upsert(k, v)
    \/ CaptureCompaction \/ Build \/ FinishCompaction \/ FinishInterrupted
    \/ Snapshot \/ Reopen

Spec == Init /\ [][Next]_vars

-----------------------------------------------------------------------------
\* search's answer from a slot the graph returns: the record of the slot.
Hit(slot) ==
    [key |-> st.table[st.slots[slot].key], vector |-> st.vectors[slot], payload |-> st.slots[slot].payload]

Slots == 1..Len(st.vectors)

TypeOK ==
    /\ DOMAIN st.keys = ToSet(st.table) /\ IsInjective(st.table)
    /\ Len(st.slots) = Len(st.vectors) /\ st.masked \subseteq Slots
    /\ \A s \in Slots : st.slots[s].key \in 1..Len(st.table) /\ st.slots[s].version <= st.hw
    /\ \A k \in DOMAIN st.keys : st.keys[k].live \in Slots \cup {Max32}
    /\ st.hw = Len(log)

\* Whatever state the partition is in, its snapshot passes every check made
\* when it is loaded, and so does the newest one on disk: no snapshot is
\* written that recovery would reject.
SnapshotLoads ==
    ValidateStructure(Encoded(st)) /\ (snap # None => ValidateStructure(snap))

\* The graph returns no slot but the live ones of their keys: no query sees an
\* older version of a record or a key twice, through compactions that
\* renumber every slot while others write.
HitsCurrent ==
    \A s \in Slots \ st.masked : st.keys[Hit(s).key] = [index |-> st.slots[s].key, live |-> s]

Record(v) == <<v, PayloadOf[v]>>

\* The record of each key, as a user sees it.
RecordOf(k) ==
    IF Live(st, k) = Max32 THEN None ELSE <<Hit(Live(st, k)).vector, Hit(Live(st, k)).payload>>

Map == INSTANCE RecordMap WITH
    record <- [k \in Keys |-> RecordOf(k)],
    seq <- Len(log),
    Records <- {Record(v) : v \in Values \cup {Base}}

\* The tables implement the map: compaction, snapshots and recovery change no
\* record, and an upsert or a delete changes one.
ImplementsMap == Map!Spec

\* The tables point into each other, make a snapshot that loads, and give every
\* query the current record of each key (apply, finish_compaction, search).
TablesConsistent == TypeOK /\ SnapshotLoads /\ HitsCurrent
================================================================================
