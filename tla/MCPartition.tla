----------------------------- MODULE MCPartition -----------------------------
(***************************************************************************)
(* A partition for TLC: its log (PartitionLog) and its tables (SlotTable).  *)
(* The two share no variable, so that a property of one holds of both       *)
(* together if it holds while the other rests: a behaviour moves one of     *)
(* them.                                                                    *)
(***************************************************************************)
EXTENDS PartitionLog

CONSTANTS k1, k2, k3, a, b, c

VARIABLES
    part,                       \* which of the two moves
    st, log, tablePlan, snap    \* SlotTable

tableVars == <<st, log, tablePlan, snap>>

\* Every operation writes the one key, so that any reordering shows.
OneKey == [o \in Ops |-> "k"]

Setting(bulk, stop, cut, error, rot) ==
    [bulk |-> bulk, faults |-> [stop |-> stop, cut |-> cut, error |-> error, rot |-> rot]]

\* Two stops or two power losses with a failing call, one of each with rot, and
\* rot with a failing call.
Faulty ==
    {Setting(FALSE, 2, 0, 1, 0), Setting(FALSE, 0, 2, 1, 0), Setting(TRUE, 1, 1, 0, 1), Setting(TRUE, 0, 0, 1, 1)}

Table == INSTANCE SlotTable WITH
    Keys <- {k1, k2, k3}, Values <- {a, b}, Base <- c, BaseKeys <- <<k1, k2>>,
    PayloadOf <- [v \in {a, b, c} |-> IF v = a THEN <<1>> ELSE IF v = b THEN <<2, 3>> ELSE << >>],
    WordBits <- 2, MaxEntries <- 3, plan <- tablePlan

ASSUME TableAssumption == Table!WordAssumption

PartitionInit ==
    /\ part \in {"log", "table"}
    /\ Init /\ (part = "table" => setting = Setting(FALSE, 2, 0, 1, 0) /\ pc = "idle")
    /\ Table!Init /\ (part = "log" => st = Table!Empty)

LogMoves == part = "log" /\ Next /\ UNCHANGED <<part, tableVars>>
TableMoves == part = "table" /\ Table!Next /\ UNCHANGED <<part, vars>>

PartitionSpec == PartitionInit /\ [][LogMoves \/ TableMoves]_<<part, vars, tableVars>>

\* SlotTable's tables agree, their snapshot loads and queries see the current
\* records (Partition::apply, finish_compaction, search).
TablesConsistent == Table!TablesConsistent

\* The tables implement a map from keys to records (RecordMap): compaction,
\* snapshots and recovery change no record.
ImplementsMap == Table!ImplementsMap
================================================================================
