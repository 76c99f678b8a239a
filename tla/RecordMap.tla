------------------------------- MODULE RecordMap -------------------------------
(***************************************************************************)
(* What a partition promises its users: a map from keys to records, changed *)
(* by upserts and deletes only (docs/m3-engine-contract.md, upsert and      *)
(* delete; crates/distr-hnsw-index/src/partition.rs).                       *)
(***************************************************************************)
EXTENDS Naturals

CONSTANTS Keys, Records, None

VARIABLES
    record,         \* the record of each key, None if it has none
    seq             \* how many operations were acknowledged

Init == record \in [Keys -> Records \cup {None}] /\ seq = 0

Put(k, r) == seq' = seq + 1 /\ record' = [record EXCEPT ![k] = r]

Remove(k) == seq' = seq + 1 /\ record' = [record EXCEPT ![k] = None]

Next == \E k \in Keys : Remove(k) \/ \E r \in Records : Put(k, r)

Spec == Init /\ [][Next]_<<record, seq>>
================================================================================
