------------------------ MODULE MCGarbageCollection ------------------------
(* GarbageCollection for TLC, on two agents and one file. *)
EXTENDS GarbageCollection

CONSTANTS f1, c1, c2, t1

Setting(uploaded, collectors, targets, volumes, bound, max, restored) ==
    [uploaded |-> uploaded, collectors |-> collectors, targets |-> targets, modes |-> {TRUE},
     volumes |-> volumes, proofs |-> bound, hiccups |-> max, restores |-> restored,
     deletable |-> IF restored = 0 THEN {f1} ELSE {}]

\* Proofs to spare: a planned proof may go stale as often as faults make it.
Unhurried == [Setting({f1}, {c1}, {}, 1, 6, 1, 0) EXCEPT !.modes = BOOLEAN]

\* An upload that is retried beside gc; two collections of one deleted file;
\* a volume replaced beside a backup target; a portal restored from a snapshot.
Cases ==
    {Setting({}, {c1}, {}, 1, 1, 1, 0), Setting({f1}, {c1, c2}, {}, 1, 1, 1, 0),
     Setting({f1}, {c1}, {t1}, 2, 1, 0, 0), Setting({}, {c1}, {}, 1, 1, 0, 1), Unhurried}

\* DeletedCollected where gc has proofs to spare.
EventuallyCollected == setting = Unhurried => DeletedCollected
=============================================================================
