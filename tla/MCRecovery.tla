----------------------------- MODULE MCRecovery -----------------------------
(* Recovery for TLC. *)
EXTENDS Recovery

Setting(domains, fragile, versions, max, rots, failed, restored) ==
    [domains |-> domains, fragile |-> fragile, versions |-> versions, losses |-> max,
     deletable |-> IF restored = 0 THEN {} ELSE Files, rot |-> rots, hiccups |-> failed, restores |-> restored]

\* A restored portal that mints anew; the same one that finds its plans; three
\* agents of which two share a domain that may be lost, and
\* nothing is deleted.
Cases ==
    {Setting(<<1, 2>>, {1}, 2, 1, TRUE, 0, 1), Setting(<<1, 2>>, {1}, 1, 1, FALSE, 1, 1),
     Setting(<<1, 1, 2>>, {1, 2}, 1, 2, FALSE, 1, 0)}
=============================================================================
