--------------------------- MODULE MCMaintenance ---------------------------
(* Maintenance for TLC. *)
EXTENDS Maintenance, TLC
CONSTANTS o1, o2, w1, w2

\* Four agents in three failure domains, and three in two.
ThreeDomains == <<1, 1, 2, 3>>
TwoDomains == <<1, 1, 2>>
TwoWorkers == {w1, w2}

Setting(domains, fragile, placed, workers, operations, bound) ==
    [domains |-> domains, fragile |-> fragile, placed |-> placed, workers |-> workers,
     operations |-> operations, ops |-> bound, losses |-> 1, hiccups |-> 1, volumes |-> 3]

\* One operator who runs everything; two who do not retire; one who repairs
\* and drains beside an upload.
Cases ==
    {Setting(ThreeDomains, {1, 2}, o1 :> {1, 3, 4}, {w1}, {"scrub", "repair", "drain", "retire"}, 2),
     Setting(TwoDomains, {1, 3}, o1 :> {1, 2, 3}, {w1, w2}, {"scrub", "repair", "drain"}, 1),
     Setting(ThreeDomains, {1, 2}, (o1 :> {1, 3, 4}) @@ (o2 :> {}), {w1}, {"repair", "drain"}, 1)}
=============================================================================
