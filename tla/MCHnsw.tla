-------------------------------- MODULE MCHnsw --------------------------------
(***************************************************************************)
(* The HNSW graph for TLC: built by many threads (ParallelBuild), or grown *)
(* by one writer (HnswGraph) over points of a triangle or of a line.  A    *)
(* behaviour does one of the three and leaves the rest alone.              *)
(***************************************************************************)
EXTENDS ParallelBuild

VARIABLES
    part,                                                           \* which of the three is tried
    grown, grownLevel, grownLinks, tombstones, entry, maxLevel      \* HnswGraph

graphVars == <<grown, grownLevel, grownLinks, tombstones, entry, maxLevel>>
allVars == <<part, vars, graphVars>>

-----------------------------------------------------------------------------
At(i) == <<i, 0>>

Places == {At(0), At(1), At(3)}

\* Four slots on two levels, the last two inserted at once.
FourOnTwoLevels == [pos : {p \in [1..4 -> Places] : p[1] = At(0)}, level : [1..4 -> 0..1]]

\* Six slots on one level with shorter lists, in chunks of one, two and two.
Flat == INSTANCE ParallelBuild WITH
    M0 <- 2,
    Layouts <- [pos : {p \in [1..6 -> Places] : p[1] = At(0) /\ p[2] = At(0) /\ p[3] = At(1)},
                level : [1..6 -> {0}]]

Triangle == INSTANCE HnswGraph WITH
    M0 <- 2, Points <- {<<0, 1>>, <<1, 3>>, <<2, 2>>}, MaxLevel <- 1, MaxSlots <- 4, MaxTombstones <- 1,
    Cutover <- 1, pos <- grown, level <- grownLevel, links <- grownLinks

Line == INSTANCE HnswGraph WITH
    M0 <- 2, EfConstruction <- 3, Points <- {At(i) : i \in {0, 1, 3, 4, 6}},
    MaxLevel <- 1, MaxSlots <- 4, MaxTombstones <- 0, Cutover <- 1,
    pos <- grown, level <- grownLevel, links <- grownLinks

-----------------------------------------------------------------------------
HnswInit ==
    /\ part \in {"build", "flat", "triangle", "line"}
    /\ IF part = "flat" THEN Flat!Init ELSE Init
    /\ (part \in {"triangle", "line"} => pos = [i \in 1..4 |-> At(0)] /\ level = [i \in 1..4 |-> 0])
    /\ Triangle!Init

BuildOnly(A) == part = "build" /\ UNCHANGED <<part, graphVars>> /\ A

FlatBuild == part = "flat" /\ Flat!Next /\ UNCHANGED <<part, graphVars>>

GraphGrows ==
    /\ (part = "triangle" /\ Triangle!Next) \/ (part = "line" /\ Line!Next)
    /\ UNCHANGED <<part, vars>>

\* With the fairness of ParallelBuild's FairSpec.
HnswSpec == HnswInit /\ [][BuildOnly(Next) \/ FlatBuild \/ GraphGrows]_allVars /\ WF_allVars(BuildOnly(Inserting))

\* Many threads lose no link and leave nobody out (build_parallel,
\* link_orphans).
BuildsSound == IF part = "flat" THEN Flat!BuildSound ELSE BuildSound

\* Every build ends (build_parallel).
BuildsEnd == <>(part = "build" => AllInserted)

\* Searches return what they can reach, and distinct vectors on a line stay
\* within reach (search_with, search_filtered, insert, select_heuristic).
SearchesSound ==
    /\ part = "triangle" => Triangle!SearchSound
    /\ part = "line" => Line!TypeOK /\ Line!CollinearReachable
===============================================================================
