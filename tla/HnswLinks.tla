------------------------------- MODULE HnswLinks -------------------------------
(***************************************************************************)
(* The pure parts of crates/distr-hnsw-index/src/hnsw.rs: candidate order,  *)
(* neighbour selection, greedy descent and beam search.  A vector is a      *)
(* point of the integer plane under the squared L2 distance; `pos` maps the *)
(* slots to their points, `d` the slots to their distance from the query,   *)
(* and `nbrs` the slots to their neighbour lists on one level.  Slots count *)
(* from 1.                                                                  *)
(***************************************************************************)
EXTENDS Integers, Sequences, FiniteSets, SequencesExt

CONSTANTS
    M,                  \* links a slot may have on a level above 0
    M0,                 \* links a slot may have on level 0
    EfConstruction      \* beam width while inserting

\* PartitionConfig::validate; list lengths are stored in a byte.
ASSUME ParamsAssumption ==
    /\ M \in 2..255
    /\ M0 \in M..255
    /\ EfConstruction \in 1..100000

Dist(p, q) == (p[1] - q[1]) * (p[1] - q[1]) + (p[2] - q[2]) * (p[2] - q[2])

Capacity(level) == IF level = 0 THEN M0 ELSE M

Distances(pos, q) == [s \in DOMAIN pos |-> Dist(pos[s], q)]

\* Far's order: by distance, then by slot.
Nearer(d, a, b) == d[a] < d[b] \/ (d[a] = d[b] /\ a < b)

Sorted(d, list) == SortSeq(list, LAMBDA a, b : Nearer(d, a, b))

Nearest(d, S) == CHOOSE a \in S : \A b \in S \ {a} : Nearer(d, a, b)

Farthest(d, S) == CHOOSE a \in S : \A b \in S \ {a} : Nearer(d, b, a)

Prefix(list, n) == SubSeq(list, 1, IF Len(list) < n THEN Len(list) ELSE n)

\* A candidate is kept unless it is closer to one already kept than to the
\* query; the ones passed over fill what room is left.
SelectHeuristic(pos, d, list, m) ==
    LET Pick(acc, c) ==
            IF Len(acc.kept) >= m THEN acc
            ELSE IF \E s \in ToSet(acc.kept) : Dist(pos[c], pos[s]) < d[c]
            THEN [acc EXCEPT !.pruned = Append(@, c)]
            ELSE [acc EXCEPT !.kept = Append(@, c)]
        end == FoldLeft(Pick, [kept |-> << >>, pruned |-> << >>], Sorted(d, list))
    IN  Prefix(end.kept \o end.pruned, m)

\* What linking `slot` back makes of the list of `neighbour`.
LinkedBack(pos, list, neighbour, slot, capacity) ==
    IF Len(list) < capacity THEN Append(list, slot)
    ELSE SelectHeuristic(pos, Distances(pos, pos[neighbour]), Append(list, slot), capacity)

-----------------------------------------------------------------------------
\* Mutant: a neighbour at the same distance is moved to, whatever its slot.
GreedyStepTies(d, current, list) ==
    LET near == {n \in ToSet(list) : d[n] <= d[current]}
    IN  IF near = {} THEN current ELSE Nearest(d, near)

\* One pass of greedy_closest over the neighbours of the current slot.
GreedyStep(d, current, list) == Nearest(d, {current} \cup ToSet(list))

GreedyClosest(nbrs, d, from) ==
    LET Walk[c \in DOMAIN d] ==
            LET next == GreedyStep(d, c, nbrs[c])
            IN  IF next = c THEN c ELSE Walk[next]
    IN  Walk[from]

-----------------------------------------------------------------------------
\* The state of search_layer: the slots met, those still to be expanded and
\* the best accepted ones.
BeamStart(entries, accepts) ==
    [visited |-> entries, candidates |-> entries, results |-> entries \cap accepts]

\* The loop ends when nothing is left or the best candidate is worse than the worst result.
BeamDone(beam, d, ef) ==
    beam.candidates # {} =>
        /\ Cardinality(beam.results) >= ef
        /\ beam.results # {}
        /\ Nearer(d, Farthest(d, beam.results), Nearest(d, beam.candidates))

\* A neighbour met for the first time routes when it is admitted, and is a
\* result when it is accepted too.
Meet(beam, n, d, ef, accepts) ==
    LET admit == \/ Cardinality(beam.results) < ef
                 \/ beam.results # {} /\ Nearer(d, n, Farthest(d, beam.results))
        more == IF n \in accepts THEN beam.results \cup {n} ELSE beam.results
    IN  IF n \in beam.visited THEN beam
        ELSE IF ~admit THEN [beam EXCEPT !.visited = @ \cup {n}]
        ELSE [visited |-> beam.visited \cup {n},
              candidates |-> beam.candidates \cup {n},
              results |-> IF Cardinality(more) > ef THEN more \ {Farthest(d, more)} ELSE more]

\* The best candidate is popped and its neighbour list read.
Expand(beam, current, list, d, ef, accepts) ==
    FoldLeft(LAMBDA b, n : Meet(b, n, d, ef, accepts),
             [beam EXCEPT !.candidates = @ \ {current}], list)

SearchLayer(nbrs, d, entries, ef, accepts) ==
    LET Slots == DOMAIN d
        Beams == [visited : SUBSET Slots, candidates : SUBSET Slots, results : SUBSET Slots]
        Run[b \in Beams] ==
            IF BeamDone(b, d, ef) THEN b.results
            ELSE LET c == Nearest(d, b.candidates)
                 IN  Run[Expand(b, c, nbrs[c], d, ef, accepts)]
    IN  Run[BeamStart(entries, accepts)]

\* TopK: the k best of a set of slots, in rank order.
TopK(d, S, k) == Prefix(Sorted(d, SetToSeq(S)), k)

\* Slots reached from a set along the links of one level.
ReachableFrom(nbrs, S) ==
    LET Grow[n \in 0..Cardinality(DOMAIN nbrs)] ==
            IF n = 0 THEN S ELSE LET R == Grow[n - 1] IN R \cup UNION {ToSet(nbrs[a]) : a \in R}
    IN  Grow[Cardinality(DOMAIN nbrs)]
================================================================================
