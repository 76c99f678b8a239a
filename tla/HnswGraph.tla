------------------------------- MODULE HnswGraph -------------------------------
(***************************************************************************)
(* The HNSW graph of crates/distr-hnsw-index/src/hnsw.rs as its single      *)
(* writer changes it: insert and tombstone, with searches answered from     *)
(* every state in between.  A level is drawn from a hash of the slot, so    *)
(* any level may come up; a vector is any point of Points.                  *)
(***************************************************************************)
EXTENDS HnswLinks

CONSTANTS
    Points,             \* the points vectors and queries are taken from
    MaxLevel,           \* bound on the level drawn (the code caps it at 31)
    MaxSlots,           \* bound on the slots ever inserted
    MaxTombstones,      \* bound on the slots masked
    Cutover             \* allowed sets up to this size are answered exactly

VARIABLES
    pos,            \* the vector of each slot
    level,          \* the level of each slot
    links,          \* links[slot][level + 1], the neighbour list
    tombstones,     \* slots masked from results
    entry,          \* the entry slot, 0 while the graph is empty
    maxLevel        \* the level of the entry slot

vars == <<pos, level, links, tombstones, entry, maxLevel>>

Slots == DOMAIN pos

\* The neighbour lists of one level, as the operators of HnswLinks take them.
AtLevel(ls, l) == [s \in DOMAIN ls |-> IF l < Len(ls[s]) THEN ls[s][l + 1] ELSE << >>]

Init ==
    /\ pos = << >> /\ level = << >> /\ links = << >>
    /\ tombstones = {}
    /\ entry = 0 /\ maxLevel = 0

-----------------------------------------------------------------------------
\* Greedy descent through the levels above `low`.
Descend(ls, d, from, high, low) ==
    LET Down[l \in Int] ==
            IF l > high THEN from ELSE GreedyClosest(AtLevel(ls, l), d, Down[l + 1])
    IN  Down[low + 1]

\* Write the new slot's list on one level and link its neighbours back.
LinkLevel(ls, ps, slot, l, selected) ==
    FoldLeft(LAMBDA acc, n :
                 [acc EXCEPT ![n][l + 1] = LinkedBack(ps, @, n, slot, Capacity(l))],
             [ls EXCEPT ![slot][l + 1] = selected], selected)

\* Construction accepts tombstoned slots as candidates and neighbours.
BuildAccepts(ps) == DOMAIN ps

\* From `top` down to level 0: search, select, link; the candidates of one
\* level are the entries of the next.
LinkAll(ls, ps, slot, from, top) ==
    LET d == Distances(ps, ps[slot])
        Level[l \in Int] ==
            LET above == IF l = top THEN [ls |-> ls, entries |-> {from}] ELSE Level[l + 1]
                found == SearchLayer(AtLevel(above.ls, l), d, above.entries,
                                     EfConstruction, BuildAccepts(ps))
                selected == SelectHeuristic(ps, d, SetToSeq(found), Capacity(l))
            IN  [ls |-> LinkLevel(above.ls, ps, slot, l, selected), entries |-> found]
    IN  Level[0].ls

\* The first slot, and every higher one, becomes the entry.
RaiseEntry(slot, l) ==
    /\ entry' = IF entry = 0 \/ l > maxLevel THEN slot ELSE entry
    /\ maxLevel' = IF entry = 0 \/ l > maxLevel THEN l ELSE maxLevel

\* Insert a vector of the given level.
Insert(p, l) ==
    LET slot == Len(pos) + 1
        ps == Append(pos, p)
        fresh == Append(links, [i \in 1..(l + 1) |-> << >>])
        top == IF l < maxLevel THEN l ELSE maxLevel
    IN  /\ slot <= MaxSlots
        /\ pos' = ps
        /\ level' = Append(level, l)
        /\ links' = IF entry = 0 THEN fresh
                    ELSE LinkAll(fresh, ps, slot, Descend(fresh, Distances(ps, p), entry, maxLevel, l), top)
        /\ RaiseEntry(slot, l)
        /\ UNCHANGED tombstones

\* Mask a slot from results; its links stay.
Tombstone(slot) ==
    /\ slot \notin tombstones
    /\ Cardinality(tombstones) < MaxTombstones
    /\ tombstones' = tombstones \cup {slot}
    /\ UNCHANGED <<pos, level, links, entry, maxLevel>>

Next ==
    \/ \E p \in Points, l \in 0..MaxLevel : Insert(p, l)
    \/ \E slot \in Slots : Tombstone(slot)

Spec == Init /\ [][Next]_vars

-----------------------------------------------------------------------------
Accepts(allowed) == (allowed \cap Slots) \ tombstones

\* Mutant: the beam is as narrow as the caller asks.
BeamAsAsked(ef, k) == ef

BeamWidth(ef, k) == IF ef < k THEN k ELSE ef

\* Where the descent lands on level 0.
Landing(d) == Descend(links, d, entry, maxLevel, 0)

\* The beam over level 0.
Candidates(d, k, ef, allowed) ==
    SearchLayer(AtLevel(links, 0), d, {Landing(d)}, BeamWidth(ef, k), Accepts(allowed))

\* search_with in F32 mode; `allowed` is the filter.
SearchWith(q, k, ef, allowed) ==
    LET d == Distances(pos, q)
    IN  IF entry = 0 \/ k = 0 THEN << >> ELSE TopK(d, Candidates(d, k, ef, allowed), k)

\* A quantised vector has its own scale; here a code has one step where the
\* code's has 127.  Points have no negative coordinate.
Quantized(p) ==
    LET max == IF p[1] < p[2] THEN p[2] ELSE p[1]
    IN  [i \in 1..2 |-> IF 2 * p[i] >= max THEN max ELSE 0]

\* distance_i8: exact norms, but the product of the codes.
DistI8(p, q) ==
    LET a == Quantized(p)  b == Quantized(q)
        dd == p[1] * p[1] + p[2] * p[2] + q[1] * q[1] + q[2] * q[2]
                  - 2 * (a[1] * b[1] + a[2] * b[2])
    IN  IF dd < 0 THEN 0 ELSE dd

DistancesI8(q) == [s \in Slots |-> DistI8(pos[s], q)]

\* search_with in Int8 mode: traversal by quantised distances, then the best
\* `rescore` candidates, at least k, ranked by their exact ones.
SearchInt8(q, k, ef, rescore, allowed) ==
    LET d == DistancesI8(q)
        kept == TopK(d, Candidates(d, k, ef, allowed), IF rescore < k THEN k ELSE rescore)
    IN  IF entry = 0 \/ k = 0 THEN << >> ELSE TopK(Distances(pos, q), ToSet(kept), k)

\* search_exact_over
SearchExactOver(q, k, allowed) == TopK(Distances(pos, q), Accepts(allowed), k)

\* search_filtered
SearchFiltered(q, k, ef, allowed) ==
    IF k = 0 \/ allowed = {} THEN << >>
    ELSE IF Cardinality(allowed) <= Cutover THEN SearchExactOver(q, k, allowed)
    ELSE SearchWith(q, k, ef, allowed)

-----------------------------------------------------------------------------
\* The lists are within capacity, name other slots that have the level, once
\* each, and the entry slot has the greatest level.  Reading a list of a slot
\* that lacks the level panics (hnsw.rs, neighbours).
TypeOK ==
    /\ pos \in Seq(Points) /\ Len(pos) <= MaxSlots
    /\ level \in [Slots -> 0..MaxLevel]
    /\ tombstones \subseteq Slots
    /\ \A s \in Slots :
           /\ DOMAIN links[s] = 1..(level[s] + 1)
           /\ \A l \in 0..level[s] :
                  LET list == links[s][l + 1]
                  IN  /\ Len(list) <= Capacity(l)
                      /\ IsInjective(list)
                      /\ ToSet(list) \subseteq {n \in Slots \ {s} : level[n] >= l}
    /\ IF Slots = {} THEN entry = 0
       ELSE entry \in Slots /\ maxLevel = level[entry] /\ \A s \in Slots : level[s] <= maxLevel

\* What the level-0 search can meet: the slots linked from where the
\* descent lands.
Within(d) == ReachableFrom(AtLevel(links, 0), {Landing(d)})

Min2(a, b) == IF a < b THEN a ELSE b

\* Filters tried: none, and the first or the last slot left out.
Filters == {Slots, Slots \ {1}, Slots \ {Len(pos)}}

\* A search returns live, allowed slots only, and it stops short of k only
\* when it has met every such slot it can reach from where the descent landed:
\* masked slots route, so a crowd of tombstones hides nothing behind it.
NeverShort ==
    entry # 0 =>
        \A q \in Points :
            LET met == Within(Distances(pos, q))
                metI8 == Within(DistancesI8(q))
            IN  \A k \in 1..2, allowed \in Filters :
                    LET wanted == allowed \ tombstones
                        Full(hits, within) ==
                            /\ ToSet(hits) \subseteq wanted
                            /\ Len(hits) = Min2(k, Cardinality(within \cap wanted))
                    IN  /\ Full(SearchWith(q, k, 1, allowed), met)
                        /\ Full(SearchInt8(q, k, 1, 1, allowed), metI8)

\* With a beam as wide as the graph a search is exact over what it can reach:
\* the k nearest live slots, ties by slot, whatever the filter; so is a
\* quantised one that rescores every candidate.
ExhaustiveExact ==
    entry # 0 =>
        \A q \in Points :
            LET n == Len(pos)
                d == Distances(pos, q)
                met == Within(d)
                metI8 == Within(DistancesI8(q))
            IN  \A k \in 1..2, allowed \in Filters :
                    LET wanted == allowed \ tombstones
                    IN  /\ SearchWith(q, k, n, allowed) = TopK(d, met \cap wanted, k)
                        /\ SearchInt8(q, k, n, n, allowed) = TopK(d, metI8 \cap wanted, k)

\* Both routes of a filtered search return the same slots when the beam is as
\* wide as the graph and every slot can be met: the cutover decides cost only.
RoutesAgree ==
    entry # 0 =>
        \A q \in Points :
            Within(Distances(pos, q)) = Slots =>
                \A allowed \in {S \in SUBSET Slots : Cardinality(S) <= Cutover} :
                    SearchFiltered(q, 2, Len(pos), allowed) = SearchWith(q, 2, Len(pos), allowed)

\* Distinct vectors on a line: insertion keeps every slot within reach of
\* every search, although lists are pruned to two links, because selection
\* keeps the nearest slot on each side.
CollinearReachable ==
    entry # 0 /\ IsInjective(pos) => \A q \in Points : Within(Distances(pos, q)) = Slots

\* The graph is well formed and a search returns what it can reach (insert,
\* search_with, search_int8, search_filtered).
SearchSound == TypeOK /\ NeverShort /\ ExhaustiveExact /\ RoutesAgree
================================================================================
