----------------------------- MODULE ParallelBuild -----------------------------
(***************************************************************************)
(* Hnsw::build_parallel (crates/distr-hnsw-index/src/hnsw.rs): the builder   *)
(* used by bulk loads and compaction.  Slots are inserted in chunks that     *)
(* double; within a chunk every slot is inserted by a thread of its own, and *)
(* neighbour lists are read and written under one lock per list.  Each      *)
(* action below is one such critical section with the private work after it. *)
(* A last sequential pass gives a link to slots nobody links to.             *)
(***************************************************************************)
EXTENDS HnswLinks

CONSTANT
    Layouts             \* the vectors and levels tried: [pos, level], by slot

VARIABLES
    pos,            \* the vector of each slot
    level,          \* the level of each slot
    links,          \* links[slot][level + 1], one lock each
    begin,          \* slots of `order` handed out before the running chunk
    chunk,          \* size of the running chunk
    thread,         \* thread[slot], the state of core.insert for the slot
    repaired        \* the links link_level0_orphans was given, once it has run

vars == <<pos, level, links, begin, chunk, thread, repaired>>

Slots == DOMAIN pos

\* The slot of the highest level, the lowest such slot.
Entry == CHOOSE s \in Slots : \A t \in Slots : level[t] < level[s] \/ (level[t] = level[s] /\ s <= t)

TopLevel == level[Entry]

\* The order of insertion: every slot but the entry.
Order == SelectSeq([i \in 1..Len(pos) |-> i], LAMBDA s : s # Entry)

NoBeam == [visited |-> {}, candidates |-> {}, results |-> {}]

Idle == [pc |-> "idle", lc |-> 0, current |-> 0, beam |-> NoBeam, todo |-> << >>]

Init ==
    /\ \E layout \in Layouts : pos = layout.pos /\ level = layout.level
    /\ links = [s \in DOMAIN pos |-> [i \in 1..(level[s] + 1) |-> << >>]]
    /\ begin = 0 /\ chunk = 1
    /\ thread = [s \in DOMAIN pos |-> Idle]
    /\ repaired = << >>

List(s, l) == links[s][l + 1]

From(s) == Distances(pos, pos[s])

-----------------------------------------------------------------------------
\* The thread's state at the start of the search of level l.
Searching(entries, l) ==
    [pc |-> "search", lc |-> l, current |-> 0, beam |-> BeamStart(entries, Slots), todo |-> << >>]

\* Where the descent goes on level l: further down, or into the search once
\* the slot's own level is reached.
Down(s, at, l) ==
    IF l > level[s] THEN [Idle EXCEPT !.pc = "descend", !.lc = l, !.current = at]
    ELSE Searching({at}, l)

\* The slots of the running chunk.
Running == {Order[i] : i \in (begin + 1)..(IF begin + chunk < Len(Order) THEN begin + chunk ELSE Len(Order))}

Start(s) ==
    /\ s \in Running /\ thread[s].pc = "idle"
    /\ thread' = [thread EXCEPT ![s] = Down(s, Entry, TopLevel)]
    /\ UNCHANGED <<pos, level, links, begin, chunk, repaired>>

\* Mutant: a neighbour at the same distance is moved to as well.
GreedyTies(s) ==
    LET t == thread[s]
        best == GreedyStepTies(From(s), t.current, List(t.current, t.lc))
    IN  /\ t.pc = "descend"
        /\ thread' = [thread EXCEPT ![s] = IF best # t.current THEN [t EXCEPT !.current = best]
                                           ELSE Down(s, best, t.lc - 1)]
        /\ UNCHANGED <<pos, level, links, begin, chunk, repaired>>

\* greedy_closest, one list read at a time.
Greedy(s) ==
    LET t == thread[s]
        best == GreedyStep(From(s), t.current, List(t.current, t.lc))
    IN  /\ t.pc = "descend"
        /\ thread' = [thread EXCEPT ![s] = IF best # t.current THEN [t EXCEPT !.current = best]
                                           ELSE Down(s, best, t.lc - 1)]
        /\ UNCHANGED <<pos, level, links, begin, chunk, repaired>>

\* search_layer, one list read at a time.
Search(s) ==
    LET t == thread[s]
        c == Nearest(From(s), t.beam.candidates)
    IN  /\ t.pc = "search"
        /\ ~BeamDone(t.beam, From(s), EfConstruction)
        /\ thread' = [thread EXCEPT ![s].beam =
                          Expand(@, c, List(c, t.lc), From(s), EfConstruction, Slots)]
        /\ UNCHANGED <<pos, level, links, begin, chunk, repaired>>

\* Mutant: the slot's own list is overwritten.
OwnOverwritten(s, l, selected) == selected

\* The slot's own list: what was selected, merged with the links other
\* threads have put there meanwhile.
Own(s, l, selected) ==
    LET own == List(s, l)
    IN  IF own = << >> THEN selected
        ELSE SelectHeuristic(pos, From(s),
                 selected \o SelectSeq(own, LAMBDA n : n \notin ToSet(selected)), Capacity(l))

\* The search of a level is over: select, and write the slot's own list.
WriteOwn(s) ==
    LET t == thread[s]
        selected == SelectHeuristic(pos, From(s), SetToSeq(t.beam.results), Capacity(t.lc))
    IN  /\ t.pc = "search"
        /\ BeamDone(t.beam, From(s), EfConstruction)
        /\ links' = [links EXCEPT ![s][t.lc + 1] = Own(s, t.lc, selected)]
        /\ thread' = [thread EXCEPT ![s].pc = "link", ![s].todo = selected]
        /\ UNCHANGED <<pos, level, begin, chunk, repaired>>

\* Link one selected neighbour back, under its lock; after the last one the
\* next level is searched from this level's candidates.
LinkBack(s) ==
    LET t == thread[s]
        n == Head(t.todo)
    IN  /\ t.pc = "link"
        /\ links' = [links EXCEPT ![n][t.lc + 1] = LinkedBack(pos, @, n, s, Capacity(t.lc))]
        /\ thread' = [thread EXCEPT ![s] =
                          IF Len(t.todo) > 1 THEN [t EXCEPT !.todo = Tail(@)]
                          ELSE IF t.lc = 0 THEN [Idle EXCEPT !.pc = "done"]
                          ELSE Searching(t.beam.results, t.lc - 1)]
        /\ UNCHANGED <<pos, level, begin, chunk, repaired>>

ChunkDone == \A s \in Running : thread[s].pc = "done"

\* par_iter().for_each has returned: the next chunk, twice as large.
NextChunk ==
    /\ ChunkDone /\ begin + chunk < Len(Order)
    /\ begin' = begin + chunk /\ chunk' = chunk * 2
    /\ UNCHANGED <<pos, level, links, thread, repaired>>

-----------------------------------------------------------------------------
InDegree0(ls) ==
    [s \in Slots |-> FoldSet(LAMBDA t, sum : sum + Cardinality({i \in DOMAIN ls[t][1] : ls[t][1][i] = s}),
                             0, Slots)]

\* The positions of the host's list whose target keeps another in-link.
Spare(list, degree) == {i \in DOMAIN list : degree[list[i]] > 1}

\* Of those, the one with the farthest target, the first on a tie.
Replaced(host, list, spare) ==
    CHOOSE i \in spare : \A j \in spare \ {i} :
        LET di == Dist(pos[host], pos[list[i]])  dj == Dist(pos[host], pos[list[j]])
        IN  dj < di \/ (dj = di /\ i < j)

\* Let one host take the orphan, if it has room or a link to spare.
Hosted(acc, host, orphan) ==
    LET list == acc.links[host][1]
        spare == Spare(list, acc.degree)
        i == Replaced(host, list, spare)
    IN  IF acc.degree[orphan] > 0 THEN acc
        ELSE IF Len(list) < M0
        THEN [links |-> [acc.links EXCEPT ![host][1] = Append(@, orphan)],
              degree |-> [acc.degree EXCEPT ![orphan] = @ + 1]]
        ELSE IF spare = {} THEN acc
        ELSE [links |-> [acc.links EXCEPT ![host][1][i] = orphan],
              degree |-> [acc.degree EXCEPT ![list[i]] = @ - 1, ![orphan] = @ + 1]]

\* The orphan's own neighbours are tried from the nearest on.
Adopt(acc, orphan) ==
    IF acc.degree[orphan] > 0 \/ orphan = Entry THEN acc
    ELSE FoldLeft(LAMBDA a, host : Hosted(a, host, orphan), acc,
                  Sorted(From(orphan), acc.links[orphan][1]))

LinkOrphans(ls) ==
    FoldLeft(Adopt, [links |-> ls, degree |-> InDegree0(ls)], [i \in 1..Len(pos) |-> i]).links

AllInserted == ChunkDone /\ begin + chunk >= Len(Order)

\* The build ends: the graph is compacted and link_level0_orphans runs.
Finish ==
    /\ AllInserted
    /\ repaired = << >>
    /\ repaired' = links
    /\ links' = LinkOrphans(links)
    /\ UNCHANGED <<pos, level, begin, chunk, thread>>

Inserting ==
    \/ \E s \in Slots : Start(s) \/ Greedy(s) \/ Search(s) \/ WriteOwn(s) \/ LinkBack(s)
    \/ NextChunk

Next == Inserting \/ Finish

Spec == Init /\ [][Next]_vars

\* The pool runs its threads, and the builder goes on when they return.
FairSpec == Spec /\ WF_vars(Inserting)

-----------------------------------------------------------------------------
Finished == repaired # << >>

\* At every moment of the build the lists are within capacity and name slots
\* that have the level: a longer list would not fit its place in the compacted
\* graph, and a shorter slot would be read beyond its lists.
TypeOK ==
    /\ begin \in 0..Len(pos) /\ chunk \in 1..(2 * Len(pos))
    /\ \A s \in Slots :
           /\ thread[s].pc \in {"idle", "descend", "search", "link", "done"}
           /\ DOMAIN links[s] = 1..(level[s] + 1)
           /\ \A l \in 0..level[s] :
                  /\ Len(List(s, l)) <= Capacity(l)
                  /\ \A i \in DOMAIN List(s, l) : level[List(s, l)[i]] >= l

\* When the threads are done, a list that was never full answers every link
\* to its slot: no back-link was lost to another thread's write.
RoomLosesNothing ==
    Finished =>
        \A s \in Slots : \A l \in 0..level[s] :
            Len(repaired[s][l + 1]) < Capacity(l) =>
                \A t \in Slots \ {s} :
                    level[t] >= l /\ s \in ToSet(repaired[t][l + 1])
                        => t \in ToSet(repaired[s][l + 1])

\* After the build every slot but the entry has a level-0 link from another
\* slot: the last pass gives one to those that have none, and takes none away
\* from a slot that has no other.  On one level only: with upper levels a slot
\* may find itself through another thread's link, and the pass counts a link
\* to itself.
EveryoneLinked ==
    Finished /\ TopLevel = 0 => \A s \in Slots \ {Entry} : \E t \in Slots \ {s} : s \in ToSet(links[t][1])

\* Every slot is inserted in the end: no descent or search goes round while
\* other threads change the lists it reads, and no thread waits for another.
BuildEnds == <>AllInserted

\* A build keeps the lists within bounds, loses no link and leaves nobody out
\* (build_parallel, link_orphans).
BuildSound == TypeOK /\ RoomLosesNothing /\ EveryoneLinked
================================================================================
