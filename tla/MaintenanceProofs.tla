------------------------- MODULE MaintenanceProofs -------------------------
(***************************************************************************)
(* Proofs about Maintenance, for any agents, failure domains, objects,     *)
(* processes, operations and faults, and about JobLeases, the job rows of  *)
(* such operations, for any number of processes, leases, jobs and stops.   *)
(* The two share no variable.                                              *)
(*                                                                         *)
(* What retire and scrub conclude at their end rests on copies they saw    *)
(* earlier.  The invariant Sound says of a running operation what became   *)
(* of them (Working): no volume it relies on was retired, the objects that *)
(* retire found elsewhere are there but for one copy per fault, and those  *)
(* that scrub calls durable are durable unless something was lost since.   *)
(*                                                                         *)
(* LeasesSound is not inductive: that a live job is left alone rests on    *)
(* its owner's file being there and locked (LeaseHeld), on the job naming  *)
(* that owner (JobOwned), and on no two processes sharing a lease          *)
(* (LeaseOwn).  A lease that is created but not yet locked looks dead to   *)
(* is_alive; its file survives because no running job names it (NotYet).   *)
(***************************************************************************)
EXTENDS Maintenance, JobLeases, FiniteSetTheorems, WellFoundedInduction, TLAPS

\* A retirement runs alone: one process, and nothing is left to upload.
RetiresAlone ==
    \A x \in Settings : "retire" \in x.operations =>
      /\ \A v, w \in x.workers : v = w
      /\ \A o \in DOMAIN x.placed : x.placed[o] # {}

WorkRow ==
    [pc : {"idle", "list", "verify", "repair", "drain", "place", "orphan", "check"},
     op : {"scrub", "repair", "drain", "retire"}, x : Agents, live : SUBSET Agents,
     inc : [Agents -> Volumes \cup {0}], listed : [Agents -> SUBSET Objects],
     scanned : SUBSET Agents, todo : SUBSET Objects, done : SUBSET Objects,
     cur : Objects, valid : SUBSET Agents, found : [Objects -> States],
     risk : BOOLEAN, began : 0..MaxLosses]

\* Incarnations are not ahead of their volumes, and only retire retires.
Incarnations ==
    /\ \A a \in Agents : /\ retired[a] \subseteq refused[a] /\ refused[a] \subseteq 1..vol[a]
                         /\ active[a] \in 0..vol[a]
                         /\ "retire" \notin Operations => retired[a] = {}
    /\ "retire" \in Operations => history = Objects /\ \A v, w \in Workers : v = w

\* An object is on kept volumes of agents in S in two domains, but for faults.
Spared(o, S) == Cardinality(Domains(Kept(o) \cap S)) >= 2 - losses

\* What an operation m that is under way may rely on.
Working(m) ==
    /\ m.pc # "idle" => m.began <= losses /\ \A a \in m.live : vol[a] \notin retired[a]
    /\ m.pc \in {"verify", "repair"} /\ losses = m.began =>
         \A o \in m.done : m.found[o] = "durable" => Replicated(Kept(o))
    /\ m.pc = "list" => m.done = {}
    /\ m.pc = "repair" /\ losses = m.began => m.valid \subseteq Kept(m.cur)
    /\ m.pc = "check" =>
         /\ "retire" \in Operations /\ m.x \notin m.live
         /\ m.risk = FALSE => \A o \in history \ m.todo : Spared(o, Agents \ {m.x})

Sound ==
    /\ MaintenanceAssumption /\ RetiresAlone
    /\ TypeOK /\ Incarnations
    /\ \A o \in history : Spared(o, Agents)
    /\ \A w \in Workers : Working(work[w])

-----------------------------------------------------------------------------
(* Settings, copies and failure domains.                                   *)

LEMMA SettingStays ==
  ASSUME setting' = setting
  PROVE  /\ DomainOf' = DomainOf /\ Agents' = Agents /\ Placed' = Placed /\ Objects' = Objects
         /\ Workers' = Workers /\ Operations' = Operations /\ Volumes' = Volumes
         /\ MaxOps' = MaxOps /\ MaxLosses' = MaxLosses /\ MaxHiccups' = MaxHiccups /\ MaxVolumes' = MaxVolumes
         /\ WorkRow' = WorkRow /\ Idle' = Idle
  BY DEF DomainOf, Agents, Placed, Objects, Workers, Operations, Volumes, MaxOps, MaxLosses, MaxHiccups,
         MaxVolumes, WorkRow, Idle

LEMMA SettingFacts ==
  ASSUME setting \in Settings
  PROVE  /\ IsFiniteSet(Agents) /\ NumAgents \in Nat /\ Agents = 1..NumAgents /\ 1 \in Agents
         /\ Objects # {}
         /\ \A o \in Objects : /\ Placed[o] \subseteq Agents
                               /\ Placed[o] # {} => Cardinality(Domains(Placed[o])) >= 2
         /\ Operations \subseteq {"scrub", "repair", "drain", "retire"}
         /\ MaxOps \in Nat /\ MaxLosses \in Nat /\ MaxHiccups \in Nat /\ MaxVolumes \in Nat /\ MaxVolumes # 0
  <1>1. IsFiniteSet(Agents) /\ Agents = 1..NumAgents /\ Agents # {} /\ Objects # {}
    BY MaintenanceAssumption DEF Agents, DomainOf, NumAgents, Objects, Placed
  <1>2. NumAgents \in Nat
    BY <1>1, FS_CardinalityType DEF NumAgents
  <1>3. 1 \in Agents
    BY <1>1, <1>2
  <1>4. ASSUME NEW o \in Objects
        PROVE  Placed[o] \subseteq Agents /\ (Placed[o] # {} => Cardinality(Domains(Placed[o])) >= 2)
    BY MaintenanceAssumption DEF Agents, DomainOf, Objects, Placed, Domains
  <1>5. /\ Operations \subseteq {"scrub", "repair", "drain", "retire"}
        /\ MaxOps \in Nat /\ MaxLosses \in Nat /\ MaxHiccups \in Nat /\ MaxVolumes \in Nat /\ MaxVolumes # 0
    BY MaintenanceAssumption DEF Operations, MaxOps, MaxLosses, MaxHiccups, MaxVolumes
  <1> QED
    BY <1>1, <1>2, <1>3, <1>4, <1>5

LEMMA DomainsFinite ==
  ASSUME setting \in Settings, NEW S \in SUBSET Agents
  PROVE  IsFiniteSet(Domains(S)) /\ Cardinality(Domains(S)) \in Nat
  <1> DEFINE f == [a \in S |-> DomainOf[a]]
  <1>1. IsFiniteSet(S)
    BY SettingFacts, FS_Subset
  <1>2. f \in Surjection(S, Domains(S))
    BY DEF Surjection, Domains
  <1>3. IsFiniteSet(Domains(S))
    BY <1>1, <1>2, FS_Surjection DEF ExistsSurjection
  <1> QED
    BY <1>3, FS_CardinalityType

\* More copies are in no fewer domains.
LEMMA DomainsGrow ==
  ASSUME setting \in Settings, NEW S \in SUBSET Agents, NEW T \in SUBSET Agents, S \subseteq T
  PROVE  Cardinality(Domains(S)) <= Cardinality(Domains(T))
  <1>1. Domains(S) \in SUBSET Domains(T)
    BY DEF Domains
  <1> QED
    BY <1>1, DomainsFinite, FS_Subset

\* One copy less is at most one domain less.
LEMMA DomainsShrink ==
  ASSUME setting \in Settings, NEW S \in SUBSET Agents, NEW b
  PROVE  Cardinality(Domains(S)) - 1 <= Cardinality(Domains(S \ {b}))
  <1> DEFINE R == Domains(S \ {b})
  <1>1. IsFiniteSet(R) /\ Cardinality(R) \in Nat /\ Cardinality(Domains(S)) \in Nat
    BY DomainsFinite
  <1>2. Domains(S) \in SUBSET (R \cup {DomainOf[b]})
    BY DEF Domains
  <1> HIDE DEF R
  <1>3. IsFiniteSet(R \cup {DomainOf[b]}) /\ Cardinality(R \cup {DomainOf[b]}) <= Cardinality(R) + 1
    BY <1>1, FS_AddElement
  <1>4. Cardinality(Domains(S)) <= Cardinality(R \cup {DomainOf[b]})
    BY <1>2, <1>3, FS_Subset
  <1>5. Cardinality(R \cup {DomainOf[b]}) \in Nat
    BY <1>3, FS_CardinalityType
  <1>6. Cardinality(Domains(S)) - 1 <= Cardinality(R)
    BY <1>1, <1>3, <1>4, <1>5
  <1> QED
    BY <1>6 DEF R

-----------------------------------------------------------------------------
(* repair_object, which is a recursion over the agents: it adds agents that *)
(* were reached.                                                            *)

LEMMA HasLeast ==
  ASSUME NEW S \in SUBSET Nat, S # {}
  PROVE  \E x \in S : \A y \in S : x <= y
  <1>1. IsWellFoundedOn(OpToRel(<, Nat), Nat)
    BY NatLessThanWellFounded
  <1>2. PICK x \in S : \A y \in S : ~(<<y, x>> \in OpToRel(<, Nat))
    BY <1>1, WFMin
  <1>3. \A y \in S : ~(y < x)
    BY <1>2 DEF OpToRel
  <1> QED
    BY <1>3

\* The recursion of Repaired, up to agent k.
Step(m, damaged, failed, before, n) ==
    IF n \in m.live \ failed /\ RepairTarget(before, damaged, n) THEN before \cup {n} ELSE before

Unrolls(m, damaged, failed, g, k) ==
    g = [n \in 0..k |-> IF n = 0 THEN m.valid ELSE Step(m, damaged, failed, g[n - 1], n)]

LEMMA UnrollsOnce ==
  ASSUME NEW m, NEW damaged, NEW failed, NEW k \in Nat, k # 0,
         NEW g, Unrolls(m, damaged, failed, g, k - 1)
  PROVE  \E h : Unrolls(m, damaged, failed, h, k)
  <1> DEFINE h == [n \in 0..k |-> IF n = k THEN Step(m, damaged, failed, g[k - 1], k) ELSE g[n]]
  <1>1. \A n \in 0..(k - 1) : h[n] = g[n] /\ g[n] = IF n = 0 THEN m.valid ELSE Step(m, damaged, failed, g[n - 1], n)
    BY DEF Unrolls
  <1>2. ASSUME NEW n \in 0..k
        PROVE  h[n] = IF n = 0 THEN m.valid ELSE Step(m, damaged, failed, h[n - 1], n)
    <2>1. CASE n = k
      <3>1. k - 1 \in 0..(k - 1)
        OBVIOUS
      <3>2. h[n] = Step(m, damaged, failed, g[k - 1], k) /\ h[k - 1] = g[k - 1]
        BY <1>1, <2>1, <3>1
      <3> QED
        BY <2>1, <3>2
    <2>2. CASE n # k
      <3>1. n \in 0..(k - 1) /\ (n # 0 => n - 1 \in 0..(k - 1))
        BY <2>2
      <3> QED
        BY <1>1, <3>1
    <2> QED
      BY <2>1, <2>2
  <1> DEFINE hh == [n \in 0..k |-> IF n = 0 THEN m.valid ELSE Step(m, damaged, failed, h[n - 1], n)]
  <1>3. h = hh
    <2>1. \A n \in 0..k : h[n] = hh[n]
      BY <1>2
    <2>2. h = [n \in 0..k |-> h[n]] /\ hh = [n \in 0..k |-> hh[n]]
      OBVIOUS
    <2> HIDE DEF h, hh
    <2> QED
      BY <2>1, <2>2
  <1>4. Unrolls(m, damaged, failed, h, k)
    BY <1>3 DEF Unrolls
  <1> QED
    BY <1>4

LEMMA UnrollsAll ==
  ASSUME NEW m, NEW damaged, NEW failed, NEW k \in Nat
  PROVE  \E g : Unrolls(m, damaged, failed, g, k)
  <1> DEFINE T == {n \in Nat : ~ \E g : Unrolls(m, damaged, failed, g, n)}
  <1>1. SUFFICES ASSUME T # {}
                 PROVE  FALSE
    OBVIOUS
  <1>2. PICK n \in T : \A j \in T : n <= j
    BY <1>1, HasLeast
  <1>3. CASE n = 0
    <2> DEFINE g == [i \in 0..0 |-> m.valid]
    <2>1. g = [i \in 0..0 |-> IF i = 0 THEN m.valid ELSE Step(m, damaged, failed, g[i - 1], i)]
      OBVIOUS
    <2>2. Unrolls(m, damaged, failed, g, 0)
      BY <2>1 DEF Unrolls
    <2> QED
      BY <1>2, <1>3, <2>2
  <1>4. CASE n # 0
    <2>1. n - 1 \in Nat /\ n - 1 \notin T
      BY <1>2, <1>4
    <2>2. \E g : Unrolls(m, damaged, failed, g, n - 1)
      BY <2>1
    <2> QED
      BY <1>2, <1>4, <2>2, UnrollsOnce
  <1> QED
    BY <1>3, <1>4

\* A copy is added only on an agent that was reached.
LEMMA RepairedWithin ==
  ASSUME setting \in Settings, NEW m, NEW damaged, NEW failed
  PROVE  Repaired(m, damaged, failed) \subseteq m.valid \cup m.live
  <1> DEFINE N == NumAgents
  <1>0. N \in Nat
    BY SettingFacts
  <1>1. PICK f : /\ Repaired(m, damaged, failed) = f[N]
                 /\ Unrolls(m, damaged, failed, f, N)
    <2> DEFINE f == CHOOSE f : f = [n \in 0..N |->
                 IF n = 0 THEN m.valid
                 ELSE IF n \in m.live \ failed /\ RepairTarget(f[n - 1], damaged, n)
                      THEN f[n - 1] \cup {n} ELSE f[n - 1]]
    <2>1. Repaired(m, damaged, failed) = f[N]
      BY DEF Repaired
    <2>2. \E g : Unrolls(m, damaged, failed, g, N)
      BY <1>0, UnrollsAll
    <2>3. \E g : g = [n \in 0..N |->
                 IF n = 0 THEN m.valid
                 ELSE IF n \in m.live \ failed /\ RepairTarget(g[n - 1], damaged, n)
                      THEN g[n - 1] \cup {n} ELSE g[n - 1]]
      BY <2>2 DEF Unrolls, Step
    <2>4. Unrolls(m, damaged, failed, f, N)
      BY <2>3 DEF Unrolls, Step
    <2> HIDE DEF f
    <2> QED
      BY <2>1, <2>4
  <1> HIDE DEF N
  <1>2. \A n \in 0..N : f[n] = IF n = 0 THEN m.valid ELSE Step(m, damaged, failed, f[n - 1], n)
    BY <1>1 DEF Unrolls
  <1> DEFINE T == {n \in 0..N : ~(f[n] \subseteq m.valid \cup m.live)}
  <1>3. T = {}
    <2>1. SUFFICES ASSUME T # {}
                   PROVE  FALSE
      OBVIOUS
    <2>0. T \in SUBSET Nat
      BY <1>0
    <2>2. PICK n \in T : \A j \in T : n <= j
      <3> HIDE DEF T
      <3> QED
        BY <2>0, <2>1, HasLeast
    <2>3. n # 0
      BY <1>2, <2>2
    <2>4. n - 1 \in 0..N /\ n - 1 \notin T
      BY <1>0, <2>2, <2>3
    <2>5. f[n - 1] \subseteq m.valid \cup m.live
      BY <2>4
    <2>6. f[n] = Step(m, damaged, failed, f[n - 1], n)
      BY <1>2, <2>2, <2>3
    <2>7. f[n] \subseteq m.valid \cup m.live
      BY <2>5, <2>6 DEF Step
    <2> QED
      BY <2>2, <2>7
  <1> QED
    BY <1>0, <1>1, <1>3

-----------------------------------------------------------------------------
(* What a step does to the copies, and what it leaves of the invariant.    *)

\* Volumes in use are not retired by the step.
Stands == \A a \in Agents : vol[a] \notin retired[a] => vol'[a] \notin retired'[a]

\* No copy on a kept volume goes, or those of one agent, by a fault.
Grows == losses' = losses /\ \A o \in Objects : Kept(o) \subseteq Kept(o)'
Loses == losses' = losses + 1 /\ \E b \in Agents : \A o \in Objects : Kept(o) \ {b} \subseteq Kept(o)'

Steady == setting' = setting /\ TypeOK' /\ Incarnations' /\ Stands /\ (Grows \/ Loses)

LEMMA Copies ==
  ASSUME NEW o
  PROVE  Kept(o) \subseteq Agents
  BY DEF Kept

\* What is spared stays spared.
LEMMA SparedStays ==
  ASSUME Sound, Steady, NEW o \in Objects, NEW b, Spared(o, Agents \ {b})
  PROVE  Spared(o, Agents \ {b})'
  <1> DEFINE S == Kept(o) \cap (Agents \ {b})
             T == Kept(o)' \cap (Agents \ {b})
  <1>1. setting \in Settings /\ losses \in Nat /\ Agents' = Agents /\ DomainOf' = DomainOf
    BY SettingFacts, SettingStays DEF Sound, TypeOK, Steady
  <1>2. Kept(o)' \subseteq Agents
    BY <1>1 DEF Kept
  <1>3. S \in SUBSET Agents /\ T \in SUBSET Agents
    BY Copies
  <1>4. Domains(Kept(o) \cap (Agents \ {b}))' = Domains(T)
    BY <1>1 DEF Domains
  <1>5. Cardinality(Domains(S)) >= 2 - losses
    BY DEF Spared
  <1>6. Cardinality(Domains(S)) \in Nat /\ Cardinality(Domains(T)) \in Nat
    BY <1>1, <1>3, DomainsFinite
  <1>7. CASE Grows
    <2>1. S \subseteq T /\ losses' = losses
      BY <1>7 DEF Grows
    <2> HIDE DEF S, T
    <2>2. Cardinality(Domains(S)) <= Cardinality(Domains(T))
      BY <1>1, <1>3, <2>1, DomainsGrow
    <2>3. Cardinality(Domains(T)) >= 2 - losses'
      BY <1>1, <1>5, <1>6, <2>1, <2>2
    <2> QED
      BY <1>4, <2>3 DEF Spared
  <1>8. CASE Loses
    <2>1. PICK c \in Agents : \A u \in Objects : Kept(u) \ {c} \subseteq Kept(u)'
      BY <1>8 DEF Loses
    <2>2. S \ {c} \subseteq T /\ losses' = losses + 1
      BY <1>8, <2>1 DEF Loses
    <2> HIDE DEF S, T
    <2>3. Cardinality(Domains(S \ {c})) <= Cardinality(Domains(T))
      BY <1>1, <1>3, <2>2, DomainsGrow
    <2>4. Cardinality(Domains(S)) - 1 <= Cardinality(Domains(S \ {c}))
      BY <1>1, <1>3, DomainsShrink
    <2>5. Cardinality(Domains(S \ {c})) \in Nat
      BY <1>1, <1>3, DomainsFinite
    <2>6. Cardinality(Domains(T)) >= 2 - losses'
      BY <1>1, <1>5, <1>6, <2>2, <2>3, <2>4, <2>5
    <2> QED
      BY <1>4, <2>6 DEF Spared
  <1> QED
    BY <1>7, <1>8 DEF Steady

LEMMA SparedAll ==
  ASSUME NEW o
  PROVE  Spared(o, Agents) <=> Cardinality(Domains(Kept(o))) >= 2 - losses
  <1>1. Kept(o) \cap Agents = Kept(o)
    BY Copies
  <1> QED
    BY <1>1 DEF Spared

\* The same for all agents: the case of a b that is none of them.
LEMMA SparedEverywhere ==
  ASSUME Sound, Steady, NEW o \in Objects, Spared(o, Agents)
  PROVE  Spared(o, Agents)'
  <1>1. PICK b : b \notin Agents
    <2>1. NumAgents + 1 \notin Agents
      BY SettingFacts DEF Sound, TypeOK
    <2> QED
      BY <2>1
  <1>2. Agents \ {b} = Agents /\ (Agents \ {b})' = Agents'
    BY <1>1, SettingStays DEF Steady
  <1>3. Spared(o, Agents \ {b})
    BY <1>2
  <1>4. Spared(o, Agents \ {b})'
    BY <1>3, SparedStays
  <1> QED
    BY <1>2, <1>4

LEMMA ReplicatedStays ==
  ASSUME Sound, Steady, Grows, NEW o \in Objects, Replicated(Kept(o))
  PROVE  Replicated(Kept(o))'
  <1> DEFINE S == Kept(o)  T == Kept(o)'
  <1>1. setting \in Settings /\ Agents' = Agents /\ DomainOf' = DomainOf
    BY SettingStays DEF Sound, TypeOK, Steady
  <1>2. S \in SUBSET Agents /\ T \in SUBSET Agents /\ S \subseteq T
    BY <1>1 DEF Kept, Grows
  <1>3. Domains(Kept(o))' = Domains(T)
    BY <1>1 DEF Domains
  <1>4. Cardinality(Domains(S)) >= 2
    BY DEF Replicated
  <1> HIDE DEF S, T
  <1>5. Cardinality(Domains(T)) >= 2
    BY <1>1, <1>2, <1>4, DomainsGrow, DomainsFinite
  <1> QED
    BY <1>3, <1>5 DEF Replicated

\* An operation that does nothing in the step can go on relying on what it did.
LEMMA WorkingStays ==
  ASSUME Sound, Steady, history' = history \/ "retire" \notin Operations, NEW m \in WorkRow, Working(m)
  PROVE  Working(m)'
  <1>0. /\ losses \in Nat /\ Agents' = Agents /\ Objects' = Objects /\ Operations' = Operations
        /\ m.live \subseteq Agents /\ m.done \subseteq Objects /\ m.began \in Nat /\ m.cur \in Objects
        /\ history \subseteq Objects
    BY SettingFacts, SettingStays DEF Sound, TypeOK, Steady, WorkRow
  <1>1. m.pc # "idle" => m.began <= losses' /\ \A a \in m.live : vol'[a] \notin retired'[a]
    BY <1>0 DEF Working, Steady, Stands, Grows, Loses
  <1>2. m.pc # "idle" /\ losses' = m.began => losses = m.began /\ Grows
    BY <1>0 DEF Working, Steady, Grows, Loses
  <1>3. ASSUME m.pc \in {"verify", "repair"}, losses' = m.began, NEW o \in m.done, m.found[o] = "durable"
        PROVE  Replicated(Kept(o))'
    <2>1. losses = m.began /\ Grows
      BY <1>2, <1>3
    <2>2. Replicated(Kept(o)) /\ o \in Objects
      BY <1>0, <1>3, <2>1 DEF Working
    <2> QED
      BY <2>1, <2>2, ReplicatedStays
  <1>4. m.pc = "repair" /\ losses' = m.began => m.valid \subseteq Kept(m.cur)'
    BY <1>0, <1>2 DEF Working, Grows
  <1>5. ASSUME m.pc = "check"
        PROVE  /\ "retire" \in Operations /\ m.x \notin m.live
               /\ m.risk = FALSE => \A o \in history' \ m.todo : Spared(o, Agents \ {m.x})'
    <2>1. "retire" \in Operations /\ history' = history
      BY <1>5 DEF Working
    <2>2. ASSUME m.risk = FALSE, NEW o \in history \ m.todo
          PROVE  Spared(o, Agents \ {m.x})'
      <3>1. Spared(o, Agents \ {m.x}) /\ o \in Objects
        BY <1>0, <1>5, <2>2 DEF Working
      <3> QED
        BY <3>1, SparedStays
    <2> QED
      BY <1>5, <2>1, <2>2 DEF Working
  <1>6. m.pc = "list" => m.done = {}
    BY DEF Working
  <1> QED
    BY <1>0, <1>1, <1>3, <1>4, <1>5, <1>6 DEF Working

\* One worker at most goes on.
WorkMoves ==
    \/ work' = work
    \/ \E w \in Workers, m \in WorkRow : work' = [work EXCEPT ![w] = m] /\ Working(m)'

LEMMA SteadyKeeps ==
  ASSUME Sound, Steady, WorkMoves,
         \/ history' = history
         \/ "retire" \notin Operations /\ \A o \in history' \ history : Spared(o, Agents)'
  PROVE  Sound'
  <1>1. work \in [Workers -> WorkRow] /\ history \subseteq Objects
    BY DEF Sound, TypeOK, WorkRow
  <1>2. ASSUME NEW w \in Workers
        PROVE  Working(work[w])'
    <2>1. PICK m : m = work[w]
      OBVIOUS
    <2>2. m \in WorkRow /\ Working(m)
      BY <1>1, <2>1 DEF Sound
    <2>3. Working(m)'
      BY <2>2, WorkingStays
    <2>4. CASE work'[w] = work[w]
      BY <2>1, <2>3, <2>4
    <2>5. CASE work'[w] # work[w]
      <3>1. PICK v \in Workers, n \in WorkRow : work' = [work EXCEPT ![v] = n] /\ Working(n)'
        BY <2>5 DEF WorkMoves
      <3>2. work'[w] = n
        BY <1>1, <2>5, <3>1
      <3> QED
        BY <3>1, <3>2
    <2> QED
      BY <2>4, <2>5
  <1>3. ASSUME NEW o \in history'
        PROVE  Spared(o, Agents)'
    <2>1. CASE o \in history
      <3>1. Spared(o, Agents) /\ o \in Objects
        BY <1>1, <2>1 DEF Sound
      <3> QED
        BY <3>1, SparedEverywhere
    <2> QED
      BY <2>1
  <1>4. Workers' = Workers
    BY SettingStays DEF Steady
  <1>5. (MaintenanceAssumption /\ RetiresAlone)' /\ TypeOK' /\ Incarnations'
    BY DEF Sound, Steady, MaintenanceAssumption, RetiresAlone
  <1> QED
    BY <1>2, <1>3, <1>4, <1>5 DEF Sound

-----------------------------------------------------------------------------
(* Types, variable by variable.                                            *)

CopyRow ==
    [st : {"none", "pending", "confirmed", "missing", "corrupt", "orphaned"}, inc : Volumes \cup {0}]

PlacementRows == [Objects -> [Agents -> CopyRow]]

LEMMA TypesOf ==
  ASSUME Sound
  PROVE  /\ setting \in Settings
         /\ vol \in [Agents -> Volumes]
         /\ good \in [Agents -> SUBSET Objects] /\ bad \in [Agents -> SUBSET Objects]
         /\ active \in [Agents -> Volumes \cup {0}]
         /\ refused \in [Agents -> SUBSET Volumes] /\ retired \in [Agents -> SUBSET Volumes]
         /\ rows \in PlacementRows /\ history \subseteq Objects
         /\ health \in [Objects -> States \cup {"none"}]
         /\ work \in [Workers -> WorkRow]
         /\ ops \in 0..MaxOps /\ losses \in 0..MaxLosses /\ hiccups \in 0..MaxHiccups
  BY DEF Sound, TypeOK, PlacementRows, CopyRow, WorkRow

LEMMA TypesNext ==
  ASSUME setting \in Settings, setting' = setting,
         vol' \in [Agents -> Volumes],
         good' \in [Agents -> SUBSET Objects], bad' \in [Agents -> SUBSET Objects],
         active' \in [Agents -> Volumes \cup {0}],
         refused' \in [Agents -> SUBSET Volumes], retired' \in [Agents -> SUBSET Volumes],
         rows' \in PlacementRows, history' \subseteq Objects,
         health' \in [Objects -> States \cup {"none"}],
         work' \in [Workers -> WorkRow],
         ops' \in 0..MaxOps, losses' \in 0..MaxLosses, hiccups' \in 0..MaxHiccups
  PROVE  TypeOK'
  <1>1. /\ Agents' = Agents /\ Volumes' = Volumes /\ Objects' = Objects /\ Workers' = Workers
        /\ MaxOps' = MaxOps /\ MaxLosses' = MaxLosses /\ MaxHiccups' = MaxHiccups
    BY SettingStays
  <1> QED
    BY <1>1 DEF TypeOK, PlacementRows, CopyRow, WorkRow

LEMMA IdleRow ==
  ASSUME setting \in Settings, losses \in Nat
  PROVE  Idle \in WorkRow /\ Idle.pc = "idle" /\ Idle.done = {}
  <1>1. (CHOOSE o \in Objects : TRUE) \in Objects
    BY SettingFacts
  <1> QED
    BY <1>1, SettingFacts DEF Idle, WorkRow, States

LEMMA FailingCounts ==
  ASSUME Sound, NEW S \in SUBSET Agents, Failing(S)
  PROVE  hiccups' \in 0..MaxHiccups
  <1>1. IsFiniteSet(S)
    BY SettingFacts, TypesOf, FS_Subset
  <1>2. Cardinality(S) \in Nat
    BY <1>1, FS_CardinalityType
  <1> QED
    BY <1>2, SettingFacts, TypesOf DEF Failing

\* set_placement_verification writes rows.
LEMMA MarkRows ==
  ASSUME NEW r \in [Agents -> CopyRow],
         NEW S, NEW inc \in [Agents -> Volumes \cup {0}], NEW st \in {"confirmed", "missing", "corrupt"}
  PROVE  Mark(r, S, inc, st) \in
           [Agents -> CopyRow]
  BY DEF Mark, CopyRow

\* set_placement_state writes one, too.
LEMMA OrphanRow ==
  ASSUME NEW c \in CopyRow
  PROVE  [c EXCEPT !.st = "orphaned"] \in CopyRow
  BY DEF CopyRow

\* Observing agents whose volumes are not refused.
LEMMA ObserveOK ==
  ASSUME Sound, NEW S, Observe(S), vol' = vol, retired' = retired
  PROVE  /\ active' \in [Agents -> Volumes \cup {0}] /\ refused' \in [Agents -> SUBSET Volumes]
         /\ \A a \in Agents : /\ retired[a] \subseteq refused'[a] /\ refused'[a] \subseteq 1..vol[a]
                              /\ active'[a] \in 0..vol[a]
  <1>1. /\ vol \in [Agents -> Volumes] /\ active \in [Agents -> Volumes \cup {0}]
        /\ refused \in [Agents -> SUBSET Volumes] /\ MaxVolumes \in Nat
    BY TypesOf, SettingFacts
  <1>2. active' \in [Agents -> Volumes \cup {0}]
    BY <1>1 DEF Observe
  <1>3. refused' \in [Agents -> SUBSET Volumes]
    BY <1>1 DEF Observe
  <1>4. ASSUME NEW a \in Agents
        PROVE  /\ retired[a] \subseteq refused'[a] /\ refused'[a] \subseteq 1..vol[a]
               /\ active'[a] \in 0..vol[a]
    <2>1. /\ retired[a] \subseteq refused[a] /\ refused[a] \subseteq 1..vol[a] /\ active[a] \in 0..vol[a]
          /\ vol[a] \in Nat /\ vol[a] >= 1
      BY <1>1 DEF Sound, Incarnations, Volumes
    <2> QED
      BY <2>1 DEF Observe
  <1> QED
    BY <1>2, <1>3, <1>4

\* Volumes and retired incarnations stay, and copies are only added.
LEMMA SteadyHere ==
  ASSUME Sound, setting' = setting, TypeOK', vol' = vol, retired' = retired, losses' = losses,
         history' = history \/ "retire" \notin Operations,
         \A a \in Agents : good[a] \subseteq good'[a],
         \A a \in Agents : /\ retired[a] \subseteq refused'[a] /\ refused'[a] \subseteq 1..vol[a]
                           /\ active'[a] \in 0..vol[a]
  PROVE  Steady
  <1>1. Agents' = Agents /\ Operations' = Operations /\ Objects' = Objects /\ Workers' = Workers
    BY SettingStays
  <1>2. Incarnations'
    BY <1>1 DEF Incarnations, Sound
  <1>3. Stands /\ Grows
    BY <1>1 DEF Stands, Grows, Kept
  <1> QED
    BY <1>2, <1>3 DEF Steady

LEMMA IncarnationsHere ==
  ASSUME Sound, vol' = vol, retired' = retired, refused' = refused, active' = active
  PROVE  \A a \in Agents : /\ retired[a] \subseteq refused'[a] /\ refused'[a] \subseteq 1..vol[a]
                           /\ active'[a] \in 0..vol[a]
  BY DEF Sound, Incarnations

\* An object is written to some agents.
LEMMA WrittenTo ==
  ASSUME Sound, NEW o \in Objects, NEW S,
         good' = [a \in Agents |-> IF a \in S THEN good[a] \cup {o} ELSE good[a]],
         bad' = [a \in Agents |-> IF a \in S THEN bad[a] \ {o} ELSE bad[a]]
  PROVE  /\ good' \in [Agents -> SUBSET Objects] /\ bad' \in [Agents -> SUBSET Objects]
         /\ \A a \in Agents : good[a] \subseteq good'[a]
         /\ \A a \in Agents : a \in S => o \in good'[a]
  BY TypesOf

-----------------------------------------------------------------------------
(* Uploads and faults.                                                     *)

LEMMA UploadPutKeeps ==
  ASSUME Sound, setting' = setting, NEW o \in Objects, UploadPut(o)
  PROVE  Sound'
  <1>1. PICK failed \in SUBSET Agents, got \in SUBSET Agents :
          /\ Failing(failed) /\ Observe(got)
          /\ good' = [a \in Agents |-> IF a \in got THEN good[a] \cup {o} ELSE good[a]]
          /\ bad' = [a \in Agents |-> IF a \in got THEN bad[a] \ {o} ELSE bad[a]]
          /\ rows' = [rows EXCEPT ![o] = Mark(@, got, vol, "confirmed")]
    BY DEF UploadPut
  <1>2. /\ vol' = vol /\ retired' = retired /\ history' = history /\ health' = health /\ ops' = ops
        /\ losses' = losses /\ work' = work
    BY DEF UploadPut
  <1>3. rows' \in PlacementRows
    <2>1. vol \in [Agents -> Volumes \cup {0}] /\ rows \in PlacementRows
      BY TypesOf
    <2>2. PICK r : r = Mark(rows[o], got, vol, "confirmed")
      OBVIOUS
    <2>3. r \in [Agents -> CopyRow]
      BY <2>1, <2>2, MarkRows DEF PlacementRows
    <2> QED
      BY <1>1, <2>1, <2>2, <2>3 DEF PlacementRows
  <1>4. /\ good' \in [Agents -> SUBSET Objects] /\ bad' \in [Agents -> SUBSET Objects]
        /\ \A a \in Agents : good[a] \subseteq good'[a]
    BY <1>1, WrittenTo
  <1>5. hiccups' \in 0..MaxHiccups
    BY <1>1, FailingCounts
  <1>6. TypeOK'
    BY <1>1, <1>2, <1>3, <1>4, <1>5, TypesOf, TypesNext, ObserveOK
  <1>7. Steady
    BY <1>1, <1>2, <1>4, <1>6, ObserveOK, SteadyHere
  <1> QED
    BY <1>2, <1>7, SteadyKeeps DEF WorkMoves

LEMMA UploadCommitKeeps ==
  ASSUME Sound, setting' = setting, NEW o \in Objects, UploadCommit(o)
  PROVE  Sound'
  <1>1. /\ o \notin history /\ history' = history \cup {o} /\ Replicated({a \in LiveOn(o) : o \in good[a]})
        /\ UNCHANGED <<active, refused, retired, rows, health, agVars, envVars, work>>
    BY DEF UploadCommit
  <1>2. "retire" \notin Operations
    BY <1>1 DEF Sound, Incarnations
  <1>3. TypeOK'
    BY <1>1, TypesOf, TypesNext DEF agVars, envVars
  <1>4. Steady
    BY <1>1, <1>2, <1>3, IncarnationsHere, SteadyHere DEF agVars, envVars
  <1>5. Spared(o, Agents)
    <2> DEFINE S == {a \in LiveOn(o) : o \in good[a]}
    <2>1. S \subseteq Kept(o)
      BY <1>2 DEF LiveOn, Kept, Sound, Incarnations
    <2>2. S \in SUBSET Agents /\ Kept(o) \in SUBSET Agents
      BY Copies DEF LiveOn
    <2>3. Cardinality(Domains(S)) >= 2
      BY <1>1 DEF Replicated
    <2> HIDE DEF S
    <2>4. Cardinality(Domains(Kept(o))) >= 2
      BY <2>1, <2>2, <2>3, TypesOf, DomainsGrow, DomainsFinite
    <2>5. losses \in Nat /\ Cardinality(Domains(Kept(o))) \in Nat
      BY <2>2, TypesOf, SettingFacts, DomainsFinite
    <2>6. Cardinality(Domains(Kept(o))) >= 2 - losses
      BY <2>4, <2>5
    <2> QED
      BY <2>6, SparedAll
  <1>6. Spared(o, Agents)'
    BY <1>4, <1>5, SparedEverywhere
  <1> QED
    BY <1>1, <1>2, <1>4, <1>6, SteadyKeeps DEF WorkMoves

\* A volume is replaced by a blank one.
LEMMA BlankVolume ==
  ASSUME Sound, setting' = setting, NEW a \in Agents, vol[a] < MaxVolumes,
         vol' = [vol EXCEPT ![a] = @ + 1], good' = [good EXCEPT ![a] = {}], bad' = [bad EXCEPT ![a] = {}],
         UNCHANGED <<dbVars, ops, hiccups, work>>, losses' \in 0..MaxLosses
  PROVE  /\ TypeOK' /\ Incarnations' /\ Stands
         /\ \A o \in Objects : Kept(o) \ {a} \subseteq Kept(o)'
  <1>1. /\ vol \in [Agents -> Volumes] /\ MaxVolumes \in Nat
        /\ good \in [Agents -> SUBSET Objects] /\ bad \in [Agents -> SUBSET Objects]
    BY TypesOf, SettingFacts
  <1>2. vol' \in [Agents -> Volumes]
    BY <1>1 DEF Volumes
  <1>3. good' \in [Agents -> SUBSET Objects] /\ bad' \in [Agents -> SUBSET Objects]
    BY <1>1
  <1>4. TypeOK'
    BY <1>2, <1>3, TypesOf, TypesNext DEF dbVars
  <1>5. Agents' = Agents /\ Operations' = Operations /\ Objects' = Objects /\ Workers' = Workers
    BY SettingStays
  <1>6. ASSUME NEW b \in Agents
        PROVE  /\ retired[b] \subseteq refused[b] /\ refused[b] \subseteq 1..vol'[b] /\ active[b] \in 0..vol'[b]
               /\ vol[b] \notin retired[b] => vol'[b] \notin retired[b]
    <2>1. /\ retired[b] \subseteq refused[b] /\ refused[b] \subseteq 1..vol[b] /\ active[b] \in 0..vol[b]
          /\ vol[b] \in Nat
      BY <1>1 DEF Sound, Incarnations, Volumes
    <2>2. vol'[b] = IF b = a THEN vol[b] + 1 ELSE vol[b]
      BY <1>1
    <2> QED
      BY <2>1, <2>2
  <1>7. Incarnations'
    BY <1>5, <1>6 DEF Incarnations, Sound, dbVars
  <1>8. Stands
    BY <1>6 DEF Stands, dbVars
  <1>9. ASSUME NEW o \in Objects
        PROVE  Kept(o) \ {a} \subseteq Kept(o)'
    BY <1>1, <1>5 DEF Kept, dbVars
  <1> QED
    BY <1>4, <1>7, <1>8, <1>9

LEMMA MachineKeeps ==
  ASSUME Sound, setting' = setting, NEW a \in Agents, Wipe(a) \/ LoseVolume(a) \/ Rot(a)
  PROVE  Sound'
  <1>1. losses \in 0..MaxLosses /\ MaxLosses \in Nat
    BY TypesOf, SettingFacts
  <1>2. CASE Wipe(a)
    <2>1. TypeOK' /\ Incarnations' /\ Stands /\ \A o \in Objects : Kept(o) \ {a} \subseteq Kept(o)'
      BY <1>1, <1>2, BlankVolume DEF Wipe, envVars
    <2>2. \A o \in Objects : a \notin Kept(o)
      BY <1>2 DEF Wipe, Kept
    <2>3. Grows
      BY <1>2, <2>1, <2>2 DEF Grows, Wipe, envVars
    <2> QED
      BY <1>2, <2>1, <2>3, SteadyKeeps DEF Steady, WorkMoves, Wipe, dbVars
  <1>3. CASE LoseVolume(a)
    <2>1. losses' = losses + 1 /\ losses' \in 0..MaxLosses
      BY <1>1, <1>3 DEF LoseVolume
    <2>2. TypeOK' /\ Incarnations' /\ Stands /\ \A o \in Objects : Kept(o) \ {a} \subseteq Kept(o)'
      BY <1>3, <2>1, BlankVolume DEF LoseVolume
    <2>3. Loses
      BY <2>1, <2>2 DEF Loses
    <2> QED
      BY <1>3, <2>2, <2>3, SteadyKeeps DEF Steady, WorkMoves, LoseVolume, dbVars
  <1>4. CASE Rot(a)
    <2>1. losses' = losses + 1 /\ losses' \in 0..MaxLosses
      BY <1>1, <1>4 DEF Rot
    <2>2. PICK u \in good[a] : good' = [good EXCEPT ![a] = @ \ {u}] /\ bad' = [bad EXCEPT ![a] = @ \cup {u}]
      BY <1>4 DEF Rot
    <2>3. UNCHANGED <<dbVars, vol, ops, hiccups, work>>
      BY <1>4 DEF Rot
    <2>4. good' \in [Agents -> SUBSET Objects] /\ bad' \in [Agents -> SUBSET Objects]
      BY <2>2, TypesOf
    <2>5. TypeOK'
      BY <2>1, <2>3, <2>4, TypesOf, TypesNext DEF dbVars
    <2>6. Agents' = Agents /\ Operations' = Operations /\ Objects' = Objects /\ Workers' = Workers
      BY SettingStays
    <2>7. Incarnations' /\ Stands
      BY <2>3, <2>6 DEF Incarnations, Stands, Sound, dbVars
    <2>8. ASSUME NEW o \in Objects
          PROVE  Kept(o) \ {a} \subseteq Kept(o)'
      BY <2>2, <2>3, <2>6, TypesOf DEF Kept, dbVars
    <2>9. Loses
      BY <2>1, <2>8 DEF Loses
    <2> QED
      BY <2>3, <2>5, <2>7, <2>9, SteadyKeeps DEF Steady, WorkMoves, dbVars
  <1> QED
    BY <1>2, <1>3, <1>4

-----------------------------------------------------------------------------
(* The operations.                                                         *)

\* A worker goes on with m, which already holds, and copies are at most added.
LEMMA GoesOn ==
  ASSUME Sound, Steady, history' = history, NEW w \in Workers, NEW m \in WorkRow, Working(m), Become(w, m)
  PROVE  Sound'
  <1>1. Working(m)'
    BY WorkingStays
  <1>2. WorkMoves
    BY <1>1 DEF WorkMoves, Become
  <1> QED
    BY <1>2, SteadyKeeps

LEMMA WorkTyped ==
  ASSUME Sound, NEW w \in Workers, NEW m \in WorkRow, Become(w, m)
  PROVE  work' \in [Workers -> WorkRow]
  BY TypesOf DEF Become

\* A worker goes on and nothing else changes but the rows.
LEMMA OnlyRows ==
  ASSUME Sound, setting' = setting, UNCHANGED <<active, refused, retired, history, agVars, losses>>,
         rows' \in PlacementRows, health' \in [Objects -> States \cup {"none"}],
         ops' \in 0..MaxOps, hiccups' \in 0..MaxHiccups,
         NEW w \in Workers, NEW m \in WorkRow, Working(m), Become(w, m)
  PROVE  Sound'
  <1>1. TypeOK'
    BY TypesOf, TypesNext, WorkTyped DEF agVars
  <1>2. Steady
    BY <1>1, IncarnationsHere, SteadyHere DEF agVars
  <1> QED
    BY <1>2, GoesOn

LEMMA WorkOf ==
  ASSUME Sound, NEW w \in Workers
  PROVE  work[w] \in WorkRow /\ Working(work[w])
  BY TypesOf DEF Sound

LEMMA IdleWorks ==
  ASSUME Sound
  PROVE  Idle \in WorkRow /\ Working(Idle)
  <1>1. Idle \in WorkRow /\ Idle.pc = "idle"
    BY TypesOf, SettingFacts, IdleRow
  <1> QED
    BY <1>1 DEF Working

\* Every agent that answered first is observed, and its volume is not retired.
LEMMA StartKeeps ==
  ASSUME Sound, setting' = setting, NEW w \in Workers, NEW op \in Operations, NEW x \in Agents, Start(w, op, x)
  PROVE  Sound'
  <1>1. PICK failed \in SUBSET Asked(op, x) :
          LET reach == Asked(op, x) \ failed
              ok    == {a \in reach : \A b \in reach : b <= a => vol[b] \notin refused[b]}
              goes  == /\ ok = reach
                       /\ op = "retire" => reach = Asked(op, x) /\ active[x] # 0
          IN  /\ Failing(failed)
              /\ Observe(ok)
              /\ Become(w, IF ~goes THEN Idle
                           ELSE [Idle EXCEPT !.pc = FirstStep(op), !.op = op, !.x = x,
                                   !.live = reach, !.inc = [a \in Agents |-> IF a \in ok THEN vol[a] ELSE 0],
                                   !.began = losses,
                                   !.todo = IF op = "drain" THEN Held(x)
                                            ELSE IF op = "retire" THEN history ELSE {}])
    BY Zenon DEF Start
  <1>2. PICK reach : reach = Asked(op, x) \ failed
    OBVIOUS
  <1>3. PICK ok : ok = {a \in reach : \A b \in reach : b <= a => vol[b] \notin refused[b]}
    OBVIOUS
  <1>4. PICK inc : inc = [a \in Agents |-> IF a \in ok THEN vol[a] ELSE 0]
    OBVIOUS
  <1>5. PICK todo : todo = IF op = "drain" THEN Held(x) ELSE IF op = "retire" THEN history ELSE {}
    OBVIOUS
  <1>6. PICK began : began = losses
    OBVIOUS
  <1>7. PICK idle : idle = Idle
    OBVIOUS
  <1>8. PICK pc : pc = FirstStep(op)
    OBVIOUS
  <1> DEFINE n == [idle EXCEPT !.pc = pc, !.op = op, !.x = x, !.live = reach, !.inc = inc,
                               !.began = began, !.todo = todo]
  <1>9. /\ Failing(failed) /\ Observe(ok)
        /\ Become(w, idle) \/ (ok = reach /\ Become(w, n))
    BY <1>1, <1>2, <1>3, <1>4, <1>5, <1>6, <1>7, <1>8
  <1>10. /\ op \in {"scrub", "repair", "drain", "retire"} /\ Asked(op, x) \subseteq Agents
         /\ op = "retire" => x \notin Asked(op, x)
    BY TypesOf, SettingFacts DEF Asked
  <1>11. pc \in {"list", "drain", "check"} /\ (pc = "check" <=> op = "retire")
    BY <1>8, <1>10 DEF FirstStep
  <1>12. reach \in SUBSET Agents /\ inc \in [Agents -> Volumes \cup {0}]
         /\ todo \in SUBSET Objects /\ began \in 0..MaxLosses
    BY <1>2, <1>4, <1>5, <1>6, <1>10, TypesOf DEF Held
  <1>13. idle \in WorkRow /\ idle.pc = "idle" /\ idle.done = {} /\ Working(idle)
    BY <1>7, TypesOf, SettingFacts, IdleRow DEF Working
  <1>14. /\ n \in WorkRow /\ n.pc = pc /\ n.x = x /\ n.live = reach /\ n.began = began /\ n.todo = todo /\ n.done = {}
    BY <1>10, <1>11, <1>12, <1>13 DEF WorkRow
  <1> HIDE DEF n
  <1>15. ASSUME ok = reach
         PROVE  Working(n)
    <2>1. ASSUME NEW a \in reach
          PROVE  vol[a] \notin retired[a]
      <3>1. a \in Agents /\ a <= a /\ a \in ok
        BY <1>12, <1>15, TypesOf, SettingFacts
      <3>2. vol[a] \notin refused[a]
        BY <1>3, <3>1
      <3> QED
        BY <3>1, <3>2 DEF Sound, Incarnations
    <2>2. pc = "check" => "retire" \in Operations /\ x \notin reach /\ todo = history
      BY <1>2, <1>5, <1>10, <1>11
    <2>3. began <= losses
      BY <1>6, TypesOf, SettingFacts
    <2> QED
      BY <1>11, <1>14, <2>1, <2>2, <2>3 DEF Working
  <1>16. PICK m \in WorkRow : Become(w, m) /\ Working(m)
    BY <1>9, <1>13, <1>14, <1>15
  <1>17. hiccups' \in 0..MaxHiccups
    BY <1>9, <1>10, FailingCounts
  <1>18. ops' \in 0..MaxOps
    BY TypesOf, SettingFacts DEF Start
  <1>19. UNCHANGED <<agVars, retired, rows, history, health, losses>>
    BY DEF Start
  <1>20. TypeOK'
    BY <1>9, <1>16, <1>17, <1>18, <1>19, TypesOf, TypesNext, WorkTyped, ObserveOK DEF agVars
  <1>21. Steady
    BY <1>9, <1>19, <1>20, ObserveOK, SteadyHere DEF agVars
  <1> QED
    BY <1>16, <1>19, <1>21, GoesOn

LEMMA ScrubListKeeps ==
  ASSUME Sound, setting' = setting, NEW w \in Workers, ScrubList(w)
  PROVE  Sound'
  <1>1. PICK m : m = work[w]
    OBVIOUS
  <1>2. m \in WorkRow /\ Working(m) /\ m.pc = "list"
    BY <1>1, WorkOf DEF ScrubList
  <1>3. PICK failed \in SUBSET m.live :
          /\ Failing(failed)
          /\ Become(w, [m EXCEPT !.pc = "verify", !.scanned = m.live \ failed, !.todo = history, !.done = {},
                          !.listed = [a \in Agents |-> IF a \in m.live \ failed THEN good[a] \cup bad[a] ELSE {}]])
    BY <1>1 DEF ScrubList
  <1>4. PICK listed : listed = [a \in Agents |-> IF a \in m.live \ failed THEN good[a] \cup bad[a] ELSE {}]
    OBVIOUS
  <1>5. PICK todo : todo = history
    OBVIOUS
  <1> DEFINE n == [m EXCEPT !.pc = "verify", !.scanned = m.live \ failed, !.todo = todo, !.done = {}, !.listed = listed]
  <1>6. listed \in [Agents -> SUBSET Objects] /\ todo \in SUBSET Objects /\ failed \in SUBSET Agents
    BY <1>2, <1>4, <1>5, TypesOf DEF WorkRow
  <1>7. n \in WorkRow /\ n.pc = "verify" /\ n.live = m.live /\ n.began = m.began /\ n.done = {}
    BY <1>2, <1>6 DEF WorkRow
  <1>8. Become(w, n)
    BY <1>3, <1>4, <1>5
  <1> HIDE DEF n
  <1>9. Working(n)
    BY <1>2, <1>7 DEF Working
  <1>10. hiccups' \in 0..MaxHiccups
    BY <1>3, <1>6, FailingCounts
  <1> QED
    BY <1>7, <1>8, <1>9, <1>10, TypesOf, OnlyRows DEF ScrubList, dbVars

\* What ScrubVerify writes, its findings being named.
VerifyMove(w, o, m, listed, absent, failed, valid) ==
    /\ Failing(failed)
    /\ rows' = [rows EXCEPT ![o] =
          Mark(Mark(Mark(@, valid, m.inc, "confirmed"), listed \ valid, m.inc, "corrupt"),
               absent, m.inc, "missing")]
    /\ Become(w, [m EXCEPT !.pc = "repair", !.todo = @ \ {o}, !.cur = o, !.valid = valid])

LEMMA ScrubVerifyKeeps ==
  ASSUME Sound, setting' = setting, NEW w \in Workers, NEW o \in Objects, ScrubVerify(w, o)
  PROVE  Sound'
  <1>1. PICK m : m = work[w]
    OBVIOUS
  <1>2. m \in WorkRow /\ Working(m) /\ m.pc = "verify" /\ m.live \subseteq Agents
    BY <1>1, WorkOf DEF ScrubVerify, WorkRow
  <1>3. PICK listed : listed = {a \in m.live : o \in m.listed[a]}
    OBVIOUS
  <1>4. PICK absent : absent = {a \in m.scanned \ listed : rows[o][a].st # "none"}
    OBVIOUS
  <1>5. PICK failed, valid :
          /\ failed \in SUBSET {a \in listed : o \in good[a]}
          /\ valid = {a \in listed : o \in good[a]} \ failed
          /\ VerifyMove(w, o, m, listed, absent, failed, valid)
    <2>1. \E failed, valid :
            /\ failed \in SUBSET {a \in {b \in work[w].live : o \in work[w].listed[b]} : o \in good[a]}
            /\ valid = {a \in {b \in work[w].live : o \in work[w].listed[b]} : o \in good[a]} \ failed
            /\ VerifyMove(w, o, work[w], {b \in work[w].live : o \in work[w].listed[b]},
                          {a \in work[w].scanned \ {b \in work[w].live : o \in work[w].listed[b]} :
                             rows[o][a].st # "none"}, failed, valid)
      BY Zenon DEF ScrubVerify, VerifyMove
    <2> QED
      BY <1>1, <1>3, <1>4, <2>1
  <1> DEFINE n == [m EXCEPT !.pc = "repair", !.todo = m.todo \ {o}, !.cur = o, !.valid = valid]
  <1>7. /\ Failing(failed) /\ Become(w, n)
        /\ rows' = [rows EXCEPT ![o] =
              Mark(Mark(Mark(@, valid, m.inc, "confirmed"), listed \ valid, m.inc, "corrupt"),
                   absent, m.inc, "missing")]
    BY <1>5 DEF VerifyMove
  <1>8. valid \subseteq m.live /\ \A a \in valid : o \in good[a]
    BY <1>3, <1>5
  <1>9. /\ n \in WorkRow /\ n.pc = "repair" /\ n.live = m.live /\ n.began = m.began /\ n.done = m.done
        /\ n.found = m.found /\ n.valid = valid /\ n.cur = o
    BY <1>2, <1>8 DEF WorkRow
  <1> HIDE DEF n
  <1>10. valid \subseteq Kept(o)
    BY <1>2, <1>8 DEF Working, Kept
  <1>11. Working(n)
    BY <1>2, <1>9, <1>10 DEF Working
  <1>12. hiccups' \in 0..MaxHiccups
    BY <1>2, <1>3, <1>5, <1>7, FailingCounts
  <1>13. rows' \in PlacementRows
    <2> DEFINE A == Mark(rows[o], valid, m.inc, "confirmed")
               B == Mark(A, listed \ valid, m.inc, "corrupt")
               C == Mark(B, absent, m.inc, "missing")
               R == [Agents -> CopyRow]
    <2>1. rows[o] \in R /\ m.inc \in [Agents -> Volumes \cup {0}] /\ rows \in [Objects -> R]
      BY <1>2, TypesOf DEF PlacementRows, WorkRow
    <2>2. A \in R
      BY <2>1, MarkRows
    <2>3. B \in R
      <3> HIDE DEF A
      <3> QED
        BY <2>1, <2>2, MarkRows
    <2>4. C \in R
      <3> HIDE DEF B
      <3> QED
        BY <2>1, <2>3, MarkRows
    <2>5. rows' = [rows EXCEPT ![o] = C]
      BY <1>7
    <2> HIDE DEF A, B, C
    <2> QED
      BY <2>1, <2>4, <2>5 DEF PlacementRows
  <1>14. UNCHANGED <<active, refused, retired, history, health, agVars, ops, losses>>
    BY DEF ScrubVerify
  <1> QED
    BY <1>7, <1>9, <1>11, <1>12, <1>13, <1>14, TypesOf, OnlyRows

\* What ScrubRepair writes, its findings being named.
RepairMove(w, o, m, failed, new, row, state) ==
    /\ Failing(failed)
    /\ good' = [a \in Agents |-> IF a \in new THEN good[a] \cup {o} ELSE good[a]]
    /\ bad' = [a \in Agents |-> IF a \in new THEN bad[a] \ {o} ELSE bad[a]]
    /\ rows' = [rows EXCEPT ![o] = row]
    /\ Become(w, [m EXCEPT !.pc = "verify", !.done = @ \cup {o}, !.valid = {}, !.found[o] = state])

\* A state that scrub reports after a repair: from the copies it has now.
LEMMA ScrubRepairMoves ==
  ASSUME Sound, NEW w \in Workers, ScrubRepair(w)
  PROVE  \E failed \in SUBSET Agents : \E valid, row :
           /\ valid \subseteq work[w].valid \cup work[w].live
           /\ row = Mark(rows[work[w].cur], valid \ work[w].valid, work[w].inc, "confirmed")
           /\ RepairMove(w, work[w].cur, work[w], failed, valid \ work[w].valid, row, Classify(valid, Damaged(row)))
  <1> DEFINE damaged == Damaged(rows[work[w].cur])
             may == MayRepair(work[w], Classify(work[w].valid, damaged))
  <1>1. \E failed \in IF may THEN SUBSET (Agents \ work[w].valid) ELSE {{}} : \E valid, row :
           /\ valid = IF may THEN Repaired(work[w], damaged, failed) ELSE work[w].valid
           /\ row = Mark(rows[work[w].cur], valid \ work[w].valid, work[w].inc, "confirmed")
           /\ RepairMove(w, work[w].cur, work[w], failed, valid \ work[w].valid, row, Classify(valid, Damaged(row)))
    BY ZenonT(60) DEF ScrubRepair, RepairMove
  <1>2. PICK failed \in IF may THEN SUBSET (Agents \ work[w].valid) ELSE {{}} : \E valid, row :
           /\ valid = IF may THEN Repaired(work[w], damaged, failed) ELSE work[w].valid
           /\ row = Mark(rows[work[w].cur], valid \ work[w].valid, work[w].inc, "confirmed")
           /\ RepairMove(w, work[w].cur, work[w], failed, valid \ work[w].valid, row, Classify(valid, Damaged(row)))
    BY <1>1
  <1>3. PICK valid, row :
           /\ valid = IF may THEN Repaired(work[w], damaged, failed) ELSE work[w].valid
           /\ row = Mark(rows[work[w].cur], valid \ work[w].valid, work[w].inc, "confirmed")
           /\ RepairMove(w, work[w].cur, work[w], failed, valid \ work[w].valid, row, Classify(valid, Damaged(row)))
    BY <1>2
  <1>4. failed \in SUBSET Agents
    BY <1>2
  <1> HIDE DEF damaged, may
  <1>5. valid \subseteq work[w].valid \cup work[w].live
    BY <1>3, TypesOf, RepairedWithin
  <1> QED
    BY <1>3, <1>4, <1>5

LEMMA ScrubRepairKeeps ==
  ASSUME Sound, setting' = setting, NEW w \in Workers, ScrubRepair(w)
  PROVE  Sound'
  <1>1. PICK m : m = work[w]
    OBVIOUS
  <1>2. /\ m \in WorkRow /\ Working(m) /\ m.pc = "repair" /\ m.live \subseteq Agents /\ m.valid \subseteq Agents
        /\ m.cur \in Objects /\ m.inc \in [Agents -> Volumes \cup {0}] /\ m.found \in [Objects -> States]
        /\ m.done \subseteq Objects
    BY <1>1, WorkOf DEF ScrubRepair, WorkRow
  <1>3. PICK o : o = m.cur
    OBVIOUS
  <1>4. PICK failed \in SUBSET Agents, valid \in SUBSET (m.valid \cup m.live) : \E row :
          /\ row = Mark(rows[o], valid \ m.valid, m.inc, "confirmed")
          /\ RepairMove(w, o, m, failed, valid \ m.valid, row, Classify(valid, Damaged(row)))
    BY <1>1, <1>3, ScrubRepairMoves
  <1>5. PICK row :
          /\ row = Mark(rows[o], valid \ m.valid, m.inc, "confirmed")
          /\ RepairMove(w, o, m, failed, valid \ m.valid, row, Classify(valid, Damaged(row)))
    BY <1>4
  <1>6. PICK state : state = Classify(valid, Damaged(row))
    OBVIOUS
  <1>7. state \in States /\ (state = "durable" => Replicated(valid))
    BY <1>6 DEF Classify, States
  <1>8. PICK found : found = [m.found EXCEPT ![o] = state]
    OBVIOUS
  <1>9. found \in [Objects -> States] /\ \A u \in Objects : found[u] = IF u = o THEN state ELSE m.found[u]
    BY <1>2, <1>7, <1>8
  <1>10. PICK n : n = [m EXCEPT !.pc = "verify", !.done = m.done \cup {o}, !.valid = {}, !.found = found]
    OBVIOUS
  <1>11. /\ n \in WorkRow /\ n.pc = "verify" /\ n.live = m.live /\ n.began = m.began /\ n.done = m.done \cup {o}
         /\ n.found = found
    BY <1>2, <1>3, <1>9, <1>10 DEF WorkRow
  <1>12. Become(w, n)
    <2>1. Become(w, [m EXCEPT !.pc = "verify", !.done = @ \cup {o}, !.valid = {}, !.found[o] = state])
      BY <1>5, <1>6 DEF RepairMove
    <2>2. [m EXCEPT !.pc = "verify", !.done = @ \cup {o}, !.valid = {}, !.found[o] = state] = n
      BY <1>2, <1>8, <1>10 DEF WorkRow
    <2> QED
      BY <2>1, <2>2
  <1>13. /\ good' \in [Agents -> SUBSET Objects] /\ bad' \in [Agents -> SUBSET Objects]
         /\ \A a \in Agents : good[a] \subseteq good'[a]
         /\ \A a \in Agents : a \in valid \ m.valid => o \in good'[a]
    <2>1. /\ good' = [a \in Agents |-> IF a \in valid \ m.valid THEN good[a] \cup {o} ELSE good[a]]
          /\ bad' = [a \in Agents |-> IF a \in valid \ m.valid THEN bad[a] \ {o} ELSE bad[a]]
      BY <1>5 DEF RepairMove
    <2>2. o \in Objects
      BY <1>2, <1>3
    <2> QED
      BY <2>1, <2>2, WrittenTo
  <1>14. rows' \in PlacementRows
    <2>1. rows' = [rows EXCEPT ![o] = row] /\ o \in Objects
      BY <1>2, <1>3, <1>5 DEF RepairMove
    <2>2. row \in [Agents -> CopyRow]
      BY <1>2, <1>5, <2>1, TypesOf, MarkRows DEF PlacementRows
    <2> QED
      BY <2>1, <2>2, TypesOf DEF PlacementRows
  <1>15. hiccups' \in 0..MaxHiccups
    BY <1>5, FailingCounts DEF RepairMove
  <1>16. UNCHANGED <<vol, active, refused, retired, history, health, ops, losses>>
    BY DEF ScrubRepair
  <1>17. TypeOK'
    BY <1>11, <1>12, <1>13, <1>14, <1>15, <1>16, TypesOf, TypesNext, WorkTyped
  <1>18. Steady
    BY <1>13, <1>16, <1>17, IncarnationsHere, SteadyHere
  <1>19. Grows
    BY <1>16, <1>18, TypesOf, SettingFacts DEF Steady, Loses
  <1>20. Working(m)'
    BY <1>2, <1>16, <1>18, WorkingStays
  <1>21. ASSUME losses' = m.began, state = "durable"
         PROVE  Replicated(Kept(o))'
    <2>1. valid \subseteq Kept(o)'
      <3>1. Agents' = Agents
        BY SettingStays
      <3>2. m.valid \subseteq Kept(o)'
        BY <1>2, <1>3, <1>16, <1>19, <1>21 DEF Working, Grows
      <3>3. ASSUME NEW a \in valid \ m.valid
            PROVE  a \in Kept(o)'
        <4>1. a \in m.live /\ a \in Agents
          BY <1>2, <1>4
        <4>2. vol[a] \notin retired[a]
          BY <1>2, <4>1 DEF Working
        <4> QED
          BY <1>13, <1>16, <3>1, <4>1, <4>2 DEF Kept
      <3> QED
        BY <3>2, <3>3
    <2>2. setting \in Settings /\ Agents' = Agents /\ DomainOf' = DomainOf
      BY SettingStays, TypesOf
    <2> DEFINE T == Kept(o)'
    <2>3. T \in SUBSET Agents /\ valid \in SUBSET Agents /\ valid \subseteq T
      BY <1>2, <1>4, <2>1, <2>2 DEF Kept
    <2>4. Domains(Kept(o))' = Domains(T)
      BY <2>2 DEF Domains
    <2>5. Cardinality(Domains(valid)) >= 2
      BY <1>7, <1>21 DEF Replicated
    <2> HIDE DEF T
    <2>6. Cardinality(Domains(T)) >= 2
      BY <2>2, <2>3, <2>5, DomainsGrow, DomainsFinite
    <2> QED
      BY <2>4, <2>6 DEF Replicated
  <1>22. ASSUME losses' = n.began, NEW u \in n.done, n.found[u] = "durable"
         PROVE  Replicated(Kept(u))'
    <2>1. u \in Objects /\ n.found[u] = IF u = o THEN state ELSE m.found[u]
      BY <1>2, <1>3, <1>9, <1>11, <1>22
    <2>2. CASE u = o
      BY <1>11, <1>21, <1>22, <2>1, <2>2
    <2>3. CASE u # o
      BY <1>2, <1>11, <1>20, <1>22, <2>1, <2>3 DEF Working
    <2> QED
      BY <2>2, <2>3
  <1>23. Working(n)'
    BY <1>2, <1>11, <1>20, <1>22 DEF Working
  <1>24. WorkMoves
    BY <1>11, <1>12, <1>23 DEF WorkMoves, Become
  <1> QED
    BY <1>16, <1>18, <1>24, SteadyKeeps

LEMMA FinishKeeps ==
  ASSUME Sound, setting' = setting, NEW w \in Workers, ScrubFinish(w) \/ DrainFinish(w)
  PROVE  Sound'
  <1>1. PICK n : n = Idle
    OBVIOUS
  <1>2. n \in WorkRow /\ Working(n) /\ Become(w, n)
    BY <1>1, IdleWorks DEF ScrubFinish, DrainFinish
  <1>3. health' \in [Objects -> States \cup {"none"}]
    <2>1. work[w].found \in [Objects -> States]
      BY WorkOf DEF WorkRow
    <2> QED
      BY <2>1, TypesOf DEF ScrubFinish, DrainFinish, dbVars
  <1>4. UNCHANGED <<active, refused, retired, rows, history, agVars, envVars>>
    BY DEF ScrubFinish, DrainFinish, dbVars
  <1> QED
    BY <1>2, <1>3, <1>4, TypesOf, OnlyRows DEF envVars

LEMMA DrainCheckKeeps ==
  ASSUME Sound, setting' = setting, NEW w \in Workers, NEW o \in Objects, DrainCheck(w, o)
  PROVE  Sound'
  <1>1. PICK m : m = work[w]
    OBVIOUS
  <1>2. m \in WorkRow /\ Working(m) /\ m.pc = "drain" /\ m.live \subseteq Agents
    BY <1>1, WorkOf DEF DrainCheck, WorkRow
  <1>3. PICK failed \in SUBSET Agents, valid \in SUBSET m.live, pc \in {"orphan", "drain", "place"} :
          /\ Failing(failed)
          /\ Become(w, [m EXCEPT !.todo = @ \ {o}, !.cur = o, !.valid = valid, !.pc = pc])
    <2>1. PICK failed \in SUBSET {a \in m.live : o \in good[a]} :
            LET valid == {a \in m.live : o \in good[a]} \ failed IN
            /\ Failing(failed)
            /\ Become(w, [m EXCEPT !.todo = @ \ {o}, !.cur = o, !.valid = valid,
                            !.pc = IF Satisfied(m, valid) THEN "orphan"
                                   ELSE IF valid = {} THEN "drain" ELSE "place"])
      BY <1>1 DEF DrainCheck
    <2>2. PICK valid : valid = {a \in m.live : o \in good[a]} \ failed
      OBVIOUS
    <2>3. PICK pc : pc = IF Satisfied(m, valid) THEN "orphan" ELSE IF valid = {} THEN "drain" ELSE "place"
      OBVIOUS
    <2>4. Failing(failed) /\ Become(w, [m EXCEPT !.todo = @ \ {o}, !.cur = o, !.valid = valid, !.pc = pc])
      BY <2>1, <2>2, <2>3
    <2>5. failed \in SUBSET Agents /\ valid \in SUBSET m.live /\ pc \in {"orphan", "drain", "place"}
      BY <1>2, <2>2, <2>3
    <2> QED
      BY <2>4, <2>5
  <1> DEFINE n == [m EXCEPT !.todo = m.todo \ {o}, !.cur = o, !.valid = valid, !.pc = pc]
  <1>4. n \in WorkRow /\ n.pc = pc /\ n.live = m.live /\ n.began = m.began
    BY <1>2, <1>3 DEF WorkRow
  <1>5. Become(w, n)
    BY <1>3
  <1> HIDE DEF n
  <1>6. Working(n)
    BY <1>2, <1>3, <1>4 DEF Working
  <1>7. hiccups' \in 0..MaxHiccups
    BY <1>3, FailingCounts
  <1> QED
    BY <1>4, <1>5, <1>6, <1>7, TypesOf, OnlyRows DEF DrainCheck, dbVars

\* What DrainPlace writes, its findings being named.
PlaceMove(w, o, m, failed, new, pc) ==
    /\ Failing(failed)
    /\ good' = [a \in Agents |-> IF a \in new THEN good[a] \cup {o} ELSE good[a]]
    /\ bad' = [a \in Agents |-> IF a \in new THEN bad[a] \ {o} ELSE bad[a]]
    /\ rows' = [rows EXCEPT ![o] = Mark(@, new, m.inc, "confirmed")]
    /\ Become(w, [m EXCEPT !.pc = pc])

LEMMA DrainPlaceKeeps ==
  ASSUME Sound, setting' = setting, NEW w \in Workers, DrainPlace(w)
  PROVE  Sound'
  <1>1. PICK m : m = work[w]
    OBVIOUS
  <1>2. /\ m \in WorkRow /\ Working(m) /\ m.pc = "place" /\ m.live \subseteq Agents
        /\ m.cur \in Objects /\ m.inc \in [Agents -> Volumes \cup {0}]
    BY <1>1, WorkOf DEF DrainPlace, WorkRow
  <1>3. PICK o : o = m.cur
    OBVIOUS
  <1>4. \E failed \in SUBSET (work[w].live \ (work[w].valid \cup {work[w].x})) : \E new :
          PlaceMove(w, work[w].cur, work[w], failed, new,
                    IF Satisfied(work[w], Spread(work[w], failed)) THEN "orphan" ELSE "drain")
    BY Zenon DEF DrainPlace, PlaceMove
  <1>5. PICK failed \in SUBSET Agents : \E new :
          PlaceMove(w, o, m, failed, new, IF Satisfied(m, Spread(m, failed)) THEN "orphan" ELSE "drain")
    BY <1>1, <1>2, <1>3, <1>4
  <1>6. PICK new, pc : pc \in {"orphan", "drain"} /\ PlaceMove(w, o, m, failed, new, pc)
    BY <1>5
  <1> DEFINE n == [m EXCEPT !.pc = pc]
  <1>7. n \in WorkRow /\ n.pc = pc /\ n.live = m.live /\ n.began = m.began
    BY <1>2, <1>6 DEF WorkRow
  <1>8. Become(w, n)
    BY <1>6 DEF PlaceMove
  <1> HIDE DEF n
  <1>9. Working(n)
    BY <1>2, <1>6, <1>7 DEF Working
  <1>10. hiccups' \in 0..MaxHiccups
    BY <1>6, FailingCounts DEF PlaceMove
  <1>11. /\ good' \in [Agents -> SUBSET Objects] /\ bad' \in [Agents -> SUBSET Objects]
         /\ \A a \in Agents : good[a] \subseteq good'[a]
    <2>1. o \in Objects
      BY <1>2, <1>3
    <2>2. /\ good' = [a \in Agents |-> IF a \in new THEN good[a] \cup {o} ELSE good[a]]
          /\ bad' = [a \in Agents |-> IF a \in new THEN bad[a] \ {o} ELSE bad[a]]
      BY <1>6 DEF PlaceMove
    <2> QED
      BY <2>1, <2>2, WrittenTo
  <1>12. rows' \in PlacementRows
    <2>1. PICK row : row = Mark(rows[o], new, m.inc, "confirmed")
      OBVIOUS
    <2>2. rows' = [rows EXCEPT ![o] = row] /\ o \in Objects
      BY <1>2, <1>3, <1>6, <2>1 DEF PlaceMove
    <2>3. row \in [Agents -> CopyRow]
      BY <1>2, <2>1, <2>2, TypesOf, MarkRows DEF PlacementRows
    <2> QED
      BY <2>2, <2>3, TypesOf DEF PlacementRows
  <1>13. UNCHANGED <<vol, active, refused, retired, history, health, ops, losses>>
    BY DEF DrainPlace
  <1>14. TypeOK'
    BY <1>7, <1>8, <1>10, <1>11, <1>12, <1>13, TypesOf, TypesNext, WorkTyped
  <1>15. Steady
    BY <1>11, <1>13, <1>14, IncarnationsHere, SteadyHere
  <1> QED
    BY <1>7, <1>8, <1>9, <1>13, <1>15, GoesOn

LEMMA DrainOrphanKeeps ==
  ASSUME Sound, setting' = setting, NEW w \in Workers, DrainOrphan(w)
  PROVE  Sound'
  <1>1. PICK m : m = work[w]
    OBVIOUS
  <1>2. m \in WorkRow /\ Working(m) /\ m.pc = "orphan" /\ m.cur \in Objects /\ m.x \in Agents
    BY <1>1, WorkOf DEF DrainOrphan, WorkRow
  <1> DEFINE n == [m EXCEPT !.pc = "drain"]
  <1>3. n \in WorkRow /\ n.pc = "drain" /\ n.live = m.live /\ n.began = m.began
    BY <1>2 DEF WorkRow
  <1>4. Become(w, n)
    BY <1>1 DEF DrainOrphan
  <1> HIDE DEF n
  <1>5. Working(n)
    BY <1>2, <1>3 DEF Working
  <1>6. rows' \in PlacementRows
    <2>1. rows' = [rows EXCEPT ![m.cur][m.x].st = "orphaned"]
      BY <1>1 DEF DrainOrphan
    <2>2. PICK c : c = [rows[m.cur][m.x] EXCEPT !.st = "orphaned"]
      OBVIOUS
    <2>3. c \in CopyRow
      <3>1. rows[m.cur][m.x] \in CopyRow
        BY <1>2, TypesOf DEF PlacementRows
      <3> QED
        BY <2>2, <3>1, OrphanRow
    <2>4. PICK row : row = [rows[m.cur] EXCEPT ![m.x] = c]
      OBVIOUS
    <2>5. row \in [Agents -> CopyRow]
      BY <1>2, <2>3, <2>4, TypesOf DEF PlacementRows
    <2>6. rows' = [rows EXCEPT ![m.cur] = row]
      BY <2>1, <2>2, <2>4
    <2> QED
      BY <1>2, <2>5, <2>6, TypesOf DEF PlacementRows
  <1>7. UNCHANGED <<active, refused, retired, history, health, agVars, envVars>>
    BY DEF DrainOrphan
  <1> QED
    BY <1>3, <1>4, <1>5, <1>6, <1>7, TypesOf, OnlyRows DEF envVars

\* retire looks for each object on the other agents.
LEMMA RetireCheckKeeps ==
  ASSUME Sound, setting' = setting, NEW w \in Workers, NEW o \in Objects, RetireCheck(w, o)
  PROVE  Sound'
  <1>1. PICK m : m = work[w]
    OBVIOUS
  <1>2. m \in WorkRow /\ Working(m) /\ m.pc = "check" /\ m.live \subseteq Agents /\ m.risk \in BOOLEAN
    BY <1>1, WorkOf DEF RetireCheck, WorkRow
  <1>3. PICK failed \in SUBSET {a \in m.live : o \in good[a]} :
          LET valid == {a \in m.live : o \in good[a]} \ failed IN
          /\ Failing(failed)
          /\ Become(w, [m EXCEPT !.todo = @ \ {o}, !.risk = @ \/ ~Replicated(valid)])
    BY <1>1 DEF RetireCheck
  <1>4. PICK valid : valid = {a \in m.live : o \in good[a]} \ failed
    OBVIOUS
  <1>5. PICK risk : risk = (m.risk \/ ~Replicated(valid))
    OBVIOUS
  <1>6. risk \in BOOLEAN /\ (risk = FALSE => m.risk = FALSE /\ Replicated(valid))
    BY <1>2, <1>5
  <1> DEFINE n == [m EXCEPT !.todo = m.todo \ {o}, !.risk = risk]
  <1>7. Failing(failed) /\ Become(w, n)
    BY <1>3, <1>4, <1>5
  <1>8. /\ n \in WorkRow /\ n.pc = "check" /\ n.live = m.live /\ n.began = m.began /\ n.x = m.x
        /\ n.todo = m.todo \ {o} /\ n.risk = risk
    BY <1>2, <1>6 DEF WorkRow
  <1> HIDE DEF n
  <1>9. ASSUME risk = FALSE
        PROVE  Spared(o, Agents \ {m.x})
    <2> DEFINE S == Kept(o) \cap (Agents \ {m.x})
    <2>1. valid \subseteq S
      BY <1>2, <1>4 DEF Working, Kept
    <2>2. S \in SUBSET Agents /\ valid \in SUBSET Agents
      BY <1>2, <1>4
    <2>3. Cardinality(Domains(valid)) >= 2
      BY <1>6, <1>9 DEF Replicated
    <2> HIDE DEF S
    <2>4. Cardinality(Domains(S)) \in Nat /\ Cardinality(Domains(valid)) \in Nat /\ losses \in Nat
      BY <2>2, TypesOf, SettingFacts, DomainsFinite
    <2>5. Cardinality(Domains(valid)) <= Cardinality(Domains(S))
      BY <2>1, <2>2, TypesOf, DomainsGrow
    <2>6. Cardinality(Domains(S)) >= 2 - losses
      BY <2>3, <2>4, <2>5
    <2> QED
      BY <2>6 DEF Spared, S
  <1>10. ASSUME n.risk = FALSE, NEW u \in history \ n.todo
         PROVE  Spared(u, Agents \ {m.x})
    <2>1. CASE u = o
      BY <1>8, <1>9, <1>10, <2>1
    <2>2. CASE u # o
      BY <1>2, <1>6, <1>8, <1>10, <2>2 DEF Working
    <2> QED
      BY <2>1, <2>2
  <1>11. Working(n)
    BY <1>2, <1>8, <1>10 DEF Working
  <1>12. failed \in SUBSET Agents
    BY <1>2
  <1>13. hiccups' \in 0..MaxHiccups
    BY <1>7, <1>12, FailingCounts
  <1> QED
    BY <1>7, <1>8, <1>11, <1>13, TypesOf, OnlyRows DEF RetireCheck, dbVars

\* The active incarnation of x is retired: the others hold every object.
LEMMA RetireFinishKeeps ==
  ASSUME Sound, setting' = setting, NEW w \in Workers, RetireFinish(w)
  PROVE  Sound'
  <1>1. PICK m : m = work[w]
    OBVIOUS
  <1>2. /\ m \in WorkRow /\ Working(m) /\ m.pc = "check" /\ m.todo = {} /\ m.x \in Agents
    BY <1>1, WorkOf DEF RetireFinish, WorkRow
  <1>3. PICK x : x = m.x
    OBVIOUS
  <1>4. PICK n : n = Idle
    OBVIOUS
  <1>5. n \in WorkRow /\ Working(n) /\ Become(w, n) /\ n.pc = "idle"
    BY <1>4, IdleWorks, IdleRow, TypesOf, SettingFacts DEF RetireFinish
  <1>6. UNCHANGED <<history, health, agVars, envVars>>
    BY DEF RetireFinish
  <1>7. CASE UNCHANGED <<active, refused, retired, rows>>
    BY <1>5, <1>6, <1>7, TypesOf, OnlyRows DEF envVars
  <1>8. CASE ~UNCHANGED <<active, refused, retired, rows>>
    <2>1. /\ m.risk = FALSE /\ active[x] # 0
          /\ active' = [active EXCEPT ![x] = 0]
          /\ refused' = [refused EXCEPT ![x] = @ \cup {active[x]}]
          /\ retired' = [retired EXCEPT ![x] = @ \cup {active[x]}]
          /\ rows' = [o \in Objects |-> IF rows[o][x].st = "none" THEN rows[o]
                                        ELSE [rows[o] EXCEPT ![x].st = "orphaned"]]
      <3>1. /\ ~Refused(m) /\ active[x] # 0
            /\ active' = [active EXCEPT ![x] = 0]
            /\ refused' = [refused EXCEPT ![x] = @ \cup {active[x]}]
            /\ retired' = [retired EXCEPT ![x] = @ \cup {active[x]}]
            /\ rows' = [o \in Objects |-> IF rows[o][x].st = "none" THEN rows[o]
                                          ELSE [rows[o] EXCEPT ![x].st = "orphaned"]]
        BY <1>1, <1>3, <1>8 DEF RetireFinish
      <3>2. m.risk \in BOOLEAN
        BY <1>2 DEF WorkRow
      <3> QED
        BY <3>1, <3>2 DEF Refused
    <2>2. x \in Agents /\ active[x] \in Volumes
      BY <1>2, <1>3, <2>1, TypesOf
    <2>3. rows' \in PlacementRows
      <3>1. ASSUME NEW o \in Objects
            PROVE  rows'[o] \in [Agents -> CopyRow]
        <4>1. PICK c : c = [rows[o][x] EXCEPT !.st = "orphaned"]
          OBVIOUS
        <4>2. rows[o] \in [Agents -> CopyRow] /\ rows[o][x] \in CopyRow
          BY <2>2, TypesOf DEF PlacementRows
        <4>3. c \in CopyRow
          BY <4>1, <4>2, OrphanRow
        <4>4. rows'[o] = rows[o] \/ rows'[o] = [rows[o] EXCEPT ![x] = c]
          BY <2>1, <4>1
        <4> QED
          BY <2>2, <4>2, <4>3, <4>4
      <3>2. rows' = [o \in Objects |-> rows'[o]]
        BY <2>1
      <3> QED
        BY <3>1, <3>2 DEF PlacementRows
    <2>4. /\ active' \in [Agents -> Volumes \cup {0}]
          /\ refused' \in [Agents -> SUBSET Volumes] /\ retired' \in [Agents -> SUBSET Volumes]
      BY <2>1, <2>2, TypesOf
    <2>5. TypeOK'
      BY <1>5, <1>6, <2>3, <2>4, TypesOf, TypesNext, WorkTyped DEF agVars, envVars
    <2>6. "retire" \in Operations /\ \A o \in history : Spared(o, Agents \ {x})
      BY <1>2, <1>3, <2>1 DEF Working
    <2>7. /\ Agents' = Agents /\ Objects' = Objects /\ Workers' = Workers /\ Operations' = Operations
          /\ DomainOf' = DomainOf
      BY SettingStays
    <2>8. ASSUME NEW a \in Agents
          PROVE  /\ retired'[a] \subseteq refused'[a] /\ refused'[a] \subseteq 1..vol'[a] /\ active'[a] \in 0..vol'[a]
                 /\ a # x => retired'[a] = retired[a]
      <3>1. /\ retired[a] \subseteq refused[a] /\ refused[a] \subseteq 1..vol[a] /\ active[a] \in 0..vol[a]
            /\ vol[a] \in Nat
        <4>1. vol[a] \in 1..MaxVolumes /\ MaxVolumes \in Nat
          BY TypesOf, SettingFacts DEF Volumes
        <4> QED
          BY <4>1 DEF Sound, Incarnations
      <3>2. /\ active'[a] = IF a = x THEN 0 ELSE active[a]
            /\ refused'[a] = IF a = x THEN refused[a] \cup {active[a]} ELSE refused[a]
            /\ retired'[a] = IF a = x THEN retired[a] \cup {active[a]} ELSE retired[a]
        BY <2>1, TypesOf
      <3> QED
        BY <1>6, <2>1, <3>1, <3>2 DEF agVars
    <2>9. Incarnations'
      BY <1>6, <2>6, <2>7, <2>8 DEF Incarnations, Sound
    <2>10. ASSUME NEW o \in history
           PROVE  Spared(o, Agents)'
      <3> DEFINE S == Kept(o) \cap (Agents \ {x})  T == Kept(o)'
      <3>1. S \in SUBSET Agents /\ T \in SUBSET Agents /\ S \subseteq T
        BY <1>6, <2>7, <2>8 DEF Kept, agVars
      <3>2. Cardinality(Domains(S)) >= 2 - losses
        BY <2>6 DEF Spared
      <3>3. Domains(Kept(o) \cap Agents)' = Domains(T \cap Agents)
        BY <2>7 DEF Domains
      <3> HIDE DEF S, T
      <3>4. setting \in Settings /\ losses \in Nat
        BY TypesOf, SettingFacts
      <3>5. T \cap Agents = T /\ Cardinality(Domains(S)) \in Nat /\ Cardinality(Domains(T)) \in Nat
        BY <3>1, <3>4, DomainsFinite
      <3>6. Cardinality(Domains(S)) <= Cardinality(Domains(T))
        BY <3>1, <3>4, DomainsGrow
      <3>7. losses' = losses
        BY <1>6 DEF envVars
      <3>8. Cardinality(Domains(T)) >= 2 - losses'
        BY <3>2, <3>4, <3>5, <3>6, <3>7
      <3>9. Cardinality(Domains(T \cap Agents)) >= 2 - losses'
        BY <3>5, <3>8
      <3> QED
        BY <3>3, <3>9 DEF Spared
    <2>11. ASSUME NEW v \in Workers
           PROVE  Working(work[v])'
      <3>1. v = w
        BY <2>6 DEF Sound, Incarnations
      <3>2. work'[v] = n
        BY <1>5, <3>1, TypesOf DEF Become
      <3>3. Working(n)'
        BY <1>5 DEF Working
      <3> QED
        BY <3>2, <3>3
    <2>12. (MaintenanceAssumption /\ RetiresAlone)' /\ history' = history
      BY <1>6 DEF Sound, MaintenanceAssumption, RetiresAlone
    <2> QED
      BY <2>5, <2>7, <2>9, <2>10, <2>11, <2>12 DEF Sound
  <1> QED
    BY <1>7, <1>8

-----------------------------------------------------------------------------
(* The results.                                                            *)

LEMMA SoundStarts ==
  ASSUME RetiresAlone, Init
  PROVE  Sound
  <1>1. /\ setting \in Settings /\ losses = 0
        /\ vol = [a \in Agents |-> 1] /\ retired = [a \in Agents |-> {}]
        /\ good = [a \in Agents |-> {o \in Objects : a \in Placed[o]}]
        /\ history = {o \in Objects : Placed[o] # {}} /\ work = [w \in Workers |-> Idle]
    BY DEF Init
  <1>2. Idle \in WorkRow /\ Idle.pc = "idle"
    BY <1>1, IdleRow
  <1>3. MaxVolumes \in Nat /\ MaxVolumes # 0 /\ MaxOps \in Nat /\ MaxLosses \in Nat /\ MaxHiccups \in Nat
    BY <1>1, SettingFacts
  <1>4. TypeOK
    <2>1. work \in [Workers -> WorkRow]
      BY <1>1, <1>2
    <2>2. 1 \in Volumes
      BY <1>3 DEF Volumes
    <2>3. rows \in PlacementRows
      <3>1. rows = [o \in Objects |-> [a \in Agents |->
                      IF a \in Placed[o] THEN [st |-> "confirmed", inc |-> 1] ELSE NoRow]]
        BY DEF Init
      <3> QED
        BY <2>2, <3>1 DEF PlacementRows, CopyRow, NoRow
    <2>4. health \in [Objects -> States \cup {"none"}] /\ history \subseteq Objects
      BY DEF Init
    <2>5. /\ vol \in [Agents -> Volumes] /\ active \in [Agents -> Volumes \cup {0}]
          /\ refused \in [Agents -> SUBSET Volumes] /\ retired \in [Agents -> SUBSET Volumes]
          /\ good \in [Agents -> SUBSET Objects] /\ bad \in [Agents -> SUBSET Objects]
      BY <2>2 DEF Init
    <2>6. ops \in 0..MaxOps /\ losses \in 0..MaxLosses /\ hiccups \in 0..MaxHiccups
      BY <1>3 DEF Init
    <2> QED
      BY <1>1, <2>1, <2>3, <2>4, <2>5, <2>6 DEF TypeOK, PlacementRows, CopyRow, WorkRow
  <1>5. Incarnations
    <2>1. "retire" \in Operations => history = Objects /\ \A v, w \in Workers : v = w
      BY <1>1 DEF RetiresAlone, Operations, Workers, Objects, Placed
    <2> QED
      BY <2>1 DEF Init, Incarnations
  <1>6. ASSUME NEW o \in history
        PROVE  Spared(o, Agents)
    <2>1. Kept(o) = Placed[o]
      BY <1>1, SettingFacts DEF Kept
    <2>2. Cardinality(Domains(Kept(o))) >= 2
      BY <1>1, <2>1, SettingFacts
    <2>3. Cardinality(Domains(Kept(o))) \in Nat
      BY <1>1, Copies, DomainsFinite
    <2>4. Cardinality(Domains(Kept(o))) >= 2 - losses
      BY <1>1, <2>2, <2>3
    <2> QED
      BY <2>4, SparedAll
  <1>7. ASSUME NEW w \in Workers
        PROVE  Working(work[w])
    <2>1. work[w].pc = "idle"
      BY <1>1, <1>2
    <2> QED
      BY <2>1 DEF Working
  <1> QED
    BY <1>4, <1>5, <1>6, <1>7, MaintenanceAssumption DEF Sound

LEMMA SoundStep ==
  ASSUME Sound, Next
  PROVE  Sound'
  <1>0. setting' = setting
    BY DEF Next
  <1>1. ASSUME NEW o \in Objects, UploadPut(o) \/ UploadCommit(o)
        PROVE  Sound'
    BY <1>0, <1>1, UploadPutKeeps, UploadCommitKeeps
  <1>2. ASSUME NEW w \in Workers, WorkerStep(w)
        PROVE  Sound'
    BY <1>0, <1>2, ScrubListKeeps, ScrubVerifyKeeps, ScrubRepairKeeps, FinishKeeps, DrainCheckKeeps,
       DrainPlaceKeeps, DrainOrphanKeeps, RetireCheckKeeps, RetireFinishKeeps DEF WorkerStep
  <1>3. ASSUME NEW w \in Workers, NEW op \in Operations, NEW x \in Agents, Start(w, op, x)
        PROVE  Sound'
    BY <1>0, <1>3, StartKeeps
  <1>4. ASSUME NEW a \in Agents, Wipe(a) \/ LoseVolume(a) \/ Rot(a)
        PROVE  Sound'
    BY <1>0, <1>4, MachineKeeps
  <1>5. 1 \in Agents
    BY TypesOf, SettingFacts
  <1> QED
    BY <1>1, <1>2, <1>3, <1>4, <1>5 DEF Next, Activity

LEMMA SoundRests ==
  ASSUME Sound, UNCHANGED vars
  PROVE  Sound'
  <1>1. setting' = setting /\ UNCHANGED <<dbVars, agVars, envVars, work>>
    BY DEF vars
  <1>2. TypeOK'
    BY <1>1, TypesOf, TypesNext DEF dbVars, agVars, envVars
  <1>3. Steady
    BY <1>1, <1>2, IncarnationsHere, SteadyHere DEF dbVars, agVars, envVars
  <1> QED
    BY <1>1, <1>3, SteadyKeeps DEF WorkMoves, dbVars

LEMMA SoundAlways == RetiresAlone /\ Spec => []Sound
  <1>1. RetiresAlone /\ Init => Sound
    BY SoundStarts
  <1>2. Sound /\ [Next]_vars => Sound'
    BY SoundStep, SoundRests
  <1> QED
    BY <1>1, <1>2, PTL DEF Spec

\* A report is true when it is made.
LEMMA ReportHonest ==
  ASSUME Sound, NEW w \in Workers, ScrubFinish(w), losses = work[w].began, NEW o \in Objects, health'[o] = "durable"
  PROVE  Cardinality(Domains({a \in Agents : o \in good[a]})) >= 2
  <1>1. o \in work[w].done /\ work[w].found[o] = "durable" /\ work[w].pc = "verify"
    BY DEF ScrubFinish
  <1>2. Replicated(Kept(o))
    BY <1>1, WorkOf DEF Working
  <1> DEFINE T == {a \in Agents : o \in good[a]}
  <1>3. T \in SUBSET Agents /\ Kept(o) \in SUBSET Agents /\ Kept(o) \subseteq T
    BY DEF Kept
  <1>4. Cardinality(Domains(Kept(o))) >= 2
    BY <1>2 DEF Replicated
  <1> HIDE DEF T
  <1>5. Cardinality(Domains(T)) >= 2
    BY <1>3, <1>4, TypesOf, DomainsGrow, DomainsFinite
  <1> QED
    BY <1>5 DEF T

\* Where a retirement runs alone: apart from one copy for each fault, every
\* committed object keeps intact copies in two failure domains on volumes that
\* are not to be wiped, and an object that scrub reports as durable is so at
\* that moment, unless something was lost while it ran (retire, run_drain,
\* repair_object, verify_object, replace_object_health).
THEOREM PlacementsAreHonest == RetiresAlone /\ Spec => PlacementsHonest
  <1>1. Sound => TypeOK /\ RetirementSafe
    BY SparedAll DEF Sound, RetirementSafe
  <1>2. Sound /\ [Next]_vars =>
          [\A w \in Workers : (ScrubFinish(w) /\ losses = work[w].began) =>
             \A o \in Objects : health'[o] = "durable" =>
                Cardinality(Domains({a \in Agents : o \in good[a]})) >= 2]_vars
    BY ReportHonest
  <1>3. RetiresAlone /\ Spec => [](TypeOK /\ RetirementSafe)
    BY <1>1, SoundAlways, PTL
  <1>4. RetiresAlone /\ Spec => HealthHonest
    BY <1>2, SoundAlways, PTL DEF Spec, HealthHonest
  <1> QED
    BY <1>3, <1>4 DEF PlacementsHonest


-----------------------------------------------------------------------------
(* The job rows.                                                           *)


\* A process has a lease exactly while it is up, and nobody else has it.
LeaseOwn ==
    /\ \A p \in Procs : stage[p] = "down" <=> lease[p] = 0
    /\ \A p, q \in Procs : lease[p] = lease[q] /\ lease[p] # 0 => p = q

\* The file of a process that has passed the lock is there and locked.
LeaseHeld ==
    \A p \in Procs : stage[p] \in {"locked", "up", "closing"} => IsAlive(lease[p])

\* No running job names a lease that is not locked yet.
NotYet ==
    \A p \in Procs : stage[p] = "created" =>
        file[lease[p]] /\ \A j \in Jobs : job[j].status = "running" => job[j].owner # lease[p]

\* The jobs a process works on name its lease.
JobOwned ==
    \A p \in Procs : \A j \in mine[p] : stage[p] = "up" /\ job[j].owner = lease[p]

LeaseInv == JobLeasesAssumption /\ LeasesSound /\ LeaseOwn /\ LeaseHeld /\ NotYet /\ JobOwned

USE DEF Leases

LEMMA LeaseInit == JobLeasesAssumption /\ LeasesInit => LeaseInv
  BY DEF LeasesInit, LeaseInv, LeasesSound, LeasesTyped, LiveJobKept, InterruptedProvesNothing, LeaseOwn,
         LeaseHeld, NotYet, JobOwned, NoJob, OldJob, Statuses, JobLeasesAssumption

\* The lease of a process that is up is an index of the lease tables.
LEMMA LeaseIndex == ASSUME LeaseInv, NEW p \in Procs, stage[p] # "down" PROVE lease[p] \in Leases
  BY DEF LeaseInv, LeasesSound, LeasesTyped, LeaseOwn

\* A lock, too, belongs to one process only: whoever is up is not disturbed
\* by what another does with its own lease.
LEMMA LeaseApart ==
  ASSUME LeaseInv, NEW p \in Procs, NEW q \in Procs, p # q, stage[p] # "down"
  PROVE  lease[p] # lease[q]
  BY DEF LeaseInv, LeaseOwn

LEMMA CreateLeaseKeeps == ASSUME LeaseInv, NEW p \in Procs, CreateLease(p) PROVE LeaseInv'
  <1>1. PICK l \in Leases :
          /\ Unused(l)
          /\ file' = [file EXCEPT ![l] = TRUE]
          /\ lease' = [lease EXCEPT ![p] = l]
    BY DEF CreateLease
  <1>2. stage[p] = "down" /\ stage' = [stage EXCEPT ![p] = "created"] /\ UNCHANGED <<mine, holder, job, scan, stops>>
    BY DEF CreateLease
  <1>3. LeasesSound'
    BY <1>1, <1>2 DEF LeaseInv, LeasesSound, LeasesTyped, LiveJobKept, InterruptedProvesNothing
  <1>4. LeaseOwn'
    BY <1>1, <1>2 DEF LeaseInv, LeasesSound, LeasesTyped, LeaseOwn, Unused
  <1>5. LeaseHeld'
    BY <1>1, <1>2, LeaseIndex DEF LeaseInv, LeasesSound, LeasesTyped, LeaseHeld, IsAlive
  <1>6. NotYet'
    BY <1>1, <1>2, LeaseIndex DEF LeaseInv, LeasesSound, LeasesTyped, NotYet, Unused, Running
  <1>7. JobOwned'
    BY <1>1, <1>2 DEF LeaseInv, LeasesSound, LeasesTyped, JobOwned
  <1>8. QED
    BY <1>3, <1>4, <1>5, <1>6, <1>7 DEF LeaseInv

LEMMA LockLeaseKeeps == ASSUME LeaseInv, NEW p \in Procs, LockLease(p) PROVE LeaseInv'
  <1>1. lease[p] \in Leases
    BY LeaseIndex DEF LockLease
  <1>2. LeasesSound' /\ LeaseOwn' /\ JobOwned'
    BY <1>1 DEF LockLease, LeaseInv, LeasesSound, LeasesTyped, LiveJobKept, InterruptedProvesNothing, LeaseOwn, JobOwned
  <1>3. LeaseHeld'
    BY <1>1, LeaseIndex DEF LockLease, LeaseInv, LeasesSound, LeasesTyped, LeaseHeld, NotYet, IsAlive
  <1>4. NotYet'
    BY <1>1 DEF LockLease, LeaseInv, LeasesSound, LeasesTyped, NotYet
  <1>5. QED
    BY <1>2, <1>3, <1>4 DEF LeaseInv

\* What is_alive takes for dead is no job that somebody works on, and its
\* owner's file is nobody's who is up.
LEMMA DeadAreDead ==
  ASSUME LeaseInv, NEW p \in Procs, NEW j \in Running, ~IsAlive(job[j].owner)
  PROVE  \A q \in Procs : j \notin mine[q] /\ (stage[q] # "down" => job[j].owner # lease[q])
  BY DEF LeaseInv, LeasesSound, LeasesTyped, LeaseHeld, NotYet, JobOwned, Running

LEMMA InterruptKeeps == ASSUME LeaseInv, NEW p \in Procs, InterruptRunningJobs(p) PROVE LeaseInv'
  <1> DEFINE dead == {j \in Running : job[j].owner # lease[p] /\ ~IsAlive(job[j].owner)}
  <1>1. /\ stage[p] = "locked" /\ stage' = [stage EXCEPT ![p] = "up"]
        /\ job' = [j \in Jobs |-> IF j \in dead THEN [job[j] EXCEPT !.status = "interrupted"] ELSE job[j]]
        /\ scan' = FailScans(dead)
        /\ file' = [l \in Leases |-> file[l] /\ \A j \in dead : job[j].owner # l]
        /\ UNCHANGED <<lease, mine, holder, stops>>
    BY DEF InterruptRunningJobs
  <1>2. \A q \in Procs : \A j \in dead : j \notin mine[q] /\ (stage[q] # "down" => job[j].owner # lease[q])
    BY DeadAreDead
  <1>3. dead \subseteq Jobs
    BY DEF Running
  <1> HIDE DEF dead
  <1>4. LeasesTyped'
    BY <1>1, <1>3 DEF LeaseInv, LeasesSound, LeasesTyped, FailScans, Statuses
  <1>5. LiveJobKept' /\ InterruptedProvesNothing'
    BY <1>1, <1>2, <1>3 DEF LeaseInv, LeasesSound, LeasesTyped, FailScans, LiveJobKept, InterruptedProvesNothing
  <1>6. LeaseOwn' /\ JobOwned'
    BY <1>1, <1>2, <1>3 DEF LeaseInv, LeasesSound, LeasesTyped, LeaseOwn, JobOwned
  <1>7. \A q \in Procs : stage[q] # "down" /\ file[lease[q]] => file'[lease[q]]
    BY <1>1, <1>2, LeaseIndex
  <1>8. LeaseHeld'
    BY <1>1, <1>7 DEF LeaseInv, LeasesSound, LeasesTyped, LeaseHeld, IsAlive
  <1>9. NotYet'
    BY <1>1, <1>3, <1>7 DEF LeaseInv, LeasesSound, LeasesTyped, NotYet
  <1>10. QED
    BY <1>4, <1>5, <1>6, <1>8, <1>9 DEF LeaseInv, LeasesSound

LEMMA OpenFailedKeeps == ASSUME LeaseInv, NEW p \in Procs, OpenFailed(p) PROVE LeaseInv'
  <1> DEFINE dead == {j \in Running : job[j].owner # lease[p] /\ ~IsAlive(job[j].owner)}
  <1>1. /\ stage[p] = "locked" /\ stage' = [stage EXCEPT ![p] = "closing"]
        /\ stops < MaxStops /\ stops' = stops + 1
        /\ file' = [l \in Leases |-> file[l] /\ \A j \in dead : job[j].owner # l]
        /\ UNCHANGED <<lease, mine, holder, job, scan>>
    BY DEF OpenFailed
  <1>2. \A q \in Procs : \A j \in dead : stage[q] # "down" => job[j].owner # lease[q]
    BY DeadAreDead
  <1> HIDE DEF dead
  <1>3. LeasesSound' /\ LeaseOwn' /\ JobOwned'
    BY <1>1 DEF LeaseInv, LeasesSound, LeasesTyped, LiveJobKept, InterruptedProvesNothing, LeaseOwn,
                JobOwned, JobLeasesAssumption
  <1>4. \A q \in Procs : stage[q] # "down" /\ file[lease[q]] => file'[lease[q]]
    BY <1>1, <1>2, LeaseIndex
  <1>5. LeaseHeld'
    BY <1>1, <1>4 DEF LeaseInv, LeasesSound, LeasesTyped, LeaseHeld, IsAlive
  <1>6. NotYet'
    BY <1>1, <1>4 DEF LeaseInv, LeasesSound, LeasesTyped, NotYet
  <1>7. QED
    BY <1>3, <1>5, <1>6 DEF LeaseInv

LEMMA CreateJobKeeps == ASSUME LeaseInv, NEW p \in Procs, NEW j \in Jobs, CreateJob(p, j) PROVE LeaseInv'
  <1>1. lease[p] \in Leases
    BY LeaseIndex DEF CreateJob
  <1>2. PICK k \in {"reconcile", "backup"} :
          job' = [job EXCEPT ![j] = [kind |-> k, owner |-> lease[p], status |-> "running"]]
    BY DEF CreateJob
  <1>3. \A q \in Procs : j \notin mine[q]
    BY DEF CreateJob, LeaseInv, LeasesSound, LiveJobKept
  <1>4. LeasesTyped'
    BY <1>1, <1>2 DEF CreateJob, LeaseInv, LeasesSound, LeasesTyped, Statuses
  <1>5. LiveJobKept' /\ InterruptedProvesNothing' /\ JobOwned'
    BY <1>2, <1>3 DEF CreateJob, LeaseInv, LeasesSound, LeasesTyped, LiveJobKept, InterruptedProvesNothing, JobOwned
  <1>6. LeaseOwn' /\ LeaseHeld'
    BY DEF CreateJob, LeaseInv, LeaseOwn, LeaseHeld, IsAlive
  <1>7. NotYet'
    BY <1>2, LeaseApart DEF CreateJob, LeaseInv, LeasesSound, LeasesTyped, NotYet
  <1>8. QED
    BY <1>4, <1>5, <1>6, <1>7 DEF LeaseInv, LeasesSound

LEMMA ScanKeeps ==
  ASSUME LeaseInv, NEW p \in Procs, NEW j \in Jobs, StartScan(p, j) \/ EndScan(p, j)
  PROVE  LeaseInv'
  <1>1. j \in mine[p] /\ UNCHANGED <<stage, lease, mine, file, holder, job, stops>>
    BY DEF StartScan, EndScan
  <1>2. PICK s \in {"running", "complete", "failed"} : scan' = [scan EXCEPT ![j] = s]
    BY DEF StartScan, EndScan
  <1>3. LeasesSound'
    BY <1>1, <1>2 DEF LeaseInv, LeasesSound, LeasesTyped, LiveJobKept, InterruptedProvesNothing
  <1>4. QED
    BY <1>1, <1>3 DEF LeaseInv, LeaseOwn, LeaseHeld, NotYet, JobOwned, IsAlive

LEMMA FinishJobKeeps == ASSUME LeaseInv, NEW p \in Procs, NEW j \in Jobs, FinishJob(p, j) PROVE LeaseInv'
  <1>1. job[j].status = "running" /\ stage[p] = "up" /\ j \in mine[p]
    BY DEF FinishJob, LeaseInv, LeasesSound, LiveJobKept
  <1>2. PICK s \in {"complete", "failed"} : job' = [job EXCEPT ![j].status = s]
    BY <1>1 DEF FinishJob
  <1>3. /\ mine' = [mine EXCEPT ![p] = @ \ {j}]
        /\ stops' \in 0..MaxStops
        /\ UNCHANGED <<stage, lease, file, holder, scan>>
    BY DEF FinishJob, LeaseInv, LeasesSound, LeasesTyped, JobLeasesAssumption
  <1>4. \A q \in Procs : q # p => j \notin mine[q]
    BY <1>1, LeaseApart DEF LeaseInv, JobOwned
  <1>5. LeasesTyped'
    <2>1. /\ job' \in [Jobs -> [kind : {"none", "reconcile", "backup"}, owner : Leases \cup {0},
                               status : Statuses \cup {"none"}]]
      <3>1. job \in [Jobs -> [kind : {"none", "reconcile", "backup"}, owner : Leases \cup {0},
                              status : Statuses \cup {"none"}]]
        BY DEF LeaseInv, LeasesSound, LeasesTyped
      <3>2. s \in Statuses \cup {"none"}
        BY DEF Statuses
      <3>3. QED
        BY ONLY <1>2, <3>1, <3>2, j \in Jobs
    <2>2. mine' \in [Procs -> SUBSET Jobs]
      BY <1>3 DEF LeaseInv, LeasesSound, LeasesTyped
    <2>3. QED
      BY <1>3, <2>1, <2>2 DEF LeaseInv, LeasesSound, LeasesTyped
  <1>6. LiveJobKept' /\ InterruptedProvesNothing' /\ JobOwned' /\ NotYet'
    <2>1. LiveJobKept'
      BY <1>2, <1>3, <1>4 DEF LeaseInv, LeasesSound, LeasesTyped, LiveJobKept
    <2>2. InterruptedProvesNothing'
      BY <1>2, <1>3, <1>4 DEF LeaseInv, LeasesSound, LeasesTyped, InterruptedProvesNothing
    <2>3. JobOwned'
      BY <1>2, <1>3, <1>4 DEF LeaseInv, LeasesSound, LeasesTyped, JobOwned
    <2>4. NotYet'
      BY <1>2, <1>3, <1>4 DEF LeaseInv, LeasesSound, LeasesTyped, NotYet
    <2>5. QED
      BY <2>1, <2>2, <2>3, <2>4
  <1>7. LeaseOwn' /\ LeaseHeld'
    BY <1>3 DEF LeaseInv, LeaseOwn, LeaseHeld, IsAlive
  <1>8. QED
    BY <1>5, <1>6, <1>7 DEF LeaseInv, LeasesSound

LEMMA EndKeeps == ASSUME LeaseInv, NEW p \in Procs, DropLease(p) \/ ProcessStops(p) PROVE LeaseInv'
  <1>1. /\ stage[p] # "down" /\ stage' = [stage EXCEPT ![p] = "down"] /\ lease' = [lease EXCEPT ![p] = 0]
        /\ holder' = [holder EXCEPT ![lease[p]] = FALSE]
        /\ mine' = [mine EXCEPT ![p] = {}]
        /\ file' \in {file, [file EXCEPT ![lease[p]] = FALSE]}
        /\ UNCHANGED <<job, scan>>
    BY DEF DropLease, ProcessStops
  <1>2. stops' \in 0..MaxStops
    BY DEF DropLease, ProcessStops, LeaseInv, LeasesSound, LeasesTyped, JobLeasesAssumption
  <1>3. lease[p] \in Leases
    BY <1>1, LeaseIndex
  <1>4. LeasesSound'
    <2>1. LeasesTyped'
      BY <1>1, <1>2, <1>3 DEF LeaseInv, LeasesSound, LeasesTyped
    <2>2. LiveJobKept'
      BY <1>1 DEF LeaseInv, LeasesSound, LeasesTyped, LiveJobKept
    <2>3. InterruptedProvesNothing'
      BY <1>1 DEF LeaseInv, LeasesSound, InterruptedProvesNothing
    <2>4. QED
      BY <2>1, <2>2, <2>3 DEF LeasesSound
  <1>5. LeaseOwn' /\ JobOwned'
    BY <1>1 DEF LeaseInv, LeasesSound, LeasesTyped, LeaseOwn, JobOwned
  <1>6. ASSUME NEW q \in Procs, q # p, stage[q] # "down"
        PROVE  /\ stage'[q] = stage[q] /\ lease'[q] = lease[q]
               /\ file'[lease[q]] = file[lease[q]] /\ holder'[lease[q]] = holder[lease[q]]
    <2>1. lease[q] \in Leases /\ lease[q] # lease[p]
      BY <1>1, <1>6, LeaseApart, LeaseIndex
    <2>2. QED
      BY <1>1, <1>3, <1>6, <2>1 DEF LeaseInv, LeasesSound, LeasesTyped
  <1>7. stage'[p] = "down"
    BY <1>1 DEF LeaseInv, LeasesSound, LeasesTyped
  <1>8. \A q \in Procs : stage'[q] # "down" => q # p /\ stage[q] # "down"
    BY <1>1, <1>7 DEF LeaseInv, LeasesSound, LeasesTyped
  <1>9. LeaseHeld'
    BY <1>6, <1>8 DEF LeaseInv, LeaseHeld, IsAlive
  <1>10. NotYet'
    <2>1. SUFFICES ASSUME NEW q \in Procs, stage'[q] = "created"
                   PROVE  file'[lease'[q]] /\ \A j \in Jobs : job'[j].status = "running" => job'[j].owner # lease'[q]
      BY DEF NotYet
    <2>2. /\ stage[q] = "created" /\ lease'[q] = lease[q] /\ file'[lease[q]] = file[lease[q]]
          /\ job' = job
      BY <1>1, <1>6, <1>8, <2>1
    <2>3. QED
      BY <2>2 DEF LeaseInv, NotYet
  <1>11. QED
    BY <1>4, <1>5, <1>9, <1>10 DEF LeaseInv

LEMMA LeaseStep == LeaseInv /\ [LeasesNext]_leaseVars => LeaseInv'
  <1> SUFFICES ASSUME LeaseInv, [LeasesNext]_leaseVars PROVE LeaseInv'
    OBVIOUS
  <1>1. CASE UNCHANGED leaseVars
    BY <1>1 DEF leaseVars, LeaseInv, LeasesSound, LeasesTyped, LiveJobKept, InterruptedProvesNothing, LeaseOwn,
                LeaseHeld, NotYet, JobOwned, IsAlive
  <1>2. CASE LeasesNext
    BY <1>2, CreateLeaseKeeps, LockLeaseKeeps, InterruptKeeps, OpenFailedKeeps, CreateJobKeeps,
       ScanKeeps, FinishJobKeeps, EndKeeps DEF LeasesNext, OpenStep
  <1>3. QED
    BY <1>1, <1>2

\* interrupt_running_jobs never interrupts the job of a process that lives,
\* however processes open, crash and close beside one another, and leaves no
\* scan of an interrupted job open, for any number of them.
THEOREM LeasesAreSound == JobLeasesAssumption /\ LeasesSpec => []LeasesSound
  <1>1. LeaseInv => LeasesSound
    BY DEF LeaseInv
  <1>2. QED
    BY <1>1, LeaseInit, LeaseStep, PTL DEF LeasesSpec
=============================================================================
