--------------------------- MODULE RecoveryProofs ---------------------------
(***************************************************************************)
(* Proofs about Recovery, for any files, agents, failure domains, versions,*)
(* failures, losses inside one domain, and restores.                       *)
(*                                                                         *)
(* An agent outside of the fragile domain loses nothing, so what it holds  *)
(* (Held) it holds for good.  Whatever was acknowledged was read back in   *)
(* two domains, hence is held; a pass that clears `pending' has listed     *)
(* every agent, read what is held and written a verdict on each file seen, *)
(* so that nothing of it can have been passed over (Coming).               *)
(***************************************************************************)
EXTENDS Recovery, FiniteSetTheorems, WellFoundedInduction, TLAPS

Firm == Agents \ Fragile
Held(o) == \E a \in Firm : o \in good[a]

Incs == Volumes \cup {0}
OptVersions == Versions \cup {0}
Tables == [active : [Agents -> Incs], rows : [Objects -> [Agents -> Incs]],
           uploads : [Files -> [state : {"none", "open", "committed"}, man : OptVersions]],
           deletes : [Files -> OptVersions], files : [Files -> FileRows],
           manifestOf : [Files -> OptVersions], markerOf : [Files -> OptVersions]]

\* TypeOK, with what bounds the volumes, and the snapshot.
Shapes ==
    /\ TypeOK
    /\ \A a \in Agents : vol[a] <= losses + 1
    /\ snapshot \in [taken : BOOLEAN, db : Tables]

\* What the row of a file says about itself and about the agents.
RowOK(f, r) ==
    /\ r.state = "none" => r.gen = 0 /\ r.man = 0
    /\ r.state = "deleted" => r.gen = 2 /\ r.del # 0
    /\ r.state # "deleted" => r.del = 0
    /\ r.state = "committed" => r.man # 0 /\ Held(Chunk(f)) /\ Held(Manifest(f, r.man))
RowsOK == \A f \in Files : RowOK(f, files[f]) /\ RowOK(f, snapshot.db.files[f]) /\ RowOK(f, rec.proj[f])

\* What was acknowledged is held.
AckedHeld ==
    /\ \A f \in acked : \E v \in Versions : Held(Manifest(f, v))
    /\ \A f \in ackedDeletes : \E v \in Versions : Held(Marker(f, v))

Verdicts == rec.pc \in {"repair", "apply"}
Open(f) == f \in rec.todo \/ (rec.pc = "apply" /\ f = rec.cur)

\* The pass under way, if any, has seen or will see o, and has still to write
\* its verdict on f.
Coming(f, o) ==
    \E a \in Firm :
      /\ o \in good[a]
      /\ (rec.pc = "list" /\ a < rec.at) => o \in rec.listed[a]
      /\ rec.pc = "read" => o \in rec.listed[a]
      /\ Verdicts => a \in rec.valid[o] /\ Open(f)

Known ==
    /\ \A f \in acked : files[f].state # "none" \/ (pending /\ \E v \in Versions : Coming(f, Manifest(f, v)))
    /\ \A f \in ackedDeletes :
          files[f].state = "deleted" \/ (pending /\ \E v \in Versions : Coming(f, Marker(f, v)))

\* The memory of a pass: what it read is there, every file it has to judge has
\* evidence, and what it is about to install is held.
PassOK ==
    /\ Verdicts => \A o \in Objects : \A a \in rec.valid[o] \cap Firm : o \in good[a]
    /\ Verdicts => \A f \in Files : Open(f) => MarkerEvidence(f) \cup ManifestEvidence(f) # {}
    /\ (rec.pc = "apply" /\ ~rec.issues /\ WinningGeneration(rec.cur) = 1) => \A o \in Required(rec.cur) : Held(o)

\* The inductive invariant.
RecInv == Shapes /\ RowsOK /\ AckedHeld /\ Known /\ PassOK

-----------------------------------------------------------------------------
(* The setting and numbers.                                                *)

LEMMA SettingFacts ==
  ASSUME setting \in Settings
  PROVE  /\ \E n \in Nat \ {0} : Agents = 1..n /\ NumAgents = n
         /\ IsFiniteSet(Agents) /\ Agents \subseteq Nat
         /\ Fragile \subseteq Agents /\ \A a, b \in Fragile : DomainOf[a] = DomainOf[b]
         /\ MaxVersions \in Nat \ {0} /\ MaxLosses \in Nat /\ MaxHiccups \in Nat /\ MaxRestores \in Nat
  <1>1. PICK n \in 1..Cardinality(Agents) : Agents = 1..n
    BY RecoveryAssumption DEF Agents, DomainOf
  <1>2. n \in Nat \ {0} /\ IsFiniteSet(Agents) /\ Cardinality(Agents) = n /\ Agents \subseteq Nat
    <2>1. n \in Nat \/ n \in Int
      BY <1>1
    <2>2. n \in Nat /\ n # 0
      BY <1>1, <2>1
    <2>3. QED
      BY <1>1, <2>2, FS_Interval
  <1>3. QED
    BY <1>1, <1>2, RecoveryAssumption
    DEF NumAgents, Fragile, Agents, DomainOf, MaxVersions, MaxLosses, MaxHiccups, MaxRestores

LEMMA SameSetting ==
  ASSUME UNCHANGED setting
  PROVE  /\ DomainOf' = DomainOf /\ Agents' = Agents /\ NumAgents' = NumAgents /\ Fragile' = Fragile /\ Firm' = Firm
         /\ MaxVersions' = MaxVersions /\ MaxLosses' = MaxLosses /\ MaxHiccups' = MaxHiccups
         /\ MaxRestores' = MaxRestores /\ Versions' = Versions /\ Volumes' = Volumes /\ Objects' = Objects
         /\ Incs' = Incs /\ OptVersions' = OptVersions /\ FileRows' = FileRows /\ Tables' = Tables
  BY DEF DomainOf, Agents, NumAgents, Fragile, Firm, MaxVersions, MaxLosses, MaxHiccups, MaxRestores, Versions,
         Volumes, Objects, Incs, OptVersions, FileRows, Tables

LEMMA ObjectFacts ==
  ASSUME setting \in Settings
  PROVE  /\ \A f \in Files : Chunk(f) \in Objects
         /\ \A f \in Files : \A v \in Versions : Manifest(f, v) \in Objects /\ Marker(f, v) \in Objects
         /\ \A f, v : Manifest(f, v)[3] = v /\ Marker(f, v)[3] = v
         /\ Versions \subseteq Nat /\ 0 \notin Versions
  BY SettingFacts DEF Chunk, Manifest, Marker, Objects, Versions

\* A set of naturals that is not empty has a least element.
LEMMA HasLeast ==
  ASSUME NEW S \in SUBSET Nat, S # {}
  PROVE  Least(S) \in S /\ \A y \in S : Least(S) <= y
  <1>1. IsWellFoundedOn(OpToRel(<, Nat), Nat)
    BY NatLessThanWellFounded
  <1>2. PICK x \in S : \A y \in S : ~(<<y, x>> \in OpToRel(<, Nat))
    BY <1>1, WFMin
  <1>3. \A y \in S : ~(y < x)
    BY <1>2 DEF OpToRel
  <1>4. \A y \in S : x <= y
    BY <1>3
  <1>5. QED
    BY <1>4 DEF Least

\* The first and the second of the targets, in order.
LEMMA NthIn ==
  ASSUME NEW S \in SUBSET Nat, IsFiniteSet(S), NEW n \in {0, 1}, Cardinality(S) > n
  PROVE  Nth(S, n) \in S
  <1> DEFINE below(a) == {b \in S : b < a}
  <1>1. \A a \in S : a \in Nat
    OBVIOUS
  <1>2. S # {}
    BY FS_EmptySet
  <1>3. PICK m \in S : \A y \in S : m <= y
    BY <1>2, HasLeast
  <1>4. below(m) = {}
    <2>1. \A b \in S : ~(b < m)
      BY <1>1, <1>3
    <2>2. QED
      BY <2>1
  <1>5. CASE n = 0
    <2>1. Cardinality(below(m)) = n
      BY <1>4, <1>5, FS_EmptySet
    <2>2. QED
      BY <2>1 DEF Nth
  <1>6. CASE n = 1
    <2>1. S \ {m} # {} /\ S \ {m} \in SUBSET Nat
      <3>1. Cardinality(S) \in Nat /\ Cardinality(S \ {m}) = Cardinality(S) - 1
        BY <1>3, FS_RemoveElement, FS_CardinalityType
      <3>2. Cardinality(S \ {m}) # 0
        BY <1>6, <3>1
      <3>3. QED
        BY <3>2, FS_EmptySet
    <2>2. PICK k \in S \ {m} : \A y \in S \ {m} : k <= y
      BY <2>1, HasLeast
    <2>3. m < k
      BY <1>1, <1>3, <2>2
    <2>4. \A b \in S : b < k <=> b = m
      <3>1. \A b \in S \ {m} : ~(b < k)
        BY <1>1, <2>2
      <3>2. QED
        BY <2>3, <3>1
    <2>5. below(k) = {m}
      BY <1>3, <2>4
    <2>6. Cardinality(below(k)) = n
      BY <1>6, <2>5, FS_Singleton
    <2>7. QED
      BY <2>2, <2>6 DEF Nth
  <1>7. QED
    BY <1>5, <1>6

\* Of copies in two domains one is on an agent that loses nothing.
LEMMA TwoDomains ==
  ASSUME setting \in Settings, NEW S \in SUBSET Agents, Cardinality(Domains(S)) >= 2
  PROVE  \E a \in S : a \in Firm
  <1>1. SUFFICES ASSUME S \subseteq Fragile PROVE FALSE
    BY DEF Firm
  <1>2. CASE S = {}
    <2>1. Domains(S) = {}
      BY <1>2 DEF Domains
    <2>2. QED
      BY <2>1, FS_EmptySet
  <1>3. CASE S # {}
    <2>1. PICK b \in S : TRUE
      BY <1>3
    <2>2. Domains(S) = {DomainOf[b]}
      BY <1>1, <2>1, SettingFacts DEF Domains
    <2>3. Cardinality(Domains(S)) = 1
      BY <2>2, FS_Singleton
    <2>4. QED
      BY <2>3
  <1>4. QED
    BY <1>2, <1>3

-----------------------------------------------------------------------------
(* Types, in groups of variables that change together.                     *)

Uploads == [state : {"none", "open", "committed"}, man : OptVersions]
Passes == [pc : {"idle", "list", "read", "repair", "apply"}, at : 1..(NumAgents + 1),
           inc : [Agents -> Incs], listed : [Agents -> SUBSET Objects],
           valid : [Objects -> SUBSET Agents], proj : [Files -> FileRows],
           todo : SUBSET Files, cur : Files, issues : BOOLEAN]
Mints == [begun : BOOLEAN, man : 0..MaxVersions, del : 0..MaxVersions]

AgentTypes ==
    /\ vol \in [Agents -> Volumes] /\ losses \in 0..MaxLosses /\ \A a \in Agents : vol[a] <= losses + 1
    /\ good \in [Agents -> SUBSET Objects] /\ bad \in [Agents -> SUBSET Objects]
PlaceTypes == active \in [Agents -> Incs] /\ rows \in [Objects -> [Agents -> Incs]]
FileTypes ==
    /\ uploads \in [Files -> Uploads]
    /\ deletes \in [Files -> OptVersions]
    /\ files \in [Files -> FileRows]
    /\ manifestOf \in [Files -> OptVersions] /\ markerOf \in [Files -> OptVersions]
    /\ pending \in BOOLEAN
EnvTypes ==
    /\ setting \in Settings
    /\ snapshot \in [taken : BOOLEAN, db : Tables]
    /\ hiccups \in 0..MaxHiccups /\ restores \in 0..MaxRestores
AckTypes ==
    /\ minted \in [Files -> Mints]
    /\ acked \subseteq Files /\ ackedDeletes \subseteq Files
RecTypes == rec \in Passes

LEMMA Parts == Shapes <=> AgentTypes /\ PlaceTypes /\ FileTypes /\ EnvTypes /\ AckTypes /\ RecTypes
  BY DEF Shapes, TypeOK, AgentTypes, PlaceTypes, FileTypes, EnvTypes, AckTypes, RecTypes, Uploads, Passes, Mints,
         Incs, OptVersions

LEMMA PartsPrime ==
  ASSUME AgentTypes', PlaceTypes', FileTypes', EnvTypes', AckTypes', RecTypes'
  PROVE  Shapes'
  BY Parts, PTL

\* A group whose variables rest keeps its types.
LEMMA Rests ==
  ASSUME Shapes, UNCHANGED setting
  PROVE  /\ UNCHANGED <<agVars, losses>> => AgentTypes'
         /\ UNCHANGED <<active, rows>> => PlaceTypes'
         /\ UNCHANGED <<uploads, deletes, files, manifestOf, markerOf, pending>> => FileTypes'
         /\ UNCHANGED <<snapshot, hiccups, restores>> => EnvTypes'
         /\ UNCHANGED <<minted, acked, ackedDeletes>> => AckTypes'
         /\ UNCHANGED rec => RecTypes'
         /\ Uploads' = Uploads /\ Passes' = Passes /\ Mints' = Mints
  <1>1. /\ AgentTypes /\ PlaceTypes /\ FileTypes /\ EnvTypes /\ AckTypes /\ RecTypes
    BY Parts
  <1>2. Uploads' = Uploads /\ Passes' = Passes /\ Mints' = Mints
    BY SameSetting DEF Uploads, Passes, Mints
  <1>3. UNCHANGED <<agVars, losses>> => AgentTypes'
    BY <1>1, SameSetting DEF AgentTypes, agVars
  <1>4. UNCHANGED <<active, rows>> => PlaceTypes'
    BY <1>1, SameSetting DEF PlaceTypes
  <1>5. UNCHANGED <<uploads, deletes, files, manifestOf, markerOf, pending>> => FileTypes'
    BY <1>1, <1>2, SameSetting DEF FileTypes
  <1>6. UNCHANGED <<snapshot, hiccups, restores>> => EnvTypes'
    BY <1>1, SameSetting DEF EnvTypes
  <1>7. UNCHANGED <<minted, acked, ackedDeletes>> => AckTypes'
    BY <1>1, <1>2 DEF AckTypes
  <1>8. UNCHANGED rec => RecTypes'
    BY <1>1, <1>2 DEF RecTypes
  <1>9. QED
    BY <1>2, <1>3, <1>4, <1>5, <1>6, <1>7, <1>8

\* One more failed request.
LEMMA HiccupTypes ==
  ASSUME Shapes, UNCHANGED setting, UNCHANGED <<snapshot, restores>>, Hiccup \/ UNCHANGED hiccups
  PROVE  EnvTypes'
  <1>1. EnvTypes /\ MaxHiccups \in Nat /\ MaxHiccups' = MaxHiccups
    BY Parts, SettingFacts, SameSetting DEF EnvTypes
  <1>2. hiccups' \in 0..MaxHiccups
    BY <1>1 DEF Hiccup, EnvTypes
  <1>3. QED
    BY <1>1, <1>2, SameSetting DEF EnvTypes

\* The PUTs of one object.
LEMMA ReplicateTypes ==
  ASSUME Shapes, UNCHANGED setting, UNCHANGED <<vol, losses, snapshot, restores>>, NEW o \in Objects, Replicate(o)
  PROVE  /\ AgentTypes' /\ PlaceTypes' /\ EnvTypes'
         /\ \A a \in Agents : good[a] \subseteq good'[a]
  <1>1. AgentTypes /\ PlaceTypes /\ EnvTypes
    BY Parts
  <1>2. PICK got \in SUBSET Agents : \E confirmed \in {got, {}} :
          /\ Hiccup \/ UNCHANGED hiccups
          /\ good' = [a \in Agents |-> IF a \in got THEN good[a] \cup {o} ELSE good[a]]
          /\ bad' = [a \in Agents |-> IF a \in got THEN bad[a] \ {o} ELSE bad[a]]
          /\ active' = vol
          /\ rows' = [rows EXCEPT ![o] = [a \in Agents |-> IF a \in confirmed THEN vol[a] ELSE @[a]]]
    <2> DEFINE P(got, confirmed) ==
          /\ good' = [a \in Agents |-> IF a \in got THEN good[a] \cup {o} ELSE good[a]]
          /\ bad' = [a \in Agents |-> IF a \in got THEN bad[a] \ {o} ELSE bad[a]]
          /\ active' = vol
          /\ rows' = [rows EXCEPT ![o] = [a \in Agents |-> IF a \in confirmed THEN vol[a] ELSE @[a]]]
    <2>1. \E got \in SUBSET Agents : \E confirmed \in {got, {}} :
            /\ IF got = Agents /\ confirmed = Agents THEN UNCHANGED hiccups ELSE Hiccup
            /\ P(got, confirmed)
      BY Zenon DEF Replicate
    <2> HIDE DEF P
    <2>2. \E got \in SUBSET Agents : \E confirmed \in {got, {}} : (Hiccup \/ UNCHANGED hiccups) /\ P(got, confirmed)
      BY <2>1
    <2>3. QED
      BY <2>2, Zenon DEF P
  <1>12. PICK confirmed \in {got, {}} :
          /\ Hiccup \/ UNCHANGED hiccups
          /\ rows' = [rows EXCEPT ![o] = [a \in Agents |-> IF a \in confirmed THEN vol[a] ELSE rows[o][a]]]
    BY <1>2
  <1>3. good' \in [Agents -> SUBSET Objects] /\ bad' \in [Agents -> SUBSET Objects]
    BY <1>1, <1>2 DEF AgentTypes
  <1>4. active' \in [Agents -> Incs]
    BY <1>1, <1>2 DEF AgentTypes, Incs
  <1>5. [a \in Agents |-> IF a \in confirmed THEN vol[a] ELSE rows[o][a]] \in [Agents -> Incs]
    BY <1>1 DEF AgentTypes, PlaceTypes, Incs
  <1>6. rows' \in [Objects -> [Agents -> Incs]]
    BY <1>1, <1>12, <1>5 DEF PlaceTypes
  <1>7. EnvTypes'
    BY <1>12, HiccupTypes
  <1>8. AgentTypes'
    BY <1>1, <1>3, SameSetting DEF AgentTypes
  <1>9. PlaceTypes'
    BY <1>4, <1>6, SameSetting DEF PlaceTypes
  <1>10. \A a \in Agents : good[a] \subseteq good'[a]
    BY <1>2
  <1>11. QED
    BY <1>7, <1>8, <1>9, <1>10

-----------------------------------------------------------------------------
(* What every step keeps.                                                  *)

\* Agents that are not fragile lose nothing.
Grows == \A a \in Firm : good[a] \subseteq good'[a]

LEMMA HeldStays ==
  ASSUME UNCHANGED setting, Grows
  PROVE  \A o : Held(o) => Held(o)'
  BY SameSetting DEF Grows, Held

\* The evidence of a pass is what it has read, and the rows it has read.
WinnerOf(f, generation, markers, read, manifests, proj) ==
    IF generation = 2
    THEN Marker(f, IF Cardinality(markers) = 1 THEN CHOOSE v \in markers : TRUE
                   ELSE IF proj[f].state = "deleted" /\ proj[f].del \in read
                        THEN proj[f].del ELSE Least(read))
    ELSE Manifest(f, CHOOSE v \in manifests : TRUE)

LEMMA SameEvidence ==
  ASSUME UNCHANGED setting, rec'.valid = rec.valid, rec'.proj = rec.proj
  PROVE  \A f : /\ MarkersRead(f)' = MarkersRead(f) /\ MarkerEvidence(f)' = MarkerEvidence(f)
                /\ ManifestEvidence(f)' = ManifestEvidence(f)
                /\ WinningGeneration(f)' = WinningGeneration(f)
                /\ Winner(f)' = Winner(f) /\ Required(f)' = Required(f)
  <1>1. Versions' = Versions
    BY SameSetting
  <1>2. ASSUME NEW f
        PROVE  /\ MarkersRead(f)' = MarkersRead(f) /\ MarkerEvidence(f)' = MarkerEvidence(f)
               /\ ManifestEvidence(f)' = ManifestEvidence(f)
    BY <1>1 DEF MarkersRead, ManifestsRead, MarkerEvidence, ManifestEvidence, Marker, Manifest
  <1>3. ASSUME NEW f PROVE WinningGeneration(f)' = WinningGeneration(f)
    BY <1>2 DEF WinningGeneration
  <1>4. ASSUME NEW f PROVE Winner(f)' = Winner(f)
    <2>1. Winner(f) = WinnerOf(f, WinningGeneration(f), MarkerEvidence(f), MarkersRead(f), ManifestEvidence(f),
                               rec.proj)
      BY DEF Winner, WinnerOf
    <2>2. Winner(f)' = WinnerOf(f, WinningGeneration(f)', MarkerEvidence(f)', MarkersRead(f)',
                                ManifestEvidence(f)', rec'.proj)
      BY DEF Winner, WinnerOf, Marker, Manifest, Least
    <2>3. QED
      BY <1>2, <1>3, <2>1, <2>2
  <1>5. ASSUME NEW f PROVE Required(f)' = Required(f)
    BY <1>3, <1>4 DEF Required, Chunk
  <1>6. QED
    BY <1>2, <1>3, <1>4, <1>5

\* The evidence for the file that is judged.
LEMMA AtCur ==
  ASSUME NEW f, rec'.cur = f
  PROVE  WinningGeneration(rec.cur)' = WinningGeneration(f)' /\ Required(rec.cur)' = Required(f)'
  <1>1. MarkersRead(rec.cur)' = MarkersRead(f)' /\ ManifestsRead(rec.cur)' = ManifestsRead(f)'
    BY DEF MarkersRead, ManifestsRead, Marker, Manifest
  <1>2. MarkerEvidence(rec.cur)' = MarkerEvidence(f)' /\ ManifestEvidence(rec.cur)' = ManifestEvidence(f)'
    BY <1>1 DEF MarkerEvidence, ManifestEvidence
  <1>3. WinningGeneration(rec.cur)' = WinningGeneration(f)'
    BY <1>2 DEF WinningGeneration
  <1>4. Winner(rec.cur)' = Winner(f)'
    BY <1>1, <1>2, <1>3 DEF Winner, Marker, Manifest
  <1>5. Required(rec.cur)' = Required(f)'
    BY <1>3, <1>4 DEF Required, Chunk
  <1>6. QED
    BY <1>3, <1>5

LEMMA RecRests ==
  ASSUME PassOK, UNCHANGED setting, UNCHANGED rec, Grows
  PROVE  PassOK' /\ \A f, o : Coming(f, o) => Coming(f, o)'
  <1>1. /\ Agents' = Agents /\ Firm' = Firm /\ Objects' = Objects
        /\ \A o : Held(o) => Held(o)'
    BY SameSetting, HeldStays
  <1>2. \A f : /\ MarkerEvidence(f)' = MarkerEvidence(f) /\ ManifestEvidence(f)' = ManifestEvidence(f)
               /\ WinningGeneration(f)' = WinningGeneration(f) /\ Required(f)' = Required(f)
    BY SameEvidence
  <1>3. Verdicts' = Verdicts /\ \A f : Open(f)' = Open(f)
    BY DEF Verdicts, Open
  <1>4. (Verdicts => \A o \in Objects : \A a \in rec.valid[o] \cap Firm : o \in good[a])'
    BY <1>1, <1>3 DEF PassOK, Grows
  <1>5. (Verdicts => \A f \in Files : Open(f) => MarkerEvidence(f) \cup ManifestEvidence(f) # {})'
    BY <1>2, <1>3 DEF PassOK
  <1>6. ((rec.pc = "apply" /\ ~rec.issues /\ WinningGeneration(rec.cur) = 1)
         => \A o \in Required(rec.cur) : Held(o))'
    <2>1. PICK f : f = rec.cur
      OBVIOUS
    <2>2. rec'.cur = f /\ WinningGeneration(f)' = WinningGeneration(f) /\ Required(f)' = Required(f)
      BY <1>2, <2>1
    <2>3. (rec.pc = "apply" /\ ~rec.issues /\ WinningGeneration(f) = 1) => \A o \in Required(f) : Held(o)
      BY <2>1 DEF PassOK
    <2>4. (rec.pc = "apply" /\ ~rec.issues /\ WinningGeneration(f)' = 1) => \A o \in Required(f)' : Held(o)'
      BY <1>1, <2>2, <2>3
    <2>5. WinningGeneration(rec.cur)' = WinningGeneration(f)' /\ Required(rec.cur)' = Required(f)'
      BY <2>2, AtCur
    <2>6. QED
      BY <2>4, <2>5
  <1>7. PassOK'
    BY <1>4, <1>5, <1>6 DEF PassOK
  <1>8. \A f, o : Coming(f, o) => Coming(f, o)'
    BY <1>1, <1>3 DEF Coming, Grows
  <1>9. QED
    BY <1>7, <1>8

\* A row that does not change stays right.
LEMMA RowStays ==
  ASSUME UNCHANGED setting, Grows, NEW f, NEW r, RowOK(f, r)
  PROVE  RowOK(f, r)'
  <1>1. \A o : Held(o) => Held(o)'
    BY HeldStays
  <1>2. Held(Chunk(f)) => Held(Chunk(f))'
    BY <1>1
  <1>3. Held(Manifest(f, r.man)) => Held(Manifest(f, r.man))'
    BY <1>1
  <1>4. QED
    BY <1>2, <1>3 DEF RowOK

LEMMA RowsFrom ==
  ASSUME RowsOK, UNCHANGED setting, Grows,
         \A f \in Files : RowOK(f, files[f])',
         \A f \in Files : snapshot'.db.files[f] \in {snapshot.db.files[f], files[f]},
         \A f \in Files : rec'.proj[f] \in {rec.proj[f], files[f]} \/ RowOK(f, rec.proj[f])'
  PROVE  RowsOK'
  <1>1. ASSUME NEW f \in Files, NEW r, r \in {files[f], snapshot.db.files[f], rec.proj[f]} PROVE RowOK(f, r)'
    <2>1. RowOK(f, r)
      BY <1>1 DEF RowsOK
    <2>2. QED
      BY <2>1, RowStays
  <1>2. ASSUME NEW f \in Files PROVE RowOK(f, snapshot.db.files[f])'
    <2>1. PICK r : r = snapshot'.db.files[f]
      OBVIOUS
    <2>2. RowOK(f, r)'
      BY <1>1, <2>1
    <2>3. QED
      BY <2>1, <2>2 DEF RowOK
  <1>3. ASSUME NEW f \in Files PROVE RowOK(f, rec.proj[f])'
    <2>1. CASE rec'.proj[f] \in {rec.proj[f], files[f]}
      <3>1. PICK r : r = rec'.proj[f]
        OBVIOUS
      <3>2. RowOK(f, r)'
        BY <1>1, <2>1, <3>1
      <3>3. QED
        BY <3>1, <3>2 DEF RowOK
    <2>2. QED
      BY <2>1
  <1>4. QED
    BY <1>2, <1>3 DEF RowsOK

\* All files keep their rows.
LEMMA FilesRest ==
  ASSUME RowsOK, UNCHANGED setting, Grows, files' = files
  PROVE  \A f \in Files : RowOK(f, files[f])'
  <1>1. SUFFICES ASSUME NEW f \in Files PROVE RowOK(f, files[f])'
    OBVIOUS
  <1>2. PICK r : r = files[f]
    OBVIOUS
  <1>3. RowOK(f, r)'
    BY <1>2, RowStays DEF RowsOK
  <1>4. QED
    BY <1>2, <1>3 DEF RowOK

\* One file gets a new row.
LEMMA OneRow ==
  ASSUME Shapes, RowsOK, UNCHANGED setting, Grows,
         NEW g \in Files, NEW r, files' = [files EXCEPT ![g] = r], RowOK(g, r)'
  PROVE  /\ \A f \in Files : RowOK(f, files[f])'
         /\ files'[g] = r /\ \A f \in Files : f # g => files'[f] = files[f]
  <1>1. files \in [Files -> FileRows]
    BY Parts DEF FileTypes
  <1>2. files'[g] = r /\ \A f \in Files : f # g => files'[f] = files[f]
    BY <1>1
  <1>3. ASSUME NEW f \in Files PROVE RowOK(f, files[f])'
    <2>1. CASE f = g
      BY <1>2, <2>1 DEF RowOK
    <2>2. CASE f # g
      <3>1. PICK q : q = files[f]
        OBVIOUS
      <3>2. RowOK(f, q)'
        BY <3>1, RowStays DEF RowsOK
      <3>3. files'[f] = q
        BY <1>2, <2>2, <3>1
      <3>4. QED
        BY <3>2, <3>3 DEF RowOK
    <2>3. QED
      BY <2>1, <2>2
  <1>4. QED
    BY <1>2, <1>3

LEMMA HeldRests ==
  ASSUME AckedHeld, UNCHANGED setting, Grows, acked' = acked, ackedDeletes' = ackedDeletes
  PROVE  AckedHeld'
  <1>1. Versions' = Versions /\ \A o : Held(o) => Held(o)'
    BY SameSetting, HeldStays
  <1>2. \A f \in acked : \E v \in Versions : Held(Manifest(f, v))'
    BY <1>1 DEF AckedHeld
  <1>3. \A f \in ackedDeletes : \E v \in Versions : Held(Marker(f, v))'
    BY <1>1 DEF AckedHeld
  <1>4. QED
    BY <1>1, <1>2, <1>3 DEF AckedHeld

\* A step that changes neither the rows nor the pass.
Quiet == UNCHANGED <<setting, rec, files, pending, acked, ackedDeletes>>

LEMMA QuietOK ==
  ASSUME RecInv, Grows, Quiet, \A f \in Files : snapshot'.db.files[f] \in {snapshot.db.files[f], files[f]}
  PROVE  RowsOK' /\ AckedHeld' /\ Known' /\ PassOK'
  <1>1. UNCHANGED setting /\ rec' = rec /\ RowsOK /\ AckedHeld /\ Known /\ PassOK
    BY DEF RecInv, Quiet
  <1>2. PassOK' /\ \A f, o : Coming(f, o) => Coming(f, o)'
    BY <1>1, RecRests
  <1>3. RowsOK'
    <2>1. \A f \in Files : RowOK(f, files[f])'
      BY <1>1, FilesRest DEF Quiet
    <2>2. \A f \in Files : rec'.proj[f] \in {rec.proj[f], files[f]}
      BY <1>1
    <2>3. QED
      BY <1>1, <2>1, <2>2, RowsFrom
  <1>4. AckedHeld'
    BY <1>1, HeldRests DEF Quiet
  <1>5. Versions' = Versions
    BY <1>1, SameSetting
  <1>6. Known'
    BY <1>1, <1>2, <1>5 DEF Known, Quiet
  <1>7. QED
    BY <1>2, <1>3, <1>4, <1>6

-----------------------------------------------------------------------------
(* Uploads and deletes.                                                    *)

LEMMA GrownAgents ==
  ASSUME setting \in Settings, \A a \in Agents : good[a] \subseteq good'[a]
  PROVE  Grows
  BY DEF Grows, Firm

\* Replication changes no row of a file.
LEMMA ReplicateOK ==
  ASSUME RecInv, UNCHANGED setting, NEW o \in Objects, Replicate(o),
         UNCHANGED <<files, manifestOf, markerOf, pending, vol, snapshot, losses, restores, acked, ackedDeletes, rec>>,
         uploads' \in [Files -> Uploads], deletes' \in [Files -> OptVersions], minted' \in [Files -> Mints]
  PROVE  RecInv'
  <1>1. Shapes /\ AgentTypes /\ FileTypes /\ AckTypes /\ setting \in Settings
    BY Parts DEF RecInv, EnvTypes
  <1>2. AgentTypes' /\ PlaceTypes' /\ EnvTypes' /\ \A a \in Agents : good[a] \subseteq good'[a]
    BY <1>1, ReplicateTypes
  <1>3. RecTypes' /\ Uploads' = Uploads /\ Mints' = Mints
    BY <1>1, Rests
  <1>4. FileTypes'
    BY <1>1, <1>3, SameSetting DEF FileTypes
  <1>5. AckTypes'
    BY <1>1, <1>3 DEF AckTypes
  <1>6. Shapes'
    BY <1>2, <1>3, <1>4, <1>5, PartsPrime
  <1>7. Grows
    BY <1>1, <1>2, GrownAgents
  <1>8. RowsOK' /\ AckedHeld' /\ Known' /\ PassOK'
    BY <1>7, QuietOK DEF Quiet
  <1>9. QED
    BY <1>6, <1>8 DEF RecInv

LEMMA UploadChunkOK ==
  ASSUME RecInv, UNCHANGED setting, NEW f \in Files, UploadChunk(f)
  PROVE  RecInv'
  <1>1. FileTypes /\ AckTypes /\ setting \in Settings
    BY Parts DEF RecInv, EnvTypes
  <1>2. Chunk(f) \in Objects
    BY <1>1, ObjectFacts
  <1>3. /\ uploads' = [uploads EXCEPT ![f].state = "open"] /\ minted' = [minted EXCEPT ![f].begun = TRUE]
        /\ deletes' = deletes
    BY DEF UploadChunk
  <1>4. uploads' \in [Files -> Uploads] /\ deletes' \in [Files -> OptVersions]
    BY <1>1, <1>3 DEF FileTypes, Uploads
  <1>5. minted' \in [Files -> Mints]
    BY <1>1, <1>3 DEF AckTypes, Mints
  <1>6. QED
    BY <1>2, <1>4, <1>5, ReplicateOK DEF UploadChunk

LEMMA UploadManifestOK ==
  ASSUME RecInv, UNCHANGED setting, NEW f \in Files, UploadManifest(f)
  PROVE  RecInv'
  <1>1. FileTypes /\ AckTypes /\ setting \in Settings
    BY Parts DEF RecInv, EnvTypes
  <1>2. PICK v \in Versions : /\ uploads' = [uploads EXCEPT ![f].man = v]
                              /\ minted' = [minted EXCEPT ![f].man = IF v > @ THEN v ELSE @]
                              /\ Replicate(Manifest(f, v))
    BY DEF UploadManifest
  <1>3. Manifest(f, v) \in Objects /\ v \in 0..MaxVersions
    BY <1>1, ObjectFacts, SettingFacts DEF Versions
  <1>4. uploads' \in [Files -> Uploads] /\ deletes' \in [Files -> OptVersions]
    BY <1>1, <1>2 DEF FileTypes, Uploads, OptVersions, UploadManifest
  <1>5. minted' \in [Files -> Mints]
    BY <1>1, <1>2, <1>3 DEF AckTypes, Mints
  <1>6. QED
    BY <1>2, <1>3, <1>4, <1>5, ReplicateOK DEF UploadManifest

LEMMA DeleteMarkOK ==
  ASSUME RecInv, UNCHANGED setting, NEW f \in Files, DeleteMark(f)
  PROVE  RecInv'
  <1>1. FileTypes /\ AckTypes /\ setting \in Settings
    BY Parts DEF RecInv, EnvTypes
  <1>2. PICK v \in Versions : /\ deletes' = [deletes EXCEPT ![f] = v]
                              /\ minted' = [minted EXCEPT ![f].del = IF v > @ THEN v ELSE @]
                              /\ Replicate(Marker(f, v))
    BY DEF DeleteMark
  <1>3. Marker(f, v) \in Objects /\ v \in 0..MaxVersions
    BY <1>1, ObjectFacts, SettingFacts DEF Versions
  <1>4. uploads' \in [Files -> Uploads] /\ deletes' \in [Files -> OptVersions]
    BY <1>1, <1>2 DEF FileTypes, OptVersions, DeleteMark
  <1>5. minted' \in [Files -> Mints]
    BY <1>1, <1>2, <1>3 DEF AckTypes, Mints
  <1>6. QED
    BY <1>2, <1>3, <1>4, <1>5, ReplicateOK DEF DeleteMark

\* What reads back in two domains is held.
LEMMA ReadBackHeld ==
  ASSUME setting \in Settings, NEW o, ReadBack(o)
  PROVE  Held(o)
  <1> DEFINE S == {a \in LiveOn(o) : o \in good[a]}
  <1>1. S \in SUBSET Agents /\ Cardinality(Domains(S)) >= 2
    BY DEF ReadBack, LiveOn
  <1>2. \A a \in S : o \in good[a]
    OBVIOUS
  <1> HIDE DEF S
  <1>3. QED
    BY <1>1, <1>2, TwoDomains DEF Held

LEMMA UploadCommitOK ==
  ASSUME RecInv, UNCHANGED setting, NEW f \in Files, UploadCommit(f)
  PROVE  RecInv'
  <1>1. /\ Shapes /\ RowsOK /\ AckedHeld /\ Known /\ PassOK /\ FileTypes /\ AckTypes /\ setting \in Settings
    BY Parts DEF RecInv, EnvTypes
  <1>2. PICK v : v = uploads[f].man
    OBVIOUS
  <1>3. PICK r : r = [state |-> "committed", gen |-> 1, man |-> v, del |-> 0]
    OBVIOUS
  <1>4. /\ files' = [files EXCEPT ![f] = r] /\ manifestOf' = [manifestOf EXCEPT ![f] = v]
        /\ uploads' = [uploads EXCEPT ![f].state = "committed"] /\ acked' = acked \cup {f}
        /\ v # 0 /\ files[f].state = "none" /\ ReadBack(Chunk(f)) /\ ReadBack(Manifest(f, v))
    BY <1>2, <1>3 DEF UploadCommit
  <1>5. UNCHANGED <<active, rows, deletes, markerOf, pending, agVars, snapshot, hiccups, losses, restores, minted,
                    ackedDeletes, rec>>
    BY DEF UploadCommit
  <1>6. v \in Versions
    BY <1>1, <1>2, <1>4 DEF FileTypes, Uploads, OptVersions
  <1>7. r \in FileRows
    BY <1>3, <1>6 DEF FileRows
  <1>8. Held(Chunk(f)) /\ Held(Manifest(f, v))
    BY <1>1, <1>4, ReadBackHeld
  <1>9. Grows
    BY <1>5 DEF Grows, agVars
  <1>10. RowOK(f, r)'
    <2>1. RowOK(f, r)
      BY <1>3, <1>4, <1>8 DEF RowOK
    <2>2. QED
      BY <1>9, <2>1, RowStays
  <1>11. Shapes'
    <2>1. /\ AgentTypes' /\ PlaceTypes' /\ EnvTypes' /\ RecTypes' /\ Uploads' = Uploads /\ Mints' = Mints
      BY <1>1, <1>5, Rests
    <2>2. uploads' \in [Files -> Uploads]
      BY <1>1, <1>4 DEF FileTypes, Uploads
    <2>3. files' \in [Files -> FileRows] /\ manifestOf' \in [Files -> OptVersions]
      BY <1>1, <1>4, <1>6, <1>7 DEF FileTypes, OptVersions
    <2>4. FileTypes'
      BY <1>1, <1>5, <2>1, <2>2, <2>3, SameSetting DEF FileTypes
    <2>5. AckTypes'
      BY <1>1, <1>4, <1>5, <2>1 DEF AckTypes
    <2>6. QED
      BY <2>1, <2>4, <2>5, PartsPrime
  <1>12. (\A g \in Files : RowOK(g, files[g])') /\ files'[f] = r /\ \A g \in Files : g # f => files'[g] = files[g]
    BY <1>1, <1>4, <1>9, <1>10, OneRow
  <1>13. RowsOK'
    BY <1>1, <1>5, <1>9, <1>12, RowsFrom
  <1>14. PassOK' /\ \A g, o : Coming(g, o) => Coming(g, o)'
    BY <1>1, <1>5, <1>9, RecRests
  <1>15. Versions' = Versions /\ \A o : Held(o) => Held(o)'
    BY <1>9, SameSetting, HeldStays
  <1>16. AckedHeld'
    <2>1. \A g \in acked' : \E w \in Versions : Held(Manifest(g, w))'
      BY <1>1, <1>4, <1>6, <1>8, <1>15 DEF AckedHeld
    <2>2. \A g \in ackedDeletes' : \E w \in Versions : Held(Marker(g, w))'
      BY <1>1, <1>5, <1>15 DEF AckedHeld
    <2>3. QED
      BY <1>15, <2>1, <2>2 DEF AckedHeld
  <1>17. Known'
    <2>1. \A g \in acked' : files'[g].state # "none" \/ (pending' /\ \E w \in Versions : Coming(g, Manifest(g, w))')
      BY <1>1, <1>3, <1>4, <1>5, <1>12, <1>14 DEF Known, AckTypes
    <2>2. \A g \in ackedDeletes' :
             files'[g].state = "deleted" \/ (pending' /\ \E w \in Versions : Coming(g, Marker(g, w))')
      BY <1>1, <1>4, <1>5, <1>12, <1>14 DEF Known, AckTypes
    <2>3. QED
      BY <1>15, <2>1, <2>2 DEF Known
  <1>18. QED
    BY <1>11, <1>13, <1>14, <1>16, <1>17 DEF RecInv

LEMMA OneChange ==
  ASSUME NEW S, NEW T, NEW F \in [S -> T], NEW g \in S, NEW r, NEW G, G = [h \in S |-> G[h]],
         G[g] = r, \A h \in S : h # g => G[h] = F[h]
  PROVE  G = [F EXCEPT ![g] = r]
  OBVIOUS

LEMMA ThreeFields ==
  ASSUME NEW S, NEW T, NEW F \in [S -> T], NEW g \in S, NEW s, NEW n, NEW d,
         NEW G, G = [F EXCEPT ![g].state = s, ![g].gen = n, ![g].del = d],
         NEW r, r = [F[g] EXCEPT !.state = s, !.gen = n, !.del = d]
  PROVE  G[g] = r /\ (\A h \in S : h # g => G[h] = F[h]) /\ G = [h \in S |-> G[h]]
  <1>1. G[g] = r
    OBVIOUS
  <1>2. \A h \in S : h # g => G[h] = F[h]
    OBVIOUS
  <1>3. G = [h \in S |-> G[h]]
    OBVIOUS
  <1>4. QED
    BY <1>1, <1>2, <1>3, Zenon

Gone(q, v) == [q EXCEPT !.state = "deleted", !.gen = 2, !.del = v]

LEMMA DeletedRow ==
  ASSUME NEW q \in FileRows, NEW v \in Versions, NEW r, r = Gone(q, v)
  PROVE  r \in FileRows /\ r.state = "deleted" /\ r.gen = 2 /\ r.del = v
  <1>1. q = [state |-> q.state, gen |-> q.gen, man |-> q.man, del |-> q.del] /\ q.man \in Versions \cup {0}
    BY DEF FileRows
  <1>2. PICK m : m = q.man
    OBVIOUS
  <1>3. r = [state |-> "deleted", gen |-> 2, man |-> m, del |-> v]
    BY <1>1, <1>2 DEF Gone
  <1>4. QED
    BY <1>1, <1>2, <1>3 DEF FileRows

LEMMA DeleteCommitOK ==
  ASSUME RecInv, UNCHANGED setting, NEW f \in Files, DeleteCommit(f)
  PROVE  RecInv'
  <1>1. /\ Shapes /\ RowsOK /\ AckedHeld /\ Known /\ PassOK /\ FileTypes /\ AckTypes /\ setting \in Settings
    BY Parts DEF RecInv, EnvTypes
  <1>2. PICK v : v = deletes[f]
    OBVIOUS
  <1>3. PICK r : r = [files[f] EXCEPT !.state = "deleted", !.gen = 2, !.del = v]
    OBVIOUS
  <1>4. /\ files' = [files EXCEPT ![f] = r] /\ markerOf' = [markerOf EXCEPT ![f] = v]
        /\ ackedDeletes' = ackedDeletes \cup {f}
        /\ v # 0 /\ ReadBack(Marker(f, v))
    <2>1. /\ files' = [files EXCEPT ![f].state = "deleted", ![f].gen = 2, ![f].del = v]
          /\ markerOf' = [markerOf EXCEPT ![f] = v] /\ ackedDeletes' = ackedDeletes \cup {f}
          /\ v # 0 /\ ReadBack(Marker(f, v))
      BY <1>2 DEF DeleteCommit
    <2>2. files \in [Files -> FileRows]
      BY <1>1 DEF FileTypes
    <2>3. PICK G : G = files'
      OBVIOUS
    <2>4. G = [files EXCEPT ![f].state = "deleted", ![f].gen = 2, ![f].del = v]
      BY <2>1, <2>3
    <2>5. G[f] = r /\ (\A h \in Files : h # f => G[h] = files[h]) /\ G = [h \in Files |-> G[h]]
      BY <1>3, <2>2, <2>4, ThreeFields
    <2>6. G = [files EXCEPT ![f] = r]
      BY <2>2, <2>5, OneChange
    <2>7. QED
      BY <2>1, <2>3, <2>6
  <1>5. UNCHANGED <<active, rows, uploads, deletes, manifestOf, pending, agVars, snapshot, hiccups, losses, restores,
                    minted, acked, rec>>
    BY DEF DeleteCommit
  <1>6. v \in Versions
    BY <1>1, <1>2, <1>4 DEF FileTypes, OptVersions
  <1>7. r \in FileRows /\ r.state = "deleted" /\ r.gen = 2 /\ r.del = v
    <2>1. files[f] \in FileRows
      BY <1>1 DEF FileTypes
    <2>2. PICK q : q = files[f]
      OBVIOUS
    <2>3. q \in FileRows /\ r = Gone(q, v)
      BY <1>3, <2>1, <2>2 DEF Gone
    <2>4. QED
      BY <1>6, <2>3, DeletedRow
  <1>8. Held(Marker(f, v))
    BY <1>1, <1>4, ReadBackHeld
  <1>9. Grows
    BY <1>5 DEF Grows, agVars
  <1>10. RowOK(f, r)'
    BY <1>4, <1>7 DEF RowOK
  <1>11. Shapes'
    <2>1. AgentTypes' /\ PlaceTypes' /\ EnvTypes' /\ RecTypes' /\ Uploads' = Uploads /\ Mints' = Mints
      BY <1>1, <1>5, Rests
    <2>2. files' \in [Files -> FileRows] /\ markerOf' \in [Files -> OptVersions]
      BY <1>1, <1>4, <1>6, <1>7 DEF FileTypes, OptVersions
    <2>3. FileTypes'
      BY <1>1, <1>5, <2>1, <2>2, SameSetting DEF FileTypes
    <2>4. AckTypes'
      BY <1>1, <1>4, <1>5, <2>1 DEF AckTypes
    <2>5. QED
      BY <2>1, <2>3, <2>4, PartsPrime
  <1>12. (\A g \in Files : RowOK(g, files[g])') /\ files'[f] = r /\ \A g \in Files : g # f => files'[g] = files[g]
    BY <1>1, <1>4, <1>9, <1>10, OneRow
  <1>13. RowsOK'
    BY <1>1, <1>5, <1>9, <1>12, RowsFrom
  <1>14. PassOK' /\ \A g, o : Coming(g, o) => Coming(g, o)'
    BY <1>1, <1>5, <1>9, RecRests
  <1>15. Versions' = Versions /\ \A o : Held(o) => Held(o)'
    BY <1>9, SameSetting, HeldStays
  <1>16. AckedHeld'
    <2>1. \A g \in acked' : \E w \in Versions : Held(Manifest(g, w))'
      BY <1>1, <1>5, <1>15 DEF AckedHeld
    <2>2. \A g \in ackedDeletes' : \E w \in Versions : Held(Marker(g, w))'
      BY <1>1, <1>4, <1>6, <1>8, <1>15 DEF AckedHeld
    <2>3. QED
      BY <1>15, <2>1, <2>2 DEF AckedHeld
  <1>17. Known'
    <2>1. \A g \in acked' : files'[g].state # "none" \/ (pending' /\ \E w \in Versions : Coming(g, Manifest(g, w))')
      BY <1>1, <1>5, <1>7, <1>12, <1>14 DEF Known, AckTypes
    <2>2. \A g \in ackedDeletes' :
             files'[g].state = "deleted" \/ (pending' /\ \E w \in Versions : Coming(g, Marker(g, w))')
      BY <1>1, <1>4, <1>5, <1>7, <1>12, <1>14 DEF Known, AckTypes
    <2>3. QED
      BY <1>15, <2>1, <2>2 DEF Known
  <1>18. QED
    BY <1>11, <1>13, <1>14, <1>16, <1>17 DEF RecInv

-----------------------------------------------------------------------------
(* A pass begins or ends.                                                  *)

LEMMA IdleFacts ==
  ASSUME setting \in Settings
  PROVE  /\ IdlePass \in Passes /\ IdlePass.pc = "idle" /\ IdlePass.at = 1
         /\ IdlePass.proj = [f \in Files |-> NoFile] /\ NoFile \in FileRows
         /\ [IdlePass EXCEPT !.pc = "list"] \in Passes /\ [IdlePass EXCEPT !.pc = "list"].pc = "list"
         /\ [IdlePass EXCEPT !.pc = "list"].at = 1 /\ [IdlePass EXCEPT !.pc = "list"].proj = IdlePass.proj
  <1>1. 1 \in 1..(NumAgents + 1)
    BY SettingFacts
  <1>2. [a \in Agents |-> 0] \in [Agents -> Incs] /\ [a \in Agents |-> {}] \in [Agents -> SUBSET Objects]
    BY DEF Incs
  <1>3. NoFile \in FileRows
    BY DEF NoFile, FileRows
  <1>4. (CHOOSE f \in Files : TRUE) \in Files
    BY RecoveryAssumption
  <1>5. [o \in Objects |-> {}] \in [Objects -> SUBSET Agents] /\ [f \in Files |-> NoFile] \in [Files -> FileRows]
    BY <1>3
  <1>6. IdlePass \in Passes /\ IdlePass.pc = "idle" /\ IdlePass.at = 1 /\ IdlePass.proj = [f \in Files |-> NoFile]
    BY <1>1, <1>2, <1>4, <1>5 DEF IdlePass, Passes
  <1>7. QED
    BY <1>3, <1>6 DEF Passes

\* A pass that has not listed anything yet sees all that is held.
LEMMA FreshPass ==
  ASSUME Shapes, UNCHANGED setting, rec' \in {IdlePass, [IdlePass EXCEPT !.pc = "list"]}
  PROVE  /\ RecTypes' /\ PassOK'
         /\ \A f \in Files : RowOK(f, rec.proj[f])'
         /\ \A f, o : Held(o)' => Coming(f, o)'
  <1>1. setting \in Settings /\ Passes' = Passes /\ Firm' = Firm
    BY Parts, Rests, SameSetting DEF EnvTypes
  <1>2. rec' \in Passes /\ rec'.pc \in {"idle", "list"} /\ rec'.at = 1 /\ rec'.proj = [f \in Files |-> NoFile]
    BY <1>1, IdleFacts
  <1>3. RecTypes'
    BY <1>1, <1>2 DEF RecTypes
  <1>4. PassOK'
    BY <1>2 DEF PassOK, Verdicts
  <1>5. \A f \in Files : RowOK(f, rec.proj[f])'
    <2>1. \A f \in Files : rec'.proj[f] = NoFile
      BY <1>2
    <2>2. QED
      BY <2>1 DEF RowOK, NoFile
  <1>6. \A a \in Firm : ~(a < 1)
    BY <1>1, SettingFacts DEF Firm
  <1>7. \A f, o : Held(o)' => Coming(f, o)'
    BY <1>1, <1>2, <1>6 DEF Held, Coming, Verdicts
  <1>8. QED
    BY <1>3, <1>4, <1>5, <1>7

\* All that was acknowledged is coming when a pass is fresh.
LEMMA FreshKnown ==
  ASSUME RecInv, UNCHANGED setting, Grows, rec' \in {IdlePass, [IdlePass EXCEPT !.pc = "list"]},
         UNCHANGED <<acked, ackedDeletes>>,
         pending' \/ \A f \in Files : files'[f] = files[f] /\ pending' = pending
  PROVE  AckedHeld' /\ Known'
  <1>1. Shapes /\ AckedHeld /\ Known /\ AckTypes
    BY Parts DEF RecInv
  <1>2. AckedHeld'
    BY <1>1, HeldRests
  <1>3. \A f, o : Held(o)' => Coming(f, o)'
    BY <1>1, FreshPass
  <1>4. Versions' = Versions
    BY SameSetting
  <1>5. ASSUME pending' PROVE Known'
    <2>1. \A f \in acked' : \E v \in Versions' : Held(Manifest(f, v))'
      BY <1>2 DEF AckedHeld
    <2>2. \A f \in ackedDeletes' : \E v \in Versions' : Held(Marker(f, v))'
      BY <1>2 DEF AckedHeld
    <2>3. QED
      BY <1>3, <1>5, <2>1, <2>2 DEF Known
  <1>6. ASSUME ~pending' PROVE Known'
    BY <1>1, <1>6 DEF Known, AckTypes
  <1>7. QED
    BY <1>2, <1>5, <1>6

LEMMA FreshOK ==
  ASSUME RecInv, UNCHANGED setting, rec' \in {IdlePass, [IdlePass EXCEPT !.pc = "list"]},
         UNCHANGED <<agVars, losses, active, rows, uploads, deletes, files, manifestOf, markerOf, snapshot, minted,
                     restores, acked, ackedDeletes>>,
         pending' \in BOOLEAN, Hiccup \/ UNCHANGED hiccups
  PROVE  /\ Shapes' /\ RowsOK' /\ PassOK' /\ AckedHeld'
         /\ pending' = pending => RecInv'
  <1>1. Shapes /\ RowsOK /\ AckedHeld /\ FileTypes /\ setting \in Settings
    BY Parts DEF RecInv, EnvTypes
  <1>2. Grows
    BY DEF Grows, agVars
  <1>3. RecTypes' /\ PassOK' /\ \A f \in Files : RowOK(f, rec.proj[f])'
    BY <1>1, FreshPass
  <1>4. EnvTypes'
    BY <1>1, HiccupTypes
  <1>5. AgentTypes' /\ PlaceTypes' /\ AckTypes' /\ Uploads' = Uploads
    BY <1>1, Rests
  <1>6. FileTypes'
    BY <1>1, <1>5, SameSetting DEF FileTypes
  <1>7. Shapes'
    BY <1>3, <1>4, <1>5, <1>6, PartsPrime
  <1>8. \A f \in Files : RowOK(f, files[f])'
    BY <1>1, <1>2, FilesRest
  <1>9. RowsOK'
    BY <1>1, <1>2, <1>3, <1>8, RowsFrom
  <1>10. AckedHeld'
    BY <1>1, <1>2, HeldRests
  <1>11. ASSUME pending' = pending PROVE Known'
    BY <1>2, <1>11, FreshKnown
  <1>12. QED
    BY <1>3, <1>7, <1>9, <1>10, <1>11 DEF RecInv

LEMMA RecStartOK ==
  ASSUME RecInv, UNCHANGED setting, RecStart
  PROVE  RecInv'
  <1>1. pending \in BOOLEAN
    BY Parts DEF RecInv, FileTypes
  <1>2. QED
    BY <1>1, FreshOK DEF RecStart, SetRec, dbVars, envVars

LEMMA RecConflictOK ==
  ASSUME RecInv, UNCHANGED setting, RecConflict
  PROVE  RecInv'
  <1>1. pending \in BOOLEAN
    BY Parts DEF RecInv, FileTypes
  <1>2. /\ rec' = IdlePass /\ pending' = pending
        /\ UNCHANGED <<active, rows, uploads, deletes, files, manifestOf, markerOf, agVars, envVars>>
    BY DEF RecConflict, SetRec, PendingAfterAbort
  <1>3. QED
    BY <1>1, <1>2, FreshOK DEF envVars

LEMMA RecAbortOK ==
  ASSUME RecInv, UNCHANGED setting, RecAbort
  PROVE  RecInv'
  <1>1. pending \in BOOLEAN
    BY Parts DEF RecInv, FileTypes
  <1>2. QED
    BY <1>1, FreshOK DEF RecAbort, SetRec, PendingAfterAbort

\* A pass without a file left to judge has written its verdict on whatever was
\* acknowledged.
LEMMA RecFinishOK ==
  ASSUME RecInv, UNCHANGED setting, RecFinish
  PROVE  RecInv'
  <1>1. Shapes' /\ RowsOK' /\ PassOK' /\ AckedHeld'
    BY FreshOK DEF RecFinish, SetRec, envVars
  <1>2. \A f, o : ~Coming(f, o)
    BY DEF RecFinish, Coming, Verdicts, Open
  <1>3. (\A f \in acked : files[f].state # "none") /\ \A f \in ackedDeletes : files[f].state = "deleted"
    BY <1>2 DEF RecInv, Known
  <1>4. Known'
    BY <1>3 DEF Known, RecFinish, envVars
  <1>5. QED
    BY <1>1, <1>4 DEF RecInv

-----------------------------------------------------------------------------
(* The machines.                                                           *)

LEMMA RestoreOK ==
  ASSUME RecInv, UNCHANGED setting, Restore
  PROVE  RecInv'
  <1>1. /\ Shapes /\ RowsOK /\ EnvTypes /\ setting \in Settings /\ MaxRestores \in Nat /\ MaxRestores' = MaxRestores
    BY Parts, SettingFacts, SameSetting DEF RecInv, EnvTypes
  <1>2. /\ rec' = IdlePass /\ pending' = TRUE /\ files' = snapshot.db.files
        /\ UNCHANGED <<agVars, snapshot, minted, hiccups, losses, acked, ackedDeletes>>
        /\ restores < MaxRestores /\ restores' = restores + 1
    BY DEF Restore
  <1>3. Grows
    BY <1>2 DEF Grows, agVars
  <1>4. snapshot.db \in Tables
    BY <1>1 DEF EnvTypes
  <1>5. RecTypes' /\ PassOK' /\ \A f \in Files : RowOK(f, rec.proj[f])'
    BY <1>1, <1>2, FreshPass
  <1>6. AgentTypes' /\ AckTypes' /\ Uploads' = Uploads
    BY <1>1, <1>2, Rests
  <1>7. PlaceTypes'
    BY <1>4, SameSetting DEF PlaceTypes, Restore, Tables
  <1>8. FileTypes'
    BY <1>4, <1>6, SameSetting DEF FileTypes, Restore, Tables, Uploads
  <1>9. EnvTypes'
    <2>1. restores' \in 0..MaxRestores
      BY <1>1, <1>2 DEF EnvTypes
    <2>2. QED
      BY <1>1, <1>2, <2>1, SameSetting DEF EnvTypes
  <1>10. Shapes'
    BY <1>5, <1>6, <1>7, <1>8, <1>9, PartsPrime
  <1>11. ASSUME NEW f \in Files PROVE RowOK(f, files[f])'
    <2>1. PICK r : r = snapshot.db.files[f]
      OBVIOUS
    <2>2. RowOK(f, r)
      BY <1>1, <2>1 DEF RowsOK
    <2>3. RowOK(f, r)'
      BY <1>3, <2>2, RowStays
    <2>4. files'[f] = r
      BY <1>2, <2>1
    <2>5. QED
      BY <2>3, <2>4 DEF RowOK
  <1>12. RowsOK'
    BY <1>1, <1>2, <1>3, <1>5, <1>11, RowsFrom
  <1>13. AckedHeld' /\ Known'
    BY <1>2, <1>3, FreshKnown
  <1>14. QED
    BY <1>5, <1>10, <1>12, <1>13 DEF RecInv

LEMMA TakeSnapshotOK ==
  ASSUME RecInv, UNCHANGED setting, TakeSnapshot
  PROVE  RecInv'
  <1>1. Shapes /\ PlaceTypes /\ FileTypes /\ EnvTypes /\ setting \in Settings
    BY Parts DEF RecInv, EnvTypes
  <1>2. /\ snapshot' = [taken |-> TRUE, db |-> Database]
        /\ UNCHANGED <<dbVars, agVars, minted, hiccups, losses, restores, acked, ackedDeletes, rec>>
    BY DEF TakeSnapshot
  <1>3. Database \in Tables
    BY <1>1 DEF Database, Tables, PlaceTypes, FileTypes, Uploads
  <1>4. snapshot' \in [taken : BOOLEAN, db : Tables] /\ snapshot'.db.files = files
    BY <1>2, <1>3 DEF Database
  <1>5. EnvTypes'
    BY <1>1, <1>2, <1>4, SameSetting DEF EnvTypes
  <1>6. AgentTypes' /\ PlaceTypes' /\ FileTypes' /\ AckTypes' /\ RecTypes'
    BY <1>1, <1>2, Rests DEF dbVars
  <1>7. Shapes'
    BY <1>5, <1>6, PartsPrime
  <1>8. Grows
    BY <1>2 DEF Grows, agVars
  <1>9. RowsOK' /\ AckedHeld' /\ Known' /\ PassOK'
    BY <1>2, <1>4, <1>8, QuietOK DEF Quiet, dbVars
  <1>10. QED
    BY <1>7, <1>9 DEF RecInv

\* A fragile agent loses something; the others do not.
LEMMA LossOK ==
  ASSUME RecInv, UNCHANGED setting, NEW a \in Agents, a \in Fragile, losses < MaxLosses, losses' = losses + 1,
         vol' \in [Agents -> Volumes], \A b \in Agents : vol'[b] <= losses + 2,
         good' \in [Agents -> SUBSET Objects], bad' \in [Agents -> SUBSET Objects],
         \A b \in Agents : b # a => good'[b] = good[b],
         UNCHANGED <<dbVars, snapshot, minted, hiccups, restores, acked, ackedDeletes, rec>>
  PROVE  RecInv'
  <1>1. Shapes /\ AgentTypes /\ setting \in Settings /\ MaxLosses \in Nat /\ MaxLosses' = MaxLosses
    BY Parts, SettingFacts, SameSetting DEF RecInv, EnvTypes
  <1>2. losses' \in 0..MaxLosses /\ losses \in Nat
    BY <1>1 DEF AgentTypes
  <1>3. \A b \in Agents : vol'[b] <= losses' + 1
    <2>1. losses' + 1 = losses + 2
      BY <1>2
    <2>2. QED
      BY <2>1
  <1>4. AgentTypes'
    BY <1>1, <1>2, <1>3, SameSetting DEF AgentTypes
  <1>5. PlaceTypes' /\ FileTypes' /\ EnvTypes' /\ AckTypes' /\ RecTypes'
    BY <1>1, Rests DEF dbVars
  <1>6. Shapes'
    BY <1>4, <1>5, PartsPrime
  <1>7. Grows
    BY DEF Grows, Firm
  <1>8. RowsOK' /\ AckedHeld' /\ Known' /\ PassOK'
    BY <1>7, QuietOK DEF Quiet, dbVars
  <1>9. QED
    BY <1>6, <1>8 DEF RecInv

LEMMA LoseVolumeOK ==
  ASSUME RecInv, UNCHANGED setting, NEW a \in Agents, LoseVolume(a)
  PROVE  RecInv'
  <1>1. AgentTypes /\ MaxLosses \in Nat
    BY Parts, SettingFacts DEF RecInv, EnvTypes
  <1>2. /\ a \in Fragile /\ losses < MaxLosses /\ losses' = losses + 1
        /\ vol' = [vol EXCEPT ![a] = vol[a] + 1]
        /\ good' = [good EXCEPT ![a] = {}] /\ bad' = [bad EXCEPT ![a] = {}]
    BY DEF LoseVolume
  <1>3. losses \in Nat /\ \A b \in Agents : vol[b] \in Nat \ {0} /\ vol[b] <= losses + 1
    BY <1>1 DEF AgentTypes, Volumes
  <1>4. vol[a] + 1 \in Volumes
    <2>1. vol[a] + 1 >= 1 /\ vol[a] + 1 <= MaxLosses + 1 /\ vol[a] + 1 \in Int
      BY <1>1, <1>2, <1>3
    <2>2. QED
      BY <1>1, <2>1 DEF Volumes
  <1>5. vol' \in [Agents -> Volumes] /\ \A b \in Agents : vol'[b] <= losses + 2
    <2>1. vol' \in [Agents -> Volumes] /\ vol'[a] = vol[a] + 1 /\ \A b \in Agents : b # a => vol'[b] = vol[b]
      BY <1>1, <1>2, <1>4 DEF AgentTypes
    <2>2. QED
      BY <1>3, <2>1
  <1>6. /\ good' \in [Agents -> SUBSET Objects] /\ bad' \in [Agents -> SUBSET Objects]
        /\ \A b \in Agents : b # a => good'[b] = good[b]
    BY <1>1, <1>2 DEF AgentTypes
  <1>7. QED
    BY <1>2, <1>5, <1>6, LossOK DEF LoseVolume

LEMMA RotObjectOK ==
  ASSUME RecInv, UNCHANGED setting, NEW a \in Agents, RotObject(a)
  PROVE  RecInv'
  <1>1. AgentTypes /\ MaxLosses \in Nat
    BY Parts, SettingFacts DEF RecInv, EnvTypes
  <1>2. PICK o \in good[a] : good' = [good EXCEPT ![a] = @ \ {o}] /\ bad' = [bad EXCEPT ![a] = @ \cup {o}]
    BY DEF RotObject
  <1>3. o \in Objects
    BY <1>1 DEF AgentTypes
  <1>4. /\ good' \in [Agents -> SUBSET Objects] /\ bad' \in [Agents -> SUBSET Objects]
        /\ \A b \in Agents : b # a => good'[b] = good[b]
    BY <1>1, <1>2, <1>3 DEF AgentTypes
  <1>5. vol' = vol
    BY DEF RotObject
  <1>6. losses \in Nat /\ \A b \in Agents : vol[b] \in Nat \ {0} /\ vol[b] <= losses + 1
    BY <1>1 DEF AgentTypes, Volumes
  <1>7. vol' \in [Agents -> Volumes] /\ \A b \in Agents : vol'[b] <= losses + 2
    BY <1>1, <1>5, <1>6 DEF AgentTypes
  <1>8. QED
    BY <1>4, <1>7, LossOK DEF RotObject

-----------------------------------------------------------------------------
(* The steps of a pass.                                                    *)

\* The memory of a pass after one more agent.
Listing(p, a, i, L, pc) == [p EXCEPT !.at = @ + 1, !.inc[a] = i, !.listed[a] = L, !.pc = pc]

ListedTo(p, a, L, pc, q) ==
    /\ q \in Passes /\ q.pc = pc /\ q.at = a + 1 /\ q.proj = p.proj
    /\ q.listed[a] = L /\ \A b \in Agents : b # a => q.listed[b] = p.listed[b]

LEMMA ListingFacts ==
  ASSUME setting \in Settings, NEW p \in Passes, p.at \in Agents, NEW i \in Incs, NEW L \in SUBSET Objects,
         NEW pc \in {"read", "list"}, NEW a, a = p.at, NEW q, q = Listing(p, a, i, L, pc)
  PROVE  ListedTo(p, a, L, pc, q)
  <1>1. a = p.at
    OBVIOUS
  <1>2. PICK inc, listed : inc = [p.inc EXCEPT ![a] = i] /\ listed = [p.listed EXCEPT ![a] = L]
    OBVIOUS
  <1>3. p.inc \in [Agents -> Incs] /\ p.listed \in [Agents -> SUBSET Objects]
    BY DEF Passes
  <1>4. /\ inc \in [Agents -> Incs] /\ listed \in [Agents -> SUBSET Objects]
        /\ listed[a] = L /\ \A b \in Agents : b # a => listed[b] = p.listed[b]
    BY <1>1, <1>2, <1>3
  <1>5. a + 1 \in 1..(NumAgents + 1)
    BY <1>1, SettingFacts
  <1>6. q = [p EXCEPT !.at = a + 1, !.inc = inc, !.listed = listed, !.pc = pc]
    BY <1>1, <1>2 DEF Passes, Listing
  <1>7. q = [pc |-> pc, at |-> a + 1, inc |-> inc, listed |-> listed, valid |-> p.valid, proj |-> p.proj,
             todo |-> p.todo, cur |-> p.cur, issues |-> p.issues]
    BY <1>6 DEF Passes
  <1>8. q \in Passes
    BY <1>4, <1>5, <1>7 DEF Passes
  <1>9. QED
    BY <1>1, <1>4, <1>7, <1>8 DEF ListedTo

LEMMA RecListOK ==
  ASSUME RecInv, UNCHANGED setting, RecList
  PROVE  RecInv'
  <1>1. /\ Shapes /\ RowsOK /\ AckedHeld /\ Known /\ AgentTypes /\ PlaceTypes /\ RecTypes /\ setting \in Settings
    BY Parts DEF RecInv, EnvTypes
  <1>2. PICK a : a = rec.at
    OBVIOUS
  <1>3. PICK pc : pc = IF a = NumAgents THEN "read" ELSE "list"
    OBVIOUS
  <1>4. /\ active' = [active EXCEPT ![a] = vol[a]]
        /\ rec' = Listing(rec, a, vol[a], good[a] \cup bad[a], pc)
        /\ rec.pc = "list" /\ a <= NumAgents
        /\ UNCHANGED <<rows, uploads, deletes, files, manifestOf, markerOf, pending, agVars, envVars>>
    BY <1>2, <1>3 DEF RecList, SetRec, Listing
  <1>5. a \in Agents /\ NumAgents \in Nat /\ \A b \in Agents : b \in Nat /\ b <= NumAgents
    <2>1. PICK n \in Nat \ {0} : Agents = 1..n /\ NumAgents = n
      BY <1>1, SettingFacts
    <2>2. a \in 1..(n + 1) /\ a <= n
      BY <1>1, <1>2, <1>4, <2>1 DEF RecTypes, Passes
    <2>3. QED
      BY <2>1, <2>2
  <1>6. /\ rec' \in Passes /\ rec'.pc = pc /\ rec'.at = a + 1 /\ rec'.proj = rec.proj
        /\ rec'.listed[a] = good[a] \cup bad[a] /\ \A b \in Agents : b # a => rec'.listed[b] = rec.listed[b]
    <2>1. vol[a] \in Incs /\ good[a] \cup bad[a] \in SUBSET Objects /\ pc \in {"read", "list"} /\ rec \in Passes
      BY <1>1, <1>3, <1>5 DEF AgentTypes, Incs, RecTypes
    <2>2. PICK i, L : i = vol[a] /\ L = good[a] \cup bad[a]
      OBVIOUS
    <2>3. rec' = Listing(rec, a, i, L, pc) /\ a = rec.at /\ rec.at \in Agents /\ i \in Incs /\ L \in SUBSET Objects
      BY <1>2, <1>4, <1>5, <2>1, <2>2
    <2>4. PICK q : q = rec'
      OBVIOUS
    <2>5. q = Listing(rec, a, i, L, pc)
      BY <2>3, <2>4
    <2>6. ListedTo(rec, a, L, pc, q)
      BY <1>1, <2>1, <2>3, <2>5, ListingFacts
    <2>7. QED
      BY <2>2, <2>4, <2>6 DEF ListedTo
  <1>7. Grows
    BY <1>4 DEF Grows, agVars
  <1>8. Shapes'
    <2>1. /\ AgentTypes' /\ FileTypes' /\ EnvTypes' /\ AckTypes' /\ Passes' = Passes
      BY <1>1, <1>4, Rests DEF envVars
    <2>2. RecTypes'
      BY <1>6, <2>1 DEF RecTypes
    <2>3. active' \in [Agents -> Incs]
      BY <1>1, <1>4, <1>5 DEF AgentTypes, PlaceTypes, Incs
    <2>4. PlaceTypes'
      BY <1>1, <1>4, <2>3, SameSetting DEF PlaceTypes
    <2>5. QED
      BY <2>1, <2>2, <2>4, PartsPrime
  <1>9. RowsOK'
    <2>1. \A f \in Files : RowOK(f, files[f])'
      BY <1>1, <1>4, <1>7, FilesRest
    <2>2. QED
      BY <1>1, <1>4, <1>6, <1>7, <2>1, RowsFrom DEF envVars
  <1>10. AckedHeld'
    BY <1>1, <1>4, <1>7, HeldRests DEF envVars
  <1>11. ~Verdicts' /\ PassOK'
    BY <1>3, <1>6 DEF PassOK, Verdicts
  <1>12. ASSUME NEW f, NEW o, Coming(f, o) PROVE Coming(f, o)'
    <2>1. PICK b \in Firm : o \in good[b] /\ (b < a => o \in rec.listed[b])
      BY <1>2, <1>4, <1>12 DEF Coming
    <2>2. b \in Agents /\ b \in Nat /\ b <= NumAgents
      BY <1>5, <2>1 DEF Firm
    <2>3. b \in Firm' /\ o \in good'[b]
      BY <1>4, <2>1, SameSetting DEF agVars
    <2>4. b < a + 1 => o \in rec'.listed[b]
      <3>1. b < a + 1 => b < a \/ b = a
        BY <1>5, <2>2
      <3>2. QED
        BY <1>5, <1>6, <2>1, <2>2, <3>1
    <2>5. rec'.pc = "read" => b < a + 1
      BY <1>3, <1>5, <1>6, <2>2
    <2>6. QED
      BY <1>6, <1>11, <2>3, <2>4, <2>5 DEF Coming
  <1>13. Known'
    BY <1>1, <1>4, <1>12, SameSetting DEF Known, envVars
  <1>14. QED
    BY <1>8, <1>9, <1>10, <1>11, <1>13 DEF RecInv

-----------------------------------------------------------------------------
(* What a pass has read.                                                   *)

LEMMA EvidenceFacts ==
  ASSUME Shapes, RowsOK, NEW f \in Files
  PROVE  /\ MarkersRead(f) \subseteq MarkerEvidence(f) /\ MarkerEvidence(f) \subseteq Versions
         /\ ManifestEvidence(f) \subseteq Versions
         /\ MarkersRead(f) = {} => MarkerEvidence(f) \subseteq {rec.proj[f].del}
  <1>1. RowOK(f, rec.proj[f]) /\ rec.proj[f] \in FileRows
    BY Parts DEF RowsOK, RecTypes, Passes
  <1>2. rec.proj[f].man \in Versions \cup {0} /\ rec.proj[f].del \in Versions \cup {0}
    BY <1>1 DEF FileRows
  <1>3. rec.proj[f].state = "deleted" => rec.proj[f].del # 0
    BY <1>1 DEF RowOK
  <1>4. QED
    BY <1>2, <1>3 DEF MarkersRead, ManifestsRead, MarkerEvidence, ManifestEvidence

\* The winner is a marker or a manifest that is evidence.
LEMMA WinnerFacts ==
  ASSUME Shapes, RowsOK, NEW f \in Files, MarkerEvidence(f) \cup ManifestEvidence(f) # {}
  PROVE  /\ Winner(f)[3] \in Versions /\ Required(f) \in SUBSET Objects /\ Winner(f) \in Objects
         /\ WinningGeneration(f) \in {1, 2}
         /\ WinningGeneration(f) = 1 => Required(f) = {Chunk(f), Manifest(f, Winner(f)[3])}
  <1>1. /\ MarkersRead(f) \subseteq MarkerEvidence(f) /\ MarkerEvidence(f) \subseteq Versions
        /\ ManifestEvidence(f) \subseteq Versions
        /\ MarkersRead(f) = {} => MarkerEvidence(f) \subseteq {rec.proj[f].del}
    BY EvidenceFacts
  <1>2. setting \in Settings
    BY Parts DEF EnvTypes
  <1>3. CASE MarkerEvidence(f) # {}
    <2>1. WinningGeneration(f) = 2
      BY <1>3 DEF WinningGeneration
    <2>2. PICK v : v = IF Cardinality(MarkerEvidence(f)) = 1 THEN CHOOSE w \in MarkerEvidence(f) : TRUE
                       ELSE IF rec.proj[f].state = "deleted" /\ rec.proj[f].del \in MarkersRead(f)
                            THEN rec.proj[f].del ELSE Least(MarkersRead(f))
      OBVIOUS
    <2>3. Winner(f) = Marker(f, v)
      BY <2>1, <2>2 DEF Winner
    <2>4. v \in Versions
      <3>1. CASE Cardinality(MarkerEvidence(f)) = 1
        BY <1>1, <1>3, <2>2, <3>1
      <3>2. CASE /\ Cardinality(MarkerEvidence(f)) # 1
                 /\ rec.proj[f].del \in MarkersRead(f) /\ rec.proj[f].state = "deleted"
        BY <1>1, <2>2, <3>2
      <3>3. CASE /\ Cardinality(MarkerEvidence(f)) # 1
                 /\ ~(rec.proj[f].state = "deleted" /\ rec.proj[f].del \in MarkersRead(f))
        <4>1. v = Least(MarkersRead(f))
          BY <2>2, <3>3
        <4>2. MarkersRead(f) # {}
          <5>1. SUFFICES ASSUME MarkersRead(f) = {} PROVE FALSE
            OBVIOUS
          <5>2. MarkerEvidence(f) = {rec.proj[f].del}
            BY <1>1, <1>3, <5>1
          <5>3. Cardinality(MarkerEvidence(f)) = 1
            BY <5>2, FS_Singleton
          <5>4. QED
            BY <3>3, <5>3
        <4>3. MarkersRead(f) \in SUBSET Nat
          BY <1>1, <1>2, ObjectFacts
        <4>4. QED
          BY <1>1, <4>1, <4>2, <4>3, HasLeast
      <3>4. QED
        BY <3>1, <3>2, <3>3
    <2>5. Winner(f)[3] = v /\ Winner(f) \in Objects
      BY <1>2, <2>3, <2>4, ObjectFacts
    <2>6. Required(f) = {Winner(f)}
      BY <2>1 DEF Required
    <2>7. QED
      BY <2>1, <2>4, <2>5, <2>6
  <1>4. CASE MarkerEvidence(f) = {}
    <2>1. WinningGeneration(f) = 1
      BY <1>4 DEF WinningGeneration
    <2>2. PICK v : v = CHOOSE w \in ManifestEvidence(f) : TRUE
      OBVIOUS
    <2>3. v \in Versions
      BY <1>1, <1>4, <2>2
    <2>4. Winner(f) = Manifest(f, v)
      BY <2>1, <2>2 DEF Winner
    <2>5. Winner(f)[3] = v /\ Winner(f) \in Objects /\ Chunk(f) \in Objects
      BY <1>2, <2>3, <2>4, ObjectFacts
    <2>6. Required(f) = {Winner(f), Chunk(f)}
      BY <2>1 DEF Required
    <2>7. Required(f) = {Chunk(f), Manifest(f, Winner(f)[3])} /\ Required(f) \in SUBSET Objects
      BY <2>4, <2>5, <2>6
    <2>8. QED
      BY <2>1, <2>3, <2>5, <2>7
  <1>5. QED
    BY <1>3, <1>4

\* The memory of a pass that has read everything.
Reading(p, valid, proj, todo) == [p EXCEPT !.pc = "repair", !.valid = valid, !.proj = proj, !.todo = todo]

ReadTo(valid, proj, todo, q) ==
    q \in Passes /\ q.pc = "repair" /\ q.valid = valid /\ q.proj = proj /\ q.todo = todo

LEMMA ReadingFacts ==
  ASSUME NEW p \in Passes, NEW valid \in [Objects -> SUBSET Agents], NEW proj \in [Files -> FileRows],
         NEW todo \in SUBSET Files, NEW q, q = Reading(p, valid, proj, todo)
  PROVE  ReadTo(valid, proj, todo, q)
  <1>1. q = [pc |-> "repair", at |-> p.at, inc |-> p.inc, listed |-> p.listed, valid |-> valid, proj |-> proj,
             todo |-> todo, cur |-> p.cur, issues |-> p.issues]
    BY DEF Reading, Passes
  <1>2. q \in Passes
    BY <1>1 DEF Passes
  <1>3. QED
    BY <1>1, <1>2 DEF ReadTo

LEMMA RecReadOK ==
  ASSUME RecInv, UNCHANGED setting, RecRead
  PROVE  RecInv'
  <1>1. /\ Shapes /\ RowsOK /\ AckedHeld /\ Known /\ FileTypes /\ RecTypes /\ AckTypes /\ setting \in Settings
    BY Parts DEF RecInv, EnvTypes
  <1>2. rec.pc = "read" /\ UNCHANGED <<dbVars, agVars, envVars>>
    BY DEF RecRead
  <1>3. CASE rec' = IdlePass
    BY <1>1, <1>2, <1>3, FreshOK DEF dbVars, envVars, FileTypes
  <1>4. CASE rec' # IdlePass
    <2>1. PICK valid, todo : /\ valid = Reads
                             /\ todo = {f \in Files : files[f].del # 0 \/ files[f].man # 0}
                                       \cup {f \in Files : \E v \in Versions :
                                                valid[Manifest(f, v)] # {} \/ valid[Marker(f, v)] # {}}
      OBVIOUS
    <2>2. rec' = Reading(rec, valid, files, todo)
      BY <1>4, <2>1 DEF RecRead, SetRec, Reading
    <2>3. /\ valid \in [Objects -> SUBSET Agents]
          /\ \A o \in Objects : valid[o] = {a \in Agents : o \in rec.listed[a] /\ o \in good[a]}
      BY <2>1 DEF Reads
    <2>4. todo \in SUBSET Files
      BY <2>1
    <2>5. rec' \in Passes /\ rec'.pc = "repair" /\ rec'.valid = valid /\ rec'.proj = files /\ rec'.todo = todo
      <3>1. PICK q : q = rec'
        OBVIOUS
      <3>2. q = Reading(rec, valid, files, todo) /\ rec \in Passes /\ files \in [Files -> FileRows]
        BY <1>1, <2>2, <3>1 DEF RecTypes, FileTypes
      <3>3. ReadTo(valid, files, todo, q)
        BY <2>3, <2>4, <3>2, ReadingFacts
      <3>4. QED
        BY <3>1, <3>3 DEF ReadTo
    <2>6. Grows
      BY <1>2 DEF Grows, agVars
    <2>7. Shapes'
      <3>1. /\ AgentTypes' /\ PlaceTypes' /\ FileTypes' /\ EnvTypes' /\ AckTypes' /\ Passes' = Passes
        BY <1>1, <1>2, Rests DEF dbVars, envVars
      <3>2. RecTypes'
        BY <2>5, <3>1 DEF RecTypes
      <3>3. QED
        BY <3>1, <3>2, PartsPrime
    <2>8. RowsOK'
      <3>1. \A f \in Files : RowOK(f, files[f])'
        BY <1>1, <1>2, <2>6, FilesRest DEF dbVars
      <3>2. QED
        BY <1>1, <1>2, <2>5, <2>6, <3>1, RowsFrom DEF envVars
    <2>9. AckedHeld'
      BY <1>1, <1>2, <2>6, HeldRests DEF envVars
    <2>10. Versions' = Versions /\ Objects' = Objects /\ Firm' = Firm
      BY SameSetting
    <2>11. ASSUME NEW f \in Files, NEW o \in Objects, NEW v \in Versions, o \in {Manifest(f, v), Marker(f, v)},
                  Coming(f, o)
           PROVE  Coming(f, o)'
      <3>1. PICK a \in Firm : o \in good[a] /\ o \in rec.listed[a]
        BY <1>2, <2>11 DEF Coming
      <3>2. a \in valid[o]
        BY <2>3, <3>1 DEF Firm
      <3>3. f \in todo
        BY <2>1, <2>11, <3>2
      <3>4. o \in good'[a]
        BY <1>2, <3>1 DEF agVars
      <3>5. QED
        BY <2>5, <2>10, <3>1, <3>2, <3>3, <3>4 DEF Coming, Verdicts, Open
    <2>12. Known'
      <3>1. \A f \in Files : \A v \in Versions : Manifest(f, v) \in Objects /\ Marker(f, v) \in Objects
        BY <1>1, ObjectFacts
      <3>2. \A f \in Files : \A v \in Versions : Coming(f, Manifest(f, v)) => Coming(f, Manifest(f, v))'
        BY <2>11, <3>1
      <3>3. \A f \in Files : \A v \in Versions : Coming(f, Marker(f, v)) => Coming(f, Marker(f, v))'
        BY <2>11, <3>1
      <3>4. QED
        BY <1>1, <1>2, <2>10, <3>2, <3>3 DEF Known, dbVars, envVars, AckTypes
    <2>13. PassOK'
      <3>1. (Verdicts => \A o \in Objects : \A a \in rec.valid[o] \cap Firm : o \in good[a])'
        BY <1>2, <2>3, <2>5, <2>10 DEF agVars
      <3>2. ASSUME NEW f \in Files, f \in todo PROVE (MarkerEvidence(f) \cup ManifestEvidence(f))' # {}
        <4>1. files[f] \in FileRows /\ RowOK(f, files[f])
          BY <1>1 DEF FileTypes, RowsOK
        <4>2. CASE files[f].state = "deleted"
          BY <2>5, <4>2 DEF MarkerEvidence
        <4>3. CASE files[f].state # "deleted" /\ files[f].man # 0
          <5>1. files[f].state \in {"committed", "recovery_blocked"}
            BY <4>1, <4>3 DEF FileRows, RowOK
          <5>2. QED
            BY <2>5, <4>3, <5>1 DEF ManifestEvidence
        <4>4. CASE \E v \in Versions : valid[Manifest(f, v)] # {} \/ valid[Marker(f, v)] # {}
          <5>1. PICK v \in Versions : valid[Manifest(f, v)] # {} \/ valid[Marker(f, v)] # {}
            BY <4>4
          <5>2. v \in ManifestsRead(f)' \/ v \in MarkersRead(f)'
            BY <2>5, <2>10, <5>1 DEF ManifestsRead, MarkersRead, Manifest, Marker
          <5>3. QED
            BY <5>2 DEF MarkerEvidence, ManifestEvidence
        <4>5. files[f].state # "deleted" => files[f].del = 0
          BY <4>1 DEF RowOK
        <4>6. QED
          BY <2>1, <3>2, <4>2, <4>3, <4>4, <4>5
      <3>3. (\A f \in Files : Open(f) => MarkerEvidence(f) \cup ManifestEvidence(f) # {})'
        BY <2>5, <3>2 DEF Open
      <3>4. QED
        BY <2>5, <3>1, <3>3 DEF PassOK
    <2>14. QED
      BY <2>7, <2>8, <2>9, <2>12, <2>13 DEF RecInv
  <1>5. QED
    BY <1>3, <1>4

-----------------------------------------------------------------------------
(* Verdicts.                                                               *)

LEMMA BackToRepair ==
  ASSUME NEW p \in Passes, NEW q, q = [p EXCEPT !.pc = "repair"]
  PROVE  /\ q \in Passes /\ q.pc = "repair" /\ q.valid = p.valid /\ q.proj = p.proj /\ q.todo = p.todo
  BY DEF Passes

\* A verdict that is right about the file is right about the rest.
LEMMA VerdictOK ==
  ASSUME RecInv, UNCHANGED setting, rec.pc = "apply", rec' = [rec EXCEPT !.pc = "repair"],
         NEW f, f = rec.cur, NEW r \in FileRows, files' = [files EXCEPT ![f] = r], RowOK(f, r)', r.state # "none",
         f \in ackedDeletes => r.state = "deleted",
         uploads' \in [Files -> Uploads], manifestOf' \in [Files -> OptVersions], markerOf' \in [Files -> OptVersions],
         UNCHANGED <<active, rows, deletes, pending, agVars, envVars>>
  PROVE  RecInv'
  <1>1. /\ Shapes /\ RowsOK /\ AckedHeld /\ Known /\ PassOK /\ FileTypes /\ RecTypes /\ AckTypes /\ setting \in Settings
    BY Parts DEF RecInv, EnvTypes
  <1>2. f \in Files
    BY <1>1 DEF RecTypes, Passes
  <1>3. rec' \in Passes /\ rec'.pc = "repair" /\ rec'.valid = rec.valid /\ rec'.proj = rec.proj /\ rec'.todo = rec.todo
    <2>1. PICK q : q = rec'
      OBVIOUS
    <2>2. q = [rec EXCEPT !.pc = "repair"] /\ rec \in Passes
      BY <1>1, <2>1 DEF RecTypes
    <2>3. QED
      BY <2>1, <2>2, BackToRepair
  <1>4. Grows
    BY DEF Grows, agVars
  <1>5. Shapes'
    <2>1. /\ AgentTypes' /\ PlaceTypes' /\ EnvTypes' /\ AckTypes' /\ Passes' = Passes /\ Uploads' = Uploads
      BY <1>1, Rests DEF envVars
    <2>2. RecTypes'
      BY <1>3, <2>1 DEF RecTypes
    <2>3. files' \in [Files -> FileRows]
      BY <1>1, <1>2 DEF FileTypes
    <2>4. FileTypes'
      BY <1>1, <2>1, <2>3, SameSetting DEF FileTypes
    <2>5. QED
      BY <2>1, <2>2, <2>4, PartsPrime
  <1>6. (\A g \in Files : RowOK(g, files[g])') /\ files'[f] = r /\ \A g \in Files : g # f => files'[g] = files[g]
    <2>1. Shapes /\ RowsOK /\ files' = [files EXCEPT ![f] = r] /\ RowOK(f, r)'
      BY <1>1
    <2>2. QED
      BY <1>2, <1>4, <2>1, OneRow
  <1>7. RowsOK'
    BY <1>1, <1>3, <1>4, <1>6, RowsFrom DEF envVars
  <1>8. AckedHeld'
    BY <1>1, <1>4, HeldRests DEF envVars
  <1>9. Versions' = Versions /\ Objects' = Objects /\ Firm' = Firm
    BY SameSetting
  <1>10. ASSUME NEW g, g # f, NEW o, Coming(g, o) PROVE Coming(g, o)'
    BY <1>3, <1>9, <1>10 DEF Coming, Verdicts, Open, agVars
  <1>11. Known'
    <2>1. \A g \in acked' : files'[g].state # "none" \/ (pending' /\ \E w \in Versions : Coming(g, Manifest(g, w))')
      BY <1>1, <1>6, <1>10 DEF Known, AckTypes, envVars
    <2>2. \A g \in ackedDeletes' :
             files'[g].state = "deleted" \/ (pending' /\ \E w \in Versions : Coming(g, Marker(g, w))')
      BY <1>1, <1>6, <1>10 DEF Known, AckTypes, envVars
    <2>3. QED
      BY <1>9, <2>1, <2>2 DEF Known
  <1>12. PassOK'
    <2>1. (Verdicts => \A o \in Objects : \A a \in rec.valid[o] \cap Firm : o \in good[a])'
      BY <1>1, <1>3, <1>9 DEF PassOK, Verdicts, agVars
    <2>2. \A g : MarkerEvidence(g)' = MarkerEvidence(g) /\ ManifestEvidence(g)' = ManifestEvidence(g)
      BY <1>3, SameEvidence
    <2>3. (\A g \in Files : Open(g) => MarkerEvidence(g) \cup ManifestEvidence(g) # {})'
      BY <1>1, <1>3, <2>2 DEF PassOK, Verdicts, Open
    <2>4. QED
      BY <1>3, <2>1, <2>3 DEF PassOK
  <1>13. QED
    BY <1>5, <1>7, <1>8, <1>11, <1>12 DEF RecInv

\* A deletion that was acknowledged is in the row, or in the evidence.
LEMMA JudgedDeletes ==
  ASSUME RecInv, rec.pc = "apply", NEW f, f = rec.cur
  PROVE  /\ f \in Files /\ files[f] \in FileRows /\ RowOK(f, files[f])
         /\ Winner(f)[3] \in Versions /\ WinningGeneration(f) \in {1, 2}
         /\ WinningGeneration(f) = 1 => Required(f) = {Chunk(f), Manifest(f, Winner(f)[3])}
         /\ f \in ackedDeletes => files[f].state = "deleted" \/ WinningGeneration(f) = 2
  <1>1. /\ Shapes /\ RowsOK /\ Known /\ PassOK /\ FileTypes /\ RecTypes
    BY Parts DEF RecInv
  <1>2. f \in Files /\ files[f] \in FileRows /\ RowOK(f, files[f])
    BY <1>1 DEF RecTypes, Passes, FileTypes, RowsOK
  <1>3. MarkerEvidence(f) \cup ManifestEvidence(f) # {}
    BY <1>1, <1>2 DEF PassOK, Verdicts, Open
  <1>4. ASSUME f \in ackedDeletes, files[f].state # "deleted" PROVE WinningGeneration(f) = 2
    <2>1. PICK v \in Versions : Coming(f, Marker(f, v))
      BY <1>1, <1>4 DEF Known
    <2>2. v \in MarkersRead(f)
      BY <2>1 DEF Coming, Verdicts, MarkersRead
    <2>3. QED
      BY <2>2 DEF MarkerEvidence, WinningGeneration
  <1>5. QED
    BY <1>1, <1>2, <1>3, <1>4, WinnerFacts

\* The row that mark_recovery_blocked writes.
BlockedRow(q, generation, gone) ==
    [q EXCEPT !.state = IF gone # 0 THEN "deleted" ELSE "recovery_blocked",
              !.gen = Greatest(@, generation), !.del = IF gone # 0 THEN gone ELSE @]

BlockedTo(q, generation, gone, r) ==
    /\ r \in FileRows /\ r.state = (IF gone # 0 THEN "deleted" ELSE "recovery_blocked")
    /\ r.gen = Greatest(q.gen, generation) /\ r.del = (IF gone # 0 THEN gone ELSE q.del)

LEMMA BlockedFacts ==
  ASSUME NEW q \in FileRows, NEW generation \in {1, 2}, NEW gone \in Versions \cup {0}, NEW r,
         r = BlockedRow(q, generation, gone)
  PROVE  BlockedTo(q, generation, gone, r)
  <1>1. PICK s, n, d : /\ s = IF gone # 0 THEN "deleted" ELSE "recovery_blocked"
                       /\ n = Greatest(q.gen, generation) /\ d = IF gone # 0 THEN gone ELSE q.del
    OBVIOUS
  <1>2. q.gen \in 0..2 /\ q.man \in Versions \cup {0} /\ q.del \in Versions \cup {0}
    BY DEF FileRows
  <1>3. n \in 0..2 /\ d \in Versions \cup {0} /\ s \in {"deleted", "recovery_blocked"}
    BY <1>1, <1>2 DEF Greatest
  <1>4. r = [q EXCEPT !.state = s, !.gen = n, !.del = d]
    BY <1>1 DEF BlockedRow, FileRows
  <1>5. PICK m : m = q.man
    OBVIOUS
  <1>6. r = [state |-> s, gen |-> n, man |-> m, del |-> d]
    BY <1>4, <1>5 DEF FileRows
  <1>7. QED
    BY <1>1, <1>2, <1>3, <1>5, <1>6 DEF FileRows, BlockedTo

LEMMA RecBlockOK ==
  ASSUME RecInv, UNCHANGED setting, RecBlock
  PROVE  RecInv'
  <1>1. PICK f : f = rec.cur
    OBVIOUS
  <1>2. PICK gone : gone = IF WinningGeneration(f) = 2 THEN Winner(f)[3]
                           ELSE IF files[f].state = "deleted" THEN files[f].del ELSE 0
    OBVIOUS
  <1>3. PICK r : r = BlockedRow(files[f], WinningGeneration(f), gone)
    OBVIOUS
  <1>4. rec.pc = "apply" /\ files' = [files EXCEPT ![f] = r] /\ rec' = [rec EXCEPT !.pc = "repair"]
    BY <1>1, <1>2, <1>3 DEF RecBlock, Blocked, BlockedRow, SetRec
  <1>5. /\ f \in Files /\ files[f] \in FileRows /\ RowOK(f, files[f])
        /\ Winner(f)[3] \in Versions /\ WinningGeneration(f) \in {1, 2}
        /\ f \in ackedDeletes => files[f].state = "deleted" \/ WinningGeneration(f) = 2
    BY <1>1, <1>4, JudgedDeletes
  <1>6. setting \in Settings /\ FileTypes
    BY Parts DEF RecInv, EnvTypes
  <1>7. gone \in Versions \cup {0} /\ 0 \notin Versions /\ (WinningGeneration(f) = 2 => gone # 0)
    BY <1>2, <1>5, <1>6, ObjectFacts DEF FileRows
  <1>8. files[f].state = "deleted" => files[f].gen = 2 /\ gone # 0
    BY <1>2, <1>5, <1>7 DEF RowOK
  <1>9. BlockedTo(files[f], WinningGeneration(f), gone, r)
    BY <1>3, <1>5, <1>7, BlockedFacts
  <1>10. gone # 0 => r.gen = 2
    <2>1. files[f].gen \in 0..2
      BY <1>5 DEF FileRows
    <2>2. gone # 0 => files[f].gen = 2 \/ WinningGeneration(f) = 2
      BY <1>2, <1>8
    <2>3. QED
      BY <1>5, <1>9, <2>1, <2>2 DEF BlockedTo, Greatest
  <1>11. gone = 0 => r.del = 0
    BY <1>5, <1>8, <1>9 DEF BlockedTo, RowOK
  <1>12. r \in FileRows /\ r.state = (IF gone # 0 THEN "deleted" ELSE "recovery_blocked") /\ (gone # 0 => r.del = gone)
    BY <1>9 DEF BlockedTo
  <1>13. RowOK(f, r)'
    BY <1>10, <1>11, <1>12 DEF RowOK
  <1>14. r.state # "none" /\ (f \in ackedDeletes => r.state = "deleted")
    BY <1>5, <1>7, <1>8, <1>12
  <1>15. /\ uploads' \in [Files -> Uploads] /\ manifestOf' \in [Files -> OptVersions]
         /\ markerOf' \in [Files -> OptVersions]
    BY <1>6 DEF RecBlock, FileTypes
  <1>16. UNCHANGED <<active, rows, deletes, pending, agVars, envVars>>
    BY DEF RecBlock
  <1>17. QED
    BY <1>1, <1>4, <1>12, <1>13, <1>14, <1>15, <1>16, VerdictOK

LEMMA RecInstallOK ==
  ASSUME RecInv, UNCHANGED setting, RecInstall
  PROVE  RecInv'
  <1>1. PICK f : f = rec.cur
    OBVIOUS
  <1>2. PICK v : v = Winner(f)[3]
    OBVIOUS
  <1>3. PICK r : r = [state |-> "committed", gen |-> 1, man |-> v, del |-> 0]
    OBVIOUS
  <1>4. /\ rec.pc = "apply" /\ ~rec.issues /\ WinningGeneration(f) = 1 /\ files[f].gen <= 1
        /\ files' = [files EXCEPT ![f] = r] /\ rec' = [rec EXCEPT !.pc = "repair"]
        /\ manifestOf' = [manifestOf EXCEPT ![f] = v]
        /\ uploads' = IF uploads[f].state = "open"
                      THEN [uploads EXCEPT ![f] = [state |-> "committed", man |-> v]] ELSE uploads
        /\ UNCHANGED <<active, rows, deletes, markerOf, pending, agVars, envVars>>
    BY <1>1, <1>2, <1>3 DEF RecInstall, SetRec, CanInstall
  <1>5. /\ f \in Files /\ files[f] \in FileRows /\ RowOK(f, files[f])
        /\ v \in Versions /\ Required(f) = {Chunk(f), Manifest(f, v)}
        /\ f \in ackedDeletes => files[f].state = "deleted"
    BY <1>1, <1>2, <1>4, JudgedDeletes
  <1>6. setting \in Settings /\ FileTypes /\ PassOK
    BY Parts DEF RecInv, EnvTypes
  <1>7. f \notin ackedDeletes
    BY <1>4, <1>5 DEF RowOK
  <1>8. r \in FileRows /\ 0 \notin Versions
    BY <1>3, <1>5, <1>6, ObjectFacts DEF FileRows
  <1>9. Held(Chunk(f)) /\ Held(Manifest(f, v))
    BY <1>1, <1>4, <1>5, <1>6 DEF PassOK
  <1>10. RowOK(f, r)'
    <2>1. RowOK(f, r)
      BY <1>3, <1>5, <1>8, <1>9 DEF RowOK
    <2>2. Grows
      BY <1>4 DEF Grows, agVars
    <2>3. QED
      BY <2>1, <2>2, RowStays
  <1>11. uploads' \in [Files -> Uploads]
    <2>1. [state |-> "committed", man |-> v] \in Uploads
      BY <1>5 DEF Uploads, OptVersions
    <2>2. QED
      BY <1>4, <1>5, <1>6, <2>1 DEF FileTypes
  <1>12. manifestOf' \in [Files -> OptVersions] /\ markerOf' \in [Files -> OptVersions]
    BY <1>4, <1>5, <1>6 DEF FileTypes, OptVersions
  <1>13. r.state # "none"
    BY <1>3
  <1>14. QED
    BY <1>1, <1>4, <1>7, <1>8, <1>10, <1>11, <1>12, <1>13, VerdictOK

LEMMA RecTombstoneOK ==
  ASSUME RecInv, UNCHANGED setting, RecTombstone
  PROVE  RecInv'
  <1>1. PICK f : f = rec.cur
    OBVIOUS
  <1>2. PICK v : v = Winner(f)[3]
    OBVIOUS
  <1>3. PICK r : r = Gone(files[f], v)
    OBVIOUS
  <1>4. /\ rec.pc = "apply"
        /\ files' = [files EXCEPT ![f].state = "deleted", ![f].gen = 2, ![f].del = v]
        /\ markerOf' = [markerOf EXCEPT ![f] = v] /\ rec' = [rec EXCEPT !.pc = "repair"]
        /\ UNCHANGED <<active, rows, uploads, deletes, manifestOf, pending, agVars, envVars>>
    BY <1>1, <1>2 DEF RecTombstone, SetRec
  <1>5. f \in Files /\ files[f] \in FileRows /\ v \in Versions
    BY <1>1, <1>2, <1>4, JudgedDeletes
  <1>6. FileTypes /\ setting \in Settings
    BY Parts DEF RecInv, EnvTypes
  <1>7. files' = [files EXCEPT ![f] = r]
    <2>1. PICK G : G = files'
      OBVIOUS
    <2>2. /\ G = [files EXCEPT ![f].state = "deleted", ![f].gen = 2, ![f].del = v]
          /\ r = [files[f] EXCEPT !.state = "deleted", !.gen = 2, !.del = v]
          /\ files \in [Files -> FileRows]
      BY <1>3, <1>4, <1>6, <2>1 DEF Gone, FileTypes
    <2>3. G[f] = r /\ (\A h \in Files : h # f => G[h] = files[h]) /\ G = [h \in Files |-> G[h]]
      BY <1>5, <2>2, ThreeFields
    <2>4. G = [files EXCEPT ![f] = r]
      BY <1>5, <2>2, <2>3, OneChange
    <2>5. QED
      BY <2>1, <2>4
  <1>8. r \in FileRows /\ r.state = "deleted" /\ r.gen = 2 /\ r.del = v
    <2>1. PICK q : q = files[f]
      OBVIOUS
    <2>2. q \in FileRows /\ r = Gone(q, v)
      BY <1>3, <1>5, <2>1
    <2>3. QED
      BY <1>5, <2>2, DeletedRow
  <1>9. RowOK(f, r)'
    BY <1>5, <1>6, <1>8, ObjectFacts DEF RowOK
  <1>10. /\ uploads' \in [Files -> Uploads] /\ manifestOf' \in [Files -> OptVersions]
         /\ markerOf' \in [Files -> OptVersions]
    BY <1>4, <1>5, <1>6 DEF FileTypes, OptVersions
  <1>11. QED
    BY <1>1, <1>4, <1>7, <1>8, <1>9, <1>10, VerdictOK

-----------------------------------------------------------------------------
(* The repairs of one file.                                                *)

LEMMA NewCopiesFacts ==
  ASSUME setting \in Settings, NEW o, NEW n \in {0, 1}
  PROVE  NewCopies(o, n) \in SUBSET Agents
  <1>1. Targets(o) \in SUBSET Agents
    BY DEF Targets
  <1>2. Targets(o) \in SUBSET Nat /\ IsFiniteSet(Targets(o)) /\ Cardinality(Targets(o)) \in Nat
    BY <1>1, SettingFacts, FS_Subset, FS_CardinalityType
  <1>3. ASSUME Cardinality(Targets(o)) > n PROVE Nth(Targets(o), n) \in Agents
    BY <1>1, <1>2, <1>3, NthIn
  <1>4. NewCopies(o, n) = {} \/ (NewCopies(o, n) = {Nth(Targets(o), n)} /\ Cardinality(Targets(o)) > n)
    BY <1>2 DEF NewCopies
  <1>5. QED
    BY <1>3, <1>4

\* The memory of a pass after the repairs of a file.
Repairing(p, f, issues) == [p EXCEPT !.pc = "apply", !.todo = @ \ {f}, !.cur = f, !.issues = issues]

RepairedTo(p, f, issues, q) ==
    /\ q \in Passes /\ q.pc = "apply" /\ q.todo = p.todo \ {f} /\ q.cur = f /\ q.issues = issues
    /\ q.valid = p.valid /\ q.proj = p.proj

LEMMA RepairingFacts ==
  ASSUME NEW p \in Passes, NEW f \in Files, NEW issues \in BOOLEAN, NEW q, q = Repairing(p, f, issues)
  PROVE  RepairedTo(p, f, issues, q)
  <1>1. PICK todo : todo = p.todo \ {f}
    OBVIOUS
  <1>2. todo \in SUBSET Files
    BY <1>1 DEF Passes
  <1>3. q = [p EXCEPT !.pc = "apply", !.todo = todo, !.cur = f, !.issues = issues]
    BY <1>1 DEF Repairing, Passes
  <1>4. q = [pc |-> "apply", at |-> p.at, inc |-> p.inc, listed |-> p.listed, valid |-> p.valid, proj |-> p.proj,
             todo |-> todo, cur |-> f, issues |-> issues]
    BY <1>3 DEF Passes
  <1>5. q \in Passes
    BY <1>2, <1>4 DEF Passes
  <1>6. QED
    BY <1>1, <1>4, <1>5 DEF RepairedTo

Needed(f) == IF Conflicted(f) THEN {} ELSE IF rec.valid[Winner(f)] = {} THEN {} ELSE Required(f)

\* The repairs, with n targets failing, of the objects of need.
RepairOf(f, n, need) ==
    /\ IF n = 0 THEN UNCHANGED hiccups ELSE Hiccup
    /\ good' = [a \in Agents |-> good[a] \cup {o \in need : a \in NewCopies(o, n)}]
    /\ bad' = [a \in Agents |-> bad[a] \ {o \in need : a \in NewCopies(o, n)}]
    /\ rows' = [o \in Objects |-> [a \in Agents |->
           IF o \in need /\ a \in rec.valid[o] \cup NewCopies(o, n) THEN rec.inc[a] ELSE rows[o][a]]]
    /\ rec' = Repairing(rec, f, need = {} \/ \E o \in need : Trouble(o, n))

LEMMA RecRepairOK ==
  ASSUME RecInv, UNCHANGED setting, NEW f \in Files, RecRepair(f)
  PROVE  RecInv'
  <1>1. /\ Shapes /\ RowsOK /\ AckedHeld /\ Known /\ PassOK /\ AgentTypes /\ PlaceTypes /\ RecTypes
        /\ setting \in Settings
    BY Parts DEF RecInv, EnvTypes
  <1>2. \E m \in {0, 1} : RepairOf(f, m, Needed(f))
    BY Zenon DEF RecRepair, SetRec, RepairOf, Repairing, Needed
  <1>3. PICK need : need = Needed(f)
    OBVIOUS
  <1>4. PICK n \in {0, 1} : RepairOf(f, n, need)
    BY <1>2, <1>3
  <1>5. /\ rec.pc = "repair" /\ f \in rec.todo
        /\ UNCHANGED <<active, uploads, deletes, files, manifestOf, markerOf, pending, vol, snapshot, minted, losses,
                       restores, acked, ackedDeletes>>
    BY DEF RecRepair
  <1>6. MarkerEvidence(f) \cup ManifestEvidence(f) # {}
    BY <1>1, <1>5 DEF PassOK, Verdicts, Open
  <1>7. need \in SUBSET Objects /\ (need # {} => need = Required(f))
    BY <1>1, <1>6, <1>3, WinnerFacts DEF Needed
  <1>8. PICK issues \in BOOLEAN : issues <=> (need = {} \/ \E o \in need : Trouble(o, n))
    OBVIOUS
  <1>9. rec' = Repairing(rec, f, issues)
    <2>1. issues = (need = {} \/ \E o \in need : Trouble(o, n))
      BY <1>8
    <2>2. QED
      BY <1>4, <2>1, Zenon DEF RepairOf
  <1>10. /\ rec' \in Passes /\ rec'.pc = "apply" /\ rec'.todo = rec.todo \ {f} /\ rec'.cur = f /\ rec'.issues = issues
        /\ rec'.valid = rec.valid /\ rec'.proj = rec.proj
    <2>1. PICK q : q = rec'
      OBVIOUS
    <2>2. q = Repairing(rec, f, issues) /\ rec \in Passes
      BY <1>1, <1>9, <2>1 DEF RecTypes
    <2>3. RepairedTo(rec, f, issues, q)
      BY <2>2, RepairingFacts
    <2>4. QED
      BY <2>1, <2>3 DEF RepairedTo
  <1>11. /\ good' \in [Agents -> SUBSET Objects] /\ bad' \in [Agents -> SUBSET Objects]
         /\ \A a \in Agents : good[a] \subseteq good'[a]
    BY <1>1, <1>4, <1>7 DEF AgentTypes, RepairOf
  <1>12. \A o \in need : \A a \in Agents : a \in NewCopies(o, n) => o \in good'[a]
    BY <1>4 DEF RepairOf
  <1>13. rows' \in [Objects -> [Agents -> Incs]]
    <2>1. rec.inc \in [Agents -> Incs]
      BY <1>1 DEF RecTypes, Passes
    <2>2. QED
      BY <1>1, <1>4, <2>1 DEF PlaceTypes, RepairOf
  <1>14. Shapes'
    <2>1. FileTypes' /\ AckTypes' /\ Passes' = Passes
      BY <1>1, <1>5, Rests
    <2>2. EnvTypes'
      BY <1>1, <1>4, <1>5, HiccupTypes DEF RepairOf
    <2>3. AgentTypes'
      BY <1>1, <1>5, <1>11, SameSetting DEF AgentTypes
    <2>4. PlaceTypes'
      BY <1>1, <1>5, <1>13, SameSetting DEF PlaceTypes
    <2>5. RecTypes'
      BY <1>10, <2>1 DEF RecTypes
    <2>6. QED
      BY <2>1, <2>2, <2>3, <2>4, <2>5, PartsPrime
  <1>15. Grows
    BY <1>1, <1>11, GrownAgents
  <1>16. RowsOK'
    <2>1. \A g \in Files : RowOK(g, files[g])'
      BY <1>1, <1>5, <1>15, FilesRest
    <2>2. QED
      BY <1>1, <1>5, <1>10, <1>15, <2>1, RowsFrom
  <1>17. AckedHeld'
    BY <1>1, <1>5, <1>15, HeldRests
  <1>18. Versions' = Versions /\ Objects' = Objects /\ Firm' = Firm
    BY SameSetting
  <1>19. ASSUME NEW g, NEW o, Coming(g, o) PROVE Coming(g, o)'
    BY <1>5, <1>10, <1>15, <1>18, <1>19 DEF Coming, Verdicts, Open, Grows
  <1>20. Known'
    BY <1>1, <1>5, <1>18, <1>19 DEF Known
  <1>21. PassOK'
    <2>1. (Verdicts => \A o \in Objects : \A a \in rec.valid[o] \cap Firm : o \in good[a])'
      BY <1>1, <1>5, <1>10, <1>15, <1>18 DEF PassOK, Verdicts, Grows
    <2>2. \A g : /\ MarkerEvidence(g)' = MarkerEvidence(g) /\ ManifestEvidence(g)' = ManifestEvidence(g)
                 /\ Required(g)' = Required(g)
      BY <1>10, SameEvidence
    <2>3. (\A g \in Files : Open(g) => MarkerEvidence(g) \cup ManifestEvidence(g) # {})'
      BY <1>1, <1>5, <1>10, <2>2 DEF PassOK, Verdicts, Open
    <2>4. ASSUME ~issues PROVE \A o \in Required(f) : Held(o)'
      <3>1. need = Required(f) /\ \A o \in need : ~Trouble(o, n)
        BY <1>7, <1>8, <2>4
      <3>2. ASSUME NEW o \in need PROVE Held(o)'
        <4>1. NewCopies(o, n) \in SUBSET Agents /\ rec.valid[o] \in SUBSET Agents
          BY <1>1, <1>7, NewCopiesFacts DEF RecTypes, Passes
        <4>2. PICK S : S = rec.valid[o] \cup NewCopies(o, n)
          OBVIOUS
        <4>3. S \in SUBSET Agents /\ Cardinality(Domains(S)) >= 2
          BY <3>1, <4>1, <4>2 DEF Trouble, EnoughDomains
        <4>4. PICK a \in S : a \in Firm
          BY <1>1, <4>3, TwoDomains
        <4>5. a \in Agents
          BY <4>3
        <4>6. o \in good'[a]
          <5>1. CASE a \in rec.valid[o]
            BY <1>1, <1>5, <1>7, <1>15, <4>4, <5>1 DEF PassOK, Verdicts, Grows
          <5>2. CASE a \in NewCopies(o, n)
            BY <1>12, <4>5, <5>2
          <5>3. QED
            BY <4>2, <4>4, <5>1, <5>2
        <4>7. QED
          BY <1>18, <4>4, <4>6 DEF Held
      <3>3. QED
        BY <3>1, <3>2
    <2>5. Required(rec.cur)' = Required(f)
      <3>1. Required(rec.cur)' = Required(f)'
        BY <1>10, AtCur
      <3>2. QED
        BY <2>2, <3>1
    <2>6. ((rec.pc = "apply" /\ ~rec.issues /\ WinningGeneration(rec.cur) = 1)
           => \A o \in Required(rec.cur) : Held(o))'
      BY <1>10, <2>4, <2>5
    <2>7. QED
      BY <2>1, <2>3, <2>6 DEF PassOK
  <1>22. QED
    BY <1>14, <1>16, <1>17, <1>20, <1>21 DEF RecInv

-----------------------------------------------------------------------------
(* The invariant.                                                          *)

LEMMA RecInit == Init => RecInv
  <1> SUFFICES ASSUME Init PROVE RecInv
    OBVIOUS
  <1>1. /\ setting \in Settings /\ MaxLosses \in Nat /\ MaxHiccups \in Nat /\ MaxRestores \in Nat
        /\ MaxVersions \in Nat \ {0}
    BY SettingFacts DEF Init
  <1>2. /\ rec = IdlePass /\ IdlePass \in Passes /\ IdlePass.pc = "idle"
        /\ IdlePass.proj = [f \in Files |-> NoFile] /\ NoFile \in FileRows
    BY <1>1, IdleFacts DEF Init
  <1>3. AgentTypes
    BY <1>1 DEF Init, AgentTypes, Volumes
  <1>4. PlaceTypes
    BY DEF Init, PlaceTypes, Incs
  <1>5. FileTypes
    BY <1>2 DEF Init, FileTypes, Uploads, OptVersions
  <1>6. Database \in Tables
    BY <1>4, <1>5 DEF Database, Tables, PlaceTypes, FileTypes, Uploads
  <1>7. EnvTypes
    BY <1>1, <1>6 DEF Init, EnvTypes
  <1>8. AckTypes /\ RecTypes
    BY <1>1, <1>2 DEF Init, AckTypes, RecTypes, Mints
  <1>9. Shapes
    BY <1>3, <1>4, <1>5, <1>7, <1>8, Parts
  <1>10. snapshot.db.files = files
    BY DEF Init, Database
  <1>11. \A f \in Files : files[f] = NoFile /\ rec.proj[f] = NoFile
    BY <1>2 DEF Init
  <1>12. RowsOK
    BY <1>10, <1>11 DEF RowsOK, RowOK, NoFile
  <1>13. AckedHeld /\ Known
    BY DEF Init, AckedHeld, Known
  <1>14. PassOK
    BY <1>2 DEF PassOK, Verdicts
  <1>15. QED
    BY <1>9, <1>12, <1>13, <1>14 DEF RecInv

LEMMA RecNext ==
  ASSUME RecInv, [Next]_vars
  PROVE  RecInv'
  <1>1. CASE UNCHANGED vars
    <2>1. Shapes /\ UNCHANGED setting
      BY <1>1 DEF RecInv, vars
    <2>2. AgentTypes' /\ PlaceTypes' /\ FileTypes' /\ EnvTypes' /\ AckTypes' /\ RecTypes'
      BY <1>1, <2>1, Rests DEF vars, dbVars, envVars
    <2>3. Shapes'
      BY <2>2, PartsPrime
    <2>4. Grows
      BY <1>1 DEF Grows, vars, agVars
    <2>5. RowsOK' /\ AckedHeld' /\ Known' /\ PassOK'
      BY <1>1, <2>4, QuietOK DEF Quiet, vars, dbVars, envVars
    <2>6. QED
      BY <2>3, <2>5 DEF RecInv
  <1>2. CASE Next
    <2>1. UNCHANGED setting
      BY <1>2 DEF Next
    <2>2. ASSUME NEW f \in Files,
                 UploadChunk(f) \/ UploadManifest(f) \/ UploadCommit(f) \/ DeleteMark(f) \/ DeleteCommit(f)
          PROVE  RecInv'
      BY <2>1, <2>2, UploadChunkOK, UploadManifestOK, UploadCommitOK, DeleteMarkOK, DeleteCommitOK
    <2>3. CASE RecStart \/ RecList \/ RecRead
      BY <2>1, <2>3, RecStartOK, RecListOK, RecReadOK
    <2>4. ASSUME NEW f \in Files, RecRepair(f) PROVE RecInv'
      BY <2>1, <2>4, RecRepairOK
    <2>5. CASE RecBlock \/ RecInstall \/ RecTombstone \/ RecConflict \/ RecFinish \/ RecAbort
      BY <2>1, <2>5, RecBlockOK, RecInstallOK, RecTombstoneOK, RecConflictOK, RecFinishOK, RecAbortOK
    <2>6. CASE TakeSnapshot \/ Restore
      BY <2>1, <2>6, TakeSnapshotOK, RestoreOK
    <2>7. ASSUME NEW a \in Agents, LoseVolume(a) \/ RotObject(a) PROVE RecInv'
      BY <2>1, <2>7, LoseVolumeOK, RotObjectOK
    <2>8. QED
      BY <1>2, <2>2, <2>3, <2>4, <2>5, <2>6, <2>7, Zenon DEF Next, Activity, RecStep
  <1>3. QED
    BY <1>1, <1>2

LEMMA RecInvariant == Spec => []RecInv
  <1>1. Init => RecInv
    BY RecInit
  <1>2. RecInv /\ [Next]_vars => RecInv'
    BY RecNext
  <1>3. QED
    BY <1>1, <1>2, PTL DEF Spec

\* From whatever snapshot the portal was restored, whatever the agents of one
\* failure domain lost and wherever a pass was interrupted: once recover has
\* finished (clear_recovery_pending), every acknowledged file is known again,
\* and what the projection shows as committed (apply_recovered_manifest, after
\* ensure_rf2) has an intact copy of each of its objects.
THEOREM RecoveryIsHonest == Spec => []RecoveredHonest
  <1>1. RecInv => RecoveredHonest
    <2> SUFFICES ASSUME RecInv PROVE RecoveredHonest
      OBVIOUS
    <2>1. TypeOK
      BY DEF RecInv, Shapes
    <2>2. AckedKnown
      BY DEF RecInv, Known, AckedKnown
    <2>3. CommittedReadable
      BY DEF RecInv, RowsOK, RowOK, Held, Firm, CommittedReadable
    <2>4. QED
      BY <2>1, <2>2, <2>3 DEF RecoveredHonest
  <1>2. QED
    BY <1>1, RecInvariant, PTL

-----------------------------------------------------------------------------
(* Generations.                                                            *)

\* Only a restore takes a file back.
LEMMA GenerationStep ==
  ASSUME RecInv, [Next]_vars, restores' = restores
  PROVE  \A f \in Files : files'[f].gen >= files[f].gen
  <1>1. FileTypes /\ RowsOK /\ EnvTypes /\ RecTypes
    BY Parts DEF RecInv
  <1>2. /\ files \in [Files -> FileRows] /\ \A f \in Files : files[f].gen \in 0..2
    BY <1>1 DEF FileTypes, FileRows
  <1>3. ASSUME files' = files PROVE \A f \in Files : files'[f].gen >= files[f].gen
    BY <1>2, <1>3
  <1>4. ASSUME NEW g \in Files, NEW r, files' = [files EXCEPT ![g] = r], r.gen >= files[g].gen
        PROVE  \A f \in Files : files'[f].gen >= files[f].gen
    BY <1>2, <1>4
  <1>5. ASSUME NEW g \in Files, UploadCommit(g) PROVE \A f \in Files : files'[f].gen >= files[f].gen
    <2>1. PICK r : r = [state |-> "committed", gen |-> 1, man |-> uploads[g].man, del |-> 0]
      OBVIOUS
    <2>2. files' = [files EXCEPT ![g] = r] /\ files[g].state = "none" /\ RowOK(g, files[g])
      BY <1>1, <1>5, <2>1 DEF UploadCommit, RowsOK
    <2>3. r.gen >= files[g].gen
      BY <2>1, <2>2 DEF RowOK
    <2>4. QED
      BY <1>4, <2>2, <2>3
  <1>6. ASSUME NEW g \in Files, NEW v, files' = [files EXCEPT ![g].state = "deleted", ![g].gen = 2, ![g].del = v]
        PROVE  \A f \in Files : files'[f].gen >= files[f].gen
    <2>1. PICK r, G : r = [files[g] EXCEPT !.state = "deleted", !.gen = 2, !.del = v] /\ G = files'
      OBVIOUS
    <2>2. G[g] = r /\ (\A h \in Files : h # g => G[h] = files[h])
      BY <1>2, <1>6, <2>1, ThreeFields
    <2>3. r.gen = 2
      <3>1. files[g] \in FileRows
        BY <1>2
      <3>2. PICK q : q = files[g]
        OBVIOUS
      <3>3. q \in FileRows /\ r = [q EXCEPT !.state = "deleted", !.gen = 2, !.del = v]
        BY <2>1, <3>1, <3>2
      <3>4. QED
        BY <3>3 DEF FileRows
    <2>4. files'[g].gen = 2 /\ \A h \in Files : h # g => files'[h] = files[h]
      <3>1. G = files'
        BY <2>1
      <3>2. QED
        BY <2>2, <2>3, <3>1
    <2>5. \A h \in Files : files[h].gen \in 0..2
      BY <1>2
    <2>6. QED
      BY <2>4, <2>5
  <1>7. ASSUME RecBlock PROVE \A f \in Files : files'[f].gen >= files[f].gen
    <2>1. PICK g : g = rec.cur
      OBVIOUS
    <2>2. PICK r : r = Blocked(g)
      OBVIOUS
    <2>3. files' = [files EXCEPT ![g] = r] /\ g \in Files /\ WinningGeneration(g) \in {1, 2}
      BY <1>1, <1>7, <2>1, <2>2 DEF RecBlock, RecTypes, Passes, WinningGeneration
    <2>4. r.gen = Greatest(files[g].gen, WinningGeneration(g))
      BY <1>2, <2>2, <2>3 DEF Blocked, FileRows
    <2>5. r.gen >= files[g].gen
      BY <1>2, <2>3, <2>4 DEF Greatest
    <2>6. QED
      BY <1>4, <2>3, <2>5
  <1>8. ASSUME RecInstall PROVE \A f \in Files : files'[f].gen >= files[f].gen
    <2>1. PICK g : g = rec.cur
      OBVIOUS
    <2>2. PICK r : r = [state |-> "committed", gen |-> 1, man |-> Winner(g)[3], del |-> 0]
      OBVIOUS
    <2>3. files' = [files EXCEPT ![g] = r] /\ g \in Files /\ files[g].gen <= 1
      BY <1>1, <1>8, <2>1, <2>2 DEF RecInstall, CanInstall, RecTypes, Passes
    <2>4. r.gen >= files[g].gen
      BY <1>2, <2>2, <2>3
    <2>5. QED
      BY <1>4, <2>3, <2>4
  <1>9. CASE UNCHANGED vars
    BY <1>3, <1>9 DEF vars, dbVars
  <1>10. CASE Next
    <2>1. ASSUME NEW g \in Files, UploadChunk(g) \/ UploadManifest(g) \/ DeleteMark(g) \/ RecRepair(g)
          PROVE  files' = files
      BY <2>1 DEF UploadChunk, UploadManifest, DeleteMark, RecRepair
    <2>2. ASSUME NEW g \in Files, DeleteCommit(g) PROVE \A f \in Files : files'[f].gen >= files[f].gen
      BY <1>6, <2>2 DEF DeleteCommit
    <2>3. ASSUME RecTombstone PROVE \A f \in Files : files'[f].gen >= files[f].gen
      <3>1. rec.cur \in Files
        BY <1>1 DEF RecTypes, Passes
      <3>2. QED
        BY <1>6, <2>3, <3>1 DEF RecTombstone
    <2>4. ASSUME RecStart \/ RecList \/ RecRead \/ RecConflict \/ RecFinish \/ RecAbort \/ TakeSnapshot
          PROVE  files' = files
      BY <2>4 DEF RecStart, RecList, RecRead, RecConflict, RecFinish, RecAbort, TakeSnapshot, dbVars
    <2>5. ASSUME NEW a \in Agents, LoseVolume(a) \/ RotObject(a) PROVE files' = files
      BY <2>5 DEF LoseVolume, RotObject, dbVars
    <2>6. ~Restore
      <3>1. restores \in Int
        BY <1>1 DEF EnvTypes
      <3>2. QED
        BY <3>1 DEF Restore
    <2>7. QED
      BY <1>3, <1>5, <1>7, <1>8, <1>10, <2>1, <2>2, <2>3, <2>4, <2>5, <2>6, Zenon DEF Next, Activity, RecStep
  <1>11. QED
    BY <1>9, <1>10

\* An acknowledged deletion is in force whenever the portal does not await
\* recovery, though a restored portal has forgotten it and passes run beside
\* deletes; and only a restore takes a file to an earlier generation
\* (WinningGeneration, mark_recovery_blocked and the generation checks of
\* apply_recovered_manifest and apply_recovered_deletion).
THEOREM DeletedStaysDeleted == Spec => DeletedForGood
  <1>1. RecInv => \A f \in ackedDeletes : DeletionHolds(f)
    BY DEF RecInv, Known, DeletionHolds
  <1>2. RecInv /\ [Next]_vars => [restores' = restores => \A f \in Files : files'[f].gen >= files[f].gen]_vars
    BY GenerationStep
  <1>3. QED
    BY <1>1, <1>2, RecInvariant, PTL DEF Spec, DeletedForGood, GenerationForward
=============================================================================
