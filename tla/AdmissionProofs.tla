-------------------------- MODULE AdmissionProofs --------------------------
(***************************************************************************)
(* Proofs about AgentStore, for any objects, directories, sizes, pages,    *)
(* threads and faults, and about PeerLimiter, for any bursts, any number   *)
(* of peers, any size of the table and any sequence of attempts.  The two  *)
(* share nothing; they are what an agent and the portal let in.            *)
(*                                                                         *)
(* AckedDurable rests on what a PUT has seen or done (PutsOK): one that    *)
(* found its object, or renamed it into place, finds it good until it      *)
(* answers, unless a DELETE or rot came between.  A listing is complete    *)
(* because all up to its cursor is in what it got (ListOK).                *)
(*                                                                         *)
(* The books (BooksInv) are sums over objects and over threads: what is    *)
(* counted and what was let in fit in the quota (Room); before any fault   *)
(* the files take no more than is counted or about to be (Clean); and      *)
(* where no two threads share an object and no sync fails, the counter is  *)
(* the size of a set of objects, whatever else fails (Exact).              *)
(*                                                                         *)
(* RateKept speaks of every span of time and is not inductive.  The        *)
(* invariant WithinBudget speaks of the spans that end now: what a peer    *)
(* was given since any of its records, and the tokens it has left, fit in  *)
(* the burst and the time its bucket was last looked at; a peer without a  *)
(* bucket was given no more than the time that passed, which is what makes *)
(* it safe to forget a full bucket and to begin again with a burst.        *)
(***************************************************************************)
EXTENDS AgentStore, PeerLimiter, FiniteSetTheorems, WellFoundedInduction, TLAPS


ThreadRows == [pc : Steps, obj : Objects \cup {0}, bytes : Nat, undone : BOOLEAN]
Listings == [pc : {"idle", "page", "done"}, after : Int, got : SUBSET Objects, stable : SUBSET Objects]

\* TypeOK without the counter, which is a sum.
Shapes ==
    /\ setting \in Settings /\ faults \in Nat
    /\ files \in Contents /\ synced \in Contents
    /\ identity \in [file : Nat, synced : Nat, served : Nat]
    /\ up \in {"down", "creating", "up"}
    /\ thread \in [Threads -> ThreadRows]
    /\ \A t \in Threads : thread[t].pc # "idle" => thread[t].obj \in Objects
    /\ acked \subseteq Objects
    /\ list \in Listings

\* The directories of a volume that was in use before stay durable.
DirsOK == Prepared => dirs = Namespace /\ syncedDirs = Namespace

Good(o) == files[o] = "good"
Safe(o) == files[o] = "good" /\ synced[o] = "good"

\* What a PUT may rely on.
PutAt(r) ==
    ~r.undone =>
      /\ r.pc \in {"resync", "sync_parent"} => Good(r.obj)
      /\ r.pc = "ack" => Safe(r.obj)
PutsOK == \A t \in Threads : PutAt(thread[t])

AckedOK == Prepared => \A o \in acked : Safe(o)

\* One fault leaves the identity that is served where a start finds it.
IdentityOK ==
    /\ Prepared => identity = [file |-> 1, synced |-> 1, served |-> 1] /\ up # "creating"
    /\ (~Prepared /\ faults = 0 /\ up = "down") => identity.file = 0
    /\ (faults <= 1 /\ identity.served # 0) =>
         /\ identity.file = identity.served /\ up # "creating"
         /\ faults = 0 => identity.synced = identity.served

ListOK ==
    /\ list.stable \subseteq Present
    /\ list.pc = "page" => \A o \in list.stable : o > list.after \/ o \in list.got
    /\ list.pc = "done" => list.stable \subseteq list.got

\* The inductive invariant.
StoreInv == Shapes /\ DirsOK /\ PutsOK /\ AckedOK /\ IdentityOK /\ ListOK

-----------------------------------------------------------------------------
(* Numbers.                                                                *)

LEMMA Works0 ==
  ASSUME setting \in Settings
  PROVE  \A t \in Threads : Works[t] \subseteq Objects
  BY StoreAssumption DEF Works, Threads

LEMMA SameSetting ==
  ASSUME UNCHANGED setting
  PROVE  Works' = Works /\ Threads' = Threads /\ Prepared' = Prepared
  BY DEF Works, Threads, Prepared

\* A set of naturals that is not empty has a least element.
LEMMA HasLeast ==
  ASSUME NEW S \in SUBSET Nat, S # {}
  PROVE  \E x \in S : \A y \in S : x <= y
  <1>1. IsWellFoundedOn(OpToRel(<, Nat), Nat)
    BY NatLessThanWellFounded
  <1>2. PICK x \in S : \A y \in S : ~(<<y, x>> \in OpToRel(<, Nat))
    BY <1>1, WFMin
  <1>3. \A y \in S : ~(y < x)
    BY <1>2 DEF OpToRel
  <1>4. QED
    BY <1>3

\* A finite one has a greatest.
LEMMA HasGreatest ==
  ASSUME NEW S \in SUBSET Nat, S # {}, IsFiniteSet(S)
  PROVE  /\ Max(S) \in S
         /\ \A y \in S : Max(S) >= y
  <1> DEFINE above(x) == {y \in S : y > x}
             counts == {Cardinality(above(x)) : x \in S}
  <1>1. \A x \in S : IsFiniteSet(above(x)) /\ Cardinality(above(x)) \in Nat
    BY FS_Subset, FS_CardinalityType
  <1>2. \E x \in S : \A y \in S : Cardinality(above(x)) <= Cardinality(above(y))
    <2> HIDE DEF above
    <2>1. counts \in SUBSET Nat /\ counts # {}
      BY <1>1, Zenon
    <2>2. PICK n \in counts : \A m \in counts : n <= m
      BY <2>1, HasLeast
    <2>3. \A y \in S : Cardinality(above(y)) \in counts
      OBVIOUS
    <2>4. PICK z \in S : n = Cardinality(above(z))
      BY Zenon
    <2> HIDE DEF counts
    <2>5. \A y \in S : Cardinality(above(z)) <= Cardinality(above(y))
      BY <2>2, <2>3, <2>4
    <2>6. QED
      BY <2>5
  <1>3. PICK x \in S : \A y \in S : Cardinality(above(x)) <= Cardinality(above(y))
    BY <1>2
  <1>4. ASSUME NEW y \in S, y > x PROVE FALSE
    <2>1. above(y) \subseteq above(x) \ {y}
      <3>1. \A p \in S : p \in Nat
        OBVIOUS
      <3>2. \A p \in S : p > y => p > x /\ p # y
        BY <1>4, <3>1
      <3>3. QED
        BY <3>2
    <2>2. y \in above(x)
      BY <1>4
    <2> HIDE DEF above
    <2>3. /\ IsFiniteSet(above(x) \ {y}) /\ Cardinality(above(x) \ {y}) = Cardinality(above(x)) - 1
      BY <1>1, <2>2, FS_RemoveElement
    <2>4. Cardinality(above(y)) <= Cardinality(above(x) \ {y})
      BY <2>1, <2>3, FS_Subset
    <2>5. QED
      BY <1>1, <1>3, <2>3, <2>4
  <1>5. \A y \in S : x >= y
    BY <1>4
  <1>6. QED
    BY <1>5 DEF Max

-----------------------------------------------------------------------------
(* The identity.                                                           *)

\* What every step does to identity, up and faults.
IdentityRests == identity' = identity /\ up' = up /\ faults' \in {faults, faults + 1}

LEMMA RestsKeepIdentity ==
  ASSUME Shapes, IdentityOK, UNCHANGED setting, IdentityRests
  PROVE  IdentityOK'
  <1>1. faults \in Nat /\ Prepared' = Prepared
    BY SameSetting DEF Shapes
  <1>2. faults' = 0 => faults = 0
    BY <1>1 DEF IdentityRests
  <1>3. faults' <= 1 => faults <= 1
    BY <1>1 DEF IdentityRests
  <1>4. QED
    BY <1>1, <1>2, <1>3 DEF IdentityOK, IdentityRests

LEMMA NewIdentityTyped ==
  ASSUME Shapes
  PROVE  NewIdentity \in Nat
  <1> DEFINE S == {identity.file, identity.synced, identity.served}
  <1>1. identity.file \in Nat /\ identity.synced \in Nat /\ identity.served \in Nat
    BY DEF Shapes
  <1>2. S \in SUBSET Nat /\ S # {}
    BY <1>1
  <1>3. \E x \in S : \A y \in S : x >= y
    BY <1>1
  <1> HIDE DEF S
  <1>4. Max(S) \in S
    BY <1>3 DEF Max
  <1>5. QED
    BY <1>2, <1>4 DEF NewIdentity, S

LEMMA FirstIdentity ==
  ASSUME NEW r \in [file : Nat, synced : Nat, served : Nat]
  PROVE  r = [file |-> 1, synced |-> 1, served |-> 1] <=> r.file = 1 /\ r.synced = 1 /\ r.served = 1
  OBVIOUS

LEMMA StartKeepsIdentity ==
  ASSUME Shapes, IdentityOK, UNCHANGED setting, Start
  PROVE  IdentityOK' /\ identity' \in [file : Nat, synced : Nat, served : Nat]
  <1>1. /\ up = "down" /\ identity.file # 0 /\ up' = "up" /\ UNCHANGED faults
        /\ identity' = [identity EXCEPT !.served = identity.file, !.synced = @]
    BY DEF Start, Serving
  <1>2. identity \in [file : Nat, synced : Nat, served : Nat] /\ faults \in Nat /\ Prepared' = Prepared
    BY SameSetting DEF Shapes
  <1>3. /\ identity' \in [file : Nat, synced : Nat, served : Nat]
        /\ identity'.file = identity.file /\ identity'.synced = identity.synced /\ identity'.served = identity.file
    BY <1>1, <1>2
  <1>4. Prepared => identity' = [file |-> 1, synced |-> 1, served |-> 1]
    BY <1>2, <1>3, FirstIdentity DEF IdentityOK
  <1>5. ~Prepared => faults # 0
    BY <1>1 DEF IdentityOK
  <1>6. QED
    BY <1>1, <1>2, <1>3, <1>4, <1>5 DEF IdentityOK

LEMMA CreateKeepsIdentity ==
  ASSUME Shapes, IdentityOK, UNCHANGED setting, CreateIdentity
  PROVE  IdentityOK' /\ identity' \in [file : Nat, synced : Nat, served : Nat]
  <1>1. /\ up = "down" /\ identity.file = 0 /\ up' = "creating" /\ UNCHANGED faults
        /\ identity' = [identity EXCEPT !.file = NewIdentity]
    BY DEF CreateIdentity
  <1>2. identity \in [file : Nat, synced : Nat, served : Nat] /\ NewIdentity \in Nat /\ Prepared' = Prepared
    BY NewIdentityTyped, SameSetting DEF Shapes
  <1>3. identity' \in [file : Nat, synced : Nat, served : Nat] /\ identity'.served = identity.served
    BY <1>1, <1>2
  <1>4. ~Prepared
    BY <1>1 DEF IdentityOK
  <1>5. faults <= 1 => identity.served = 0
    BY <1>1 DEF IdentityOK
  <1>6. QED
    BY <1>1, <1>2, <1>3, <1>4, <1>5 DEF IdentityOK

LEMMA SyncKeepsIdentity ==
  ASSUME Shapes, IdentityOK, UNCHANGED setting, SyncIdentity
  PROVE  IdentityOK' /\ identity' \in [file : Nat, synced : Nat, served : Nat]
  <1>1. /\ up = "creating" /\ up' = "up" /\ UNCHANGED faults
        /\ identity' = [identity EXCEPT !.served = identity.file, !.synced = identity.file]
    BY DEF SyncIdentity, Serving
  <1>2. identity \in [file : Nat, synced : Nat, served : Nat] /\ Prepared' = Prepared
    BY SameSetting DEF Shapes
  <1>3. /\ identity' \in [file : Nat, synced : Nat, served : Nat]
        /\ identity'.file = identity.file /\ identity'.synced = identity.file /\ identity'.served = identity.file
    BY <1>1, <1>2
  <1>4. ~Prepared
    BY <1>1 DEF IdentityOK
  <1>5. QED
    BY <1>1, <1>2, <1>3, <1>4 DEF IdentityOK

LEMMA DeathKeepsIdentity ==
  ASSUME Shapes, IdentityOK, UNCHANGED setting, Stop \/ PowerFailure
  PROVE  IdentityOK' /\ identity' \in [file : Nat, synced : Nat, served : Nat]
  <1>1. identity \in [file : Nat, synced : Nat, served : Nat] /\ faults \in Nat /\ Prepared' = Prepared
    BY SameSetting DEF Shapes
  <1>2. faults' = faults + 1 /\ up' = "down"
    BY DEF Stop, PowerFailure, Dead
  <1>3. faults' # 0 /\ (faults' <= 1 => faults = 0)
    BY <1>1, <1>2
  <1>4. CASE identity' = identity
    BY <1>1, <1>2, <1>3, <1>4 DEF IdentityOK
  <1>5. CASE \E id \in {identity.file, identity.synced} : identity' = [identity EXCEPT !.file = id, !.synced = id]
    <2>1. PICK id \in {identity.file, identity.synced} : identity' = [identity EXCEPT !.file = id, !.synced = id]
      BY <1>5
    <2>2. /\ identity' \in [file : Nat, synced : Nat, served : Nat]
          /\ identity'.file = id /\ identity'.synced = id /\ identity'.served = identity.served
      BY <1>1, <2>1
    <2>3. Prepared => identity' = [file |-> 1, synced |-> 1, served |-> 1]
      BY <1>1, <2>2, FirstIdentity DEF IdentityOK
    <2>4. (faults' <= 1 /\ identity.served # 0) => id = identity.served
      BY <1>3 DEF IdentityOK
    <2>5. QED
      BY <1>1, <1>2, <1>3, <2>2, <2>3, <2>4 DEF IdentityOK
  <1>6. QED
    BY <1>4, <1>5 DEF Stop, PowerFailure

\* A step that is not about the identity leaves it alone.
LEMMA ThreadsRestIdentity ==
  ASSUME Shapes, NEW t \in Threads, Serve(t)
  PROVE  IdentityRests
  BY DEF Serve, BeginPut, BeginDelete, EnsureDirectory, SyncNamespace, CheckExisting, Resync, WriteTemporary,
         WriteFails, Rename, SyncParent, SyncFails, AckPut, RemoveFile, SyncRemoved, IdentityRests

LEMMA IdentityNext ==
  ASSUME Shapes, IdentityOK, [Next]_vars
  PROVE  /\ IdentityOK' /\ identity' \in [file : Nat, synced : Nat, served : Nat]
         /\ (Prepared \/ faults' <= 1) /\ identity.served # 0 => identity'.served = identity.served
  <1>1. identity \in [file : Nat, synced : Nat, served : Nat]
    BY DEF Shapes
  <1>2. CASE IdentityRests /\ UNCHANGED setting
    BY <1>1, <1>2, RestsKeepIdentity DEF IdentityRests
  <1>3. CASE UNCHANGED setting /\ Start
    <2>1. identity'.served = identity.file /\ faults' = faults
      BY <1>1, <1>3 DEF Start, Serving
    <2>2. QED
      BY <1>3, <2>1, StartKeepsIdentity DEF IdentityOK
  <1>4. CASE UNCHANGED setting /\ CreateIdentity
    <2>1. identity'.served = identity.served
      BY <1>1, <1>4 DEF CreateIdentity
    <2>2. QED
      BY <1>4, <2>1, CreateKeepsIdentity
  <1>5. CASE UNCHANGED setting /\ SyncIdentity
    <2>1. up = "creating" /\ faults' = faults
      BY <1>5 DEF SyncIdentity
    <2>2. QED
      BY <1>5, <2>1, SyncKeepsIdentity DEF IdentityOK
  <1>6. CASE UNCHANGED setting /\ (Stop \/ PowerFailure)
    <2>1. identity'.served = identity.served
      BY <1>1, <1>6 DEF Stop, PowerFailure
    <2>2. QED
      BY <1>6, <2>1, DeathKeepsIdentity
  <1>7. QED
    <2>1. CASE UNCHANGED vars
      BY <1>2, <2>1 DEF vars, IdentityRests
    <2>2. CASE Next
      <3>1. UNCHANGED setting
        BY <2>2 DEF Next
      <3>2. CASE \E t \in Threads : Serve(t)
        BY <1>2, <3>1, <3>2, ThreadsRestIdentity
      <3>3. CASE BeginList \/ NextPage \/ EndList \/ \E o \in Objects : Rot(o)
        BY <1>2, <3>1, <3>3 DEF BeginList, NextPage, EndList, Rot, IdentityRests
      <3>4. QED
        BY <1>3, <1>4, <1>5, <1>6, <2>2, <3>1, <3>2, <3>3 DEF Next, Activity
    <2>3. QED
      BY <2>1, <2>2

-----------------------------------------------------------------------------
(* Listings.                                                               *)

\* Objects that were there stay, and the listing does not move.
ListRests == list' = list /\ Present \subseteq Present'

FirstPage(R) == {o \in R : Cardinality({p \in R : p < o}) < Page}

LEMMA PageFacts ==
  ASSUME NEW R \in SUBSET Objects, FirstPage(R) # R
  PROVE  /\ FirstPage(R) \subseteq R /\ Max(FirstPage(R)) \in FirstPage(R)
         /\ \A o \in R : o <= Max(FirstPage(R)) => o \in FirstPage(R)
  <1> DEFINE below(o) == {p \in R : p < o}
             page == {o \in R : Cardinality({p \in R : p < o}) < Page}
  <1>0. FirstPage(R) = page /\ page # R
    BY DEF FirstPage
  <1>1. R \in SUBSET Nat /\ IsFiniteSet(R) /\ Page \in Nat \ {0}
    BY StoreAssumption, FS_Subset
  <1>2. page \subseteq R /\ R # {}
    BY <1>0
  <1>3. \A o \in R : IsFiniteSet(below(o)) /\ Cardinality(below(o)) \in Nat
    BY <1>1, FS_Subset, FS_CardinalityType
  <1>4. page # {}
    <2>1. PICK m \in R : \A y \in R : m <= y
      BY <1>1, <1>2, HasLeast
    <2>2. below(m) = {}
      <3>1. \A p \in R : p \in Nat
        BY <1>1
      <3>2. \A p \in R : ~(p < m)
        BY <2>1, <3>1
      <3>3. QED
        BY <3>2
    <2>3. Cardinality(below(m)) = 0
      BY <2>2, FS_EmptySet
    <2>4. QED
      BY <1>1, <2>1, <2>3
  <1>5. Max(page) \in page
    <2>1. page \in SUBSET Nat /\ IsFiniteSet(page)
      BY <1>1, <1>2, FS_Subset
    <2>2. QED
      BY <1>4, <2>1, HasGreatest
  <1>6. ASSUME NEW o \in R, o <= Max(page) PROVE o \in page
    <2>1. Max(page) \in R /\ Cardinality(below(Max(page))) < Page
      BY <1>5
    <2>2. below(o) \subseteq below(Max(page))
      <3> DEFINE m == Max(page)
      <3>1. \A p \in R : p \in Nat
        BY <1>1
      <3>2. o <= m /\ m \in Nat /\ o \in Nat
        BY <1>6, <2>1, <3>1
      <3> HIDE DEF m
      <3>3. \A p \in R : p < o => p < m
        BY <3>1, <3>2
      <3>4. below(o) \subseteq below(m)
        BY <3>3
      <3>5. QED
        BY <3>4 DEF m
    <2>3. Cardinality(below(o)) <= Cardinality(below(Max(page)))
      <3> HIDE DEF below
      <3>1. QED
        BY <1>3, <2>1, <2>2, FS_Subset
    <2>4. Cardinality(below(o)) < Page
      <3> DEFINE a == Cardinality(below(o))
                 b == Cardinality(below(Max(page)))
      <3>1. a \in Nat /\ b \in Nat /\ a <= b /\ b < Page
        BY <1>3, <2>1, <2>3
      <3> HIDE DEF a, b
      <3>2. a < Page
        BY <1>1, <3>1
      <3>3. QED
        BY <3>2 DEF a
    <2>5. QED
      BY <2>4
  <1>7. QED
    BY <1>0, <1>2, <1>5, <1>6

\* What a page adds to the listing.
LEMMA NextPageKeepsList ==
  ASSUME Shapes, ListOK, NextPage
  PROVE  ListOK' /\ list' \in Listings
  <1> DEFINE rest == {o \in Present : Beyond(o, list.after)}
             page == {o \in rest : Cardinality({p \in rest : p < o}) < Page}
             got == list.got \cup page
             pc == IF page = rest THEN "done" ELSE "page"
             after == IF page = rest THEN -1 ELSE Max(page)
  <1>1. list.pc = "page" /\ Present' = Present
    BY DEF NextPage, diskVars, Present
  <1>2. list' = [list EXCEPT !.got = got, !.pc = pc, !.after = after]
    BY DEF NextPage
  <1>3. list \in Listings /\ Present \subseteq Objects
    BY DEF Shapes, Present
  <1>4. rest \in SUBSET Objects /\ page \subseteq Objects
    BY <1>3
  <1>5. \A o \in list.stable : o \in Present /\ (o \in rest \/ o \in list.got)
    BY <1>1 DEF ListOK, Beyond
  <1>6. page # rest => /\ Max(page) \in page
                       /\ \A o \in rest : o <= Max(page) => o \in page
    <2> DEFINE R == rest
               G == page
    <2>1. R \in SUBSET Objects /\ G = FirstPage(R)
      BY <1>4 DEF FirstPage
    <2> HIDE DEF R, G
    <2>2. G # R => Max(G) \in G /\ \A o \in R : o <= Max(G) => o \in G
      BY <2>1, PageFacts
    <2>3. QED
      BY <2>2 DEF R, G
  <1>7. \A o \in Objects : o \in Nat
    BY StoreAssumption
  <1> HIDE DEF rest, page
  <1>8. after \in Int
    BY <1>4, <1>6, <1>7
  <1>9. /\ list' \in Listings /\ list'.got = got /\ list'.pc = pc /\ list'.after = after
        /\ list'.stable = list.stable
    <2> HIDE DEF after
    <2>1. pc \in {"idle", "page", "done"} /\ got \in SUBSET Objects
      BY <1>3, <1>4 DEF Listings
    <2> HIDE DEF pc, got
    <2>2. QED
      BY <1>2, <1>3, <1>8, <2>1 DEF Listings
  <1>10. page = rest => list.stable \subseteq got
    BY <1>5
  <1>11. ASSUME page # rest, NEW o \in list.stable PROVE o > Max(page) \/ o \in got
    <2> DEFINE m == Max(page)
    <2>1. o \in Nat /\ m \in Nat
      BY <1>4, <1>6, <1>7, <1>11, <1>3, <1>5
    <2>2. o \in rest /\ o <= m => o \in page
      BY <1>6, <1>11
    <2> HIDE DEF m
    <2>3. o > m \/ o \in got
      BY <1>5, <2>1, <2>2
    <2>4. QED
      BY <2>3 DEF m
  <1>12. QED
    BY <1>1, <1>5, <1>9, <1>10, <1>11 DEF ListOK

LEMMA RestsKeepList ==
  ASSUME Shapes, ListOK, ListRests
  PROVE  ListOK' /\ list' \in Listings
  BY DEF ListOK, ListRests, Shapes

LEMMA NoListingOK ==
  ASSUME list' = NoListing
  PROVE  ListOK' /\ list' \in Listings
  BY DEF ListOK, NoListing, Listings

\* A step that is not about the listing.
LEMMA ThreadsRestList ==
  ASSUME Shapes, NEW t \in Threads, Serve(t), ~RemoveFile(t)
  PROVE  ListRests
  <1>1. CASE Rename(t)
    <2>1. list' = list /\ files' = [files EXCEPT ![thread[t].obj] = "good"]
      BY <1>1 DEF Rename
    <2>2. QED
      BY <2>1 DEF ListRests, Present, Shapes, Contents
  <1>2. CASE files' = files /\ list' = list
    BY <1>2 DEF ListRests, Present
  <1>3. QED
    BY <1>1, <1>2 DEF Serve, BeginPut, BeginDelete, EnsureDirectory, SyncNamespace, CheckExisting, Resync,
         WriteTemporary, WriteFails, SyncParent, SyncFails, AckPut, SyncRemoved, diskVars

LEMMA RemoveKeepsList ==
  ASSUME Shapes, ListOK, NEW t \in Threads, RemoveFile(t)
  PROVE  ListOK' /\ list' \in Listings
  <1>1. CASE UNCHANGED <<files, list>>
    BY <1>1, RestsKeepList DEF ListRests, Present
  <1>2. CASE ~UNCHANGED <<files, list>>
    <2> DEFINE o == thread[t].obj
    <2>1. /\ files' = [files EXCEPT ![o] = "absent"]
          /\ list' = [list EXCEPT !.stable = list.stable \ {o}]
      BY <1>2 DEF RemoveFile
    <2>2. files \in Contents /\ list \in Listings
      BY DEF Shapes
    <2> HIDE DEF o
    <2>3. /\ list' \in Listings /\ list'.pc = list.pc /\ list'.after = list.after /\ list'.got = list.got
          /\ list'.stable = list.stable \ {o}
      BY <2>1, <2>2 DEF Listings
    <2>4. Present \ {o} \subseteq Present'
      BY <2>1, <2>2 DEF Present, Contents
    <2>5. QED
      BY <2>3, <2>4 DEF ListOK
  <1>3. QED
    BY <1>1, <1>2

LEMMA ListNext ==
  ASSUME Shapes, ListOK, [Next]_vars
  PROVE  ListOK' /\ list' \in Listings
  <1>1. CASE ListRests
    BY <1>1, RestsKeepList
  <1>2. CASE UNCHANGED vars
    BY <1>1, <1>2 DEF vars, ListRests, Present
  <1>3. CASE \E t \in Threads : Serve(t)
    BY <1>1, <1>3, ThreadsRestList, RemoveKeepsList
  <1>4. CASE Start \/ CreateIdentity \/ SyncIdentity
    BY <1>1, <1>4 DEF Start, CreateIdentity, SyncIdentity, diskVars, ListRests, Present
  <1>5. CASE BeginList
    <2>1. list' = [pc |-> "page", after |-> -1, got |-> {}, stable |-> Present] /\ Present' = Present
      BY <1>5 DEF BeginList, diskVars, Present
    <2>2. Present \subseteq Objects /\ \A o \in Present : o > -1
      <3>1. Objects \subseteq Nat
        BY StoreAssumption
      <3>2. QED
        BY <3>1 DEF Present
    <2> HIDE DEF Present
    <2>3. list' \in Listings
      BY <2>1, <2>2 DEF Listings
    <2>4. QED
      BY <2>1, <2>2, <2>3 DEF ListOK
  <1>6. CASE NextPage
    BY <1>6, NextPageKeepsList
  <1>7. CASE EndList \/ Stop \/ PowerFailure
    BY <1>7, NoListingOK DEF EndList, Stop, PowerFailure, Dead
  <1>8. ASSUME NEW o \in Objects, Rot(o) PROVE ListRests
    <2>1. list' = list /\ files' = [files EXCEPT ![o] = "bad"]
      BY <1>8 DEF Rot
    <2>2. QED
      BY <2>1 DEF ListRests, Present, Shapes, Contents
  <1>9. QED
    BY <1>1, <1>2, <1>3, <1>4, <1>5, <1>6, <1>7, <1>8 DEF Next, Activity

-----------------------------------------------------------------------------
(* Files, directories and the PUTs at work.                                *)

\* What is good stays good, and what is safe stays safe.
Keeps == \A o \in Objects : (Good(o) => Good(o)') /\ (Safe(o) => Safe(o)')

ThreadsOK ==
    /\ thread \in [Threads -> ThreadRows]
    /\ \A t \in Threads : thread[t].pc # "idle" => thread[t].obj \in Objects

\* A thread's next request, as it stands after the step.
RowOK(r) == r \in ThreadRows /\ (r.pc # "idle" => r.obj \in Objects) /\ PutAt(r)

LEMMA OneThread ==
  ASSUME Shapes, PutsOK, UNCHANGED setting, Keeps, NEW t \in Threads, NEW r,
         thread' = [thread EXCEPT ![t] = r], RowOK(r)'
  PROVE  ThreadsOK' /\ PutsOK'
  <1>1. Threads' = Threads
    BY SameSetting
  <1>2. thread \in [Threads -> ThreadRows] /\ r \in ThreadRows
    BY DEF Shapes, RowOK
  <1>3. thread' \in [Threads -> ThreadRows]
    BY <1>2
  <1>4. ASSUME NEW u \in Threads PROVE RowOK(thread[u])'
    <2>1. CASE u = t
      <3>1. thread'[u] = r
        BY <1>2, <2>1
      <3>2. QED
        BY <3>1 DEF RowOK, PutAt, Good, Safe
    <2>2. CASE u # t
      <3> DEFINE q == thread[u]
      <3>1. thread'[u] = q /\ q \in ThreadRows /\ (q.pc # "idle" => q.obj \in Objects) /\ PutAt(q)
        BY <1>2, <2>2 DEF Shapes, PutsOK
      <3>2. PICK c : c = q
        OBVIOUS
      <3>3. c \in ThreadRows /\ (c.pc # "idle" => c.obj \in Objects) /\ PutAt(c)
        BY <3>1, <3>2
      <3>4. RowOK(c)'
        BY <3>3 DEF RowOK, PutAt, Keeps, Good, Safe
      <3>5. thread'[u] = c
        BY <3>1, <3>2
      <3>6. QED
        BY <3>4, <3>5 DEF RowOK, PutAt, Good, Safe
    <2>3. QED
      BY <2>1, <2>2
  <1>5. QED
    BY <1>1, <1>3, <1>4 DEF ThreadsOK, PutsOK, RowOK

\* The disk after a step of a thread that does not remove a file.
LEMMA SyncedInKeeps ==
  ASSUME Shapes, NEW d, files' = files, synced' = SyncedIn(d)
  PROVE  Keeps /\ synced' \in Contents /\ \A o \in Objects : DirOf[o] = d => synced'[o] = files[o]
  BY DEF Shapes, Contents, SyncedIn, Keeps, Good, Safe

LEMMA RenameKeeps ==
  ASSUME Shapes, NEW t \in Threads, Rename(t)
  PROVE  Keeps /\ files' \in Contents /\ synced' = synced /\ files'[thread[t].obj] = "good"
  <1> DEFINE o == thread[t].obj
  <1>1. files \in Contents /\ o \in Objects
    BY DEF Shapes, Rename
  <1>2. files' = [files EXCEPT ![o] = "good"] /\ synced' = synced
    BY DEF Rename
  <1> HIDE DEF o
  <1>3. files' \in Contents /\ files'[o] = "good" /\ \A p \in Objects : files[p] = "good" => files'[p] = "good"
    BY <1>1, <1>2 DEF Contents
  <1>4. QED
    BY <1>2, <1>3 DEF Keeps, Good, Safe, o

LEMMA DiskStep ==
  ASSUME Shapes, NEW t \in Threads, Serve(t), ~RemoveFile(t)
  PROVE  Keeps /\ files' \in Contents /\ synced' \in Contents
  <1>1. files \in Contents /\ synced \in Contents
    BY DEF Shapes
  <1>2. CASE Resync(t) \/ SyncParent(t) \/ SyncRemoved(t)
    <2>1. files' = files /\ \E d : synced' = SyncedIn(d)
      BY <1>2 DEF Resync, SyncParent, SyncRemoved
    <2>2. QED
      BY <1>1, <2>1, SyncedInKeeps
  <1>3. CASE Rename(t)
    BY <1>1, <1>3, RenameKeeps
  <1>4. CASE files' = files /\ synced' = synced
    BY <1>1, <1>4 DEF Keeps, Good, Safe
  <1>5. QED
    BY <1>2, <1>3, <1>4 DEF Serve, BeginPut, BeginDelete, EnsureDirectory, SyncNamespace, CheckExisting,
         WriteTemporary, WriteFails, SyncFails, AckPut, diskVars

\* A request moves on, with bytes of another file noted.
LEMMA MovedRow ==
  ASSUME Shapes, NEW t \in Threads, thread[t].pc # "idle", NEW pc \in Steps
  PROVE  /\ [thread[t] EXCEPT !.pc = pc] \in ThreadRows
         /\ [thread[t] EXCEPT !.pc = pc].pc = pc
         /\ [thread[t] EXCEPT !.pc = pc].obj = thread[t].obj /\ thread[t].obj \in Objects
         /\ [thread[t] EXCEPT !.pc = pc].undone = thread[t].undone
         /\ Goto(t, pc) => thread' = [thread EXCEPT ![t] = [thread[t] EXCEPT !.pc = pc]]
  BY DEF Shapes, ThreadRows, Goto

\* The request is over.
LEMMA IdleRow ==
  ASSUME Shapes, PutsOK, UNCHANGED setting, Keeps, NEW t \in Threads, Done(t)
  PROVE  ThreadsOK' /\ PutsOK'
  <1>1. Idle \in ThreadRows /\ Idle.pc = "idle"
    BY DEF Idle, ThreadRows, Steps
  <1>2. PICK r : r = Idle
    OBVIOUS
  <1>3. RowOK(r)' /\ thread' = [thread EXCEPT ![t] = r]
    BY <1>1, <1>2 DEF RowOK, PutAt, Done
  <1>4. QED
    BY <1>3, OneThread

\* The request moves on, and the next step may rely on what was done.
LEMMA MoveOn ==
  ASSUME Shapes, PutsOK, UNCHANGED setting, Keeps, NEW t \in Threads, thread[t].pc # "idle",
         NEW pc \in Steps, Goto(t, pc),
         ~thread[t].undone => /\ pc \in {"resync", "sync_parent"} => files'[thread[t].obj] = "good"
                              /\ pc = "ack" => files'[thread[t].obj] = "good" /\ synced'[thread[t].obj] = "good"
  PROVE  ThreadsOK' /\ PutsOK'
  <1>1. PICK r : r = [thread[t] EXCEPT !.pc = pc]
    OBVIOUS
  <1>2. /\ r \in ThreadRows /\ r.pc = pc /\ r.obj = thread[t].obj /\ r.obj \in Objects
        /\ r.undone = thread[t].undone /\ thread' = [thread EXCEPT ![t] = r]
    BY <1>1, MovedRow
  <1>3. RowOK(r)'
    BY <1>2 DEF RowOK, PutAt, Good, Safe
  <1>4. QED
    BY <1>2, <1>3, OneThread

LEMMA BeginOK ==
  ASSUME Shapes, PutsOK, UNCHANGED setting, Keeps, NEW t \in Threads, NEW o \in Objects,
         BeginPut(t, o) \/ BeginDelete(t, o)
  PROVE  ThreadsOK' /\ PutsOK'
  <1>1. Size[o] \in Nat /\ "dirs" \in Steps /\ "remove" \in Steps
    BY StoreAssumption DEF Steps
  <1>2. PICK r : /\ r \in {[Idle EXCEPT !.pc = "dirs", !.obj = o],
                           [Idle EXCEPT !.pc = "remove", !.obj = o, !.bytes = Size[o]]}
                 /\ thread' = [thread EXCEPT ![t] = r]
    BY DEF BeginPut, BeginDelete
  <1>3. r \in ThreadRows /\ r.obj = o /\ r.pc \in {"dirs", "remove"}
    <2> DEFINE put == [Idle EXCEPT !.pc = "dirs", !.obj = o]
               delete == [Idle EXCEPT !.pc = "remove", !.obj = o, !.bytes = Size[o]]
    <2>1. put \in ThreadRows /\ put.obj = o /\ put.pc = "dirs"
      BY <1>1 DEF Idle, ThreadRows
    <2>2. delete \in ThreadRows /\ delete.obj = o /\ delete.pc = "remove"
      BY <1>1 DEF Idle, ThreadRows
    <2>3. r = put \/ r = delete
      BY <1>2
    <2> HIDE DEF put, delete
    <2>4. QED
      BY <2>1, <2>2, <2>3
  <1>4. RowOK(r)'
    BY <1>3 DEF RowOK, PutAt
  <1>5. QED
    BY <1>2, <1>4, OneThread

LEMMA TwoFields ==
  ASSUME NEW S, NEW f \in [S -> ThreadRows], NEW t \in S, NEW p, NEW b
  PROVE  [f EXCEPT ![t].pc = p, ![t].bytes = b] = [f EXCEPT ![t] = [f[t] EXCEPT !.pc = p, !.bytes = b]]
  OBVIOUS

LEMMA CheckedOK ==
  ASSUME Shapes, PutsOK, UNCHANGED setting, Keeps, NEW t \in Threads, CheckExisting(t)
  PROVE  ThreadsOK' /\ PutsOK'
  <1> DEFINE o == thread[t].obj
             pc == IF files[o] = "good" THEN "resync" ELSE "write"
             b == IF files[o] = "bad" THEN Size[o] ELSE 0
  <1>1. o \in Objects /\ thread[t] \in ThreadRows /\ pc \in Steps /\ b \in Nat
    BY StoreAssumption DEF Shapes, CheckExisting, Steps
  <1>2. thread' = [thread EXCEPT ![t] = [thread[t] EXCEPT !.pc = pc, !.bytes = b]] /\ files' = files
    <2>1. thread' = [thread EXCEPT ![t].pc = pc, ![t].bytes = b] /\ files' = files
      BY DEF CheckExisting, AfterGood, diskVars
    <2>2. thread \in [Threads -> ThreadRows]
      BY DEF Shapes
    <2> HIDE DEF pc, b
    <2>3. QED
      BY <2>1, <2>2, TwoFields
  <1>3. pc = "resync" => files'[o] = "good"
    BY <1>2
  <1>4. pc \in {"resync", "write"}
    OBVIOUS
  <1> HIDE DEF pc, b
  <1>5. PICK r : r = [thread[t] EXCEPT !.pc = pc, !.bytes = b]
    OBVIOUS
  <1>6. r \in ThreadRows /\ r.pc = pc /\ r.obj = o
    BY <1>1, <1>5 DEF ThreadRows
  <1>7. RowOK(r)'
    BY <1>1, <1>3, <1>4, <1>6 DEF RowOK, PutAt, Good, Safe
  <1>8. QED
    BY <1>2, <1>5, <1>7, OneThread

\* The step of a thread that ends its request or moves it on.
LEMMA ServeKeepsPuts ==
  ASSUME Shapes, PutsOK, UNCHANGED setting, NEW t \in Threads, Serve(t), ~RemoveFile(t)
  PROVE  ThreadsOK' /\ PutsOK'
  <1>1. Keeps
    BY DiskStep
  <1>2. ASSUME NEW o \in Works[t], BeginPut(t, o) \/ BeginDelete(t, o) PROVE ThreadsOK' /\ PutsOK'
    <2>1. o \in Objects
      BY Works0 DEF Shapes
    <2>2. QED
      BY <1>1, <1>2, <2>1, BeginOK
  <1>3. CASE EnsureDirectory(t)
    <2>1. \E pc \in {"check", "sync_namespace"} : Goto(t, pc)
      BY <1>3 DEF EnsureDirectory
    <2>2. PICK pc \in {"check", "sync_namespace"} : Goto(t, pc)
      BY <2>1
    <2>3. thread[t].pc # "idle" /\ pc \in Steps /\ pc \notin {"resync", "sync_parent", "ack"}
      BY <1>3, <2>2 DEF EnsureDirectory, Steps
    <2>4. QED
      BY <1>1, <2>2, <2>3, MoveOn
  <1>4. CASE SyncNamespace(t)
    <2>1. thread[t].pc # "idle" /\ Goto(t, "check") /\ "check" \in Steps
      BY <1>4 DEF SyncNamespace, Steps
    <2>2. QED
      BY <1>1, <2>1, MoveOn
  <1>5. CASE CheckExisting(t)
    BY <1>1, <1>5, CheckedOK
  <1>6. CASE Resync(t) \/ SyncParent(t)
    <2> DEFINE o == thread[t].obj
    <2>1. /\ thread[t].pc \in {"resync", "sync_parent"} /\ Goto(t, "ack") /\ "ack" \in Steps
          /\ files' = files /\ synced' = SyncedIn(DirOf[o])
      BY <1>6 DEF Resync, SyncParent, Steps
    <2>2. o \in Objects /\ (~thread[t].undone => files[o] = "good")
      BY <2>1 DEF Shapes, PutsOK, PutAt, Good
    <2>3. synced'[o] = files[o]
      BY <2>1, <2>2, SyncedInKeeps
    <2>4. QED
      BY <1>1, <2>1, <2>2, <2>3, MoveOn
  <1>7. CASE WriteTemporary(t)
    <2>1. thread[t].pc # "idle" /\ Goto(t, "rename") /\ "rename" \in Steps
      BY <1>7 DEF WriteTemporary, Steps
    <2>2. QED
      BY <1>1, <2>1, MoveOn
  <1>8. CASE Rename(t)
    <2>1. thread[t].pc # "idle" /\ Goto(t, "sync_parent") /\ "sync_parent" \in Steps
      BY <1>8 DEF Rename, Steps
    <2>2. files'[thread[t].obj] = "good"
      BY <1>8, RenameKeeps
    <2>3. QED
      BY <1>1, <2>1, <2>2, MoveOn
  <1>9. CASE WriteFails(t) \/ SyncFails(t) \/ AckPut(t) \/ SyncRemoved(t)
    <2>1. Done(t)
      BY <1>9 DEF WriteFails, SyncFails, AckPut, SyncRemoved
    <2>2. QED
      BY <1>1, <2>1, IdleRow
  <1>10. QED
    BY <1>2, <1>3, <1>4, <1>5, <1>6, <1>7, <1>8, <1>9 DEF Serve

\* A file is lost: the PUTs that relied on it are marked.
LostFile(o) == \A p \in Objects \ {o} : files'[p] = files[p] /\ synced'[p] = synced[p]

LEMMA UndoneRow ==
  ASSUME Shapes, PutsOK, NEW o \in Objects, LostFile(o), NEW u \in Threads, NEW q, q = Undo(o)[u]
  PROVE  RowOK(q)'
  <1> DEFINE hit == thread[u].obj = o /\ thread[u].pc \in {"resync", "sync_parent", "ack"}
  <1>1. PICK r : r = thread[u]
    OBVIOUS
  <1>2. q = IF hit THEN [r EXCEPT !.undone = TRUE] ELSE r
    BY <1>1 DEF Undo
  <1>3. r \in ThreadRows /\ (r.pc # "idle" => r.obj \in Objects) /\ PutAt(r)
    BY <1>1 DEF Shapes, PutsOK
  <1>4. q \in ThreadRows /\ q.pc = r.pc /\ q.obj = r.obj /\ (hit => q.undone) /\ (~hit => q = r)
    BY <1>2, <1>3 DEF ThreadRows
  <1>5. CASE hit
    BY <1>3, <1>4, <1>5 DEF RowOK, PutAt
  <1>6. CASE ~hit
    BY <1>1, <1>3, <1>4, <1>6 DEF RowOK, PutAt, Good, Safe, LostFile
  <1>7. QED
    BY <1>5, <1>6

\* The rows that a removal or rot leaves, one by one.
LEMMA RowsKeepPuts ==
  ASSUME UNCHANGED setting, thread' = [u \in Threads |-> thread'[u]],
         \A u \in Threads : \E q : thread'[u] = q /\ RowOK(q)'
  PROVE  ThreadsOK' /\ PutsOK'
  <1>1. Threads' = Threads
    BY SameSetting
  <1>2. ASSUME NEW u \in Threads PROVE RowOK(thread[u])'
    <2>1. PICK q : thread'[u] = q /\ RowOK(q)'
      OBVIOUS
    <2>2. QED
      BY <2>1 DEF RowOK, PutAt, Good, Safe
  <1>3. thread' \in [Threads -> ThreadRows]
    BY <1>2 DEF RowOK
  <1>4. QED
    BY <1>1, <1>2, <1>3 DEF ThreadsOK, PutsOK, RowOK

LEMMA RotKeeps ==
  ASSUME Shapes, PutsOK, UNCHANGED setting, NEW o \in Objects, Rot(o)
  PROVE  /\ LostFile(o) /\ files' \in Contents /\ synced' \in Contents
         /\ ThreadsOK' /\ PutsOK'
  <1>1. files \in Contents /\ synced \in Contents
    BY DEF Shapes
  <1>2. LostFile(o) /\ files' \in Contents /\ synced' \in Contents
    BY <1>1 DEF Rot, LostFile, Contents
  <1>3. thread' = Undo(o)
    BY DEF Rot
  <1>4. \A u \in Threads : \E q : thread'[u] = q /\ RowOK(q)'
    BY <1>2, <1>3, UndoneRow
  <1>5. thread' = [u \in Threads |-> thread'[u]]
    BY <1>3 DEF Undo
  <1>6. QED
    BY <1>2, <1>4, <1>5, RowsKeepPuts

LEMMA RemoveKeepsPuts ==
  ASSUME Shapes, PutsOK, UNCHANGED setting, NEW t \in Threads, RemoveFile(t), files[thread[t].obj] # "absent"
  PROVE  /\ LostFile(thread[t].obj) /\ files' \in Contents /\ synced' = synced
         /\ ThreadsOK' /\ PutsOK'
  <1>1. PICK o \in Objects : o = thread[t].obj
    BY DEF Shapes, RemoveFile
  <1>2. /\ files' = [files EXCEPT ![o] = "absent"] /\ synced' = synced
        /\ thread' = [Undo(o) EXCEPT ![t].pc = "sync_removed"]
    BY <1>1 DEF RemoveFile
  <1>3. LostFile(o) /\ files' \in Contents
    BY <1>2 DEF LostFile, Shapes, Contents
  <1>4. ASSUME NEW u \in Threads PROVE \E q : thread'[u] = q /\ RowOK(q)'
    <2>1. PICK c : c = Undo(o)[u]
      OBVIOUS
    <2>2. RowOK(c)'
      BY <1>3, <2>1, UndoneRow
    <2>3. CASE u # t
      <3>1. thread'[u] = c
        BY <1>2, <2>1, <2>3 DEF Undo
      <3>2. QED
        BY <2>2, <3>1
    <2>4. CASE u = t
      <3>1. c \in ThreadRows /\ (c.pc # "idle" => c.obj \in Objects)
        BY <2>2 DEF RowOK
      <3>2. PICK q : q = [c EXCEPT !.pc = "sync_removed"]
        OBVIOUS
      <3>3. q \in ThreadRows /\ q.pc = "sync_removed" /\ q.obj = c.obj
        BY <3>1, <3>2 DEF ThreadRows, Steps
      <3>4. thread'[u] = q
        BY <1>2, <2>1, <2>4, <3>2 DEF Undo
      <3>5. c.obj = o
        BY <1>1, <2>1, <2>4 DEF Undo, Shapes, ThreadRows
      <3>6. RowOK(q)'
        BY <3>3, <3>5 DEF RowOK, PutAt
      <3>7. QED
        BY <3>4, <3>6
    <2>5. QED
      BY <2>3, <2>4
  <1>5. thread' = [u \in Threads |-> thread'[u]]
    BY <1>2 DEF Undo
  <1>6. QED
    BY <1>1, <1>2, <1>3, <1>4, <1>5, RowsKeepPuts

-----------------------------------------------------------------------------
(* What was acknowledged stays safe.                                       *)

\* The files' side of the invariant.
FilesOK ==
    /\ files \in Contents /\ synced \in Contents
    /\ acked \subseteq Objects
    /\ AckedOK

LEMMA KeptAcked ==
  ASSUME Shapes, AckedOK, UNCHANGED setting, Keeps, files' \in Contents, synced' \in Contents, acked' = acked
  PROVE  FilesOK'
  <1>1. Prepared' = Prepared /\ acked \subseteq Objects
    BY SameSetting DEF Shapes
  <1>2. QED
    BY <1>1 DEF FilesOK, AckedOK, Keeps, Good, Safe

LEMMA LostAcked ==
  ASSUME Shapes, AckedOK, UNCHANGED setting, NEW o, LostFile(o), files' \in Contents, synced' \in Contents,
         acked' = acked \ {o}
  PROVE  FilesOK'
  <1>1. Prepared' = Prepared /\ acked \subseteq Objects
    BY SameSetting DEF Shapes
  <1>2. QED
    BY <1>1 DEF FilesOK, AckedOK, LostFile, Good, Safe

LEMMA ServeKeepsFiles ==
  ASSUME Shapes, PutsOK, AckedOK, UNCHANGED setting, NEW t \in Threads, Serve(t)
  PROVE  FilesOK' /\ ThreadsOK' /\ PutsOK'
  <1>1. files \in Contents /\ synced \in Contents
    BY DEF Shapes
  <1>2. CASE RemoveFile(t) /\ files[thread[t].obj] = "absent"
    <2>1. Done(t) /\ files' = files /\ synced' = synced /\ acked' = acked
      BY <1>2 DEF RemoveFile
    <2>2. Keeps
      BY <2>1 DEF Keeps, Good, Safe
    <2>3. QED
      BY <1>1, <2>1, <2>2, IdleRow, KeptAcked
  <1>3. CASE RemoveFile(t) /\ files[thread[t].obj] # "absent"
    <2>1. PICK o : o = thread[t].obj
      OBVIOUS
    <2>2. acked' = acked \ {o}
      BY <1>3, <2>1 DEF RemoveFile
    <2>3. LostFile(o) /\ files' \in Contents /\ synced' \in Contents /\ ThreadsOK' /\ PutsOK'
      BY <1>1, <1>3, <2>1, RemoveKeepsPuts
    <2>4. QED
      BY <2>2, <2>3, LostAcked
  <1>4. CASE ~RemoveFile(t)
    <2>1. Keeps /\ files' \in Contents /\ synced' \in Contents
      BY <1>4, DiskStep
    <2>2. ThreadsOK' /\ PutsOK'
      BY <1>4, ServeKeepsPuts
    <2>3. CASE acked' = acked
      BY <2>1, <2>2, <2>3, KeptAcked
    <2>4. CASE acked' # acked
      <3>1. AckPut(t)
        BY <1>4, <2>4 DEF Serve, BeginPut, BeginDelete, EnsureDirectory, SyncNamespace, CheckExisting, Resync,
           WriteTemporary, WriteFails, Rename, SyncParent, SyncFails, SyncRemoved
      <3>2. thread[t].pc = "ack" /\ ~thread[t].undone /\ acked' = acked \cup {thread[t].obj} /\ UNCHANGED diskVars
        BY <2>4, <3>1 DEF AckPut
      <3>3. thread[t].obj \in Objects /\ Safe(thread[t].obj)
        BY <3>2 DEF Shapes, PutsOK, PutAt
      <3>4. Prepared' = Prepared /\ acked \subseteq Objects
        BY SameSetting DEF Shapes
      <3>5. FilesOK'
        BY <1>1, <3>2, <3>3, <3>4 DEF FilesOK, AckedOK, Safe, diskVars
      <3>6. QED
        BY <2>2, <3>5
    <2>5. QED
      BY <2>3, <2>4
  <1>5. QED
    BY <1>2, <1>3, <1>4

\* After a death no thread has a request.
LEMMA DeadKeepsPuts ==
  ASSUME UNCHANGED setting, Dead
  PROVE  ThreadsOK' /\ PutsOK'
  <1>1. Idle \in ThreadRows /\ Idle.pc = "idle"
    BY DEF Idle, ThreadRows, Steps
  <1>2. Threads' = Threads
    BY SameSetting
  <1>3. thread' = [t \in Threads |-> Idle]
    BY DEF Dead
  <1>4. \A t \in Threads : thread'[t] = Idle
    BY <1>3
  <1>5. QED
    BY <1>1, <1>2, <1>3, <1>4 DEF ThreadsOK, PutsOK, PutAt

\* A power failure on a volume whose directories are durable.
LEMMA PowerKeepsFiles ==
  ASSUME Shapes, DirsOK, AckedOK, UNCHANGED setting, PowerFailure
  PROVE  FilesOK' /\ DirsOK'
  <1>1. Prepared' = Prepared /\ acked \subseteq Objects /\ files \in Contents /\ synced \in Contents
    BY SameSetting DEF Shapes
  <1>2. PICK kept, keptDirs :
          /\ keptDirs \subseteq dirs \ syncedDirs
          /\ dirs' = syncedDirs \cup keptDirs
          /\ files' = [o \in Objects |-> IF DirOf[o] \notin dirs' THEN "absent"
                                         ELSE IF o \in kept THEN files[o] ELSE synced[o]]
    BY DEF PowerFailure
  <1>3. synced' = files' /\ syncedDirs' = dirs' /\ acked' = acked
    BY DEF PowerFailure
  <1>4. files' \in Contents
    BY <1>1, <1>2 DEF Contents
  <1>5. Prepared => dirs' = Namespace
    BY <1>2 DEF DirsOK
  <1>6. ASSUME Prepared, NEW o \in acked PROVE files'[o] = "good"
    <2>1. DirOf[o] \in dirs'
      BY <1>1, <1>5, <1>6 DEF Namespace
    <2>2. files[o] = "good" /\ synced[o] = "good"
      BY <1>6 DEF AckedOK, Safe
    <2>3. QED
      BY <1>1, <1>2, <1>6, <2>1, <2>2
  <1>7. FilesOK'
    BY <1>1, <1>3, <1>4, <1>6 DEF FilesOK, AckedOK, Safe
  <1>8. DirsOK'
    BY <1>1, <1>3, <1>5 DEF DirsOK, Namespace
  <1>9. QED
    BY <1>7, <1>8

LEMMA FilesNext ==
  ASSUME StoreInv, [Next]_vars
  PROVE  FilesOK' /\ ThreadsOK' /\ PutsOK'
  <1>1. Shapes /\ PutsOK /\ AckedOK /\ DirsOK /\ UNCHANGED setting
    BY DEF StoreInv, Next, vars
  <1>2. Threads' = Threads /\ files \in Contents /\ synced \in Contents
    BY <1>1, SameSetting DEF Shapes
  <1>3. CASE UNCHANGED <<diskVars, acked, thread>>
    <2>1. Keeps
      BY <1>3 DEF Keeps, Good, Safe, diskVars
    <2>2. FilesOK'
      BY <1>1, <1>2, <1>3, <2>1, KeptAcked DEF diskVars
    <2>3. ThreadsOK' /\ PutsOK'
      BY <1>1, <1>2, <1>3 DEF ThreadsOK, PutsOK, PutAt, Good, Safe, Shapes, diskVars
    <2>4. QED
      BY <2>2, <2>3
  <1>4. CASE \E t \in Threads : Serve(t)
    BY <1>1, <1>4, ServeKeepsFiles
  <1>5. CASE Stop
    <2>1. Dead /\ UNCHANGED diskVars /\ acked' = acked
      BY <1>5 DEF Stop
    <2>2. Keeps
      BY <2>1 DEF Keeps, Good, Safe, diskVars
    <2>3. FilesOK'
      BY <1>1, <1>2, <2>1, <2>2, KeptAcked DEF diskVars
    <2>4. QED
      BY <1>1, <2>1, <2>3, DeadKeepsPuts
  <1>6. CASE PowerFailure
    BY <1>1, <1>6, PowerKeepsFiles, DeadKeepsPuts DEF PowerFailure
  <1>7. ASSUME NEW o \in Objects, Rot(o) PROVE FilesOK' /\ ThreadsOK' /\ PutsOK'
    <2>1. acked' = acked \ {o}
      BY <1>7 DEF Rot
    <2>2. LostFile(o) /\ files' \in Contents /\ synced' \in Contents /\ ThreadsOK' /\ PutsOK'
      BY <1>1, <1>7, RotKeeps
    <2>3. QED
      BY <1>1, <2>1, <2>2, LostAcked
  <1>8. CASE UNCHANGED vars \/ Start \/ CreateIdentity \/ SyncIdentity \/ BeginList \/ NextPage \/ EndList
    BY <1>3, <1>8 DEF vars, diskVars, Start, CreateIdentity, SyncIdentity, BeginList, NextPage, EndList
  <1>9. QED
    BY <1>4, <1>5, <1>6, <1>7, <1>8 DEF Next, Activity

LEMMA DirsNext ==
  ASSUME StoreInv, [Next]_vars
  PROVE  DirsOK'
  <1>1. Shapes /\ AckedOK /\ DirsOK /\ UNCHANGED setting
    BY DEF StoreInv, Next, vars
  <1>2. Prepared' = Prepared
    BY <1>1, SameSetting
  <1>3. CASE UNCHANGED <<dirs, syncedDirs>>
    BY <1>1, <1>2, <1>3 DEF DirsOK, Namespace
  <1>4. ASSUME NEW t \in Threads, EnsureDirectory(t) PROVE DirsOK'
    <2>1. /\ dirs' = dirs \cup {DirOf[thread[t].obj]} /\ syncedDirs' = syncedDirs
          /\ thread[t].pc = "dirs"
      BY <1>4 DEF EnsureDirectory
    <2>2. DirOf[thread[t].obj] \in Namespace
      BY <1>1, <2>1 DEF Shapes, Namespace
    <2>3. QED
      BY <1>1, <1>2, <2>1, <2>2 DEF DirsOK, Namespace
  <1>5. ASSUME NEW t \in Threads, SyncNamespace(t) \/ Resync(t) PROVE DirsOK'
    BY <1>1, <1>2, <1>5 DEF SyncNamespace, Resync, DirsOK, Namespace
  <1>6. CASE PowerFailure
    BY <1>1, <1>6, PowerKeepsFiles
  <1>7. ASSUME NEW t \in Threads, Serve(t) PROVE DirsOK'
    BY <1>3, <1>4, <1>5, <1>7 DEF Serve, BeginPut, BeginDelete, CheckExisting, WriteTemporary, WriteFails, Rename,
       SyncParent, SyncFails, AckPut, RemoveFile, SyncRemoved, diskVars
  <1>8. CASE UNCHANGED vars \/ Start \/ CreateIdentity \/ SyncIdentity \/ BeginList \/ NextPage \/ EndList \/ Stop
             \/ \E o \in Objects : Rot(o)
    BY <1>3, <1>8 DEF vars, diskVars, Start, CreateIdentity, SyncIdentity, BeginList, NextPage, EndList, Stop, Rot
  <1>9. QED
    BY <1>6, <1>7, <1>8 DEF Next, Activity

LEMMA UpNext ==
  ASSUME Shapes, [Next]_vars
  PROVE  up' \in {"down", "creating", "up"} /\ faults' \in Nat /\ setting' \in Settings
  <1>1. setting' = setting /\ setting \in Settings /\ faults \in Nat /\ up \in {"down", "creating", "up"}
    BY DEF Shapes, Next, vars
  <1>2. CASE IdentityRests
    BY <1>1, <1>2 DEF IdentityRests
  <1>3. CASE \E t \in Threads : Serve(t)
    BY <1>2, <1>3, ThreadsRestIdentity
  <1>4. CASE UNCHANGED vars \/ BeginList \/ NextPage \/ EndList \/ \E o \in Objects : Rot(o)
    BY <1>2, <1>4 DEF vars, BeginList, NextPage, EndList, Rot, IdentityRests
  <1>5. CASE Start \/ CreateIdentity \/ SyncIdentity \/ Stop \/ PowerFailure
    <2>1. up' \in {"down", "creating", "up"}
      BY <1>5 DEF Start, CreateIdentity, SyncIdentity, Serving, Stop, PowerFailure, Dead
    <2>2. faults' = faults \/ faults' = faults + 1
      BY <1>5 DEF Start, CreateIdentity, SyncIdentity, Stop, PowerFailure
    <2>3. QED
      BY <1>1, <2>1, <2>2
  <1>6. QED
    BY <1>3, <1>4, <1>5 DEF Next, Activity

LEMMA StoreInit ==
  ASSUME Init
  PROVE  StoreInv
  <1>1. setting \in Settings /\ faults = 0 /\ acked = {} /\ list = NoListing
    BY DEF Init
  <1>2. files \in Contents /\ synced \in Contents
    BY DEF Init, Contents
  <1>3. /\ identity \in [file : Nat, synced : Nat, served : Nat]
        /\ Prepared => identity = [file |-> 1, synced |-> 1, served |-> 1] /\ up = "up"
        /\ ~Prepared => identity.file = 0 /\ identity.served = 0 /\ up = "down"
    BY DEF Init
  <1>4. thread = [t \in Threads |-> Idle] /\ Idle \in ThreadRows /\ Idle.pc = "idle"
    BY DEF Init, Idle, ThreadRows, Steps
  <1>5. NoListing \in Listings /\ NoListing.stable = {} /\ NoListing.pc = "idle"
    BY DEF NoListing, Listings
  <1>6. Shapes
    BY <1>1, <1>2, <1>3, <1>4, <1>5 DEF Shapes
  <1>7. PutsOK
    BY <1>4 DEF PutsOK, PutAt
  <1>8. DirsOK
    BY DEF Init, DirsOK
  <1>9. IdentityOK
    BY <1>1, <1>3 DEF IdentityOK
  <1>10. AckedOK /\ ListOK
    BY <1>1, <1>5 DEF AckedOK, ListOK
  <1>11. QED
    BY <1>6, <1>7, <1>8, <1>9, <1>10 DEF StoreInv

LEMMA StoreNext ==
  ASSUME StoreInv, [Next]_vars
  PROVE  StoreInv'
  <1>1. Shapes /\ IdentityOK /\ ListOK
    BY DEF StoreInv
  <1>2. FilesOK' /\ ThreadsOK' /\ PutsOK'
    BY FilesNext
  <1>3. DirsOK'
    BY DirsNext
  <1>4. IdentityOK' /\ identity' \in [file : Nat, synced : Nat, served : Nat]
    BY <1>1, IdentityNext
  <1>5. ListOK' /\ list' \in Listings
    BY <1>1, ListNext
  <1>6. up' \in {"down", "creating", "up"} /\ faults' \in Nat /\ setting' \in Settings
    BY <1>1, UpNext
  <1>7. Shapes'
    BY <1>2, <1>4, <1>5, <1>6 DEF Shapes, FilesOK, ThreadsOK
  <1>8. QED
    BY <1>2, <1>3, <1>4, <1>5, <1>7 DEF StoreInv, FilesOK

LEMMA StoreInvariant == Spec => []StoreInv
  <1>1. Init => StoreInv
    BY StoreInit
  <1>2. StoreInv /\ [Next]_vars => StoreInv'
    BY StoreNext
  <1>3. QED
    BY <1>1, <1>2, PTL DEF Spec

-----------------------------------------------------------------------------
(* What the store promises.                                                *)

\* On any volume whose prefix directories were durable before, with any number
\* of threads and faults, an object whose PUT was acknowledged is there and
\* would outlive a power failure, until it is deleted or rots: put renames
\* before it syncs and answers only then, and an object that is there already
\* is synced again before it is acknowledged (DurableStore::put).
THEOREM AcknowledgedIsDurable == Spec => []AckedDurable
  <1>1. StoreInv => AckedDurable
    <2>1. SUFFICES ASSUME StoreInv, Prepared, NEW o \in acked
                   PROVE  files[o] = "good" /\ synced[o] = "good" /\ DirOf[o] \in syncedDirs
      BY DEF AckedDurable
    <2>2. o \in Objects /\ Safe(o)
      BY <2>1 DEF StoreInv, Shapes, AckedOK
    <2>3. QED
      BY <2>1, <2>2 DEF StoreInv, DirsOK, Namespace, Safe
  <1>2. QED
    BY <1>1, StoreInvariant, PTL

\* No step changes the identity that the agent serves, on a volume in use or
\* up to the first fault on a new one: load_or_create_incarnation syncs the
\* directory of an identity that it made before it is served.
THEOREM IdentityIsStable == Spec => IdentityStable
  <1>1. StoreInv /\ [Next]_vars
        => [(Prepared \/ faults' <= 1) /\ identity.served # 0 => identity'.served = identity.served]_vars
    BY IdentityNext DEF StoreInv
  <1>2. QED
    BY <1>1, StoreInvariant, PTL DEF Spec, IdentityStable

-----------------------------------------------------------------------------
(* Sums over finite sets: facts that the library has only with operator    *)
(* parameters, by a smallest counterexample.                               *)

\* g adds up f over the subsets of D.
Adds(g, f, D) ==
    /\ g \in [SUBSET D -> Nat] /\ g[{}] = 0
    /\ \A s \in SUBSET D : \A x \in D \ s : g[s \cup {x}] = g[s] + f[x]

\* In a family of finite sets of which one is bad there is a smallest bad one.
LEMMA SmallestBad ==
  ASSUME NEW D, IsFiniteSet(D), NEW B \in SUBSET SUBSET D, B # {}
  PROVE  \E s \in B : \A x \in s : s \ {x} \notin B
  <1> DEFINE counts == {Cardinality(s) : s \in B}
  <1>1. \A s \in B : IsFiniteSet(s) /\ Cardinality(s) \in Nat
    BY FS_Subset, FS_CardinalityType
  <1>2. counts \in SUBSET Nat /\ counts # {}
    BY <1>1, Zenon
  <1>3. PICK n \in counts : \A m \in counts : n <= m
    <2> HIDE DEF counts
    <2> QED
      BY <1>2, HasLeast
  <1>4. PICK s \in B : n = Cardinality(s)
    BY <1>3, Zenon
  <1>5. ASSUME NEW x \in s, s \ {x} \in B PROVE FALSE
    <2>1. Cardinality(s \ {x}) = Cardinality(s) - 1
      BY <1>1, FS_RemoveElement
    <2>2. Cardinality(s \ {x}) \in counts
      BY <1>5
    <2>3. n <= Cardinality(s \ {x}) /\ Cardinality(s) \in Nat
      BY <1>1, <1>3, <2>2
    <2> HIDE DEF counts
    <2>4. QED
      BY <1>4, <2>1, <2>3
  <1>6. QED
    BY <1>5

LEMMA AddsExist ==
  ASSUME NEW D, IsFiniteSet(D), NEW f, \A x \in D : f[x] \in Nat
  PROVE  \E g : Adds(g, f, D)
  <1> DEFINE B == {T \in SUBSET D : ~ \E g : Adds(g, f, T)}
  <1>1. SUFFICES ASSUME B # {} PROVE FALSE
    OBVIOUS
  <1>2. PICK T \in B : \A x \in T : T \ {x} \notin B
    <2>1. B \in SUBSET SUBSET D
      OBVIOUS
    <2> HIDE DEF B
    <2> QED
      BY <1>1, <2>1, SmallestBad
  <1>3. T # {}
    <2>1. Adds([s \in SUBSET {} |-> 0], f, {})
      BY DEF Adds
    <2> QED
      BY <1>2, <2>1
  <1>4. PICK y : y \in T
    BY <1>3
  <1>5. PICK g : Adds(g, f, T \ {y})
    BY <1>2, <1>4
  <1>6. f[y] \in Nat
    BY <1>2, <1>4
  <1> DEFINE R == T \ {y}
             h == [s \in SUBSET T |-> IF y \in s THEN g[s \ {y}] + f[y] ELSE g[s]]
  <1>7. g \in [SUBSET R -> Nat] /\ g[{}] = 0 /\ \A s \in SUBSET R : \A x \in R \ s : g[s \cup {x}] = g[s] + f[x]
    BY <1>5 DEF Adds
  <1>8. \A s \in SUBSET T : s \ {y} \in SUBSET R /\ (y \notin s => s \in SUBSET R /\ s \ {y} = s)
    OBVIOUS
  <1> HIDE DEF R
  <1>9. h \in [SUBSET T -> Nat] /\ h[{}] = 0
    BY <1>6, <1>7, <1>8
  <1>10. ASSUME NEW s \in SUBSET T, NEW x \in T \ s
         PROVE  h[s \cup {x}] = h[s] + f[x]
    <2>0. /\ s \cup {x} \in SUBSET T
          /\ h[s] = IF y \in s THEN g[s \ {y}] + f[y] ELSE g[s]
          /\ h[s \cup {x}] = IF y \in s \cup {x} THEN g[(s \cup {x}) \ {y}] + f[y] ELSE g[s \cup {x}]
      OBVIOUS
    <2> HIDE DEF h
    <2>1. CASE x = y
      <3>1. (s \cup {x}) \ {y} = s /\ y \notin s
        BY <2>1
      <3> QED
        BY <2>0, <2>1, <3>1
    <2>2. CASE x # y
      <3>1. x \in R /\ (s \cup {x}) \ {y} = (s \ {y}) \cup {x} /\ x \notin s \ {y} /\ f[x] \in Nat
        BY <1>2, <2>2 DEF R
      <3>2. g[(s \ {y}) \cup {x}] = g[s \ {y}] + f[x] /\ g[s \ {y}] \in Nat
        BY <1>7, <1>8, <3>1
      <3>3. CASE y \in s
        <4>1. y \in s \cup {x}
          BY <3>3
        <4>2. h[s] = g[s \ {y}] + f[y] /\ h[s \cup {x}] = g[(s \ {y}) \cup {x}] + f[y]
          BY <2>0, <3>1, <3>3, <4>1
        <4> QED
          BY <1>6, <3>1, <3>2, <4>2
      <3>4. CASE y \notin s
        BY <1>8, <2>0, <2>2, <3>2, <3>4
      <3> QED
        BY <3>3, <3>4
    <2> QED
      BY <2>1, <2>2
  <1>11. Adds(h, f, T)
    <2> HIDE DEF h
    <2> QED
      BY <1>9, <1>10 DEF Adds
  <1> QED
    BY <1>2, <1>11

\* What SumFunctionOnSet computes.
LEMMA SumIs ==
  ASSUME NEW D, IsFiniteSet(D), NEW f, NEW g, Adds(g, f, D), NEW S \in SUBSET D,
         \A x \in D : f[x] \in Nat
  PROVE  SumFunctionOnSet(f, S) = g[S]
  <1> DEFINE c(s) == CHOOSE x \in s : TRUE
             e(k) == [s \in SUBSET S |-> IF s = {} THEN 0 ELSE f[c(s)] + k[s \ {c(s)}]]
             iter == CHOOSE k : k =
               [s \in SUBSET S |-> IF s = {} THEN 0 ELSE f[CHOOSE x \in s : TRUE] + k[s \ {CHOOSE x \in s : TRUE}]]
  <1>1. SumFunctionOnSet(f, S) = iter[S]
    BY DEF SumFunctionOnSet, FoldFunctionOnSet, MapThenFoldSet
  <1> DEFINE gg == [s \in SUBSET S |-> g[s]]
  <1>2. \A s \in SUBSET S : s # {} => c(s) \in s
    OBVIOUS
  <1>3. g \in [SUBSET D -> Nat] /\ g[{}] = 0 /\ \A s \in SUBSET D : \A x \in D \ s : g[s \cup {x}] = g[s] + f[x]
    BY DEF Adds
  <1>4. \A s \in SUBSET S : \A x \in s : g[s] = f[x] + g[s \ {x}]
    <2> TAKE s \in SUBSET S
    <2> TAKE x \in s
    <2>1. s \ {x} \in SUBSET D /\ x \in D \ (s \ {x}) /\ (s \ {x}) \cup {x} = s
      OBVIOUS
    <2>2. g[s] = g[s \ {x}] + f[x] /\ g[s \ {x}] \in Nat /\ f[x] \in Nat
      BY <1>3, <2>1
    <2> QED
      BY <2>2
  <1>5. gg = e(gg)
    <2>1. ASSUME NEW s \in SUBSET S PROVE gg[s] = e(gg)[s]
      <3> HIDE DEF c
      <3>1. CASE s = {}
        BY <1>3, <3>1
      <3>2. CASE s # {}
        <4>1. c(s) \in s /\ s \ {c(s)} \in SUBSET S
          BY <1>2, <3>2
        <4>2. gg[s] = g[s] /\ gg[s \ {c(s)}] = g[s \ {c(s)}] /\ e(gg)[s] = f[c(s)] + gg[s \ {c(s)}]
          BY <3>2, <4>1
        <4> HIDE DEF gg, e
        <4> QED
          BY <1>4, <4>1, <4>2
      <3> QED
        BY <3>1, <3>2
    <2>2. gg = [s \in SUBSET S |-> gg[s]] /\ e(gg) = [s \in SUBSET S |-> e(gg)[s]]
      OBVIOUS
    <2> HIDE DEF gg, e
    <2> QED
      BY <2>1, <2>2
  <1>6. iter = e(iter)
    <2>1. \E k :
            k = [s \in SUBSET S |-> IF s = {} THEN 0 ELSE f[CHOOSE x \in s : TRUE] + k[s \ {CHOOSE x \in s : TRUE}]]
      BY <1>5
    <2> QED
      BY <2>1, Zenon
  <1> HIDE DEF iter, c
  <1>7. \A s \in SUBSET S : iter[s] = g[s]
    <2> DEFINE B == {s \in SUBSET S : iter[s] # g[s]}
    <2>1. SUFFICES ASSUME B # {} PROVE FALSE
      OBVIOUS
    <2>2. PICK s \in B : \A x \in s : s \ {x} \notin B
      <3>1. B \in SUBSET SUBSET S /\ IsFiniteSet(S)
        BY FS_Subset
      <3> HIDE DEF B
      <3> QED
        BY <2>1, <3>1, SmallestBad
    <2>3. iter[s] = IF s = {} THEN 0 ELSE f[c(s)] + iter[s \ {c(s)}]
      BY <1>6, <2>2
    <2>4. CASE s = {}
      BY <1>3, <2>2, <2>3, <2>4
    <2>5. CASE s # {}
      <3>1. c(s) \in s /\ s \ {c(s)} \in SUBSET S /\ s \in SUBSET S
        BY <1>2, <2>2, <2>5
      <3>2. iter[s \ {c(s)}] = g[s \ {c(s)}]
        BY <2>2, <3>1
      <3>3. g[s] = f[c(s)] + g[s \ {c(s)}]
        BY <1>4, <3>1
      <3> QED
        BY <2>2, <2>3, <2>5, <3>2, <3>3
    <2> QED
      BY <2>4, <2>5
  <1> QED
    BY <1>1, <1>7

\* Sums over finite sets of functions into the naturals.
LEMMA SumFacts ==
  ASSUME NEW D, IsFiniteSet(D), NEW f, \A x \in D : f[x] \in Nat
  PROVE  /\ SumFunctionOnSet(f, {}) = 0
         /\ \A S \in SUBSET D : SumFunctionOnSet(f, S) \in Nat
         /\ \A S \in SUBSET D : \A x \in D \ S :
              SumFunctionOnSet(f, S \cup {x}) = SumFunctionOnSet(f, S) + f[x]
         /\ \A S \in SUBSET D : \A x \in S :
              SumFunctionOnSet(f, S) = SumFunctionOnSet(f, S \ {x}) + f[x]
  <1>1. PICK g : Adds(g, f, D)
    BY AddsExist
  <1>2. \A S \in SUBSET D : SumFunctionOnSet(f, S) = g[S]
    BY <1>1, SumIs
  <1>3. g \in [SUBSET D -> Nat] /\ g[{}] = 0 /\ \A s \in SUBSET D : \A x \in D \ s : g[s \cup {x}] = g[s] + f[x]
    BY <1>1 DEF Adds
  <1>4. ASSUME NEW S \in SUBSET D, NEW x \in D \ S
        PROVE  SumFunctionOnSet(f, S \cup {x}) = SumFunctionOnSet(f, S) + f[x]
    <2>1. S \cup {x} \in SUBSET D
      OBVIOUS
    <2> QED
      BY <1>2, <1>3, <2>1
  <1>5. ASSUME NEW S \in SUBSET D, NEW x \in S
        PROVE  SumFunctionOnSet(f, S) = SumFunctionOnSet(f, S \ {x}) + f[x]
    <2>1. S \ {x} \in SUBSET D /\ x \in D \ (S \ {x}) /\ (S \ {x}) \cup {x} = S
      OBVIOUS
    <2> QED
      BY <1>4, <2>1
  <1>6. SumFunctionOnSet(f, {}) = 0 /\ \A S \in SUBSET D : SumFunctionOnSet(f, S) \in Nat
    BY <1>2, <1>3
  <1> QED
    BY <1>4, <1>5, <1>6

\* What covers more has the greater sum: each a of A has a b of its own in B.
LEMMA SumCovers ==
  ASSUME NEW D, IsFiniteSet(D), NEW f, \A x \in D : f[x] \in Nat,
         NEW E, IsFiniteSet(E), NEW h, \A x \in E : h[x] \in Nat,
         NEW c, NEW A \in SUBSET D, NEW B \in SUBSET E,
         \A a \in A : \E b \in B : c[b] = a /\ f[a] <= h[b]
  PROVE  SumFunctionOnSet(f, A) <= SumFunctionOnSet(h, B)
  <1> DEFINE P(X) == \A Y \in SUBSET E :
                (\A a \in X : \E b \in Y : c[b] = a /\ f[a] <= h[b])
                  => SumFunctionOnSet(f, X) <= SumFunctionOnSet(h, Y)
             Bad == {X \in SUBSET D : ~P(X)}
  <1>1. SUFFICES ASSUME Bad # {} PROVE FALSE
    BY Zenon
  <1>2. PICK X \in Bad : \A x \in X : X \ {x} \notin Bad
    <2>1. Bad \in SUBSET SUBSET D
      OBVIOUS
    <2> HIDE DEF Bad
    <2> QED
      BY <1>1, <2>1, SmallestBad
  <1>3. PICK Y \in SUBSET E : /\ \A a \in X : \E b \in Y : c[b] = a /\ f[a] <= h[b]
                             /\ ~(SumFunctionOnSet(f, X) <= SumFunctionOnSet(h, Y))
    BY <1>2
  <1>4. X \in SUBSET D /\ SumFunctionOnSet(f, X) \in Nat /\ SumFunctionOnSet(h, Y) \in Nat
    BY <1>2, <1>3, SumFacts
  <1> HIDE DEF P, Bad
  <1>5. X # {}
    <2>1. SumFunctionOnSet(f, {}) = 0
      BY SumFacts
    <2> QED
      BY <1>3, <1>4, <2>1
  <1>6. PICK a : a \in X
    BY <1>5
  <1>7. PICK b \in Y : c[b] = a /\ f[a] <= h[b]
    BY <1>3, <1>6
  <1>8. X \ {a} \in SUBSET D /\ Y \ {b} \in SUBSET E
    BY <1>4
  <1>9. P(X \ {a})
    BY <1>2, <1>6, <1>8 DEF Bad
  <1>10. \A x \in X \ {a} : \E y \in Y \ {b} : c[y] = x /\ f[x] <= h[y]
    BY <1>3, <1>7
  <1>11. SumFunctionOnSet(f, X \ {a}) <= SumFunctionOnSet(h, Y \ {b})
    BY <1>8, <1>9, <1>10 DEF P
  <1>12. /\ SumFunctionOnSet(f, X) = SumFunctionOnSet(f, X \ {a}) + f[a]
         /\ SumFunctionOnSet(h, Y) = SumFunctionOnSet(h, Y \ {b}) + h[b]
         /\ SumFunctionOnSet(f, X \ {a}) \in Nat /\ SumFunctionOnSet(h, Y \ {b}) \in Nat
         /\ f[a] \in Nat /\ h[b] \in Nat
    <2>1. /\ SumFunctionOnSet(f, X) = SumFunctionOnSet(f, X \ {a}) + f[a]
          /\ SumFunctionOnSet(f, X \ {a}) \in Nat /\ f[a] \in Nat
      BY <1>4, <1>6, <1>8, SumFacts
    <2>2. /\ SumFunctionOnSet(h, Y) = SumFunctionOnSet(h, Y \ {b}) + h[b]
          /\ SumFunctionOnSet(h, Y \ {b}) \in Nat /\ h[b] \in Nat
      <3>1. /\ \A S \in SUBSET E : SumFunctionOnSet(h, S) \in Nat
            /\ \A S \in SUBSET E : \A x \in S :
                 SumFunctionOnSet(h, S) = SumFunctionOnSet(h, S \ {x}) + h[x]
        BY SumFacts
      <3>2. Y \in SUBSET E /\ b \in Y /\ b \in E
        BY <1>3, <1>7
      <3> QED
        BY <1>8, <3>1, <3>2
    <2> QED
      BY <2>1, <2>2
  <1> QED
    BY <1>3, <1>7, <1>11, <1>12

\* Pointwise comparison, and agreement.
LEMMA SumLess ==
  ASSUME NEW D, IsFiniteSet(D), NEW f, NEW h, \A x \in D : f[x] \in Nat /\ h[x] \in Nat,
         NEW S \in SUBSET D, NEW T \in SUBSET D, S \subseteq T,
         \A x \in S : f[x] <= h[x]
  PROVE  SumFunctionOnSet(f, S) <= SumFunctionOnSet(h, T)
  <1> DEFINE c == [x \in D |-> x]
  <1>1. \A a \in S : \E b \in T : c[b] = a /\ f[a] <= h[b]
    OBVIOUS
  <1> HIDE DEF c
  <1> QED
    BY <1>1, SumCovers

LEMMA SumSame ==
  ASSUME NEW D, IsFiniteSet(D), NEW f, NEW h, \A x \in D : f[x] \in Nat /\ h[x] \in Nat,
         NEW S \in SUBSET D, \A x \in S : f[x] = h[x]
  PROVE  SumFunctionOnSet(f, S) = SumFunctionOnSet(h, S)
  <1>1. SumFunctionOnSet(f, S) \in Nat /\ SumFunctionOnSet(h, S) \in Nat
    BY SumFacts
  <1>2. SumFunctionOnSet(f, S) <= SumFunctionOnSet(h, S)
    BY SumLess
  <1>3. SumFunctionOnSet(h, S) <= SumFunctionOnSet(f, S)
    BY SumLess
  <1> QED
    BY <1>1, <1>2, <1>3

\* One summand changes.
LEMMA SumChange ==
  ASSUME NEW D, IsFiniteSet(D), NEW f, NEW h, \A x \in D : f[x] \in Nat /\ h[x] \in Nat,
         NEW t \in D, \A x \in D \ {t} : f[x] = h[x]
  PROVE  SumFunctionOnSet(h, D) + f[t] = SumFunctionOnSet(f, D) + h[t]
  <1>1. D \in SUBSET D /\ D \ {t} \in SUBSET D
    OBVIOUS
  <1>2. /\ SumFunctionOnSet(f, D) = SumFunctionOnSet(f, D \ {t}) + f[t]
        /\ SumFunctionOnSet(h, D) = SumFunctionOnSet(h, D \ {t}) + h[t]
        /\ SumFunctionOnSet(f, D \ {t}) \in Nat /\ SumFunctionOnSet(h, D \ {t}) \in Nat
    BY <1>1, SumFacts
  <1>3. SumFunctionOnSet(f, D \ {t}) = SumFunctionOnSet(h, D \ {t})
    BY <1>1, SumSame
  <1> QED
    BY <1>2, <1>3

\* Summands of at most m.
LEMMA SumBound ==
  ASSUME NEW D, IsFiniteSet(D), NEW f, NEW m \in Nat, \A x \in D : f[x] \in Nat /\ f[x] <= m,
         NEW S \in SUBSET D
  PROVE  SumFunctionOnSet(f, S) <= Cardinality(S) * m
  <1> DEFINE Bad == {X \in SUBSET D : ~(SumFunctionOnSet(f, X) <= Cardinality(X) * m)}
  <1>1. SUFFICES ASSUME Bad # {} PROVE FALSE
    OBVIOUS
  <1>2. PICK X \in Bad : \A x \in X : X \ {x} \notin Bad
    <2>1. Bad \in SUBSET SUBSET D
      OBVIOUS
    <2> HIDE DEF Bad
    <2> QED
      BY <1>1, <2>1, SmallestBad
  <1>3. X \in SUBSET D /\ ~(SumFunctionOnSet(f, X) <= Cardinality(X) * m)
    BY <1>2
  <1>4. IsFiniteSet(X) /\ Cardinality(X) \in Nat
    BY <1>3, FS_Subset, FS_CardinalityType
  <1>5. X # {}
    <2>1. SumFunctionOnSet(f, {}) = 0 /\ Cardinality({}) = 0 /\ 0 * m = 0
      BY SumFacts, FS_EmptySet
    <2> QED
      BY <1>3, <2>1
  <1>6. PICK a : a \in X
    BY <1>5
  <1>7. X \ {a} \in SUBSET D /\ IsFiniteSet(X \ {a}) /\ Cardinality(X \ {a}) = Cardinality(X) - 1
    BY <1>3, <1>4, <1>6, FS_RemoveElement
  <1>8. SumFunctionOnSet(f, X \ {a}) <= Cardinality(X \ {a}) * m
    BY <1>2, <1>6, <1>7
  <1>9. /\ SumFunctionOnSet(f, X) = SumFunctionOnSet(f, X \ {a}) + f[a]
        /\ SumFunctionOnSet(f, X \ {a}) \in Nat /\ f[a] \in Nat /\ f[a] <= m
    BY <1>3, <1>6, <1>7, SumFacts
  <1> HIDE DEF Bad
  <1>10. Cardinality(X) * m = (Cardinality(X) - 1) * m + m
    BY <1>4
  <1>11. (Cardinality(X) - 1) * m \in Int
    BY <1>4
  <1> QED
    BY <1>3, <1>4, <1>7, <1>8, <1>9, <1>10, <1>11

-----------------------------------------------------------------------------
(* The store's books.                                                      *)

\* PUTs that were admitted and are not counted yet.
Admitting == {"dirs", "sync_namespace", "check", "write", "rename", "sync_parent"}

Inflight == [t \in Threads |-> IF thread[t].pc \in Admitting THEN Size[thread[t].obj] ELSE 0]
Adding == [t \in Threads |-> IF thread[t].pc = "sync_parent" THEN Size[thread[t].obj] ELSE 0]
Removing == [t \in Threads |-> IF thread[t].pc = "sync_removed" THEN Size[thread[t].obj] ELSE 0]
Over(f) == SumFunctionOnSet(f, Threads)

\* Removed, but not for certain after a power failure.
Stale == {o \in Objects : files[o] = "absent" /\ synced[o] # "absent"}

\* What the counter stands for.
Reckoned ==
    {o \in Objects :
        \/ o \in Present /\ \A t \in Threads : thread[t].pc = "sync_parent" /\ thread[t].obj = o => thread[t].bytes # 0
        \/ \E t \in Threads : thread[t].pc = "sync_removed" /\ thread[t].obj = o}

\* An object's directory is there from the first step of a PUT on.
Placed ==
    /\ used \in Nat /\ dirs \subseteq Namespace /\ syncedDirs \subseteq dirs /\ faults \in 0..MaxFaults
    /\ \A o \in Present : DirOf[o] \in dirs
    /\ \A t \in Threads :
         /\ thread[t].pc # "idle" => thread[t].obj \in Works[t]
         /\ thread[t].pc \in Admitting \ {"dirs"} => DirOf[thread[t].obj] \in dirs
    /\ up # "up" => \A t \in Threads : thread[t].pc = "idle"

\* Before the first fault nothing is rotten, and only a DELETE at work may be undone.
Clean ==
    /\ \A o \in Objects : files[o] # "bad" /\ synced[o] # "bad"
    /\ \A t \in Threads : thread[t].pc \in Admitting => thread[t].bytes = 0
    /\ \A t \in Threads : thread[t].pc \in {"remove", "sync_removed"} => thread[t].bytes = Size[thread[t].obj]
    /\ \A o \in Stale : \E t \in Threads : thread[t].pc = "sync_removed" /\ thread[t].obj = o
    /\ Bytes(Present) + Over(Removing) <= used + Over(Adding)

\* What a thread that works alone on its objects knows of the file it replaces or removes.
KnowsFile(r) ==
    /\ r.pc \in {"write", "rename"} => r.bytes = IF r.obj \in Present THEN Size[r.obj] ELSE 0
    /\ r.pc = "sync_parent" => r.obj \in Present /\ r.bytes \in {0, Size[r.obj]}
    /\ r.pc = "remove" => r.obj \in Present /\ r.bytes = Size[r.obj]
    /\ r.pc = "sync_removed" => r.obj \notin Present /\ r.bytes = Size[r.obj]

Exact ==
    /\ \A t \in Threads : KnowsFile(thread[t])
    /\ up = "up" => used = Bytes(Reckoned)

Bound == Admissible + (Cardinality(Threads) - 1) * Largest
Alone == OwnObjects /\ ~IoErrors
Sure == faults = 0 \/ (faults = 1 /\ Alone)

\* What is counted and what was let in fit.
Room == Sure /\ up = "up" => used + Over(Inflight) <= Bound

BooksInv ==
    /\ Placed
    /\ faults = 0 => Clean
    /\ Alone => Exact
    /\ Room
    /\ QuotaKept


-----------------------------------------------------------------------------
(* Sums of sizes, over objects and over threads.                           *)

LEMMA ThreadFacts ==
  ASSUME setting \in Settings
  PROVE  IsFiniteSet(Threads) /\ Threads # {} /\ Cardinality(Threads) \in Nat /\ Cardinality(Threads) >= 1
  <1>1. IsFiniteSet(Threads) /\ Threads # {}
    BY StoreAssumption DEF Threads, Works
  <1>2. Cardinality(Threads) \in Nat /\ Cardinality(Threads) # 0
    BY <1>1, FS_CardinalityType, FS_EmptySet
  <1> QED
    BY <1>1, <1>2

LEMMA LargestFacts ==
  /\ Largest \in Nat
  /\ \A o \in Objects : Size[o] \in Nat /\ Size[o] # 0 /\ Size[o] <= Largest
  <1> DEFINE S == {Size[o] : o \in Objects}
             f == [o \in Objects |-> Size[o]]
  <1>1. S \in SUBSET Nat /\ S # {} /\ \A o \in Objects : Size[o] \in Nat /\ Size[o] # 0
    BY StoreAssumption
  <1>2. IsFiniteSet(S)
    <2>1. f \in Surjection(Objects, S)
      BY DEF Surjection
    <2> QED
      BY <2>1, StoreAssumption, FS_Surjection DEF ExistsSurjection
  <1>3. Max(S) \in S /\ \A y \in S : Max(S) >= y
    <2> HIDE DEF S
    <2> QED
      BY <1>1, <1>2, HasGreatest
  <1>4. Largest = Max(S)
    BY DEF Largest
  <1>5. \A o \in Objects : Size[o] \in S
    OBVIOUS
  <1> HIDE DEF S
  <1> QED
    BY <1>1, <1>3, <1>4, <1>5

LEMMA BytesFacts ==
  /\ \A S \in SUBSET Objects : Bytes(S) \in Nat
  /\ \A S \in SUBSET Objects : \A o \in Objects \ S : Bytes(S \cup {o}) = Bytes(S) + Size[o]
  /\ \A S \in SUBSET Objects : \A o \in S : Bytes(S) = Bytes(S \ {o}) + Size[o]
  /\ \A S, T \in SUBSET Objects : S \subseteq T => Bytes(S) <= Bytes(T)
  <1>1. IsFiniteSet(Objects) /\ \A o \in Objects : Size[o] \in Nat
    BY StoreAssumption
  <1>2. /\ \A S \in SUBSET Objects : Bytes(S) \in Nat
        /\ \A S \in SUBSET Objects : \A o \in Objects \ S : Bytes(S \cup {o}) = Bytes(S) + Size[o]
        /\ \A S \in SUBSET Objects : \A o \in S : Bytes(S) = Bytes(S \ {o}) + Size[o]
    BY <1>1, SumFacts DEF Bytes
  <1>3. ASSUME NEW S \in SUBSET Objects, NEW T \in SUBSET Objects, S \subseteq T
        PROVE  Bytes(S) <= Bytes(T)
    BY <1>1, <1>3, SumLess DEF Bytes
  <1> QED
    BY <1>2, <1>3

\* Objects that threads stand for take no more than those threads.
LEMMA BytesCovered ==
  ASSUME setting \in Settings, NEW S \in SUBSET Objects, NEW T \in SUBSET Objects, NEW h, NEW c,
         \A t \in Threads : h[t] \in Nat,
         \A o \in T : \E t \in Threads : c[t] = o /\ Size[o] <= h[t]
  PROVE  Bytes(S \cup T) <= Bytes(S) + SumFunctionOnSet(h, Threads)
  <1>0. IsFiniteSet(Objects) /\ \A o \in Objects : Size[o] \in Nat
    BY StoreAssumption
  <1>1. Bytes(T) <= SumFunctionOnSet(h, Threads)
    <2>1. IsFiniteSet(Threads) /\ Threads \in SUBSET Threads
      BY ThreadFacts
    <2> QED
      BY <1>0, <2>1, SumCovers DEF Bytes
  <1> DEFINE Bad == {X \in SUBSET T : ~(Bytes(S \cup X) <= Bytes(S) + Bytes(X))}
  <1>2. Bad = {}
    <2>1. SUFFICES ASSUME Bad # {} PROVE FALSE
      OBVIOUS
    <2>2. PICK X \in Bad : \A x \in X : X \ {x} \notin Bad
      <3>1. Bad \in SUBSET SUBSET Objects
        OBVIOUS
      <3> HIDE DEF Bad
      <3> QED
        BY <1>0, <2>1, <3>1, SmallestBad
    <2>3. X \in SUBSET T /\ ~(Bytes(S \cup X) <= Bytes(S) + Bytes(X))
      BY <2>2
    <2>4. /\ S \cup X \in SUBSET Objects /\ X \in SUBSET Objects
          /\ Bytes(S \cup X) \in Nat /\ Bytes(X) \in Nat /\ Bytes(S) \in Nat
      BY <2>3, BytesFacts
    <2>5. X # {}
      <3>1. X = {} => S \cup X = S
        OBVIOUS
      <3>2. X = {} => Bytes(S \cup X) = Bytes(S)
        BY <3>1, Zenon
      <3> QED
        BY <2>3, <2>4, <3>2
    <2>6. PICK x : x \in X
      BY <2>5
    <2>7. /\ X \ {x} \in SUBSET T /\ X \ {x} \in SUBSET Objects /\ x \in Objects
          /\ S \cup (X \ {x}) \in SUBSET Objects
      BY <2>3, <2>6
    <2>8. Bytes(S \cup (X \ {x})) <= Bytes(S) + Bytes(X \ {x})
      BY <2>2, <2>6, <2>7
    <2> HIDE DEF Bad
    <2>9. Bytes(X) = Bytes(X \ {x}) + Size[x] /\ Bytes(X \ {x}) \in Nat /\ Size[x] \in Nat
      BY <1>0, <2>4, <2>6, <2>7, BytesFacts
    <2>10. Bytes(S \cup X) <= Bytes(S \cup (X \ {x})) + Size[x] /\ Bytes(S \cup (X \ {x})) \in Nat
      <3>1. CASE x \in S
        <4>1. S \cup X = S \cup (X \ {x})
          BY <2>6, <3>1
        <4>2. Bytes(S \cup X) = Bytes(S \cup (X \ {x}))
          BY <4>1, Zenon
        <4> QED
          BY <2>4, <2>9, <4>2
      <3>2. CASE x \notin S
        <4>1. (S \cup (X \ {x})) \cup {x} = S \cup X /\ x \in Objects \ (S \cup (X \ {x}))
          BY <2>6, <2>7, <3>2
        <4>2. Bytes(S \cup X) = Bytes(S \cup (X \ {x})) + Size[x] /\ Bytes(S \cup (X \ {x})) \in Nat
          BY <2>7, <4>1, BytesFacts
        <4> QED
          BY <2>4, <4>2
      <3> QED
        BY <3>1, <3>2
    <2> QED
      BY <2>3, <2>4, <2>8, <2>9, <2>10
  <1>3. Bytes(S \cup T) <= Bytes(S) + Bytes(T)
    BY <1>2
  <1>4. /\ Bytes(S \cup T) \in Nat /\ Bytes(S) \in Nat /\ Bytes(T) \in Nat
        /\ SumFunctionOnSet(h, Threads) \in Nat
    <2>1. S \cup T \in SUBSET Objects /\ IsFiniteSet(Threads) /\ Threads \in SUBSET Threads
      BY ThreadFacts
    <2>2. SumFunctionOnSet(h, Threads) \in Nat
      BY <2>1, SumFacts
    <2> QED
      BY <2>1, <2>2, BytesFacts
  <1> QED
    BY <1>1, <1>3, <1>4

\* What a thread weighs.
LEMMA Weights ==
  ASSUME Shapes
  PROVE  /\ \A t \in Threads : Inflight[t] \in Nat /\ Adding[t] \in Nat /\ Removing[t] \in Nat
         /\ \A t \in Threads : Adding[t] <= Inflight[t] /\ Inflight[t] <= Largest
         /\ Over(Inflight) \in Nat /\ Over(Adding) \in Nat /\ Over(Removing) \in Nat
         /\ Over(Adding) <= Over(Inflight)
  <1>1. \A t \in Threads : thread[t].pc # "idle" => thread[t].obj \in Objects
    BY DEF Shapes
  <1>2. \A o \in Objects : Size[o] \in Nat /\ Size[o] <= Largest
    BY LargestFacts
  <1>3. Largest \in Nat
    BY LargestFacts
  <1>4. /\ \A t \in Threads : Inflight[t] \in Nat /\ Adding[t] \in Nat /\ Removing[t] \in Nat
        /\ \A t \in Threads : Adding[t] <= Inflight[t] /\ Inflight[t] <= Largest
    BY <1>1, <1>2, <1>3 DEF Inflight, Adding, Removing, Admitting
  <1>5. IsFiniteSet(Threads) /\ Threads \in SUBSET Threads
    BY ThreadFacts DEF Shapes
  <1>6. Over(Inflight) \in Nat /\ Over(Adding) \in Nat /\ Over(Removing) \in Nat
    BY <1>4, <1>5, SumFacts DEF Over
  <1>7. Over(Adding) <= Over(Inflight)
    BY <1>4, <1>5, SumLess DEF Over
  <1> QED
    BY <1>4, <1>6, <1>7

Weighed ==
    /\ \A u \in Threads : Inflight[u] \in Nat /\ Adding[u] \in Nat /\ Removing[u] \in Nat
    /\ Over(Inflight) \in Nat /\ Over(Adding) \in Nat /\ Over(Removing) \in Nat

LEMMA WeightsNext == Shapes' => Weighed'
  <1>1. Shapes => Weighed
    BY Weights DEF Weighed
  <1> QED
    BY <1>1, PTL

SameRow(u) ==
    /\ thread'[u].pc = thread[u].pc /\ thread'[u].obj = thread[u].obj /\ thread'[u].bytes = thread[u].bytes

\* A step of one thread changes one summand.
LEMMA OverChange ==
  ASSUME Shapes, Shapes', setting' = setting, NEW t \in Threads, \A u \in Threads \ {t} : SameRow(u)
  PROVE  /\ Over(Inflight)' + Inflight[t] = Over(Inflight) + Inflight'[t]
         /\ Over(Adding)' + Adding[t] = Over(Adding) + Adding'[t]
         /\ Over(Removing)' + Removing[t] = Over(Removing) + Removing'[t]
         /\ Over(Inflight)' \in Nat /\ Over(Adding)' \in Nat /\ Over(Removing)' \in Nat
         /\ Inflight'[t] \in Nat /\ Adding'[t] \in Nat /\ Removing'[t] \in Nat
  <1>1. Threads' = Threads
    BY SameSetting
  <1>2. /\ \A u \in Threads : Inflight[u] \in Nat /\ Adding[u] \in Nat /\ Removing[u] \in Nat
        /\ \A u \in Threads : Inflight'[u] \in Nat /\ Adding'[u] \in Nat /\ Removing'[u] \in Nat
        /\ Over(Inflight)' \in Nat /\ Over(Adding)' \in Nat /\ Over(Removing)' \in Nat
    BY <1>1, Weights, WeightsNext DEF Weighed
  <1>3. \A u \in Threads \ {t} : Inflight[u] = Inflight'[u] /\ Adding[u] = Adding'[u] /\ Removing[u] = Removing'[u]
    BY <1>1 DEF Inflight, Adding, Removing, SameRow
  <1>4. IsFiniteSet(Threads)
    BY ThreadFacts DEF Shapes
  <1>5. SumFunctionOnSet(Inflight', Threads) + Inflight[t] = SumFunctionOnSet(Inflight, Threads) + Inflight'[t]
    BY <1>2, <1>3, <1>4, SumChange
  <1>6. SumFunctionOnSet(Adding', Threads) + Adding[t] = SumFunctionOnSet(Adding, Threads) + Adding'[t]
    BY <1>2, <1>3, <1>4, SumChange
  <1>7. SumFunctionOnSet(Removing', Threads) + Removing[t] = SumFunctionOnSet(Removing, Threads) + Removing'[t]
    BY <1>2, <1>3, <1>4, SumChange
  <1> QED
    BY <1>1, <1>2, <1>5, <1>6, <1>7 DEF Over

-----------------------------------------------------------------------------
(* What a step of a thread does to its request, the files and the counter. *)

DiskRests == files' = files /\ synced' = synced /\ dirs' = dirs /\ syncedDirs' = syncedDirs

Begins(t) ==
    /\ thread[t].pc = "idle" /\ up = "up" /\ thread'[t].obj \in Works[t]
    /\ DiskRests /\ used' = used /\ faults' = faults
    /\ \/ thread'[t].pc = "dirs" /\ thread'[t].bytes = 0 /\ admit(thread'[t].obj)
       \/ /\ thread'[t].pc = "remove" /\ thread'[t].bytes = Size[thread'[t].obj]
          /\ files[thread'[t].obj] # "absent"

\* A request that is at work keeps its object.
Proceeds(t, from, to) == thread[t].pc = from /\ thread'[t].pc = to /\ thread'[t].obj = thread[t].obj

Advances(t) ==
    /\ files' = files /\ synced' = synced /\ used' = used /\ faults' = faults
    /\ \/ /\ \E to \in {"check", "sync_namespace"} : Proceeds(t, "dirs", to)
          /\ thread'[t].bytes = thread[t].bytes
          /\ dirs' = dirs \cup {DirOf[thread[t].obj]} /\ syncedDirs' = syncedDirs
       \/ /\ Proceeds(t, "sync_namespace", "check")
          /\ thread'[t].bytes = thread[t].bytes
          /\ dirs' = dirs /\ syncedDirs' = dirs
       \/ /\ DiskRests
          /\ \/ Proceeds(t, "check", "resync")
             \/ /\ Proceeds(t, "check", "write") /\ files[thread[t].obj] # "good"
                /\ thread'[t].bytes = IF files[thread[t].obj] = "bad" THEN Size[thread[t].obj] ELSE 0
             \/ Proceeds(t, "write", "rename") /\ thread'[t].bytes = thread[t].bytes
             \/ thread[t].pc \in {"ack", "remove"} /\ thread'[t].pc = "idle"

Fails(t) ==
    /\ thread[t].pc \in {"write", "rename", "sync_parent", "sync_removed"} /\ thread'[t].pc = "idle"
    /\ IoErrors /\ faults' = faults + 1 /\ DiskRests /\ used' = used

\* The file's directory is synced.
Syncs(t) ==
    /\ files' = files /\ synced' = SyncedIn(DirOf[thread[t].obj])
    /\ dirs' = dirs /\ syncedDirs' \in {dirs, syncedDirs} /\ faults' = faults
    /\ \/ Proceeds(t, "resync", "ack") /\ used' = used
       \/ Proceeds(t, "sync_parent", "ack") /\ used' = Replaced(used, thread[t].bytes, Size[thread[t].obj])
       \/ /\ thread[t].pc = "sync_removed" /\ thread'[t].pc = "idle"
          /\ used' = Max({0, used - thread[t].bytes})

\* A file comes or goes.
Moves(t) ==
    /\ synced' = synced /\ dirs' = dirs /\ syncedDirs' = syncedDirs /\ used' = used /\ faults' = faults
    /\ thread'[t].bytes = thread[t].bytes
    /\ \/ Proceeds(t, "rename", "sync_parent") /\ files' = [files EXCEPT ![thread[t].obj] = "good"]
       \/ /\ Proceeds(t, "remove", "sync_removed") /\ files[thread[t].obj] # "absent"
          /\ files' = [files EXCEPT ![thread[t].obj] = "absent"]

StepOf(t) == Begins(t) \/ Advances(t) \/ Fails(t) \/ Syncs(t) \/ Moves(t)

LEMMA RowAfter ==
  ASSUME Shapes, NEW t \in Threads, NEW r, thread' = [thread EXCEPT ![t] = r]
  PROVE  thread'[t] = r /\ \A u \in Threads \ {t} : SameRow(u)
  BY DEF Shapes, SameRow

LEMMA GotoRow ==
  ASSUME Shapes, NEW t \in Threads, NEW pc, Goto(t, pc)
  PROVE  /\ thread'[t].pc = pc /\ thread'[t].obj = thread[t].obj /\ thread'[t].bytes = thread[t].bytes
         /\ \A u \in Threads \ {t} : SameRow(u)
  BY DEF Shapes, SameRow, Goto, ThreadRows

LEMMA DoneRow ==
  ASSUME Shapes, NEW t \in Threads, Done(t)
  PROVE  thread'[t].pc = "idle" /\ \A u \in Threads \ {t} : SameRow(u)
  <1>1. Idle.pc = "idle"
    BY DEF Idle
  <1> QED
    BY <1>1, RowAfter DEF Done

LEMMA BeginsRow ==
  ASSUME Shapes, NEW t \in Threads, NEW o \in Works[t], BeginPut(t, o) \/ BeginDelete(t, o)
  PROVE  Begins(t) /\ \A u \in Threads \ {t} : SameRow(u)
  <1>1. CASE BeginPut(t, o)
    <2>1. PICK r : r = [Idle EXCEPT !.pc = "dirs", !.obj = o]
      OBVIOUS
    <2>2. r.pc = "dirs" /\ r.obj = o /\ r.bytes = 0
      BY <2>1 DEF Idle
    <2>3. thread' = [thread EXCEPT ![t] = r]
      BY <1>1, <2>1 DEF BeginPut
    <2>4. thread'[t] = r /\ \A u \in Threads \ {t} : SameRow(u)
      BY <2>3, RowAfter
    <2> QED
      BY <1>1, <2>2, <2>4 DEF BeginPut, Begins, DiskRests, diskVars
  <1>2. CASE BeginDelete(t, o)
    <2>1. PICK r : r = [Idle EXCEPT !.pc = "remove", !.obj = o, !.bytes = Size[o]]
      OBVIOUS
    <2>2. r.pc = "remove" /\ r.obj = o /\ r.bytes = Size[o]
      BY <2>1 DEF Idle
    <2>3. thread' = [thread EXCEPT ![t] = r]
      BY <1>2, <2>1 DEF BeginDelete
    <2>4. thread'[t] = r /\ \A u \in Threads \ {t} : SameRow(u)
      BY <2>3, RowAfter
    <2> QED
      BY <1>2, <2>2, <2>4 DEF BeginDelete, Begins, DiskRests, diskVars
  <1> QED
    BY <1>1, <1>2

LEMMA CheckRow ==
  ASSUME Shapes, NEW t \in Threads, CheckExisting(t)
  PROVE  Advances(t) /\ \A u \in Threads \ {t} : SameRow(u)
  <1>1. PICK pc, b : /\ pc = IF files[thread[t].obj] = "good" THEN "resync" ELSE "write"
                     /\ b = IF files[thread[t].obj] = "bad" THEN Size[thread[t].obj] ELSE 0
    OBVIOUS
  <1>2. thread' = [thread EXCEPT ![t].pc = pc, ![t].bytes = b]
    BY <1>1 DEF CheckExisting, AfterGood
  <1>3. thread \in [Threads -> ThreadRows]
    BY DEF Shapes
  <1>4. thread' = [thread EXCEPT ![t] = [thread[t] EXCEPT !.pc = pc, !.bytes = b]]
    BY <1>2, <1>3, TwoFields
  <1>5. /\ thread'[t].pc = pc /\ thread'[t].bytes = b /\ thread'[t].obj = thread[t].obj
        /\ \A u \in Threads \ {t} : SameRow(u)
    <2>1. PICK r : r = [thread[t] EXCEPT !.pc = pc, !.bytes = b]
      OBVIOUS
    <2>2. r.pc = pc /\ r.bytes = b /\ r.obj = thread[t].obj
      BY <1>3, <2>1 DEF ThreadRows
    <2>3. thread'[t] = r /\ \A u \in Threads \ {t} : SameRow(u)
      BY <1>4, <2>1, RowAfter
    <2> QED
      BY <2>2, <2>3
  <1> QED
    BY <1>1, <1>5 DEF CheckExisting, Advances, Proceeds, DiskRests, diskVars

LEMMA RemoveRow ==
  ASSUME Shapes, NEW t \in Threads, RemoveFile(t), files[thread[t].obj] # "absent"
  PROVE  Moves(t) /\ \A u \in Threads \ {t} : SameRow(u)
  <1>1. PICK o : o = thread[t].obj
    OBVIOUS
  <1>2. PICK rows : rows = Undo(o)
    OBVIOUS
  <1>3. thread' = [rows EXCEPT ![t].pc = "sync_removed"] /\ files' = [files EXCEPT ![o] = "absent"]
    BY <1>1, <1>2 DEF RemoveFile
  <1>4. /\ rows = [u \in Threads |-> rows[u]]
        /\ \A u \in Threads : rows[u] = IF thread[u].obj = o /\ thread[u].pc \in {"resync", "sync_parent", "ack"}
                                        THEN [thread[u] EXCEPT !.undone = TRUE] ELSE thread[u]
    BY <1>2 DEF Undo
  <1>5. \A u \in Threads : thread[u] \in ThreadRows
    BY DEF Shapes
  <1>6. \A u \in Threads : /\ rows[u] \in ThreadRows /\ rows[u].pc = thread[u].pc
                           /\ rows[u].obj = thread[u].obj /\ rows[u].bytes = thread[u].bytes
    <2> TAKE u \in Threads
    <2>1. PICK r \in ThreadRows : r = thread[u]
      BY <1>5
    <2>2. rows[u] = r \/ rows[u] = [r EXCEPT !.undone = TRUE]
      BY <1>4, <2>1
    <2>3. PICK q : q = [r EXCEPT !.undone = TRUE]
      OBVIOUS
    <2>4. q \in ThreadRows /\ q.pc = r.pc /\ q.obj = r.obj /\ q.bytes = r.bytes
      BY <2>3 DEF ThreadRows
    <2> QED
      BY <2>1, <2>2, <2>3, <2>4
  <1>7. /\ \A u \in Threads \ {t} : thread'[u] = rows[u]
        /\ thread'[t] = [rows[t] EXCEPT !.pc = "sync_removed"]
    BY <1>3, <1>4
  <1>8. thread'[t].pc = "sync_removed" /\ thread'[t].obj = thread[t].obj /\ thread'[t].bytes = thread[t].bytes
    BY <1>6, <1>7 DEF ThreadRows
  <1>9. \A u \in Threads \ {t} : SameRow(u)
    BY <1>6, <1>7 DEF SameRow
  <1> QED
    BY <1>1, <1>3, <1>8, <1>9 DEF RemoveFile, Moves, Proceeds

LEMMA ServeWorks ==
  ASSUME Shapes, NEW t \in Threads, Serve(t)
  PROVE  StepOf(t) /\ up' = up /\ \A u \in Threads \ {t} : SameRow(u)
  <1>1. up' = up
    BY ThreadsRestIdentity DEF IdentityRests
  <1>2. CASE \E o \in Works[t] : BeginPut(t, o) \/ BeginDelete(t, o)
    BY <1>1, <1>2, BeginsRow DEF StepOf
  <1>3. CASE EnsureDirectory(t)
    <2>1. PICK pc \in {"check", "sync_namespace"} : Goto(t, pc)
      BY <1>3 DEF EnsureDirectory
    <2> QED
      BY <1>1, <1>3, <2>1, GotoRow DEF EnsureDirectory, StepOf, Advances, Proceeds
  <1>4. CASE SyncNamespace(t)
    <2>1. Goto(t, "check")
      BY <1>4 DEF SyncNamespace
    <2> QED
      BY <1>1, <1>4, <2>1, GotoRow DEF SyncNamespace, StepOf, Advances, Proceeds
  <1>5. CASE CheckExisting(t)
    BY <1>1, <1>5, CheckRow DEF StepOf
  <1>6. CASE Resync(t) \/ SyncParent(t)
    <2>1. Goto(t, "ack")
      BY <1>6 DEF Resync, SyncParent
    <2> QED
      BY <1>1, <1>6, <2>1, GotoRow DEF Resync, SyncParent, StepOf, Syncs, Proceeds
  <1>7. CASE WriteTemporary(t)
    <2>1. Goto(t, "rename")
      BY <1>7 DEF WriteTemporary
    <2> QED
      BY <1>1, <1>7, <2>1, GotoRow DEF WriteTemporary, StepOf, Advances, Proceeds, DiskRests
  <1>8. CASE WriteFails(t) \/ SyncFails(t)
    <2>1. Done(t)
      BY <1>8 DEF WriteFails, SyncFails
    <2> QED
      BY <1>1, <1>8, <2>1, DoneRow DEF WriteFails, SyncFails, StepOf, Fails, DiskRests, diskVars
  <1>9. CASE Rename(t)
    <2>1. Goto(t, "sync_parent")
      BY <1>9 DEF Rename
    <2> QED
      BY <1>1, <1>9, <2>1, GotoRow DEF Rename, StepOf, Moves, Proceeds
  <1>10. CASE AckPut(t) \/ (RemoveFile(t) /\ files[thread[t].obj] = "absent")
    <2>1. Done(t)
      BY <1>10 DEF AckPut, RemoveFile
    <2> QED
      BY <1>1, <1>10, <2>1, DoneRow DEF AckPut, RemoveFile, StepOf, Advances, DiskRests, diskVars
  <1>11. CASE RemoveFile(t) /\ files[thread[t].obj] # "absent"
    BY <1>1, <1>11, RemoveRow DEF StepOf
  <1>12. CASE SyncRemoved(t)
    <2>1. Done(t)
      BY <1>12 DEF SyncRemoved
    <2> QED
      BY <1>1, <1>12, <2>1, DoneRow DEF SyncRemoved, StepOf, Syncs
  <1> QED
    BY <1>2, <1>3, <1>4, <1>5, <1>6, <1>7, <1>8, <1>9, <1>10, <1>11, <1>12 DEF Serve

LEMMA RotRows ==
  ASSUME Shapes, NEW o \in Objects, Rot(o)
  PROVE  \A u \in Threads : SameRow(u)
  <1>1. \A u \in Threads : thread[u] \in ThreadRows
    BY DEF Shapes
  <1>2. \A u \in Threads : \/ thread'[u] = thread[u]
                           \/ thread'[u] = [thread[u] EXCEPT !.undone = TRUE]
    BY DEF Rot, Undo
  <1> QED
    BY <1>1, <1>2 DEF SameRow, ThreadRows

LEMMA DeadRows ==
  ASSUME Dead
  PROVE  up' = "down" /\ \A t \in Threads : thread'[t].pc = "idle"
  <1>1. thread' = [t \in Threads |-> Idle] /\ up' = "down"
    BY DEF Dead
  <1>2. Idle.pc = "idle"
    BY DEF Idle
  <1> QED
    BY <1>1, <1>2

LEMMA MaxZero ==
  ASSUME NEW a \in Int
  PROVE  Max({0, a}) = IF a <= 0 THEN 0 ELSE a
  <1>1. \E x \in {0, a} : \A y \in {0, a} : x >= y
    OBVIOUS
  <1>2. Max({0, a}) \in {0, a} /\ \A y \in {0, a} : Max({0, a}) >= y
    BY <1>1 DEF Max
  <1> QED
    BY <1>2

\* The counter after a step, and the PUTs at work.
LEMMA CounterStep ==
  ASSUME Shapes, used \in Nat, NEW t \in Threads, Syncs(t)
  PROVE  /\ used' \in Nat
         /\ thread[t].pc = "resync" => used' = used
         /\ thread[t].pc = "sync_parent" =>
              used' = (IF used <= thread[t].bytes THEN 0 ELSE used - thread[t].bytes) + Size[thread[t].obj]
         /\ thread[t].pc = "sync_removed" =>
              used' = IF used <= thread[t].bytes THEN 0 ELSE used - thread[t].bytes
  <1>1. thread[t].bytes \in Nat /\ (thread[t].pc # "idle" => thread[t].obj \in Objects)
    BY DEF Shapes, ThreadRows
  <1>2. \A o \in Objects : Size[o] \in Nat
    BY StoreAssumption
  <1>3. Max({0, used - thread[t].bytes}) = IF used <= thread[t].bytes THEN 0 ELSE used - thread[t].bytes
    <2>1. used - thread[t].bytes \in Int
      BY <1>1
    <2>2. Max({0, used - thread[t].bytes}) = IF used - thread[t].bytes <= 0 THEN 0 ELSE used - thread[t].bytes
      BY <2>1, MaxZero
    <2> QED
      BY <1>1, <2>2
  <1>4. PICK m : m = Max({0, used - thread[t].bytes})
    OBVIOUS
  <1>5. m \in Nat /\ m = IF used <= thread[t].bytes THEN 0 ELSE used - thread[t].bytes
    BY <1>1, <1>3, <1>4
  <1>6. /\ thread[t].pc = "resync" => used' = used
        /\ thread[t].pc = "sync_parent" => used' = m + Size[thread[t].obj]
        /\ thread[t].pc = "sync_removed" => used' = m
        /\ thread[t].pc \in {"resync", "sync_parent", "sync_removed"}
    BY <1>4 DEF Syncs, Proceeds, Replaced
  <1> QED
    BY <1>1, <1>2, <1>5, <1>6

-----------------------------------------------------------------------------
(* Directories, posts and the counter's type.                              *)

LEMMA ServeKeepsPlaced ==
  ASSUME Shapes, Placed, UNCHANGED setting, NEW t \in Threads, Serve(t), faults' \in 0..MaxFaults
  PROVE  Placed' /\ up = "up"
  <1>1. StepOf(t) /\ up' = up /\ \A u \in Threads \ {t} : SameRow(u)
    BY ServeWorks
  <1>2. /\ Threads' = Threads /\ Works' = Works /\ MaxFaults' = MaxFaults /\ Namespace' = Namespace
    BY SameSetting DEF MaxFaults, Namespace
  <1>3. up = "up"
    BY <1>1 DEF Placed, StepOf, Begins, Advances, Fails, Syncs, Moves, Proceeds
  <1>4. used' \in Nat
    <2>1. CASE Syncs(t)
      BY <2>1, CounterStep DEF Placed
    <2>2. CASE ~Syncs(t)
      BY <1>1, <2>2 DEF Placed, StepOf, Begins, Advances, Fails, Moves
    <2> QED
      BY <2>1, <2>2
  <1>5. thread[t].pc # "idle" => thread[t].obj \in Works[t] /\ thread[t].obj \in Objects
    BY DEF Placed, Shapes
  <1>6. /\ dirs \subseteq dirs' /\ dirs' \subseteq Namespace /\ syncedDirs' \subseteq dirs'
    <2>1. dirs \subseteq Namespace /\ syncedDirs \subseteq dirs
      BY DEF Placed
    <2>2. thread[t].pc # "idle" => DirOf[thread[t].obj] \in Namespace
      BY <1>5 DEF Namespace
    <2> QED
      BY <1>1, <2>1, <2>2 DEF StepOf, Begins, Advances, Fails, Syncs, Moves, DiskRests, Proceeds
  <1>7. \A o \in Objects : files'[o] # "absent" => DirOf[o] \in dirs'
    <2>1. \A o \in Objects : files[o] # "absent" => DirOf[o] \in dirs
      BY DEF Placed, Present
    <2>2. CASE files' = files
      BY <1>6, <2>1, <2>2
    <2>3. CASE Moves(t)
      <3>1. thread[t].pc = "rename" => DirOf[thread[t].obj] \in dirs
        BY DEF Placed, Admitting
      <3>2. files \in Contents
        BY DEF Shapes
      <3> QED
        BY <1>6, <2>1, <2>3, <3>1, <3>2 DEF Moves, Proceeds, Contents
    <2> QED
      BY <1>1, <2>2, <2>3 DEF StepOf, Begins, Advances, Fails, Syncs, DiskRests
  <1>8. /\ thread'[t].pc # "idle" => thread'[t].obj \in Works[t]
        /\ thread'[t].pc \in Admitting \ {"dirs"} => DirOf[thread'[t].obj] \in dirs'
    <2>1. thread[t].pc \in Admitting \ {"dirs"} => DirOf[thread[t].obj] \in dirs
      BY DEF Placed
    <2> QED
      BY <1>1, <1>5, <1>6, <2>1 DEF StepOf, Begins, Advances, Fails, Syncs, Moves, DiskRests, Proceeds, Admitting
  <1>9. ASSUME NEW u \in Threads
        PROVE  /\ thread'[u].pc # "idle" => thread'[u].obj \in Works[u]
               /\ thread'[u].pc \in Admitting \ {"dirs"} => DirOf[thread'[u].obj] \in dirs'
    <2>1. /\ thread[u].pc # "idle" => thread[u].obj \in Works[u]
          /\ thread[u].pc \in Admitting \ {"dirs"} => DirOf[thread[u].obj] \in dirs
      BY DEF Placed
    <2> QED
      BY <1>1, <1>6, <1>8, <2>1 DEF SameRow
  <1> QED
    BY <1>1, <1>2, <1>3, <1>4, <1>6, <1>7, <1>9 DEF Placed, Present, Admitting

LEMMA PlacedNext ==
  ASSUME Shapes, Placed, [Next]_vars
  PROVE  Placed'
  <1>1. UNCHANGED setting
    BY DEF Next, vars
  <1>2. /\ Threads' = Threads /\ Works' = Works /\ MaxFaults' = MaxFaults /\ Namespace' = Namespace
    BY <1>1, SameSetting DEF MaxFaults, Namespace
  <1>3. faults \in 0..MaxFaults /\ MaxFaults \in Nat
    BY StoreAssumption DEF Placed, MaxFaults, Shapes
  <1>4. ASSUME NEW t \in Threads, Serve(t) PROVE Placed'
    <2>1. \/ faults' = faults
          \/ faults < MaxFaults /\ faults' = faults + 1
      BY <1>4 DEF Serve, BeginPut, BeginDelete, EnsureDirectory, SyncNamespace, CheckExisting, Resync,
         WriteTemporary, WriteFails, Rename, SyncParent, SyncFails, AckPut, RemoveFile, SyncRemoved
    <2>2. faults' \in 0..MaxFaults
      BY <1>3, <2>1
    <2> QED
      BY <1>1, <1>4, <2>2, ServeKeepsPlaced
  <1>5. CASE Start \/ SyncIdentity
    <2>1. used' = Bytes(Present) /\ Present \in SUBSET Objects
      BY <1>5 DEF Start, SyncIdentity, Serving, Present
    <2>2. used' \in Nat
      BY <2>1, BytesFacts
    <2>3. UNCHANGED <<diskVars, thread, faults>> /\ up' = "up"
      BY <1>5 DEF Start, SyncIdentity, Serving
    <2> QED
      BY <1>2, <2>2, <2>3 DEF Placed, Present, Admitting, diskVars
  <1>6. CASE CreateIdentity
    BY <1>2, <1>6 DEF CreateIdentity, Placed, Present, Admitting, diskVars
  <1>7. CASE UNCHANGED vars \/ BeginList \/ NextPage \/ EndList
    <2>1. UNCHANGED <<diskVars, used, up, thread, faults>>
      BY <1>7 DEF vars, diskVars, BeginList, NextPage, EndList
    <2> QED
      BY <1>2, <2>1 DEF Placed, Present, Admitting, diskVars
  <1>8. CASE Stop \/ PowerFailure
    <2>1. faults' \in 0..MaxFaults
      <3>1. faults < MaxFaults /\ faults' = faults + 1
        BY <1>8 DEF Stop, PowerFailure
      <3> QED
        BY <1>3, <3>1
    <2>2. used' = used /\ \A t \in Threads : thread'[t].pc = "idle"
      BY <1>8, DeadRows DEF Stop, PowerFailure
    <2>3. dirs' \subseteq Namespace /\ syncedDirs' \subseteq dirs'
      BY <1>8 DEF Stop, PowerFailure, diskVars, Placed
    <2>4. \A o \in Objects : files'[o] # "absent" => DirOf[o] \in dirs'
      BY <1>8 DEF Stop, PowerFailure, diskVars, Placed, Present
    <2> QED
      BY <1>2, <2>1, <2>2, <2>3, <2>4 DEF Placed, Present, Admitting
  <1>9. ASSUME NEW o \in Objects, Rot(o) PROVE Placed'
    <2>1. faults' \in 0..MaxFaults
      <3>1. faults < MaxFaults /\ faults' = faults + 1
        BY <1>9 DEF Rot
      <3> QED
        BY <1>3, <3>1
    <2>2. \A u \in Threads : SameRow(u)
      BY <1>9, RotRows
    <2>3. Present' = Present
      BY <1>9 DEF Rot, Present, Shapes, Contents
    <2>4. used' = used /\ up' = up /\ dirs' = dirs /\ syncedDirs' = syncedDirs
      BY <1>9 DEF Rot
    <2> QED
      BY <1>2, <2>1, <2>2, <2>3, <2>4 DEF Placed, SameRow, Admitting
  <1> QED
    BY <1>4, <1>5, <1>6, <1>7, <1>8, <1>9 DEF Next, Activity

-----------------------------------------------------------------------------
(* No thread is at work.                                                   *)

LEMMA NothingAtWork ==
  ASSUME Shapes, \A t \in Threads : thread[t].pc = "idle"
  PROVE  Over(Inflight) = 0 /\ Over(Adding) = 0 /\ Over(Removing) = 0 /\ Reckoned = Present
  <1>1. \A t \in Threads : Inflight[t] = 0 /\ Adding[t] = 0 /\ Removing[t] = 0
    BY DEF Inflight, Adding, Removing, Admitting
  <1>2. IsFiniteSet(Threads) /\ Threads \in SUBSET Threads /\ Cardinality(Threads) \in Nat
    BY ThreadFacts DEF Shapes
  <1>3. \A f : (\A t \in Threads : f[t] \in Nat /\ f[t] <= 0)
               => SumFunctionOnSet(f, Threads) <= Cardinality(Threads) * 0
    BY <1>2, SumBound
  <1>4. Cardinality(Threads) * 0 = 0
    BY <1>2
  <1>5. Over(Inflight) \in Nat /\ Over(Adding) \in Nat /\ Over(Removing) \in Nat
    BY Weights
  <1>6. Over(Inflight) <= 0 /\ Over(Adding) <= 0 /\ Over(Removing) <= 0
    BY <1>1, <1>3, <1>4 DEF Over
  <1>7. Reckoned = Present
    BY DEF Reckoned, Present
  <1> QED
    BY <1>5, <1>6, <1>7

-----------------------------------------------------------------------------
(* Admission.                                                              *)

\* What a step adds to the counter it takes off what is in flight.
LEMMA ServeAddsNothing ==
  ASSUME Shapes, used \in Nat, UNCHANGED setting, NEW t \in Threads, StepOf(t), thread[t].pc # "idle"
  PROVE  used' + Inflight'[t] <= used + Inflight[t] /\ used' \in Nat /\ Inflight'[t] \in Nat
  <1>1. Threads' = Threads
    BY SameSetting
  <1>2. /\ thread[t].obj \in Objects /\ Size[thread[t].obj] \in Nat /\ thread[t].bytes \in Nat
    BY StoreAssumption DEF Shapes, ThreadRows
  <1>3. /\ Inflight[t] = IF thread[t].pc \in Admitting THEN Size[thread[t].obj] ELSE 0
        /\ Inflight'[t] = IF thread'[t].pc \in Admitting THEN Size[thread'[t].obj] ELSE 0
    BY <1>1 DEF Inflight, Admitting
  <1>4. CASE Syncs(t)
    <2>1. thread[t].pc \in {"resync", "sync_parent", "sync_removed"} /\ Inflight'[t] = 0
      BY <1>3, <1>4 DEF Syncs, Proceeds, Admitting
    <2>2. Inflight[t] = IF thread[t].pc = "sync_parent" THEN Size[thread[t].obj] ELSE 0
      BY <1>3, <2>1 DEF Admitting
    <2>3. /\ used' \in Nat
          /\ thread[t].pc = "resync" => used' = used
          /\ thread[t].pc = "sync_parent" =>
               used' = (IF used <= thread[t].bytes THEN 0 ELSE used - thread[t].bytes) + Size[thread[t].obj]
          /\ thread[t].pc = "sync_removed" =>
               used' = IF used <= thread[t].bytes THEN 0 ELSE used - thread[t].bytes
      BY <1>4, CounterStep
    <2> QED
      BY <1>2, <2>1, <2>2, <2>3
  <1>5. CASE Advances(t) \/ Fails(t) \/ Moves(t)
    <2>1. /\ used' = used
          /\ thread'[t].pc \in Admitting => thread[t].pc \in Admitting /\ thread'[t].obj = thread[t].obj
      BY <1>5 DEF Advances, Fails, Moves, Proceeds, Admitting
    <2> QED
      BY <1>2, <1>3, <2>1
  <1> QED
    BY <1>4, <1>5 DEF StepOf, Begins

LEMMA BoundFacts ==
  ASSUME setting \in Settings
  PROVE  /\ Admissible \in Nat /\ (Cardinality(Threads) - 1) * Largest \in Nat
         /\ Bound = Admissible + (Cardinality(Threads) - 1) * Largest /\ Bound \in Nat
  <1>1. Admissible \in Nat
    BY StoreAssumption DEF Admissible
  <1>2. Cardinality(Threads) - 1 \in Nat /\ Largest \in Nat
    BY ThreadFacts, LargestFacts
  <1>3. (Cardinality(Threads) - 1) * Largest \in Nat
    BY <1>2
  <1> QED
    BY <1>1, <1>3 DEF Bound

\* A PUT is let in: whatever the others were let in for.
LEMMA AdmittedFits ==
  ASSUME Shapes, Shapes', used \in Nat, UNCHANGED setting, NEW t \in Threads, Begins(t),
         \A u \in Threads \ {t} : SameRow(u)
  PROVE  \/ thread'[t].pc = "dirs" /\ used' + Over(Inflight)' <= Bound
         \/ thread'[t].pc = "remove" /\ used' + Over(Inflight)' = used + Over(Inflight)
  <1>1. Threads' = Threads
    BY SameSetting
  <1>2. Over(Inflight)' + Inflight[t] = Over(Inflight) + Inflight'[t] /\ Over(Inflight)' \in Nat
    BY OverChange
  <1>3. /\ Inflight[t] = 0 /\ used' = used
        /\ Inflight'[t] = IF thread'[t].pc = "dirs" THEN Size[thread'[t].obj] ELSE 0
        /\ thread'[t].pc \in {"dirs", "remove"}
    BY <1>1 DEF Begins, Inflight, Admitting
  <1>4. Over(Inflight) \in Nat
    BY Weights
  <1>5. CASE thread'[t].pc = "remove"
    BY <1>2, <1>3, <1>4, <1>5
  <1>6. CASE thread'[t].pc = "dirs"
    <2>1. Size[thread'[t].obj] <= Admissible - used
      BY <1>6 DEF Begins, admit
    <2>2. thread'[t].obj \in Objects /\ Size[thread'[t].obj] \in Nat
      BY Works0, LargestFacts DEF Begins, Shapes
    <2>3. Over(Inflight) <= (Cardinality(Threads) - 1) * Largest
      <3>1. IsFiniteSet(Threads) /\ Threads \ {t} \in SUBSET Threads /\ Threads \in SUBSET Threads
        BY ThreadFacts DEF Shapes
      <3>2. \A u \in Threads : Inflight[u] \in Nat /\ Inflight[u] <= Largest
        BY Weights
      <3>3. Largest \in Nat
        BY LargestFacts
      <3>4. Cardinality(Threads \ {t}) = Cardinality(Threads) - 1
        BY <3>1, FS_RemoveElement
      <3>5. SumFunctionOnSet(Inflight, Threads \ {t}) <= Cardinality(Threads \ {t}) * Largest
        BY <3>1, <3>2, <3>3, SumBound
      <3>6. /\ SumFunctionOnSet(Inflight, Threads) = SumFunctionOnSet(Inflight, Threads \ {t}) + Inflight[t]
            /\ SumFunctionOnSet(Inflight, Threads \ {t}) \in Nat
        BY <3>1, <3>2, SumFacts
      <3> QED
        BY <1>3, <3>4, <3>5, <3>6 DEF Over
    <2>4. /\ Admissible \in Nat /\ (Cardinality(Threads) - 1) * Largest \in Nat
          /\ Bound = Admissible + (Cardinality(Threads) - 1) * Largest
      BY BoundFacts DEF Shapes
    <2>5. PICK m \in Nat : m = (Cardinality(Threads) - 1) * Largest
      BY <2>4
    <2> QED
      BY <1>2, <1>3, <1>4, <1>6, <2>1, <2>2, <2>3, <2>4, <2>5
  <1> QED
    BY <1>3, <1>5, <1>6

LEMMA SureBefore ==
  ASSUME Shapes, UNCHANGED setting, faults' = faults \/ faults' = faults + 1
  PROVE  /\ Bound' = Bound /\ Alone' = Alone /\ Threads' = Threads
         /\ Sure' => Sure
         /\ (faults' = faults + 1 /\ Sure') => faults = 0 /\ Alone /\ ~IoErrors
         /\ Admissible' = Admissible /\ IoErrors' = IoErrors
  <1>1. /\ Threads' = Threads /\ Works' = Works /\ Admissible' = Admissible /\ IoErrors' = IoErrors
    BY SameSetting DEF Admissible, IoErrors
  <1>2. Bound' = Bound /\ Alone' = Alone
    BY <1>1 DEF Bound, Alone, OwnObjects, Largest
  <1>3. faults \in Nat
    BY DEF Shapes
  <1> QED
    BY <1>1, <1>2, <1>3 DEF Sure, Alone

LEMMA ServeKeepsRoom ==
  ASSUME Shapes, Shapes', Placed, Room, UNCHANGED setting, NEW t \in Threads, Serve(t)
  PROVE  Room'
  <1>1. StepOf(t) /\ up' = up /\ \A u \in Threads \ {t} : SameRow(u)
    BY ServeWorks
  <1>2. faults' = faults \/ faults' = faults + 1
    BY <1>1 DEF StepOf, Begins, Advances, Fails, Syncs, Moves
  <1>3. Bound' = Bound /\ (Sure' => Sure)
    BY <1>2, SureBefore
  <1>4. used \in Nat /\ Bound \in Nat /\ Over(Inflight) \in Nat
    BY Weights, BoundFacts DEF Placed, Shapes
  <1>5. CASE thread[t].pc = "idle"
    <2>1. Begins(t)
      BY <1>1, <1>5 DEF StepOf, Advances, Fails, Syncs, Moves, Proceeds
    <2>2. used' + Over(Inflight)' <= Bound \/ used' + Over(Inflight)' = used + Over(Inflight)
      BY <1>1, <1>4, <2>1, AdmittedFits
    <2> QED
      BY <1>1, <1>3, <2>2 DEF Room
  <1>6. CASE thread[t].pc # "idle"
    <2>1. used' + Inflight'[t] <= used + Inflight[t] /\ used' \in Nat /\ Inflight'[t] \in Nat
      BY <1>1, <1>4, <1>6, ServeAddsNothing
    <2>2. Over(Inflight)' + Inflight[t] = Over(Inflight) + Inflight'[t] /\ Over(Inflight)' \in Nat
      BY <1>1, OverChange
    <2>3. Inflight[t] \in Nat
      BY Weights
    <2>4. used' + Over(Inflight)' <= used + Over(Inflight)
      BY <1>4, <2>1, <2>2, <2>3
    <2>5. used' + Over(Inflight)' \in Nat
      BY <2>1, <2>2
    <2> QED
      BY <1>1, <1>3, <1>4, <2>4, <2>5 DEF Room
  <1> QED
    BY <1>5, <1>6

-----------------------------------------------------------------------------
(* Before the first fault.                                                 *)

LEMMA AddingRow ==
  ASSUME Shapes, UNCHANGED setting, NEW t \in Threads
  PROVE  /\ Adding[t] = (IF thread[t].pc = "sync_parent" THEN Size[thread[t].obj] ELSE 0)
         /\ Removing[t] = (IF thread[t].pc = "sync_removed" THEN Size[thread[t].obj] ELSE 0)
         /\ Adding'[t] = (IF thread'[t].pc = "sync_parent" THEN Size[thread'[t].obj] ELSE 0)
         /\ Removing'[t] = (IF thread'[t].pc = "sync_removed" THEN Size[thread'[t].obj] ELSE 0)
         /\ thread[t].pc # "idle" => thread[t].obj \in Objects /\ Size[thread[t].obj] \in Nat
  <1>1. Threads' = Threads
    BY SameSetting
  <1> QED
    BY <1>1, LargestFacts DEF Adding, Removing, Shapes

\* Files come and go, and the counter follows.
Balance == Bytes(Present) + Over(Removing) <= used + Over(Adding)

LEMMA ServeKeepsBalance ==
  ASSUME Shapes, Shapes', Placed, Clean, UNCHANGED setting, NEW t \in Threads, StepOf(t), ~Fails(t),
         \A u \in Threads \ {t} : SameRow(u)
  PROVE  Balance'
  <1>1. /\ Over(Adding)' + Adding[t] = Over(Adding) + Adding'[t]
        /\ Over(Removing)' + Removing[t] = Over(Removing) + Removing'[t]
        /\ Over(Adding)' \in Nat /\ Over(Removing)' \in Nat
    BY OverChange
  <1>2. Over(Adding) \in Nat /\ Over(Removing) \in Nat /\ used \in Nat
    BY Weights DEF Placed
  <1>3. /\ Adding[t] = (IF thread[t].pc = "sync_parent" THEN Size[thread[t].obj] ELSE 0)
        /\ Removing[t] = (IF thread[t].pc = "sync_removed" THEN Size[thread[t].obj] ELSE 0)
        /\ Adding'[t] = (IF thread'[t].pc = "sync_parent" THEN Size[thread'[t].obj] ELSE 0)
        /\ Removing'[t] = (IF thread'[t].pc = "sync_removed" THEN Size[thread'[t].obj] ELSE 0)
        /\ thread[t].pc # "idle" => thread[t].obj \in Objects /\ Size[thread[t].obj] \in Nat
    BY AddingRow
  <1>4. Present \in SUBSET Objects /\ Bytes(Present) \in Nat
    BY BytesFacts DEF Present
  <1>5. Bytes(Present) + Over(Removing) <= used + Over(Adding)
    BY DEF Clean
  <1>6. CASE Begins(t) \/ Advances(t)
    <2>1. /\ files' = files /\ used' = used
          /\ thread[t].pc \notin {"sync_parent", "sync_removed"}
          /\ thread'[t].pc \notin {"sync_parent", "sync_removed"}
      BY <1>6 DEF Begins, Advances, DiskRests, Proceeds
    <2>2. Present' = Present
      BY <2>1 DEF Present
    <2>3. Bytes(Present)' = Bytes(Present)
      BY <2>2 DEF Bytes
    <2> QED
      BY <1>1, <1>2, <1>3, <1>5, <2>1, <2>3 DEF Balance
  <1>7. CASE Syncs(t)
    <2>1. files' = files /\ thread'[t].pc \notin {"sync_parent", "sync_removed"}
      BY <1>7 DEF Syncs, Proceeds
    <2>2. Present' = Present
      BY <2>1 DEF Present
    <2>3. Bytes(Present)' = Bytes(Present)
      BY <2>2 DEF Bytes
    <2>4. /\ used' \in Nat
          /\ thread[t].pc = "resync" => used' = used
          /\ thread[t].pc = "sync_parent" =>
               used' = (IF used <= thread[t].bytes THEN 0 ELSE used - thread[t].bytes) + Size[thread[t].obj]
          /\ thread[t].pc = "sync_removed" =>
               used' = IF used <= thread[t].bytes THEN 0 ELSE used - thread[t].bytes
      BY <1>2, <1>7, CounterStep
    <2>5. /\ thread[t].pc = "sync_parent" => thread[t].bytes = 0
          /\ thread[t].pc = "sync_removed" => thread[t].bytes = Size[thread[t].obj]
          /\ thread[t].pc \in {"resync", "sync_parent", "sync_removed"}
      BY <1>7 DEF Clean, Admitting, Syncs, Proceeds
    <2>6. CASE thread[t].pc = "resync"
      BY <1>1, <1>2, <1>3, <1>5, <2>1, <2>3, <2>4, <2>6 DEF Balance
    <2>7. CASE thread[t].pc = "sync_parent"
      <3>1. used' = used + Size[thread[t].obj] /\ Size[thread[t].obj] \in Nat
        BY <1>2, <1>3, <2>4, <2>5, <2>7
      <3> QED
        BY <1>1, <1>2, <1>3, <1>4, <1>5, <2>1, <2>3, <2>7, <3>1 DEF Balance
    <2>8. CASE thread[t].pc = "sync_removed"
      <3>1. used' >= used - Size[thread[t].obj] /\ Size[thread[t].obj] \in Nat
        BY <1>2, <1>3, <2>4, <2>5, <2>8
      <3> QED
        BY <1>1, <1>2, <1>3, <1>4, <1>5, <2>1, <2>3, <2>4, <2>8, <3>1 DEF Balance
    <2> QED
      BY <2>5, <2>6, <2>7, <2>8
  <1>8. CASE Moves(t)
    <2>1. PICK o \in Objects : o = thread[t].obj
      BY <1>3, <1>8 DEF Moves, Proceeds
    <2>2. files \in Contents /\ used' = used /\ Size[o] \in Nat
      BY <1>3, <1>8, <2>1 DEF Shapes, Moves, Proceeds
    <2>3. CASE Proceeds(t, "rename", "sync_parent")
      <3>1. Present' = Present \cup {o}
        BY <1>8, <2>1, <2>2, <2>3 DEF Moves, Proceeds, Present, Contents
      <3>2. Bytes(Present \cup {o}) <= Bytes(Present) + Size[o] /\ Bytes(Present \cup {o}) \in Nat
        <4>1. CASE o \in Present
          <5>1. Present \cup {o} = Present
            BY <4>1
          <5>2. Bytes(Present \cup {o}) = Bytes(Present)
            BY <5>1, Zenon
          <5> QED
            BY <1>4, <2>2, <5>2
        <4>2. CASE o \notin Present
          <5>1. Bytes(Present \cup {o}) = Bytes(Present) + Size[o]
            BY <1>4, <4>2, BytesFacts
          <5> QED
            BY <1>4, <2>2, <5>1
        <4> QED
          BY <4>1, <4>2
      <3>3. Bytes(Present)' = Bytes(Present \cup {o})
        BY <3>1 DEF Bytes
      <3> QED
        BY <1>1, <1>2, <1>3, <1>4, <1>5, <2>1, <2>2, <2>3, <3>2, <3>3 DEF Balance, Proceeds
    <2>4. CASE Proceeds(t, "remove", "sync_removed")
      <3>1. Present' = Present \ {o} /\ o \in Present
        BY <1>8, <2>1, <2>2, <2>4 DEF Moves, Proceeds, Present, Contents
      <3>2. Bytes(Present) = Bytes(Present \ {o}) + Size[o] /\ Bytes(Present \ {o}) \in Nat
        <4>1. Present \ {o} \in SUBSET Objects
          BY <1>4
        <4> QED
          BY <1>4, <3>1, <4>1, BytesFacts
      <3>3. Bytes(Present)' = Bytes(Present \ {o})
        BY <3>1 DEF Bytes
      <3> QED
        BY <1>1, <1>2, <1>3, <1>4, <1>5, <2>1, <2>2, <2>4, <3>2, <3>3 DEF Balance, Proceeds
    <2> QED
      BY <1>8, <2>3, <2>4 DEF Moves
  <1> QED
    BY <1>6, <1>7, <1>8 DEF StepOf

\* A removal that is not synced has its thread waiting.
Awaited == \A o \in Stale : \E t \in Threads : thread[t].pc = "sync_removed" /\ thread[t].obj = o

LEMMA ServeKeepsAwaited ==
  ASSUME Shapes, Awaited, UNCHANGED setting, NEW t \in Threads, StepOf(t), ~Fails(t),
         \A u \in Threads \ {t} : SameRow(u)
  PROVE  Awaited'
  <1>1. Threads' = Threads /\ files \in Contents /\ synced \in Contents
    BY SameSetting DEF Shapes
  <1>2. SUFFICES ASSUME NEW o \in Objects, files'[o] = "absent", synced'[o] # "absent"
                 PROVE  \E u \in Threads : thread'[u].pc = "sync_removed" /\ thread'[u].obj = o
    BY <1>1 DEF Awaited, Stale
  <1>3. ASSUME o \in Stale, ~(thread[t].pc = "sync_removed" /\ thread[t].obj = o)
        PROVE  \E u \in Threads : thread'[u].pc = "sync_removed" /\ thread'[u].obj = o
    BY <1>3 DEF Awaited, SameRow
  <1>4. CASE Begins(t) \/ Advances(t)
    <2>1. files' = files /\ synced' = synced /\ thread[t].pc # "sync_removed"
      BY <1>4 DEF Begins, Advances, DiskRests, Proceeds
    <2> QED
      BY <1>2, <1>3, <2>1 DEF Stale
  <1>5. CASE Syncs(t)
    <2>1. /\ files' = files
          /\ synced' = [p \in Objects |-> IF DirOf[p] = DirOf[thread[t].obj] THEN files[p] ELSE synced[p]]
      BY <1>5 DEF Syncs, SyncedIn
    <2>2. o \in Stale /\ DirOf[o] # DirOf[thread[t].obj]
      BY <1>2, <2>1 DEF Stale
    <2> QED
      BY <1>3, <2>2
  <1>6. CASE Moves(t)
    <2>1. synced' = synced
      BY <1>6 DEF Moves
    <2>2. CASE Proceeds(t, "rename", "sync_parent")
      <3>1. files' = [files EXCEPT ![thread[t].obj] = "good"] /\ thread[t].pc # "sync_removed"
        BY <1>6, <2>2 DEF Moves, Proceeds
      <3>2. o \in Stale
        BY <1>1, <1>2, <2>1, <3>1 DEF Stale, Contents
      <3> QED
        BY <1>3, <3>1, <3>2
    <2>3. CASE Proceeds(t, "remove", "sync_removed")
      <3>1. /\ files' = [files EXCEPT ![thread[t].obj] = "absent"] /\ thread[t].pc # "sync_removed"
            /\ thread'[t].pc = "sync_removed" /\ thread'[t].obj = thread[t].obj
        BY <1>6, <2>3 DEF Moves, Proceeds
      <3>2. o = thread[t].obj \/ o \in Stale
        BY <1>1, <1>2, <2>1, <3>1 DEF Stale, Contents
      <3> QED
        BY <1>3, <3>1, <3>2
    <2> QED
      BY <1>6, <2>2, <2>3 DEF Moves
  <1> QED
    BY <1>4, <1>5, <1>6 DEF StepOf

LEMMA ServeKeepsClean ==
  ASSUME Shapes, Shapes', Placed, Clean, UNCHANGED setting, NEW t \in Threads, StepOf(t), ~Fails(t),
         \A u \in Threads \ {t} : SameRow(u)
  PROVE  Clean'
  <1>1. Threads' = Threads /\ files \in Contents /\ synced \in Contents
    BY SameSetting DEF Shapes
  <1>2. Balance' /\ Awaited'
    BY ServeKeepsBalance, ServeKeepsAwaited DEF Clean, Awaited
  <1>3. \A o \in Objects : files'[o] # "bad" /\ synced'[o] # "bad"
    <2>1. \A o \in Objects : files[o] # "bad" /\ synced[o] # "bad"
      BY DEF Clean
    <2>2. CASE files' = files /\ (synced' = synced \/ synced' = SyncedIn(DirOf[thread[t].obj]))
      BY <1>1, <2>1, <2>2 DEF SyncedIn, Contents
    <2>3. CASE Moves(t)
      BY <1>1, <2>1, <2>3 DEF Moves, Contents
    <2> QED
      BY <2>2, <2>3 DEF StepOf, Begins, Advances, Syncs, DiskRests
  <1>4. /\ thread'[t].pc \in Admitting => thread'[t].bytes = 0
        /\ thread'[t].pc \in {"remove", "sync_removed"} => thread'[t].bytes = Size[thread'[t].obj]
    <2>1. /\ thread[t].pc \in Admitting => thread[t].bytes = 0
          /\ thread[t].pc \in {"remove", "sync_removed"} => thread[t].bytes = Size[thread[t].obj]
          /\ thread[t].pc # "idle" => files[thread[t].obj] # "bad"
      BY DEF Clean, Shapes
    <2> QED
      BY <2>1 DEF StepOf, Begins, Advances, Syncs, Moves, Proceeds, Admitting
  <1>5. ASSUME NEW u \in Threads
        PROVE  /\ thread'[u].pc \in Admitting => thread'[u].bytes = 0
               /\ thread'[u].pc \in {"remove", "sync_removed"} => thread'[u].bytes = Size[thread'[u].obj]
    <2>1. /\ thread[u].pc \in Admitting => thread[u].bytes = 0
          /\ thread[u].pc \in {"remove", "sync_removed"} => thread[u].bytes = Size[thread[u].obj]
      BY DEF Clean
    <2> QED
      BY <1>4, <2>1 DEF SameRow
  <1> QED
    BY <1>1, <1>2, <1>3, <1>5 DEF Clean, Balance, Awaited, Admitting

-----------------------------------------------------------------------------
(* Where no two threads share an object and no sync fails, the counter is  *)
(* exact, whatever else happens.                                           *)

\* Present is the same for what others work on.
LEMMA OthersKnow ==
  ASSUME Shapes, Placed, OwnObjects, UNCHANGED setting, NEW t \in Threads, StepOf(t),
         \A u \in Threads \ {t} : SameRow(u), Exact
  PROVE  \A u \in Threads \ {t} : KnowsFile(thread[u])'
  <1>1. \A o \in Objects : (o \in Present' <=> o \in Present) \/ (thread[t].pc # "idle" /\ o = thread[t].obj)
    <2>1. CASE files' = files
      BY <2>1 DEF Present
    <2>2. CASE Moves(t)
      <3>1. files \in Contents
        BY DEF Shapes
      <3> QED
        BY <2>2, <3>1 DEF Moves, Proceeds, Present, Contents
    <2> QED
      BY <2>1, <2>2 DEF StepOf, Begins, Advances, Fails, Syncs, DiskRests
  <1>2. ASSUME NEW u \in Threads \ {t}, thread[u].pc # "idle", thread[t].pc # "idle"
        PROVE  thread[u].obj # thread[t].obj
    <2>1. thread[u].obj \in Works[u] /\ thread[t].obj \in Works[t]
      BY <1>2 DEF Placed
    <2> QED
      BY <2>1 DEF OwnObjects
  <1>3. ASSUME NEW u \in Threads \ {t} PROVE KnowsFile(thread[u])'
    <2>1. /\ KnowsFile(thread[u]) /\ thread'[u].pc = thread[u].pc /\ thread'[u].obj = thread[u].obj
          /\ thread'[u].bytes = thread[u].bytes
      BY DEF Exact, SameRow
    <2>2. thread[u].pc # "idle" => (thread[u].obj \in Present' <=> thread[u].obj \in Present)
      BY <1>1, <1>2 DEF Shapes
    <2> QED
      BY <2>1, <2>2 DEF KnowsFile
  <1> QED
    BY <1>3

LEMMA ServeKnows ==
  ASSUME Shapes, NEW t \in Threads, StepOf(t), ~Fails(t), Exact
  PROVE  KnowsFile(thread[t])'
  <1>1. KnowsFile(thread[t]) /\ (thread[t].pc # "idle" => thread[t].obj \in Objects) /\ files \in Contents
    BY DEF Exact, Shapes
  <1>2. CASE Begins(t)
    <2>1. thread'[t].obj \in Objects
      BY <1>2, Works0 DEF Begins, Shapes
    <2> QED
      BY <1>2, <2>1 DEF Begins, DiskRests, KnowsFile, Present
  <1>3. CASE Advances(t)
    <2>1. Present' = Present
      BY <1>3 DEF Advances, Present
    <2>2. thread[t].pc = "check" /\ thread'[t].pc = "write" =>
             thread'[t].bytes = IF thread[t].obj \in Present THEN Size[thread[t].obj] ELSE 0
      BY <1>1, <1>3 DEF Advances, Proceeds, Present, Contents
    <2> QED
      BY <1>1, <1>3, <2>1, <2>2 DEF Advances, Proceeds, KnowsFile
  <1>4. CASE Syncs(t)
    BY <1>4 DEF Syncs, Proceeds, KnowsFile
  <1>5. CASE Moves(t)
    <2>1. \/ Proceeds(t, "rename", "sync_parent") /\ thread[t].obj \in Present'
          \/ Proceeds(t, "remove", "sync_removed") /\ thread[t].obj \notin Present'
      BY <1>1, <1>5 DEF Moves, Proceeds, Present, Contents
    <2>2. thread'[t].bytes = thread[t].bytes
      BY <1>5 DEF Moves
    <2> QED
      BY <1>1, <2>1, <2>2 DEF Proceeds, KnowsFile
  <1> QED
    BY <1>2, <1>3, <1>4, <1>5 DEF StepOf

\* What a thread's object counts for: nobody else works on it.
Reckons(r) == (r.obj \in Present /\ (r.pc = "sync_parent" => r.bytes # 0)) \/ r.pc = "sync_removed"

LEMMA OwnReckoned ==
  ASSUME Shapes, Placed, OwnObjects, NEW t \in Threads, thread[t].pc # "idle"
  PROVE  thread[t].obj \in Reckoned <=> Reckons(thread[t])
  <1>1. \A u \in Threads \ {t} : thread[u].pc # "idle" => thread[u].obj # thread[t].obj
    BY DEF Placed, OwnObjects
  <1>2. thread[t].obj \in Objects
    BY DEF Shapes
  <1> QED
    BY <1>1, <1>2 DEF Reckoned, Reckons

\* The step changes what the counter stands for only at the thread's object.
LEMMA OthersReckoned ==
  ASSUME Shapes, UNCHANGED setting, NEW t \in Threads, StepOf(t), thread[t].pc # "idle",
         \A u \in Threads \ {t} : SameRow(u),
         thread'[t].obj = thread[t].obj \/ thread'[t].pc = "idle"
  PROVE  \A o \in Objects \ {thread[t].obj} : o \in Reckoned' <=> o \in Reckoned
  <1>1. Threads' = Threads /\ files \in Contents
    BY SameSetting DEF Shapes
  <1>2. \A o \in Objects \ {thread[t].obj} : o \in Present' <=> o \in Present
    <2>1. CASE files' = files
      BY <2>1 DEF Present
    <2>2. CASE Moves(t)
      BY <1>1, <2>2 DEF Moves, Proceeds, Present, Contents
    <2> QED
      BY <2>1, <2>2 DEF StepOf, Begins, Advances, Fails, Syncs, DiskRests
  <1>3. \A o \in Objects : o \in Reckoned <=>
          \/ /\ o \in Present
             /\ \A u \in Threads : thread[u].pc = "sync_parent" /\ thread[u].obj = o => thread[u].bytes # 0
          \/ \E u \in Threads : thread[u].pc = "sync_removed" /\ thread[u].obj = o
    BY DEF Reckoned
  <1>4. \A o \in Objects : o \in Reckoned' <=>
          \/ /\ o \in Present'
             /\ \A u \in Threads : thread'[u].pc = "sync_parent" /\ thread'[u].obj = o => thread'[u].bytes # 0
          \/ \E u \in Threads : thread'[u].pc = "sync_removed" /\ thread'[u].obj = o
    BY <1>1 DEF Reckoned
  <1>5. \A u \in Threads : \A o \in Objects \ {thread[t].obj} :
          /\ (thread'[u].pc = "sync_parent" /\ thread'[u].obj = o /\ thread'[u].bytes = 0)
               <=> (thread[u].pc = "sync_parent" /\ thread[u].obj = o /\ thread[u].bytes = 0)
          /\ (thread'[u].pc = "sync_removed" /\ thread'[u].obj = o)
               <=> (thread[u].pc = "sync_removed" /\ thread[u].obj = o)
    BY DEF SameRow
  <1> QED
    BY <1>2, <1>3, <1>4, <1>5

LEMMA ServeKeepsExact ==
  ASSUME Shapes, Shapes', Placed, Placed', Exact, OwnObjects, OwnObjects', UNCHANGED setting, up = "up",
         NEW t \in Threads, StepOf(t), ~Fails(t), \A u \in Threads \ {t} : SameRow(u)
  PROVE  used' = Bytes(Reckoned)'
  <1>1. Threads' = Threads
    BY SameSetting
  <1>2. used = Bytes(Reckoned) /\ Reckoned \in SUBSET Objects /\ used \in Nat
    BY DEF Exact, Reckoned, Placed
  <1>3. ASSUME Reckoned' = Reckoned, used' = used PROVE used' = Bytes(Reckoned)'
    BY <1>2, <1>3 DEF Bytes
  <1>4. CASE Begins(t)
    <2>1. /\ files' = files /\ used' = used /\ thread[t].pc = "idle" /\ thread'[t].pc \in {"dirs", "remove"}
      BY <1>4 DEF Begins, DiskRests
    <2>2. Present' = Present
      BY <2>1 DEF Present
    <2>3. \A u \in Threads : \A o \in Objects :
            /\ (thread'[u].pc = "sync_parent" /\ thread'[u].obj = o /\ thread'[u].bytes = 0)
                 <=> (thread[u].pc = "sync_parent" /\ thread[u].obj = o /\ thread[u].bytes = 0)
            /\ (thread'[u].pc = "sync_removed" /\ thread'[u].obj = o)
                 <=> (thread[u].pc = "sync_removed" /\ thread[u].obj = o)
      BY <2>1 DEF SameRow
    <2>4. Reckoned' = Reckoned
      BY <1>1, <2>2, <2>3 DEF Reckoned
    <2> QED
      BY <1>3, <2>1, <2>4
  <1>5. ASSUME thread[t].pc # "idle", thread'[t].obj = thread[t].obj \/ thread'[t].pc = "idle"
        PROVE  used' = Bytes(Reckoned)'
    <2>1. PICK o \in Objects : o = thread[t].obj
      BY <1>5 DEF Shapes
    <2>2. \A p \in Objects \ {o} : p \in Reckoned' <=> p \in Reckoned
      BY <1>5, <2>1, OthersReckoned
    <2>3. o \in Reckoned <=> Reckons(thread[t])
      BY <1>5, <2>1, OwnReckoned
    <2>4. o \in Reckoned' <=> /\ o \in Present'
                              /\ thread'[t].pc = "sync_parent" => thread'[t].bytes # 0
                           \/ thread'[t].pc = "sync_removed"
      <3>1. \A u \in Threads \ {t} : thread'[u].pc # "idle" => thread'[u].obj # o
        BY <1>5, <2>1 DEF Placed, OwnObjects, SameRow
      <3>2. o \in Reckoned' <=>
              \/ o \in Present' /\ \A u \in Threads :
                   thread'[u].pc = "sync_parent" /\ thread'[u].obj = o => thread'[u].bytes # 0
              \/ \E u \in Threads : thread'[u].pc = "sync_removed" /\ thread'[u].obj = o
        BY <1>1 DEF Reckoned
      <3> QED
        BY <1>5, <2>1, <3>1, <3>2
    <2>5. Reckoned' \in SUBSET Objects
      BY DEF Reckoned
    <2>6. KnowsFile(thread[t]) /\ Size[o] \in Nat /\ Size[o] # 0 /\ thread[t].bytes \in Nat
      BY LargestFacts DEF Exact, Shapes, ThreadRows
    <2>7. ASSUME used' = used, o \in Reckoned' <=> o \in Reckoned PROVE used' = Bytes(Reckoned)'
      <3>1. Reckoned' = Reckoned
        BY <1>2, <2>2, <2>5, <2>7
      <3> QED
        BY <1>3, <2>7, <3>1
    <2>8. CASE Advances(t)
      <3>1. /\ Present' = Present /\ used' = used
            /\ thread[t].pc \notin {"sync_parent", "sync_removed"}
            /\ thread'[t].pc \notin {"sync_parent", "sync_removed"}
        BY <2>8 DEF Advances, Proceeds, Present
      <3> QED
        BY <2>1, <2>3, <2>4, <2>7, <3>1 DEF Reckons
    <2>9. CASE Moves(t)
      <3>1. /\ used' = used /\ thread'[t].bytes = thread[t].bytes
            /\ \/ Proceeds(t, "rename", "sync_parent") /\ o \in Present'
               \/ Proceeds(t, "remove", "sync_removed")
        <4>1. files \in Contents
          BY DEF Shapes
        <4> QED
          BY <2>1, <2>9, <4>1 DEF Moves, Present, Contents
      <3>2. o \in Reckoned' <=> o \in Reckoned
        BY <2>1, <2>3, <2>4, <2>6, <3>1 DEF KnowsFile, Reckons, Proceeds
      <3> QED
        BY <2>7, <3>1, <3>2
    <2>10. CASE Syncs(t)
      <3>1. Present' = Present /\ thread'[t].pc \in {"ack", "idle"}
        BY <2>10 DEF Syncs, Proceeds, Present
      <3>2. /\ used' \in Nat /\ thread[t].pc \in {"resync", "sync_parent", "sync_removed"}
            /\ thread[t].pc = "resync" => used' = used
            /\ thread[t].pc = "sync_parent" =>
                 used' = (IF used <= thread[t].bytes THEN 0 ELSE used - thread[t].bytes) + Size[o]
            /\ thread[t].pc = "sync_removed" =>
                 used' = IF used <= thread[t].bytes THEN 0 ELSE used - thread[t].bytes
        BY <1>2, <2>1, <2>10, CounterStep DEF Syncs, Proceeds
      <3>3. o \in Reckoned => Bytes(Reckoned) = Bytes(Reckoned \ {o}) + Size[o] /\ Bytes(Reckoned \ {o}) \in Nat
        <4>1. Reckoned \ {o} \in SUBSET Objects
          BY <1>2
        <4> QED
          BY <1>2, <4>1, BytesFacts
      <3>4. CASE thread[t].pc = "resync"
        BY <2>1, <2>3, <2>4, <2>7, <3>1, <3>2, <3>4 DEF Reckons
      <3>5. CASE thread[t].pc = "sync_parent" /\ thread[t].bytes = 0
        <4>1. o \in Present' /\ o \notin Reckoned
          BY <2>1, <2>3, <2>6, <3>1, <3>5 DEF KnowsFile, Reckons
        <4>2. o \in Reckoned'
          BY <2>4, <3>1, <4>1
        <4>3. Reckoned' = Reckoned \cup {o}
          BY <1>2, <2>2, <2>5, <4>2
        <4>4. Bytes(Reckoned \cup {o}) = Bytes(Reckoned) + Size[o]
          BY <1>2, <4>1, BytesFacts
        <4>5. Bytes(Reckoned)' = Bytes(Reckoned \cup {o})
          BY <4>3 DEF Bytes
        <4> QED
          BY <1>2, <2>6, <3>2, <3>5, <4>4, <4>5
      <3>6. CASE thread[t].pc = "sync_parent" /\ thread[t].bytes # 0
        <4>1. o \in Present' /\ o \in Reckoned /\ thread[t].bytes = Size[o]
          BY <2>1, <2>3, <2>6, <3>1, <3>6 DEF KnowsFile, Reckons
        <4>2. o \in Reckoned'
          BY <2>4, <3>1, <4>1
        <4>3. used' = used
          BY <1>2, <2>6, <3>2, <3>3, <3>6, <4>1
        <4> QED
          BY <2>7, <4>1, <4>2, <4>3
      <3>7. CASE thread[t].pc = "sync_removed"
        <4>1. o \notin Present' /\ o \in Reckoned /\ thread[t].bytes = Size[o]
          BY <2>1, <2>3, <2>6, <3>1, <3>7 DEF KnowsFile, Reckons
        <4>2. o \notin Reckoned'
          BY <2>4, <3>1, <4>1
        <4>3. Reckoned' = Reckoned \ {o}
          BY <1>2, <2>2, <2>5, <4>2
        <4>4. Bytes(Reckoned)' = Bytes(Reckoned \ {o})
          BY <4>3 DEF Bytes
        <4> QED
          BY <1>2, <2>6, <3>2, <3>3, <3>7, <4>1, <4>4
      <3> QED
        BY <3>2, <3>4, <3>5, <3>6, <3>7
    <2> QED
      BY <1>5, <2>8, <2>9, <2>10 DEF StepOf, Begins
  <1>6. CASE thread[t].pc # "idle"
    <2>1. thread'[t].obj = thread[t].obj \/ thread'[t].pc = "idle"
      BY <1>6 DEF StepOf, Begins, Advances, Fails, Syncs, Moves, Proceeds
    <2> QED
      BY <1>5, <1>6, <2>1
  <1> QED
    BY <1>4, <1>6 DEF StepOf, Advances, Fails, Syncs, Moves, Proceeds

-----------------------------------------------------------------------------
(* The books together.                                                     *)

Books == Placed /\ (faults = 0 => Clean) /\ (Alone => Exact) /\ Room

\* What the files take is counted, or on its way to be.
LEMMA BooksImplyQuota ==
  ASSUME Shapes, Books, up = "up"
  PROVE  QuotaKept
  <1>1. SUFFICES ASSUME Sure PROVE Bytes(Present) <= Bound
    BY DEF QuotaKept, Sure, Alone, Bound
  <1>2. used + Over(Inflight) <= Bound /\ used \in Nat
    BY <1>1 DEF Books, Room, Placed
  <1>3. /\ Over(Inflight) \in Nat /\ Over(Adding) \in Nat /\ Over(Removing) \in Nat /\ Bound \in Nat
        /\ Over(Adding) <= Over(Inflight)
    BY Weights, BoundFacts DEF Shapes
  <1>4. Present \in SUBSET Objects /\ Bytes(Present) \in Nat
    BY BytesFacts DEF Present
  <1>5. Bytes(Present) <= used + Over(Adding)
    <2>1. CASE faults = 0
      <3>1. Bytes(Present) + Over(Removing) <= used + Over(Adding)
        BY <2>1 DEF Books, Clean
      <3> QED
        BY <1>2, <1>3, <1>4, <3>1
    <2>2. CASE Alone
      <3>1. used = Bytes(Reckoned)
        BY <2>2 DEF Books, Exact
      <3> DEFINE T == {o \in Objects : \E t \in Threads : thread[t].pc = "sync_parent" /\ thread[t].obj = o}
                 c == [t \in Threads |-> thread[t].obj]
      <3>2. Present \subseteq Reckoned \cup T /\ Reckoned \in SUBSET Objects /\ T \in SUBSET Objects
        BY DEF Reckoned, Present
      <3>3. \A o \in T : \E t \in Threads : c[t] = o /\ Size[o] <= Adding[t]
        <4>1. \A o \in Objects : Size[o] <= Size[o]
          BY LargestFacts
        <4> QED
          BY <4>1 DEF Adding
      <3>4. \A t \in Threads : Adding[t] \in Nat
        BY Weights
      <3> HIDE DEF T, c
      <3>5. Bytes(Reckoned \cup T) <= Bytes(Reckoned) + Over(Adding)
        <4>1. setting \in Settings
          BY DEF Shapes
        <4> QED
          BY <3>2, <3>3, <3>4, <4>1, BytesCovered DEF Over
      <3>6. Reckoned \cup T \in SUBSET Objects
        BY <3>2
      <3>7. Bytes(Present) <= Bytes(Reckoned \cup T) /\ Bytes(Reckoned \cup T) \in Nat
        BY <1>4, <3>2, <3>6, BytesFacts
      <3> QED
        BY <1>2, <1>3, <1>4, <3>1, <3>5, <3>7
    <2> QED
      BY <1>1, <2>1, <2>2 DEF Sure
  <1> QED
    BY <1>2, <1>3, <1>4, <1>5

LEMMA QuotaNext == Shapes' /\ Books' /\ (up = "up")' => QuotaKept'
  <1>1. Shapes /\ Books /\ up = "up" => QuotaKept
    BY BooksImplyQuota
  <1> QED
    BY <1>1, PTL

LEMMA ServeKeepsBooks ==
  ASSUME Shapes, Shapes', Books, UNCHANGED setting, NEW t \in Threads, Serve(t), Placed'
  PROVE  Books' /\ QuotaKept'
  <1>1. StepOf(t) /\ up' = up /\ \A u \in Threads \ {t} : SameRow(u)
    BY ServeWorks
  <1>2. faults' = faults \/ faults' = faults + 1
    BY <1>1 DEF StepOf, Begins, Advances, Fails, Syncs, Moves
  <1>3. /\ Alone' = Alone /\ Threads' = Threads /\ faults \in Nat /\ IoErrors' = IoErrors
    BY <1>2, SureBefore DEF Shapes
  <1>4. Placed /\ Room
    BY DEF Books
  <1>5. up = "up"
    BY <1>1, <1>4 DEF Placed, StepOf, Begins, Advances, Fails, Syncs, Moves, Proceeds
  <1>6. Room'
    BY <1>4, ServeKeepsRoom
  <1>7. ASSUME faults' = 0 PROVE Clean'
    <2>1. faults = 0 /\ ~Fails(t)
      BY <1>2, <1>3, <1>7 DEF Fails
    <2> QED
      BY <1>1, <1>4, <2>1, ServeKeepsClean DEF Books
  <1>8. ASSUME Alone' PROVE Exact'
    <2>1. Alone /\ OwnObjects /\ ~Fails(t) /\ Exact /\ OwnObjects'
      BY <1>3, <1>8 DEF Alone, Fails, Books
    <2>2. used' = Bytes(Reckoned)'
      BY <1>1, <1>4, <1>5, <2>1, ServeKeepsExact
    <2>3. \A u \in Threads : KnowsFile(thread[u])'
      <3>1. KnowsFile(thread[t])'
        BY <1>1, <2>1, ServeKnows
      <3>2. \A u \in Threads \ {t} : KnowsFile(thread[u])'
        BY <1>1, <1>4, <2>1, OthersKnow
      <3> QED
        BY <3>1, <3>2
    <2> QED
      BY <1>3, <2>2, <2>3 DEF Exact
  <1>9. Books'
    BY <1>6, <1>7, <1>8 DEF Books
  <1> QED
    BY <1>1, <1>5, <1>9, QuotaNext

\* Nothing that the books are about changes, but for the faults.
LEMMA RestKeepsBooks ==
  ASSUME Shapes, Books, QuotaKept, UNCHANGED setting, Placed',
         UNCHANGED <<diskVars, used, thread, faults>>, up' = "up" => up = "up"
  PROVE  Books' /\ QuotaKept'
  <1>1. /\ Bound' = Bound /\ Alone' = Alone /\ Threads' = Threads /\ (Sure' => Sure) /\ Admissible' = Admissible
        /\ OwnObjects' = OwnObjects /\ IoErrors' = IoErrors
    BY SureBefore, SameSetting DEF Shapes, OwnObjects
  <1>2. /\ Present' = Present /\ Stale' = Stale /\ files' = files /\ synced' = synced /\ thread' = thread
        /\ used' = used /\ faults' = faults
    BY DEF Present, Stale, diskVars
  <1>3. Inflight' = Inflight /\ Adding' = Adding /\ Removing' = Removing
    BY <1>1, <1>2 DEF Inflight, Adding, Removing, Admitting
  <1>4. Over(Inflight)' = Over(Inflight) /\ Over(Adding)' = Over(Adding) /\ Over(Removing)' = Over(Removing)
    BY <1>1, <1>3 DEF Over
  <1>5. Reckoned' = Reckoned
    BY <1>1, <1>2 DEF Reckoned
  <1>6. Bytes(Present)' = Bytes(Present) /\ Bytes(Reckoned)' = Bytes(Reckoned)
    BY <1>2, <1>5 DEF Bytes
  <1>7. faults' = 0 => Clean'
    <2>1. faults = 0 => Clean
      BY DEF Books
    <2> QED
      BY <1>1, <1>2, <1>4, <1>6, <2>1 DEF Clean, Admitting
  <1>8. Alone' => Exact'
    <2>1. Alone => Exact
      BY DEF Books
    <2> QED
      BY <1>1, <1>2, <1>6, <2>1 DEF Exact, KnowsFile
  <1>9. Room'
    BY <1>1, <1>2, <1>4 DEF Books, Room
  <1>10. QuotaKept'
    BY <1>1, <1>2, <1>6 DEF QuotaKept, Largest
  <1> QED
    BY <1>7, <1>8, <1>9, <1>10 DEF Books

\* A start counts what is there.
LEMMA StartKeepsBooks ==
  ASSUME Shapes, Shapes', Books, QuotaKept, UNCHANGED setting, Placed', Start \/ SyncIdentity
  PROVE  Books' /\ QuotaKept'
  <1>1. /\ up # "up" /\ up' = "up" /\ used' = Bytes(Present) /\ files' = files /\ synced' = synced
        /\ thread' = thread /\ faults' = faults
    BY DEF Start, SyncIdentity, Serving, diskVars
  <1>2. \A t \in Threads : thread[t].pc = "idle"
    BY <1>1 DEF Books, Placed
  <1>3. /\ Bound' = Bound /\ Alone' = Alone /\ Threads' = Threads /\ (Sure' => Sure)
    BY <1>1, SureBefore
  <1>4. Over(Inflight) = 0 /\ Over(Adding) = 0 /\ Over(Removing) = 0 /\ Reckoned = Present
    BY <1>2, NothingAtWork
  <1>5. Present' = Present /\ Stale' = Stale /\ Reckoned' = Reckoned
    BY <1>1, <1>3 DEF Present, Stale, Reckoned
  <1>6. Over(Inflight)' = Over(Inflight) /\ Over(Adding)' = Over(Adding) /\ Over(Removing)' = Over(Removing)
    <2>1. Inflight' = Inflight /\ Adding' = Adding /\ Removing' = Removing
      BY <1>1, <1>3 DEF Inflight, Adding, Removing, Admitting
    <2> QED
      BY <1>3, <2>1 DEF Over
  <1>7. Bytes(Present)' = Bytes(Present) /\ Bytes(Reckoned)' = Bytes(Present) /\ Bytes(Present) \in Nat
    <2>1. Present \in SUBSET Objects
      BY DEF Present
    <2> QED
      BY <1>4, <1>5, <2>1, BytesFacts DEF Bytes
  <1>8. faults' = 0 => Clean'
    <2>1. faults = 0 => Clean
      BY DEF Books
    <2>2. Bytes(Present)' + Over(Removing)' <= used' + Over(Adding)'
      BY <1>1, <1>4, <1>6, <1>7
    <2> QED
      BY <1>1, <1>3, <1>5, <2>1, <2>2 DEF Clean, Admitting
  <1>9. Alone' => Exact'
    BY <1>1, <1>2, <1>3, <1>7 DEF Exact, KnowsFile
  <1>10. Room'
    <2>1. Sure => Bytes(Present) <= Bound
      BY DEF QuotaKept, Sure, Alone, Bound
    <2>2. used' + Over(Inflight)' = Bytes(Present)
      BY <1>1, <1>4, <1>6, <1>7
    <2> QED
      BY <1>3, <2>1, <2>2 DEF Room
  <1>11. Books'
    BY <1>8, <1>9, <1>10 DEF Books
  <1> QED
    BY <1>1, <1>11, QuotaNext

\* The process dies or the power fails.
LEMMA DeathKeepsBooks ==
  ASSUME Shapes, Books, QuotaKept, UNCHANGED setting, Placed', Stop \/ PowerFailure
  PROVE  Books' /\ QuotaKept'
  <1>1. faults' = faults + 1 /\ up' = "down" /\ \A t \in Threads : thread'[t].pc = "idle"
    BY DeadRows DEF Stop, PowerFailure
  <1>2. /\ Bound' = Bound /\ Alone' = Alone /\ Threads' = Threads /\ (Sure' => Sure)
        /\ Sure' => faults = 0 /\ Alone
    BY <1>1, SureBefore
  <1>3. faults' # 0 /\ faults \in Nat
    BY <1>1 DEF Shapes
  <1>4. Exact' /\ Room'
    BY <1>1, <1>2 DEF Exact, KnowsFile, Room
  <1>5. Books'
    BY <1>3, <1>4 DEF Books
  <1>6. ASSUME Sure' PROVE Bytes(Present)' <= Bound
    <2>1. Sure /\ faults = 0 /\ Clean /\ Placed
      BY <1>2, <1>6 DEF Books
    <2>2. Bytes(Present) <= Bound
      BY <2>1 DEF QuotaKept, Sure, Alone, Bound
    <2>3. Present' \subseteq Present \cup Stale
      <3>1. CASE Stop
        BY <3>1 DEF Stop, diskVars, Present
      <3>2. CASE PowerFailure
        BY <3>2 DEF PowerFailure, Present, Stale
      <3> QED
        BY <3>1, <3>2
    <2>4. /\ Present \in SUBSET Objects /\ Stale \in SUBSET Objects /\ Present \cup Stale \in SUBSET Objects
          /\ Present' \in SUBSET Objects
      BY DEF Present, Stale
    <2>5. Bytes(Present)' <= Bytes(Present \cup Stale) /\ Bytes(Present)' \in Nat /\ Bytes(Present \cup Stale) \in Nat
      <3>1. PICK P : P = Present'
        OBVIOUS
      <3>2. Bytes(P) <= Bytes(Present \cup Stale) /\ Bytes(P) \in Nat /\ Bytes(Present \cup Stale) \in Nat
        BY <2>3, <2>4, <3>1, BytesFacts
      <3>3. Bytes(Present)' = Bytes(P)
        BY <3>1 DEF Bytes
      <3> QED
        BY <3>2, <3>3
    <2>6. Bound \in Nat /\ Bytes(Present) \in Nat
      BY <2>4, BoundFacts, BytesFacts DEF Shapes
    <2>7. CASE up = "up"
      <3>1. /\ Over(Inflight) \in Nat /\ Over(Adding) \in Nat /\ Over(Removing) \in Nat
            /\ Over(Adding) <= Over(Inflight) /\ \A t \in Threads : Removing[t] \in Nat
        BY Weights
      <3>2. used + Over(Inflight) <= Bound /\ used \in Nat
        BY <2>1, <2>7 DEF Books, Room, Placed
      <3>3. Bytes(Present \cup Stale) <= Bytes(Present) + Over(Removing)
        <4> DEFINE c == [t \in Threads |-> thread[t].obj]
        <4>1. \A o \in Stale : \E t \in Threads : c[t] = o /\ Size[o] <= Removing[t]
          <5>1. \A o \in Objects : Size[o] <= Size[o]
            BY LargestFacts
          <5>2. \A o \in Stale : \E t \in Threads : thread[t].pc = "sync_removed" /\ thread[t].obj = o
            BY <2>1 DEF Clean
          <5> QED
            BY <2>4, <5>1, <5>2 DEF Removing
        <4> HIDE DEF c
        <4>2. setting \in Settings
          BY DEF Shapes
        <4> QED
          BY <2>4, <3>1, <4>1, <4>2, BytesCovered DEF Over
      <3>4. Bytes(Present) + Over(Removing) <= used + Over(Adding)
        BY <2>1 DEF Clean
      <3> QED
        BY <2>5, <2>6, <3>1, <3>2, <3>3, <3>4
    <2>8. CASE up # "up"
      <3>1. Stale = {}
        BY <2>1, <2>8 DEF Clean, Placed
      <3>2. Present \cup Stale = Present
        BY <3>1
      <3>3. Bytes(Present \cup Stale) = Bytes(Present)
        BY <3>2, Zenon
      <3> QED
        BY <2>2, <2>5, <2>6, <3>3
    <2> QED
      BY <2>7, <2>8
  <1>7. QuotaKept'
    BY <1>2, <1>6 DEF QuotaKept, Sure, Alone, Bound
  <1> QED
    BY <1>5, <1>7

\* Bytes rot; as many are there as before.
LEMMA RotKeepsBooks ==
  ASSUME Shapes, Books, QuotaKept, UNCHANGED setting, Placed', NEW o \in Objects, Rot(o)
  PROVE  Books' /\ QuotaKept'
  <1>1. faults' = faults + 1 /\ up' = up /\ used' = used /\ \A u \in Threads : SameRow(u)
    BY RotRows DEF Rot
  <1>2. /\ Bound' = Bound /\ Alone' = Alone /\ Threads' = Threads /\ (Sure' => Sure)
        /\ faults' # 0
    BY <1>1, SureBefore DEF Shapes
  <1>3. Present' = Present
    BY DEF Rot, Present, Shapes, Contents
  <1>4. Reckoned' = Reckoned
    BY <1>1, <1>2, <1>3 DEF Reckoned, SameRow
  <1>5. Inflight' = Inflight
    BY <1>1, <1>2 DEF Inflight, Admitting, SameRow
  <1>6. /\ Over(Inflight)' = Over(Inflight) /\ Bytes(Reckoned)' = Bytes(Reckoned) /\ Bytes(Present)' = Bytes(Present)
    BY <1>2, <1>3, <1>4, <1>5 DEF Over, Bytes
  <1>7. Alone' => Exact'
    <2>1. Alone => Exact
      BY DEF Books
    <2> QED
      BY <1>1, <1>2, <1>3, <1>6, <2>1 DEF Exact, KnowsFile, SameRow
  <1>8. Room'
    BY <1>1, <1>2, <1>6 DEF Books, Room
  <1>9. QuotaKept'
    <2>1. Sure => Bytes(Present) <= Bound
      BY DEF QuotaKept, Sure, Alone, Bound
    <2>2. Sure' => Bytes(Present)' <= Bound'
      BY <1>2, <1>6, <2>1
    <2> QED
      BY <2>2 DEF QuotaKept, Sure, Alone, Bound
  <1> QED
    BY <1>2, <1>7, <1>8, <1>9 DEF Books

LEMMA BooksNext ==
  ASSUME Shapes, Shapes', BooksInv, [Next]_vars
  PROVE  BooksInv'
  <1>1. UNCHANGED setting /\ Books /\ QuotaKept /\ Placed'
    BY PlacedNext DEF BooksInv, Books, Next, vars
  <1>2. SUFFICES Books' /\ QuotaKept'
    BY DEF BooksInv, Books
  <1>3. CASE \E t \in Threads : Serve(t)
    BY <1>1, <1>3, ServeKeepsBooks
  <1>4. CASE Start \/ SyncIdentity
    BY <1>1, <1>4, StartKeepsBooks
  <1>5. CASE UNCHANGED vars \/ CreateIdentity \/ BeginList \/ NextPage \/ EndList
    <2>1. UNCHANGED <<diskVars, used, thread, faults>> /\ (up' = "up" => up = "up")
      BY <1>5 DEF vars, diskVars, CreateIdentity, BeginList, NextPage, EndList
    <2> QED
      BY <1>1, <2>1, RestKeepsBooks
  <1>6. CASE Stop \/ PowerFailure
    BY <1>1, <1>6, DeathKeepsBooks
  <1>7. CASE \E o \in Objects : Rot(o)
    BY <1>1, <1>7, RotKeepsBooks
  <1> QED
    BY <1>3, <1>4, <1>5, <1>6, <1>7 DEF Next, Activity

LEMMA BooksInit ==
  ASSUME Init
  PROVE  BooksInv
  <1>1. Shapes /\ setting \in Settings /\ faults = 0 /\ used = 0
    BY StoreInit DEF StoreInv, Init
  <1>2. \A t \in Threads : thread[t].pc = "idle"
    BY DEF Init, Idle
  <1>3. Present = {} /\ Stale = {} /\ \A o \in Objects : files[o] = "absent" /\ synced[o] = "absent"
    BY DEF Init, Present, Stale
  <1>4. Over(Inflight) = 0 /\ Over(Adding) = 0 /\ Over(Removing) = 0 /\ Reckoned = Present
    BY <1>1, <1>2, NothingAtWork
  <1>5. Bytes(Present) = 0
    <2>1. IsFiniteSet(Objects) /\ \A o \in Objects : Size[o] \in Nat
      BY StoreAssumption
    <2>2. SumFunctionOnSet(Size, {}) = 0
      BY <2>1, SumFacts
    <2> QED
      BY <1>3, <2>2 DEF Bytes
  <1>6. Bound \in Nat
    BY <1>1, BoundFacts
  <1>7. Placed
    <2>1. MaxFaults \in Nat
      BY <1>1, StoreAssumption DEF MaxFaults
    <2>2. dirs \subseteq Namespace /\ syncedDirs = dirs
      BY DEF Init
    <2> QED
      BY <1>1, <1>2, <1>3, <2>1, <2>2 DEF Placed, Admitting
  <1>8. Clean
    BY <1>1, <1>2, <1>3, <1>4, <1>5 DEF Clean, Admitting
  <1>9. Exact
    <2>1. Bytes(Reckoned) = 0
      BY <1>4, <1>5, Zenon
    <2> QED
      BY <1>1, <1>2, <2>1 DEF Exact, KnowsFile
  <1>10. Room
    BY <1>1, <1>4, <1>6 DEF Room
  <1>11. QuotaKept
    BY <1>5, <1>6 DEF QuotaKept, Bound
  <1> QED
    BY <1>7, <1>8, <1>9, <1>10, <1>11 DEF BooksInv

\* With any objects, threads, faults and any quota, the store's books are right:
\* the counter is what the files take whenever no request is at work (where no
\* two threads share an object and no sync fails), the files pass the quota by no
\* more than one object for each other thread, even after a power failure that
\* brings back a removed file, and a listing in pages misses nothing
\* (DurableStore::put, delete, open and inventory).
THEOREM StoreIsAccounted == Spec => []StoreAccounted
  <1>1. Init => BooksInv
    BY BooksInit
  <1>2. StoreInv /\ StoreInv' /\ BooksInv /\ [Next]_vars => BooksInv'
    BY BooksNext DEF StoreInv
  <1>3. StoreInv /\ BooksInv => StoreAccounted
    <2>1. SUFFICES ASSUME StoreInv, BooksInv PROVE StoreAccounted
      OBVIOUS
    <2>2. Shapes /\ Placed /\ ListOK /\ (Alone => Exact) /\ QuotaKept
      BY <2>1 DEF StoreInv, BooksInv
    <2>3. TypeOK
      BY <2>2 DEF Shapes, Placed, TypeOK, ThreadRows, Listings
    <2>4. UsedExact
      <3>1. (\A t \in Threads : thread[t].pc = "idle") => Reckoned = Present
        BY <2>2, NothingAtWork
      <3>2. (\A t \in Threads : thread[t].pc = "idle") => Bytes(Reckoned) = Bytes(Present)
        BY <3>1, Zenon
      <3> QED
        BY <2>2, <3>2 DEF UsedExact, Alone, Exact
    <2>5. InventoryComplete
      BY <2>2 DEF ListOK, InventoryComplete
    <2> QED
      BY <2>2, <2>3, <2>4, <2>5 DEF StoreAccounted
  <1> QED
    BY <1>1, <1>2, <1>3, StoreInvariant, PTL DEF Spec

-----------------------------------------------------------------------------
(* The limiter of failing peers.                                          *)


\* The buckets of a limiter at time n.
Known(limiter, burst, n) ==
    /\ DOMAIN limiter \subseteq Peers
    /\ \A p \in DOMAIN limiter :
         limiter[p] \in [tokens : 0..(burst - 1), updated : 0..n, suppressed : Nat]

\* The refusals a peer's next record will mention.
Owes(limiter, p) == IF p \in DOMAIN limiter THEN limiter[p].suppressed ELSE 0

\* Since each of the times, the peer was given no more than its budget.
WithinBudget(limiter, burst, p, times, n) ==
    \A i \in 1..Len(times) :
        /\ times[i] <= n
        /\ IF p \in DOMAIN limiter
           THEN Len(times) - i + 1 + limiter[p].tokens <= burst + (limiter[p].updated - times[i])
           ELSE Len(times) - i + 1 <= n - times[i]

\* A limiter and the times at which it said yes.
Limited(limiter, burst, given, n) ==
    /\ Known(limiter, burst, n)
    /\ given \in [Peers -> Seq(Nat)]
    /\ \A p \in Peers : WithinBudget(limiter, burst, p, given[p], n) /\ WithinRate(given[p], burst)

Counted ==
    /\ attempts \in [Peers -> 0..MaxAttempts]
    /\ written \in [Peers -> Nat] /\ noted \in [Peers -> Nat] /\ lost \in [Peers -> Nat]
    /\ \A p \in Peers :
         /\ attempts[p] = written[p] + noted[p] + lost[p] + Owes(audit, p)
         /\ Owes(signIn, p) <= attempts[p]

LimitInv ==
    /\ BurstAssumption /\ now \in 0..MaxClock
    /\ Limited(audit, AuditBurst, recordedAt, now)
    /\ Limited(signIn, SignInBurst, signedAt, now)
    /\ Counted

LEMMA LimitInit == BurstAssumption /\ LimiterInit => LimitInv
  BY DEF LimiterInit, LimitInv, Limited, Known, WithinBudget, WithinRate, Counted, Owes, NoBuckets, Zero,
         BurstAssumption

\* Time passes: nobody's budget shrinks.
LEMMA LimitedLater ==
  ASSUME NEW limiter, NEW burst \in Nat, NEW given, NEW n \in Nat, Limited(limiter, burst, given, n)
  PROVE  Limited(limiter, burst, given, n + 1)
  <1>1. Known(limiter, burst, n + 1)
    BY DEF Limited, Known
  <1>2. ASSUME NEW p \in Peers PROVE WithinBudget(limiter, burst, p, given[p], n + 1)
    <2>1. given[p] \in Seq(Nat) /\ WithinBudget(limiter, burst, p, given[p], n)
      BY DEF Limited
    <2>2. \A i \in 1..Len(given[p]) : given[p][i] \in Nat /\ i \in Nat
      BY <2>1
    <2>3. Len(given[p]) \in Nat
      BY <2>1
    <2>4. CASE p \in DOMAIN limiter
      <3>1. \A i \in 1..Len(given[p]) :
              /\ given[p][i] <= n
              /\ Len(given[p]) - i + 1 + limiter[p].tokens <= burst + (limiter[p].updated - given[p][i])
        BY <2>1, <2>4 DEF WithinBudget
      <3>2. \A i \in 1..Len(given[p]) : given[p][i] <= n + 1
        BY <2>2, <3>1
      <3>3. QED
        BY <2>4, <3>1, <3>2 DEF WithinBudget
    <2>5. CASE p \notin DOMAIN limiter
      <3>1. \A i \in 1..Len(given[p]) : given[p][i] <= n /\ Len(given[p]) - i + 1 <= n - given[p][i]
        BY <2>1, <2>5 DEF WithinBudget
      <3>2. ASSUME NEW i \in 1..Len(given[p])
            PROVE  /\ given[p][i] <= n + 1
                   /\ IF p \in DOMAIN limiter
                      THEN Len(given[p]) - i + 1 + limiter[p].tokens <= burst + (limiter[p].updated - given[p][i])
                      ELSE Len(given[p]) - i + 1 <= (n + 1) - given[p][i]
        BY <2>2, <2>3, <2>5, <3>1
      <3>3. QED
        BY <3>2, Zenon DEF WithinBudget
    <2>6. QED
      BY <2>4, <2>5
  <1>3. QED
    BY <1>1, <1>2 DEF Limited

\* What retain leaves, and that it forgets only full buckets that owe nothing.
LEMMA RetainedOK ==
  ASSUME NEW limiter, NEW burst \in Nat \ {0}, now \in Nat, Known(limiter, burst, now)
  PROVE  /\ DOMAIN Retained(limiter, burst) \subseteq DOMAIN limiter
         /\ \A q \in DOMAIN Retained(limiter, burst) : Retained(limiter, burst)[q] = limiter[q]
         /\ \A q \in DOMAIN limiter \ DOMAIN Retained(limiter, burst) :
              limiter[q].suppressed = 0 /\ limiter[q].tokens + (now - limiter[q].updated) >= burst
  <1>1. CASE Cardinality(DOMAIN limiter) > MaxBuckets
    <2>1. Retained(limiter, burst) = [p \in Kept(limiter, burst) |-> limiter[p]]
      BY <1>1 DEF Retained
    <2>2. QED
      BY <2>1 DEF Kept, Known
  <1>2. CASE ~(Cardinality(DOMAIN limiter) > MaxBuckets)
    BY <1>2 DEF Retained
  <1>3. QED
    BY <1>1, <1>2

\* One call of admit: the other buckets stay or are forgotten; the peer's has
\* what refilled, less the token taken.
LEMMA AdmitOK ==
  ASSUME NEW limiter, NEW burst \in Nat \ {0}, NEW p \in Peers, now \in Nat,
         Known(limiter, burst, now)
  PROVE  LET a == Admit(limiter, burst, p)
         IN  /\ a.ok \in BOOLEAN
             /\ a.owed = Owes(limiter, p)
             /\ Known(a.limiter, burst, now)
             /\ p \in DOMAIN a.limiter /\ a.limiter[p].updated = now
             /\ a.limiter[p].suppressed = IF a.ok THEN 0 ELSE a.owed + 1
             /\ \A q \in DOMAIN a.limiter \ {p} : q \in DOMAIN limiter /\ a.limiter[q] = limiter[q]
             /\ \A q \in DOMAIN limiter \ DOMAIN a.limiter :
                  limiter[q].suppressed = 0 /\ limiter[q].tokens + (now - limiter[q].updated) >= burst
             /\ p \in DOMAIN limiter =>
                  a.limiter[p].tokens + (IF a.ok THEN 1 ELSE 0)
                     <= limiter[p].tokens + (now - limiter[p].updated)
             /\ a.ok \/ (p \in DOMAIN limiter /\ a.limiter[p].tokens = 0)
  <1> DEFINE kept == Retained(limiter, burst)
             old == IF p \in DOMAIN kept THEN kept[p]
                    ELSE [tokens |-> burst, updated |-> now, suppressed |-> 0]
             tokens == Refilled(old, burst)
             new == IF tokens >= 1
                    THEN [tokens |-> tokens - 1, updated |-> now, suppressed |-> 0]
                    ELSE [tokens |-> tokens, updated |-> now, suppressed |-> old.suppressed + 1]
             after == [q \in DOMAIN kept \cup {p} |-> IF q = p THEN new ELSE kept[q]]
             a == Admit(limiter, burst, p)
  <1>1. a = [ok |-> tokens >= 1, owed |-> old.suppressed, limiter |-> after]
    BY DEF Admit
  <1>2. /\ DOMAIN kept \subseteq DOMAIN limiter
        /\ \A q \in DOMAIN kept : kept[q] = limiter[q]
        /\ \A q \in DOMAIN limiter \ DOMAIN kept :
             limiter[q].suppressed = 0 /\ limiter[q].tokens + (now - limiter[q].updated) >= burst
    BY RetainedOK
  <1>3. /\ \A q \in DOMAIN limiter : limiter[q] \in [tokens : 0..(burst - 1), updated : 0..now, suppressed : Nat]
        /\ DOMAIN limiter \subseteq Peers
    BY DEF Known
  <1> HIDE DEF kept, a
  <1>4. /\ old.tokens \in Nat /\ old.updated \in 0..now /\ old.suppressed \in Nat
        /\ old.suppressed = Owes(limiter, p)
        /\ p \in DOMAIN limiter =>
             old.tokens + (now - old.updated) <= limiter[p].tokens + (now - limiter[p].updated)
        /\ p \notin DOMAIN limiter => old.tokens = burst /\ old.updated = now
    BY <1>2, <1>3 DEF Owes
  <1>5. /\ tokens \in 0..burst
        /\ p \in DOMAIN limiter => tokens <= limiter[p].tokens + (now - limiter[p].updated)
        /\ p \notin DOMAIN limiter => tokens = burst
    <2>1. tokens = Least(old.tokens + (now - old.updated), burst)
      BY DEF Refilled
    <2> HIDE DEF old
    <2>2. QED
      BY <1>3, <1>4, <2>1 DEF Least
  <1> HIDE DEF tokens, old
  <1>6. /\ new \in [tokens : 0..(burst - 1), updated : 0..now, suppressed : Nat]
        /\ new.updated = now
        /\ new.suppressed = IF tokens >= 1 THEN 0 ELSE old.suppressed + 1
        /\ new.tokens = IF tokens >= 1 THEN tokens - 1 ELSE 0
    BY <1>4, <1>5
  <1> HIDE DEF new
  <1>7. /\ DOMAIN after = DOMAIN kept \cup {p} /\ after[p] = new
        /\ \A q \in DOMAIN kept \ {p} : after[q] = limiter[q]
    BY <1>2
  <1> HIDE DEF after
  <1>8. Known(after, burst, now)
    BY <1>2, <1>3, <1>6, <1>7 DEF Known
  <1>9. a.ok = (tokens >= 1) /\ a.owed = old.suppressed /\ a.limiter = after
    BY <1>1
  <1>10. (tokens >= 1) \in BOOLEAN
    OBVIOUS
  <1>11. p \in DOMAIN limiter =>
           new.tokens + (IF tokens >= 1 THEN 1 ELSE 0) <= limiter[p].tokens + (now - limiter[p].updated)
    BY <1>3, <1>5, <1>6
  <1>12. \A q \in DOMAIN after \ {p} : q \in DOMAIN limiter /\ after[q] = limiter[q]
    BY <1>2, <1>7
  <1>13. \A q \in DOMAIN limiter \ DOMAIN after :
           limiter[q].suppressed = 0 /\ limiter[q].tokens + (now - limiter[q].updated) >= burst
    BY <1>2, <1>7
  <1>14. (tokens >= 1) \/ (p \in DOMAIN limiter /\ new.tokens = 0)
    BY <1>5, <1>6
  <1>15. QED
    BY <1>4, <1>6, <1>7, <1>8, <1>9, <1>10, <1>11, <1>12, <1>13, <1>14 DEF a

\* Arithmetic of budgets.  l admissions, the i-th at time g; t and u are a
\* bucket's tokens and the time it was looked at, v its tokens now.
LEMMA FullBucketOwesNothing ==
  ASSUME NEW l \in Nat, NEW i \in Int, NEW t \in Nat, NEW u \in Nat, NEW g \in Nat, NEW n \in Nat,
         NEW burst \in Nat, t + (n - u) >= burst, l - i + 1 + t <= burst + (u - g)
  PROVE  l - i + 1 <= n - g
  OBVIOUS

LEMMA NothingSpent ==
  ASSUME NEW l \in Nat, NEW i \in Int, NEW t \in Nat, NEW u \in Nat, NEW g \in Nat, NEW n \in Nat,
         NEW burst \in Nat, NEW v \in Nat,
         v <= t + (n - u), l - i + 1 + t <= burst + (u - g)
  PROVE  l - i + 1 + v <= burst + (n - g)
  OBVIOUS

LEMMA SpentOfNew ==
  ASSUME NEW l \in Nat, NEW i \in Int, NEW g \in Nat, NEW n \in Nat,
         NEW burst \in Nat, NEW v \in Nat, v <= burst - 1, l - i + 1 <= n - g
  PROVE  (l + 1) - i + 1 + v <= burst + (n - g)
  OBVIOUS

\* What a call of admit leaves of everybody's budget: the time goes on the
\* peer's list if the answer was yes.
LEMMA AdmitLimits ==
  ASSUME NEW limiter, NEW burst \in Nat \ {0}, NEW p \in Peers, now \in Nat, NEW given,
         Limited(limiter, burst, given, now), NEW new,
         LET a == Admit(limiter, burst, p)
         IN  new = IF a.ok THEN [given EXCEPT ![p] = Append(@, now)] ELSE given
  PROVE  Limited(Admit(limiter, burst, p).limiter, burst, new, now)
  <1> DEFINE a == Admit(limiter, burst, p)
             after == a.limiter
  <1>1. /\ a.ok \in BOOLEAN /\ Known(after, burst, now)
        /\ p \in DOMAIN after /\ after[p].updated = now
        /\ \A q \in DOMAIN after \ {p} : q \in DOMAIN limiter /\ after[q] = limiter[q]
        /\ \A q \in DOMAIN limiter \ DOMAIN after :
             limiter[q].tokens + (now - limiter[q].updated) >= burst
        /\ p \in DOMAIN limiter =>
             after[p].tokens + (IF a.ok THEN 1 ELSE 0) <= limiter[p].tokens + (now - limiter[p].updated)
        /\ a.ok \/ p \in DOMAIN limiter
    BY AdmitOK DEF Limited
  <1>2. /\ given \in [Peers -> Seq(Nat)] /\ Known(limiter, burst, now)
        /\ \A q \in Peers : WithinBudget(limiter, burst, q, given[q], now) /\ WithinRate(given[q], burst)
    BY DEF Limited
  <1>3. new = IF a.ok THEN [given EXCEPT ![p] = Append(@, now)] ELSE given
    OBVIOUS
  <1> HIDE DEF a, after
  <1>4. new \in [Peers -> Seq(Nat)]
    BY <1>2, <1>3
  <1>5. ASSUME NEW q \in Peers, q # p
        PROVE  WithinBudget(after, burst, q, new[q], now) /\ WithinRate(new[q], burst)
    <2>1. new[q] = given[q] /\ given[q] \in Seq(Nat)
      BY <1>2, <1>3, <1>5
    <2>2. WithinBudget(after, burst, q, given[q], now)
      <3>1. CASE q \in DOMAIN after
        BY <1>1, <1>2, <1>5, <3>1 DEF WithinBudget
      <3>2. CASE q \notin DOMAIN after /\ q \in DOMAIN limiter
        <4>1. limiter[q].tokens + (now - limiter[q].updated) >= burst
          BY <1>1, <3>2
        <4>2. limiter[q].tokens \in Nat /\ limiter[q].updated \in Nat
          BY <1>2, <3>2 DEF Known
        <4>3. ASSUME NEW i \in 1..Len(given[q])
              PROVE  given[q][i] <= now /\ Len(given[q]) - i + 1 <= now - given[q][i]
          <5>1. /\ given[q][i] <= now
                /\ Len(given[q]) - i + 1 + limiter[q].tokens <= burst + (limiter[q].updated - given[q][i])
            BY <1>2, <3>2 DEF WithinBudget
          <5>2. given[q][i] \in Nat /\ Len(given[q]) \in Nat
            BY <2>1
          <5>3. Len(given[q]) - i + 1 <= now - given[q][i]
            <6> DEFINE l == Len(given[q])  t == limiter[q].tokens  u == limiter[q].updated  g == given[q][i]
            <6>1. /\ l \in Nat /\ t \in Nat /\ u \in Nat /\ g \in Nat /\ now \in Nat /\ burst \in Nat /\ i \in Int
                  /\ t + (now - u) >= burst /\ l - i + 1 + t <= burst + (u - g)
              BY <4>1, <4>2, <5>1, <5>2
            <6> HIDE DEF l, t, u, g
            <6>2. l - i + 1 <= now - g
              BY ONLY <6>1, FullBucketOwesNothing
            <6>3. QED
              BY <6>2 DEF l, g
          <5>4. QED
            BY <5>1, <5>3
        <4>4. QED
          BY <3>2, <4>3 DEF WithinBudget
      <3>3. CASE q \notin DOMAIN after /\ q \notin DOMAIN limiter
        BY <1>2, <3>3 DEF WithinBudget
      <3>4. QED
        BY <3>1, <3>2, <3>3
    <2>3. QED
      BY <1>2, <2>1, <2>2
  <1>6. /\ after[p].tokens \in 0..(burst - 1) /\ after[p].updated = now
        /\ (p \in DOMAIN limiter => limiter[p].tokens \in Nat /\ limiter[p].updated \in Nat)
    BY <1>1, <1>2 DEF Known
  <1>7. WithinBudget(after, burst, p, new[p], now)
    <2>1. given[p] \in Seq(Nat)
      BY <1>2
    <2>2. CASE a.ok
      <3>1. new[p] = Append(given[p], now)
        BY <1>2, <1>3, <2>2
      <3>2. /\ Len(new[p]) = Len(given[p]) + 1 /\ new[p][Len(new[p])] = now
            /\ \A i \in 1..Len(given[p]) : new[p][i] = given[p][i] /\ given[p][i] \in Nat
        BY <2>1, <3>1
      <3>3. Len(given[p]) \in Nat
        BY <2>1
      <3>4. ASSUME NEW i \in 1..Len(new[p])
            PROVE  /\ new[p][i] <= now
                   /\ Len(new[p]) - i + 1 + after[p].tokens <= burst + (after[p].updated - new[p][i])
        <4>1. CASE i = Len(new[p])
          <5>1. new[p][i] = now /\ Len(new[p]) - i + 1 = 1
            BY <3>2, <3>3, <4>1
          <5>2. 1 + after[p].tokens <= burst + (now - now) /\ now <= now
            BY <1>6
          <5>3. QED
            BY ONLY <1>6, <5>1, <5>2
        <4>2. CASE i \in 1..Len(given[p]) /\ p \in DOMAIN limiter
          <5>1. /\ given[p][i] <= now
                /\ Len(given[p]) - i + 1 + limiter[p].tokens <= burst + (limiter[p].updated - given[p][i])
            BY <1>2, <4>2 DEF WithinBudget
          <5>2. after[p].tokens + 1 <= limiter[p].tokens + (now - limiter[p].updated)
            BY <1>1, <2>2, <4>2
          <5>3. /\ given[p][i] \in Nat /\ limiter[p].tokens \in Nat /\ limiter[p].updated \in Nat
                /\ after[p].tokens \in Nat /\ i \in Int
            BY <1>6, <3>2, <4>2
          <5>4. (Len(given[p]) + 1) - i + 1 + after[p].tokens <= burst + (now - given[p][i])
            <6> DEFINE l == Len(given[p])  t == limiter[p].tokens  u == limiter[p].updated  g == given[p][i]
                       w == after[p].tokens
            <6>1. /\ l \in Nat /\ t \in Nat /\ u \in Nat /\ g \in Nat /\ w \in Nat /\ now \in Nat
                  /\ burst \in Nat /\ i \in Int
                  /\ w + 1 <= t + (now - u) /\ l - i + 1 + t <= burst + (u - g)
              BY <3>3, <5>1, <5>2, <5>3
            <6> HIDE DEF l, t, u, g, w
            <6>2. (l + 1) - i + 1 + w <= burst + (now - g)
              BY ONLY <6>1
            <6>3. QED
              BY <6>2 DEF l, g, w
          <5>5. QED
            BY <1>6, <3>2, <4>2, <5>1, <5>4
        <4>3. CASE i \in 1..Len(given[p]) /\ p \notin DOMAIN limiter
          <5>1. given[p][i] <= now /\ Len(given[p]) - i + 1 <= now - given[p][i]
            BY <1>2, <4>3 DEF WithinBudget
          <5>2. given[p][i] \in Nat /\ after[p].tokens \in Nat /\ after[p].tokens <= burst - 1 /\ i \in Int
            BY <1>6, <3>2, <4>3
          <5>3. (Len(given[p]) + 1) - i + 1 + after[p].tokens <= burst + (now - given[p][i])
            BY ONLY burst \in Nat \ {0}, now \in Nat, <3>3, <5>1, <5>2, SpentOfNew
          <5>4. QED
            BY <1>6, <3>2, <4>3, <5>1, <5>3
        <4>4. QED
          BY <3>2, <3>3, <4>1, <4>2, <4>3
      <3>5. QED
        BY <1>1, <3>4 DEF WithinBudget
    <2>3. CASE ~a.ok
      <3>1. new[p] = given[p] /\ p \in DOMAIN limiter
        BY <1>1, <1>3, <2>3
      <3>2. after[p].tokens <= limiter[p].tokens + (now - limiter[p].updated)
        BY <1>1, <1>6, <2>3, <3>1
      <3>3. \A i \in 1..Len(given[p]) :
              /\ given[p][i] <= now /\ given[p][i] \in Nat
              /\ Len(given[p]) - i + 1 + limiter[p].tokens <= burst + (limiter[p].updated - given[p][i])
        BY <1>2, <2>1, <3>1 DEF WithinBudget
      <3>4. QED
        <4>1. Len(given[p]) \in Nat
          BY <2>1
        <4>2. ASSUME NEW i \in 1..Len(given[p])
              PROVE  Len(given[p]) - i + 1 + after[p].tokens <= burst + (after[p].updated - given[p][i])
          <5>1. /\ given[p][i] \in Nat /\ limiter[p].tokens \in Nat /\ limiter[p].updated \in Nat
                /\ after[p].tokens \in Nat /\ i \in Int
                /\ Len(given[p]) - i + 1 + limiter[p].tokens <= burst + (limiter[p].updated - given[p][i])
            BY <1>6, <3>1, <3>3
          <5>2. Len(given[p]) - i + 1 + after[p].tokens <= burst + (now - given[p][i])
            BY ONLY burst \in Nat \ {0}, now \in Nat, <3>2, <4>1, <5>1, NothingSpent
          <5>3. QED
            BY <1>6, <5>2
        <4>3. QED
          BY <1>1, <3>1, <3>3, <4>2 DEF WithinBudget
    <2>4. QED
      BY <1>1, <2>2, <2>3
  <1>8. WithinRate(new[p], burst)
    <2>1. given[p] \in Seq(Nat) /\ new[p] \in Seq(Nat)
      BY <1>2, <1>4
    <2>2. CASE ~a.ok
      BY <1>2, <1>3, <2>2
    <2>3. CASE a.ok
      <3>1. new[p] = Append(given[p], now)
        BY <1>2, <1>3, <2>3
      <3>2. /\ Len(new[p]) = Len(given[p]) + 1 /\ Len(given[p]) \in Nat /\ new[p][Len(new[p])] = now
            /\ \A i \in 1..Len(given[p]) : new[p][i] = given[p][i]
            /\ \A i \in 1..Len(new[p]) : new[p][i] \in Nat
        BY <2>1, <3>1
      <3>3. ASSUME NEW i \in 1..Len(new[p]), NEW j \in 1..Len(new[p]), i <= j
            PROVE  j - i + 1 <= burst + (new[p][j] - new[p][i])
        <4>1. CASE j = Len(new[p])
          <5>1. Len(new[p]) - i + 1 + after[p].tokens <= burst + (after[p].updated - new[p][i])
            BY <1>1, <1>7 DEF WithinBudget
          <5>2. after[p].tokens \in Nat /\ after[p].updated = now /\ new[p][j] = now
            BY <1>6, <3>2, <4>1
          <5>3. new[p][i] \in Nat /\ i \in Int /\ j \in Int /\ j = Len(new[p])
            BY <3>2, <4>1
          <5>4. j - i + 1 + after[p].tokens <= burst + (now - new[p][i])
            BY <5>1, <5>2, <5>3
          <5>5. j - i + 1 <= burst + (now - new[p][i])
            BY ONLY burst \in Nat \ {0}, now \in Nat, <5>2, <5>3, <5>4
          <5>6. QED
            BY <5>2, <5>5
        <4>2. CASE j # Len(new[p])
          <5>1. i \in 1..Len(given[p]) /\ j \in 1..Len(given[p])
            BY <3>2, <3>3, <4>2
          <5>2. j - i + 1 <= burst + (given[p][j] - given[p][i])
            BY <1>2, <3>3, <5>1 DEF WithinRate
          <5>3. QED
            BY <3>2, <5>1, <5>2
        <4>3. QED
          BY <4>1, <4>2
      <3>4. QED
        BY <3>3 DEF WithinRate
    <2>4. QED
      BY <1>1, <2>2, <2>3
  <1>9. QED
    BY <1>1, <1>4, <1>5, <1>7, <1>8 DEF Limited, a, after

\* One record_limited: whatever becomes of the record, it is accounted for.
LEMMA RecordCounts ==
  ASSUME LimitInv, NEW p \in Peers, RecordLimited(p)
  PROVE  /\ Limited(audit', AuditBurst, recordedAt', now)
         /\ attempts' \in [Peers -> 0..MaxAttempts] /\ attempts'[p] = attempts[p] + 1
         /\ \A q \in Peers : attempts'[q] >= attempts[q]
         /\ written' \in [Peers -> Nat] /\ noted' \in [Peers -> Nat] /\ lost' \in [Peers -> Nat]
         /\ \A q \in Peers : attempts'[q] = written'[q] + noted'[q] + lost'[q] + Owes(audit', q)
  <1> DEFINE a == Admit(audit, AuditBurst, p)
  <1>1. /\ attempts[p] < MaxAttempts /\ attempts' = Plus(attempts, p, 1) /\ audit' = a.limiter
        /\ recordedAt' = IF a.ok THEN [recordedAt EXCEPT ![p] = Append(@, now)] ELSE recordedAt
        /\ \/ ~a.ok /\ UNCHANGED <<written, noted, lost>>
           \/ a.ok /\ written' = Plus(written, p, 1) /\ noted' = Plus(noted, p, a.owed) /\ UNCHANGED lost
           \/ a.ok /\ lost' = Plus(lost, p, 1 + a.owed) /\ UNCHANGED <<written, noted>>
    BY DEF RecordLimited
  <1>2. /\ AuditBurst \in Nat \ {0} /\ now \in Nat /\ MaxAttempts \in Nat
        /\ Limited(audit, AuditBurst, recordedAt, now)
    BY DEF LimitInv, BurstAssumption
  <1>3. /\ attempts \in [Peers -> 0..MaxAttempts]
        /\ written \in [Peers -> Nat] /\ noted \in [Peers -> Nat] /\ lost \in [Peers -> Nat]
        /\ \A q \in Peers : attempts[q] = written[q] + noted[q] + lost[q] + Owes(audit, q)
    BY DEF LimitInv, Counted
  <1>4. Limited(audit', AuditBurst, recordedAt', now)
    BY <1>1, <1>2, AdmitLimits
  <1>5. /\ a.ok \in BOOLEAN /\ a.owed = Owes(audit, p) /\ p \in DOMAIN a.limiter
        /\ a.limiter[p].suppressed = IF a.ok THEN 0 ELSE a.owed + 1
        /\ \A q \in DOMAIN a.limiter \ {p} : q \in DOMAIN audit /\ a.limiter[q] = audit[q]
        /\ \A q \in DOMAIN audit \ DOMAIN a.limiter : audit[q].suppressed = 0
    BY <1>2, AdmitOK DEF Limited
  <1>6. a.owed \in Nat
    BY <1>2, <1>5 DEF Owes, Limited, Known
  <1> HIDE DEF a
  <1>7. /\ Owes(audit', p) = IF a.ok THEN 0 ELSE a.owed + 1
        /\ \A q \in Peers : q # p => Owes(audit', q) = Owes(audit, q)
    BY <1>1, <1>5 DEF Owes
  <1>8. /\ attempts' \in [Peers -> 0..MaxAttempts] /\ attempts'[p] = attempts[p] + 1
        /\ \A q \in Peers : q # p => attempts'[q] = attempts[q]
    BY <1>1, <1>2, <1>3 DEF Plus
  <1>9. /\ written' \in [Peers -> Nat] /\ noted' \in [Peers -> Nat] /\ lost' \in [Peers -> Nat]
        /\ \A q \in Peers : q # p => written'[q] = written[q] /\ noted'[q] = noted[q] /\ lost'[q] = lost[q]
        /\ written'[p] + noted'[p] + lost'[p] =
             written[p] + noted[p] + lost[p] + IF a.ok THEN 1 + a.owed ELSE 0
    <2>1. CASE ~a.ok
      BY <1>1, <1>3, <2>1
    <2>2. CASE a.ok
      <3>1. CASE written' = Plus(written, p, 1) /\ noted' = Plus(noted, p, a.owed) /\ UNCHANGED lost
        <4>1. /\ written' = [written EXCEPT ![p] = @ + 1] /\ noted' = [noted EXCEPT ![p] = @ + a.owed]
              /\ lost' = lost
          BY <3>1 DEF Plus
        <4>2. written[p] \in Nat /\ noted[p] \in Nat /\ lost[p] \in Nat
          BY <1>3
        <4>3. written'[p] = written[p] + 1 /\ noted'[p] = noted[p] + a.owed /\ lost'[p] = lost[p]
          BY <1>3, <4>1
        <4>4. \A q \in Peers : q # p => written'[q] = written[q] /\ noted'[q] = noted[q] /\ lost'[q] = lost[q]
          BY <1>3, <4>1
        <4>5. written' \in [Peers -> Nat] /\ noted' \in [Peers -> Nat] /\ lost' \in [Peers -> Nat]
          BY <1>3, <1>6, <4>1
        <4>6. written'[p] + noted'[p] + lost'[p] = written[p] + noted[p] + lost[p] + (1 + a.owed)
          BY ONLY <1>6, <4>2, <4>3
        <4>7. QED
          BY <2>2, <4>4, <4>5, <4>6
      <3>2. CASE lost' = Plus(lost, p, 1 + a.owed) /\ UNCHANGED <<written, noted>>
        <4>1. lost' = [lost EXCEPT ![p] = @ + (1 + a.owed)] /\ written' = written /\ noted' = noted
          BY <3>2 DEF Plus
        <4>2. written[p] \in Nat /\ noted[p] \in Nat /\ lost[p] \in Nat
          BY <1>3
        <4>3. written'[p] = written[p] /\ noted'[p] = noted[p] /\ lost'[p] = lost[p] + (1 + a.owed)
          BY <1>3, <4>1
        <4>4. \A q \in Peers : q # p => written'[q] = written[q] /\ noted'[q] = noted[q] /\ lost'[q] = lost[q]
          BY <1>3, <4>1
        <4>5. written' \in [Peers -> Nat] /\ noted' \in [Peers -> Nat] /\ lost' \in [Peers -> Nat]
          BY <1>3, <1>6, <4>1
        <4>6. written'[p] + noted'[p] + lost'[p] = written[p] + noted[p] + lost[p] + (1 + a.owed)
          BY ONLY <1>6, <4>2, <4>3
        <4>7. QED
          BY <2>2, <4>4, <4>5, <4>6
      <3>3. QED
        BY <1>1, <2>2, <3>1, <3>2
    <2>3. QED
      BY <1>5, <2>1, <2>2
  <1>10. \A q \in Peers : attempts'[q] = written'[q] + noted'[q] + lost'[q] + Owes(audit', q)
    <2>1. attempts'[p] = written'[p] + noted'[p] + lost'[p] + Owes(audit', p)
      BY <1>3, <1>5, <1>6, <1>7, <1>8, <1>9
    <2>2. \A q \in Peers : q # p => attempts'[q] = written'[q] + noted'[q] + lost'[q] + Owes(audit', q)
      BY <1>3, <1>7, <1>8, <1>9
    <2>3. QED
      BY <2>1, <2>2
  <1>11. \A q \in Peers : attempts'[q] >= attempts[q]
    BY <1>3, <1>8
  <1>12. QED
    BY <1>4, <1>8, <1>9, <1>10, <1>11

LEMMA CountsNat ==
  ASSUME LimitInv, NEW q \in Peers
  PROVE  /\ Owes(audit, q) \in Nat /\ Owes(signIn, q) \in Nat /\ MaxAttempts \in Nat
         /\ attempts[q] \in 0..MaxAttempts /\ written[q] \in Nat /\ noted[q] \in Nat /\ lost[q] \in Nat
  <1>1. Known(audit, AuditBurst, now) /\ Known(signIn, SignInBurst, now) /\ Counted
    BY DEF LimitInv, Limited
  <1>2. MaxAttempts \in Nat
    BY DEF LimitInv, BurstAssumption
  <1>3. QED
    BY <1>1, <1>2 DEF Known, Counted, Owes

LEMMA RefuseKeeps == ASSUME LimitInv, NEW p \in Peers, Refuse(p) PROVE LimitInv'
  <1>1. RecordLimited(p) /\ UNCHANGED <<now, signIn, signedAt>>
    BY DEF Refuse
  <1>2. Counted'
    <2>1. \A q \in Peers : Owes(signIn, q) <= attempts'[q]
      <3>1. \A q \in Peers : Owes(signIn, q) \in Nat /\ attempts[q] \in Nat /\ attempts'[q] \in Nat
        BY <1>1, RecordCounts, CountsNat
      <3>2. QED
        BY <1>1, <3>1, RecordCounts DEF LimitInv, Counted
    <2>2. \A q \in Peers : Owes(signIn, q)' <= attempts'[q]
      BY <1>1, <2>1 DEF Owes
    <2>3. QED
      BY <1>1, <2>2, RecordCounts DEF Counted, Owes
  <1>3. QED
    BY <1>1, <1>2, RecordCounts DEF LimitInv

LEMMA SignInKeeps == ASSUME LimitInv, NEW p \in Peers, SignIn(p) PROVE LimitInv'
  <1> DEFINE s == Admit(signIn, SignInBurst, p)
  <1>1. /\ signIn' = s.limiter /\ UNCHANGED now
        /\ \/ /\ s.ok /\ signedAt' = [signedAt EXCEPT ![p] = Append(@, now)]
              /\ UNCHANGED <<audit, attempts, written, noted, lost, recordedAt>>
           \/ ~s.ok /\ RecordLimited(p) /\ UNCHANGED signedAt
    BY DEF SignIn
  <1>2. SignInBurst \in Nat \ {0} /\ now \in Nat /\ Limited(signIn, SignInBurst, signedAt, now)
    BY DEF LimitInv, BurstAssumption
  <1>3. /\ s.ok \in BOOLEAN /\ s.owed = Owes(signIn, p) /\ p \in DOMAIN s.limiter
        /\ s.limiter[p].suppressed = IF s.ok THEN 0 ELSE s.owed + 1
        /\ \A q \in DOMAIN s.limiter \ {p} : q \in DOMAIN signIn /\ s.limiter[q] = signIn[q]
    BY <1>2, AdmitOK DEF Limited
  <1>4. Limited(signIn', SignInBurst, signedAt', now)
    BY <1>1, <1>2, <1>3, AdmitLimits
  <1> HIDE DEF s
  <1>5. /\ Owes(signIn', p) = IF s.ok THEN 0 ELSE Owes(signIn, p) + 1
        /\ \A q \in Peers : q # p => Owes(signIn', q) \in {0, Owes(signIn, q)}
    BY <1>1, <1>3 DEF Owes
  <1>6. \A q \in Peers : Owes(signIn, q) \in Nat /\ attempts[q] \in Nat /\ Owes(signIn, q) <= attempts[q]
    BY DEF LimitInv, Limited, Known, Owes, Counted
  <1>7. CASE s.ok
    <2>1. UNCHANGED <<audit, attempts, written, noted, lost, recordedAt>>
      BY <1>1, <1>7
    <2>2. \A q \in Peers : Owes(signIn', q) <= attempts'[q]
      BY <1>5, <1>6, <1>7, <2>1
    <2>3. Counted'
      BY <2>1, <2>2 DEF LimitInv, Counted, Owes
    <2>4. QED
      BY <1>1, <1>4, <2>1, <2>3 DEF LimitInv
  <1>8. CASE ~s.ok
    <2>1. RecordLimited(p)
      BY <1>1, <1>8
    <2>2. \A q \in Peers : Owes(signIn', q) <= attempts'[q]
      <3>1. /\ attempts'[p] = attempts[p] + 1
            /\ \A q \in Peers : attempts'[q] >= attempts[q] /\ attempts'[q] \in Nat
        BY <2>1, RecordCounts
      <3>2. QED
        BY <1>5, <1>6, <1>8, <3>1
    <2>3. Counted'
      BY <2>1, <2>2, RecordCounts DEF Counted, Owes
    <2>4. QED
      BY <1>1, <1>4, <2>1, <2>3, RecordCounts DEF LimitInv
  <1>9. QED
    BY <1>3, <1>7, <1>8

LEMMA TickKeeps == ASSUME LimitInv, Tick PROVE LimitInv'
  <1>1. now \in Nat /\ now' = now + 1 /\ now' \in 0..MaxClock
    BY DEF LimitInv, Tick, BurstAssumption
  <1>2. Limited(audit, AuditBurst, recordedAt, now + 1) /\ Limited(signIn, SignInBurst, signedAt, now + 1)
    BY <1>1, LimitedLater DEF LimitInv, BurstAssumption
  <1>3. Counted'
    BY DEF LimitInv, Tick, Counted, Owes
  <1>4. QED
    BY <1>1, <1>2, <1>3 DEF LimitInv, Tick

LEMMA LimitStep == LimitInv /\ [LimiterNext]_limiterVars => LimitInv'
  <1> SUFFICES ASSUME LimitInv, [LimiterNext]_limiterVars PROVE LimitInv'
    OBVIOUS
  <1>1. CASE UNCHANGED limiterVars
    BY <1>1 DEF limiterVars, LimitInv, Counted, Owes
  <1>2. CASE LimiterNext
    BY <1>2, RefuseKeeps, SignInKeeps, TickKeeps DEF LimiterNext
  <1>3. QED
    BY <1>1, <1>2

LEMMA LimitImplies == LimitInv => LimitsKept
  <1> SUFFICES ASSUME LimitInv PROVE LimitsKept
    OBVIOUS
  <1>1. /\ now \in 0..MaxClock /\ AuditBurst \in Nat \ {0} /\ SignInBurst \in Nat \ {0}
        /\ MaxClock \in Nat /\ MaxAttempts \in Nat
    BY DEF LimitInv, BurstAssumption
  <1>2. \A p \in DOMAIN audit : audit[p].suppressed <= MaxAttempts
    <2> SUFFICES ASSUME NEW p \in DOMAIN audit PROVE audit[p].suppressed <= MaxAttempts
      OBVIOUS
    <2>1. p \in Peers /\ Owes(audit, p) = audit[p].suppressed
      BY DEF LimitInv, Limited, Known, Owes
    <2>2. attempts[p] = written[p] + noted[p] + lost[p] + Owes(audit, p)
      BY <2>1 DEF LimitInv, Counted
    <2>3. QED
      BY <2>1, <2>2, CountsNat
  <1>3. \A p \in DOMAIN signIn : signIn[p].suppressed <= MaxAttempts
    BY <1>1 DEF LimitInv, Limited, Known, Counted, Owes
  <1>4. LimiterTyped
    <2>1. DOMAIN audit \subseteq Peers /\ \A p \in DOMAIN audit : audit[p] \in Buckets(AuditBurst)
      BY <1>1, <1>2 DEF LimitInv, Limited, Known, Buckets
    <2>2. DOMAIN signIn \subseteq Peers /\ \A p \in DOMAIN signIn : signIn[p] \in Buckets(SignInBurst)
      BY <1>1, <1>3 DEF LimitInv, Limited, Known, Buckets
    <2>3. QED
      BY <2>1, <2>2 DEF LimiterTyped
  <1>5. RateKept
    BY DEF LimitInv, Limited, RateKept
  <1>6. NothingForgotten
    BY DEF LimitInv, Counted, NothingForgotten, Owes
  <1>7. QED
    BY <1>4, <1>5, <1>6 DEF LimitsKept

\* The limiter keeps every peer within its burst and rate over every span of
\* time, although full buckets are forgotten (retain in RateLimiter::admit), and
\* every attempt is in the log, owed, or lost with a failed write.
THEOREM LimitsAreKept == BurstAssumption /\ LimiterSpec => []LimitsKept
  BY LimitInit, LimitStep, LimitImplies, PTL DEF LimiterSpec
=============================================================================
