----------------------- MODULE GarbageCollectionProofs -----------------------
(***************************************************************************)
(* Proofs about GarbageCollection, for any files, collectors, agents and   *)
(* volumes, and any number of restores, recoveries and failures.           *)
(*                                                                         *)
(* What may be deleted is decided from tables that restores take back and  *)
(* uploads move on; what a file was is remembered by markedAt and acked.   *)
(* The invariant ties the two: History says what the tables may say of a   *)
(* file, and CollectorOK what a collection has proved and done so far.     *)
(***************************************************************************)
EXTENDS GarbageCollection, FiniteSetTheorems, SequenceTheorems, WellFoundedInduction, TLAPS

RowTable    == [Objects -> [Agents -> [state : {"none", "pending", "confirmed"}, inc : Volumes \cup {0}]]]
ScanTable   == [Agents -> [Kinds -> [inc : Volumes \cup {0}, at : 0..MaxTime, seen : SUBSET Objects]]]
UploadTable == [Files -> [state : {"none", "open", "committed"}, created : 0..MaxTime,
                          chunk : BOOLEAN, manifest : BOOLEAN]]
FileTable   == [Files -> [state : {"none", "committed", "deleted", "recovery_blocked"}, at : 0..MaxTime]]
\* A snapshot is taken before the first proof.
Saved == [active : [Agents -> Volumes \cup {0}], rows : RowTable, scans : ScanTable,
          uploads : UploadTable, files : FileTable, contentGen : Nat, proofs : {<<>>},
          jobs : SUBSET Targets, verified : [Targets -> SUBSET Objects]]

UpRows == [pc : {"idle", "pend_chunk", "put_chunk", "confirm_chunk", "pend_manifest", "put_manifest",
                 "confirm_manifest", "check", "commit"},
           inc : [Agents -> Volumes \cup {0}], todo : SUBSET Agents, got : SUBSET Agents]
Places == 1..(NumAgents + 1)
GcRows == [pc : {"idle", "list", "next", "recheck", "delete", "row"},
           apply : BOOLEAN, now : 0..MaxTime, live : SUBSET Agents, ctx : CtxRows,
           unknown : BOOLEAN, cands : SUBSET CandRows, planned : SUBSET Nat,
           cur : CandRows, proof : 0..MaxProofs, at : Places, all : BOOLEAN]

TablesTyped ==
    /\ active \in [Agents -> Volumes \cup {0}] /\ rows \in RowTable /\ scans \in ScanTable
    /\ uploads \in UploadTable /\ files \in FileTable /\ contentGen \in Nat
    /\ jobs \subseteq Targets /\ verified \in [Targets -> SUBSET Objects] /\ pending \in BOOLEAN
ProofsTyped == proofs \in Seq(ProofRows) /\ Len(proofs) <= MaxProofs
MachinesTyped ==
    /\ vol \in [Agents -> Volumes] /\ stored \in [Agents -> [Volumes -> SUBSET Objects]]
    /\ markedAt \in [Files -> 0..MaxTime]
OthersTyped ==
    /\ setting \in Settings /\ clock \in 1..MaxTime
    /\ snapshot \in [taken : BOOLEAN, db : Saved]
    /\ hiccups \in 0..MaxHiccups /\ restores \in 0..MaxRestores
    /\ acked \subseteq Files /\ overlap \subseteq Files
CallsTyped == up \in [Files -> UpRows] /\ gc \in [Collectors -> GcRows]
Typed == TablesTyped /\ ProofsTyped /\ MachinesTyped /\ OthersTyped /\ CallsTyped

\* A file that any table or any volume shows as deleted was deleted; one that was
\* acknowledged and not deleted is known unless the portal awaits recovery.
History ==
    /\ \A f \in Files : (files[f].state = "deleted" \/ snapshot.db.files[f].state = "deleted") => markedAt[f] # 0
    /\ \A f \in Files, a \in Agents, v \in Volumes : Marker(f) \in stored[a][v] => markedAt[f] # 0
    /\ \A f \in acked : markedAt[f] = 0 /\ (pending \/ files[f].state # "none")

\* The files committed before the start are not uploaded again, and a volume
\* that is not yet mounted is blank.
Settled ==
    /\ \A f \in Uploaded : /\ uploads[f].state = "committed" /\ snapshot.db.uploads[f].state = "committed"
                           /\ up[f].pc = "idle"
    /\ \A a \in Agents, v \in Volumes : v > vol[a] => stored[a][v] = {}

\* A candidate is content, and of an expired upload or of a file once deleted.
CandOK(x) == Kind(x.obj) # "deletion_marker" /\ (x.staging \/ markedAt[Owner(x.obj)] # 0)

\* What collector c has derived and done.
CandsOK(c) ==
    /\ gc[c].pc # "idle" => ~pending
    /\ gc[c].planned \subseteq DOMAIN proofs
    /\ \A x \in gc[c].cands : CandOK(x)
CurOK(c) ==
    gc[c].pc \in {"recheck", "delete", "row"} =>
      /\ CandOK(gc[c].cur)
      /\ gc[c].proof \in DOMAIN proofs /\ proofs[gc[c].proof].obj = gc[c].cur.obj
      /\ gc[c].pc = "row" => gc[c].at <= NumAgents
Done(c) == {a \in Agents : a < gc[c].at \/ (a = gc[c].at /\ gc[c].pc = "row")}
DeletingOK(c) ==
    gc[c].pc \in {"delete", "row"} =>
      /\ \/ Owner(gc[c].cur.obj) \in overlap
         \/ up[Owner(gc[c].cur.obj)].pc = "idle" /\ Owner(gc[c].cur.obj) \notin acked
      /\ (gc[c].all /\ Owner(gc[c].cur.obj) \in Uploaded) => \A a \in Done(c) : gc[c].cur.obj \notin OnAgent(a)
CollectorsOK == \A c \in Collectors : CandsOK(c) /\ CurOK(c) /\ DeletingOK(c)

\* Proofs are about content, and an applied one means that it is gone.
ProofsOK == (\A i \in DOMAIN proofs : Kind(proofs[i].obj) # "deletion_marker") /\ AppliedMeansGone

\* The inductive invariant.
GcInv == Typed /\ History /\ Settled /\ CollectorsOK /\ ProofsOK

-----------------------------------------------------------------------------
(* Objects, bounds and proofs.                                             *)

LEMMA ObjectFacts ==
  /\ \A o \in Objects : Kind(o) \in Kinds /\ Owner(o) \in Files
  /\ \A f \in Files : /\ Marker(f) \in Objects /\ Kind(Marker(f)) = "deletion_marker" /\ Owner(Marker(f)) = f
                      /\ \A o \in Content(f) : o \in Objects /\ Kind(o) # "deletion_marker" /\ Owner(o) = f
  BY DEF Objects, Kinds, Kind, Owner, Marker, Content

LEMMA Bounds ==
  ASSUME setting \in Settings
  PROVE  /\ NumAgents \in Nat \ {0} /\ MaxTime \in Nat \ {0} /\ Retention \in Nat /\ Grace \in Nat
         /\ MaxVolumes \in Nat \ {0} /\ MaxProofs \in Nat /\ MaxHiccups \in Nat /\ MaxRestores \in Nat
         /\ 1 \in Volumes /\ Volumes \subseteq Nat /\ Agents \subseteq Nat
         /\ Uploaded \subseteq Files /\ Collecting \subseteq Collectors /\ Modes \subseteq BOOLEAN
  <1>1. /\ NumAgents \in Nat \ {0} /\ MaxTime \in Nat \ {0} /\ Retention \in Nat /\ Grace \in Nat
        /\ MaxVolumes \in Nat \ {0} /\ MaxProofs \in Nat /\ MaxHiccups \in Nat /\ MaxRestores \in Nat
        /\ Uploaded \subseteq Files /\ Collecting \subseteq Collectors /\ Modes \subseteq BOOLEAN
    BY GcAssumption DEF MaxVolumes, MaxProofs, MaxHiccups, MaxRestores, Uploaded, Collecting, Modes
  <1>2. 1 \in Volumes /\ Volumes \subseteq Nat /\ Agents \subseteq Nat
    BY <1>1 DEF Volumes, Agents
  <1>3. QED
    BY <1>1, <1>2

LEMMA SameBounds ==
  ASSUME UNCHANGED setting
  PROVE  /\ Volumes' = Volumes /\ Uploaded' = Uploaded /\ Targets' = Targets
         /\ MaxProofs' = MaxProofs /\ MaxHiccups' = MaxHiccups /\ MaxRestores' = MaxRestores
         /\ CtxRows' = CtxRows /\ ProofRows' = ProofRows /\ RowTable' = RowTable /\ ScanTable' = ScanTable
         /\ Saved' = Saved /\ UpRows' = UpRows /\ GcRows' = GcRows
  <1>1. /\ Volumes' = Volumes /\ Uploaded' = Uploaded /\ Targets' = Targets
        /\ MaxProofs' = MaxProofs /\ MaxHiccups' = MaxHiccups /\ MaxRestores' = MaxRestores
    BY DEF Volumes, Uploaded, Targets, MaxVolumes, MaxProofs, MaxHiccups, MaxRestores
  <1>2. CtxRows' = CtxRows
    BY <1>1 DEF CtxRows
  <1>3. ProofRows' = ProofRows /\ RowTable' = RowTable /\ ScanTable' = ScanTable /\ UpRows' = UpRows
    BY <1>1, <1>2 DEF ProofRows, RowTable, ScanTable, UpRows
  <1>4. Saved' = Saved
    BY <1>1, <1>3 DEF Saved
  <1>5. GcRows' = GcRows
    BY <1>1, <1>2 DEF GcRows
  <1>6. QED
    BY <1>1, <1>2, <1>3, <1>4, <1>5

LEMMA TypedMeans == Typed => TypeOK
  <1> SUFFICES ASSUME Typed PROVE TypeOK
    OBVIOUS
  <1>1. up \in [Files -> UpRows] /\ gc \in [Collectors -> GcRows]
    BY DEF Typed, CallsTyped
  <1>2. TablesTyped /\ ProofsTyped /\ MachinesTyped /\ OthersTyped
    BY DEF Typed
  <1>3. QED
    BY <1>1, <1>2 DEF TypeOK, TablesTyped, ProofsTyped, MachinesTyped, OthersTyped, UpRows, GcRows,
       Places, RowTable, ScanTable, UploadTable, FileTable

LEMMA ProofRowStatus ==
  ASSUME NEW st \in {"stale", "applied"}
  PROVE  /\ \A p \in ProofRows : [p EXCEPT !.status = st] \in ProofRows
         /\ \A p \in ProofRows : [p EXCEPT !.status = st].obj = p.obj /\ [p EXCEPT !.status = st].status = st
  BY DEF ProofRows

\* finish_gc_proof changes no proof but the planned ones it names.
LEMMA FinishFacts ==
  ASSUME NEW ps \in Seq(ProofRows), NEW ids, NEW st \in {"stale", "applied"}
  PROVE  /\ Finish(ps, ids, st) \in Seq(ProofRows) /\ Len(Finish(ps, ids, st)) = Len(ps)
         /\ DOMAIN Finish(ps, ids, st) = DOMAIN ps
         /\ \A i \in DOMAIN ps : /\ Finish(ps, ids, st)[i].obj = ps[i].obj
                                 /\ \/ Finish(ps, ids, st)[i].status = ps[i].status
                                    \/ Finish(ps, ids, st)[i].status = st /\ i \in ids
  <1> DEFINE q == Finish(ps, ids, st)
  <1>1. DOMAIN ps = 1..Len(ps) /\ Len(ps) \in Nat /\ \A i \in DOMAIN ps : ps[i] \in ProofRows
    OBVIOUS
  <1>2. q = [i \in 1..Len(ps) |-> IF i \in ids /\ ps[i].status = "planned"
                                  THEN [ps[i] EXCEPT !.status = st] ELSE ps[i]]
    BY <1>1 DEF Finish
  <1>3. \A i \in 1..Len(ps) : q[i] \in ProofRows
    BY <1>1, <1>2, ProofRowStatus
  <1>4. q \in Seq(ProofRows) /\ Len(q) = Len(ps) /\ DOMAIN q = DOMAIN ps
    BY <1>1, <1>2, <1>3
  <1>5. \A i \in DOMAIN ps : q[i].obj = ps[i].obj /\ (q[i].status = ps[i].status \/ (q[i].status = st /\ i \in ids))
    BY <1>1, <1>2, ProofRowStatus
  <1>6. QED
    BY <1>4, <1>5

\* A set of positions has a last one.
LEMMA LastIn ==
  ASSUME NEW n \in Nat, NEW S, S \subseteq 1..n, S # {}
  PROVE  Last(S) \in S
  <1> DEFINE R == {ss \in Nat \X Nat : ss[1] < ss[2]}
             T == {n - i : i \in S}
  <1>1. T \subseteq Nat /\ T # {}
    <2>1. \A i \in S : n - i \in Nat
      OBVIOUS
    <2>2. QED
      BY <2>1, Zenon
  <1>2. IsWellFoundedOn(R, Nat)
    BY NatLessThanWellFounded, Zenon DEF OpToRel
  <1>3. \A x, y \in Nat : y < x => <<y, x>> \in R
    OBVIOUS
  <1> HIDE DEF R
  <1>4. PICK x \in T : \A y \in T : ~ (<<y, x>> \in R)
    BY <1>1, <1>2, WFMin
  <1>5. PICK i \in S : x = n - i
    OBVIOUS
  <1>6. ASSUME NEW j \in S PROVE j <= i
    <2>1. n - j \in T /\ n - j \in Nat /\ x \in Nat
      BY <1>1
    <2>2. ~ (n - j < x)
      BY <1>3, <1>4, <2>1
    <2>3. QED
      BY <1>5, <2>2
  <1>7. QED
    BY <1>6 DEF Last

-----------------------------------------------------------------------------
(* The record of a call.                                                   *)

GcFields(r, pc, cands, cur, proof, at, all, planned) ==
    /\ r.pc = pc /\ r.cands = cands /\ r.cur = cur /\ r.proof = proof
    /\ r.at = at /\ r.all = all /\ r.planned = planned

LEMMA GcListed ==
  ASSUME NEW g \in GcRows, NEW u \in BOOLEAN, NEW C \in SUBSET CandRows, NEW P \in SUBSET Nat,
         NEW r, r = [g EXCEPT !.pc = "next", !.unknown = u, !.cands = C, !.planned = P]
  PROVE  r \in GcRows /\ GcFields(r, "next", C, g.cur, g.proof, g.at, g.all, P)
  BY DEF GcRows, GcFields

LEMMA GcPassed ==
  ASSUME NEW g \in GcRows, NEW x, NEW r, r = [g EXCEPT !.cands = @ \ {x}]
  PROVE  r \in GcRows /\ GcFields(r, g.pc, g.cands \ {x}, g.cur, g.proof, g.at, g.all, g.planned)
  BY DEF GcRows, GcFields

LEMMA GcPlanned ==
  ASSUME NEW g \in GcRows, NEW x \in CandRows, NEW i \in 0..MaxProofs, NEW pc \in {"recheck", "next"},
         NEW r, r = [g EXCEPT !.cands = @ \ {x}, !.cur = x, !.proof = i, !.pc = pc]
  PROVE  r \in GcRows /\ GcFields(r, pc, g.cands \ {x}, x, i, g.at, g.all, g.planned)
  BY DEF GcRows, GcFields

LEMMA GcChecked ==
  ASSUME NEW g \in GcRows, NEW pc \in {"delete", "next"}, NumAgents \in Nat,
         NEW r, r = [g EXCEPT !.pc = pc, !.at = 1, !.all = TRUE]
  PROVE  r \in GcRows /\ GcFields(r, pc, g.cands, g.cur, g.proof, 1, TRUE, g.planned)
  <1>1. 1 \in Places
    BY DEF GcRows, Places
  <1>2. QED
    BY <1>1 DEF GcRows, GcFields

LEMMA GcDeleted ==
  ASSUME NEW g \in GcRows, NEW r, r = [g EXCEPT !.pc = "row"]
  PROVE  r \in GcRows /\ GcFields(r, "row", g.cands, g.cur, g.proof, g.at, g.all, g.planned)
  BY DEF GcRows, GcFields

LEMMA GcFailed ==
  ASSUME NEW g \in GcRows, NumAgents \in Nat, g.at <= NumAgents,
         NEW r, r = [g EXCEPT !.at = @ + 1, !.all = FALSE]
  PROVE  r \in GcRows /\ GcFields(r, g.pc, g.cands, g.cur, g.proof, g.at + 1, FALSE, g.planned)
  <1>1. g.at + 1 \in Places
    BY DEF GcRows, Places
  <1>2. QED
    BY <1>1 DEF GcRows, GcFields

LEMMA GcMoved ==
  ASSUME NEW g \in GcRows, NumAgents \in Nat, g.at <= NumAgents,
         NEW r, r = [g EXCEPT !.pc = "delete", !.at = @ + 1]
  PROVE  r \in GcRows /\ GcFields(r, "delete", g.cands, g.cur, g.proof, g.at + 1, g.all, g.planned)
  <1>1. g.at + 1 \in Places
    BY DEF GcRows, Places
  <1>2. QED
    BY <1>1 DEF GcRows, GcFields

LEMMA GcFinished ==
  ASSUME NEW g \in GcRows, NumAgents \in Nat, NEW r, r = [g EXCEPT !.pc = "next", !.at = 1]
  PROVE  r \in GcRows /\ GcFields(r, "next", g.cands, g.cur, g.proof, 1, g.all, g.planned)
  <1>1. 1 \in Places
    BY DEF GcRows, Places
  <1>2. QED
    BY <1>1 DEF GcRows, GcFields

LEMMA IdleRows ==
  ASSUME setting \in Settings
  PROVE  /\ IdleGc \in GcRows /\ NoCand \in CandRows
         /\ GcFields(IdleGc, "idle", {}, NoCand, 0, 1, TRUE, {})
         /\ IdleUpload \in UpRows /\ IdleUpload.pc = "idle"
  <1>1. /\ NumAgents \in Nat \ {0} /\ MaxTime \in Nat \ {0} /\ Retention \in Nat /\ Grace \in Nat
        /\ MaxProofs \in Nat /\ Files # {}
    BY Bounds, GcAssumption
  <1>2. NoCand \in CandRows
    <2>1. (CHOOSE f \in Files : TRUE) \in Files
      BY <1>1
    <2>2. QED
      BY <1>1, <2>1 DEF NoCand, CandRows, Objects, Kinds
  <1>3. NoCtx \in CtxRows
    BY DEF NoCtx, CtxRows
  <1>4. IdleGc \in GcRows /\ GcFields(IdleGc, "idle", {}, NoCand, 0, 1, TRUE, {})
    <2> HIDE DEF NoCand, NoCtx
    <2>1. QED
      BY <1>1, <1>2, <1>3 DEF IdleGc, GcRows, GcFields, Places
  <1>5. IdleUpload \in UpRows /\ IdleUpload.pc = "idle"
    BY DEF IdleUpload, UpRows
  <1>6. QED
    BY <1>2, <1>4, <1>5

LEMMA GcStarted ==
  ASSUME setting \in Settings, NEW ap \in BOOLEAN, NEW n \in 0..MaxTime, NEW L \in SUBSET Agents, NEW x \in CtxRows,
         NEW r, r = [IdleGc EXCEPT !.pc = "list", !.apply = ap, !.now = n, !.live = L, !.ctx = x]
  PROVE  r \in GcRows /\ GcFields(r, "list", {}, NoCand, 0, 1, TRUE, {})
  <1>1. IdleGc \in GcRows /\ GcFields(IdleGc, "idle", {}, NoCand, 0, 1, TRUE, {})
    BY IdleRows
  <1>2. QED
    BY <1>1 DEF GcRows, GcFields

-----------------------------------------------------------------------------
(* What a step must respect for the collections under way.                 *)

\* No agent gains content of a file that was committed before the start.
Scarce == \A a \in Agents, o \in Objects :
    (Kind(o) # "deletion_marker" /\ Owner(o) \in Uploaded /\ o \notin OnAgent(a)) => o \notin stored'[a][vol'[a]]
Remembers == \A f \in Files : markedAt[f] # 0 => markedAt'[f] # 0
ProofsGrow == DOMAIN proofs \subseteq DOMAIN proofs' /\ \A i \in DOMAIN proofs : proofs'[i].obj = proofs[i].obj
\* An upload that starts, or a commit, while its objects are deleted, is noted.
Noted ==
    /\ overlap \subseteq overlap'
    /\ \A f \in Files : (Applying(f) /\ up[f].pc = "idle" /\ f \notin acked)
                           => f \in overlap' \/ (up'[f].pc = "idle" /\ f \notin acked')

LEMMA CallFacts ==
  ASSUME Typed, NEW c \in Collectors
  PROVE  /\ gc[c] \in GcRows /\ gc[c].at \in Places /\ gc[c].cur \in CandRows /\ gc[c].cur.obj \in Objects
         /\ Owner(gc[c].cur.obj) \in Files /\ gc[c].cands \subseteq CandRows /\ gc[c].all \in BOOLEAN
         /\ gc[c].now \in 0..MaxTime /\ gc[c].ctx \in CtxRows /\ gc[c].proof \in 0..MaxProofs
         /\ \A x \in CandRows : x.obj \in Objects /\ Owner(x.obj) \in Files
  <1>1. gc[c] \in GcRows
    BY DEF Typed, CallsTyped
  <1>2. /\ gc[c].at \in Places /\ gc[c].cur \in CandRows /\ gc[c].cands \subseteq CandRows /\ gc[c].all \in BOOLEAN
        /\ gc[c].now \in 0..MaxTime /\ gc[c].ctx \in CtxRows /\ gc[c].proof \in 0..MaxProofs
    BY <1>1 DEF GcRows
  <1>3. \A x \in CandRows : x.obj \in Objects
    BY DEF CandRows
  <1>4. QED
    BY <1>1, <1>2, <1>3, ObjectFacts

LEMMA ProofFacts ==
  ASSUME Typed
  PROVE  /\ proofs \in Seq(ProofRows) /\ Len(proofs) \in Nat /\ Len(proofs) <= MaxProofs
         /\ DOMAIN proofs = 1..Len(proofs)
         /\ \A i \in DOMAIN proofs : proofs[i] \in ProofRows /\ proofs[i].obj \in Objects
  <1>1. proofs \in Seq(ProofRows) /\ Len(proofs) <= MaxProofs
    BY DEF Typed, ProofsTyped
  <1>2. Len(proofs) \in Nat /\ DOMAIN proofs = 1..Len(proofs) /\ \A i \in DOMAIN proofs : proofs[i] \in ProofRows
    BY <1>1
  <1>3. \A p \in ProofRows : p.obj \in Objects
    BY DEF ProofRows
  <1>4. QED
    BY <1>1, <1>2, <1>3

LEMMA OtherCollector ==
  ASSUME GcInv, UNCHANGED setting, NEW d \in Collectors, gc'[d] = gc[d], pending' = pending,
         Remembers, ProofsGrow, Noted, Scarce
  PROVE  CandsOK(d)' /\ CurOK(d)' /\ DeletingOK(d)'
  <1> DEFINE x == gc[d].cur
  <1>1. CandsOK(d) /\ CurOK(d) /\ DeletingOK(d)
    BY DEF GcInv, CollectorsOK
  <1>2. /\ x.obj \in Objects /\ Owner(x.obj) \in Files /\ gc[d].cands \subseteq CandRows
        /\ \A y \in CandRows : Owner(y.obj) \in Files
    BY CallFacts DEF GcInv
  <1>3. CandsOK(d)'
    BY <1>1, <1>2 DEF CandsOK, CandOK, Remembers, ProofsGrow
  <1>4. CurOK(d)'
    BY <1>1, <1>2 DEF CurOK, CandOK, Remembers, ProofsGrow
  <1>5. DeletingOK(d)'
    <2> SUFFICES ASSUME gc[d].pc \in {"delete", "row"} PROVE DeletingOK(d)'
      BY DEF DeletingOK
    <2>1. Owner(x.obj) \in overlap' \/ (up'[Owner(x.obj)].pc = "idle" /\ Owner(x.obj) \notin acked')
      BY <1>1, <1>2 DEF DeletingOK, Noted, Applying
    <2>2. Kind(x.obj) # "deletion_marker"
      BY <1>1 DEF CurOK, CandOK
    <2>3. Uploaded' = Uploaded
      BY SameBounds
    <2>4. Done(d)' = Done(d) /\ Done(d) \subseteq Agents
      BY DEF Done
    <2>5. ASSUME gc[d].all, Owner(x.obj) \in Uploaded, NEW a \in Done(d)
          PROVE  x.obj \notin stored'[a][vol'[a]]
      BY <1>1, <1>2, <2>2, <2>4, <2>5 DEF DeletingOK, Scarce
    <2>6. QED
      BY <2>1, <2>3, <2>4, <2>5 DEF DeletingOK, OnAgent
  <1>6. QED
    BY <1>3, <1>4, <1>5

\* A step of a collector: it removes what it removes, and keeps its own promises.
LEMMA CollectorKeeps ==
  ASSUME GcInv,
         UNCHANGED <<setting, scans, uploads, files, contentGen, jobs, verified, pending, vol, markedAt,
                     clock, snapshot, restores, acked, up>>,
         NEW c \in Collectors, NEW r \in GcRows, gc' = [gc EXCEPT ![c] = r],
         active' \in [Agents -> Volumes \cup {0}], rows' \in RowTable, hiccups' \in 0..MaxHiccups,
         stored' \in [Agents -> [Volumes -> SUBSET Objects]],
         \A a \in Agents, v \in Volumes : stored'[a][v] \subseteq stored[a][v],
         overlap \subseteq overlap', overlap' \subseteq Files,
         proofs' \in Seq(ProofRows), Len(proofs') <= MaxProofs, ProofsGrow,
         \A i \in DOMAIN proofs' :
            /\ Kind(proofs'[i].obj) # "deletion_marker"
            /\ (proofs'[i].status = "applied" /\ Owner(proofs'[i].obj) \in Uploaded) =>
                 \/ i \in DOMAIN proofs /\ proofs[i].status = "applied"
                 \/ \A a \in Agents : proofs'[i].obj \notin OnAgent(a),
         CandsOK(c)' /\ CurOK(c)' /\ DeletingOK(c)'
  PROVE  GcInv'
  <1>1. vol \in [Agents -> Volumes] /\ gc \in [Collectors -> GcRows]
    BY DEF GcInv, Typed, MachinesTyped, CallsTyped
  <1>2. \A a \in Agents : stored'[a][vol'[a]] \subseteq OnAgent(a)
    BY <1>1 DEF OnAgent
  <1>3. Typed'
    <2>1. TablesTyped' /\ MachinesTyped' /\ OthersTyped' /\ ProofsTyped'
      BY SameBounds DEF GcInv, Typed, TablesTyped, MachinesTyped, OthersTyped, ProofsTyped
    <2>2. CallsTyped'
      BY <1>1, SameBounds DEF GcInv, Typed, CallsTyped
    <2>3. QED
      BY <2>1, <2>2 DEF Typed
  <1>4. History'
    BY SameBounds DEF GcInv, History
  <1>5. Settled'
    BY SameBounds DEF GcInv, Settled
  <1>6. CollectorsOK'
    <2>1. Scarce /\ Remembers /\ Noted
      BY <1>2 DEF Scarce, Remembers, Noted
    <2>2. ASSUME NEW d \in Collectors, d # c PROVE CandsOK(d)' /\ CurOK(d)' /\ DeletingOK(d)'
      <3>1. gc'[d] = gc[d]
        BY <1>1, <2>2
      <3>2. QED
        BY <2>1, <3>1, OtherCollector
    <2>3. QED
      BY <2>2 DEF CollectorsOK
  <1>7. ProofsOK'
    <2>1. ASSUME NEW i \in DOMAIN proofs', proofs'[i].status = "applied", Owner(proofs'[i].obj) \in Uploaded,
                 NEW a \in Agents
          PROVE  proofs'[i].obj \notin stored'[a][vol'[a]]
      BY <1>2, <2>1 DEF GcInv, ProofsOK, AppliedMeansGone, ProofsGrow
    <2>2. AppliedMeansGone'
      BY <2>1, SameBounds DEF AppliedMeansGone, OnAgent
    <2>3. QED
      BY <2>2 DEF ProofsOK
  <1>8. QED
    BY <1>3, <1>4, <1>5, <1>6, <1>7 DEF GcInv

\* A step of anybody else.
LEMMA OthersKeep ==
  ASSUME GcInv, UNCHANGED <<setting, gc, pending, proofs>>, up' \in [Files -> UpRows],
         TablesTyped', MachinesTyped', OthersTyped', History', Settled', Remembers, Noted, Scarce
  PROVE  GcInv'
  <1>1. Typed'
    BY SameBounds DEF GcInv, Typed, CallsTyped, ProofsTyped
  <1>2. CollectorsOK'
    <2>1. ProofsGrow
      BY DEF ProofsGrow
    <2>2. QED
      BY <2>1, OtherCollector DEF CollectorsOK
  <1>3. ProofsOK'
    <2>1. \A i \in DOMAIN proofs : proofs[i].obj \in Objects
      BY ProofFacts DEF GcInv
    <2>2. ASSUME NEW i \in DOMAIN proofs, proofs[i].status = "applied", Owner(proofs[i].obj) \in Uploaded,
                 NEW a \in Agents
          PROVE  proofs[i].obj \notin stored'[a][vol'[a]]
      BY <2>1, <2>2 DEF GcInv, ProofsOK, AppliedMeansGone, Scarce
    <2>3. AppliedMeansGone'
      BY <2>2, SameBounds DEF AppliedMeansGone, OnAgent
    <2>4. QED
      BY <2>3 DEF ProofsOK, GcInv
  <1>4. QED
    BY <1>1, <1>2, <1>3 DEF GcInv

-----------------------------------------------------------------------------
(* The steps of a collection.                                              *)

LEMMA ContextTyped ==
  ASSUME Typed, NEW act \in [Agents -> Volumes \cup {0}]
  PROVE  ProofContext(act) \in CtxRows
  <1>1. scans \in ScanTable /\ contentGen \in Nat /\ jobs \subseteq Targets
    BY DEF Typed, TablesTyped
  <1>2. ActiveIncarnations(act) \subseteq Agents \X Volumes
    BY DEF ActiveIncarnations
  <1>3. ASSUME NEW s \in LatestScans(act)
        PROVE  <<act[s[1]], s[1], s[2], scans[s[1]][s[2]].seen>> \in Volumes \X Agents \X Kinds \X SUBSET Objects
    <2>1. s[1] \in Agents /\ s[2] \in Kinds /\ act[s[1]] # 0
      BY DEF LatestScans
    <2>2. act[s[1]] \in Volumes
      BY <2>1
    <2>3. scans[s[1]][s[2]].seen \in SUBSET Objects
      BY <1>1, <2>1 DEF ScanTable
    <2>4. QED
      BY <2>1, <2>2, <2>3
  <1>4. {<<act[s[1]], s[1], s[2], scans[s[1]][s[2]].seen>> : s \in LatestScans(act)}
           \in SUBSET (Volumes \X Agents \X Kinds \X SUBSET Objects)
    BY <1>3
  <1>5. QED
    BY <1>1, <1>2, <1>4 DEF ProofContext, CtxRows

LEMMA ObservedTyped ==
  ASSUME Typed, NEW live
  PROVE  Observed(live) \in [Agents -> Volumes \cup {0}]
  BY DEF Typed, TablesTyped, MachinesTyped, Observed

LEMMA HiccupTyped ==
  ASSUME GcInv, UNCHANGED hiccups \/ Hiccup
  PROVE  hiccups' \in 0..MaxHiccups
  <1>1. hiccups \in 0..MaxHiccups /\ MaxHiccups \in Nat
    BY Bounds DEF GcInv, Typed, OthersTyped
  <1>2. QED
    BY <1>1 DEF Hiccup

\* Facts about a proof that stay when the proofs do not change.
LEMMA ProofsAsTheyAre ==
  ASSUME GcInv, UNCHANGED <<setting, proofs>>
  PROVE  /\ proofs' \in Seq(ProofRows) /\ Len(proofs') <= MaxProofs /\ ProofsGrow
         /\ \A i \in DOMAIN proofs' :
              /\ Kind(proofs'[i].obj) # "deletion_marker"
              /\ (proofs'[i].status = "applied" /\ Owner(proofs'[i].obj) \in Uploaded) =>
                   \/ i \in DOMAIN proofs /\ proofs[i].status = "applied"
                   \/ \A a \in Agents : proofs'[i].obj \notin OnAgent(a)
  BY ProofFacts DEF GcInv, ProofsOK, ProofsGrow

\* The same when some planned proofs are finished.
LEMMA ProofsFinished ==
  ASSUME GcInv, UNCHANGED setting, NEW ids, NEW st \in {"stale", "applied"}, proofs' = Finish(proofs, ids, st),
         st = "applied" => \A i \in ids \cap DOMAIN proofs :
            Owner(proofs[i].obj) \in Uploaded => \A a \in Agents : proofs[i].obj \notin OnAgent(a)
  PROVE  /\ proofs' \in Seq(ProofRows) /\ Len(proofs') <= MaxProofs /\ ProofsGrow /\ DOMAIN proofs' = DOMAIN proofs
         /\ \A i \in DOMAIN proofs' :
              /\ Kind(proofs'[i].obj) # "deletion_marker"
              /\ (proofs'[i].status = "applied" /\ Owner(proofs'[i].obj) \in Uploaded) =>
                   \/ i \in DOMAIN proofs /\ proofs[i].status = "applied"
                   \/ \A a \in Agents : proofs'[i].obj \notin OnAgent(a)
  <1>1. proofs \in Seq(ProofRows) /\ Len(proofs) <= MaxProofs
    BY ProofFacts DEF GcInv
  <1>2. /\ proofs' \in Seq(ProofRows) /\ Len(proofs') = Len(proofs) /\ DOMAIN proofs' = DOMAIN proofs
        /\ \A i \in DOMAIN proofs : /\ proofs'[i].obj = proofs[i].obj
                                    /\ proofs'[i].status = proofs[i].status \/ (proofs'[i].status = st /\ i \in ids)
    BY <1>1, FinishFacts
  <1>3. \A i \in DOMAIN proofs : Kind(proofs[i].obj) # "deletion_marker"
    BY DEF GcInv, ProofsOK
  <1>4. QED
    BY <1>1, <1>2, <1>3 DEF ProofsGrow

LEMMA StartGcKeeps ==
  ASSUME GcInv, UNCHANGED setting, NEW c \in Collectors, NEW ap \in BOOLEAN, StartGc(c, ap) PROVE GcInv'
  <1>1. PICK live \in SUBSET Agents :
          /\ IF live = Agents THEN UNCHANGED hiccups ELSE Hiccup
          /\ active' = Observed(live)
          /\ gc' = [gc EXCEPT ![c] = [IdleGc EXCEPT !.pc = "list", !.apply = ap, !.now = clock,
                                        !.live = live, !.ctx = ProofContext(Observed(live))]]
    BY DEF StartGc, SetGc
  <1> DEFINE r == [IdleGc EXCEPT !.pc = "list", !.apply = ap, !.now = clock,
                                 !.live = live, !.ctx = ProofContext(Observed(live))]
  <1>2. Typed /\ setting \in Settings /\ clock \in 0..MaxTime /\ gc \in [Collectors -> GcRows]
    BY Bounds DEF GcInv, Typed, OthersTyped, CallsTyped
  <1>3. ProofContext(Observed(live)) \in CtxRows
    BY <1>2, ContextTyped, ObservedTyped
  <1>4. r \in GcRows /\ GcFields(r, "list", {}, NoCand, 0, 1, TRUE, {})
    BY <1>2, <1>3, GcStarted
  <1> HIDE DEF r
  <1>5. gc' = [gc EXCEPT ![c] = r] /\ gc'[c] = r
    BY <1>1, <1>2 DEF r
  <1>6. CandsOK(c)' /\ CurOK(c)' /\ DeletingOK(c)'
    BY <1>4, <1>5 DEF CandsOK, CurOK, DeletingOK, GcFields, StartGc, RefuseWhilePending
  <1>7. /\ UNCHANGED <<rows, scans, uploads, files, contentGen, proofs, jobs, verified, pending,
                       vol, stored, markedAt, clock, snapshot, restores, acked, overlap, up>>
        /\ hiccups' \in 0..MaxHiccups /\ active' \in [Agents -> Volumes \cup {0}]
    BY <1>1, <1>2, HiccupTyped, ObservedTyped DEF StartGc, agVars
  <1>8. rows \in RowTable /\ stored \in [Agents -> [Volumes -> SUBSET Objects]] /\ overlap \subseteq Files
    BY DEF GcInv, Typed, TablesTyped, MachinesTyped, OthersTyped
  <1>9. QED
    BY <1>4, <1>5, <1>6, <1>7, <1>8, ProofsAsTheyAre, CollectorKeeps

LEMMA HeldTypes ==
  ASSUME GcInv
  PROVE  /\ Typed /\ setting \in Settings /\ active \in [Agents -> Volumes \cup {0}] /\ rows \in RowTable
         /\ stored \in [Agents -> [Volumes -> SUBSET Objects]] /\ vol \in [Agents -> Volumes]
         /\ overlap \subseteq Files /\ acked \subseteq Files /\ hiccups \in 0..MaxHiccups
         /\ gc \in [Collectors -> GcRows] /\ up \in [Files -> UpRows]
         /\ files \in FileTable /\ uploads \in UploadTable /\ clock \in 1..MaxTime
  BY DEF GcInv, Typed, TablesTyped, MachinesTyped, OthersTyped, CallsTyped

LEMMA CandidatesOK ==
  ASSUME GcInv, NEW now
  PROVE  Candidates(now) \subseteq CandRows /\ \A x \in Candidates(now) : CandOK(x)
  <1>1. files \in FileTable /\ uploads \in UploadTable /\ MaxTime \in Nat /\ Retention \in Nat /\ Grace \in Nat
    BY HeldTypes, Bounds
  <1>2. \A f \in Files : files[f].at \in Nat /\ uploads[f].created \in Nat
    BY <1>1 DEF FileTable, UploadTable
  <1> SUFFICES ASSUME NEW x \in Candidates(now) PROVE x \in CandRows /\ CandOK(x)
    OBVIOUS
  <1>3. CASE \E f \in DeletedFiles : \E o \in Content(f) :
               x = [obj |-> o, since |-> files[Owner(o)].at, keep |-> Retention, staging |-> FALSE]
    <2>1. PICK f \in DeletedFiles : \E o \in Content(f) :
               x = [obj |-> o, since |-> files[Owner(o)].at, keep |-> Retention, staging |-> FALSE]
      BY <1>3
    <2>2. PICK o \in Content(f) :
               x = [obj |-> o, since |-> files[Owner(o)].at, keep |-> Retention, staging |-> FALSE]
      BY <2>1
    <2>3. f \in Files /\ markedAt[f] # 0
      BY DEF GcInv, History, DeletedFiles
    <2>4. o \in Objects /\ Kind(o) # "deletion_marker" /\ Owner(o) = f
      BY <2>3, ObjectFacts
    <2>5. QED
      BY <1>1, <1>2, <2>2, <2>3, <2>4 DEF CandRows, CandOK
  <1>4. CASE \E f \in Files : \E o \in Content(f) :
               x = [obj |-> o, since |-> uploads[Owner(o)].created, keep |-> Grace, staging |-> TRUE]
    <2>1. PICK f \in Files : \E o \in Content(f) :
               x = [obj |-> o, since |-> uploads[Owner(o)].created, keep |-> Grace, staging |-> TRUE]
      BY <1>4
    <2>2. PICK o \in Content(f) :
               x = [obj |-> o, since |-> uploads[Owner(o)].created, keep |-> Grace, staging |-> TRUE]
      BY <2>1
    <2>3. o \in Objects /\ Kind(o) # "deletion_marker" /\ Owner(o) = f
      BY ObjectFacts
    <2>4. QED
      BY <1>1, <1>2, <2>2, <2>3 DEF CandRows, CandOK
  <1>5. QED
    BY <1>3, <1>4 DEF Candidates, UploadObjects, ExpiredUploads

LEMMA GcListKeeps == ASSUME GcInv, UNCHANGED setting, NEW c \in Collectors, GcList(c) PROVE GcInv'
  <1>1. PICK failed \in BOOLEAN :
          /\ IF failed THEN Hiccup ELSE UNCHANGED hiccups
          /\ gc' = [gc EXCEPT ![c] = [gc[c] EXCEPT
                !.pc = "next",
                !.unknown = failed \/ \E a \in gc[c].live :
                                        \E o \in OnAgent(a) \cap Control : ~Known(o),
                !.cands = Candidates(gc[c].now),
                !.planned = {i \in DOMAIN proofs : proofs[i].status = "planned"}]]
    BY DEF GcList, SetGc
  <1> DEFINE u == failed \/ \E a \in gc[c].live : \E o \in OnAgent(a) \cap Control : ~Known(o)
             C == Candidates(gc[c].now)
             P == {i \in DOMAIN proofs : proofs[i].status = "planned"}
             r == [gc[c] EXCEPT !.pc = "next", !.unknown = u, !.cands = C, !.planned = P]
  <1>2. u \in BOOLEAN
    OBVIOUS
  <1>3. C \in SUBSET CandRows /\ \A x \in C : CandOK(x)
    BY CandidatesOK
  <1>4. P \in SUBSET Nat /\ P \subseteq DOMAIN proofs
    BY ProofFacts, HeldTypes
  <1>5. gc' = [gc EXCEPT ![c] = r]
    BY <1>1
  <1>6. gc[c] \in GcRows
    BY CallFacts, HeldTypes
  <1> HIDE DEF u, C, P
  <1>7. r \in GcRows /\ GcFields(r, "next", C, gc[c].cur, gc[c].proof, gc[c].at, gc[c].all, P)
    BY <1>2, <1>3, <1>4, <1>6, GcListed
  <1> HIDE DEF r
  <1>8. gc'[c] = r
    BY <1>5, HeldTypes
  <1>9. /\ UNCHANGED <<active, rows, scans, uploads, files, contentGen, proofs, jobs, verified, pending,
                       vol, stored, markedAt, clock, snapshot, restores, acked, overlap, up>>
        /\ hiccups' \in 0..MaxHiccups
    BY <1>1, HiccupTyped DEF GcList, dbVars, agVars
  <1>10. CandsOK(c)' /\ CurOK(c)' /\ DeletingOK(c)'
    <2>1. ~pending
      BY DEF GcInv, CollectorsOK, CandsOK, GcList
    <2>2. QED
      BY <1>3, <1>4, <1>7, <1>8, <1>9, <2>1 DEF CandsOK, CurOK, DeletingOK, CandOK, GcFields
  <1>11. QED
    BY <1>5, <1>7, <1>9, <1>10, HeldTypes, ProofsAsTheyAre, CollectorKeeps

\* Passing over a candidate, whatever becomes of its earlier proofs.
LEMMA PassKeeps ==
  ASSUME GcInv, UNCHANGED setting, NEW c \in Collectors, NEW x, gc[c].pc = "next",
         gc' = [gc EXCEPT ![c] = [gc[c] EXCEPT !.cands = @ \ {x}]],
         UNCHANGED <<active, rows, scans, uploads, files, contentGen, jobs, verified, pending,
                     vol, stored, markedAt, clock, snapshot, hiccups, restores, acked, overlap, up>>,
         proofs' = proofs \/ \E ids : proofs' = Finish(proofs, ids, "stale")
  PROVE  GcInv'
  <1> DEFINE r == [gc[c] EXCEPT !.cands = @ \ {x}]
  <1>1. gc[c] \in GcRows
    BY CallFacts, HeldTypes
  <1>2. r \in GcRows /\ GcFields(r, "next", gc[c].cands \ {x}, gc[c].cur, gc[c].proof, gc[c].at, gc[c].all, gc[c].planned)
    BY <1>1, GcPassed
  <1>3. gc' = [gc EXCEPT ![c] = r] /\ gc'[c] = r
    BY HeldTypes
  <1> HIDE DEF r
  <1>4. /\ proofs' \in Seq(ProofRows) /\ Len(proofs') <= MaxProofs /\ ProofsGrow
        /\ \A i \in DOMAIN proofs' :
              /\ Kind(proofs'[i].obj) # "deletion_marker"
              /\ (proofs'[i].status = "applied" /\ Owner(proofs'[i].obj) \in Uploaded) =>
                   \/ i \in DOMAIN proofs /\ proofs[i].status = "applied"
                   \/ \A a \in Agents : proofs'[i].obj \notin OnAgent(a)
    <2>1. CASE proofs' = proofs
      BY <2>1, ProofsAsTheyAre
    <2>2. CASE \E ids : proofs' = Finish(proofs, ids, "stale")
      <3>1. PICK ids : proofs' = Finish(proofs, ids, "stale")
        BY <2>2
      <3>2. QED
        BY <3>1, ProofsFinished
    <2>3. QED
      BY <2>1, <2>2
  <1>5. CandsOK(c)' /\ CurOK(c)' /\ DeletingOK(c)'
    <2>1. CandsOK(c)
      BY DEF GcInv, CollectorsOK
    <2>2. QED
      BY <1>2, <1>3, <1>4, <2>1 DEF CandsOK, CurOK, DeletingOK, CandOK, GcFields, ProofsGrow
  <1>6. QED
    BY <1>2, <1>3, <1>4, <1>5, HeldTypes, CollectorKeeps

LEMMA SkipsKeep ==
  ASSUME GcInv, UNCHANGED setting, NEW c \in Collectors, NEW x, GcSkip(c, x) \/ GcBlocked(c, x) PROVE GcInv'
  <1>1. CASE GcSkip(c, x)
    BY <1>1, PassKeeps DEF GcSkip, SetGc, dbVars, agVars, envVars
  <1>2. CASE GcBlocked(c, x)
    BY <1>2, PassKeeps DEF GcBlocked, SetGc, agVars, envVars
  <1>3. QED
    BY <1>1, <1>2

LEMMA GcPlanKeeps ==
  ASSUME GcInv, UNCHANGED setting, NEW c \in Collectors, NEW x, GcPlan(c, x) PROVE GcInv'
  <1> DEFINE match == Matching(c, x.obj)
             ids == Earlier(c, x.obj) \ match
             settled == Finish(proofs, ids, "stale")
             new == [obj |-> x.obj, ctx |-> gc[c].ctx, status |-> "planned"]
             n == IF match # {} THEN Last(match) ELSE Len(proofs) + 1
             pc == IF gc[c].apply THEN "recheck" ELSE "next"
             r == [gc[c] EXCEPT !.cands = @ \ {x}, !.cur = x, !.proof = n, !.pc = pc]
  <1>1. /\ gc[c].pc = "next" /\ x \in gc[c].cands
        /\ match # {} \/ Len(proofs) < MaxProofs
        /\ proofs' = IF match # {} THEN settled ELSE Append(settled, new)
        /\ gc' = [gc EXCEPT ![c] = r]
        /\ UNCHANGED <<active, rows, scans, uploads, files, contentGen, jobs, verified, pending,
                       vol, stored, markedAt, clock, snapshot, hiccups, restores, acked, overlap, up>>
    BY DEF GcPlan, SetGc, agVars, envVars
  <1>2. /\ CandsOK(c) /\ gc[c] \in GcRows /\ x \in CandRows /\ x.obj \in Objects /\ gc[c].ctx \in CtxRows
        /\ MaxProofs \in Nat
    BY <1>1, CallFacts, HeldTypes, Bounds DEF GcInv, CollectorsOK
  <1>3. CandOK(x) /\ ~pending /\ gc[c].planned \subseteq DOMAIN proofs
    BY <1>1, <1>2 DEF CandsOK
  <1>4. /\ proofs \in Seq(ProofRows) /\ Len(proofs) \in Nat /\ Len(proofs) <= MaxProofs
        /\ DOMAIN proofs = 1..Len(proofs) /\ \A i \in DOMAIN proofs : Kind(proofs[i].obj) # "deletion_marker"
    BY ProofFacts, HeldTypes DEF GcInv, ProofsOK
  <1>5. match \subseteq 1..Len(proofs) /\ \A i \in match : proofs[i].obj = x.obj
    BY <1>3, <1>4 DEF Matching, Earlier
  <1>6. match # {} => Last(match) \in match
    BY <1>4, <1>5, LastIn
  <1> HIDE DEF match
  <1>7. /\ settled \in Seq(ProofRows) /\ Len(settled) = Len(proofs) /\ DOMAIN settled = DOMAIN proofs
        /\ \A i \in DOMAIN proofs : /\ settled[i].obj = proofs[i].obj
                                    /\ settled[i].status = proofs[i].status \/ settled[i].status = "stale"
    BY <1>4, FinishFacts
  <1>8. new \in ProofRows /\ new.obj = x.obj /\ new.status = "planned"
    BY <1>2 DEF ProofRows
  <1> HIDE DEF settled, new
  <1>9. /\ proofs' \in Seq(ProofRows) /\ Len(proofs') <= MaxProofs /\ DOMAIN proofs \subseteq DOMAIN proofs'
        /\ n \in DOMAIN proofs' /\ n \in 0..MaxProofs /\ proofs'[n].obj = x.obj
        /\ \A i \in DOMAIN proofs : proofs'[i] = settled[i]
        /\ \A i \in DOMAIN proofs' : i \in DOMAIN proofs \/ proofs'[i] = new
    <2>1. CASE match # {}
      <3>1. proofs' = settled /\ n = Last(match) /\ n \in 1..Len(proofs) /\ proofs[n].obj = x.obj
        BY <1>1, <1>5, <1>6, <2>1
      <3> HIDE DEF n
      <3>2. n \in 0..MaxProofs
        BY <1>2, <1>4, <3>1
      <3>3. QED
        BY <1>4, <1>7, <3>1, <3>2
    <2>2. CASE match = {}
      <3>1. proofs' = Append(settled, new) /\ n = Len(settled) + 1 /\ Len(settled) < MaxProofs
        BY <1>1, <1>7, <2>2
      <3>2. /\ proofs' \in Seq(ProofRows) /\ Len(proofs') = Len(settled) + 1 /\ proofs'[Len(settled) + 1] = new
            /\ \A i \in 1..Len(settled) : proofs'[i] = settled[i]
        BY <1>7, <1>8, <3>1
      <3>3. DOMAIN proofs' = 1..(Len(settled) + 1)
        BY <3>2
      <3>4. QED
        BY <1>2, <1>4, <1>7, <1>8, <3>1, <3>2, <3>3
    <2>3. QED
      BY <2>1, <2>2
  <1>10. /\ ProofsGrow
         /\ \A i \in DOMAIN proofs' :
              /\ Kind(proofs'[i].obj) # "deletion_marker"
              /\ proofs'[i].status = "applied" => i \in DOMAIN proofs /\ proofs[i].status = "applied"
    <2>1. ProofsGrow
      BY <1>7, <1>9 DEF ProofsGrow
    <2>2. Kind(new.obj) # "deletion_marker"
      BY <1>3, <1>8 DEF CandOK
    <2>3. ASSUME NEW i \in DOMAIN proofs'
          PROVE  /\ Kind(proofs'[i].obj) # "deletion_marker"
                 /\ proofs'[i].status = "applied" => i \in DOMAIN proofs /\ proofs[i].status = "applied"
      <3>1. CASE i \in DOMAIN proofs
        BY <1>4, <1>7, <1>9, <3>1
      <3>2. CASE proofs'[i] = new
        BY <1>8, <2>2, <3>2
      <3>3. QED
        BY <1>9, <3>1, <3>2
    <2>4. QED
      BY <2>1, <2>3
  <1> HIDE DEF n
  <1>11. pc \in {"recheck", "next"}
    OBVIOUS
  <1> HIDE DEF pc
  <1>12. r \in GcRows /\ GcFields(r, pc, gc[c].cands \ {x}, x, n, gc[c].at, gc[c].all, gc[c].planned)
    BY <1>2, <1>9, <1>11, GcPlanned
  <1> HIDE DEF r
  <1>13. gc'[c] = r
    BY <1>1, HeldTypes
  <1>14. CandsOK(c)'
    BY <1>1, <1>2, <1>3, <1>9, <1>12, <1>13 DEF CandsOK, CandOK, GcFields
  <1>15. CurOK(c)' /\ DeletingOK(c)'
    <2>1. gc'[c].cur = x /\ gc'[c].proof = n /\ gc'[c].pc \in {"recheck", "next"}
      BY <1>11, <1>12, <1>13 DEF GcFields
    <2>2. QED
      BY <1>1, <1>3, <1>9, <2>1 DEF CurOK, DeletingOK, CandOK
  <1>16. QED
    BY <1>1, <1>9, <1>10, <1>12, <1>14, <1>15, HeldTypes, CollectorKeeps

\* The second derivation: nothing it lets through was acknowledged and is still
\* wanted.
LEMMA ProvenUnwanted ==
  ASSUME GcInv, NEW c \in Collectors, gc[c].pc = "recheck", StillProven(c)
  PROVE  Owner(gc[c].cur.obj) \notin acked
  <1> DEFINE f == Owner(gc[c].cur.obj)
  <1>1. CandOK(gc[c].cur) /\ ~pending
    BY DEF GcInv, CollectorsOK, CandsOK, CurOK
  <1>2. OffsiteOrUnowned(gc[c].cur, ProofContext(active))
    BY DEF StillProven, Evaluate
  <1>3. \A g \in acked : markedAt[g] = 0 /\ files[g].state # "none"
    BY <1>1 DEF GcInv, History
  <1>4. CASE gc[c].cur.staging
    BY <1>2, <1>3, <1>4 DEF OffsiteOrUnowned
  <1>5. CASE ~gc[c].cur.staging
    BY <1>1, <1>3, <1>5 DEF CandOK
  <1>6. QED
    BY <1>4, <1>5

LEMMA GcRecheckKeeps == ASSUME GcInv, UNCHANGED setting, NEW c \in Collectors, GcRecheck(c) PROVE GcInv'
  <1> DEFINE go == StillProven(c) /\ gc[c].live = Agents
             f == Owner(gc[c].cur.obj)
             pc == IF go THEN "delete" ELSE "next"
             r == [gc[c] EXCEPT !.pc = pc, !.at = 1, !.all = TRUE]
  <1>1. /\ gc[c].pc = "recheck"
        /\ proofs' = IF StillProven(c) THEN proofs ELSE Finish(proofs, {gc[c].proof}, "stale")
        /\ gc' = [gc EXCEPT ![c] = r]
        /\ overlap' = IF go /\ up[f].pc # "idle" THEN overlap \cup {f} ELSE overlap
        /\ UNCHANGED <<active, rows, scans, uploads, files, contentGen, jobs, verified, pending,
                       vol, stored, markedAt, clock, snapshot, hiccups, restores, acked, up>>
    BY DEF GcRecheck, SetGc, agVars
  <1>2. gc[c] \in GcRows /\ f \in Files /\ NumAgents \in Nat /\ Agents \subseteq Nat
    BY CallFacts, HeldTypes, Bounds
  <1>3. pc \in {"delete", "next"} /\ (pc = "delete" <=> go)
    OBVIOUS
  <1>4. go => f \notin acked
    BY <1>1, ProvenUnwanted
  <1> HIDE DEF go, pc
  <1>5. r \in GcRows /\ GcFields(r, pc, gc[c].cands, gc[c].cur, gc[c].proof, 1, TRUE, gc[c].planned)
    BY <1>2, <1>3, GcChecked
  <1> HIDE DEF r
  <1>6. gc'[c] = r
    BY <1>1, HeldTypes
  <1>7. /\ proofs' \in Seq(ProofRows) /\ Len(proofs') <= MaxProofs /\ ProofsGrow
        /\ \A i \in DOMAIN proofs' :
              /\ Kind(proofs'[i].obj) # "deletion_marker"
              /\ (proofs'[i].status = "applied" /\ Owner(proofs'[i].obj) \in Uploaded) =>
                   \/ i \in DOMAIN proofs /\ proofs[i].status = "applied"
                   \/ \A a \in Agents : proofs'[i].obj \notin OnAgent(a)
    <2>1. CASE proofs' = proofs
      BY <2>1, ProofsAsTheyAre
    <2>2. CASE proofs' = Finish(proofs, {gc[c].proof}, "stale")
      BY <2>2, ProofsFinished
    <2>3. QED
      BY <1>1, <2>1, <2>2
  <1>8. CandsOK(c)' /\ CurOK(c)'
    <2>1. CandsOK(c) /\ CurOK(c)
      BY DEF GcInv, CollectorsOK
    <2>2. /\ gc'[c].cur = gc[c].cur /\ gc'[c].proof = gc[c].proof
          /\ gc'[c].cands = gc[c].cands /\ gc'[c].planned = gc[c].planned /\ gc'[c].pc # "row"
      BY <1>3, <1>5, <1>6 DEF GcFields
    <2>3. CandsOK(c)'
      BY <1>1, <1>7, <2>1, <2>2 DEF CandsOK, CandOK, ProofsGrow
    <2>4. CurOK(c)'
      BY <1>1, <1>7, <2>1, <2>2 DEF CurOK, CandOK, ProofsGrow
    <2>5. QED
      BY <2>3, <2>4
  <1>9. DeletingOK(c)'
    <2>1. gc'[c].cur = gc[c].cur /\ gc'[c].pc = pc /\ gc'[c].at = 1
      BY <1>5, <1>6 DEF GcFields
    <2>2. Done(c)' = {}
      BY <1>2, <1>3, <2>1 DEF Done, Agents
    <2>3. QED
      BY <1>1, <1>3, <1>4, <2>1, <2>2 DEF DeletingOK
  <1>10. overlap \subseteq overlap' /\ overlap' \subseteq Files
    BY <1>1, <1>2, HeldTypes
  <1>11. QED
    BY <1>1, <1>5, <1>7, <1>8, <1>9, <1>10, HeldTypes, CollectorKeeps

\* Where the collector stands: the agent it is at, and its object.
LEMMA Deleting ==
  ASSUME GcInv, NEW c \in Collectors, gc[c].pc \in {"delete", "row"}
  PROVE  /\ gc[c] \in GcRows /\ CandsOK(c) /\ CurOK(c) /\ DeletingOK(c)
         /\ gc[c].at \in Nat \ {0} /\ gc[c].at <= NumAgents + 1 /\ NumAgents \in Nat /\ Agents = 1..NumAgents
         /\ gc[c].proof \in DOMAIN proofs /\ proofs[gc[c].proof].obj = gc[c].cur.obj
         /\ vol \in [Agents -> Volumes]
  <1>1. gc[c] \in GcRows /\ gc[c].at \in Places /\ NumAgents \in Nat /\ CandsOK(c) /\ CurOK(c) /\ DeletingOK(c)
    BY CallFacts, HeldTypes, Bounds DEF GcInv, CollectorsOK
  <1>2. QED
    BY <1>1, HeldTypes DEF Places, Agents, CurOK

\* The collector's own promises after a step that keeps its object and its proof.
LEMMA SameObject ==
  ASSUME GcInv, UNCHANGED <<setting, pending, markedAt, up, acked, overlap, vol>>, NEW c \in Collectors,
         gc[c].pc \in {"delete", "row"}, NEW pc \in {"delete", "row"}, NEW at \in Nat, NEW all \in BOOLEAN,
         GcFields(gc'[c], pc, gc[c].cands, gc[c].cur, gc[c].proof, at, all, gc[c].planned), ProofsGrow,
         \A b \in Agents : stored'[b][vol[b]] \subseteq stored[b][vol[b]],
         all => gc[c].all, pc = "row" => at <= NumAgents,
         \A b \in Agents : (b < at \/ (b = at /\ pc = "row")) => b \in Done(c) \/ ~all \/ gc[c].cur.obj \notin stored'[b][vol[b]]
  PROVE  CandsOK(c)' /\ CurOK(c)' /\ DeletingOK(c)'
  <1>1. CandsOK(c) /\ CurOK(c) /\ DeletingOK(c)
    BY DEF GcInv, CollectorsOK
  <1>2. /\ gc'[c].pc = pc /\ gc'[c].cands = gc[c].cands /\ gc'[c].cur = gc[c].cur /\ gc'[c].proof = gc[c].proof
        /\ gc'[c].at = at /\ gc'[c].all = all /\ gc'[c].planned = gc[c].planned
    BY DEF GcFields
  <1>3. CandsOK(c)'
    BY <1>1, <1>2 DEF CandsOK, CandOK, ProofsGrow
  <1>4. CurOK(c)'
    BY <1>1, <1>2 DEF CurOK, CandOK, ProofsGrow
  <1>5. DeletingOK(c)'
    <2>1. \A b \in Done(c)' : b \in Agents /\ (b < at \/ (b = at /\ pc = "row"))
      BY <1>2 DEF Done
    <2>2. ASSUME all, Owner(gc[c].cur.obj) \in Uploaded, NEW b \in Done(c)'
          PROVE  gc[c].cur.obj \notin stored'[b][vol[b]]
      BY <1>1, <2>1, <2>2 DEF DeletingOK, OnAgent
    <2>3. QED
      BY <1>1, <1>2, <2>2, SameBounds DEF DeletingOK, OnAgent
  <1>6. QED
    BY <1>3, <1>4, <1>5

LEMMA GcDeleteKeeps == ASSUME GcInv, UNCHANGED setting, NEW c \in Collectors, GcDelete(c) PROVE GcInv'
  <1> DEFINE a == gc[c].at
             o == gc[c].cur.obj
             r == [gc[c] EXCEPT !.pc = "row"]
  <1>1. /\ gc[c].pc = "delete" /\ a <= NumAgents
        /\ stored' = [stored EXCEPT ![a][vol[a]] = @ \ {o}]
        /\ gc' = [gc EXCEPT ![c] = r]
        /\ UNCHANGED <<active, rows, scans, uploads, files, contentGen, proofs, jobs, verified, pending,
                       vol, markedAt, clock, snapshot, hiccups, restores, acked, overlap, up>>
    BY DEF GcDelete, SetGc, dbVars, envVars
  <1>2. /\ gc[c] \in GcRows /\ a \in Nat \ {0} /\ NumAgents \in Nat /\ Agents = 1..NumAgents
        /\ vol \in [Agents -> Volumes] /\ gc[c].all \in BOOLEAN
    BY <1>1, Deleting, CallFacts, HeldTypes
  <1>3. a \in Agents
    BY <1>1, <1>2
  <1>4. /\ stored' \in [Agents -> [Volumes -> SUBSET Objects]] /\ o \notin stored'[a][vol[a]]
        /\ \A b \in Agents, v \in Volumes : stored'[b][v] \subseteq stored[b][v]
    <2>1. stored \in [Agents -> [Volumes -> SUBSET Objects]] /\ vol[a] \in Volumes
      BY <1>2, <1>3, HeldTypes
    <2> HIDE DEF a, o
    <2>2. QED
      BY <1>1, <1>3, <2>1
  <1>5. r \in GcRows /\ GcFields(r, "row", gc[c].cands, gc[c].cur, gc[c].proof, a, gc[c].all, gc[c].planned)
    BY <1>2, GcDeleted
  <1> HIDE DEF r
  <1>6. gc'[c] = r
    BY <1>1, HeldTypes
  <1>7. CandsOK(c)' /\ CurOK(c)' /\ DeletingOK(c)'
    <2>1. \A b \in Agents : stored'[b][vol[b]] \subseteq stored[b][vol[b]]
      BY <1>2, <1>4
    <2>2. \A b \in Agents : (b < a \/ (b = a /\ "row" = "row")) => b \in Done(c) \/ ~gc[c].all \/ o \notin stored'[b][vol[b]]
      BY <1>4 DEF Done
    <2>3. ProofsGrow
      BY <1>1 DEF ProofsGrow
    <2>4. /\ UNCHANGED <<pending, markedAt, up, acked, overlap, vol>> /\ gc[c].pc \in {"delete", "row"}
          /\ a \in Nat /\ a <= NumAgents /\ gc[c].all \in BOOLEAN
          /\ GcFields(gc'[c], "row", gc[c].cands, gc[c].cur, gc[c].proof, a, gc[c].all, gc[c].planned)
      BY <1>1, <1>2, <1>5, <1>6
    <2> HIDE DEF a
    <2>5. QED
      BY <2>1, <2>2, <2>3, <2>4, SameObject
  <1>8. QED
    BY <1>1, <1>4, <1>5, <1>7, HeldTypes, ProofsAsTheyAre, CollectorKeeps

LEMMA GcDeleteFailedKeeps == ASSUME GcInv, UNCHANGED setting, NEW c \in Collectors, GcDeleteFailed(c) PROVE GcInv'
  <1> DEFINE a == gc[c].at
             o == gc[c].cur.obj
             r == [gc[c] EXCEPT !.at = @ + 1, !.all = FALSE]
  <1>1. /\ gc[c].pc = "delete" /\ a <= NumAgents /\ Hiccup
        /\ \E done \in BOOLEAN : stored' = [stored EXCEPT ![a][vol[a]] = IF done THEN @ \ {o} ELSE @]
        /\ gc' = [gc EXCEPT ![c] = r]
        /\ UNCHANGED <<active, rows, scans, uploads, files, contentGen, proofs, jobs, verified, pending,
                       vol, markedAt, clock, snapshot, restores, acked, overlap, up>>
    BY DEF GcDeleteFailed, SetGc, dbVars, AfterFailure
  <1>2. /\ gc[c] \in GcRows /\ a \in Nat \ {0} /\ NumAgents \in Nat /\ Agents = 1..NumAgents
        /\ vol \in [Agents -> Volumes] /\ stored \in [Agents -> [Volumes -> SUBSET Objects]]
    BY <1>1, Deleting, HeldTypes
  <1>3. a \in Agents
    BY <1>1, <1>2
  <1>4. /\ stored' \in [Agents -> [Volumes -> SUBSET Objects]]
        /\ \A b \in Agents, v \in Volumes : stored'[b][v] \subseteq stored[b][v]
    <2>1. PICK done \in BOOLEAN : stored' = [stored EXCEPT ![a][vol[a]] = IF done THEN @ \ {o} ELSE @]
      BY <1>1
    <2>2. CASE done
      <3>1. stored' = [stored EXCEPT ![a][vol[a]] = @ \ {o}]
        BY <2>1, <2>2
      <3>2. vol[a] \in Volumes
        BY <1>2, <1>3
      <3> HIDE DEF a, o
      <3>3. QED
        BY <1>2, <1>3, <3>1, <3>2
    <2>3. CASE ~done
      <3>1. stored' = stored
        BY <1>2, <1>3, <2>1, <2>3
      <3>2. QED
        BY <1>2, <3>1
    <2>4. QED
      BY <2>2, <2>3
  <1>5. r \in GcRows /\ GcFields(r, "delete", gc[c].cands, gc[c].cur, gc[c].proof, a + 1, FALSE, gc[c].planned)
    <2>1. r \in GcRows /\ GcFields(r, gc[c].pc, gc[c].cands, gc[c].cur, gc[c].proof, gc[c].at + 1, FALSE, gc[c].planned)
      BY <1>1, <1>2, GcFailed
    <2>2. QED
      BY <1>1, <2>1
  <1> HIDE DEF r
  <1>6. gc'[c] = r
    BY <1>1, HeldTypes
  <1>7. CandsOK(c)' /\ CurOK(c)' /\ DeletingOK(c)'
    <2>1. \A b \in Agents : stored'[b][vol[b]] \subseteq stored[b][vol[b]]
      BY <1>2, <1>4
    <2>2. ProofsGrow /\ a + 1 \in Nat
      BY <1>1, <1>2 DEF ProofsGrow
    <2>3. /\ FALSE \in BOOLEAN /\ "delete" \in {"delete", "row"} /\ gc[c].pc \in {"delete", "row"}
          /\ GcFields(gc'[c], "delete", gc[c].cands, gc[c].cur, gc[c].proof, a + 1, FALSE, gc[c].planned)
          /\ UNCHANGED <<setting, pending, markedAt, up, acked, overlap, vol>>
      BY <1>1, <1>5, <1>6
    <2> HIDE DEF a
    <2>4. QED
      BY <2>1, <2>2, <2>3, SameObject
  <1>8. hiccups' \in 0..MaxHiccups
    BY <1>1, HiccupTyped
  <1>9. QED
    BY <1>1, <1>4, <1>5, <1>7, <1>8, HeldTypes, ProofsAsTheyAre, CollectorKeeps

LEMMA GcDeleteRowKeeps == ASSUME GcInv, UNCHANGED setting, NEW c \in Collectors, GcDeleteRow(c) PROVE GcInv'
  <1> DEFINE a == gc[c].at
             o == gc[c].cur.obj
             r == [gc[c] EXCEPT !.pc = "delete", !.at = @ + 1]
  <1>1. /\ gc[c].pc = "row"
        /\ rows' = [rows EXCEPT ![o][a] = NoRow]
        /\ gc' = [gc EXCEPT ![c] = r]
        /\ UNCHANGED <<active, stored, scans, uploads, files, contentGen, proofs, jobs, verified, pending,
                       vol, markedAt, clock, snapshot, hiccups, restores, acked, overlap, up>>
    BY DEF GcDeleteRow, SetGc, agVars, envVars
  <1>2. /\ gc[c] \in GcRows /\ a \in Nat \ {0} /\ a <= NumAgents /\ NumAgents \in Nat /\ Agents = 1..NumAgents
        /\ gc[c].all \in BOOLEAN /\ o \in Objects /\ rows \in RowTable
    BY <1>1, Deleting, CallFacts, HeldTypes DEF CurOK
  <1>3. rows' \in RowTable
    <2>1. a \in Agents
      BY <1>2
    <2>2. NoRow \in [state : {"none", "pending", "confirmed"}, inc : Volumes \cup {0}]
      BY DEF NoRow
    <2> HIDE DEF a, o
    <2>3. QED
      BY <1>1, <1>2, <2>1, <2>2 DEF RowTable
  <1>4. r \in GcRows /\ GcFields(r, "delete", gc[c].cands, gc[c].cur, gc[c].proof, gc[c].at + 1, gc[c].all, gc[c].planned)
    BY <1>2, GcMoved
  <1> HIDE DEF r
  <1>5. gc'[c] = r
    BY <1>1, HeldTypes
  <1>6. CandsOK(c)' /\ CurOK(c)' /\ DeletingOK(c)'
    <2>1. ProofsGrow /\ a + 1 \in Nat /\ \A b \in Agents : stored'[b][vol[b]] \subseteq stored[b][vol[b]]
      BY <1>1, <1>2 DEF ProofsGrow
    <2>2. \A b \in Agents : b < a + 1 => b \in Done(c)
      BY <1>1, <1>2 DEF Done
    <2>3. /\ "delete" \in {"delete", "row"} /\ gc[c].pc \in {"delete", "row"}
          /\ GcFields(gc'[c], "delete", gc[c].cands, gc[c].cur, gc[c].proof, a + 1, gc[c].all, gc[c].planned)
          /\ UNCHANGED <<setting, pending, markedAt, up, acked, overlap, vol>>
      BY <1>1, <1>4, <1>5
    <2> HIDE DEF a
    <2>4. QED
      <3> DEFINE all == gc[c].all
                 at == a + 1
      <3>1. all \in BOOLEAN /\ at \in Nat /\ (\A b \in Agents : b < at => b \in Done(c))
            /\ GcFields(gc'[c], "delete", gc[c].cands, gc[c].cur, gc[c].proof, at, all, gc[c].planned)
        BY <1>2, <2>1, <2>2, <2>3
      <3>2. all => gc[c].all
        OBVIOUS
      <3> HIDE DEF all, at
      <3>3. QED
        BY <2>1, <2>3, <3>1, <3>2, SameObject
  <1>7. stored' \in [Agents -> [Volumes -> SUBSET Objects]] /\ \A b \in Agents, v \in Volumes : stored'[b][v] \subseteq stored[b][v]
    BY <1>1, HeldTypes
  <1>8. QED
    BY <1>1, <1>3, <1>4, <1>6, <1>7, HeldTypes, ProofsAsTheyAre, CollectorKeeps

LEMMA GcFinishKeeps == ASSUME GcInv, UNCHANGED setting, NEW c \in Collectors, GcFinish(c) PROVE GcInv'
  <1> DEFINE o == gc[c].cur.obj
             r == [gc[c] EXCEPT !.pc = "next", !.at = 1]
  <1>1. /\ gc[c].pc = "delete" /\ gc[c].at > NumAgents
        /\ IF gc[c].all
           THEN /\ rows' = [rows EXCEPT ![o] = [a \in Agents |-> NoRow]]
                /\ proofs' = Finish(proofs, {gc[c].proof}, "applied")
           ELSE UNCHANGED <<rows, proofs>>
        /\ gc' = [gc EXCEPT ![c] = r]
        /\ UNCHANGED <<active, stored, scans, uploads, files, contentGen, jobs, verified, pending,
                       vol, markedAt, clock, snapshot, hiccups, restores, acked, overlap, up>>
    BY DEF GcFinish, SetGc, agVars, envVars
  <1>2. /\ gc[c] \in GcRows /\ gc[c].at \in Nat /\ NumAgents \in Nat /\ Agents = 1..NumAgents
        /\ o \in Objects /\ rows \in RowTable /\ CandsOK(c) /\ DeletingOK(c)
        /\ gc[c].proof \in DOMAIN proofs /\ proofs[gc[c].proof].obj = o
    BY <1>1, Deleting, CallFacts, HeldTypes
  <1>3. rows' \in RowTable
    <2>1. [a \in Agents |-> NoRow] \in [Agents -> [state : {"none", "pending", "confirmed"}, inc : Volumes \cup {0}]]
      BY DEF NoRow
    <2> HIDE DEF o
    <2>2. QED
      BY <1>1, <1>2, <2>1 DEF RowTable
  <1>4. (gc[c].all /\ Owner(o) \in Uploaded) => \A a \in Agents : o \notin OnAgent(a)
    <2>1. Done(c) = Agents
      BY <1>1, <1>2 DEF Done
    <2>2. QED
      BY <1>1, <1>2, <2>1 DEF DeletingOK
  <1>5. /\ proofs' \in Seq(ProofRows) /\ Len(proofs') <= MaxProofs /\ ProofsGrow
        /\ \A i \in DOMAIN proofs' :
              /\ Kind(proofs'[i].obj) # "deletion_marker"
              /\ (proofs'[i].status = "applied" /\ Owner(proofs'[i].obj) \in Uploaded) =>
                   \/ i \in DOMAIN proofs /\ proofs[i].status = "applied"
                   \/ \A a \in Agents : proofs'[i].obj \notin OnAgent(a)
    <2>1. CASE gc[c].all
      <3>1. \A i \in {gc[c].proof} \cap DOMAIN proofs :
               Owner(proofs[i].obj) \in Uploaded => \A a \in Agents : proofs[i].obj \notin OnAgent(a)
        BY <1>2, <1>4, <2>1
      <3>2. QED
        BY <1>1, <2>1, <3>1, ProofsFinished
    <2>2. CASE ~gc[c].all
      BY <1>1, <2>2, ProofsAsTheyAre
    <2>3. QED
      BY <2>1, <2>2
  <1>6. r \in GcRows /\ GcFields(r, "next", gc[c].cands, gc[c].cur, gc[c].proof, 1, gc[c].all, gc[c].planned)
    BY <1>2, GcFinished
  <1> HIDE DEF r
  <1>7. gc'[c] = r
    BY <1>1, HeldTypes
  <1>8. CandsOK(c)' /\ CurOK(c)' /\ DeletingOK(c)'
    <2>1. gc'[c].pc = "next" /\ gc'[c].cands = gc[c].cands /\ gc'[c].planned = gc[c].planned
      BY <1>6, <1>7 DEF GcFields
    <2>2. CandsOK(c)'
      BY <1>1, <1>2, <1>5, <2>1 DEF CandsOK, CandOK, ProofsGrow
    <2>3. QED
      BY <2>1, <2>2 DEF CurOK, DeletingOK
  <1>9. stored' \in [Agents -> [Volumes -> SUBSET Objects]] /\ \A b \in Agents, v \in Volumes : stored'[b][v] \subseteq stored[b][v]
    BY <1>1, HeldTypes
  <1>10. QED
    BY <1>1, <1>3, <1>5, <1>6, <1>8, <1>9, HeldTypes, CollectorKeeps

LEMMA GcEndsKeep == ASSUME GcInv, UNCHANGED setting, NEW c \in Collectors, GcDone(c) \/ GcCrash(c) PROVE GcInv'
  <1>1. /\ gc' = [gc EXCEPT ![c] = IdleGc] /\ (UNCHANGED hiccups \/ Hiccup)
        /\ UNCHANGED <<active, rows, stored, scans, uploads, files, contentGen, proofs, jobs, verified, pending,
                       vol, markedAt, clock, snapshot, restores, acked, overlap, up>>
    BY DEF GcDone, GcCrash, SetGc, dbVars, agVars, envVars
  <1>2. IdleGc \in GcRows /\ GcFields(IdleGc, "idle", {}, NoCand, 0, 1, TRUE, {})
    BY IdleRows, HeldTypes
  <1>3. gc'[c] = IdleGc /\ hiccups' \in 0..MaxHiccups
    BY <1>1, HeldTypes, HiccupTyped
  <1>4. CandsOK(c)' /\ CurOK(c)' /\ DeletingOK(c)'
    BY <1>2, <1>3 DEF GcFields, CandsOK, CurOK, DeletingOK
  <1>5. stored' \in [Agents -> [Volumes -> SUBSET Objects]] /\ \A b \in Agents, v \in Volumes : stored'[b][v] \subseteq stored[b][v]
    BY <1>1, HeldTypes
  <1>6. QED
    BY <1>1, <1>2, <1>3, <1>4, <1>5, HeldTypes, ProofsAsTheyAre, CollectorKeeps

LEMMA GcStepKeeps == ASSUME GcInv, UNCHANGED setting, NEW c \in Collectors, GcStep(c) PROVE GcInv'
  <1>1. Modes \subseteq BOOLEAN
    BY Bounds, HeldTypes
  <1>2. QED
    BY <1>1, StartGcKeeps, GcListKeeps, SkipsKeep, GcPlanKeeps, GcRecheckKeeps, GcDeleteKeeps,
       GcDeleteFailedKeeps, GcDeleteRowKeeps, GcFinishKeeps, GcEndsKeep DEF GcStep

-----------------------------------------------------------------------------
(* Uploads.                                                                *)

\* A step of an upload under way: it stores its own content only.
LEMMA UploadMoves ==
  ASSUME GcInv, UNCHANGED <<setting, gc, pending, proofs, active, scans, jobs, verified, vol, markedAt,
                            clock, snapshot, restores, overlap>>,
         NEW f \in Files, up[f].pc # "idle", NEW r \in UpRows, up' = [up EXCEPT ![f] = r],
         hiccups' \in 0..MaxHiccups, rows' \in RowTable, contentGen' \in Nat,
         uploads' \in UploadTable, \A g \in Files : g # f => uploads'[g] = uploads[g],
         files' \in FileTable,
         \A g \in Files : /\ files'[g].state = "deleted" => files[g].state = "deleted"
                          /\ files'[g].state = "none" => files[g].state = "none",
         \A g \in acked' : g \in acked \/ (g = f /\ markedAt[f] = 0 /\ files'[f].state = "committed"),
         stored' \in [Agents -> [Volumes -> SUBSET Objects]],
         \A a \in Agents, v \in Volumes :
            stored'[a][v] \subseteq stored[a][v] \cup (IF v = vol[a] THEN Content(f) ELSE {})
  PROVE  GcInv'
  <1>1. f \notin Uploaded /\ Uploaded \subseteq Files
    BY HeldTypes, Bounds DEF GcInv, Settled
  <1>2. /\ up \in [Files -> UpRows] /\ vol \in [Agents -> Volumes] /\ acked \subseteq Files
        /\ Volumes \subseteq Nat /\ acked' \subseteq Files
    BY HeldTypes, Bounds
  <1>3. up' \in [Files -> UpRows] /\ \A g \in Files : g # f => up'[g] = up[g]
    BY <1>2
  <1>4. TablesTyped' /\ MachinesTyped' /\ OthersTyped'
    BY <1>2, SameBounds DEF GcInv, Typed, TablesTyped, MachinesTyped, OthersTyped
  <1>5. \A o \in Content(f) : Kind(o) # "deletion_marker" /\ Owner(o) = f
    BY ObjectFacts
  <1>6. History'
    <2>1. \A g \in Files : Marker(g) \notin Content(f)
      BY <1>5, ObjectFacts
    <2>2. ASSUME NEW g \in Files, NEW a \in Agents, NEW v \in Volumes, Marker(g) \in stored'[a][v] PROVE markedAt[g] # 0
      BY <2>1, <2>2 DEF GcInv, History
    <2>3. \A g \in acked' : markedAt[g] = 0 /\ (pending \/ files'[g].state # "none")
      BY <1>2 DEF GcInv, History
    <2>4. QED
      BY <2>2, <2>3, SameBounds DEF GcInv, History
  <1>7. Settled'
    <2>1. ASSUME NEW a \in Agents, NEW v \in Volumes, v > vol[a] PROVE stored'[a][v] = {}
      <3>1. v # vol[a]
        BY <1>2, <2>1
      <3>2. stored[a][v] = {}
        BY <2>1 DEF GcInv, Settled
      <3>3. QED
        BY <3>1, <3>2
    <2>2. ASSUME NEW g \in Uploaded
          PROVE  uploads'[g].state = "committed" /\ snapshot.db.uploads[g].state = "committed" /\ up'[g].pc = "idle"
      <3>1. g \in Files /\ g # f
        BY <1>1
      <3>2. QED
        BY <1>3, <3>1 DEF GcInv, Settled
    <2>3. QED
      BY <2>1, <2>2, SameBounds DEF Settled
  <1>8. Scarce
    BY <1>1, <1>2, <1>5 DEF Scarce, OnAgent
  <1>9. Remembers /\ Noted
    BY <1>3 DEF Remembers, Noted
  <1>10. QED
    BY <1>3, <1>4, <1>6, <1>7, <1>8, <1>9, OthersKeep

LEMMA UpChanged ==
  ASSUME NEW u \in UpRows, NEW pc \in {"put_chunk", "put_manifest", "confirm_chunk", "confirm_manifest",
                                       "pend_manifest", "check", "commit"},
         NEW T \in SUBSET Agents
  PROVE  /\ [u EXCEPT !.todo = T, !.pc = pc] \in UpRows /\ [u EXCEPT !.got = T, !.pc = pc] \in UpRows
         /\ [u EXCEPT !.todo = {}, !.got = {}, !.pc = pc] \in UpRows /\ [u EXCEPT !.pc = pc] \in UpRows
  BY DEF UpRows

\* What a step of an upload finds.
LEMMA UploadFacts ==
  ASSUME GcInv, NEW f \in Files
  PROVE  /\ up[f] \in UpRows /\ up[f].inc \in [Agents -> Volumes \cup {0}]
         /\ up[f].todo \subseteq Agents /\ up[f].got \subseteq Agents
         /\ Replicated(f) \in Content(f) /\ Replicated(f) \in Objects
         /\ contentGen \in Nat /\ setting \in Settings /\ IdleUpload \in UpRows
  <1>1. up[f] \in UpRows
    BY HeldTypes
  <1>2. Replicated(f) \in Content(f)
    BY DEF Replicated, Content
  <1>3. QED
    BY <1>1, <1>2, ObjectFacts, HeldTypes, IdleRows DEF UpRows, Typed, TablesTyped

LEMMA UploadPendKeeps == ASSUME GcInv, UNCHANGED setting, NEW f \in Files, UploadPend(f) PROVE GcInv'
  <1> DEFINE o == Replicated(f)
             todo == {a \in Agents : ~LiveConfirmed(o, a)}
             new(a) == IF rows[o][a].state # "none" /\ rows[o][a].inc = up[f].inc[a] THEN rows[o][a]
                       ELSE [state |-> "pending", inc |-> up[f].inc[a]]
             line == [a \in Agents |-> IF a \in todo THEN new(a) ELSE rows[o][a]]
             pc == IF Kind(o) = "chunk" THEN "put_chunk" ELSE "put_manifest"
             m == uploads[f].manifest \/ Kind(o) = "manifest"
             u == [uploads[f] EXCEPT !.chunk = TRUE, !.manifest = m]
  <1>1. /\ up[f].pc \in {"pend_chunk", "pend_manifest"}
        /\ rows' = [rows EXCEPT ![o] = line]
        /\ uploads' = [uploads EXCEPT ![f] = [uploads[f] EXCEPT !.chunk = TRUE, !.manifest = m]]
        /\ up' = [up EXCEPT ![f] = [up[f] EXCEPT !.todo = todo, !.pc = pc]]
        /\ UNCHANGED <<gc, pending, proofs, active, scans, files, contentGen, jobs, verified, vol, stored, markedAt,
                       clock, snapshot, hiccups, restores, acked, overlap>>
    BY DEF UploadPend, SetUp, agVars, envVars
  <1>2. /\ up[f] \in UpRows /\ up[f].inc \in [Agents -> Volumes \cup {0}] /\ o \in Objects
        /\ rows \in RowTable /\ uploads \in UploadTable /\ uploads[f].manifest \in BOOLEAN
        /\ contentGen \in Nat
    BY UploadFacts, HeldTypes DEF UploadTable
  <1>3. rows' \in RowTable
    <2>1. \A a \in Agents : rows[o][a] \in [state : {"none", "pending", "confirmed"}, inc : Volumes \cup {0}]
      BY <1>2 DEF RowTable
    <2>2. \A a \in Agents : new(a) \in [state : {"none", "pending", "confirmed"}, inc : Volumes \cup {0}]
      BY <1>2, <2>1
    <2>3. line \in [Agents -> [state : {"none", "pending", "confirmed"}, inc : Volumes \cup {0}]]
      BY <2>1, <2>2
    <2> HIDE DEF line, o
    <2>4. QED
      BY <1>1, <1>2, <2>3 DEF RowTable
  <1>4. uploads' \in UploadTable /\ \A g \in Files : g # f => uploads'[g] = uploads[g]
    <2>1. u \in [state : {"none", "open", "committed"}, created : 0..MaxTime, chunk : BOOLEAN, manifest : BOOLEAN]
      <3>1. uploads[f] \in [state : {"none", "open", "committed"}, created : 0..MaxTime, chunk : BOOLEAN, manifest : BOOLEAN]
            /\ m \in BOOLEAN
        BY <1>2 DEF UploadTable
      <3> HIDE DEF m
      <3>2. QED
        BY <3>1
    <2>2. uploads' = [uploads EXCEPT ![f] = u]
      BY <1>1
    <2> HIDE DEF u
    <2>3. QED
      BY <1>2, <2>1, <2>2 DEF UploadTable
  <1>5. [up[f] EXCEPT !.todo = todo, !.pc = pc] \in UpRows
    BY <1>2, UpChanged
  <1>6. QED
    BY <1>1, <1>2, <1>3, <1>4, <1>5, UploadMoves, HeldTypes

LEMMA UploadPutKeeps == ASSUME GcInv, UNCHANGED setting, NEW f \in Files, UploadPut(f) PROVE GcInv'
  <1> DEFINE o == Replicated(f)
             pc == IF Kind(o) = "chunk" THEN "confirm_chunk" ELSE "confirm_manifest"
  <1>1. PICK got \in SUBSET Agents :
          /\ IF got = Agents THEN UNCHANGED hiccups ELSE Hiccup
          /\ stored' = [a \in Agents |-> IF a \in got THEN [stored[a] EXCEPT ![vol[a]] = @ \cup {o}] ELSE stored[a]]
          /\ up' = [up EXCEPT ![f] = [up[f] EXCEPT !.got = got, !.pc = pc]]
    BY DEF UploadPut, SetUp
  <1>2. /\ up[f].pc # "idle"
        /\ UNCHANGED <<gc, pending, proofs, active, rows, scans, uploads, files, contentGen, jobs, verified, vol, markedAt,
                       clock, snapshot, restores, acked, overlap>>
    BY DEF UploadPut, dbVars
  <1>3. /\ up[f] \in UpRows /\ o \in Objects /\ o \in Content(f) /\ contentGen \in Nat
        /\ stored \in [Agents -> [Volumes -> SUBSET Objects]] /\ vol \in [Agents -> Volumes]
    BY UploadFacts, HeldTypes
  <1>4. [up[f] EXCEPT !.got = got, !.pc = pc] \in UpRows
    BY <1>3, UpChanged
  <1> HIDE DEF o, pc
  <1>5. /\ stored' \in [Agents -> [Volumes -> SUBSET Objects]]
        /\ \A a \in Agents, v \in Volumes :
             stored'[a][v] \subseteq stored[a][v] \cup (IF v = vol[a] THEN Content(f) ELSE {})
    BY <1>1, <1>3
  <1>6. hiccups' \in 0..MaxHiccups
    BY <1>1, HiccupTyped
  <1>7. QED
    BY <1>1, <1>2, <1>3, <1>4, <1>5, <1>6, UploadMoves, HeldTypes

LEMMA UploadConfirmKeeps == ASSUME GcInv, UNCHANGED setting, NEW f \in Files, UploadConfirm(f) PROVE GcInv'
  <1> DEFINE o == Replicated(f)
             done == {a \in up[f].todo \cap up[f].got : rows[o][a].state # "none"}
             line == [a \in Agents |-> IF a \in done THEN [rows[o][a] EXCEPT !.state = "confirmed"] ELSE rows[o][a]]
             pc == IF Kind(o) = "chunk" THEN "pend_manifest" ELSE "check"
  <1>1. /\ up[f].pc # "idle" /\ rows' = [rows EXCEPT ![o] = line]
        /\ \/ up' = [up EXCEPT ![f] = IdleUpload]
           \/ up' = [up EXCEPT ![f] = [up[f] EXCEPT !.todo = {}, !.got = {}, !.pc = pc]]
        /\ UNCHANGED <<gc, pending, proofs, active, scans, uploads, files, contentGen, jobs, verified, vol, stored, markedAt,
                       clock, snapshot, hiccups, restores, acked, overlap>>
    BY DEF UploadConfirm, SetUp, agVars, envVars
  <1>2. up[f] \in UpRows /\ o \in Objects /\ rows \in RowTable /\ contentGen \in Nat /\ IdleUpload \in UpRows
    BY UploadFacts, HeldTypes
  <1>3. rows' \in RowTable
    <2>1. \A a \in Agents : rows[o][a] \in [state : {"none", "pending", "confirmed"}, inc : Volumes \cup {0}]
      BY <1>2 DEF RowTable
    <2>2. line \in [Agents -> [state : {"none", "pending", "confirmed"}, inc : Volumes \cup {0}]]
      BY <2>1
    <2> HIDE DEF line, o
    <2>3. QED
      BY <1>1, <1>2, <2>2 DEF RowTable
  <1>4. [up[f] EXCEPT !.todo = {}, !.got = {}, !.pc = pc] \in UpRows
    BY <1>2, UpChanged
  <1> HIDE DEF pc
  <1>5. PICK r \in UpRows : up' = [up EXCEPT ![f] = r]
    BY <1>1, <1>2, <1>4
  <1>6. QED
    BY <1>1, <1>2, <1>3, <1>5, UploadMoves, HeldTypes

LEMMA UploadEndsKeep ==
  ASSUME GcInv, UNCHANGED setting, NEW f \in Files, UploadCheck(f) \/ UploadCrash(f) PROVE GcInv'
  <1>1. /\ up[f].pc # "idle" /\ (UNCHANGED hiccups \/ Hiccup)
        /\ \/ up' = [up EXCEPT ![f] = IdleUpload]
           \/ up' = [up EXCEPT ![f] = [up[f] EXCEPT !.pc = "commit"]]
        /\ UNCHANGED <<gc, pending, proofs, active, rows, scans, uploads, files, contentGen, jobs, verified, vol, stored,
                       markedAt, clock, snapshot, restores, acked, overlap>>
    BY DEF UploadCheck, UploadCrash, SetUp, dbVars, agVars, envVars
  <1>2. up[f] \in UpRows /\ IdleUpload \in UpRows /\ [up[f] EXCEPT !.pc = "commit"] \in UpRows /\ contentGen \in Nat
    BY UploadFacts, UpChanged
  <1>3. PICK r \in UpRows : up' = [up EXCEPT ![f] = r]
    BY <1>1, <1>2
  <1>4. hiccups' \in 0..MaxHiccups
    BY <1>1, HiccupTyped
  <1>5. QED
    BY <1>1, <1>2, <1>3, <1>4, UploadMoves, HeldTypes

LEMMA UploadCommitKeeps == ASSUME GcInv, UNCHANGED setting, NEW f \in Files, UploadCommit(f) PROVE GcInv'
  <1>1. /\ up[f].pc # "idle" /\ up' = [up EXCEPT ![f] = IdleUpload]
        /\ \/ UNCHANGED <<files, uploads, contentGen>>
           \/ /\ files[f].state = "none" /\ files' = [files EXCEPT ![f].state = "committed"]
              /\ uploads' = [uploads EXCEPT ![f].state = "committed"]
              /\ contentGen' = contentGen + 1
        /\ acked' = IF files'[f].state = "committed" /\ markedAt[f] = 0 THEN acked \cup {f} ELSE acked
        /\ UNCHANGED <<gc, pending, proofs, active, rows, scans, jobs, verified, vol, stored, markedAt,
                       clock, snapshot, hiccups, restores, overlap>>
    BY DEF UploadCommit, SetUp, agVars
  <1>2. IdleUpload \in UpRows /\ contentGen \in Nat /\ files \in FileTable /\ uploads \in UploadTable
    BY UploadFacts, HeldTypes
  <1>3. /\ files' \in FileTable /\ uploads' \in UploadTable /\ contentGen' \in Nat
        /\ \A g \in Files : g # f => uploads'[g] = uploads[g] /\ files'[g] = files[g]
        /\ files'[f].state \in {files[f].state, "committed"}
    <2>1. CASE UNCHANGED <<files, uploads, contentGen>>
      BY <1>2, <2>1
    <2>2. CASE /\ files' = [files EXCEPT ![f].state = "committed"]
               /\ uploads' = [uploads EXCEPT ![f].state = "committed"] /\ contentGen' = contentGen + 1
      <3>1. files' \in FileTable /\ files'[f].state = "committed" /\ \A g \in Files : g # f => files'[g] = files[g]
        BY <1>2, <2>2 DEF FileTable
      <3>2. uploads' \in UploadTable /\ \A g \in Files : g # f => uploads'[g] = uploads[g]
        BY <1>2, <2>2 DEF UploadTable
      <3>3. QED
        BY <1>2, <2>2, <3>1, <3>2
    <2>3. QED
      BY <1>1, <2>1, <2>2
  <1>4. \A g \in Files : /\ files'[g].state = "deleted" => files[g].state = "deleted"
                         /\ files'[g].state = "none" => files[g].state = "none"
    BY <1>3
  <1>5. \A g \in acked' : g \in acked \/ (g = f /\ markedAt[f] = 0 /\ files'[f].state = "committed")
    BY <1>1
  <1>6. QED
    BY <1>1, <1>2, <1>3, <1>4, <1>5, UploadMoves, HeldTypes

LEMMA UploadBeginKeeps == ASSUME GcInv, UNCHANGED setting, NEW f \in Files, UploadBegin(f) PROVE GcInv'
  <1> DEFINE r == [IdleUpload EXCEPT !.pc = "pend_chunk", !.inc = vol]
             u == [uploads[f] EXCEPT !.state = "open", !.created = clock]
  <1>1. /\ uploads[f].state # "committed" /\ active' = Observed(Agents)
        /\ uploads' = uploads \/ uploads' = [uploads EXCEPT ![f] = u]
        /\ up' = [up EXCEPT ![f] = r]
        /\ overlap' = IF Applying(f) THEN overlap \cup {f} ELSE overlap
        /\ UNCHANGED <<gc, pending, proofs, rows, scans, files, contentGen, jobs, verified, vol, stored, markedAt,
                       clock, snapshot, hiccups, restores, acked>>
    BY DEF UploadBegin, SetUp, agVars
  <1>2. /\ IdleUpload \in UpRows /\ uploads \in UploadTable /\ clock \in 0..MaxTime /\ vol \in [Agents -> Volumes]
        /\ up \in [Files -> UpRows] /\ overlap \subseteq Files /\ active' \in [Agents -> Volumes \cup {0}]
        /\ Uploaded \subseteq Files
    BY <1>1, UploadFacts, HeldTypes, ObservedTyped, Bounds
  <1>3. r \in UpRows
    BY <1>2 DEF UpRows
  <1> HIDE DEF r
  <1>4. up' \in [Files -> UpRows] /\ \A g \in Files : g # f => up'[g] = up[g]
    BY <1>1, <1>2, <1>3
  <1>5. uploads' \in UploadTable /\ \A g \in Files : g # f => uploads'[g] = uploads[g]
    <2>1. u \in [state : {"none", "open", "committed"}, created : 0..MaxTime, chunk : BOOLEAN, manifest : BOOLEAN]
      BY <1>2 DEF UploadTable
    <2> HIDE DEF u
    <2>2. QED
      BY <1>1, <1>2, <2>1 DEF UploadTable
  <1>6. TablesTyped' /\ MachinesTyped' /\ OthersTyped'
    BY <1>1, <1>2, <1>5, SameBounds DEF GcInv, Typed, TablesTyped, MachinesTyped, OthersTyped
  <1>7. History'
    BY <1>1, SameBounds DEF GcInv, History
  <1>8. Settled'
    <2>1. ASSUME NEW g \in Uploaded
          PROVE  uploads'[g].state = "committed" /\ snapshot.db.uploads[g].state = "committed" /\ up'[g].pc = "idle"
      <3>1. g \in Files /\ g # f
        BY <1>1, <1>2 DEF GcInv, Settled
      <3>2. QED
        BY <1>4, <1>5, <3>1 DEF GcInv, Settled
    <2>2. QED
      BY <1>1, <2>1, SameBounds DEF GcInv, Settled
  <1>9. Scarce /\ Remembers
    BY <1>1 DEF Scarce, Remembers, OnAgent
  <1>10. Noted
    BY <1>1, <1>4 DEF Noted
  <1>11. QED
    BY <1>1, <1>4, <1>6, <1>7, <1>8, <1>9, <1>10, OthersKeep

LEMMA UploadStepKeeps == ASSUME GcInv, UNCHANGED setting, NEW f \in Files, UploadStep(f) PROVE GcInv'
  BY UploadBeginKeeps, UploadPendKeeps, UploadPutKeeps, UploadConfirmKeeps, UploadEndsKeep, UploadCommitKeeps
     DEF UploadStep

-----------------------------------------------------------------------------
(* The rest of the portal, and the machines.                               *)

LEMMA DeleteFileKeeps == ASSUME GcInv, UNCHANGED setting, NEW f \in Files, DeleteFile(f) PROVE GcInv'
  <1>1. /\ active' = Observed(Agents)
        /\ stored' = [a \in Agents |-> [stored[a] EXCEPT ![vol[a]] = @ \cup {Marker(f)}]]
        /\ rows' = [rows EXCEPT ![Marker(f)] = [a \in Agents |-> Confirmed(vol[a])]]
        /\ files' = [files EXCEPT ![f] = [state |-> "deleted", at |-> clock]]
        /\ markedAt' = [markedAt EXCEPT ![f] = clock]
        /\ contentGen' = contentGen + 1 /\ acked' = acked \ {f}
        /\ UNCHANGED <<gc, pending, proofs, scans, uploads, jobs, verified, vol,
                       clock, snapshot, hiccups, restores, overlap, up>>
    BY DEF DeleteFile
  <1>2. /\ Typed /\ stored \in [Agents -> [Volumes -> SUBSET Objects]] /\ vol \in [Agents -> Volumes]
        /\ rows \in RowTable /\ files \in FileTable /\ clock \in 1..MaxTime /\ MaxTime \in Nat
        /\ acked \subseteq Files /\ up \in [Files -> UpRows] /\ markedAt \in [Files -> 0..MaxTime]
        /\ contentGen \in Nat /\ Volumes \subseteq Nat
    BY HeldTypes, Bounds DEF Typed, MachinesTyped, TablesTyped
  <1>3. Marker(f) \in Objects /\ Kind(Marker(f)) = "deletion_marker" /\ \A g \in Files : Marker(g) = Marker(f) => g = f
    BY ObjectFacts
  <1>4. /\ stored' \in [Agents -> [Volumes -> SUBSET Objects]]
        /\ \A a \in Agents, v \in Volumes :
             stored'[a][v] = stored[a][v] \cup (IF v = vol[a] THEN {Marker(f)} ELSE {})
    BY <1>1, <1>2, <1>3
  <1>5. active' \in [Agents -> Volumes \cup {0}]
    BY <1>1, <1>2, ObservedTyped
  <1>6. rows' \in RowTable
    <2>1. [a \in Agents |-> Confirmed(vol[a])] \in [Agents -> [state : {"none", "pending", "confirmed"}, inc : Volumes \cup {0}]]
      BY <1>2 DEF Confirmed
    <2>2. QED
      BY <1>1, <1>2, <1>3, <2>1 DEF RowTable
  <1>7. /\ files' \in FileTable /\ \A g \in Files : g # f => files'[g] = files[g]
        /\ markedAt' \in [Files -> 0..MaxTime] /\ markedAt'[f] # 0 /\ \A g \in Files : g # f => markedAt'[g] = markedAt[g]
    <2>1. [state |-> "deleted", at |-> clock]
            \in [state : {"none", "committed", "deleted", "recovery_blocked"}, at : 0..MaxTime]
      BY <1>2
    <2>2. files' \in FileTable /\ \A g \in Files : g # f => files'[g] = files[g]
      BY <1>1, <1>2, <2>1 DEF FileTable
    <2>3. clock \in 0..MaxTime /\ clock # 0
      BY <1>2
    <2>4. /\ markedAt' \in [Files -> 0..MaxTime] /\ markedAt'[f] # 0
          /\ \A g \in Files : g # f => markedAt'[g] = markedAt[g]
      BY <1>1, <1>2, <2>3
    <2>5. QED
      BY <2>2, <2>4
  <1>8. TablesTyped' /\ MachinesTyped' /\ OthersTyped'
    <2>1. contentGen' \in Nat /\ acked' \subseteq Files
      BY <1>1, <1>2
    <2>2. TablesTyped'
      BY <1>1, <1>2, <1>5, <1>6, <1>7, <2>1, SameBounds DEF Typed, TablesTyped
    <2>3. MachinesTyped'
      BY <1>1, <1>2, <1>4, <1>7, SameBounds DEF Typed, MachinesTyped
    <2>4. OthersTyped'
      BY <1>1, <1>2, <2>1, SameBounds DEF Typed, OthersTyped
    <2>5. QED
      BY <2>2, <2>3, <2>4
  <1>9. History'
    <2>1. \A g \in Files : (files'[g].state = "deleted" \/ snapshot.db.files[g].state = "deleted") => markedAt'[g] # 0
      BY <1>7 DEF GcInv, History
    <2>2. \A g \in Files, a \in Agents, v \in Volumes : Marker(g) \in stored'[a][v] => markedAt'[g] # 0
      BY <1>3, <1>4, <1>7 DEF GcInv, History
    <2>3. \A g \in acked' : markedAt'[g] = 0 /\ (pending \/ files'[g].state # "none")
      BY <1>1, <1>2, <1>7 DEF GcInv, History
    <2>4. QED
      BY <1>1, <2>1, <2>2, <2>3, SameBounds DEF History
  <1>10. Settled'
    <2>1. ASSUME NEW a \in Agents, NEW v \in Volumes, v > vol[a] PROVE stored'[a][v] = {}
      <3>1. v # vol[a]
        BY <1>2, <2>1
      <3>2. stored[a][v] = {}
        BY <2>1 DEF GcInv, Settled
      <3>3. QED
        BY <1>4, <3>1, <3>2
    <2>2. QED
      BY <1>1, <2>1, SameBounds DEF GcInv, Settled
  <1>11. Scarce
    BY <1>1, <1>2, <1>3, <1>4 DEF Scarce, OnAgent
  <1>12. Remembers /\ Noted
    BY <1>1, <1>7 DEF Remembers, Noted
  <1>13. QED
    BY <1>1, <1>2, <1>8, <1>9, <1>10, <1>11, <1>12, OthersKeep

LEMMA ScrubKeeps == ASSUME GcInv, UNCHANGED setting, NEW live \in SUBSET Agents, Scrub(live) PROVE GcInv'
  <1>1. /\ UNCHANGED hiccups \/ Hiccup
        /\ active' = Observed(live)
        /\ scans' = [a \in Agents |-> IF a \notin live THEN scans[a] ELSE [k \in Kinds |->
             [inc |-> vol[a], at |-> clock, seen |-> {o \in OnAgent(a) : Kind(o) = k}]]]
        /\ UNCHANGED <<gc, pending, proofs, rows, uploads, files, contentGen, jobs, verified, vol, stored, markedAt,
                       clock, snapshot, restores, acked, overlap, up>>
    BY DEF Scrub, agVars
  <1>2. /\ Typed /\ scans \in ScanTable /\ vol \in [Agents -> Volumes] /\ clock \in 0..MaxTime
        /\ stored \in [Agents -> [Volumes -> SUBSET Objects]] /\ up \in [Files -> UpRows]
    BY HeldTypes, Bounds DEF Typed, TablesTyped
  <1>3. scans' \in ScanTable
    <2>1. \A a \in Agents : OnAgent(a) \subseteq Objects
      BY <1>2 DEF OnAgent
    <2>2. ASSUME NEW a \in Agents, NEW k \in Kinds
          PROVE  [inc |-> vol[a], at |-> clock, seen |-> {o \in OnAgent(a) : Kind(o) = k}]
                   \in [inc : Volumes \cup {0}, at : 0..MaxTime, seen : SUBSET Objects]
      BY <1>2, <2>1
    <2>3. QED
      BY <1>1, <1>2, <2>2 DEF ScanTable
  <1>4. active' \in [Agents -> Volumes \cup {0}] /\ hiccups' \in 0..MaxHiccups
    BY <1>1, <1>2, ObservedTyped, HiccupTyped
  <1>5. TablesTyped' /\ MachinesTyped' /\ OthersTyped'
    BY <1>1, <1>2, <1>3, <1>4, SameBounds DEF Typed, TablesTyped, MachinesTyped, OthersTyped
  <1>6. History' /\ Settled'
    BY <1>1, SameBounds DEF GcInv, History, Settled
  <1>7. Scarce /\ Remembers /\ Noted
    BY <1>1 DEF Scarce, Remembers, Noted, OnAgent
  <1>8. QED
    BY <1>1, <1>2, <1>5, <1>6, <1>7, OthersKeep

LEMMA BackupKeeps == ASSUME GcInv, UNCHANGED setting, NEW t \in Targets, Backup(t) PROVE GcInv'
  <1>1. /\ jobs' = jobs \cup {t}
        /\ \E got \in SUBSET Objects : verified' = [verified EXCEPT ![t] = @ \cup got]
        /\ UNCHANGED <<gc, pending, proofs, active, rows, scans, uploads, files, contentGen, vol, stored, markedAt,
                       clock, snapshot, hiccups, restores, acked, overlap, up>>
    BY DEF Backup, agVars, envVars
  <1>2. /\ Typed /\ jobs \subseteq Targets /\ verified \in [Targets -> SUBSET Objects] /\ up \in [Files -> UpRows]
    BY HeldTypes DEF Typed, TablesTyped
  <1>3. jobs' \subseteq Targets /\ verified' \in [Targets -> SUBSET Objects]
    BY <1>1, <1>2
  <1>4. TablesTyped' /\ MachinesTyped' /\ OthersTyped'
    BY <1>1, <1>2, <1>3, SameBounds DEF Typed, TablesTyped, MachinesTyped, OthersTyped
  <1>5. History' /\ Settled'
    BY <1>1, SameBounds DEF GcInv, History, Settled
  <1>6. Scarce /\ Remembers /\ Noted
    BY <1>1 DEF Scarce, Remembers, Noted, OnAgent
  <1>7. QED
    BY <1>1, <1>2, <1>4, <1>5, <1>6, OthersKeep

LEMMA TickKeeps == ASSUME GcInv, UNCHANGED setting, Tick PROVE GcInv'
  <1>1. /\ clock < MaxTime /\ clock' = clock + 1
        /\ UNCHANGED <<gc, pending, proofs, active, rows, scans, uploads, files, contentGen, jobs, verified, vol, stored,
                       markedAt, snapshot, hiccups, restores, acked, overlap, up>>
    BY DEF Tick, dbVars, agVars
  <1>2. Typed /\ clock \in 1..MaxTime /\ MaxTime \in Nat /\ up \in [Files -> UpRows]
    BY HeldTypes, Bounds
  <1>3. clock' \in 1..MaxTime
    BY <1>1, <1>2
  <1>4. TablesTyped' /\ MachinesTyped' /\ OthersTyped'
    BY <1>1, <1>2, <1>3, SameBounds DEF Typed, TablesTyped, MachinesTyped, OthersTyped
  <1>5. History' /\ Settled'
    BY <1>1, SameBounds DEF GcInv, History, Settled
  <1>6. Scarce /\ Remembers /\ Noted
    BY <1>1 DEF Scarce, Remembers, Noted, OnAgent
  <1>7. QED
    BY <1>1, <1>2, <1>4, <1>5, <1>6, OthersKeep

\* A new volume is blank.
LEMMA ReplaceVolumeKeeps == ASSUME GcInv, UNCHANGED setting, NEW a \in Agents, ReplaceVolume(a) PROVE GcInv'
  <1>1. /\ vol[a] < MaxVolumes /\ vol' = [vol EXCEPT ![a] = @ + 1]
        /\ UNCHANGED <<gc, pending, proofs, active, rows, scans, uploads, files, contentGen, jobs, verified, stored,
                       markedAt, clock, snapshot, hiccups, restores, acked, overlap, up>>
    BY DEF ReplaceVolume, dbVars, envVars
  <1>2. /\ Typed /\ vol \in [Agents -> Volumes] /\ MaxVolumes \in Nat /\ up \in [Files -> UpRows]
        /\ Volumes = 1..MaxVolumes
    BY HeldTypes, Bounds DEF Volumes
  <1>3. vol' \in [Agents -> Volumes] /\ vol'[a] = vol[a] + 1 /\ \A b \in Agents : b # a => vol'[b] = vol[b]
    BY <1>1, <1>2
  <1>4. TablesTyped' /\ MachinesTyped' /\ OthersTyped'
    BY <1>1, <1>2, <1>3, SameBounds DEF Typed, TablesTyped, MachinesTyped, OthersTyped
  <1>5. History'
    BY <1>1, SameBounds DEF GcInv, History
  <1>6. Settled'
    <2>1. ASSUME NEW b \in Agents, NEW v \in Volumes, v > vol'[b] PROVE stored[b][v] = {}
      <3>1. v > vol[b]
        BY <1>2, <1>3, <2>1
      <3>2. QED
        BY <3>1 DEF GcInv, Settled
    <2>2. QED
      BY <1>1, <2>1, SameBounds DEF GcInv, Settled
  <1>7. Scarce
    <2>1. stored[a][vol'[a]] = {}
      <3>1. vol'[a] \in Volumes /\ vol'[a] > vol[a]
        BY <1>2, <1>3
      <3>2. QED
        BY <3>1 DEF GcInv, Settled
    <2>2. QED
      BY <1>1, <1>3, <2>1 DEF Scarce, OnAgent
  <1>8. Remembers /\ Noted
    BY <1>1 DEF Remembers, Noted
  <1>9. QED
    BY <1>1, <1>2, <1>4, <1>5, <1>6, <1>7, <1>8, OthersKeep

LEMMA TakeSnapshotKeeps == ASSUME GcInv, UNCHANGED setting, TakeSnapshot PROVE GcInv'
  <1>1. /\ proofs = <<>> /\ snapshot' = [taken |-> TRUE, db |-> Database]
        /\ UNCHANGED <<gc, pending, proofs, active, rows, scans, uploads, files, contentGen, jobs, verified, vol, stored,
                       markedAt, clock, hiccups, restores, acked, overlap, up>>
    BY DEF TakeSnapshot, dbVars, agVars
  <1>2. Typed /\ TablesTyped /\ up \in [Files -> UpRows]
    BY HeldTypes DEF Typed
  <1>3. snapshot' \in [taken : BOOLEAN, db : Saved] /\ snapshot'.db.files = files /\ snapshot'.db.uploads = uploads
    <2>1. Database \in Saved /\ Database.files = files /\ Database.uploads = uploads
      BY <1>1, <1>2 DEF Database, Saved, TablesTyped
    <2> HIDE DEF Database
    <2>2. QED
      BY <1>1, <2>1
  <1>4. TablesTyped' /\ MachinesTyped' /\ OthersTyped'
    BY <1>1, <1>2, <1>3, SameBounds DEF Typed, TablesTyped, MachinesTyped, OthersTyped
  <1>5. History'
    BY <1>1, <1>3, SameBounds DEF GcInv, History
  <1>6. Settled'
    BY <1>1, <1>3, SameBounds DEF GcInv, Settled
  <1>7. Scarce /\ Remembers /\ Noted
    BY <1>1 DEF Scarce, Remembers, Noted, OnAgent
  <1>8. QED
    BY <1>1, <1>2, <1>4, <1>5, <1>6, <1>7, OthersKeep

\* The tables go back to the snapshot, with no proof and no call under way.
LEMMA RestoreKeeps == ASSUME GcInv, UNCHANGED setting, Restore PROVE GcInv'
  <1> DEFINE d == snapshot.db
  <1>1. /\ restores < MaxRestores /\ restores' = restores + 1
        /\ active' = d.active /\ rows' = d.rows /\ scans' = d.scans /\ uploads' = d.uploads /\ files' = d.files
        /\ contentGen' = d.contentGen /\ proofs' = d.proofs /\ jobs' = d.jobs /\ verified' = d.verified
        /\ pending' = TRUE
        /\ up' = [f \in Files |-> IdleUpload] /\ gc' = [c \in Collectors |-> IdleGc]
        /\ UNCHANGED <<vol, stored, markedAt, clock, snapshot, hiccups, acked, overlap>>
    BY DEF Restore, agVars
  <1>2. /\ Typed /\ d \in Saved /\ restores \in 0..MaxRestores /\ MaxRestores \in Nat /\ MaxProofs \in Nat
        /\ setting \in Settings /\ Uploaded \subseteq Files
    BY HeldTypes, Bounds DEF Typed, OthersTyped
  <1>3. /\ IdleGc \in GcRows /\ GcFields(IdleGc, "idle", {}, NoCand, 0, 1, TRUE, {})
        /\ IdleUpload \in UpRows /\ IdleUpload.pc = "idle"
    BY <1>2, IdleRows
  <1>4. proofs' = <<>>
    BY <1>1, <1>2 DEF Saved
  <1>5. Typed'
    <2>1. TablesTyped'
      <3>1. /\ d.active \in [Agents -> Volumes \cup {0}] /\ d.rows \in RowTable /\ d.scans \in ScanTable
            /\ d.uploads \in UploadTable /\ d.files \in FileTable /\ d.contentGen \in Nat
            /\ d.jobs \subseteq Targets /\ d.verified \in [Targets -> SUBSET Objects]
        BY <1>2 DEF Saved
      <3> HIDE DEF d
      <3>2. QED
        BY <1>1, <3>1, SameBounds DEF TablesTyped
    <2>2. MachinesTyped'
      BY <1>1, <1>2, SameBounds DEF Typed, MachinesTyped
    <2>3. OthersTyped'
      <3>1. restores' \in 0..MaxRestores
        BY <1>1, <1>2
      <3>2. QED
        BY <1>1, <1>2, <3>1, SameBounds DEF Typed, OthersTyped
    <2>4. CallsTyped'
      BY <1>1, <1>3, SameBounds DEF CallsTyped
    <2>5. ProofsTyped'
      BY <1>2, <1>4, SameBounds DEF ProofsTyped
    <2>6. QED
      BY <2>1, <2>2, <2>3, <2>4, <2>5 DEF Typed
  <1>6. History'
    BY <1>1, SameBounds DEF GcInv, History
  <1>7. Settled'
    <2>1. \A f \in Uploaded : up'[f].pc = "idle"
      BY <1>1, <1>2, <1>3
    <2>2. QED
      BY <1>1, <2>1, SameBounds DEF GcInv, Settled
  <1>8. CollectorsOK'
    <2>1. \A c \in Collectors : gc'[c].pc = "idle" /\ gc'[c].cands = {} /\ gc'[c].planned = {}
      BY <1>1, <1>3 DEF GcFields
    <2>2. QED
      BY <2>1 DEF CollectorsOK, CandsOK, CurOK, DeletingOK
  <1>9. ProofsOK'
    BY <1>4 DEF ProofsOK, AppliedMeansGone
  <1>10. QED
    BY <1>5, <1>6, <1>7, <1>8, <1>9 DEF GcInv

\* What recovery reads from the agents is what they hold: nothing that is gone
\* everywhere comes back, and a file found deleted was deleted.
LEMMA RecoverKeeps == ASSUME GcInv, UNCHANGED setting, Recover PROVE GcInv'
  <1> DEFINE there(o) == \E a \in Agents : o \in OnAgent(a)
             verdict(f) ==
               IF there(Marker(f)) THEN "deleted"
               ELSE IF there(<<"manifest", f>>)
                    THEN IF there(<<"chunk", f>>) THEN "committed" ELSE "recovery_blocked"
                    ELSE IF files[f].state = "committed" THEN "recovery_blocked" ELSE files[f].state
             placed == UNION {IF verdict(f) = "committed" THEN Content(f)
                              ELSE IF verdict(f) = "deleted" THEN {Marker(f)} ELSE {} : f \in Files}
             found == {o \in placed : there(o)}
  <1>1. /\ pending /\ pending' = FALSE /\ active' = Observed(Agents)
        /\ files' = [f \in Files |->
               [state |-> verdict(f), at |-> IF verdict(f) = "deleted" THEN markedAt[f] ELSE 0]]
        /\ uploads' = [f \in Files |->
               IF verdict(f) = "committed" /\ uploads[f].state = "open"
               THEN [uploads[f] EXCEPT !.state = "committed", !.manifest = TRUE] ELSE uploads[f]]
        /\ stored' = [a \in Agents |-> [stored[a] EXCEPT ![vol[a]] = @ \cup found]]
        /\ rows' = [o \in Objects |-> [a \in Agents |->
               IF o \in placed /\ there(o) THEN Confirmed(vol[a]) ELSE rows[o][a]]]
        /\ contentGen' = contentGen + 1
        /\ acked' = {f \in acked : verdict(f) # "none"}
        /\ UNCHANGED <<scans, proofs, jobs, verified, vol, markedAt, clock, snapshot,
                       hiccups, restores, overlap, up, gc>>
    BY DEF Recover
  <1>2. /\ Typed /\ stored \in [Agents -> [Volumes -> SUBSET Objects]] /\ vol \in [Agents -> Volumes]
        /\ rows \in RowTable /\ files \in FileTable /\ uploads \in UploadTable /\ acked \subseteq Files
        /\ markedAt \in [Files -> 0..MaxTime] /\ contentGen \in Nat /\ Volumes \subseteq Nat
        /\ MaxTime \in Nat /\ Uploaded \subseteq Files
    BY HeldTypes, Bounds DEF Typed, MachinesTyped, TablesTyped
  <1>3. \A f \in Files : /\ verdict(f) \in {"none", "committed", "deleted", "recovery_blocked"}
                         /\ verdict(f) = "deleted" => markedAt[f] # 0
    <2>1. \A f \in Files : files[f].state \in {"none", "committed", "deleted", "recovery_blocked"}
      BY <1>2 DEF FileTable
    <2>2. \A f \in Files : there(Marker(f)) => markedAt[f] # 0
      BY <1>2 DEF GcInv, History, OnAgent
    <2>3. \A f \in Files : files[f].state = "deleted" => markedAt[f] # 0
      BY DEF GcInv, History
    <2> HIDE DEF there
    <2>4. QED
      BY <2>1, <2>2, <2>3
  <1>4. \A o \in found : o \in Objects /\ there(o)
    <2> HIDE DEF there, verdict
    <2>1. \A f \in Files : \A o \in Content(f) \cup {Marker(f)} : o \in Objects
      BY ObjectFacts
    <2>2. QED
      BY <2>1
  <1> HIDE DEF verdict, placed, found
  <1>5. /\ stored' \in [Agents -> [Volumes -> SUBSET Objects]]
        /\ \A a \in Agents, v \in Volumes :
             stored'[a][v] = stored[a][v] \cup (IF v = vol[a] THEN found ELSE {})
    <2> HIDE DEF there
    <2>1. QED
      BY <1>1, <1>2, <1>4
  <1>6. files' \in FileTable /\ \A f \in Files : files'[f].state = verdict(f)
    <2> HIDE DEF there
    <2>1. \A f \in Files : [state |-> verdict(f), at |-> IF verdict(f) = "deleted" THEN markedAt[f] ELSE 0]
                            \in [state : {"none", "committed", "deleted", "recovery_blocked"}, at : 0..MaxTime]
      <3>1. \A f \in Files : markedAt[f] \in 0..MaxTime /\ 0 \in 0..MaxTime
        BY <1>2
      <3>2. QED
        BY <1>3, <3>1
    <2>2. QED
      BY <1>1, <2>1 DEF FileTable
  <1>7. uploads' \in UploadTable /\ \A f \in Files : uploads[f].state = "committed" => uploads'[f] = uploads[f]
    <2>1. \A u \in [state : {"none", "open", "committed"}, created : 0..MaxTime, chunk : BOOLEAN, manifest : BOOLEAN] :
            [u EXCEPT !.state = "committed", !.manifest = TRUE]
              \in [state : {"none", "open", "committed"}, created : 0..MaxTime, chunk : BOOLEAN, manifest : BOOLEAN]
      OBVIOUS
    <2>2. QED
      BY <1>1, <1>2, <2>1 DEF UploadTable
  <1>8. rows' \in RowTable
    <2>1. \A a \in Agents : Confirmed(vol[a]) \in [state : {"none", "pending", "confirmed"}, inc : Volumes \cup {0}]
      BY <1>2 DEF Confirmed
    <2> HIDE DEF there
    <2>2. QED
      BY <1>1, <1>2, <2>1 DEF RowTable
  <1>9. Typed'
    <2>1. active' \in [Agents -> Volumes \cup {0}] /\ contentGen' \in Nat /\ acked' \subseteq Files
      <3> HIDE DEF there
      <3>1. active' = Observed(Agents) /\ contentGen' = contentGen + 1 /\ acked' \subseteq acked
        BY <1>1
      <3>2. Observed(Agents) \in [Agents -> Volumes \cup {0}]
        BY <1>2, ObservedTyped
      <3>3. QED
        BY <1>2, <3>1, <3>2
    <2>2. TablesTyped'
      BY <1>1, <1>2, <1>6, <1>7, <1>8, <2>1, SameBounds DEF Typed, TablesTyped
    <2>3. MachinesTyped'
      BY <1>1, <1>2, <1>5, SameBounds DEF Typed, MachinesTyped
    <2>4. OthersTyped' /\ CallsTyped' /\ ProofsTyped'
      BY <1>1, <1>2, <2>1, SameBounds DEF Typed, OthersTyped, CallsTyped, ProofsTyped
    <2>5. QED
      BY <2>2, <2>3, <2>4 DEF Typed
  <1>10. History'
    <2>1. \A f \in Files : (files'[f].state = "deleted" \/ snapshot.db.files[f].state = "deleted") => markedAt[f] # 0
      BY <1>3, <1>6 DEF GcInv, History
    <2>2. ASSUME NEW f \in Files, NEW a \in Agents, NEW v \in Volumes, Marker(f) \in stored'[a][v] PROVE markedAt[f] # 0
      <3>1. CASE Marker(f) \in stored[a][v]
        BY <3>1 DEF GcInv, History
      <3>2. CASE Marker(f) \in found
        BY <1>2, <1>4, <3>2 DEF GcInv, History, OnAgent
      <3>3. QED
        BY <1>5, <2>2, <3>1, <3>2
    <2>3. \A f \in acked' : markedAt[f] = 0 /\ files'[f].state # "none"
      BY <1>1, <1>2, <1>6 DEF GcInv, History
    <2>4. QED
      BY <1>1, <2>1, <2>2, <2>3, SameBounds DEF History
  <1>11. Settled'
    <2>1. ASSUME NEW a \in Agents, NEW v \in Volumes, v > vol[a] PROVE stored'[a][v] = {}
      <3>1. v # vol[a]
        BY <1>2, <2>1
      <3>2. stored[a][v] = {}
        BY <2>1 DEF GcInv, Settled
      <3>3. QED
        BY <1>5, <3>1, <3>2
    <2>2. \A f \in Uploaded : uploads'[f].state = "committed"
      BY <1>2, <1>7 DEF GcInv, Settled
    <2>3. QED
      BY <1>1, <2>1, <2>2, SameBounds DEF GcInv, Settled
  <1>12. CollectorsOK'
    <2>1. \A c \in Collectors : CandsOK(c) /\ gc[c].pc = "idle"
      BY <1>1 DEF GcInv, CollectorsOK, CandsOK
    <2>2. QED
      BY <1>1, <2>1 DEF CollectorsOK, CandsOK, CandOK, CurOK, DeletingOK
  <1>13. ProofsOK'
    <2>1. ASSUME NEW i \in DOMAIN proofs, proofs[i].status = "applied", Owner(proofs[i].obj) \in Uploaded,
                 NEW a \in Agents
          PROVE  proofs[i].obj \notin stored'[a][vol[a]]
      <3>1. \A b \in Agents : proofs[i].obj \notin OnAgent(b)
        BY <2>1 DEF GcInv, ProofsOK, AppliedMeansGone
      <3>2. proofs[i].obj \notin found
        BY <1>4, <3>1
      <3>3. QED
        BY <1>2, <1>5, <3>1, <3>2 DEF OnAgent
    <2>2. AppliedMeansGone'
      BY <1>1, <2>1, SameBounds DEF AppliedMeansGone, OnAgent
    <2>3. QED
      BY <1>1, <2>2 DEF ProofsOK, GcInv
  <1>14. QED
    BY <1>9, <1>10, <1>11, <1>12, <1>13 DEF GcInv

-----------------------------------------------------------------------------
(* Every step keeps the invariant.                                         *)

LEMMA GcFirst == Init => GcInv
  <1> SUFFICES ASSUME Init PROVE GcInv
    OBVIOUS
  <1> USE DEF Init
  <1>1. /\ setting \in Settings /\ NumAgents \in Nat \ {0} /\ MaxTime \in Nat \ {0}
        /\ 0 \in 0..MaxTime /\ 1 \in 0..MaxTime /\ 1 \in 1..MaxTime /\ 1 \in Volumes /\ Volumes \subseteq Nat
        /\ MaxHiccups \in Nat /\ MaxRestores \in Nat /\ MaxProofs \in Nat /\ Uploaded \subseteq Files
    BY Bounds
  <1>2. \A f \in Files : Content(f) \subseteq Objects /\ Marker(f) \notin UNION {Content(g) : g \in Uploaded}
    BY <1>1, ObjectFacts
  <1>3. active \in [Agents -> Volumes \cup {0}] /\ rows \in RowTable /\ scans \in ScanTable
    BY <1>1 DEF RowTable, ScanTable, Confirmed, NoRow, NoScan
  <1>4. uploads \in UploadTable /\ files \in FileTable
    BY <1>1 DEF UploadTable, FileTable
  <1>5. stored \in [Agents -> [Volumes -> SUBSET Objects]] /\ vol \in [Agents -> Volumes] /\ markedAt \in [Files -> 0..MaxTime]
    BY <1>1, <1>2
  <1>6. Database \in Saved
    BY <1>1, <1>3, <1>4 DEF Database, Saved
  <1>7. Typed
    <2>1. TablesTyped /\ MachinesTyped
      BY <1>3, <1>4, <1>5 DEF TablesTyped, MachinesTyped
    <2>2. ProofsTyped
      BY <1>1 DEF ProofsTyped
    <2>3. OthersTyped
      <3>1. snapshot \in [taken : BOOLEAN, db : Saved]
        BY <1>6
      <3>2. QED
        BY <1>1, <3>1 DEF OthersTyped
    <2>4. CallsTyped
      BY <1>1, IdleRows DEF CallsTyped
    <2>5. QED
      BY <2>1, <2>2, <2>3, <2>4 DEF Typed
  <1>8. History
    <2>1. \A f \in Files : files[f].state # "deleted" /\ snapshot.db.files = files
      BY DEF Database
    <2>2. \A f \in Files, a \in Agents, v \in Volumes : Marker(f) \notin stored[a][v]
      BY <1>2
    <2>3. \A f \in acked : markedAt[f] = 0 /\ files[f].state # "none"
      BY <1>1
    <2>4. QED
      BY <2>1, <2>2, <2>3 DEF History
  <1>9. Settled
    <2>1. \A f \in Uploaded : uploads[f].state = "committed" /\ snapshot.db.uploads = uploads /\ up[f].pc = "idle"
      BY <1>1, IdleRows DEF Database
    <2>2. \A a \in Agents, v \in Volumes : v > vol[a] => stored[a][v] = {}
      BY <1>1
    <2>3. QED
      BY <2>1, <2>2 DEF Settled
  <1>10. CollectorsOK
    <2>1. \A c \in Collectors : gc[c].pc = "idle" /\ gc[c].cands = {} /\ gc[c].planned = {}
      BY <1>1, IdleRows DEF GcFields
    <2>2. QED
      BY <2>1 DEF CollectorsOK, CandsOK, CurOK, DeletingOK
  <1>11. ProofsOK
    BY DEF ProofsOK, AppliedMeansGone
  <1>12. QED
    BY <1>7, <1>8, <1>9, <1>10, <1>11 DEF GcInv

LEMMA GcStays == ASSUME GcInv, UNCHANGED vars PROVE GcInv'
  <1>1. UNCHANGED <<active, rows, scans, uploads, files, contentGen, proofs, jobs, verified, pending,
                    vol, stored, markedAt, clock, snapshot, hiccups, restores, acked, overlap, up, gc, setting>>
    BY DEF vars, dbVars, agVars, envVars
  <1>2. Typed'
    BY <1>1, SameBounds DEF GcInv, Typed, TablesTyped, ProofsTyped, MachinesTyped, OthersTyped, CallsTyped, UploadTable, FileTable
  <1>3. History' /\ Settled'
    BY <1>1, SameBounds DEF GcInv, History, Settled
  <1>4. CollectorsOK'
    BY <1>1, SameBounds DEF GcInv, CollectorsOK, CandsOK, CandOK, CurOK, DeletingOK, Done, OnAgent
  <1>5. ProofsOK'
    BY <1>1, SameBounds DEF GcInv, ProofsOK, AppliedMeansGone, OnAgent
  <1>6. QED
    BY <1>2, <1>3, <1>4, <1>5 DEF GcInv

LEMMA GcNext == GcInv /\ [Next]_vars => GcInv'
  <1> SUFFICES ASSUME GcInv, [Next]_vars PROVE GcInv'
    OBVIOUS
  <1>1. CASE UNCHANGED vars
    BY <1>1, GcStays
  <1>2. CASE Next
    <2>1. UNCHANGED setting /\ Collecting \subseteq Collectors
      BY <1>2, Bounds, HeldTypes DEF Next
    <2>2. CASE \E c \in Collecting : GcStep(c)
      BY <2>1, <2>2, GcStepKeeps
    <2>3. CASE \E f \in Files : UploadStep(f) \/ DeleteFile(f)
      BY <2>1, <2>3, UploadStepKeeps, DeleteFileKeeps
    <2>4. CASE \E a \in Agents : ReplaceVolume(a)
      BY <2>1, <2>4, ReplaceVolumeKeeps
    <2>5. CASE \E live \in SUBSET Agents : Scrub(live)
      BY <2>1, <2>5, ScrubKeeps
    <2>6. CASE \E t \in Targets : Backup(t)
      BY <2>1, <2>6, BackupKeeps
    <2>7. CASE TakeSnapshot \/ Restore \/ Recover \/ Tick
      BY <2>1, <2>7, TakeSnapshotKeeps, RestoreKeeps, RecoverKeeps, TickKeeps
    <2>8. QED
      BY <1>2, <2>2, <2>3, <2>4, <2>5, <2>6, <2>7 DEF Next, Activity
  <1>3. QED
    BY <1>1, <1>2

-----------------------------------------------------------------------------
(* What a step takes off an agent.                                         *)

Grows == \A a \in Agents, v \in Volumes : stored[a][v] \subseteq stored'[a][v]

\* Only the two DELETE steps remove anything.
LEMMA GcStepGrows ==
  ASSUME GcInv, NEW c \in Collectors, GcStep(c), ~GcDelete(c), ~GcDeleteFailed(c)
  PROVE  Grows
  <1>1. UNCHANGED stored
    BY DEF GcStep, StartGc, GcList, GcSkip, GcBlocked, GcPlan, GcRecheck, GcDeleteRow, GcFinish, GcDone, GcCrash, agVars
  <1>2. QED
    BY <1>1 DEF Grows

LEMMA PutGrows ==
  ASSUME GcInv, NEW D, NEW S \in SUBSET Agents,
         stored' = [a \in Agents |-> IF a \in S THEN [stored[a] EXCEPT ![vol[a]] = @ \cup D] ELSE stored[a]]
  PROVE  Grows
  <1>1. stored \in [Agents -> [Volumes -> SUBSET Objects]] /\ vol \in [Agents -> Volumes]
    BY HeldTypes
  <1>2. QED
    BY <1>1 DEF Grows

LEMMA UploadStepGrows ==
  ASSUME GcInv, NEW f \in Files, UploadStep(f)
  PROVE  Grows
  <1>1. CASE UploadPut(f)
    <2>1. PICK got \in SUBSET Agents :
            stored' = [a \in Agents |-> IF a \in got THEN [stored[a] EXCEPT ![vol[a]] = @ \cup {Replicated(f)}] ELSE stored[a]]
      BY <1>1 DEF UploadPut
    <2>2. QED
      BY <2>1, PutGrows
  <1>2. CASE ~UploadPut(f)
    <2>1. UNCHANGED stored
      BY <1>2 DEF UploadStep, UploadBegin, UploadPend, UploadConfirm, UploadCheck, UploadCommit, UploadCrash, agVars
    <2>2. QED
      BY <2>1 DEF Grows
  <1>3. QED
    BY <1>1, <1>2

LEMMA AllPutGrows ==
  ASSUME GcInv, NEW D, stored' = [a \in Agents |-> [stored[a] EXCEPT ![vol[a]] = @ \cup D]]
  PROVE  Grows
  <1>1. stored \in [Agents -> [Volumes -> SUBSET Objects]] /\ vol \in [Agents -> Volumes]
    BY HeldTypes
  <1>2. QED
    BY <1>1 DEF Grows

LEMMA DeleteTakesItsObject ==
  ASSUME GcInv, NEW c \in Collectors, GcDelete(c) \/ GcDeleteFailed(c)
  PROVE  /\ gc[c].pc = "delete"
         /\ \A a \in Agents, v \in Volumes : stored[a][v] \ {gc[c].cur.obj} \subseteq stored'[a][v]
  <1> DEFINE a == gc[c].at
             o == gc[c].cur.obj
  <1>1. /\ gc[c].pc = "delete"
        /\ \/ stored' = [stored EXCEPT ![a][vol[a]] = @ \ {o}]
           \/ \E done \in BOOLEAN : stored' = [stored EXCEPT ![a][vol[a]] = IF done THEN @ \ {o} ELSE @]
    BY DEF GcDelete, GcDeleteFailed
  <1>2. stored \in [Agents -> [Volumes -> SUBSET Objects]]
    BY HeldTypes
  <1> HIDE DEF a, o
  <1>3. \A b \in Agents, v \in Volumes : stored[b][v] \ {o} \subseteq stored'[b][v]
    BY <1>1, <1>2
  <1>4. QED
    BY <1>1, <1>3 DEF o

LEMMA OthersRemoveNothing ==
  ASSUME GcInv, [Next]_vars, \A c \in Collectors : ~GcDelete(c) /\ ~GcDeleteFailed(c)
  PROVE  Grows
  <1>1. CASE UNCHANGED vars
    BY <1>1 DEF vars, agVars, Grows
  <1>2. CASE Next
    <2>1. UNCHANGED setting /\ Collecting \subseteq Collectors
      BY <1>2, Bounds, HeldTypes DEF Next
    <2>2. CASE \E c \in Collecting : GcStep(c)
      BY <2>1, <2>2, GcStepGrows
    <2>3. CASE \E f \in Files : UploadStep(f)
      BY <2>3, UploadStepGrows
    <2>4. CASE \E f \in Files : DeleteFile(f)
      <3>1. PICK f \in Files : stored' = [a \in Agents |-> [stored[a] EXCEPT ![vol[a]] = @ \cup {Marker(f)}]]
        BY <2>4 DEF DeleteFile
      <3>2. QED
        BY <3>1, AllPutGrows
    <2>5. CASE Recover
      <3>1. \E D : stored' = [a \in Agents |-> [stored[a] EXCEPT ![vol[a]] = @ \cup D]]
        BY <2>5 DEF Recover
      <3>2. QED
        BY <3>1, AllPutGrows
    <2>6. CASE \/ \E a \in Agents : ReplaceVolume(a)
               \/ \E live \in SUBSET Agents : Scrub(live)
               \/ \E t \in Targets : Backup(t)
               \/ TakeSnapshot \/ Restore \/ Tick
      <3>1. UNCHANGED stored
        BY <2>6 DEF ReplaceVolume, Scrub, Backup, TakeSnapshot, Restore, Tick, agVars
      <3>2. QED
        BY <3>1 DEF Grows
    <2>7. QED
      BY <1>2, <2>2, <2>3, <2>4, <2>5, <2>6 DEF Next, Activity
  <1>3. QED
    BY <1>1, <1>2

LEMMA RemovedUnneeded ==
  GcInv /\ [Next]_vars =>
    \A a \in Agents, o \in Objects :
      (o \in stored[a][vol[a]] /\ o \notin stored'[a][vol[a]]) => (~Needed(o) \/ Owner(o) \in overlap)
  <1> SUFFICES ASSUME GcInv, [Next]_vars, NEW a \in Agents, NEW o \in Objects,
                      o \in stored[a][vol[a]], o \notin stored'[a][vol[a]]
               PROVE  ~Needed(o) \/ Owner(o) \in overlap
    OBVIOUS
  <1>1. vol[a] \in Volumes
    BY HeldTypes
  <1>2. PICK c \in Collectors : GcDelete(c) \/ GcDeleteFailed(c)
    BY <1>1, OthersRemoveNothing DEF Grows
  <1>3. gc[c].pc = "delete" /\ o = gc[c].cur.obj
    BY <1>1, <1>2, DeleteTakesItsObject
  <1>4. DeletingOK(c)
    BY DEF GcInv, CollectorsOK
  <1>5. QED
    BY <1>3, <1>4 DEF DeletingOK, Needed

\* Theorem: collection is safe.  For any number of agents, volumes, files and
\* collections, whatever uploads, deletes, backups, scrubs, lost machines,
\* restores of an old snapshot and recoveries do between its steps: a DELETE of gc
\* never takes an object of a file that was acknowledged and not deleted, unless
\* that file's own upload ran while the proof was being applied; and an applied
\* proof (finish_gc_proof) means that no agent serves the object any more.  It rests
\* on evaluate and its second run in gc, on refuse_while_recovery_pending, and on
\* recover reading the deletion markers before it says what a file is.
THEOREM CollectionIsSafe == Spec => CollectionSafe
  <1>1. Init => GcInv
    BY GcFirst
  <1>2. GcInv /\ [Next]_vars => GcInv'
    BY GcNext
  <1>3. GcInv => TypeOK /\ AppliedMeansGone
    BY TypedMeans DEF GcInv, ProofsOK
  <1>4. GcInv /\ [Next]_vars =>
          [\A a \in Agents, o \in Objects :
             (o \in stored[a][vol[a]] /\ o \notin stored'[a][vol[a]])
                => (~Needed(o) \/ Owner(o) \in overlap)]_vars
    BY RemovedUnneeded
  <1>5. QED
    BY <1>1, <1>2, <1>3, <1>4, PTL DEF Spec, CollectionSafe, NeededKept
=============================================================================
