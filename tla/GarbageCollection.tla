------------------------- MODULE GarbageCollection -------------------------
(***************************************************************************)
(* Proof-based garbage collection (lifecycle.rs, gc) beside the uploads    *)
(* that it may overtake, deletes, backups, volume replacements,            *)
(* and a portal restored from an old snapshot of its metadata.             *)
(*                                                                         *)
(* A collection plans a proof per object, derives every fact again, and    *)
(* only then sends DELETE to each agent.  One action is what gc does       *)
(* between two awaits, except that planning and the second derivation are  *)
(* two actions: other processes share the database.                        *)
(*                                                                         *)
(* Abstractions                                                            *)
(*  - A file has one chunk and one manifest (generation 1) and, once       *)
(*    deleted, one marker (generation 2); every agent is a failure domain. *)
(*  - The three digests of a proof are the values they digest.             *)
(*  - Upload is CommitSpine's with the loops over agents folded into one   *)
(*    step each: pending rows, PUTs, confirmations, read back, commit.     *)
(*    Delete, scrub, backup and recover are single actions, as their       *)
(*    effects on the rows, and are modelled step by step in their own      *)
(*    modules.                                                             *)
(*  - Volumes are replaced by blank ones and never return (CommitSpine     *)
(*    covers a superseded volume: it is refused).                          *)
(*  - What control_object_blockers lists and the known control objects it  *)
(*    compares with are read in one step.  The code reads the known ones   *)
(*    first, which can only block more.                                    *)
(***************************************************************************)
EXTENDS Integers, Sequences, FiniteSets

CONSTANTS
    Files,          \* each is one upload and the file it makes
    Collectors,     \* processes that run gc
    NumAgents,      \* the agents are 1..NumAgents
    Retention,      \* live-retention horizon, in ticks
    Grace,          \* staging grace, in ticks
    MaxTime,        \* bound on the clock
    Settings        \* what a deployment may have and meet

ASSUME GcAssumption ==
    /\ NumAgents \in Nat \ {0} /\ Files # {}
    /\ Retention \in Nat /\ Grace \in Nat /\ MaxTime \in Nat \ {0}
    /\ \A x \in Settings :
         /\ x.uploaded \subseteq Files /\ x.deletable \subseteq Files
         /\ x.collectors \subseteq Collectors /\ x.modes \subseteq BOOLEAN
         /\ x.volumes \in Nat \ {0} /\ x.proofs \in Nat /\ x.hiccups \in Nat /\ x.restores \in Nat

Agents == 1..NumAgents
Kinds == {"chunk", "manifest", "deletion_marker"}
Objects == Kinds \X Files
Kind(o) == o[1]
Owner(o) == o[2]
Content(f) == {<<"chunk", f>>, <<"manifest", f>>}
Marker(f) == <<"deletion_marker", f>>
Control == {o \in Objects : Kind(o) # "chunk"}

VARIABLES
    clock,      \* whole seconds
    vol,        \* agent -> mounted volume, whose number is its incarnation
    stored,     \* agent -> volume -> objects on it
    active,     \* agent -> incarnation the database holds active, 0 if none
    rows,       \* object -> agent -> placement row
    scans,      \* agent -> kind -> latest complete scan, at = 0 if none
    uploads,    \* file -> upload row
    files,      \* file -> projection row
    markedAt,   \* file -> the time its deletion marker carries, 0 if none
    contentGen,
    proofs,     \* sequence of gc_proofs rows; the position is the id
    jobs,       \* backup targets that have run a job
    verified,   \* backup target -> objects it verified
    pending,    \* the metadata was restored and not yet recovered
    snapshot,   \* a copy of the database, taken = FALSE if there is none
    up,         \* file -> the upload call under way
    gc,         \* collector -> the gc call under way
    hiccups, restores,
    setting,    \* the one of Settings this deployment has
    \* Kept only to state properties: files whose commit was acknowledged, that
    \* nobody ever deleted and that no recovery found gone with all its volumes,
    \* and files whose upload ran while a proof about one of their objects was
    \* being applied.
    acked, overlap

dbVars  == <<active, rows, scans, uploads, files, contentGen, proofs, jobs, verified, pending>>
agVars  == <<vol, stored, markedAt>>
envVars == <<clock, snapshot, hiccups, restores, acked, overlap>>
vars    == <<dbVars, agVars, envVars, up, gc, setting>>

Uploaded    == setting.uploaded     \* files committed before the start
Collecting  == setting.collectors
Targets     == setting.targets      \* backup targets
Modes       == setting.modes        \* may gc apply, may it only plan
MaxVolumes  == setting.volumes      \* bounds: volumes of an agent, proofs,
MaxProofs   == setting.proofs       \*   failures and crashes, restores
MaxHiccups  == setting.hiccups
MaxRestores == setting.restores
Deletable   == setting.deletable    \* files that somebody may delete
Volumes     == 1..MaxVolumes

NoRow  == [state |-> "none", inc |-> 0]
NoScan == [inc |-> 0, at |-> 0, seen |-> {}]
NoCtx  == [gen |-> 0, incs |-> {}, obs |-> {}, targets |-> {}]
NoCand == [obj |-> <<"chunk", CHOOSE f \in Files : TRUE>>, since |-> 0, keep |-> 0, staging |-> FALSE]
IdleUpload == [pc |-> "idle", inc |-> [a \in Agents |-> 0], todo |-> {}, got |-> {}]
IdleGc == [pc |-> "idle", apply |-> FALSE, now |-> 0, live |-> {}, ctx |-> NoCtx,
           unknown |-> FALSE, cands |-> {}, planned |-> {}, cur |-> NoCand,
           proof |-> 0, at |-> 1, all |-> TRUE]

CandRows == [obj : Objects, since : Nat, keep : {Retention, Grace, 0}, staging : BOOLEAN]
CtxRows  == [gen : Nat, incs : SUBSET (Agents \X Volumes),
             obs : SUBSET (Volumes \X Agents \X Kinds \X SUBSET Objects), targets : SUBSET Targets]
ProofRows == [obj : Objects, ctx : CtxRows, status : {"planned", "stale", "applied"}]

\* The type invariant: the tables and the memory of each call (gc, upload)
\* hold values of their types.
TypeOK ==
    /\ setting \in Settings
    /\ clock \in 1..MaxTime
    /\ vol \in [Agents -> Volumes]
    /\ stored \in [Agents -> [Volumes -> SUBSET Objects]]
    /\ active \in [Agents -> Volumes \cup {0}]
    /\ rows \in [Objects -> [Agents -> [state : {"none", "pending", "confirmed"},
                                        inc : Volumes \cup {0}]]]
    /\ scans \in [Agents -> [Kinds -> [inc : Volumes \cup {0}, at : 0..MaxTime,
                                       seen : SUBSET Objects]]]
    /\ uploads \in [Files -> [state : {"none", "open", "committed"}, created : 0..MaxTime,
                              chunk : BOOLEAN, manifest : BOOLEAN]]
    /\ files \in [Files -> [state : {"none", "committed", "deleted", "recovery_blocked"},
                            at : 0..MaxTime]]
    /\ markedAt \in [Files -> 0..MaxTime]
    /\ contentGen \in Nat
    /\ proofs \in Seq(ProofRows) /\ Len(proofs) <= MaxProofs
    /\ jobs \subseteq Targets
    /\ verified \in [Targets -> SUBSET Objects]
    /\ pending \in BOOLEAN
    /\ up \in [Files -> [pc : {"idle", "pend_chunk", "put_chunk", "confirm_chunk",
                               "pend_manifest", "put_manifest", "confirm_manifest",
                               "check", "commit"},
                         inc : [Agents -> Volumes \cup {0}],
                         todo : SUBSET Agents, got : SUBSET Agents]]
    /\ gc \in [Collectors ->
                 [pc : {"idle", "list", "next", "recheck", "delete", "row"},
                  apply : BOOLEAN, now : 0..MaxTime, live : SUBSET Agents, ctx : CtxRows,
                  unknown : BOOLEAN, cands : SUBSET CandRows, planned : SUBSET Nat,
                  cur : CandRows, proof : 0..MaxProofs, at : 1..(NumAgents + 1), all : BOOLEAN]]
    /\ hiccups \in 0..MaxHiccups /\ restores \in 0..MaxRestores
    /\ acked \subseteq Files /\ overlap \subseteq Files

Database == [active |-> active, rows |-> rows, scans |-> scans, uploads |-> uploads,
             files |-> files, contentGen |-> contentGen, proofs |-> proofs,
             jobs |-> jobs, verified |-> verified]

Confirmed(v) == [state |-> "confirmed", inc |-> v]

\* Nothing was uploaded yet, except that the files in Uploaded are committed
\* on every agent.
Init ==
    /\ setting \in Settings
    /\ clock = 1
    /\ vol = [a \in Agents |-> 1]
    /\ stored = [a \in Agents |-> [v \in Volumes |->
                   IF v = 1 THEN UNION {Content(f) : f \in Uploaded} ELSE {}]]
    /\ active = [a \in Agents |-> IF Uploaded = {} THEN 0 ELSE 1]
    /\ rows = [o \in Objects |-> [a \in Agents |->
                 IF Owner(o) \in Uploaded /\ Kind(o) # "deletion_marker" THEN Confirmed(1) ELSE NoRow]]
    /\ scans = [a \in Agents |-> [k \in Kinds |-> NoScan]]
    /\ uploads = [f \in Files |->
         IF f \in Uploaded
         THEN [state |-> "committed", created |-> 1, chunk |-> TRUE, manifest |-> TRUE]
         ELSE [state |-> "none", created |-> 0, chunk |-> FALSE, manifest |-> FALSE]]
    /\ files = [f \in Files |-> [state |-> IF f \in Uploaded THEN "committed" ELSE "none", at |-> 0]]
    /\ markedAt = [f \in Files |-> 0]
    /\ contentGen = 0
    /\ proofs = <<>>
    /\ jobs = {} /\ verified = [t \in Targets |-> {}]
    /\ pending = FALSE
    /\ snapshot = [taken |-> FALSE, db |-> Database]
    /\ up = [f \in Files |-> IdleUpload]
    /\ gc = [c \in Collectors |-> IdleGc]
    /\ hiccups = 0 /\ restores = 0
    /\ acked = Uploaded /\ overlap = {}

-----------------------------------------------------------------------------
(* What the database and the agents answer. *)

OnAgent(a) == stored[a][vol[a]]

LiveConfirmed(o, a) == rows[o][a].state = "confirmed" /\ rows[o][a].inc = active[a]
Floor(o) == Cardinality({a \in Agents : LiveConfirmed(o, a)}) >= 2

\* Every agent in live is observed on the volume it serves.
Observed(live) == [a \in Agents |-> IF a \in live THEN vol[a] ELSE active[a]]

ActiveIncarnations(act) == {<<a, act[a]>> : a \in {b \in Agents : act[b] # 0}}
LatestScans(act) ==
    {s \in Agents \X Kinds : /\ act[s[1]] # 0
                             /\ scans[s[1]][s[2]].at > 0 /\ scans[s[1]][s[2]].inc = act[s[1]]}
ProofContext(act) ==
    [gen |-> contentGen, incs |-> ActiveIncarnations(act),
     obs |-> {<<act[s[1]], s[1], s[2], scans[s[1]][s[2]].seen>> : s \in LatestScans(act)},
     targets |-> jobs]

Known(o) ==
    IF Kind(o) = "manifest" THEN uploads[Owner(o)].manifest \/ files[Owner(o)].state # "none"
                            ELSE files[Owner(o)].state = "deleted"
RequiredByLiveFile(o) ==
    \/ Kind(o) # "deletion_marker" /\ files[Owner(o)].state = "committed"
    \/ Kind(o) = "deletion_marker" /\ files[Owner(o)].state = "deleted"

\* Mutant: a planned proof counts as an applied one.
GcProved(o) == \E i \in DOMAIN proofs : proofs[i].obj = o
GcApplied(o) == \E i \in DOMAIN proofs : proofs[i].obj = o /\ proofs[i].status = "applied"

DeletedFiles == {f \in Files : files[f].state = "deleted" /\ files[f].at # 0}

ExpiredUploads(cutoff) == {f \in Files : uploads[f].state = "open" /\ uploads[f].created <= cutoff}

UploadObjects(f) == {o \in Content(f) : \/ Kind(o) = "chunk" /\ uploads[f].chunk
                                        \/ Kind(o) = "manifest" /\ uploads[f].manifest}

\* The candidates and where each came from; a deleted generation comes first.
Candidates(now) ==
    LET superseded == {[obj |-> o, since |-> files[Owner(o)].at, keep |-> Retention, staging |-> FALSE] :
                          o \in UNION {Content(f) : f \in DeletedFiles}}
        expired == {[obj |-> o, since |-> uploads[Owner(o)].created, keep |-> Grace, staging |-> TRUE] :
                          o \in UNION {UploadObjects(f) : f \in ExpiredUploads(now - Grace)}}
    IN  superseded \cup {x \in expired : \A y \in superseded : x.obj # y.obj}

\* The facts of a proof; a candidate is proven when nothing blocks it.
OffsiteOrUnowned(x, ctx) ==
    IF x.staging THEN files[Owner(x.obj)].state = "none"
                 ELSE \A t \in ctx.targets : x.obj \in verified[t]
ObservedSince(x, ctx, act) ==
    /\ ctx.incs # {}
    /\ \A i \in ctx.incs : \E e \in ctx.obs : e[1] = i[2] /\ e[2] = i[1] /\ e[3] = Kind(x.obj)
    /\ \A s \in LatestScans(act) : s[2] = Kind(x.obj) => scans[s[1]][s[2]].at > x.since
NoMovement(o) == \A a \in Agents : rows[o][a].state # "pending"

Evaluate(x, ctx, unknown, now) ==
    /\ ~unknown
    /\ OffsiteOrUnowned(x, ctx)
    /\ ~RequiredByLiveFile(x.obj)
    /\ Kind(x.obj) # "deletion_marker"
    /\ now - x.since >= x.keep
    /\ ObservedSince(x, ctx, active)
    /\ NoMovement(x.obj)

\* finish_gc_proof: a settled proof keeps its status.
Finish(ps, ids, status) ==
    [i \in DOMAIN ps |-> IF i \in ids /\ ps[i].status = "planned"
                         THEN [ps[i] EXCEPT !.status = status] ELSE ps[i]]

-----------------------------------------------------------------------------
(* gc *)

Hiccup == hiccups < MaxHiccups /\ hiccups' = hiccups + 1
SetGc(c, r) == gc' = [gc EXCEPT ![c] = r]

RefuseWhilePending == ~pending

\* The clock is read, the health of every agent asked for, and the context
\* read; agents that do not answer are left out.
StartGc(c, apply) ==
    /\ gc[c].pc = "idle"
    /\ RefuseWhilePending
    /\ \E live \in SUBSET Agents :
         /\ IF live = Agents THEN UNCHANGED hiccups ELSE Hiccup
         /\ active' = Observed(live)
         /\ SetGc(c, [IdleGc EXCEPT !.pc = "list", !.apply = apply, !.now = clock,
                                    !.live = live, !.ctx = ProofContext(Observed(live))])
    /\ UNCHANGED <<rows, scans, uploads, files, contentGen, proofs, jobs, verified, pending,
                   agVars, clock, snapshot, restores, acked, overlap, up>>

\* The control objects of every live agent; a listing that fails blocks too.
GcList(c) ==
    /\ gc[c].pc = "list"
    /\ \E failed \in BOOLEAN :
         /\ IF failed THEN Hiccup ELSE UNCHANGED hiccups
         /\ SetGc(c, [gc[c] EXCEPT
                !.pc = "next",
                !.unknown = failed \/ \E a \in gc[c].live :
                                        \E o \in OnAgent(a) \cap Control : ~Known(o),
                !.cands = Candidates(gc[c].now),
                !.planned = {i \in DOMAIN proofs : proofs[i].status = "planned"}])
    /\ UNCHANGED <<dbVars, agVars, clock, snapshot, restores, acked, overlap, up>>

Earlier(c, o) == {i \in gc[c].planned : proofs[i].obj = o}
Matching(c, o) == {i \in Earlier(c, o) : [proofs[i].ctx EXCEPT !.targets = {}]
                                          = [gc[c].ctx EXCEPT !.targets = {}]}
Last(S) == CHOOSE i \in S : \A j \in S : j <= i

\* The next candidate is passed over, found blocked, or proven.
GcSkip(c, x) ==
    /\ gc[c].pc = "next" /\ x \in gc[c].cands
    /\ RequiredByLiveFile(x.obj) \/ GcApplied(x.obj)
    /\ SetGc(c, [gc[c] EXCEPT !.cands = @ \ {x}])
    /\ UNCHANGED <<dbVars, agVars, envVars, up>>

GcBlocked(c, x) ==
    /\ gc[c].pc = "next" /\ x \in gc[c].cands
    /\ ~RequiredByLiveFile(x.obj) /\ ~GcApplied(x.obj)
    /\ ~Evaluate(x, gc[c].ctx, gc[c].unknown, gc[c].now)
    /\ proofs' = Finish(proofs, Earlier(c, x.obj), "stale")
    /\ SetGc(c, [gc[c] EXCEPT !.cands = @ \ {x}])
    /\ UNCHANGED <<active, rows, scans, uploads, files, contentGen, jobs, verified, pending,
                   agVars, envVars, up>>

GcPlan(c, x) ==
    /\ gc[c].pc = "next" /\ x \in gc[c].cands
    /\ ~RequiredByLiveFile(x.obj) /\ ~GcApplied(x.obj)
    /\ Evaluate(x, gc[c].ctx, gc[c].unknown, gc[c].now)
    /\ LET match == Matching(c, x.obj)
           settled == Finish(proofs, Earlier(c, x.obj) \ match, "stale")
           reuse == match # {}
       IN  /\ reuse \/ Len(proofs) < MaxProofs
           /\ proofs' = IF reuse THEN settled
                        ELSE Append(settled, [obj |-> x.obj, ctx |-> gc[c].ctx, status |-> "planned"])
           /\ SetGc(c, [gc[c] EXCEPT
                  !.cands = @ \ {x}, !.cur = x,
                  !.proof = IF reuse THEN Last(match) ELSE Len(proofs) + 1,
                  !.pc = IF gc[c].apply THEN "recheck" ELSE "next"])
    /\ UNCHANGED <<active, rows, scans, uploads, files, contentGen, jobs, verified, pending,
                   agVars, envVars, up>>

\* Mutant: apply executes the proof without deriving its facts again.
ApplyAsPlanned(c) == TRUE
StillProven(c) ==
    LET fresh == ProofContext(active)
    IN  /\ [fresh EXCEPT !.targets = {}] = [gc[c].ctx EXCEPT !.targets = {}]
        /\ Evaluate(gc[c].cur, fresh, gc[c].unknown, gc[c].now)

\* Every fact again, against the control listing made when planning.
GcRecheck(c) ==
    /\ gc[c].pc = "recheck"
    /\ LET go == StillProven(c) /\ gc[c].live = Agents
           f  == Owner(gc[c].cur.obj)
       IN  /\ proofs' = IF StillProven(c) THEN proofs ELSE Finish(proofs, {gc[c].proof}, "stale")
           /\ SetGc(c, [gc[c] EXCEPT !.pc = IF go THEN "delete" ELSE "next", !.at = 1, !.all = TRUE])
           /\ overlap' = IF go /\ up[f].pc # "idle" THEN overlap \cup {f} ELSE overlap
    /\ UNCHANGED <<active, rows, scans, uploads, files, contentGen, jobs, verified, pending,
                   agVars, clock, snapshot, hiccups, restores, acked, up>>

\* DELETE is idempotent: an absent object is a success.
GcDelete(c) ==
    /\ gc[c].pc = "delete" /\ gc[c].at <= NumAgents
    /\ LET a == gc[c].at IN
       stored' = [stored EXCEPT ![a][vol[a]] = @ \ {gc[c].cur.obj}]
    /\ SetGc(c, [gc[c] EXCEPT !.pc = "row"])
    /\ UNCHANGED <<dbVars, vol, markedAt, envVars, up>>

AfterFailure(all) == FALSE

\* The agent refuses, or the answer is lost after it deleted.
GcDeleteFailed(c) ==
    /\ gc[c].pc = "delete" /\ gc[c].at <= NumAgents
    /\ Hiccup
    /\ LET a == gc[c].at IN
       \E done \in BOOLEAN :
          stored' = [stored EXCEPT ![a][vol[a]] = IF done THEN @ \ {gc[c].cur.obj} ELSE @]
    /\ SetGc(c, [gc[c] EXCEPT !.at = @ + 1, !.all = AfterFailure(@)])
    /\ UNCHANGED <<dbVars, vol, markedAt, clock, snapshot, restores, acked, overlap, up>>

GcDeleteRow(c) ==
    /\ gc[c].pc = "row"
    /\ rows' = [rows EXCEPT ![gc[c].cur.obj][gc[c].at] = NoRow]
    /\ SetGc(c, [gc[c] EXCEPT !.pc = "delete", !.at = @ + 1])
    /\ UNCHANGED <<active, scans, uploads, files, contentGen, proofs, jobs, verified, pending,
                   agVars, envVars, up>>

GcFinish(c) ==
    /\ gc[c].pc = "delete" /\ gc[c].at > NumAgents
    /\ IF gc[c].all
       THEN /\ rows' = [rows EXCEPT ![gc[c].cur.obj] = [a \in Agents |-> NoRow]]
            /\ proofs' = Finish(proofs, {gc[c].proof}, "applied")
       ELSE UNCHANGED <<rows, proofs>>
    /\ SetGc(c, [gc[c] EXCEPT !.pc = "next", !.at = 1])
    /\ UNCHANGED <<active, scans, uploads, files, contentGen, jobs, verified, pending,
                   agVars, envVars, up>>

GcDone(c) ==
    /\ gc[c].pc = "next" /\ gc[c].cands = {}
    /\ SetGc(c, IdleGc)
    /\ UNCHANGED <<dbVars, agVars, envVars, up>>

GcCrash(c) ==
    /\ gc[c].pc # "idle"
    /\ Hiccup
    /\ SetGc(c, IdleGc)
    /\ UNCHANGED <<dbVars, agVars, clock, snapshot, restores, acked, overlap, up>>

GcStep(c) ==
    \/ \E apply \in Modes : StartGc(c, apply)
    \/ GcList(c)
    \/ \E x \in gc[c].cands : GcSkip(c, x) \/ GcBlocked(c, x) \/ GcPlan(c, x)
    \/ GcRecheck(c) \/ GcDelete(c) \/ GcDeleteFailed(c) \/ GcDeleteRow(c)
    \/ GcFinish(c) \/ GcDone(c) \/ GcCrash(c)

-----------------------------------------------------------------------------
(* Upload *)

SetUp(f, r) == up' = [up EXCEPT ![f] = r]
Replicated(f) == IF up[f].pc \in {"pend_chunk", "put_chunk", "confirm_chunk"}
                 THEN <<"chunk", f>> ELSE <<"manifest", f>>
Applying(f) == \E c \in Collectors : gc[c].pc \in {"delete", "row"} /\ Owner(gc[c].cur.obj) = f

\* A first call or a retry under the same key: the agents are verified, the
\* plan is recorded or found.
UploadBegin(f) ==
    /\ up[f].pc = "idle" /\ uploads[f].state # "committed"
    /\ active' = Observed(Agents)
    /\ uploads' = IF uploads[f].state = "none"
                  THEN [uploads EXCEPT ![f] = [uploads[f] EXCEPT !.state = "open", !.created = clock]]
                  ELSE uploads
    /\ SetUp(f, [IdleUpload EXCEPT !.pc = "pend_chunk", !.inc = vol])
    /\ overlap' = IF Applying(f) THEN overlap \cup {f} ELSE overlap
    /\ UNCHANGED <<rows, scans, files, contentGen, proofs, jobs, verified, pending,
                   agVars, clock, snapshot, hiccups, restores, acked, gc>>

\* ensure_pending_placement on every agent whose row is not confirmed on its
\* active incarnation.
UploadPend(f) ==
    /\ up[f].pc \in {"pend_chunk", "pend_manifest"}
    /\ LET o == Replicated(f)
           todo == {a \in Agents : ~LiveConfirmed(o, a)}
           new(a) == IF rows[o][a].state # "none" /\ rows[o][a].inc = up[f].inc[a] THEN rows[o][a]
                     ELSE [state |-> "pending", inc |-> up[f].inc[a]]
       IN  /\ rows' = [rows EXCEPT ![o] = [a \in Agents |-> IF a \in todo THEN new(a) ELSE @[a]]]
           /\ uploads' = [uploads EXCEPT ![f] = [uploads[f] EXCEPT !.chunk = TRUE,
                                                             !.manifest = uploads[f].manifest \/ Kind(o) = "manifest"]]
           /\ SetUp(f, [up[f] EXCEPT !.todo = todo,
                          !.pc = IF Kind(o) = "chunk" THEN "put_chunk" ELSE "put_manifest"])
    /\ UNCHANGED <<active, scans, files, contentGen, proofs, jobs, verified, pending,
                   agVars, envVars, gc>>

\* The PUTs; confirmed copies are written again too.
UploadPut(f) ==
    /\ up[f].pc \in {"put_chunk", "put_manifest"}
    /\ LET o == Replicated(f) IN
       \E got \in SUBSET Agents :
         /\ IF got = Agents THEN UNCHANGED hiccups ELSE Hiccup
         /\ stored' = [a \in Agents |-> IF a \in got THEN [stored[a] EXCEPT ![vol[a]] = @ \cup {o}]
                                                     ELSE stored[a]]
         /\ SetUp(f, [up[f] EXCEPT !.got = got,
                        !.pc = IF Kind(o) = "chunk" THEN "confirm_chunk" ELSE "confirm_manifest"])
    /\ UNCHANGED <<dbVars, vol, markedAt, clock, snapshot, restores, acked, overlap, gc>>

\* confirm_placement on the agents that answered, which fails when a row is
\* gone; then the floor decides whether the upload goes on.
UploadConfirm(f) ==
    /\ up[f].pc \in {"confirm_chunk", "confirm_manifest"}
    /\ LET o == Replicated(f)
           done == {a \in up[f].todo \cap up[f].got : rows[o][a].state # "none"}
           new == [rows EXCEPT ![o] = [a \in Agents |->
                     IF a \in done THEN [@[a] EXCEPT !.state = "confirmed"] ELSE @[a]]]
           live == {a \in Agents : new[o][a].state = "confirmed" /\ new[o][a].inc = active[a]}
       IN  /\ rows' = new
           /\ SetUp(f, IF done # up[f].todo \cap up[f].got \/ Cardinality(live) < 2 THEN IdleUpload
                       ELSE [up[f] EXCEPT !.todo = {}, !.got = {},
                               !.pc = IF Kind(o) = "chunk" THEN "pend_manifest" ELSE "check"])
    /\ UNCHANGED <<active, scans, uploads, files, contentGen, proofs, jobs, verified, pending,
                   agVars, envVars, gc>>

\* The read-back of two live copies of each object.
UploadCheck(f) ==
    /\ up[f].pc = "check"
    /\ LET alive(o) == {a \in Agents : LiveConfirmed(o, a) /\ o \in OnAgent(a)}
       IN  SetUp(f, IF \E o \in Content(f) : Cardinality(alive(o)) < 2 THEN IdleUpload
                    ELSE [up[f] EXCEPT !.pc = "commit"])
    /\ UNCHANGED <<dbVars, agVars, envVars, gc>>

UploadCommit(f) ==
    /\ up[f].pc = "commit"
    /\ SetUp(f, IdleUpload)
    /\ IF /\ uploads[f].state = "open" /\ files[f].state = "none"
          /\ \A o \in Content(f) : Floor(o)
       THEN /\ files' = [files EXCEPT ![f].state = "committed"]
            /\ uploads' = [uploads EXCEPT ![f].state = "committed"]
            /\ contentGen' = contentGen + 1
       ELSE UNCHANGED <<files, uploads, contentGen>>
    /\ acked' = IF files'[f].state = "committed" /\ markedAt[f] = 0 THEN acked \cup {f} ELSE acked
    /\ UNCHANGED <<active, rows, scans, proofs, jobs, verified, pending,
                   agVars, clock, snapshot, hiccups, restores, overlap, gc>>

UploadCrash(f) ==
    /\ up[f].pc # "idle"
    /\ Hiccup
    /\ SetUp(f, IdleUpload)
    /\ UNCHANGED <<dbVars, agVars, clock, snapshot, restores, acked, overlap, gc>>

UploadStep(f) ==
    \/ UploadBegin(f) \/ UploadPend(f) \/ UploadPut(f) \/ UploadConfirm(f) \/ UploadCheck(f) \/ UploadCommit(f) \/ UploadCrash(f)

-----------------------------------------------------------------------------
(* The rest of the portal, and the machines. *)

\* The marker is replicated, then the tombstone commits.
DeleteFile(f) ==
    /\ files[f].state = "committed" /\ f \in Deletable
    /\ active' = Observed(Agents)
    /\ stored' = [a \in Agents |-> [stored[a] EXCEPT ![vol[a]] = @ \cup {Marker(f)}]]
    /\ rows' = [rows EXCEPT ![Marker(f)] = [a \in Agents |-> Confirmed(vol[a])]]
    /\ files' = [files EXCEPT ![f] = [state |-> "deleted", at |-> clock]]
    /\ markedAt' = [markedAt EXCEPT ![f] = clock]
    /\ contentGen' = contentGen + 1
    /\ acked' = acked \ {f}
    /\ UNCHANGED <<scans, uploads, proofs, jobs, verified, pending, vol,
                   clock, snapshot, hiccups, restores, overlap, up, gc>>

\* A scrub completes the inventory of every kind on the agents that answer.
\* Bound: within a tick, a scrub reaches a volume not yet scanned in it.
Scrub(live) ==
    /\ \E a \in live : \E k \in Kinds : scans[a][k].at < clock \/ scans[a][k].inc # vol[a]
    /\ IF live = Agents THEN UNCHANGED hiccups ELSE Hiccup
    /\ active' = Observed(live)
    /\ scans' = [a \in Agents |-> IF a \notin live THEN scans[a] ELSE [k \in Kinds |->
           [inc |-> vol[a], at |-> clock, seen |-> {o \in OnAgent(a) : Kind(o) = k}]]]
    /\ UNCHANGED <<rows, uploads, files, contentGen, proofs, jobs, verified, pending,
                   agVars, clock, snapshot, restores, acked, overlap, up, gc>>

\* A backup job fails at once, or copies and verifies all the history it lists.
Backup(t) ==
    /\ jobs' = jobs \cup {t}
    /\ \E got \in {{}, {o \in Objects : /\ files[Owner(o)].state # "none"
                                        /\ \E a \in Agents : o \in OnAgent(a)}} :
         verified' = [verified EXCEPT ![t] = @ \cup got]
    /\ UNCHANGED <<active, rows, scans, uploads, files, contentGen, proofs, pending,
                   agVars, envVars, up, gc>>

\* Bound: one snapshot is ever taken, before the first proof and beside no gc.
TakeSnapshot ==
    /\ restores < MaxRestores /\ ~snapshot.taken /\ ~pending
    /\ proofs = <<>> /\ \A c \in Collectors : gc[c].pc = "idle"
    /\ snapshot' = [taken |-> TRUE, db |-> Database]
    /\ UNCHANGED <<dbVars, agVars, clock, hiccups, restores, acked, overlap, up, gc>>

\* The portal's host is lost with its processes; its successor starts from the snapshot.
Restore ==
    /\ snapshot.taken /\ restores < MaxRestores
    /\ restores' = restores + 1
    /\ active' = snapshot.db.active /\ rows' = snapshot.db.rows /\ scans' = snapshot.db.scans
    /\ uploads' = snapshot.db.uploads /\ files' = snapshot.db.files
    /\ contentGen' = snapshot.db.contentGen /\ proofs' = snapshot.db.proofs
    /\ jobs' = snapshot.db.jobs /\ verified' = snapshot.db.verified
    /\ pending' = TRUE
    /\ up' = [f \in Files |-> IdleUpload] /\ gc' = [c \in Collectors |-> IdleGc]
    /\ UNCHANGED <<agVars, clock, snapshot, hiccups, acked, overlap>>

\* recover --apply: the markers and manifests on the agents decide; a manifest
\* without its chunk blocks the file; an open upload of a recovered file is
\* committed; the objects found are placed.
Recover ==
    LET there(o) == \E a \in Agents : o \in OnAgent(a)
        verdict(f) ==
          IF there(Marker(f)) THEN "deleted"
          ELSE IF there(<<"manifest", f>>)
               THEN IF there(<<"chunk", f>>) THEN "committed" ELSE "recovery_blocked"
               ELSE IF files[f].state = "committed" THEN "recovery_blocked" ELSE files[f].state
        placed == UNION {IF verdict(f) = "committed" THEN Content(f)
                         ELSE IF verdict(f) = "deleted" THEN {Marker(f)} ELSE {} : f \in Files}
    IN  /\ pending /\ pending' = FALSE
        /\ active' = Observed(Agents)
        /\ files' = [f \in Files |->
               [state |-> verdict(f), at |-> IF verdict(f) = "deleted" THEN markedAt[f] ELSE 0]]
        /\ uploads' = [f \in Files |->
               IF verdict(f) = "committed" /\ uploads[f].state = "open"
               THEN [uploads[f] EXCEPT !.state = "committed", !.manifest = TRUE] ELSE uploads[f]]
        /\ stored' = [a \in Agents |-> [stored[a] EXCEPT ![vol[a]] = @ \cup {o \in placed : there(o)}]]
        /\ rows' = [o \in Objects |-> [a \in Agents |->
               IF o \in placed /\ there(o) THEN Confirmed(vol[a]) ELSE rows[o][a]]]
        /\ contentGen' = contentGen + 1
        /\ acked' = {f \in acked : verdict(f) # "none"}
        /\ UNCHANGED <<scans, proofs, jobs, verified, vol, markedAt, clock, snapshot,
                       hiccups, restores, overlap, up, gc>>

Tick ==
    /\ clock < MaxTime /\ clock' = clock + 1
    /\ UNCHANGED <<dbVars, agVars, snapshot, hiccups, restores, acked, overlap, up, gc>>

ReplaceVolume(a) ==
    /\ vol[a] < MaxVolumes
    /\ vol' = [vol EXCEPT ![a] = @ + 1]
    /\ UNCHANGED <<dbVars, stored, markedAt, envVars, up, gc>>

Activity ==
    \/ \E c \in Collecting : GcStep(c)
    \/ \E f \in Files : UploadStep(f) \/ DeleteFile(f)
    \/ \E a \in Agents : ReplaceVolume(a)
    \/ \E live \in SUBSET Agents : Scrub(live)
    \/ \E t \in Targets : Backup(t)
    \/ TakeSnapshot \/ Restore \/ Recover \/ Tick

Next == UNCHANGED setting /\ Activity

Spec == Init /\ [][Next]_vars

\* The client retries, the operator runs scrub and gc --apply again and again,
\* and calls under way keep going.
\* Action A of a process that runs gc in this deployment.
Runs(c, A) == c \in Collecting /\ UNCHANGED setting /\ A
FairCollection ==
    /\ WF_vars(UNCHANGED setting /\ Tick)
    /\ WF_vars(UNCHANGED setting /\ Scrub(Agents))
    /\ \A c \in Collectors :
         /\ SF_vars(Runs(c, StartGc(c, TRUE)))
         /\ WF_vars(Runs(c, GcList(c) \/ GcRecheck(c) \/ GcDelete(c) \/ GcDeleteRow(c)
                             \/ GcFinish(c) \/ GcDone(c)))
         /\ WF_vars(Runs(c, \E x \in gc[c].cands : GcSkip(c, x) \/ GcBlocked(c, x) \/ GcPlan(c, x)))
FairSpec == Spec /\ FairCollection

-----------------------------------------------------------------------------
(* Properties *)

Needed(o) == Owner(o) \in acked /\ Kind(o) # "deletion_marker"

\* No DELETE removes an object of a file that was acknowledged and is not
\* deleted, whatever uploads, deletes, other collections and restores
\* do meanwhile, as long as the file's own upload did not run while a proof
\* about it was being applied (evaluate and the second derivation in gc).
NeededKept ==
    [][\A a \in Agents, o \in Objects :
         (o \in stored[a][vol[a]] /\ o \notin stored'[a][vol[a]])
            => (~Needed(o) \/ Owner(o) \in overlap)]_vars

\* When a proof about a file that is not uploaded again is applied, no agent
\* that serves its active volume holds the object any more, though some DELETE
\* failed or two collections overlapped: gc never plans for an applied object
\* again.
AppliedMeansGone ==
    \A i \in DOMAIN proofs :
      (proofs[i].status = "applied" /\ Owner(proofs[i].obj) \in Uploaded)
        => \A a \in Agents : proofs[i].obj \notin OnAgent(a)

\* Under fair scrubs and collections the objects of a deleted file leave every
\* agent in service, through partial failures and crashes of gc.
DeletedCollected ==
    \A f \in Files : (files[f].state = "deleted" /\ files[f].at < MaxTime)
                        ~> (\A a \in Agents : Content(f) \cap OnAgent(a) = {})

\* Collection is safe: what is needed stays, and what a proof says is gone is
\* gone (evaluate, gc).
CollectionSafe == [](TypeOK /\ AppliedMeansGone) /\ NeededKept
=============================================================================
