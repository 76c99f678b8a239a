------------------------------ MODULE Recovery ------------------------------
(***************************************************************************)
(* recover --apply (recovery.rs): the file records are rebuilt from the    *)
(* manifests and deletion markers on the agents, while uploads and deletes *)
(* go on, volumes are lost, and the portal may have been restored from an  *)
(* old snapshot of its database.                                           *)
(*                                                                         *)
(* One pass lists every agent in turn, reads every listed object, and then *)
(* for each file repairs what its winning evidence needs and writes the    *)
(* verdict in one transaction.                                             *)
(*                                                                         *)
(* Abstractions                                                            *)
(*  - A file has one chunk, manifests of generation 1 and markers of       *)
(*    generation 2.  Versions tell apart the manifests (markers) of one    *)
(*    generation: a portal that lost its plan mints another one.  Markers  *)
(*    are minted in the order of their deleted_at.                         *)
(*  - A placement row is the incarnation whose copy is confirmed, 0 if     *)
(*    there is none; a pending row authorises nothing here.                *)
(*  - Upload and delete are as in CommitSpine, one step per object and one *)
(*    for the commit, with the volumes observed in the same step.          *)
(*  - Planning (recover without --apply) writes nothing and is left out,   *)
(*    and so is the content generation.                                    *)
(***************************************************************************)
EXTENDS Integers, FiniteSets

CONSTANTS
    Files,
    Settings        \* what a deployment may have and meet

\* Losses stay inside one failure domain.
ASSUME RecoveryAssumption ==
    Files # {} /\ \A x \in Settings :
      /\ \A a, b \in x.fragile : x.domains[a] = x.domains[b]
      /\ DOMAIN x.domains \in {1..n : n \in 1..Cardinality(DOMAIN x.domains)}
      /\ x.fragile \subseteq DOMAIN x.domains /\ x.rot \in BOOLEAN /\ x.deletable \subseteq Files
      /\ x.versions \in Nat \ {0} /\ x.losses \in Nat /\ x.hiccups \in Nat /\ x.restores \in Nat

VARIABLES
    vol,        \* agent -> mounted volume
    good, bad,  \* agent -> objects it holds intact, and rotten
    active,     \* agent -> active incarnation, 0 if none
    rows,       \* object -> agent -> confirmed incarnation, 0 if none
    uploads,    \* file -> upload row
    deletes,    \* file -> marker version of the pending delete operation, 0 if none
    files,      \* file -> projection row
    manifestOf, \* file -> version in file_manifests, 0 if none
    markerOf,   \* file -> version in deletion_markers, 0 if none
    pending,    \* restored and not yet recovered
    snapshot,
    rec,        \* the recovery pass under way
    minted,     \* file -> whether it was begun; manifests and markers minted so far
    hiccups, losses, restores,
    acked, ackedDeletes,    \* what was acknowledged to clients
    setting     \* the one of Settings this deployment has

dbVars  == <<active, rows, uploads, deletes, files, manifestOf, markerOf, pending>>
agVars  == <<vol, good, bad>>
envVars == <<snapshot, minted, hiccups, losses, restores, acked, ackedDeletes>>
vars    == <<dbVars, agVars, envVars, rec, setting>>

DomainOf    == setting.domains      \* agent -> failure domain
Agents      == DOMAIN DomainOf      \* in configuration order
NumAgents   == Cardinality(Agents)
Fragile     == setting.fragile      \* agents that may lose a volume or an object
Rot         == setting.rot          \* whether objects may rot
Deletable   == setting.deletable    \* files that somebody may delete
MaxVersions == setting.versions     \* bounds: manifests, and markers, of one file,
MaxLosses   == setting.losses       \*   lost volumes and rotten objects,
MaxHiccups  == setting.hiccups      \*   failed requests and crashes,
MaxRestores == setting.restores     \*   restores from the snapshot

Versions == 1..MaxVersions
Volumes == 1..(MaxLosses + 1)
Objects == {"chunk"} \X Files \X {1} \cup {"manifest", "marker"} \X Files \X Versions
Chunk(f) == <<"chunk", f, 1>>
Manifest(f, v) == <<"manifest", f, v>>
Marker(f, v) == <<"marker", f, v>>
Domains(S) == {DomainOf[a] : a \in S}

NoFile == [state |-> "none", gen |-> 0, man |-> 0, del |-> 0]
IdlePass == [pc |-> "idle", at |-> 1, inc |-> [a \in Agents |-> 0],
             listed |-> [a \in Agents |-> {}], valid |-> [o \in Objects |-> {}],
             proj |-> [f \in Files |-> NoFile], todo |-> {}, cur |-> CHOOSE f \in Files : TRUE,
             issues |-> FALSE]

FileRows == [state : {"none", "committed", "deleted", "recovery_blocked"}, gen : 0..2,
             man : Versions \cup {0}, del : Versions \cup {0}]

\* The type invariant: tables, volumes and the memory of a pass.
TypeOK ==
    /\ setting \in Settings
    /\ vol \in [Agents -> Volumes]
    /\ good \in [Agents -> SUBSET Objects] /\ bad \in [Agents -> SUBSET Objects]
    /\ active \in [Agents -> Volumes \cup {0}]
    /\ rows \in [Objects -> [Agents -> Volumes \cup {0}]]
    /\ uploads \in [Files -> [state : {"none", "open", "committed"}, man : Versions \cup {0}]]
    /\ deletes \in [Files -> Versions \cup {0}]
    /\ files \in [Files -> FileRows]
    /\ manifestOf \in [Files -> Versions \cup {0}] /\ markerOf \in [Files -> Versions \cup {0}]
    /\ pending \in BOOLEAN
    /\ rec \in [pc : {"idle", "list", "read", "repair", "apply"}, at : 1..(NumAgents + 1),
                inc : [Agents -> Volumes \cup {0}], listed : [Agents -> SUBSET Objects],
                valid : [Objects -> SUBSET Agents], proj : [Files -> FileRows],
                todo : SUBSET Files, cur : Files, issues : BOOLEAN]
    /\ minted \in [Files -> [begun : BOOLEAN, man : 0..MaxVersions, del : 0..MaxVersions]]
    /\ hiccups \in 0..MaxHiccups /\ losses \in 0..MaxLosses /\ restores \in 0..MaxRestores
    /\ acked \subseteq Files /\ ackedDeletes \subseteq Files

Database == [active |-> active, rows |-> rows, uploads |-> uploads, deletes |-> deletes,
             files |-> files, manifestOf |-> manifestOf, markerOf |-> markerOf]

Init ==
    /\ setting \in Settings
    /\ vol = [a \in Agents |-> 1]
    /\ good = [a \in Agents |-> {}] /\ bad = [a \in Agents |-> {}]
    /\ active = [a \in Agents |-> 0]
    /\ rows = [o \in Objects |-> [a \in Agents |-> 0]]
    /\ uploads = [f \in Files |-> [state |-> "none", man |-> 0]]
    /\ deletes = [f \in Files |-> 0]
    /\ files = [f \in Files |-> NoFile]
    /\ manifestOf = [f \in Files |-> 0] /\ markerOf = [f \in Files |-> 0]
    /\ pending = FALSE
    /\ snapshot = [taken |-> FALSE, db |-> Database]
    /\ rec = IdlePass
    /\ minted = [f \in Files |-> [begun |-> FALSE, man |-> 0, del |-> 0]]
    /\ hiccups = 0 /\ losses = 0 /\ restores = 0
    /\ acked = {} /\ ackedDeletes = {}

Hiccup == hiccups < MaxHiccups /\ hiccups' = hiccups + 1

-----------------------------------------------------------------------------
(* Uploads and deletes *)

LiveOn(o) == {a \in Agents : rows[o][a] # 0 /\ rows[o][a] = active[a]}
Floor(o) == Cardinality(Domains(LiveOn(o))) >= 2
ReadBack(o) == Cardinality(Domains({a \in LiveOn(o) : o \in good[a]})) >= 2

\* The PUTs of one object and their confirmations: some agents may fail, and
\* the process may stop before it confirms any.
Replicate(o) ==
    \E got \in SUBSET Agents : \E confirmed \in {got, {}} :
      /\ IF got = Agents /\ confirmed = Agents THEN UNCHANGED hiccups ELSE Hiccup
      /\ good' = [a \in Agents |-> IF a \in got THEN good[a] \cup {o} ELSE good[a]]
      /\ bad' = [a \in Agents |-> IF a \in got THEN bad[a] \ {o} ELSE bad[a]]
      /\ active' = vol
      /\ rows' = [rows EXCEPT ![o] = [a \in Agents |-> IF a \in confirmed THEN vol[a] ELSE @[a]]]

\* A retry that does not find its plan in the database makes another file.
UploadChunk(f) ==
    /\ uploads[f].state = "open" \/ ~minted[f].begun
    /\ ~Floor(Chunk(f))
    /\ Replicate(Chunk(f))
    /\ uploads' = [uploads EXCEPT ![f].state = "open"]
    /\ minted' = [minted EXCEPT ![f].begun = TRUE]
    /\ UNCHANGED <<deletes, files, manifestOf, markerOf, pending, vol, snapshot,
                   losses, restores, acked, ackedDeletes, rec>>

\* The manifest is planned once, and minted anew when the plan is not in the
\* database.
UploadManifest(f) ==
    /\ uploads[f].state = "open" /\ Floor(Chunk(f))
    /\ LET v == IF uploads[f].man # 0 THEN uploads[f].man ELSE minted[f].man + 1 IN
       /\ v \in Versions /\ ~Floor(Manifest(f, v))
       /\ uploads' = [uploads EXCEPT ![f].man = v]
       /\ minted' = [minted EXCEPT ![f].man = IF v > @ THEN v ELSE @]
       /\ Replicate(Manifest(f, v))
    /\ UNCHANGED <<deletes, files, manifestOf, markerOf, pending, vol, snapshot,
                   losses, restores, acked, ackedDeletes, rec>>

\* commit_file inserts the file: it fails when recovery already made a row.
UploadCommit(f) ==
    LET v == uploads[f].man IN
    /\ uploads[f].state = "open" /\ v # 0
    /\ files[f].state = "none"
    /\ \A o \in {Chunk(f), Manifest(f, v)} : Floor(o) /\ ReadBack(o)
    /\ files' = [files EXCEPT ![f] = [state |-> "committed", gen |-> 1, man |-> v, del |-> 0]]
    /\ manifestOf' = [manifestOf EXCEPT ![f] = v]
    /\ uploads' = [uploads EXCEPT ![f].state = "committed"]
    /\ acked' = acked \cup {f}
    /\ UNCHANGED <<active, rows, deletes, markerOf, pending, agVars,
                   snapshot, minted, hiccups, losses, restores, ackedDeletes, rec>>

\* create_delete_operation and the replication of its marker.
DeleteMark(f) ==
    /\ f \in Deletable
    /\ files[f].state = "committed" \/ deletes[f] # 0
    /\ LET v == IF deletes[f] # 0 THEN deletes[f] ELSE minted[f].del + 1 IN
       /\ v \in Versions /\ ~Floor(Marker(f, v))
       /\ deletes' = [deletes EXCEPT ![f] = v]
       /\ minted' = [minted EXCEPT ![f].del = IF v > @ THEN v ELSE @]
       /\ Replicate(Marker(f, v))
    /\ UNCHANGED <<uploads, files, manifestOf, markerOf, pending, vol, snapshot,
                   losses, restores, acked, ackedDeletes, rec>>

DeleteCommit(f) ==
    LET v == deletes[f] IN
    /\ v # 0 /\ Floor(Marker(f, v)) /\ ReadBack(Marker(f, v))
    /\ files[f].gen = 2 => files[f].state = "deleted" /\ files[f].del = v
    /\ markerOf[f] \in {0, v}
    /\ markerOf' = [markerOf EXCEPT ![f] = v]
    /\ files' = [files EXCEPT ![f].state = "deleted", ![f].gen = 2, ![f].del = v]
    /\ ackedDeletes' = ackedDeletes \cup {f}
    /\ f \notin ackedDeletes \/ files' # files
    /\ UNCHANGED <<active, rows, uploads, deletes, manifestOf, pending, agVars,
                   snapshot, minted, hiccups, losses, restores, acked, rec>>

-----------------------------------------------------------------------------
(* A recovery pass *)

SetRec(r) == rec' = r

RecStart ==
    /\ rec.pc = "idle"
    /\ SetRec([IdlePass EXCEPT !.pc = "list"])
    /\ UNCHANGED <<dbVars, agVars, envVars>>

\* One agent: its volume is observed and everything it holds is listed.
RecList ==
    /\ rec.pc = "list" /\ rec.at <= NumAgents
    /\ LET a == rec.at IN
       /\ active' = [active EXCEPT ![a] = vol[a]]
       /\ SetRec([rec EXCEPT !.at = @ + 1, !.inc[a] = vol[a], !.listed[a] = good[a] \cup bad[a],
                             !.pc = IF a = NumAgents THEN "read" ELSE "list"])
    /\ UNCHANGED <<rows, uploads, deletes, files, manifestOf, markerOf, pending, agVars, envVars>>

\* The control objects that the projection names.
KnownControl ==
    {Marker(f, files[f].del) : f \in {g \in Files : files[g].state = "deleted"}}
    \cup {Manifest(f, files[f].man) :
             f \in {g \in Files : files[g].state \in {"committed", "recovery_blocked"}}}

Trusted(valid) ==
    \A a \in Agents : \A o \in rec.listed[a] :
      (o[1] # "chunk" /\ valid[o] = {}) => o \in KnownControl

Reads == [o \in Objects |-> {a \in Agents : o \in rec.listed[a] /\ o \in good[a]}]

\* Every listed object is read.  A control object that the projection does not
\* know and that nobody can read back ends the pass.
RecRead ==
    /\ rec.pc = "read"
    /\ IF Trusted(Reads)
       THEN LET named == {f \in Files : files[f].del # 0 \/ files[f].man # 0}
                seen  == {f \in Files : \E v \in Versions :
                             Reads[Manifest(f, v)] # {} \/ Reads[Marker(f, v)] # {}}
            IN  SetRec([rec EXCEPT !.pc = "repair", !.valid = Reads, !.proj = files,
                                   !.todo = named \cup seen])
       ELSE SetRec(IdlePass)
    /\ UNCHANGED <<dbVars, agVars, envVars>>

\* The evidence for a file: what was read from the agents, and its row.
ManifestsRead(f) == {v \in Versions : rec.valid[Manifest(f, v)] # {}}
MarkersRead(f)   == {v \in Versions : rec.valid[Marker(f, v)] # {}}
MarkerEvidence(f) ==
    MarkersRead(f) \cup IF rec.proj[f].state = "deleted" THEN {rec.proj[f].del} ELSE {}
ManifestEvidence(f) ==
    ManifestsRead(f) \cup IF rec.proj[f].state \in {"committed", "recovery_blocked"} /\ rec.proj[f].man # 0
                          THEN {rec.proj[f].man} ELSE {}

\* Mutant: recovery prefers a manifest that it can read to a marker.
LiveFirst(f) == IF ManifestEvidence(f) # {} THEN 1 ELSE 2
WinningGeneration(f) == IF MarkerEvidence(f) # {} THEN 2 ELSE 1

Conflicted(f) == WinningGeneration(f) = 1 /\ Cardinality(ManifestEvidence(f)) > 1

Least(S) == CHOOSE v \in S : \A w \in S : v <= w
\* Of several markers the committed one, if it was read, or else the earliest.
Winner(f) ==
    IF WinningGeneration(f) = 2
    THEN Marker(f, IF Cardinality(MarkerEvidence(f)) = 1 THEN CHOOSE v \in MarkerEvidence(f) : TRUE
                   ELSE IF rec.proj[f].state = "deleted" /\ rec.proj[f].del \in MarkersRead(f)
                        THEN rec.proj[f].del ELSE Least(MarkersRead(f)))
    ELSE Manifest(f, CHOOSE v \in ManifestEvidence(f) : TRUE)

\* The objects that the winner needs at two domains.
Required(f) == {Winner(f)} \cup (IF WinningGeneration(f) = 1 THEN {Chunk(f)} ELSE {})

\* Mutant: agents that listed nothing are passed over.
TargetsInUse(o) == {a \in Agents : DomainOf[a] \notin Domains(rec.valid[o]) /\ rec.listed[a] # {}}
\* ensure_rf2: targets in domains without a valid copy are tried in order until
\* one of them holds a copy that reads back; n of them fail.
Targets(o) == {a \in Agents : DomainOf[a] \notin Domains(rec.valid[o])}
Nth(S, n) == CHOOSE a \in S : Cardinality({b \in S : b < a}) = n
\* Mutant: two valid copies are enough, whatever their domains.
EnoughCopies(S) == Cardinality(S) >= 2
EnoughDomains(S) == Cardinality(Domains(S)) >= 2
Source(o) == o[1] # "chunk" \/ \E a \in rec.valid[o] : o \in good[a]
NewCopies(o, n) ==
    IF rec.valid[o] = {} \/ EnoughDomains(rec.valid[o]) \/ ~Source(o) \/ Cardinality(Targets(o)) <= n
    THEN {} ELSE {Nth(Targets(o), n)}
Trouble(o, n) ==
    \/ n > 0 /\ ~EnoughDomains(rec.valid[o])
    \/ ~EnoughDomains(rec.valid[o] \cup NewCopies(o, n))

\* The repairs of one file, and the confirmed rows for every valid copy under
\* the incarnations seen when the pass began.
RecRepair(f) ==
    /\ rec.pc = "repair" /\ f \in rec.todo
    /\ \E n \in {0, 1} :
         LET need  == IF Conflicted(f) THEN {} ELSE IF rec.valid[Winner(f)] = {} THEN {} ELSE Required(f)
             new(a) == {o \in need : a \in NewCopies(o, n)}
             held(o) == rec.valid[o] \cup NewCopies(o, n)
         IN  /\ IF n = 0 THEN UNCHANGED hiccups ELSE Hiccup
             /\ good' = [a \in Agents |-> good[a] \cup new(a)]
             /\ bad' = [a \in Agents |-> bad[a] \ new(a)]
             /\ rows' = [o \in Objects |-> [a \in Agents |->
                    IF o \in need /\ a \in held(o) THEN rec.inc[a] ELSE rows[o][a]]]
             /\ SetRec([rec EXCEPT !.pc = "apply", !.todo = @ \ {f}, !.cur = f,
                           !.issues = need = {} \/ \E o \in need : Trouble(o, n)])
    /\ UNCHANGED <<active, uploads, deletes, files, manifestOf, markerOf, pending, vol,
                   snapshot, minted, losses, restores, acked, ackedDeletes>>

Greatest(m, n) == IF m > n THEN m ELSE n

\* mark_recovery_blocked: a deleted file stays deleted, and the generation never
\* goes back.
Blocked(f) ==
    LET gone == IF WinningGeneration(f) = 2 THEN Winner(f)[3]
                ELSE IF files[f].state = "deleted" THEN files[f].del ELSE 0
    IN  [files[f] EXCEPT !.state = IF gone # 0 THEN "deleted" ELSE "recovery_blocked",
                         !.gen = Greatest(@, WinningGeneration(f)),
                         !.del = IF gone # 0 THEN gone ELSE @]

CanInstall(f, v) == files[f].gen <= 1 /\ manifestOf[f] \in {0, v}

\* A marker other than the recorded one is adopted only for a deleted file.
CanTombstone(f, v) ==
    markerOf[f] \in {0, v} \/ (files[f].state = "deleted" /\ files[f].gen = 2)

\* The verdict on one file, in one transaction.
RecBlock ==
    /\ rec.pc = "apply" /\ rec.issues
    /\ files' = [files EXCEPT ![rec.cur] = Blocked(rec.cur)]
    /\ SetRec([rec EXCEPT !.pc = "repair"])
    /\ UNCHANGED <<active, rows, uploads, deletes, manifestOf, markerOf, pending, agVars, envVars>>

\* apply_recovered_manifest; an upload still open for the file is committed.
RecInstall ==
    LET f == rec.cur  v == Winner(f)[3] IN
    /\ rec.pc = "apply" /\ ~rec.issues /\ WinningGeneration(f) = 1
    /\ CanInstall(f, v)
    /\ files' = [files EXCEPT ![f] = [state |-> "committed", gen |-> 1, man |-> v, del |-> 0]]
    /\ manifestOf' = [manifestOf EXCEPT ![f] = v]
    /\ uploads' = IF uploads[f].state = "open"
                  THEN [uploads EXCEPT ![f] = [state |-> "committed", man |-> v]] ELSE uploads
    /\ SetRec([rec EXCEPT !.pc = "repair"])
    /\ UNCHANGED <<active, rows, deletes, markerOf, pending, agVars, envVars>>

\* apply_recovered_deletion
RecTombstone ==
    LET f == rec.cur  v == Winner(f)[3] IN
    /\ rec.pc = "apply" /\ ~rec.issues /\ WinningGeneration(f) = 2
    /\ CanTombstone(f, v)
    /\ files' = [files EXCEPT ![f].state = "deleted", ![f].gen = 2, ![f].del = v]
    /\ markerOf' = [markerOf EXCEPT ![f] = v]
    /\ SetRec([rec EXCEPT !.pc = "repair"])
    /\ UNCHANGED <<active, rows, uploads, deletes, manifestOf, pending, agVars, envVars>>

PendingAfterAbort == pending

\* GenerationConflict ends the pass.
RecConflict ==
    LET f == rec.cur  v == Winner(f)[3] IN
    /\ rec.pc = "apply" /\ ~rec.issues
    /\ IF WinningGeneration(f) = 1 THEN ~CanInstall(f, v) ELSE ~CanTombstone(f, v)
    /\ SetRec(IdlePass)
    /\ pending' = PendingAfterAbort
    /\ UNCHANGED <<active, rows, uploads, deletes, files, manifestOf, markerOf, agVars, envVars>>

\* A request fails, an agent is unavailable, or the process stops.
RecAbort ==
    /\ rec.pc # "idle"
    /\ Hiccup
    /\ SetRec(IdlePass)
    /\ pending' = PendingAfterAbort
    /\ UNCHANGED <<active, rows, uploads, deletes, files, manifestOf, markerOf, agVars,
                   snapshot, minted, losses, restores, acked, ackedDeletes>>

RecFinish ==
    /\ rec.pc = "repair" /\ rec.todo = {}
    /\ pending' = FALSE
    /\ SetRec(IdlePass)
    /\ UNCHANGED <<active, rows, uploads, deletes, files, manifestOf, markerOf, agVars, envVars>>

RecStep ==
    \/ RecStart \/ RecList \/ RecRead
    \/ \E f \in Files : RecRepair(f)
    \/ RecBlock \/ RecInstall \/ RecTombstone \/ RecConflict \/ RecFinish

-----------------------------------------------------------------------------
(* The machines *)

\* Bound: one snapshot is ever taken.
TakeSnapshot ==
    /\ restores < MaxRestores /\ ~snapshot.taken /\ ~pending
    /\ snapshot' = [taken |-> TRUE, db |-> Database]
    /\ UNCHANGED <<dbVars, agVars, minted, hiccups, losses, restores, acked, ackedDeletes, rec>>

\* The portal's host is lost with its processes; its successor starts from the snapshot.
Restore ==
    /\ snapshot.taken /\ restores < MaxRestores
    /\ restores' = restores + 1
    /\ active' = snapshot.db.active /\ rows' = snapshot.db.rows
    /\ uploads' = snapshot.db.uploads /\ deletes' = snapshot.db.deletes
    /\ files' = snapshot.db.files
    /\ manifestOf' = snapshot.db.manifestOf /\ markerOf' = snapshot.db.markerOf
    /\ pending' = TRUE
    /\ rec' = IdlePass
    /\ UNCHANGED <<agVars, snapshot, minted, hiccups, losses, acked, ackedDeletes>>

LoseVolume(a) ==
    /\ a \in Fragile /\ losses < MaxLosses
    /\ losses' = losses + 1
    /\ vol' = [vol EXCEPT ![a] = @ + 1]
    /\ good' = [good EXCEPT ![a] = {}] /\ bad' = [bad EXCEPT ![a] = {}]
    /\ UNCHANGED <<dbVars, snapshot, minted, hiccups, restores, acked, ackedDeletes, rec>>

RotObject(a) ==
    /\ Rot /\ a \in Fragile /\ losses < MaxLosses
    /\ losses' = losses + 1
    /\ \E o \in good[a] :
         /\ good' = [good EXCEPT ![a] = @ \ {o}] /\ bad' = [bad EXCEPT ![a] = @ \cup {o}]
    /\ UNCHANGED <<dbVars, vol, snapshot, minted, hiccups, restores, acked, ackedDeletes, rec>>

Activity ==
    \/ \E f \in Files : UploadChunk(f) \/ UploadManifest(f) \/ UploadCommit(f)
                          \/ DeleteMark(f) \/ DeleteCommit(f)
    \/ RecStep \/ RecAbort
    \/ TakeSnapshot \/ Restore
    \/ \E a \in Agents : LoseVolume(a) \/ RotObject(a)

Next == UNCHANGED setting /\ Activity

Spec == Init /\ [][Next]_vars

\* The operator runs recovery again and again, and a pass under way goes on.
FairSpec == Spec /\ WF_vars(UNCHANGED setting /\ RecStep)

-----------------------------------------------------------------------------
(* Properties *)

\* A deletion that was acknowledged is in force whenever the portal is not
\* awaiting recovery: no pass, interrupted or beside a delete, brings the file
\* back (WinningGeneration, apply_recovered_manifest, mark_recovery_blocked).
DeletionHolds(f) == pending \/ files[f].state = "deleted"

\* A file that was acknowledged is known again once recovery has finished,
\* from whatever snapshot the portal started (recover, clear_recovery_pending).
AckedKnown ==
    \A f \in acked : pending \/ files[f].state # "none"

\* Whatever the projection shows as committed has an intact copy of each of its
\* objects (ensure_rf2 before apply_recovered_manifest).
CommittedReadable ==
    \A f \in Files : (files[f].state = "committed" /\ ~pending) =>
        \A o \in {Chunk(f), Manifest(f, files[f].man)} : \E a \in Agents : o \in good[a]

\* Without a restore a file's generation never goes back, whatever was listed
\* before a concurrent delete (the generation checks of the apply functions).
GenerationForward ==
    [][restores' = restores => \A f \in Files : files'[f].gen >= files[f].gen]_vars

\* When faults stop, repeated passes leave every acknowledged file readable or
\* deleted, and the portal recovered, if no portal lost its plan and minted a
\* second manifest or marker.
RecoveryConverges ==
    MaxVersions = 1 =>
        <>[](~pending /\ \A f \in acked : files[f].state \in {"committed", "deleted"})

\* No file comes back or goes back (recover).
DeletedForGood == [](\A f \in ackedDeletes : DeletionHolds(f)) /\ GenerationForward

\* What recovery has put into the tables is all there was, and is readable
\* (recover, ensure_rf2).
RecoveredHonest == TypeOK /\ AckedKnown /\ CommittedReadable
=============================================================================
