---------------------------- MODULE CommitSpine ----------------------------
(***************************************************************************)
(* The commit spine of the blob store: portal processes (the command line  *)
(* and the serving worker) that upload and delete files, the one SQLite    *)
(* database they share, and the agents whose volumes hold the objects.     *)
(* Sources: portal.rs (upload, delete, replicate, the live check), the     *)
(* transactions of metadata.rs they call, durability.rs (an agent's store).*)
(*                                                                         *)
(* One action is one database statement or transaction, or one request to  *)
(* an agent, so that processes, volume replacements and crashes interleave *)
(* everywhere the code lets them.                                          *)
(*                                                                         *)
(* Abstractions                                                            *)
(*  - An object is named by what determines its hash: a chunk by upload,   *)
(*    ordinal and plaintext (its nonce is persisted in the plan), a        *)
(*    manifest or a deletion marker by a fresh number (a random nonce).    *)
(*  - A file is named by the idempotency key of the upload that minted it. *)
(*  - Calls that only read (an upload or delete whose operation is already *)
(*    committed, a refused request, a download) change nothing and are not *)
(*    actions; Downloadable states what a download needs.                  *)
(*  - An unreachable agent, a refusal for want of space and a crash of a   *)
(*    portal process are "hiccups" and are counted against MaxHiccups.     *)
(*  - placements rows left by releases without incarnations are not        *)
(*    modelled; deletion_markers is folded into files, which the same      *)
(*    transaction writes.                                                  *)
(*  - An agent's health answer and observe_agent_incarnation are one step: *)
(*    a volume swapped between the two is refused by the incarnation that  *)
(*    every later request carries.                                         *)
(***************************************************************************)
EXTENDS Integers

CONSTANTS
    Procs,          \* portal processes sharing the database
    Uploaders,      \* the processes that are asked to upload
    UploadKeys,     \* idempotency keys of uploads; each names its file
    DeleteKeys,     \* idempotency keys of deletes
    NumAgents,      \* agents are 1..NumAgents, in the order of their ids
    Domain,         \* the failure domain of each agent
    NumChunks,      \* chunks per file
    Contents,       \* what a source file may hold
    MaxVolumes,     \* volumes an agent name may ever mount
    MaxMints,       \* bound on fresh manifests and markers
    MaxFaults,      \* bound on volume replacements and corruptions
    MaxHiccups,     \* bound on failed requests and process crashes
    None            \* no value

ASSUME ConstantsAssumption ==
    /\ NumAgents \in Nat /\ NumChunks \in Nat /\ MaxMints \in Nat
    /\ MaxVolumes \in Nat \ {0} /\ MaxFaults \in Nat /\ MaxHiccups \in Nat
    /\ Uploaders \subseteq Procs

Agents == 1..NumAgents
Ordinals == 1..NumChunks
Volumes == 1..MaxVolumes

Chunk(k, n, c)  == <<"chunk", k, n, c>>
Manifest(k, m)  == <<"manifest", k, m>>
Marker(f, m)    == <<"deletion_marker", f, m>>

Chunks    == {Chunk(k, n, c) : k \in UploadKeys, n \in Ordinals, c \in Contents}
Manifests == {Manifest(k, m) : k \in UploadKeys, m \in 1..MaxMints}
Markers   == {Marker(f, m) : f \in UploadKeys, m \in 1..MaxMints}
Objects   == Chunks \cup Manifests \cup Markers

VARIABLES
    vol,        \* agent -> the volume it has mounted; its number is the incarnation
    stored,     \* agent -> volume -> object -> "none", "valid" or "corrupt"
    active,     \* agent -> incarnation the database holds active, 0 if none
    superseded, \* agent -> incarnations the database holds superseded
    placements, \* object -> agent -> [state, inc]
    uploads,    \* key -> upload row or None
    files,      \* file -> projection row or None
    deletes,    \* key -> delete operation row or None
    contentGen, \* the content generation in portal_meta
    minted,     \* manifests and markers encoded and persisted so far
    pc,         \* process -> the step it is at
    req,        \* process -> what it holds in memory for the current call
    obj,        \* process -> the object it is replicating or checking
    at,         \* process -> the agent its loop has reached
    inc,        \* process -> agent -> incarnation verified by this process, or 0
    faults, hiccups,
    \* Kept only to state properties: the agents that lost data at all, since
    \* a process began its live check, and since the check that authorised
    \* the current state of a file.
    lost, lostSince, lostAfter

agentVars == <<vol, stored>>
rowVars   == <<active, superseded, placements>>
fileVars  == <<uploads, files, deletes, contentGen, minted>>
procVars  == <<pc, req, obj, at, inc>>
envVars   == <<faults, hiccups, lost, lostSince, lostAfter>>
vars      == <<agentVars, rowVars, fileVars, procVars, envVars>>

-----------------------------------------------------------------------------
NoRow == [state |-> "none", inc |-> 0]

\* The upload and deletion calls a process holds in memory.  loaded is the
\* upload row as it was read when the call began; manifest the manifest or
\* marker in hand; live the failure domains found alive by the current loop.
NoReq == [op |-> "none", key |-> None, file |-> None, src |-> None,
          loaded |-> None, manifest |-> None, n |-> 0,
          confirmed |-> FALSE, remaining |-> {}, live |-> {}]

UploadStates == {"staging", "replicating_chunks", "replicating_manifest", "committed"}

UploadRows ==
    [state : UploadStates, content : Contents,
     chunks : [Ordinals -> Chunks \cup {None}], manifest : Manifests \cup {None}]
FileRows ==
    [gen : Nat, state : {"committed", "deleted"},
     manifest : Manifests, marker : Markers \cup {None}]
DeleteRows ==
    [file : UploadKeys, gen : Nat, marker : Markers,
     state : {"replicating_marker", "committed"}]

ASSUME NoneAssumption ==
    /\ None \notin UploadRows \cup FileRows \cup DeleteRows
    /\ None \notin Objects

Labels == {"idle", "verify", "plan", "reload", "admit", "advance", "chunk", "pend",
           "ensure", "put", "confirm", "manifest", "check", "get", "commit", "mark"}

ReqRows ==
    [op : {"none", "upload", "delete"},
     key : UploadKeys \cup DeleteKeys \cup {None}, file : UploadKeys \cup {None},
     src : Contents \cup {None}, loaded : UploadRows \cup {None},
     manifest : Manifests \cup Markers \cup {None}, n : Nat,
     confirmed : BOOLEAN, remaining : SUBSET Agents,
     live : SUBSET {Domain[a] : a \in Agents}]

\* The type invariant: the tables, the volumes and the memory of each portal
\* process (Portal and the rows of metadata.rs) hold values of their types.
TypeOK ==
    /\ vol \in [Agents -> Volumes]
    /\ stored \in [Agents -> [Volumes -> [Objects -> {"none", "valid", "corrupt"}]]]
    /\ active \in [Agents -> Volumes \cup {0}]
    /\ superseded \in [Agents -> SUBSET Volumes]
    /\ placements \in
         [Objects -> [Agents -> [state : {"none", "pending", "confirmed"},
                                 inc : Volumes \cup {0}]]]
    /\ uploads \in [UploadKeys -> UploadRows \cup {None}]
    /\ files \in [UploadKeys -> FileRows \cup {None}]
    /\ deletes \in [DeleteKeys -> DeleteRows \cup {None}]
    /\ contentGen \in Nat
    /\ minted \in 0..MaxMints
    /\ pc \in [Procs -> Labels]
    /\ req \in [Procs -> ReqRows]
    /\ obj \in [Procs -> Objects \cup {None}]
    /\ at \in [Procs -> 1..(NumAgents + 1)]
    /\ inc \in [Procs -> [Agents -> Volumes \cup {0}]]
    /\ faults \in 0..MaxFaults /\ hiccups \in 0..MaxHiccups
    /\ lost \in SUBSET Agents
    /\ lostSince \in [Procs -> SUBSET Agents]
    /\ lostAfter \in [UploadKeys -> SUBSET Agents]

Init ==
    /\ vol = [a \in Agents |-> 1]
    /\ stored = [a \in Agents |-> [i \in Volumes |-> [o \in Objects |-> "none"]]]
    /\ active = [a \in Agents |-> 0]
    /\ superseded = [a \in Agents |-> {}]
    /\ placements = [o \in Objects |-> [a \in Agents |-> NoRow]]
    /\ uploads = [k \in UploadKeys |-> None]
    /\ files = [f \in UploadKeys |-> None]
    /\ deletes = [d \in DeleteKeys |-> None]
    /\ contentGen = 0
    /\ minted = 0
    /\ pc = [p \in Procs |-> "idle"]
    /\ req = [p \in Procs |-> NoReq]
    /\ obj = [p \in Procs |-> None]
    /\ at = [p \in Procs |-> 1]
    /\ inc = [p \in Procs |-> [a \in Agents |-> 0]]
    /\ faults = 0 /\ hiccups = 0
    /\ lost = {}
    /\ lostSince = [p \in Procs |-> {}]
    /\ lostAfter = [f \in UploadKeys |-> {}]

-----------------------------------------------------------------------------
(* What the database and the agents answer. *)

AtLeastTwo(S) == \E d, e \in S : d # e

\* The LIVE_CONFIRMED predicate: confirmed on the incarnation that is active.
LiveConfirmed(o, a) ==
    /\ placements[o][a].state = "confirmed"
    /\ placements[o][a].inc = active[a]

ConfirmedAgents(o) == {a \in Agents : LiveConfirmed(o, a)}
ReplicaFloor(o) == AtLeastTwo({Domain[a] : a \in ConfirmedAgents(o)})

\* A GET of o from agent a returns bytes with the right hash.
Valid(a, o) == stored[a][vol[a]][o] = "valid"

\* An upload may take one legal step of UploadState::permits at a time.
Permits(s, t) ==
    s = t \/ <<s, t>> \in {<<"staging", "replicating_chunks">>,
                           <<"replicating_chunks", "replicating_manifest">>,
                           <<"replicating_manifest", "committed">>}

-----------------------------------------------------------------------------
(* How a process moves. *)

\* The loops over self.agents take the agents in the order of their ids.
NextAgent(a) == a + 1

Move(p, label, r, o, a) ==
    /\ pc' = [pc EXCEPT ![p] = label]
    /\ req' = [req EXCEPT ![p] = r]
    /\ obj' = [obj EXCEPT ![p] = o]
    /\ at' = [at EXCEPT ![p] = a]

\* The call ends, with an answer or an error.
Return(p) == Move(p, "idle", NoReq, None, 1)

Hiccup ==
    /\ hiccups < MaxHiccups
    /\ hiccups' = hiccups + 1
    /\ UNCHANGED <<faults, lost, lostSince, lostAfter>>

-----------------------------------------------------------------------------
(* Both calls begin by reading the operation their key names. *)

\* Portal::upload up to its first await: the row is read before the agents
\* are verified and is not read again.
StartUpload(p, k, c) ==
    /\ pc[p] = "idle" /\ p \in Uploaders
    /\ uploads[k] # None => uploads[k].state # "committed"
    /\ Move(p, "verify",
            [NoReq EXCEPT !.op = "upload", !.key = k, !.file = k, !.src = c,
                          !.loaded = uploads[k]], None, 1)
    /\ UNCHANGED <<agentVars, rowVars, fileVars, inc, envVars>>

\* pending_delete_marker: the marker an earlier delete of this generation minted.
PendingMarkers(f, g) ==
    {deletes[d].marker : d \in {e \in DeleteKeys :
        deletes[e] # None /\ deletes[e].file = f /\ deletes[e].gen = g}}

\* Portal::delete up to create_delete_operation.  A key seen before resumes
\* its operation; a new key needs a committed file and reuses a pending
\* marker of the generation, or mints one (manifest = None here).
StartDelete(p, d, f) ==
    /\ pc[p] = "idle"
    /\ \/ /\ deletes[d] # None /\ deletes[d].file = f
          /\ deletes[d].state # "committed"
          /\ Move(p, "verify",
                  [NoReq EXCEPT !.op = "delete", !.key = d, !.file = f,
                                !.manifest = deletes[d].marker], None, 1)
       \/ /\ deletes[d] = None
          /\ files[f] # None /\ files[f].state = "committed"
          /\ \E m \in IF PendingMarkers(f, files[f].gen + 1) = {}
                      THEN {None} ELSE PendingMarkers(f, files[f].gen + 1) :
                Move(p, "mark",
                     [NoReq EXCEPT !.op = "delete", !.key = d, !.file = f,
                                   !.manifest = m], None, 1)
    /\ UNCHANGED <<agentVars, rowVars, fileVars, inc, envVars>>

\* Mutant: the transaction trusts the lookup made before it.
MarkerUnchecked(f, m) == TRUE

\* No other marker was recorded for the generation this delete would create.
MarkerAgrees(f, m) == PendingMarkers(f, files[f].gen + 1) \subseteq {m}

\* create_delete_operation: one transaction that re-checks the projection, the
\* generation and the pending marker, and whose INSERT refuses a used key.
CreateDelete(p) ==
    LET d == req[p].key
        f == req[p].file
        fresh == req[p].manifest = None
        m == IF fresh THEN Marker(f, minted + 1) ELSE req[p].manifest
    IN  /\ pc[p] = "mark"
        /\ \/ /\ files[f].state = "committed"
              /\ MarkerAgrees(f, m)
              /\ deletes[d] = None
              /\ fresh => minted < MaxMints
              /\ deletes' = [deletes EXCEPT ![d] =
                    [file |-> f, gen |-> files[f].gen + 1, marker |-> m,
                     state |-> "replicating_marker"]]
              /\ minted' = IF fresh THEN minted + 1 ELSE minted
              /\ Move(p, "verify", [req[p] EXCEPT !.manifest = m], None, 1)
           \/ /\ \/ files[f].state # "committed"
                 \/ ~ MarkerAgrees(f, m)
                 \/ deletes[d] # None
              /\ Return(p)
              /\ UNCHANGED <<deletes, minted>>
        /\ UNCHANGED <<agentVars, rowVars, uploads, files, contentGen, inc, envVars>>

-----------------------------------------------------------------------------
(* verify_remote_agents, one agent at a time. *)

\* Mutant: an agent seen for the first time supersedes the incarnation it has not.
ObserveAsChange(a, i) ==
    /\ i \notin superseded[a]
    /\ active' = [active EXCEPT ![a] = i]
    /\ superseded' = [superseded EXCEPT ![a] = IF active[a] = i THEN @ ELSE @ \cup {active[a]}]

\* observe_agent_incarnation of an incarnation that is not refused.
ObserveIncarnation(a, i) ==
    /\ i \notin superseded[a]
    /\ active' = [active EXCEPT ![a] = i]
    /\ superseded' = [superseded EXCEPT ![a] =
                        IF active[a] \in {0, i} THEN @ ELSE @ \cup {active[a]}]

VerifyAgent(p) ==
    LET a == at[p] IN
    /\ pc[p] = "verify" /\ a \in Agents
    /\ ObserveIncarnation(a, vol[a])
    /\ inc' = [inc EXCEPT ![p][a] = vol[a]]
    /\ Move(p, "verify", [req[p] EXCEPT !.live = @ \cup {Domain[a]}], None, NextAgent(a))
    /\ UNCHANGED <<agentVars, placements, fileVars, envVars>>

\* A superseded incarnation under the agent's name fails the whole call.
VerifyRefused(p) ==
    /\ pc[p] = "verify" /\ at[p] \in Agents
    /\ vol[at[p]] \in superseded[at[p]]
    /\ Return(p)
    /\ UNCHANGED <<agentVars, rowVars, fileVars, inc, envVars>>

\* An unreachable agent is passed over; an incarnation this process verified
\* earlier stays in its memory.  An answer that cannot be read, or that names
\* another agent or failure domain, fails the whole call.
VerifyUnreachable(p) ==
    /\ pc[p] = "verify" /\ at[p] \in Agents
    /\ Move(p, "verify", req[p], None, NextAgent(at[p])) \/ Return(p)
    /\ Hiccup
    /\ UNCHANGED <<agentVars, rowVars, fileVars, inc>>

VerifyDone(p) ==
    /\ pc[p] = "verify" /\ at[p] \notin Agents
    /\ IF ~ AtLeastTwo(req[p].live) THEN Return(p)
       ELSE IF req[p].op = "upload"
            THEN Move(p, "plan", [req[p] EXCEPT !.live = {}], None, 1)
            ELSE Move(p, "pend", [req[p] EXCEPT !.live = {}], req[p].manifest, 1)
    /\ UNCHANGED <<agentVars, rowVars, fileVars, inc, envVars>>

-----------------------------------------------------------------------------
(* The plan of an upload and its admission. *)

\* A new key creates the upload in one transaction, refused when another
\* process created it meanwhile; a known key compares the request's
\* fingerprint with the row as it was loaded.
PlanUpload(p) ==
    LET k == req[p].key IN
    /\ pc[p] = "plan"
    /\ IF req[p].loaded = None /\ uploads[k] = None
       THEN /\ uploads' = [uploads EXCEPT ![k] =
                  [state |-> "staging", content |-> req[p].src,
                   chunks |-> [n \in Ordinals |-> None], manifest |-> None]]
            /\ Move(p, "reload", req[p], None, 1)
       ELSE /\ UNCHANGED uploads
            /\ IF req[p].loaded # None /\ req[p].loaded.content = req[p].src
               THEN Move(p, "admit", req[p], None, 1)
               ELSE Return(p)
    /\ UNCHANGED <<agentVars, rowVars, files, deletes, contentGen, minted, inc, envVars>>

ReloadUpload(p) ==
    /\ pc[p] = "reload"
    /\ Move(p, "admit", [req[p] EXCEPT !.loaded = uploads[req[p].key]], None, 1)
    /\ UNCHANGED <<agentVars, rowVars, fileVars, inc, envVars>>

\* require_admissible_capacity over the verified agents, then the SELECT of
\* advance_upload when the row was loaded in staging.
AdmitUpload(p) ==
    LET k == req[p].key IN
    /\ pc[p] = "admit"
    /\ IF ~ AtLeastTwo({Domain[a] : a \in {b \in Agents : inc[p][b] # 0}})
       THEN Return(p)
       ELSE IF req[p].loaded.state # "staging"
            THEN Move(p, "chunk", [req[p] EXCEPT !.n = 1], None, 1)
            ELSE IF Permits(uploads[k].state, "replicating_chunks")
                 THEN Move(p, "advance", req[p], None, 1)
                 ELSE Return(p)
    /\ UNCHANGED <<agentVars, rowVars, fileVars, inc, envVars>>

AdmissionRefused(p) ==
    /\ pc[p] = "admit"
    /\ Return(p)
    /\ Hiccup
    /\ UNCHANGED <<agentVars, rowVars, fileVars, inc>>

\* The UPDATE of advance_upload, a statement of its own: it no longer looks
\* at the state the SELECT found.
AdvanceUpload(p) ==
    /\ pc[p] = "advance"
    /\ uploads' = [uploads EXCEPT ![req[p].key].state = "replicating_chunks"]
    /\ Move(p, "chunk", [req[p] EXCEPT !.n = 1], None, 1)
    /\ UNCHANGED <<agentVars, rowVars, files, deletes, contentGen, minted, inc, envVars>>

\* The plaintext read now has the hash the plan recorded.
SourceUnchanged(p) == req[p].src = uploads[req[p].key].content

\* Read, rehash and encrypt the next chunk and record its object, or find
\* the source changed.
ReadChunk(p) ==
    LET k == req[p].key
        n == req[p].n
        o == Chunk(k, n, req[p].src)
    IN  /\ pc[p] = "chunk" /\ n \in Ordinals
        /\ IF /\ SourceUnchanged(p)
              /\ uploads[k].chunks[n] \in {None, o}
           THEN /\ uploads' = [uploads EXCEPT ![k].chunks[n] = o]
                /\ Move(p, "pend", req[p], o, 1)
           ELSE Return(p) /\ UNCHANGED uploads
        /\ UNCHANGED <<agentVars, rowVars, files, deletes, contentGen, minted, inc, envVars>>

\* Every chunk is replicated and the source has no trailing byte; one that was
\* edited after it was read may have.
ChunksDone(p) ==
    /\ pc[p] = "chunk" /\ req[p].n \notin Ordinals
    /\ \/ Move(p, "manifest", req[p], None, 1)
       \/ ~SourceUnchanged(p) /\ Return(p)
    /\ UNCHANGED <<agentVars, rowVars, fileVars, inc, envVars>>

\* The manifest in the row as loaded, or a fresh one that set_manifest_plan
\* persists; its transaction refuses any state but replicating_chunks (a
\* fresh manifest never has the hash of the persisted one).
PlanManifest(p) ==
    LET k == req[p].key
        m == Manifest(k, minted + 1)
    IN  /\ pc[p] = "manifest"
        /\ \/ /\ req[p].loaded.manifest # None
              /\ Move(p, "pend", [req[p] EXCEPT !.manifest = req[p].loaded.manifest],
                      req[p].loaded.manifest, 1)
              /\ UNCHANGED <<uploads, minted>>
           \/ /\ req[p].loaded.manifest = None
              /\ uploads[k].state = "replicating_chunks"
              /\ minted < MaxMints
              /\ uploads' = [uploads EXCEPT ![k].state = "replicating_manifest",
                                            ![k].manifest = m]
              /\ minted' = minted + 1
              /\ Move(p, "pend", [req[p] EXCEPT !.manifest = m], m, 1)
           \/ /\ req[p].loaded.manifest = None
              /\ uploads[k].state # "replicating_chunks"
              /\ Return(p)
              /\ UNCHANGED <<uploads, minted>>
        /\ UNCHANGED <<agentVars, rowVars, files, deletes, contentGen, inc, envVars>>

-----------------------------------------------------------------------------
(* replicate: for each agent in turn a pending row, a PUT, a confirmation. *)

\* Mutant: the row is recorded as confirmed before the agent has answered.
EnsureConfirmed(o, a, i) ==
    placements' = [placements EXCEPT ![o][a] =
                     IF @.inc = i THEN @ ELSE [state |-> "confirmed", inc |-> i]]

\* Mutant: a row left by a superseded incarnation is kept.
EnsureRow(o, a, i) ==
    placements' = [placements EXCEPT ![o][a] =
                     IF @.inc # 0 THEN @ ELSE [state |-> "pending", inc |-> i]]

\* ensure_pending_placement: a row of another incarnation starts over.
EnsurePending(o, a, i) ==
    placements' = [placements EXCEPT ![o][a] =
                     IF @.inc = i THEN @ ELSE [state |-> "pending", inc |-> i]]

\* placement_confirmed is asked first; an agent this process never verified
\* is passed over.
PendPlacement(p) ==
    LET o == obj[p]
        a == at[p]
    IN  /\ pc[p] = "pend" /\ a \in Agents
        /\ IF inc[p][a] = 0
           THEN Move(p, "pend", req[p], o, NextAgent(a))
           ELSE Move(p, IF LiveConfirmed(o, a) THEN "put" ELSE "ensure",
                     [req[p] EXCEPT !.confirmed = LiveConfirmed(o, a)], o, a)
        /\ UNCHANGED <<agentVars, rowVars, fileVars, inc, envVars>>

EnsurePlacement(p) ==
    LET a == at[p] IN
    /\ pc[p] = "ensure"
    /\ EnsurePending(obj[p], a, inc[p][a])
    /\ Move(p, "put", req[p], obj[p], a)
    /\ UNCHANGED <<agentVars, active, superseded, fileVars, inc, envVars>>

\* The agent keeps an intact copy and replaces a corrupt one, then answers.
\* A placement that was confirmed before is not confirmed again.
PutObject(p) ==
    LET o == obj[p]
        a == at[p]
    IN  /\ pc[p] = "put"
        /\ stored' = [stored EXCEPT ![a][vol[a]][o] = "valid"]
        /\ IF req[p].confirmed THEN Move(p, "pend", req[p], o, NextAgent(a))
           ELSE Move(p, "confirm", req[p], o, a)
        /\ UNCHANGED <<vol, rowVars, fileVars, inc, envVars>>

\* The PUT fails: the request or, after the write, its answer is lost.
PutFailed(p) ==
    LET o == obj[p]
        a == at[p]
    IN  /\ pc[p] = "put"
        /\ stored' \in {stored, [stored EXCEPT ![a][vol[a]][o] = "valid"]}
        /\ Move(p, "pend", req[p], o, NextAgent(a))
        /\ Hiccup
        /\ UNCHANGED <<vol, rowVars, fileVars, inc>>

\* confirm_placement: the row by object and agent, whatever its incarnation.
ConfirmPlacement(p) ==
    LET o == obj[p]
        a == at[p]
    IN  /\ pc[p] = "confirm"
        /\ placements' = [placements EXCEPT ![o][a].state = "confirmed"]
        /\ Move(p, "pend", req[p], o, NextAgent(a))
        /\ UNCHANGED <<agentVars, active, superseded, fileVars, inc, envVars>>

ReplicateDone(p) ==
    LET o == obj[p] IN
    /\ pc[p] = "pend" /\ at[p] \notin Agents
    /\ IF ~ ReplicaFloor(o) THEN Return(p)
       ELSE IF req[p].manifest = None
            THEN Move(p, "chunk", [req[p] EXCEPT !.n = @ + 1], None, 1)
            ELSE Move(p, "check", [req[p] EXCEPT !.n = 0], o, 1)
    /\ UNCHANGED <<agentVars, rowVars, fileVars, inc, envVars>>

-----------------------------------------------------------------------------
(* ensure_live_upload_replica_floor and require_live_domains: the manifest  *)
(* or marker (n = 0), then each chunk, is read back from confirmed agents.  *)

BeginCheck(p) ==
    LET o == IF req[p].n = 0 THEN req[p].manifest ELSE uploads[req[p].key].chunks[req[p].n]
    IN  /\ pc[p] = "check"
        /\ IF o = None THEN Return(p)
           ELSE Move(p, "get", [req[p] EXCEPT !.remaining = ConfirmedAgents(o),
                                              !.live = {}], o, 1)
        /\ lostSince' = IF req[p].n = 0 THEN [lostSince EXCEPT ![p] = {}] ELSE lostSince
        /\ UNCHANGED <<agentVars, rowVars, fileVars, inc, faults, hiccups, lost, lostAfter>>

Least(S) == CHOOSE a \in S : \A b \in S : a <= b

GetReplica(p) ==
    LET a == Least(req[p].remaining) IN
    /\ pc[p] = "get" /\ req[p].remaining # {}
    /\ Move(p, "get", [req[p] EXCEPT
                !.remaining = @ \ {a},
                !.live = IF Valid(a, obj[p]) THEN @ \cup {Domain[a]} ELSE @], obj[p], 1)
    /\ UNCHANGED <<agentVars, rowVars, fileVars, inc, envVars>>

GetFailed(p) ==
    /\ pc[p] = "get" /\ req[p].remaining # {}
    /\ Move(p, "get", [req[p] EXCEPT !.remaining = @ \ {Least(@)}], obj[p], 1)
    /\ Hiccup
    /\ UNCHANGED <<agentVars, rowVars, fileVars, inc>>

LiveDomainsMet(p) == AtLeastTwo(req[p].live)

\* Mutant: only the manifest is read back.
CheckManifestOnly(p) == 0

\* The last object to check: a delete has its marker only.
LastToCheck(p) == IF req[p].op = "delete" THEN 0 ELSE NumChunks

CheckDone(p) ==
    /\ pc[p] = "get" /\ req[p].remaining = {}
    /\ IF ~ LiveDomainsMet(p) THEN Return(p)
       ELSE IF req[p].n = LastToCheck(p)
            THEN Move(p, "commit", req[p], None, 1)
            ELSE Move(p, "check", [req[p] EXCEPT !.n = @ + 1], None, 1)
    /\ UNCHANGED <<agentVars, rowVars, fileVars, inc, envVars>>

-----------------------------------------------------------------------------
(* The two commit transactions. *)

\* Mutant: the projection is replaced when it exists.
ReplaceFile(k) == TRUE

\* The INSERT into files refuses a file that exists.
FileAbsent(k) == files[k] = None

\* commit_file's conditions.
CanCommitFile(k) ==
    /\ uploads[k].state = "replicating_manifest"
    /\ ReplicaFloor(uploads[k].manifest)
    /\ \A n \in Ordinals : uploads[k].chunks[n] # None /\ ReplicaFloor(uploads[k].chunks[n])
    /\ FileAbsent(k)

CommitFile(p) ==
    LET k == req[p].key IN
    /\ pc[p] = "commit" /\ req[p].op = "upload"
    /\ IF CanCommitFile(k)
       THEN /\ files' = [files EXCEPT ![k] =
                  [gen |-> 1, state |-> "committed",
                   manifest |-> uploads[k].manifest, marker |-> None]]
            /\ uploads' = [uploads EXCEPT ![k].state = "committed"]
            /\ contentGen' = contentGen + 1
            /\ lostAfter' = [lostAfter EXCEPT ![k] = lostSince[p]]
       ELSE UNCHANGED <<files, uploads, contentGen, lostAfter>>
    /\ Return(p)
    /\ UNCHANGED <<agentVars, rowVars, deletes, minted, inc, faults, hiccups, lost, lostSince>>

\* The projection is older, or was deleted by this very marker.
DeletionAgrees(op) ==
    /\ files[op.file].gen <= op.gen
    /\ files[op.file].gen = op.gen =>
         files[op.file].state = "deleted" /\ files[op.file].marker = op.marker

\* commit_delete.  A file already deleted by this marker is deleted again.
CanCommitDelete(d) ==
    /\ deletes[d].state # "committed"
    /\ ReplicaFloor(deletes[d].marker)
    /\ DeletionAgrees(deletes[d])

CommitDelete(p) ==
    LET d == req[p].key
        f == deletes[d].file
    IN  /\ pc[p] = "commit" /\ req[p].op = "delete"
        /\ IF CanCommitDelete(d)
           THEN /\ files' = [files EXCEPT ![f].gen = deletes[d].gen, ![f].state = "deleted",
                                          ![f].marker = deletes[d].marker]
                /\ deletes' = [deletes EXCEPT ![d].state = "committed"]
                /\ contentGen' = contentGen + 1
                /\ lostAfter' = [lostAfter EXCEPT ![f] = lostSince[p]]
           ELSE UNCHANGED <<files, deletes, contentGen, lostAfter>>
        /\ Return(p)
        /\ UNCHANGED <<agentVars, rowVars, uploads, minted, inc, faults, hiccups, lost, lostSince>>

-----------------------------------------------------------------------------
(* What happens to the processes, their sources and the volumes. *)

\* The process dies; nothing in memory survives.
Crash(p) ==
    /\ pc[p] # "idle"
    /\ Return(p)
    /\ inc' = [inc EXCEPT ![p] = [a \in Agents |-> 0]]
    /\ Hiccup
    /\ UNCHANGED <<agentVars, rowVars, fileVars>>

\* Somebody edits the source file while it is being uploaded.
EditSource(p, c) ==
    /\ req[p].op = "upload" /\ req[p].src # c
    /\ req' = [req EXCEPT ![p].src = c]
    /\ UNCHANGED <<agentVars, rowVars, fileVars, pc, obj, at, inc, envVars>>

Lose(a) ==
    /\ faults < MaxFaults
    /\ faults' = faults + 1
    /\ lost' = lost \cup {a}
    /\ lostSince' = [p \in Procs |-> IF pc[p] \in {"check", "get", "commit"}
                                     THEN lostSince[p] \cup {a} ELSE lostSince[p]]
    /\ lostAfter' = [f \in UploadKeys |-> IF files[f] # None
                                          THEN lostAfter[f] \cup {a} ELSE lostAfter[f]]
    /\ UNCHANGED hiccups

\* The agent restarts on another volume: a wiped one, or one it had before.
MountVolume(a, i) ==
    /\ i # vol[a]
    /\ vol' = [vol EXCEPT ![a] = i]
    /\ Lose(a)
    /\ UNCHANGED <<stored, rowVars, fileVars, procVars>>

CorruptCopy(a, o) ==
    /\ Valid(a, o)
    /\ stored' = [stored EXCEPT ![a][vol[a]][o] = "corrupt"]
    /\ Lose(a)
    /\ UNCHANGED <<vol, rowVars, fileVars, procVars>>

-----------------------------------------------------------------------------
Step(p) ==
    \/ CreateDelete(p) \/ VerifyAgent(p) \/ VerifyRefused(p) \/ VerifyDone(p)
    \/ PlanUpload(p) \/ ReloadUpload(p) \/ AdmitUpload(p) \/ AdvanceUpload(p)
    \/ ReadChunk(p) \/ ChunksDone(p) \/ PlanManifest(p)
    \/ PendPlacement(p) \/ EnsurePlacement(p) \/ PutObject(p) \/ ConfirmPlacement(p)
    \/ ReplicateDone(p)
    \/ BeginCheck(p) \/ GetReplica(p) \/ CheckDone(p)
    \/ CommitFile(p) \/ CommitDelete(p)

Request(p) ==
    \/ \E k \in UploadKeys, c \in Contents : StartUpload(p, k, c)
    \/ \E d \in DeleteKeys, f \in UploadKeys : StartDelete(p, d, f)

Trouble(p) ==
    \/ VerifyUnreachable(p) \/ AdmissionRefused(p) \/ PutFailed(p) \/ GetFailed(p)
    \/ Crash(p)
    \/ \E c \in Contents : EditSource(p, c)

Loss ==
    \/ \E a \in Agents, i \in Volumes : MountVolume(a, i)
    \/ \E a \in Agents, o \in Objects : CorruptCopy(a, o)

Next == (\E p \in Procs : Step(p) \/ Request(p) \/ Trouble(p)) \/ Loss

Spec == Init /\ [][Next]_vars

-----------------------------------------------------------------------------
(* Properties. *)

\* The objects the current state of a file rests on.
CurrentObjects(f) ==
    IF files[f] = None THEN {}
    ELSE IF files[f].state = "deleted" THEN {files[f].marker}
    ELSE {files[f].manifest} \cup {uploads[f].chunks[n] : n \in Ordinals}

\* As long as every loss so far stayed inside one failure domain, a download
\* of a visible file finds every object it needs: some agent has a placement
\* that fetch_valid_object consults and a valid copy behind it.  The marker of
\* a deleted file is as safe, so recovery cannot bring the file back.
Downloadable ==
    ~ AtLeastTwo({Domain[a] : a \in lost}) =>
        \A f \in UploadKeys : \A o \in CurrentObjects(f) :
            \E a \in Agents : LiveConfirmed(o, a) /\ Valid(a, o)

\* A file becomes visible, or deleted, only on objects read back alive from
\* two failure domains: whatever was lost before the live check, each object
\* is still valid in two domains unless one of them lost data since.
LiveFloor ==
    \A f \in UploadKeys : \A o \in CurrentObjects(f) :
        \E a, b \in Agents :
            /\ Domain[a] # Domain[b]
            /\ \A x \in {a, b} : x \in lostAfter[f] \/ Valid(x, o)

StoredSomewhere(o) == \E a \in Agents, i \in Volumes : stored[a][i][o] # "none"

\* All manifests of a file that ever reached a volume are one: recovery would
\* refuse a file with two manifests at one generation.
OneManifest ==
    \A k \in UploadKeys :
        \A m, n \in 1..MaxMints :
            StoredSomewhere(Manifest(k, m)) /\ StoredSomewhere(Manifest(k, n)) => m = n

\* Deletes of one file under several keys, by several processes, put one
\* deletion marker on the volumes (one generation, one marker).
OneMarker ==
    \A f \in UploadKeys :
        \A m, n \in 1..MaxMints :
            StoredSomewhere(Marker(f, m)) /\ StoredSomewhere(Marker(f, n)) => m = n

\* A source edited between attempts, or while it is read, never puts another
\* plaintext under the nonce the plan persisted: every chunk on a volume is
\* of the content the plan was made for.
PlannedContentOnly ==
    \A k \in UploadKeys, n \in Ordinals, c \in Contents :
        StoredSomewhere(Chunk(k, n, c)) => uploads[k] # None /\ uploads[k].content = c

\* What clients see of a file.
Lifecycle == INSTANCE FileLifecycle WITH
    Files <- UploadKeys, Revisions <- Manifests,
    status <- [f \in UploadKeys |->
                 IF files[f] = None THEN "absent"
                 ELSE IF files[f].state = "committed" THEN "visible" ELSE "deleted"],
    revision <- [f \in UploadKeys |-> IF files[f] = None THEN None ELSE files[f].manifest]

\* The commit spine implements the life cycle a client sees: a file appears
\* once, with one manifest, and once deleted it never comes back, whatever
\* retries and concurrent calls do.
ImplementsLifecycle == Lifecycle!Spec

\* Fairness: a started call keeps running, and a client retries its call.
Fairness ==
    \A p \in Procs :
        /\ WF_vars(Step(p))
        /\ \A k \in UploadKeys, c \in Contents : SF_vars(StartUpload(p, k, c))
        /\ \A d \in DeleteKeys, f \in UploadKeys : SF_vars(StartDelete(p, d, f))

FairSpec == Spec /\ Fairness

\* An upload that was planned, retried under its key, is committed in the end;
\* only an agent that serves a superseded volume can stop it.
UploadConverges ==
    \A k \in UploadKeys :
        uploads[k] # None ~> \/ uploads[k] # None /\ uploads[k].state = "committed"
                             \/ \E a \in Agents : vol[a] \in superseded[a]

\* A delete that was recorded, retried under its key, is committed in the end,
\* under the same exception.
DeleteConverges ==
    \A d \in DeleteKeys :
        deletes[d] # None ~> \/ deletes[d] # None /\ deletes[d].state = "committed"
                             \/ \E a \in Agents : vol[a] \in superseded[a]

\* What the last steps of upload and delete rely on, over crashes, lost
\* volumes and retries: the copies the live check saw, one manifest per file and
\* the planned content behind every nonce.
CommitSound == LiveFloor /\ OneManifest /\ PlannedContentOnly
=============================================================================
