------------------------- MODULE CommitSpineProofs -------------------------
(***************************************************************************)
(* Proofs about CommitSpine, for any number of processes, agents, chunks,  *)
(* keys and losses.                                                        *)
(*                                                                         *)
(* TypeOK is not inductive: an action that indexes a row needs the row to  *)
(* exist.  Wellformed adds what a process may rely on at each step         *)
(* (ProcOK) and how the tables refer to each other (TablesOK).             *)
(*                                                                         *)
(* Downloadable rests on Durable: on an agent that never lost data, a      *)
(* confirmed row is a promise, kept by the volume the agent started with.  *)
(*                                                                         *)
(* OneMarker rests on MarkersNamed: no marker is written that a delete     *)
(* operation does not record, and the operations of a file agree on it.    *)
(*                                                                         *)
(* CommitSound rests on PlanKept, the plan of an upload never changes, and *)
(* Checked, what the live check read back stays valid but for losses.      *)
(***************************************************************************)
EXTENDS CommitSpine, WellFoundedInduction, TLAPS

\* What a process may rely on at a step: l, r, o and a are its place and its
\* memory; ups, fs and ds the tables.
ProcAt(l, r, o, a, ups, fs, ds) ==
    /\ r.op = "upload" =>
         /\ r.key \in UploadKeys /\ r.src \in Contents
         /\ r.loaded # None => ups[r.key] # None
         /\ l \notin {"verify", "plan"} => ups[r.key] # None
         /\ l \notin {"verify", "plan", "reload"} => r.loaded # None
    /\ r.op = "delete" =>
         /\ r.key \in DeleteKeys /\ r.file \in UploadKeys
         /\ fs[r.file] # None /\ r.manifest \in Markers \cup {None}
         /\ l # "mark" => ds[r.key] # None /\ r.manifest \in Markers
    /\ l # "idle" => r.op # "none"
    /\ l \in {"plan", "reload", "admit", "advance", "chunk", "manifest"} => r.op = "upload"
    /\ l = "mark" => r.op = "delete"
    /\ l \in {"pend", "ensure", "put", "confirm", "get"} => o \in Objects
    /\ l \in {"ensure", "put", "confirm"} => a \in Agents
    /\ l \in {"check", "get"} => r.n = 0 \/ (r.op = "upload" /\ r.n \in Ordinals)

ProcOK(p) == ProcAt(pc[p], req[p], obj[p], at[p], uploads, files, deletes)

\* TypeOK without the variables that Move assigns.
DataOK ==
    /\ vol \in [Agents -> Volumes]
    /\ stored \in [Agents -> [Volumes -> [Objects -> {"none", "valid", "corrupt"}]]]
    /\ active \in [Agents -> Volumes \cup {0}]
    /\ superseded \in [Agents -> SUBSET Volumes]
    /\ placements \in
         [Objects -> [Agents -> [state : {"none", "pending", "confirmed"},
                                 inc : Volumes \cup {0}]]]
    /\ uploads \in [UploadKeys -> UploadRows \cup {None}]
    /\ files \in [UploadKeys -> FileRows \cup {None}]
    /\ deletes \in [DeleteKeys -> DeleteRows \cup {None}]
    /\ contentGen \in Nat
    /\ minted \in 0..MaxMints
    /\ inc \in [Procs -> [Agents -> Volumes \cup {0}]]
    /\ faults \in 0..MaxFaults /\ hiccups \in 0..MaxHiccups
    /\ lost \in SUBSET Agents
    /\ lostSince \in [Procs -> SUBSET Agents]
    /\ lostAfter \in [UploadKeys -> SUBSET Agents]

TablesOK ==
    /\ \A k \in UploadKeys :
         /\ files[k] # None => uploads[k] # None /\ \A n \in Ordinals : uploads[k].chunks[n] # None
         /\ uploads[k] # None /\ uploads[k].state \in {"replicating_manifest", "committed"} =>
              uploads[k].manifest # None
    /\ \A d \in DeleteKeys : deletes[d] # None => files[deletes[d].file] # None
    /\ \A f \in UploadKeys : files[f] # None /\ files[f].state = "deleted" => files[f].marker # None

Wellformed == TypeOK /\ TablesOK /\ \A p \in Procs : ProcOK(p)

\* An agent that never lost data still serves its first volume, and nobody
\* knows it under another incarnation.
Steady(a) ==
    /\ vol[a] = 1
    /\ active[a] \in {0, 1}
    /\ \A p \in Procs : inc[p][a] \in {0, active[a]}

\* Its rows are of that volume, and a confirmed one has a valid copy there.
Kept(o, a) ==
    /\ placements[o][a].inc \in {0, active[a]}
    /\ placements[o][a].state = "confirmed" =>
         placements[o][a].inc = 1 /\ stored[a][1][o] = "valid"

\* A process about to record a row has verified the agent; one about to write
\* has its row in place; one about to confirm has had its write acknowledged.
Promised(p) ==
    /\ pc[p] = "ensure" => inc[p][at[p]] # 0
    /\ pc[p] \in {"put", "confirm"} /\ at[p] \notin lost =>
         /\ placements[obj[p]][at[p]].inc = 1
         /\ pc[p] = "confirm" => stored[at[p]][1][obj[p]] = "valid"

\* Two failure domains were promised each object a file's state rests on.
Backed(o) ==
    \E a, b \in Agents :
        /\ Domain[a] # Domain[b]
        /\ \A x \in {a, b} : x \in lost \/ placements[o][x].state = "confirmed"

Durable ==
    /\ \A a \in Agents \ lost : Steady(a) /\ \A o \in Objects : Kept(o, a)
    /\ \A p \in Procs : Promised(p)
    /\ \A f \in UploadKeys : \A o \in CurrentObjects(f) : Backed(o)

-----------------------------------------------------------------------------
(* Wellformed is inductive. *)

\* The memory of a process that is idle is of its type.
LEMMA NoReqType == NoReq \in ReqRows
  BY DEF NoReq, ReqRows

\* Rows are never removed.
Grows ==
    /\ \A k \in UploadKeys : uploads[k] # None => uploads'[k] # None
    /\ \A f \in UploadKeys : files[f] # None => files'[f] # None
    /\ \A d \in DeleteKeys : deletes[d] # None => deletes'[d] # None

\* What a process may rely on outlives the steps of the others.
LEMMA ProcAtGrows ==
    ASSUME Grows, NEW l, NEW r, NEW o, NEW a,
           ProcAt(l, r, o, a, uploads, files, deletes)
    PROVE  ProcAt(l, r, o, a, uploads', files', deletes')
  BY DEF ProcAt, Grows

\* A process that moves to a step it may be at keeps the state well-formed.
LEMMA StepOK ==
    ASSUME Wellformed, NEW p \in Procs, NEW l \in Labels, NEW r \in ReqRows,
           NEW o \in Objects \cup {None}, NEW a \in 1..(NumAgents + 1),
           Move(p, l, r, o, a), Grows, DataOK', TablesOK',
           ProcAt(l, r, o, a, uploads', files', deletes')
    PROVE  Wellformed'
  <1>1. TypeOK'
    BY DEF TypeOK, DataOK, Wellformed, Move
  <1>2. ASSUME NEW q \in Procs PROVE ProcOK(q)'
    <2>1. CASE q = p
      <3>1. pc'[p] = l /\ req'[p] = r /\ obj'[p] = o /\ at'[p] = a
        BY DEF Move, Wellformed, TypeOK
      <3>2. QED
        BY <2>1, <3>1 DEF ProcOK
    <2>2. CASE q # p
      <3>1. pc'[q] = pc[q] /\ req'[q] = req[q] /\ obj'[q] = obj[q] /\ at'[q] = at[q]
        BY <2>2 DEF Wellformed, TypeOK, Move
      <3>2. ProcAt(pc[q], req[q], obj[q], at[q], uploads, files, deletes)
        BY DEF Wellformed, ProcOK
      <3>3. QED
        BY <3>1, <3>2, ProcAtGrows DEF ProcOK
    <2>3. QED
      BY <2>1, <2>2
  <1>3. QED
    BY <1>1, <1>2 DEF Wellformed

\* The same when the step leaves the tables of files and calls alone.
LEMMA QuietStepOK ==
    ASSUME Wellformed, NEW p \in Procs, NEW l \in Labels, NEW r \in ReqRows,
           NEW o \in Objects \cup {None}, NEW a \in 1..(NumAgents + 1),
           Move(p, l, r, o, a), UNCHANGED fileVars, DataOK',
           ProcAt(l, r, o, a, uploads, files, deletes)
    PROVE  Wellformed'
  <1>1. Grows
    BY DEF Grows, fileVars
  <1>2. TablesOK'
    BY DEF TablesOK, Wellformed, fileVars
  <1>3. QED
    BY <1>1, <1>2, StepOK DEF fileVars

\* A call may end at any step that leaves those tables alone.
LEMMA ReturnOK ==
    ASSUME Wellformed, NEW p \in Procs, Return(p), Grows, DataOK', TablesOK'
    PROVE  Wellformed'
  <1>1. ProcAt("idle", NoReq, None, 1, uploads', files', deletes')
    BY DEF ProcAt, NoReq
  <1>2. 1 \in 1..(NumAgents + 1) /\ "idle" \in Labels
    BY ConstantsAssumption DEF Labels
  <1>3. QED
    BY <1>1, <1>2, NoReqType, StepOK DEF Return

\* A call may end at any step that leaves the data alone.
LEMMA QuietReturnOK ==
    ASSUME Wellformed, NEW p \in Procs, Return(p), UNCHANGED fileVars, DataOK'
    PROVE  Wellformed'
  <1>1. Grows
    BY DEF Grows, fileVars
  <1>2. TablesOK'
    BY DEF TablesOK, Wellformed, fileVars
  <1>3. QED
    BY <1>1, <1>2, ReturnOK

\* Nothing but the processes moves.
LEMMA DataUnchanged ==
    ASSUME TypeOK, UNCHANGED <<agentVars, rowVars, fileVars, inc, envVars>>
    PROVE  DataOK'
  BY DEF TypeOK, DataOK, agentVars, rowVars, fileVars, envVars

\* The three kinds of object are objects.
LEMMA ObjectTypes ==
    /\ \A k \in UploadKeys, n \in Ordinals, c \in Contents : Chunk(k, n, c) \in Chunks
    /\ \A k \in UploadKeys, m \in 1..MaxMints : Manifest(k, m) \in Manifests
    /\ \A f \in UploadKeys, m \in 1..MaxMints : Marker(f, m) \in Markers
    /\ Chunks \subseteq Objects /\ Manifests \subseteq Objects /\ Markers \subseteq Objects
  BY DEF Chunks, Manifests, Markers, Objects

\* The agents a loop reaches, and the end of the loop, are of their type.
LEMMA PlaceTypes ==
    /\ None \in Objects \cup {None}
    /\ 1 \in 1..(NumAgents + 1)
    /\ \A a \in 1..(NumAgents + 1) : a \in Agents <=> a # NumAgents + 1
    /\ \A a \in Agents : a \in 1..(NumAgents + 1) /\ NextAgent(a) \in 1..(NumAgents + 1)
  BY ConstantsAssumption DEF Agents, NextAgent

\* Reading the row of an upload (Portal::upload) keeps the state well-formed.
LEMMA StartUploadOK ==
    ASSUME Wellformed, NEW p \in Procs, NEW k \in UploadKeys, NEW c \in Contents,
           StartUpload(p, k, c)
    PROVE  Wellformed'
  <1> DEFINE r == [NoReq EXCEPT !.op = "upload", !.key = k, !.file = k, !.src = c,
                                !.loaded = uploads[k]]
  <1>1. Move(p, "verify", r, None, 1) /\ UNCHANGED <<agentVars, rowVars, fileVars, inc, envVars>>
    BY DEF StartUpload
  <1>2. r \in ReqRows
    BY NoReqType DEF ReqRows, Wellformed, TypeOK
  <1>3. DataOK'
    BY <1>1, DataUnchanged DEF Wellformed
  <1>4. r.op = "upload" /\ r.key = k /\ r.src = c /\ r.loaded = uploads[k]
    BY DEF NoReq
  <1>5. ProcAt("verify", r, None, 1, uploads, files, deletes)
    BY <1>4 DEF ProcAt
  <1> HIDE DEF r
  <1>6. QED
    BY <1>1, <1>2, <1>3, <1>5, QuietStepOK, ConstantsAssumption DEF Labels

\* A move that changes one or two fields of what the process holds.
LEMMA ReqUpdate ==
    ASSUME NEW r \in ReqRows
    PROVE  /\ \A S \in SUBSET {Domain[a] : a \in Agents} : [r EXCEPT !.live = S] \in ReqRows
           /\ \A n \in Nat : [r EXCEPT !.n = n] \in ReqRows
           /\ \A m \in Manifests \cup Markers \cup {None} : [r EXCEPT !.manifest = m] \in ReqRows
           /\ \A u \in UploadRows \cup {None} : [r EXCEPT !.loaded = u] \in ReqRows
           /\ \A b \in BOOLEAN : [r EXCEPT !.confirmed = b] \in ReqRows
           /\ \A R \in SUBSET Agents : [r EXCEPT !.remaining = R] \in ReqRows
           /\ \A R \in SUBSET Agents, S \in SUBSET {Domain[a] : a \in Agents} :
                [r EXCEPT !.remaining = R, !.live = S] \in ReqRows
  <1>1. /\ \A S \in SUBSET {Domain[a] : a \in Agents} : [r EXCEPT !.live = S] \in ReqRows
        /\ \A n \in Nat : [r EXCEPT !.n = n] \in ReqRows
    BY DEF ReqRows
  <1>2. /\ \A m \in Manifests \cup Markers \cup {None} : [r EXCEPT !.manifest = m] \in ReqRows
        /\ \A u \in UploadRows \cup {None} : [r EXCEPT !.loaded = u] \in ReqRows
    BY DEF ReqRows
  <1>3. /\ \A b \in BOOLEAN : [r EXCEPT !.confirmed = b] \in ReqRows
        /\ \A R \in SUBSET Agents : [r EXCEPT !.remaining = R] \in ReqRows
    BY DEF ReqRows
  <1>4. \A R \in SUBSET Agents, S \in SUBSET {Domain[a] : a \in Agents} :
          [r EXCEPT !.remaining = R, !.live = S] \in ReqRows
    BY DEF ReqRows
  <1>5. QED
    BY <1>1, <1>2, <1>3, <1>4

\* The markers pending_delete_marker finds are markers.
LEMMA PendingMarkersType ==
    ASSUME TypeOK, NEW f, NEW g
    PROVE  PendingMarkers(f, g) \subseteq Markers
  BY DEF PendingMarkers, TypeOK, DeleteRows

\* Reading the row of a delete (Portal::delete) keeps the state well-formed.
LEMMA StartDeleteOK ==
    ASSUME Wellformed, NEW p \in Procs, NEW d \in DeleteKeys, NEW f \in UploadKeys,
           StartDelete(p, d, f)
    PROVE  Wellformed'
  <1> DEFINE r(m) == [NoReq EXCEPT !.op = "delete", !.key = d, !.file = f, !.manifest = m]
  <1>1. UNCHANGED <<agentVars, rowVars, fileVars, inc, envVars>>
    BY DEF StartDelete
  <1>2. ASSUME NEW m \in Markers \cup {None} PROVE r(m) \in ReqRows
    BY NoReqType, <1>2 DEF ReqRows
  <1>3. DataOK'
    BY <1>1, DataUnchanged DEF Wellformed
  <1>4. ASSUME NEW m PROVE r(m).op = "delete" /\ r(m).key = d /\ r(m).file = f /\ r(m).manifest = m
    BY DEF NoReq
  <1> HIDE DEF r
  <1>5. CASE deletes[d] # None /\ deletes[d].file = f /\ Move(p, "verify", r(deletes[d].marker), None, 1)
    <2>1. deletes[d].marker \in Markers /\ files[f] # None
      BY <1>5 DEF Wellformed, TypeOK, DeleteRows, TablesOK
    <2>2. ProcAt("verify", r(deletes[d].marker), None, 1, uploads, files, deletes)
      BY <1>4, <1>5, <2>1 DEF ProcAt
    <2>3. QED
      BY <1>1, <1>2, <1>3, <1>5, <2>1, <2>2, QuietStepOK, ConstantsAssumption DEF Labels
  <1>6. CASE files[f] # None /\ \E m \in Markers \cup {None} : Move(p, "mark", r(m), None, 1)
    <2>1. PICK m \in Markers \cup {None} : Move(p, "mark", r(m), None, 1)
      BY <1>6
    <2>2. ProcAt("mark", r(m), None, 1, uploads, files, deletes)
      BY <1>4, <1>6 DEF ProcAt
    <2>3. QED
      BY <1>1, <1>2, <1>3, <2>1, <2>2, QuietStepOK, ConstantsAssumption DEF Labels
  <1>7. PendingMarkers(f, files[f].gen + 1) \subseteq Markers
    BY PendingMarkersType DEF Wellformed
  <1>8. QED
    BY <1>5, <1>6, <1>7 DEF StartDelete, r

\* create_delete_operation keeps the state well-formed.
LEMMA CreateDeleteOK ==
    ASSUME Wellformed, NEW p \in Procs, CreateDelete(p)
    PROVE  Wellformed'
  <1> DEFINE d == req[p].key
             f == req[p].file
             m == IF req[p].manifest = None THEN Marker(f, minted + 1) ELSE req[p].manifest
             row == [file |-> f, gen |-> files[f].gen + 1, marker |-> m,
                     state |-> "replicating_marker"]
             r == [req[p] EXCEPT !.manifest = m]
  <1>1. ProcAt("mark", req[p], obj[p], at[p], uploads, files, deletes) /\ req[p] \in ReqRows
    BY DEF CreateDelete, Wellformed, ProcOK, TypeOK
  <1>2. d \in DeleteKeys /\ f \in UploadKeys /\ files[f] # None /\ req[p].op = "delete"
    BY <1>1 DEF ProcAt
  <1>3. files[f] \in FileRows /\ files[f].gen + 1 \in Nat
    BY <1>2 DEF Wellformed, TypeOK, FileRows
  <1>4. CASE /\ deletes[d] = None /\ (req[p].manifest = None => minted < MaxMints)
             /\ m \in Markers
             /\ deletes' = [deletes EXCEPT ![d] = row]
             /\ minted' = IF req[p].manifest = None THEN minted + 1 ELSE minted
             /\ Move(p, "verify", r, None, 1)
    <2>1. row \in DeleteRows /\ row # None
      BY <1>2, <1>3, <1>4, NoneAssumption DEF DeleteRows
    <2>2. minted' \in 0..MaxMints
      BY <1>4, ConstantsAssumption DEF Wellformed, TypeOK
    <2>3. deletes' \in [DeleteKeys -> DeleteRows \cup {None}]
      BY <1>4, <2>1 DEF Wellformed, TypeOK
    <2>4. UNCHANGED <<agentVars, rowVars, uploads, files, contentGen, inc, envVars>>
      BY DEF CreateDelete
    <2>5. DataOK'
      BY <2>2, <2>3, <2>4 DEF DataOK, Wellformed, TypeOK, agentVars, rowVars, envVars
    <2>6. deletes'[d] = row /\ \A e \in DeleteKeys : e # d => deletes'[e] = deletes[e]
      BY <1>2, <1>4 DEF Wellformed, TypeOK
    <2> HIDE DEF row
    <2>7. TablesOK'
      <3>1. row.file = f
        BY DEF row
      <3>2. QED
        BY <1>2, <2>4, <2>6, <3>1 DEF TablesOK, Wellformed
    <2>8. Grows
      BY <2>1, <2>4, <2>6 DEF Grows
    <2>9. r \in ReqRows
      BY <1>1, <1>4, ReqUpdate
    <2>10. r.op = "delete" /\ r.key = d /\ r.file = f /\ r.manifest = m
      BY <1>1, <1>2 DEF ReqRows
    <2> HIDE DEF r, m, d, f
    <2>11. ProcAt("verify", r, None, 1, uploads', files', deletes')
      BY <1>2, <1>4, <2>1, <2>4, <2>6, <2>10 DEF ProcAt
    <2>13. "verify" \in Labels
      BY DEF Labels
    <2>14. QED
      BY <1>4, <2>5, <2>7, <2>8, <2>9, <2>11, <2>13, StepOK, PlaceTypes
  <1>5. CASE Return(p) /\ UNCHANGED <<deletes, minted>>
    <2>1. UNCHANGED <<agentVars, rowVars, fileVars, inc, envVars>>
      BY <1>5 DEF CreateDelete, fileVars
    <2>2. QED
      BY <1>5, <2>1, DataUnchanged, QuietReturnOK DEF Wellformed
  <1>6. (req[p].manifest = None => minted < MaxMints) => m \in Markers
    <2>1. CASE req[p].manifest = None
      <3>1. minted < MaxMints => minted + 1 \in 1..MaxMints
        BY ConstantsAssumption DEF Wellformed, TypeOK
      <3>2. QED
        BY <1>2, <2>1, <3>1, ObjectTypes
    <2>2. CASE req[p].manifest # None
      BY <1>1, <2>2 DEF ProcAt
    <2>3. QED
      BY <2>1, <2>2
  <1>7. QED
    BY <1>4, <1>5, <1>6 DEF CreateDelete

\* What is known of a process before its step.
LEMMA ProcHere ==
    ASSUME Wellformed, NEW p \in Procs
    PROVE  /\ ProcAt(pc[p], req[p], obj[p], at[p], uploads, files, deletes)
           /\ pc[p] \in Labels /\ req[p] \in ReqRows
           /\ obj[p] \in Objects \cup {None} /\ at[p] \in 1..(NumAgents + 1)
  BY DEF Wellformed, ProcOK, TypeOK

\* A step that only the process itself notices.
LEMMA LocalStepOK ==
    ASSUME Wellformed, NEW p \in Procs, NEW l \in Labels, NEW r \in ReqRows,
           NEW o \in Objects \cup {None}, NEW a \in 1..(NumAgents + 1),
           Move(p, l, r, o, a), UNCHANGED <<agentVars, rowVars, fileVars, inc, envVars>>,
           ProcAt(l, r, o, a, uploads, files, deletes)
    PROVE  Wellformed'
  <1>1. DataOK'
    BY DataUnchanged DEF Wellformed
  <1>2. QED
    BY <1>1, QuietStepOK

\* A call that ends noticed by nobody else.
LEMMA LocalReturnOK ==
    ASSUME Wellformed, NEW p \in Procs, Return(p),
           UNCHANGED <<agentVars, rowVars, fileVars, inc, envVars>>
    PROVE  Wellformed'
  <1>1. DataOK'
    BY DataUnchanged DEF Wellformed
  <1>2. QED
    BY <1>1, QuietReturnOK

\* A hiccup counts itself and leaves the rest of the data to the step.
LEMMA HiccupData ==
    ASSUME TypeOK, Hiccup, UNCHANGED <<agentVars, rowVars, fileVars, inc>>
    PROVE  DataOK'
  <1>1. hiccups' \in 0..MaxHiccups
    BY ConstantsAssumption DEF Hiccup, TypeOK
  <1>2. QED
    BY <1>1 DEF Hiccup, TypeOK, DataOK, agentVars, rowVars, fileVars

\* The parts of a request that ProcAt reads.
SameCall(r, s) ==
    /\ s.op = r.op /\ s.key = r.key /\ s.file = r.file /\ s.src = r.src
    /\ s.loaded = r.loaded /\ s.manifest = r.manifest

\* A change of the memory of a process that stays in its call.
LEMMA SameCallUpdate ==
    ASSUME NEW r \in ReqRows
    PROVE  /\ SameCall(r, r)
           /\ \A S : SameCall(r, [r EXCEPT !.live = S]) /\ [r EXCEPT !.live = S].n = r.n
           /\ \A n : SameCall(r, [r EXCEPT !.n = n]) /\ [r EXCEPT !.n = n].n = n
           /\ \A b : SameCall(r, [r EXCEPT !.confirmed = b]) /\ [r EXCEPT !.confirmed = b].n = r.n
           /\ \A R : /\ SameCall(r, [r EXCEPT !.remaining = R])
                     /\ [r EXCEPT !.remaining = R].n = r.n
  BY DEF ReqRows, SameCall

\* Observing the incarnation of an agent keeps the state well-formed.
LEMMA VerifyAgentOK ==
    ASSUME Wellformed, NEW p \in Procs, VerifyAgent(p)
    PROVE  Wellformed'
  <1> DEFINE a == at[p]
             S == req[p].live \cup {Domain[a]}
             r == [req[p] EXCEPT !.live = S]
  <1>1. /\ pc[p] = "verify" /\ a \in Agents /\ Move(p, "verify", r, None, NextAgent(a))
        /\ ObserveIncarnation(a, vol[a]) /\ inc' = [inc EXCEPT ![p][a] = vol[a]]
        /\ UNCHANGED <<agentVars, placements, fileVars, envVars>>
    BY DEF VerifyAgent
  <1>2. vol[a] \in Volumes /\ active[a] \in Volumes \cup {0} /\ active[a] \notin {0} => active[a] \in Volumes
    BY <1>1 DEF Wellformed, TypeOK
  <1>3. active' \in [Agents -> Volumes \cup {0}] /\ superseded' \in [Agents -> SUBSET Volumes]
    BY <1>1, <1>2 DEF Wellformed, TypeOK, ObserveIncarnation
  <1>4. inc' \in [Procs -> [Agents -> Volumes \cup {0}]]
    BY <1>1, <1>2 DEF Wellformed, TypeOK
  <1>5. DataOK'
    BY <1>1, <1>3, <1>4 DEF Wellformed, TypeOK, DataOK, agentVars, fileVars, envVars
  <1>6. S \in SUBSET {Domain[b] : b \in Agents}
    BY <1>1, ProcHere DEF ReqRows
  <1>7. r \in ReqRows /\ SameCall(req[p], r) /\ r.n = req[p].n
    BY <1>6, ProcHere, ReqUpdate, SameCallUpdate
  <1> HIDE DEF r, S
  <1>8. ProcAt("verify", r, None, NextAgent(a), uploads, files, deletes)
    BY <1>1, <1>7, ProcHere DEF ProcAt, SameCall
  <1>9. "verify" \in Labels
    BY DEF Labels
  <1>10. QED
    BY <1>1, <1>5, <1>7, <1>8, <1>9, QuietStepOK, PlaceTypes

\* The refusal of a superseded incarnation keeps the state well-formed.
LEMMA VerifyRefusedOK ==
    ASSUME Wellformed, NEW p \in Procs, VerifyRefused(p)
    PROVE  Wellformed'
  BY LocalReturnOK DEF VerifyRefused

\* Passing over an unreachable agent keeps the state well-formed.
LEMMA VerifyUnreachableOK ==
    ASSUME Wellformed, NEW p \in Procs, VerifyUnreachable(p)
    PROVE  Wellformed'
  <1>1. /\ pc[p] = "verify" /\ at[p] \in Agents /\ Hiccup
        /\ UNCHANGED <<agentVars, rowVars, fileVars, inc>>
    BY DEF VerifyUnreachable
  <1>2. DataOK'
    BY <1>1, HiccupData DEF Wellformed
  <1>3. CASE Move(p, "verify", req[p], None, NextAgent(at[p]))
    <2>1. ProcAt("verify", req[p], None, NextAgent(at[p]), uploads, files, deletes)
      BY <1>1, ProcHere DEF ProcAt
    <2>2. "verify" \in Labels
      BY DEF Labels
    <2>3. QED
      BY <1>1, <1>2, <1>3, <2>1, <2>2, ProcHere, QuietStepOK, PlaceTypes
  <1>4. CASE Return(p)
    BY <1>1, <1>2, <1>4, QuietReturnOK
  <1>5. QED
    BY <1>3, <1>4 DEF VerifyUnreachable

\* The end of verify_remote_agents keeps the state well-formed.
LEMMA VerifyDoneOK ==
    ASSUME Wellformed, NEW p \in Procs, VerifyDone(p)
    PROVE  Wellformed'
  <1> DEFINE r == [req[p] EXCEPT !.live = {}]
  <1>1. pc[p] = "verify" /\ UNCHANGED <<agentVars, rowVars, fileVars, inc, envVars>>
    BY DEF VerifyDone
  <1>2. r \in ReqRows /\ SameCall(req[p], r)
    BY ProcHere, ReqUpdate, SameCallUpdate
  <1>3. CASE Return(p)
    BY <1>1, <1>3, LocalReturnOK
  <1> HIDE DEF r
  <1>4. CASE req[p].op = "upload" /\ Move(p, "plan", r, None, 1)
    <2>1. ProcAt("plan", r, None, 1, uploads, files, deletes)
      BY <1>1, <1>2, <1>4, ProcHere DEF ProcAt, SameCall
    <2>2. "plan" \in Labels
      BY DEF Labels
    <2>3. QED
      BY <1>1, <1>2, <1>4, <2>1, <2>2, LocalStepOK, PlaceTypes
  <1>5. CASE req[p].op # "upload" /\ Move(p, "pend", r, req[p].manifest, 1)
    <2>1. req[p].op = "delete" /\ req[p].manifest \in Markers /\ req[p].manifest \in Objects
      BY <1>1, <1>5, ProcHere, ObjectTypes DEF ProcAt, ReqRows
    <2>2. ProcAt("pend", r, req[p].manifest, 1, uploads, files, deletes)
      BY <1>1, <1>2, <2>1, ProcHere DEF ProcAt, SameCall
    <2>3. "pend" \in Labels
      BY DEF Labels
    <2>4. QED
      BY <1>1, <1>2, <1>5, <2>1, <2>2, <2>3, LocalStepOK, PlaceTypes
  <1>6. QED
    BY <1>3, <1>4, <1>5 DEF VerifyDone, r

\* A transaction on one upload row that keeps it a legal row.
LEMMA UploadRowOK ==
    ASSUME Wellformed, NEW k \in UploadKeys, NEW row \in UploadRows,
           uploads' = [uploads EXCEPT ![k] = row], minted' \in 0..MaxMints,
           UNCHANGED <<agentVars, rowVars, files, deletes, contentGen, inc, envVars>>,
           files[k] # None => \A n \in Ordinals : row.chunks[n] # None,
           row.state \in {"replicating_manifest", "committed"} => row.manifest # None
    PROVE  DataOK' /\ TablesOK' /\ Grows /\ uploads'[k] # None
  <1>1. uploads' \in [UploadKeys -> UploadRows \cup {None}]
    BY DEF Wellformed, TypeOK
  <1>2. DataOK'
    BY <1>1 DEF DataOK, Wellformed, TypeOK, agentVars, rowVars, envVars
  <1>3. row # None
    BY NoneAssumption
  <1>4. uploads'[k] = row /\ \A e \in UploadKeys : e # k => uploads'[e] = uploads[e]
    BY DEF Wellformed, TypeOK
  <1>5. TablesOK'
    BY <1>3, <1>4 DEF TablesOK, Wellformed
  <1>6. Grows
    BY <1>3, <1>4 DEF Grows
  <1>7. QED
    BY <1>2, <1>3, <1>4, <1>5, <1>6

\* create_upload keeps the state well-formed.
LEMMA PlanUploadOK ==
    ASSUME Wellformed, NEW p \in Procs, PlanUpload(p)
    PROVE  Wellformed'
  <1> DEFINE k == req[p].key
             row == [state |-> "staging", content |-> req[p].src,
                     chunks |-> [n \in Ordinals |-> None], manifest |-> None]
  <1>1. /\ pc[p] = "plan"
        /\ UNCHANGED <<agentVars, rowVars, files, deletes, contentGen, minted, inc, envVars>>
    BY DEF PlanUpload
  <1>2. req[p].op = "upload" /\ k \in UploadKeys /\ req[p].src \in Contents
    BY <1>1, ProcHere DEF ProcAt
  <1>3. CASE /\ req[p].loaded = None /\ uploads[k] = None
             /\ uploads' = [uploads EXCEPT ![k] = row] /\ Move(p, "reload", req[p], None, 1)
    <2>1. row \in UploadRows /\ row.state = "staging"
      BY <1>2 DEF UploadRows, UploadStates
    <2>2. files[k] = None /\ minted' \in 0..MaxMints
      BY <1>1, <1>2, <1>3 DEF Wellformed, TablesOK, TypeOK
    <2> HIDE DEF row
    <2>3. DataOK' /\ TablesOK' /\ Grows /\ uploads'[k] # None
      BY <1>1, <1>2, <1>3, <2>1, <2>2, UploadRowOK
    <2>4. ProcAt("reload", req[p], None, 1, uploads', files', deletes')
      BY <1>2, <1>3, <2>3 DEF ProcAt
    <2>5. "reload" \in Labels
      BY DEF Labels
    <2>6. QED
      BY <1>3, <2>3, <2>4, <2>5, ProcHere, StepOK, PlaceTypes
  <1>4. CASE UNCHANGED uploads /\ req[p].loaded # None /\ Move(p, "admit", req[p], None, 1)
    <2>1. ProcAt("admit", req[p], None, 1, uploads, files, deletes)
      BY <1>1, <1>2, <1>4, ProcHere DEF ProcAt
    <2>2. "admit" \in Labels
      BY DEF Labels
    <2>3. UNCHANGED <<agentVars, rowVars, fileVars, inc, envVars>>
      BY <1>1, <1>4 DEF fileVars
    <2>4. QED
      BY <1>4, <2>1, <2>2, <2>3, ProcHere, LocalStepOK, PlaceTypes
  <1>5. CASE UNCHANGED uploads /\ Return(p)
    BY <1>1, <1>5, LocalReturnOK DEF fileVars
  <1>6. QED
    BY <1>3, <1>4, <1>5 DEF PlanUpload

\* Reading the planned upload back keeps the state well-formed.
LEMMA ReloadUploadOK ==
    ASSUME Wellformed, NEW p \in Procs, ReloadUpload(p)
    PROVE  Wellformed'
  <1> DEFINE u == uploads[req[p].key]
             r == [req[p] EXCEPT !.loaded = u]
  <1>1. /\ pc[p] = "reload" /\ Move(p, "admit", r, None, 1)
        /\ UNCHANGED <<agentVars, rowVars, fileVars, inc, envVars>>
    BY DEF ReloadUpload
  <1>2. req[p].op = "upload" /\ req[p].key \in UploadKeys /\ req[p].src \in Contents /\ u # None
    BY <1>1, ProcHere DEF ProcAt
  <1>3. u \in UploadRows \cup {None}
    BY <1>2 DEF Wellformed, TypeOK
  <1>4. r \in ReqRows
    BY <1>3, ProcHere, ReqUpdate
  <1>5. r.op = "upload" /\ r.key = req[p].key /\ r.src = req[p].src /\ r.loaded = u
    BY <1>2, ProcHere DEF ReqRows
  <1> HIDE DEF r
  <1>6. ProcAt("admit", r, None, 1, uploads, files, deletes)
    BY <1>2, <1>5 DEF ProcAt
  <1>7. "admit" \in Labels
    BY DEF Labels
  <1>8. QED
    BY <1>1, <1>4, <1>6, <1>7, LocalStepOK, PlaceTypes

\* require_admissible_capacity keeps the state well-formed.
LEMMA AdmitUploadOK ==
    ASSUME Wellformed, NEW p \in Procs, AdmitUpload(p)
    PROVE  Wellformed'
  <1> DEFINE r == [req[p] EXCEPT !.n = 1]
  <1>1. pc[p] = "admit" /\ UNCHANGED <<agentVars, rowVars, fileVars, inc, envVars>>
    BY DEF AdmitUpload
  <1>2. r \in ReqRows /\ SameCall(req[p], r)
    BY ProcHere, ReqUpdate, SameCallUpdate
  <1> HIDE DEF r
  <1>3. CASE Return(p)
    BY <1>1, <1>3, LocalReturnOK
  <1>4. CASE Move(p, "chunk", r, None, 1)
    <2>1. ProcAt("chunk", r, None, 1, uploads, files, deletes)
      BY <1>1, <1>2, ProcHere DEF ProcAt, SameCall
    <2>2. "chunk" \in Labels
      BY DEF Labels
    <2>3. QED
      BY <1>1, <1>2, <1>4, <2>1, <2>2, LocalStepOK, PlaceTypes
  <1>5. CASE Move(p, "advance", req[p], None, 1)
    <2>1. ProcAt("advance", req[p], None, 1, uploads, files, deletes)
      BY <1>1, ProcHere DEF ProcAt
    <2>2. "advance" \in Labels
      BY DEF Labels
    <2>3. QED
      BY <1>1, <1>5, <2>1, <2>2, ProcHere, LocalStepOK, PlaceTypes
  <1>6. QED
    BY <1>3, <1>4, <1>5 DEF AdmitUpload, r

\* A refusal for want of space keeps the state well-formed.
LEMMA AdmissionRefusedOK ==
    ASSUME Wellformed, NEW p \in Procs, AdmissionRefused(p)
    PROVE  Wellformed'
  <1>1. DataOK'
    BY HiccupData DEF AdmissionRefused, Wellformed
  <1>2. QED
    BY <1>1, QuietReturnOK DEF AdmissionRefused

\* advance_upload keeps the state well-formed.
LEMMA AdvanceUploadOK ==
    ASSUME Wellformed, NEW p \in Procs, AdvanceUpload(p)
    PROVE  Wellformed'
  <1> DEFINE k == req[p].key
             row == [uploads[k] EXCEPT !.state = "replicating_chunks"]
             r == [req[p] EXCEPT !.n = 1]
  <1>1. /\ pc[p] = "advance" /\ Move(p, "chunk", r, None, 1)
        /\ UNCHANGED <<agentVars, rowVars, files, deletes, contentGen, minted, inc, envVars>>
    BY DEF AdvanceUpload
  <1>2. req[p].op = "upload" /\ k \in UploadKeys /\ uploads[k] # None
    BY <1>1, ProcHere DEF ProcAt
  <1>3. uploads[k] \in UploadRows
    BY <1>2 DEF Wellformed, TypeOK
  <1>4. /\ row \in UploadRows /\ row.state = "replicating_chunks"
        /\ row.chunks = uploads[k].chunks
    BY <1>3 DEF UploadRows, UploadStates
  <1>5. uploads' = [uploads EXCEPT ![k] = row]
    BY <1>2 DEF AdvanceUpload, Wellformed, TypeOK
  <1>6. files[k] # None => \A n \in Ordinals : row.chunks[n] # None
    BY <1>2, <1>4 DEF Wellformed, TablesOK
  <1>7. minted' \in 0..MaxMints
    BY <1>1 DEF Wellformed, TypeOK
  <1>8. r \in ReqRows /\ SameCall(req[p], r)
    BY ProcHere, ReqUpdate, SameCallUpdate
  <1> HIDE DEF r, row
  <1>9. DataOK' /\ TablesOK' /\ Grows /\ uploads'[k] # None
    BY <1>1, <1>2, <1>4, <1>5, <1>6, <1>7, UploadRowOK
  <1>10. ProcAt("chunk", r, None, 1, uploads, files, deletes)
    BY <1>1, <1>8, ProcHere DEF ProcAt, SameCall
  <1>11. "chunk" \in Labels
    BY DEF Labels
  <1>12. QED
    BY <1>1, <1>8, <1>9, <1>10, <1>11, ProcAtGrows, StepOK, PlaceTypes

\* Reading a chunk and set_chunk_object keeps the state well-formed.
LEMMA ReadChunkOK ==
    ASSUME Wellformed, NEW p \in Procs, ReadChunk(p)
    PROVE  Wellformed'
  <1> DEFINE k == req[p].key
             n == req[p].n
             o == Chunk(k, n, req[p].src)
             row == [uploads[k] EXCEPT !.chunks = [@ EXCEPT ![n] = o]]
  <1>1. /\ pc[p] = "chunk" /\ n \in Ordinals
        /\ UNCHANGED <<agentVars, rowVars, files, deletes, contentGen, minted, inc, envVars>>
    BY DEF ReadChunk
  <1>2. /\ req[p].op = "upload" /\ k \in UploadKeys /\ req[p].src \in Contents
        /\ uploads[k] # None
    BY <1>1, ProcHere DEF ProcAt
  <1>3. o \in Chunks /\ o \in Objects /\ o # None
    BY <1>1, <1>2, ObjectTypes, NoneAssumption
  <1>4. uploads[k] \in UploadRows
    BY <1>2 DEF Wellformed, TypeOK
  <1>5. CASE uploads' = [uploads EXCEPT ![k].chunks[n] = o] /\ Move(p, "pend", req[p], o, 1)
    <2> HIDE DEF o
    <2>1. /\ row \in UploadRows
          /\ row.state = uploads[k].state /\ row.manifest = uploads[k].manifest
          /\ \A i \in Ordinals : uploads[k].chunks[i] # None => row.chunks[i] # None
      BY <1>1, <1>3, <1>4 DEF UploadRows
    <2>2. uploads' = [uploads EXCEPT ![k] = row]
      BY <1>2, <1>4, <1>5 DEF Wellformed, TypeOK, UploadRows
    <2>3. /\ files[k] # None => \A i \in Ordinals : row.chunks[i] # None
          /\ row.state \in {"replicating_manifest", "committed"} => row.manifest # None
      BY <1>2, <2>1 DEF Wellformed, TablesOK
    <2>4. minted' \in 0..MaxMints
      BY <1>1 DEF Wellformed, TypeOK
    <2> HIDE DEF row
    <2>5. DataOK' /\ TablesOK' /\ Grows
      BY <1>1, <1>2, <2>1, <2>2, <2>3, <2>4, UploadRowOK
    <2>6. ProcAt("pend", req[p], o, 1, uploads, files, deletes)
      BY <1>1, <1>3, ProcHere DEF ProcAt
    <2>7. "pend" \in Labels
      BY DEF Labels
    <2>8. QED
      BY <1>3, <1>5, <2>5, <2>6, <2>7, ProcHere, ProcAtGrows, StepOK, PlaceTypes
  <1>6. CASE Return(p) /\ UNCHANGED uploads
    BY <1>1, <1>6, LocalReturnOK DEF fileVars
  <1>7. QED
    BY <1>5, <1>6 DEF ReadChunk

\* The end of the chunk loop keeps the state well-formed.
LEMMA ChunksDoneOK ==
    ASSUME Wellformed, NEW p \in Procs, ChunksDone(p)
    PROVE  Wellformed'
  <1>1. pc[p] = "chunk" /\ UNCHANGED <<agentVars, rowVars, fileVars, inc, envVars>>
    BY DEF ChunksDone
  <1>2. CASE Return(p)
    BY <1>1, <1>2, LocalReturnOK
  <1>3. CASE Move(p, "manifest", req[p], None, 1)
    <2>1. ProcAt("manifest", req[p], None, 1, uploads, files, deletes)
      BY <1>1, ProcHere DEF ProcAt
    <2>2. "manifest" \in Labels
      BY DEF Labels
    <2>3. QED
      BY <1>1, <1>3, <2>1, <2>2, ProcHere, LocalStepOK, PlaceTypes
  <1>4. QED
    BY <1>2, <1>3 DEF ChunksDone

\* set_manifest_plan keeps the state well-formed.
LEMMA PlanManifestOK ==
    ASSUME Wellformed, NEW p \in Procs, PlanManifest(p)
    PROVE  Wellformed'
  <1> DEFINE k == req[p].key
             m == Manifest(k, minted + 1)
             row == [uploads[k] EXCEPT !.state = "replicating_manifest", !.manifest = m]
             r(x) == [req[p] EXCEPT !.manifest = x]
  <1>1. /\ pc[p] = "manifest"
        /\ UNCHANGED <<agentVars, rowVars, files, deletes, contentGen, inc, envVars>>
    BY DEF PlanManifest
  <1>2. /\ req[p].op = "upload" /\ k \in UploadKeys /\ uploads[k] # None
        /\ req[p].loaded # None /\ req[p].src \in Contents
    BY <1>1, ProcHere DEF ProcAt
  <1>3. uploads[k] \in UploadRows /\ req[p].loaded \in UploadRows
    BY <1>2, ProcHere DEF Wellformed, TypeOK, ReqRows
  <1>4. ASSUME NEW x \in Manifests PROVE r(x) \in ReqRows /\ x \in Objects
    BY ProcHere, ReqUpdate, ObjectTypes
  <1>5. ASSUME NEW x \in Manifests
        PROVE  ProcAt("pend", r(x), x, 1, uploads, files, deletes)
    <2>1. /\ r(x).op = "upload" /\ r(x).key = k /\ r(x).src = req[p].src
          /\ r(x).loaded = req[p].loaded
      BY <1>2, ProcHere DEF ReqRows
    <2>2. x \in Objects
      BY ObjectTypes
    <2> HIDE DEF r
    <2>3. QED
      BY <1>2, <2>1, <2>2 DEF ProcAt
  <1>6. "pend" \in Labels
    BY DEF Labels
  <1> HIDE DEF r
  <1>7. CASE /\ req[p].loaded.manifest # None /\ UNCHANGED <<uploads, minted>>
             /\ Move(p, "pend", r(req[p].loaded.manifest), req[p].loaded.manifest, 1)
    <2>1. req[p].loaded.manifest \in Manifests
      BY <1>3, <1>7 DEF UploadRows
    <2>2. UNCHANGED <<agentVars, rowVars, fileVars, inc, envVars>>
      BY <1>1, <1>7 DEF fileVars
    <2>3. QED
      BY <1>4, <1>5, <1>6, <1>7, <2>1, <2>2, LocalStepOK, PlaceTypes
  <1>8. CASE /\ minted < MaxMints /\ minted' = minted + 1
             /\ uploads' = [uploads EXCEPT ![k].state = "replicating_manifest", ![k].manifest = m]
             /\ Move(p, "pend", r(m), m, 1)
    <2>1. minted + 1 \in 1..MaxMints /\ minted' \in 0..MaxMints
      BY <1>8, ConstantsAssumption DEF Wellformed, TypeOK
    <2>2. m \in Manifests /\ m # None
      BY <1>2, <2>1, ObjectTypes, NoneAssumption
    <2> HIDE DEF m
    <2>3. /\ row \in UploadRows /\ row.manifest = m /\ row.chunks = uploads[k].chunks
      BY <1>3, <2>2 DEF UploadRows, UploadStates
    <2>4. uploads' = [uploads EXCEPT ![k] = row]
      BY <1>2, <1>3, <1>8 DEF Wellformed, TypeOK, UploadRows
    <2>5. files[k] # None => \A i \in Ordinals : row.chunks[i] # None
      BY <1>2, <2>3 DEF Wellformed, TablesOK
    <2> HIDE DEF row
    <2>6. DataOK' /\ TablesOK' /\ Grows
      BY <1>1, <1>2, <2>1, <2>2, <2>3, <2>4, <2>5, UploadRowOK
    <2>7. QED
      BY <1>4, <1>5, <1>6, <1>8, <2>2, <2>6, ProcAtGrows, StepOK, PlaceTypes
  <1>9. CASE Return(p) /\ UNCHANGED <<uploads, minted>>
    BY <1>1, <1>9, LocalReturnOK DEF fileVars
  <1>10. QED
    BY <1>7, <1>8, <1>9 DEF PlanManifest, r

PlacementRows == [state : {"none", "pending", "confirmed"}, inc : Volumes \cup {0}]

\* A function of functions changed at one place.
LEMMA UpdateTwo ==
    ASSUME NEW S, NEW T, NEW V, NEW f \in [S -> [T -> V]], NEW s \in S, NEW t \in T, NEW v \in V
    PROVE  /\ [f EXCEPT ![s][t] = v] \in [S -> [T -> V]]
           /\ [f EXCEPT ![s][t] = v][s][t] = v
           /\ \A x \in S, y \in T : x # s \/ y # t => [f EXCEPT ![s][t] = v][x][y] = f[x][y]
  <1> DEFINE g == [f[s] EXCEPT ![t] = v]
             h == [f EXCEPT ![s] = g]
  <1>1. g \in [T -> V] /\ g[t] = v /\ \A y \in T : y # t => g[y] = f[s][y]
    OBVIOUS
  <1> HIDE DEF g
  <1>2. h \in [S -> [T -> V]] /\ h[s] = g /\ \A x \in S : x # s => h[x] = f[x]
    BY <1>1
  <1>3. [f EXCEPT ![s][t] = v] = h
    BY DEF g
  <1> HIDE DEF h
  <1>4. QED
    BY <1>1, <1>2, <1>3

\* A transaction on one placement row, and a change of one copy on the volume
\* that is mounted.
Records(o, a, row) == placements' = [placements EXCEPT ![o][a] = row]
Writes(a, o, v) == stored' = [stored EXCEPT ![a][vol[a]][o] = v]

\* A placement row set to a legal row.
LEMMA PlacementUpdate ==
    ASSUME TypeOK, NEW o \in Objects, NEW a \in Agents, NEW row \in PlacementRows,
           Records(o, a, row)
    PROVE  /\ placements' \in [Objects -> [Agents -> PlacementRows]]
           /\ placements'[o][a] = row
           /\ \A x \in Objects, b \in Agents :
                x # o \/ b # a => placements'[x][b] = placements[x][b]
  <1>1. placements \in [Objects -> [Agents -> PlacementRows]]
    BY DEF TypeOK, PlacementRows
  <1>2. QED
    BY <1>1, UpdateTwo DEF Records

\* A copy set to a legal state.
LEMMA StoredUpdate ==
    ASSUME TypeOK, NEW a \in Agents, NEW o \in Objects, NEW v \in {"none", "valid", "corrupt"},
           Writes(a, o, v)
    PROVE  /\ stored' \in [Agents -> [Volumes -> [Objects -> {"none", "valid", "corrupt"}]]]
           /\ stored'[a][vol[a]][o] = v
           /\ \A b \in Agents, i \in Volumes, x \in Objects :
                b # a \/ i # vol[a] \/ x # o => stored'[b][i][x] = stored[b][i][x]
  <1> DEFINE V == {"none", "valid", "corrupt"}
             g == [stored[a][vol[a]] EXCEPT ![o] = v]
  <1>1. vol[a] \in Volumes /\ stored \in [Agents -> [Volumes -> [Objects -> V]]]
    BY DEF TypeOK
  <1>2. g \in [Objects -> V] /\ g[o] = v /\ \A x \in Objects : x # o => g[x] = stored[a][vol[a]][x]
    BY <1>1
  <1>3. stored' = [stored EXCEPT ![a][vol[a]] = g]
    BY DEF Writes
  <1> HIDE DEF g, V
  <1>4. /\ stored' \in [Agents -> [Volumes -> [Objects -> V]]] /\ stored'[a][vol[a]] = g
        /\ \A b \in Agents, i \in Volumes : b # a \/ i # vol[a] => stored'[b][i] = stored[b][i]
    BY <1>1, <1>2, <1>3, UpdateTwo
  <1>5. QED
    BY <1>2, <1>4 DEF V

\* placement_confirmed keeps the state well-formed.
LEMMA PendPlacementOK ==
    ASSUME Wellformed, NEW p \in Procs, PendPlacement(p)
    PROVE  Wellformed'
  <1> DEFINE o == obj[p]
             a == at[p]
             r == [req[p] EXCEPT !.confirmed = LiveConfirmed(o, a)]
  <1>1. pc[p] = "pend" /\ a \in Agents /\ UNCHANGED <<agentVars, rowVars, fileVars, inc, envVars>>
    BY DEF PendPlacement
  <1>2. o \in Objects
    BY <1>1, ProcHere DEF ProcAt
  <1>3. CASE Move(p, "pend", req[p], o, NextAgent(a))
    <2>1. ProcAt("pend", req[p], o, NextAgent(a), uploads, files, deletes)
      BY <1>1, <1>2, ProcHere DEF ProcAt
    <2>2. "pend" \in Labels
      BY DEF Labels
    <2>3. QED
      BY <1>1, <1>2, <1>3, <2>1, <2>2, ProcHere, LocalStepOK, PlaceTypes
  <1>4. CASE \E l \in {"ensure", "put"} : Move(p, l, r, o, a)
    <2>1. PICK l \in {"ensure", "put"} : Move(p, l, r, o, a)
      BY <1>4
    <2>2. r \in ReqRows /\ SameCall(req[p], r)
      BY ProcHere, ReqUpdate, SameCallUpdate DEF LiveConfirmed
    <2> HIDE DEF r
    <2>3. ProcAt(l, r, o, a, uploads, files, deletes)
      BY <1>1, <1>2, <2>2, ProcHere DEF ProcAt, SameCall
    <2>4. l \in Labels
      BY DEF Labels
    <2>5. QED
      BY <1>1, <1>2, <2>1, <2>2, <2>3, <2>4, LocalStepOK, PlaceTypes
  <1>5. QED
    BY <1>3, <1>4 DEF PendPlacement

\* ensure_pending_placement keeps the state well-formed.
LEMMA EnsurePlacementOK ==
    ASSUME Wellformed, NEW p \in Procs, EnsurePlacement(p)
    PROVE  Wellformed'
  <1> DEFINE o == obj[p]
             a == at[p]
             i == inc[p][a]
             row == IF placements[o][a].inc = i THEN placements[o][a]
                    ELSE [state |-> "pending", inc |-> i]
  <1>1. /\ pc[p] = "ensure" /\ Move(p, "put", req[p], o, a)
        /\ UNCHANGED <<agentVars, active, superseded, fileVars, inc, envVars>>
    BY DEF EnsurePlacement
  <1>2. o \in Objects /\ a \in Agents
    BY <1>1, ProcHere DEF ProcAt
  <1>3. row \in PlacementRows
    BY <1>2 DEF Wellformed, TypeOK, PlacementRows
  <1>4. Records(o, a, row)
    BY DEF EnsurePlacement, EnsurePending, Records
  <1> HIDE DEF row
  <1>5. placements' \in [Objects -> [Agents -> PlacementRows]]
    BY <1>2, <1>3, <1>4, PlacementUpdate DEF Wellformed
  <1>6. DataOK'
    BY <1>1, <1>5 DEF DataOK, Wellformed, TypeOK, PlacementRows, agentVars, fileVars, envVars
  <1>7. ProcAt("put", req[p], o, a, uploads, files, deletes)
    BY <1>1, <1>2, ProcHere DEF ProcAt
  <1>8. "put" \in Labels
    BY DEF Labels
  <1>9. QED
    BY <1>1, <1>2, <1>6, <1>7, <1>8, ProcHere, QuietStepOK, PlaceTypes

\* A copy written to a volume.
LEMMA PutData ==
    ASSUME TypeOK, NEW a \in Agents, NEW o \in Objects, UNCHANGED <<vol, rowVars, fileVars, inc>>,
           stored' = stored \/ Writes(a, o, "valid"),
           faults' \in 0..MaxFaults, hiccups' \in 0..MaxHiccups,
           UNCHANGED <<lost, lostSince, lostAfter>>
    PROVE  DataOK'
  <1>1. stored' \in [Agents -> [Volumes -> [Objects -> {"none", "valid", "corrupt"}]]]
    <2>1. CASE stored' = stored
      BY <2>1 DEF TypeOK
    <2>2. CASE Writes(a, o, "valid")
      BY <2>2, StoredUpdate
    <2>3. QED
      BY <2>1, <2>2
  <1>2. QED
    BY <1>1 DEF TypeOK, DataOK, rowVars, fileVars

\* A PUT that an agent acknowledged keeps the state well-formed.
LEMMA PutObjectOK ==
    ASSUME Wellformed, NEW p \in Procs, PutObject(p)
    PROVE  Wellformed'
  <1> DEFINE o == obj[p]
             a == at[p]
  <1>1. /\ pc[p] = "put" /\ UNCHANGED <<vol, rowVars, fileVars, inc, envVars>>
        /\ stored' = [stored EXCEPT ![a][vol[a]][o] = "valid"]
    BY DEF PutObject
  <1>2. a \in Agents /\ o \in Objects
    BY <1>1, ProcHere DEF ProcAt
  <1>3. DataOK'
    BY <1>1, <1>2, PutData DEF Wellformed, TypeOK, envVars, Writes
  <1>4. CASE Move(p, "pend", req[p], o, NextAgent(a))
    <2>1. ProcAt("pend", req[p], o, NextAgent(a), uploads, files, deletes)
      BY <1>1, <1>2, ProcHere DEF ProcAt
    <2>2. "pend" \in Labels
      BY DEF Labels
    <2>3. QED
      BY <1>1, <1>2, <1>3, <1>4, <2>1, <2>2, ProcHere, QuietStepOK, PlaceTypes
  <1>5. CASE Move(p, "confirm", req[p], o, a)
    <2>1. ProcAt("confirm", req[p], o, a, uploads, files, deletes)
      BY <1>1, <1>2, ProcHere DEF ProcAt
    <2>2. "confirm" \in Labels
      BY DEF Labels
    <2>3. QED
      BY <1>1, <1>2, <1>3, <1>5, <2>1, <2>2, ProcHere, QuietStepOK, PlaceTypes
  <1>6. QED
    BY <1>4, <1>5 DEF PutObject

\* A PUT that failed keeps the state well-formed.
LEMMA PutFailedOK ==
    ASSUME Wellformed, NEW p \in Procs, PutFailed(p)
    PROVE  Wellformed'
  <1> DEFINE o == obj[p]
             a == at[p]
  <1>1. /\ pc[p] = "put" /\ UNCHANGED <<vol, rowVars, fileVars, inc>> /\ Hiccup
        /\ stored' \in {stored, [stored EXCEPT ![a][vol[a]][o] = "valid"]}
        /\ Move(p, "pend", req[p], o, NextAgent(a))
    BY DEF PutFailed
  <1>2. a \in Agents /\ o \in Objects
    BY <1>1, ProcHere DEF ProcAt
  <1>3. hiccups' \in 0..MaxHiccups /\ faults' \in 0..MaxFaults
    BY <1>1, ConstantsAssumption DEF Hiccup, Wellformed, TypeOK
  <1>4. DataOK'
    BY <1>1, <1>2, <1>3, PutData DEF Wellformed, Hiccup, Writes
  <1>5. ProcAt("pend", req[p], o, NextAgent(a), uploads, files, deletes)
    BY <1>1, <1>2, ProcHere DEF ProcAt
  <1>6. "pend" \in Labels
    BY DEF Labels
  <1>7. QED
    BY <1>1, <1>2, <1>4, <1>5, <1>6, ProcHere, QuietStepOK, PlaceTypes

\* confirm_placement keeps the state well-formed.
LEMMA ConfirmPlacementOK ==
    ASSUME Wellformed, NEW p \in Procs, ConfirmPlacement(p)
    PROVE  Wellformed'
  <1> DEFINE o == obj[p]
             a == at[p]
  <1>1. /\ pc[p] = "confirm" /\ Move(p, "pend", req[p], o, NextAgent(a))
        /\ placements' = [placements EXCEPT ![o][a].state = "confirmed"]
        /\ UNCHANGED <<agentVars, active, superseded, fileVars, inc, envVars>>
    BY DEF ConfirmPlacement
  <1>2. a \in Agents /\ o \in Objects
    BY <1>1, ProcHere DEF ProcAt
  <1>3. placements' \in [Objects -> [Agents -> PlacementRows]]
    <2> DEFINE row == [placements[o][a] EXCEPT !.state = "confirmed"]
    <2>1. row \in PlacementRows
      <3>1. placements[o][a] \in PlacementRows
        BY <1>2 DEF Wellformed, TypeOK, PlacementRows
      <3>2. QED
        BY <3>1 DEF PlacementRows
    <2>2. Records(o, a, row)
      BY <1>1 DEF Records
    <2> HIDE DEF row
    <2>3. QED
      BY <1>2, <2>1, <2>2, PlacementUpdate DEF Wellformed
  <1>4. DataOK'
    BY <1>1, <1>3 DEF DataOK, Wellformed, TypeOK, PlacementRows, agentVars, fileVars, envVars
  <1>5. ProcAt("pend", req[p], o, NextAgent(a), uploads, files, deletes)
    BY <1>1, <1>2, ProcHere DEF ProcAt
  <1>6. "pend" \in Labels
    BY DEF Labels
  <1>7. QED
    BY <1>1, <1>2, <1>4, <1>5, <1>6, ProcHere, QuietStepOK, PlaceTypes

\* The replica floor at the end of replicate keeps the state well-formed.
LEMMA ReplicateDoneOK ==
    ASSUME Wellformed, NEW p \in Procs, ReplicateDone(p)
    PROVE  Wellformed'
  <1> DEFINE o == obj[p]
             r(n) == [req[p] EXCEPT !.n = n]
  <1>1. pc[p] = "pend" /\ UNCHANGED <<agentVars, rowVars, fileVars, inc, envVars>>
    BY DEF ReplicateDone
  <1>2. ASSUME NEW n \in Nat PROVE r(n) \in ReqRows /\ SameCall(req[p], r(n)) /\ r(n).n = n
    BY ProcHere, ReqUpdate, SameCallUpdate
  <1>3. req[p].n + 1 \in Nat /\ 0 \in Nat
    BY ProcHere DEF ReqRows
  <1> HIDE DEF r
  <1>4. CASE Return(p)
    BY <1>1, <1>4, LocalReturnOK
  <1>5. CASE req[p].manifest = None /\ Move(p, "chunk", r(req[p].n + 1), None, 1)
    <2>1. req[p].op = "upload"
      BY <1>1, <1>5, ProcHere, NoneAssumption, ObjectTypes DEF ProcAt, ReqRows
    <2>2. ProcAt("chunk", r(req[p].n + 1), None, 1, uploads, files, deletes)
      BY <1>1, <1>2, <1>3, <2>1, ProcHere DEF ProcAt, SameCall
    <2>3. "chunk" \in Labels
      BY DEF Labels
    <2>4. QED
      BY <1>1, <1>2, <1>3, <1>5, <2>2, <2>3, LocalStepOK, PlaceTypes
  <1>6. CASE Move(p, "check", r(0), o, 1)
    <2>1. ProcAt("check", r(0), o, 1, uploads, files, deletes)
      BY <1>1, <1>2, <1>3, ProcHere DEF ProcAt, SameCall
    <2>2. "check" \in Labels
      BY DEF Labels
    <2>3. QED
      BY <1>1, <1>2, <1>3, <1>6, <2>1, <2>2, ProcHere, LocalStepOK, PlaceTypes
  <1>7. QED
    BY <1>4, <1>5, <1>6 DEF ReplicateDone, r

\* Agent ids are natural numbers, so a nonempty set of them has a least one.
LEMMA LeastType ==
    ASSUME NEW S \in SUBSET Agents, S # {}
    PROVE  Least(S) \in S
  <1> DEFINE R == {ss \in Nat \X Nat : ss[1] < ss[2]}
  <1>1. S \subseteq Nat
    BY ConstantsAssumption DEF Agents
  <1>2. IsWellFoundedOn(R, Nat)
    BY NatLessThanWellFounded, Zenon DEF OpToRel
  <1>3. \A x, y \in Nat : y < x => <<y, x>> \in R
    OBVIOUS
  <1> HIDE DEF R
  <1>4. PICK x \in S : \A y \in S : ~ (<<y, x>> \in R)
    BY <1>1, <1>2, WFMin
  <1>5. ASSUME NEW y \in S PROVE x <= y
    <2>1. x \in Nat /\ y \in Nat /\ ~ (y < x)
      BY <1>1, <1>3, <1>4
    <2>2. QED
      BY <2>1
  <1>6. QED
    BY <1>5 DEF Least

\* The start of require_live_domains keeps the state well-formed.
LEMMA BeginCheckOK ==
    ASSUME Wellformed, NEW p \in Procs, BeginCheck(p)
    PROVE  Wellformed'
  <1> DEFINE k == req[p].key
             n == req[p].n
             o == IF n = 0 THEN req[p].manifest ELSE uploads[k].chunks[n]
             r == [req[p] EXCEPT !.remaining = ConfirmedAgents(o), !.live = {}]
  <1>1. /\ pc[p] = "check"
        /\ lostSince' = IF n = 0 THEN [lostSince EXCEPT ![p] = {}] ELSE lostSince
        /\ UNCHANGED <<agentVars, rowVars, fileVars, inc, faults, hiccups, lost, lostAfter>>
    BY DEF BeginCheck
  <1>2. lostSince' \in [Procs -> SUBSET Agents]
    BY <1>1 DEF Wellformed, TypeOK
  <1>3. DataOK'
    BY <1>1, <1>2 DEF Wellformed, TypeOK, DataOK, agentVars, rowVars, fileVars
  <1>4. CASE Return(p)
    BY <1>1, <1>3, <1>4, QuietReturnOK
  <1>5. CASE o # None /\ Move(p, "get", r, o, 1)
    <2>1. o \in Objects
      <3>1. CASE n = 0
        BY <1>5, <3>1, ProcHere, ObjectTypes DEF ReqRows
      <3>2. CASE n # 0
        <4>1. n \in Ordinals /\ k \in UploadKeys /\ uploads[k] # None
          BY <1>1, <3>2, ProcHere DEF ProcAt
        <4>2. uploads[k] \in UploadRows
          BY <4>1 DEF Wellformed, TypeOK
        <4>3. uploads[k].chunks[n] \in Chunks \cup {None}
          BY <4>1, <4>2 DEF UploadRows
        <4>4. QED
          BY <1>5, <3>2, <4>3, ObjectTypes
      <3>3. QED
        BY <3>1, <3>2
    <2>2. r \in ReqRows /\ SameCall(req[p], r) /\ r.n = n
      <3> DEFINE R == ConfirmedAgents(o)
      <3>1. R \in SUBSET Agents
        BY DEF ConfirmedAgents
      <3>2. req[p] \in ReqRows
        BY ProcHere
      <3> HIDE DEF R, o
      <3>3. r \in ReqRows
        BY <3>1, <3>2, ReqUpdate DEF R
      <3>4. QED
        BY <3>2, <3>3 DEF ReqRows, SameCall
    <2> HIDE DEF r, o
    <2>3. ProcAt("get", r, o, 1, uploads, files, deletes)
      BY <1>1, <2>1, <2>2, ProcHere DEF ProcAt, SameCall
    <2>4. "get" \in Labels
      BY DEF Labels
    <2>5. QED
      BY <1>1, <1>3, <1>5, <2>1, <2>2, <2>3, <2>4, QuietStepOK, PlaceTypes
  <1>6. QED
    BY <1>4, <1>5 DEF BeginCheck

\* A GET of the live check keeps the state well-formed.
LEMMA GetReplicaOK ==
    ASSUME Wellformed, NEW p \in Procs, GetReplica(p)
    PROVE  Wellformed'
  <1> DEFINE a == Least(req[p].remaining)
             R == req[p].remaining \ {a}
             S == IF Valid(a, obj[p]) THEN req[p].live \cup {Domain[a]} ELSE req[p].live
             r == [req[p] EXCEPT !.remaining = R, !.live = S]
  <1>1. /\ pc[p] = "get" /\ req[p].remaining # {} /\ Move(p, "get", r, obj[p], 1)
        /\ UNCHANGED <<agentVars, rowVars, fileVars, inc, envVars>>
    BY DEF GetReplica
  <1>2. req[p].remaining \in SUBSET Agents /\ req[p].live \in SUBSET {Domain[b] : b \in Agents}
    BY ProcHere DEF ReqRows
  <1>3. a \in Agents
    BY <1>1, <1>2, LeastType
  <1> HIDE DEF a
  <1>4. R \in SUBSET Agents /\ S \in SUBSET {Domain[b] : b \in Agents}
    BY <1>2, <1>3
  <1> HIDE DEF R, S
  <1>5. r \in ReqRows /\ SameCall(req[p], r) /\ r.n = req[p].n
    <2>1. req[p] \in ReqRows
      BY ProcHere
    <2>2. r \in ReqRows
      BY <1>4, <2>1, ReqUpdate
    <2>3. QED
      BY <2>1, <2>2 DEF ReqRows, SameCall
  <1> HIDE DEF r
  <1>6. ProcAt("get", r, obj[p], 1, uploads, files, deletes)
    BY <1>1, <1>5, ProcHere DEF ProcAt, SameCall
  <1>7. "get" \in Labels
    BY DEF Labels
  <1>8. QED
    BY <1>1, <1>5, <1>6, <1>7, ProcHere, LocalStepOK, PlaceTypes

\* A GET that failed keeps the state well-formed.
LEMMA GetFailedOK ==
    ASSUME Wellformed, NEW p \in Procs, GetFailed(p)
    PROVE  Wellformed'
  <1> DEFINE R == req[p].remaining \ {Least(req[p].remaining)}
             r == [req[p] EXCEPT !.remaining = R]
  <1>1. /\ pc[p] = "get" /\ Move(p, "get", r, obj[p], 1) /\ Hiccup
        /\ UNCHANGED <<agentVars, rowVars, fileVars, inc>>
    BY DEF GetFailed
  <1>2. R \in SUBSET Agents
    BY ProcHere DEF ReqRows
  <1> HIDE DEF R
  <1>3. r \in ReqRows /\ SameCall(req[p], r) /\ r.n = req[p].n
    BY <1>2, ProcHere, ReqUpdate, SameCallUpdate
  <1> HIDE DEF r
  <1>4. DataOK'
    BY <1>1, HiccupData DEF Wellformed
  <1>5. ProcAt("get", r, obj[p], 1, uploads, files, deletes)
    BY <1>1, <1>3, ProcHere DEF ProcAt, SameCall
  <1>6. "get" \in Labels
    BY DEF Labels
  <1>7. QED
    BY <1>1, <1>3, <1>4, <1>5, <1>6, ProcHere, QuietStepOK, PlaceTypes

\* The end of require_live_domains keeps the state well-formed.
LEMMA CheckDoneOK ==
    ASSUME Wellformed, NEW p \in Procs, CheckDone(p)
    PROVE  Wellformed'
  <1> DEFINE n == req[p].n
             r == [req[p] EXCEPT !.n = n + 1]
  <1>1. pc[p] = "get" /\ UNCHANGED <<agentVars, rowVars, fileVars, inc, envVars>>
    BY DEF CheckDone
  <1>2. n + 1 \in Nat
    BY ProcHere DEF ReqRows
  <1>3. r \in ReqRows /\ SameCall(req[p], r) /\ r.n = n + 1
    BY <1>2, ProcHere, ReqUpdate, SameCallUpdate
  <1> HIDE DEF r
  <1>4. CASE Return(p)
    BY <1>1, <1>4, LocalReturnOK
  <1>5. CASE Move(p, "commit", req[p], None, 1)
    <2>1. ProcAt("commit", req[p], None, 1, uploads, files, deletes)
      BY <1>1, ProcHere DEF ProcAt
    <2>2. "commit" \in Labels
      BY DEF Labels
    <2>3. QED
      BY <1>1, <1>5, <2>1, <2>2, ProcHere, LocalStepOK, PlaceTypes
  <1>6. CASE n # LastToCheck(p) /\ Move(p, "check", r, None, 1)
    <2>1. (n = 0 \/ (req[p].op = "upload" /\ n \in Ordinals)) /\ req[p].op \in {"upload", "delete"}
      BY <1>1, ProcHere DEF ProcAt, ReqRows
    <2>2. req[p].op = "upload"
      BY <1>6, <2>1 DEF LastToCheck
    <2>3. n + 1 \in Ordinals
      BY <1>6, <2>1, <2>2, ConstantsAssumption DEF LastToCheck, Ordinals
    <2>4. ProcAt("check", r, None, 1, uploads, files, deletes)
      BY <1>1, <1>3, <2>2, <2>3, ProcHere DEF ProcAt, SameCall
    <2>5. "check" \in Labels
      BY DEF Labels
    <2>6. QED
      BY <1>1, <1>3, <1>6, <2>4, <2>5, LocalStepOK, PlaceTypes
  <1>7. QED
    BY <1>4, <1>5, <1>6 DEF CheckDone, r

\* commit_file keeps the state well-formed.
LEMMA CommitFileOK ==
    ASSUME Wellformed, NEW p \in Procs, CommitFile(p)
    PROVE  Wellformed'
  <1> DEFINE k == req[p].key
             file == [gen |-> 1, state |-> "committed",
                      manifest |-> uploads[k].manifest, marker |-> None]
             row == [uploads[k] EXCEPT !.state = "committed"]
  <1>1. /\ pc[p] = "commit" /\ req[p].op = "upload" /\ Return(p)
        /\ UNCHANGED <<agentVars, rowVars, deletes, minted, inc, faults, hiccups, lost, lostSince>>
    BY DEF CommitFile
  <1>2. k \in UploadKeys /\ uploads[k] # None
    BY <1>1, ProcHere DEF ProcAt
  <1>3. CASE /\ CanCommitFile(k) /\ files' = [files EXCEPT ![k] = file]
             /\ uploads' = [uploads EXCEPT ![k].state = "committed"]
             /\ contentGen' = contentGen + 1
             /\ lostAfter' = [lostAfter EXCEPT ![k] = lostSince[p]]
    <2>1. uploads[k] \in UploadRows /\ uploads[k].manifest # None
      BY <1>2, <1>3 DEF CanCommitFile, Wellformed, TypeOK, TablesOK
    <2>2. file \in FileRows /\ file # None /\ file.state = "committed"
      BY <2>1, NoneAssumption DEF UploadRows, FileRows
    <2>3. /\ row \in UploadRows /\ row # None /\ row.manifest = uploads[k].manifest
          /\ row.chunks = uploads[k].chunks
      BY <2>1, NoneAssumption DEF UploadRows, UploadStates
    <2>4. uploads' = [uploads EXCEPT ![k] = row]
      BY <1>2, <1>3 DEF Wellformed, TypeOK
    <2> HIDE DEF file, row
    <2>5. /\ uploads' \in [UploadKeys -> UploadRows \cup {None}]
          /\ files' \in [UploadKeys -> FileRows \cup {None}]
          /\ lostAfter' \in [UploadKeys -> SUBSET Agents] /\ contentGen' \in Nat
      BY <1>2, <1>3, <2>2, <2>3, <2>4 DEF Wellformed, TypeOK
    <2>6. DataOK'
      BY <1>1, <2>5 DEF Wellformed, TypeOK, DataOK, agentVars, rowVars
    <2>7. /\ uploads'[k] = row /\ \A e \in UploadKeys : e # k => uploads'[e] = uploads[e]
          /\ files'[k] = file /\ \A e \in UploadKeys : e # k => files'[e] = files[e]
      BY <1>2, <1>3, <2>4 DEF Wellformed, TypeOK
    <2>8. Grows
      BY <1>1, <2>2, <2>3, <2>7 DEF Grows
    <2>9. \A n \in Ordinals : row.chunks[n] # None
      BY <1>3, <2>3 DEF CanCommitFile
    <2>10. \A d \in DeleteKeys : deletes[d] # None => deletes[d].file \in UploadKeys
      BY DEF Wellformed, TypeOK, DeleteRows
    <2>11. TablesOK'
      BY <1>1, <2>1, <2>2, <2>3, <2>7, <2>9, <2>10 DEF Wellformed, TablesOK
    <2>12. QED
      BY <1>1, <2>6, <2>8, <2>11, ReturnOK
  <1>4. CASE UNCHANGED <<files, uploads, contentGen, lostAfter>>
    BY <1>1, <1>4, LocalReturnOK DEF fileVars, envVars
  <1>5. QED
    BY <1>3, <1>4 DEF CommitFile

\* commit_delete keeps the state well-formed.
LEMMA CommitDeleteOK ==
    ASSUME Wellformed, NEW p \in Procs, CommitDelete(p)
    PROVE  Wellformed'
  <1> DEFINE d == req[p].key
             f == deletes[d].file
             file == [files[f] EXCEPT !.gen = deletes[d].gen, !.state = "deleted",
                                      !.marker = deletes[d].marker]
             row == [deletes[d] EXCEPT !.state = "committed"]
  <1>1. /\ pc[p] = "commit" /\ req[p].op = "delete" /\ Return(p)
        /\ UNCHANGED <<agentVars, rowVars, uploads, minted, inc, faults, hiccups, lost, lostSince>>
    BY DEF CommitDelete
  <1>2. d \in DeleteKeys /\ deletes[d] # None
    BY <1>1, ProcHere DEF ProcAt
  <1>3. deletes[d] \in DeleteRows
    BY <1>2 DEF Wellformed, TypeOK
  <1>4. f \in UploadKeys /\ deletes[d].marker \in Markers /\ deletes[d].gen \in Nat
    BY <1>3 DEF DeleteRows
  <1>5. files[f] # None /\ files[f] \in FileRows
    BY <1>2, <1>4 DEF Wellformed, TablesOK, TypeOK
  <1>6. CASE /\ files' = [files EXCEPT ![f].gen = deletes[d].gen, ![f].state = "deleted",
                                       ![f].marker = deletes[d].marker]
             /\ deletes' = [deletes EXCEPT ![d].state = "committed"]
             /\ contentGen' = contentGen + 1
             /\ lostAfter' = [lostAfter EXCEPT ![f] = lostSince[p]]
    <2>1. file \in FileRows /\ file # None /\ file.marker # None
      BY <1>4, <1>5, NoneAssumption, ObjectTypes DEF FileRows
    <2>2. row \in DeleteRows /\ row # None /\ row.file = f
      BY <1>3, NoneAssumption DEF DeleteRows
    <2>3. deletes' = [deletes EXCEPT ![d] = row] /\ files' = [files EXCEPT ![f] = file]
      BY <1>2, <1>4, <1>5, <1>6 DEF Wellformed, TypeOK, FileRows
    <2> HIDE DEF file, row
    <2>4. /\ deletes' \in [DeleteKeys -> DeleteRows \cup {None}]
          /\ files' \in [UploadKeys -> FileRows \cup {None}]
          /\ lostAfter' \in [UploadKeys -> SUBSET Agents] /\ contentGen' \in Nat
      <3>1. deletes' \in [DeleteKeys -> DeleteRows \cup {None}]
        BY <1>2, <2>2, <2>3 DEF Wellformed, TypeOK
      <3>2. files' \in [UploadKeys -> FileRows \cup {None}]
        BY <1>4, <2>1, <2>3 DEF Wellformed, TypeOK
      <3>3. lostAfter' \in [UploadKeys -> SUBSET Agents] /\ contentGen' \in Nat
        <4>1. /\ lostAfter \in [UploadKeys -> SUBSET Agents] /\ lostSince[p] \in SUBSET Agents /\ contentGen \in Nat
          BY DEF Wellformed, TypeOK
        <4>2. contentGen' = contentGen + 1 /\ lostAfter' = [lostAfter EXCEPT ![f] = lostSince[p]]
          BY <1>6
        <4>3. contentGen' \in Nat
          BY <4>1, <4>2
        <4> HIDE DEF d, f
        <4>4. lostAfter' \in [UploadKeys -> SUBSET Agents]
          BY <4>1, <4>2
        <4>5. QED
          BY <4>3, <4>4
      <3>4. QED
        BY <3>1, <3>2, <3>3
    <2>5. DataOK'
      BY <1>1, <2>4 DEF Wellformed, TypeOK, DataOK, agentVars, rowVars
    <2>6. /\ deletes'[d] = row /\ \A e \in DeleteKeys : e # d => deletes'[e] = deletes[e]
          /\ files'[f] = file /\ \A e \in UploadKeys : e # f => files'[e] = files[e]
      BY <1>2, <1>4, <2>3 DEF Wellformed, TypeOK
    <2>7. \A e \in DeleteKeys : deletes[e] # None => deletes[e].file \in UploadKeys
      BY DEF Wellformed, TypeOK, DeleteRows
    <2>8. TablesOK'
      BY <1>1, <1>4, <1>5, <2>1, <2>2, <2>6, <2>7 DEF Wellformed, TablesOK
    <2>9. Grows
      BY <1>1, <2>1, <2>2, <2>6 DEF Grows
    <2>10. QED
      BY <1>1, <2>5, <2>8, <2>9, ReturnOK
  <1>7. CASE UNCHANGED <<files, deletes, contentGen, lostAfter>>
    BY <1>1, <1>7, LocalReturnOK DEF fileVars, envVars
  <1>8. QED
    BY <1>6, <1>7 DEF CommitDelete

\* The death of a process keeps the state well-formed.
LEMMA CrashOK ==
    ASSUME Wellformed, NEW p \in Procs, Crash(p)
    PROVE  Wellformed'
  <1>1. Return(p) /\ Hiccup /\ UNCHANGED <<agentVars, rowVars, fileVars>>
    BY DEF Crash
  <1>2. inc' \in [Procs -> [Agents -> Volumes \cup {0}]]
    BY DEF Crash, Wellformed, TypeOK
  <1>3. hiccups' \in 0..MaxHiccups
    BY <1>1, ConstantsAssumption DEF Hiccup, Wellformed, TypeOK
  <1>4. DataOK'
    BY <1>1, <1>2, <1>3 DEF Hiccup, Wellformed, TypeOK, DataOK, agentVars, rowVars, fileVars
  <1>5. QED
    BY <1>1, <1>4, QuietReturnOK

\* An edit of the source keeps the state well-formed.
LEMMA EditSourceOK ==
    ASSUME Wellformed, NEW p \in Procs, NEW c \in Contents, EditSource(p, c)
    PROVE  Wellformed'
  <1> DEFINE r == [req[p] EXCEPT !.src = c]
  <1>1. /\ req[p].op = "upload" /\ req' = [req EXCEPT ![p] = r]
        /\ UNCHANGED <<agentVars, rowVars, fileVars, pc, obj, at, inc, envVars>>
    BY DEF EditSource
  <1>2. /\ r \in ReqRows /\ r.op = req[p].op /\ r.key = req[p].key /\ r.file = req[p].file
        /\ r.src = c /\ r.loaded = req[p].loaded /\ r.manifest = req[p].manifest /\ r.n = req[p].n
    BY ProcHere DEF ReqRows
  <1> HIDE DEF r
  <1>3. ProcAt(pc[p], r, obj[p], at[p], uploads, files, deletes)
    BY <1>1, <1>2, ProcHere DEF ProcAt
  <1>4. Move(p, pc[p], r, obj[p], at[p])
    BY <1>1 DEF Move, Wellformed, TypeOK
  <1>5. UNCHANGED <<agentVars, rowVars, fileVars, inc, envVars>>
    BY <1>1
  <1>6. QED
    BY <1>2, <1>3, <1>4, <1>5, ProcHere, LocalStepOK

\* A loss at an agent leaves the tables and the processes alone.
LEMMA LossOK ==
    ASSUME Wellformed, NEW a \in Agents, Lose(a), UNCHANGED <<rowVars, fileVars, procVars>>,
           vol' \in [Agents -> Volumes],
           stored' \in [Agents -> [Volumes -> [Objects -> {"none", "valid", "corrupt"}]]]
    PROVE  Wellformed'
  <1>1. faults' \in 0..MaxFaults /\ hiccups' \in 0..MaxHiccups
    BY ConstantsAssumption DEF Lose, Wellformed, TypeOK
  <1>2. lost' \in SUBSET Agents
    BY DEF Lose, Wellformed, TypeOK
  <1>3. lostSince' \in [Procs -> SUBSET Agents]
    BY DEF Lose, Wellformed, TypeOK
  <1>4. lostAfter' \in [UploadKeys -> SUBSET Agents]
    BY DEF Lose, Wellformed, TypeOK
  <1>5. TypeOK'
    BY <1>1, <1>2, <1>3, <1>4 DEF Wellformed, TypeOK, rowVars, fileVars, procVars
  <1>6. TablesOK' /\ \A p \in Procs : ProcOK(p)'
    BY DEF Wellformed, TablesOK, ProcOK, fileVars, procVars
  <1>7. QED
    BY <1>5, <1>6 DEF Wellformed

\* A change of volume keeps the state well-formed.
LEMMA MountVolumeOK ==
    ASSUME Wellformed, NEW a \in Agents, NEW i \in Volumes, MountVolume(a, i)
    PROVE  Wellformed'
  <1>1. vol' \in [Agents -> Volumes] /\ stored' = stored
    BY DEF MountVolume, Wellformed, TypeOK
  <1>2. QED
    BY <1>1, LossOK DEF MountVolume, Wellformed, TypeOK

\* The corruption of a copy keeps the state well-formed.
LEMMA CorruptCopyOK ==
    ASSUME Wellformed, NEW a \in Agents, NEW o \in Objects, CorruptCopy(a, o)
    PROVE  Wellformed'
  <1>1. stored' \in [Agents -> [Volumes -> [Objects -> {"none", "valid", "corrupt"}]]]
    <2>1. Writes(a, o, "corrupt")
      BY DEF CorruptCopy, Writes
    <2>2. QED
      BY <2>1, StoredUpdate DEF Wellformed
  <1>2. vol' \in [Agents -> Volumes]
    BY DEF CorruptCopy, Wellformed, TypeOK
  <1>3. QED
    BY <1>1, <1>2, LossOK DEF CorruptCopy

\* The initial tables are empty and every process is idle.
LEMMA WellformedInit == Init => Wellformed
  <1> SUFFICES ASSUME Init PROVE Wellformed
    OBVIOUS
  <1>1. 1 \in Volumes /\ 0 \in 0..MaxMints /\ 0 \in 0..MaxFaults /\ 0 \in 0..MaxHiccups
    BY ConstantsAssumption DEF Volumes
  <1>2. NoRow \in [state : {"none", "pending", "confirmed"}, inc : Volumes \cup {0}]
    BY DEF NoRow
  <1>3. "idle" \in Labels
    BY DEF Labels
  <1>4. TypeOK
    BY <1>1, <1>2, <1>3, NoReqType, PlaceTypes DEF Init, TypeOK
  <1>5. TablesOK
    BY DEF Init, TablesOK
  <1>6. \A p \in Procs : ProcOK(p)
    BY DEF Init, ProcOK, ProcAt, NoReq
  <1>7. QED
    BY <1>4, <1>5, <1>6 DEF Wellformed

\* Every step keeps the state well-formed.
LEMMA WellformedStep == Wellformed /\ [Next]_vars => Wellformed'
  <1> SUFFICES ASSUME Wellformed, [Next]_vars PROVE Wellformed'
    OBVIOUS
  <1>1. ASSUME NEW p \in Procs, Step(p) PROVE Wellformed'
    BY <1>1, CreateDeleteOK, VerifyAgentOK, VerifyRefusedOK, VerifyDoneOK, PlanUploadOK,
       ReloadUploadOK, AdmitUploadOK, AdvanceUploadOK, ReadChunkOK, ChunksDoneOK, PlanManifestOK,
       PendPlacementOK, EnsurePlacementOK, PutObjectOK, ConfirmPlacementOK, ReplicateDoneOK, BeginCheckOK,
       GetReplicaOK, CheckDoneOK, CommitFileOK, CommitDeleteOK DEF Step
  <1>2. ASSUME NEW p \in Procs, Request(p) PROVE Wellformed'
    BY <1>2, StartUploadOK, StartDeleteOK DEF Request
  <1>3. ASSUME NEW p \in Procs, Trouble(p) PROVE Wellformed'
    BY <1>3, VerifyUnreachableOK, AdmissionRefusedOK, PutFailedOK, GetFailedOK, CrashOK,
       EditSourceOK DEF Trouble
  <1>4. CASE Loss
    BY <1>4, MountVolumeOK, CorruptCopyOK DEF Loss
  <1>5. CASE UNCHANGED vars
    BY <1>5 DEF vars, agentVars, rowVars, fileVars, procVars, envVars, Wellformed, TypeOK,
       TablesOK, ProcOK
  <1>6. QED
    BY <1>1, <1>2, <1>3, <1>4, <1>5 DEF Next

\* Whatever the processes, crashes and losses do, the tables, the volumes and
\* the memory of every portal process stay of their types.
THEOREM TypeCorrect == Spec => []TypeOK
  <1>1. Wellformed => TypeOK
    BY DEF Wellformed
  <1>2. QED
    BY <1>1, WellformedInit, WellformedStep, PTL DEF Spec

-----------------------------------------------------------------------------
(* Durable is inductive. *)

\* What a file rests on are objects.
LEMMA CurrentObjectsType ==
    ASSUME Wellformed, NEW f \in UploadKeys
    PROVE  CurrentObjects(f) \subseteq Objects
  <1>1. CASE files[f] = None
    BY <1>1 DEF CurrentObjects
  <1>2. CASE files[f] # None
    <2>1. files[f] \in FileRows /\ uploads[f] \in UploadRows
      BY <1>2 DEF Wellformed, TypeOK, TablesOK
    <2>2. files[f].manifest \in Objects /\ (files[f].state = "deleted" => files[f].marker \in Objects)
      BY <1>2, <2>1, ObjectTypes DEF FileRows, Wellformed, TablesOK
    <2>3. \A n \in Ordinals : uploads[f].chunks[n] \in Objects
      BY <1>2, <2>1, ObjectTypes DEF UploadRows, Wellformed, TablesOK
    <2>4. QED
      BY <1>2, <2>2, <2>3 DEF CurrentObjects
  <1>3. QED
    BY <1>1, <1>2

\* What a step does not take back at the agents that have lost nothing.
Keeps ==
    /\ lost \subseteq lost'
    /\ \A a \in Agents \ lost', o \in Objects :
         /\ placements[o][a].inc = 1 => placements'[o][a].inc = 1
         /\ placements[o][a].state = "confirmed" => placements'[o][a].state = "confirmed"
         /\ stored[a][1][o] = "valid" => stored'[a][1][o] = "valid"

\* No process becomes one that records a row, writes or confirms.
Unpromising ==
    \A q \in Procs : pc'[q] \in {"ensure", "put", "confirm"} =>
        pc'[q] = pc[q] /\ obj'[q] = obj[q] /\ at'[q] = at[q] /\ inc'[q] = inc[q]

\* What files rest on does not change.
SameFiles == \A f \in UploadKeys : CurrentObjects(f)' \subseteq CurrentObjects(f)

\* A process that moves to a step outside replicate promises nothing.
LEMMA MoveUnpromising ==
    ASSUME Wellformed, NEW p \in Procs, NEW l, NEW r, NEW o, NEW a, Move(p, l, r, o, a),
           l \notin {"ensure", "put", "confirm"}, \A q \in Procs : q # p => inc'[q] = inc[q]
    PROVE  Unpromising
  BY DEF Wellformed, TypeOK, Move, Unpromising

\* A process whose call ends promises nothing.
LEMMA ReturnUnpromising ==
    ASSUME Wellformed, NEW p \in Procs, Return(p), \A q \in Procs : q # p => inc'[q] = inc[q]
    PROVE  Unpromising
  BY MoveUnpromising DEF Return

\* An object stays backed as long as its rows and its copies are kept.
LEMMA BackedKept ==
    ASSUME Keeps, NEW o \in Objects, Backed(o)
    PROVE  Backed(o)'
  BY DEF Keeps, Backed

\* The files stay backed when each of their objects does.
LEMMA FilesBacked ==
    ASSUME Wellformed, Durable, Keeps, SameFiles
    PROVE  \A f \in UploadKeys : \A o \in CurrentObjects(f)' : Backed(o)'
  BY BackedKept, CurrentObjectsType DEF SameFiles, Durable

\* What one process promises survives a step that keeps rows and copies.
LEMMA PromiseKept ==
    ASSUME Wellformed, Durable, Keeps, NEW q \in Procs,
           pc'[q] = pc[q], obj'[q] = obj[q], at'[q] = at[q], inc'[q] = inc[q]
    PROVE  Promised(q)'
  <1>1. pc[q] = "ensure" => inc[q][at[q]] # 0
    BY DEF Durable, Promised
  <1>2. ASSUME pc[q] \in {"put", "confirm"}, at[q] \notin lost'
        PROVE  /\ placements'[obj[q]][at[q]].inc = 1
               /\ pc[q] = "confirm" => stored'[at[q]][1][obj[q]] = "valid"
    <2>1. at[q] \in Agents \ lost' /\ obj[q] \in Objects
      BY <1>2, ProcHere DEF ProcAt
    <2>2. at[q] \notin lost
      BY <1>2 DEF Keeps
    <2>3. /\ placements[obj[q]][at[q]].inc = 1
          /\ pc[q] = "confirm" => stored[at[q]][1][obj[q]] = "valid"
      BY <1>2, <2>2 DEF Durable, Promised
    <2>4. QED
      BY <2>1, <2>3 DEF Keeps
  <1>3. QED
    BY <1>1, <1>2 DEF Promised

\* The same for all processes at once.
LEMMA PromisesKept ==
    ASSUME Wellformed, Durable, Keeps, Unpromising
    PROVE  \A q \in Procs : Promised(q)'
  <1> SUFFICES ASSUME NEW q \in Procs PROVE Promised(q)'
    OBVIOUS
  <1>1. CASE pc'[q] \in {"ensure", "put", "confirm"}
    BY <1>1, PromiseKept DEF Unpromising
  <1>2. CASE pc'[q] \notin {"ensure", "put", "confirm"}
    BY <1>2 DEF Promised
  <1>3. QED
    BY <1>1, <1>2

\* A step that neither writes, nor confirms, nor loses anything.
LEMMA LocalDurable ==
    ASSUME Wellformed, Durable, Unpromising, SameFiles, UNCHANGED <<agentVars, rowVars, lost>>,
           \A q \in Procs, a \in Agents : inc'[q][a] \in {0, inc[q][a]}
    PROVE  Durable'
  <1>1. Keeps
    BY DEF Keeps, agentVars, rowVars
  <1>2. ASSUME NEW a \in Agents \ lost' PROVE Steady(a)' /\ \A o \in Objects : Kept(o, a)'
    BY DEF Durable, Steady, Kept, agentVars, rowVars
  <1>3. QED
    BY <1>1, <1>2, FilesBacked, PromisesKept DEF Durable

\* A step that touches neither rows, copies nor files is harmless.
LEMMA QuietDurable ==
    ASSUME Wellformed, Durable, Unpromising, UNCHANGED <<agentVars, rowVars, fileVars, lost, inc>>
    PROVE  Durable'
  <1>1. SameFiles
    BY DEF SameFiles, CurrentObjects, fileVars
  <1>2. QED
    BY <1>1, LocalDurable

\* The steps that only look: nothing they change is part of Durable.
Looks(p) ==
    \/ VerifyRefused(p) \/ VerifyUnreachable(p) \/ VerifyDone(p) \/ ReloadUpload(p)
    \/ AdmitUpload(p) \/ AdmissionRefused(p) \/ ChunksDone(p) \/ ReplicateDone(p)
    \/ BeginCheck(p) \/ GetReplica(p) \/ GetFailed(p) \/ CheckDone(p) \/ Request(p)

\* A step that only looks makes no promise.
LEMMA LooksUnpromising ==
    ASSUME Wellformed, NEW p \in Procs, Looks(p)
    PROVE  Unpromising
  <1>1. CASE VerifyRefused(p) \/ VerifyUnreachable(p) \/ VerifyDone(p) \/ ReloadUpload(p)
    BY <1>1, MoveUnpromising, ReturnUnpromising
       DEF VerifyRefused, VerifyUnreachable, VerifyDone, ReloadUpload
  <1>2. CASE AdmitUpload(p) \/ AdmissionRefused(p) \/ ChunksDone(p) \/ ReplicateDone(p)
    BY <1>2, MoveUnpromising, ReturnUnpromising
       DEF AdmitUpload, AdmissionRefused, ChunksDone, ReplicateDone
  <1>3. CASE BeginCheck(p) \/ GetReplica(p) \/ GetFailed(p) \/ CheckDone(p)
    BY <1>3, MoveUnpromising, ReturnUnpromising
       DEF BeginCheck, GetReplica, GetFailed, CheckDone
  <1>4. CASE \E k \in UploadKeys, c \in Contents : StartUpload(p, k, c)
    BY <1>4, MoveUnpromising DEF StartUpload
  <1>5. CASE \E d \in DeleteKeys, f \in UploadKeys : StartDelete(p, d, f)
    <2>1. \E l \in {"verify", "mark"} : \E r : Move(p, l, r, None, 1)
      BY <1>5, Zenon DEF StartDelete
    <2>2. UNCHANGED inc
      BY <1>5 DEF StartDelete
    <2>3. QED
      BY <2>1, <2>2, MoveUnpromising
  <1>6. QED
    BY <1>1, <1>2, <1>3, <1>4, <1>5 DEF Looks, Request

\* A step that only looks is harmless.
LEMMA LooksDurable ==
    ASSUME Wellformed, Durable, NEW p \in Procs, Looks(p)
    PROVE  Durable'
  <1>1. UNCHANGED <<agentVars, rowVars, fileVars, lost, inc>>
    BY DEF Looks, Request, StartUpload, StartDelete, VerifyRefused, VerifyUnreachable, VerifyDone,
       ReloadUpload, AdmitUpload, AdmissionRefused, ChunksDone, ReplicateDone, BeginCheck,
       GetReplica, GetFailed, CheckDone, Hiccup, envVars
  <1>2. QED
    BY <1>1, LooksUnpromising, QuietDurable

\* create_delete_operation keeps what files rest on.
LEMMA CreateDeleteDurable ==
    ASSUME Wellformed, Durable, NEW p \in Procs, CreateDelete(p)
    PROVE  Durable'
  <1>1. Unpromising
    <2>1. Return(p) \/ \E r : Move(p, "verify", r, None, 1)
      BY Zenon DEF CreateDelete
    <2>2. UNCHANGED inc
      BY DEF CreateDelete
    <2>3. QED
      BY <2>1, <2>2, MoveUnpromising, ReturnUnpromising
  <1>2. UNCHANGED <<agentVars, rowVars, uploads, files, lost, inc>>
    BY DEF CreateDelete, envVars
  <1>3. SameFiles
    BY <1>2 DEF SameFiles, CurrentObjects
  <1>4. QED
    BY <1>1, <1>2, <1>3, LocalDurable

\* A step on an upload row that keeps its chunks once the file exists.
LEMMA UploadDurable ==
    ASSUME Wellformed, Durable, Unpromising, UNCHANGED <<agentVars, rowVars, files, lost, inc>>,
           \A f \in UploadKeys : files[f] # None =>
               \A n \in Ordinals : uploads'[f].chunks[n] = uploads[f].chunks[n]
    PROVE  Durable'
  <1>1. SameFiles
    BY DEF SameFiles, CurrentObjects
  <1>2. QED
    BY <1>1, LocalDurable

\* create_upload keeps what files rest on.
LEMMA PlanUploadDurable ==
    ASSUME Wellformed, Durable, NEW p \in Procs, PlanUpload(p)
    PROVE  Durable'
  <1>1. Unpromising /\ UNCHANGED <<agentVars, rowVars, files, lost, inc>>
    BY MoveUnpromising, ReturnUnpromising DEF PlanUpload, envVars
  <1>2. ASSUME NEW f \in UploadKeys, files[f] # None PROVE uploads'[f] = uploads[f]
    <2>1. uploads[f] # None
      BY <1>2 DEF Wellformed, TablesOK
    <2>2. QED
      BY <2>1 DEF PlanUpload, Wellformed, TypeOK
  <1>3. QED
    BY <1>1, <1>2, UploadDurable

\* advance_upload keeps what files rest on.
LEMMA AdvanceUploadDurable ==
    ASSUME Wellformed, Durable, NEW p \in Procs, AdvanceUpload(p)
    PROVE  Durable'
  <1>1. Unpromising /\ UNCHANGED <<agentVars, rowVars, files, lost, inc>>
    BY MoveUnpromising DEF AdvanceUpload, envVars
  <1>2. ASSUME NEW f \in UploadKeys, files[f] # None PROVE uploads'[f].chunks = uploads[f].chunks
    <2>1. uploads[f] \in UploadRows
      BY <1>2 DEF Wellformed, TablesOK, TypeOK
    <2>2. QED
      BY <2>1 DEF AdvanceUpload, Wellformed, TypeOK, UploadRows
  <1>3. QED
    BY <1>1, <1>2, UploadDurable

\* set_manifest_plan keeps what files rest on.
LEMMA PlanManifestDurable ==
    ASSUME Wellformed, Durable, NEW p \in Procs, PlanManifest(p)
    PROVE  Durable'
  <1>1. Unpromising
    BY MoveUnpromising, ReturnUnpromising DEF PlanManifest
  <1>2. UNCHANGED <<agentVars, rowVars, files, lost, inc>>
    BY DEF PlanManifest, envVars
  <1>3. ASSUME NEW f \in UploadKeys, files[f] # None PROVE uploads'[f].chunks = uploads[f].chunks
    <2>1. uploads[f] \in UploadRows
      BY <1>3 DEF Wellformed, TablesOK, TypeOK
    <2> DEFINE k == req[p].key
               m == Manifest(k, minted + 1)
    <2>2. \/ UNCHANGED uploads
          \/ uploads' = [uploads EXCEPT ![k].state = "replicating_manifest", ![k].manifest = m]
      BY DEF PlanManifest
    <2> HIDE DEF m
    <2>3. CASE f # k \/ UNCHANGED uploads
      BY <2>2, <2>3 DEF Wellformed, TypeOK
    <2>4. CASE f = k /\ uploads' = [uploads EXCEPT ![k].state = "replicating_manifest", ![k].manifest = m]
      <3> DEFINE row == [uploads[k] EXCEPT !.state = "replicating_manifest", !.manifest = m]
      <3>1. row.chunks = uploads[k].chunks
        BY <2>1, <2>4 DEF UploadRows
      <3>2. uploads' = [uploads EXCEPT ![k] = row]
        BY <2>1, <2>4 DEF Wellformed, TypeOK, UploadRows
      <3> HIDE DEF row
      <3>3. QED
        BY <2>4, <3>1, <3>2 DEF Wellformed, TypeOK
    <2>5. QED
      BY <2>2, <2>3, <2>4
  <1>4. QED
    BY <1>1, <1>2, <1>3, UploadDurable

\* Reading a chunk and set_chunk_object keeps what files rest on.
LEMMA ReadChunkDurable ==
    ASSUME Wellformed, Durable, NEW p \in Procs, ReadChunk(p)
    PROVE  Durable'
  <1> DEFINE k == req[p].key
             n == req[p].n
             o == Chunk(k, n, req[p].src)
  <1>1. Unpromising
    BY MoveUnpromising, ReturnUnpromising DEF ReadChunk
  <1>2. UNCHANGED <<agentVars, rowVars, files, lost, inc>>
    BY DEF ReadChunk, envVars
  <1>3. ASSUME NEW f \in UploadKeys, files[f] # None, NEW i \in Ordinals
        PROVE  uploads'[f].chunks[i] = uploads[f].chunks[i]
    <2>1. uploads[f] \in UploadRows /\ uploads[f].chunks[i] # None
      BY <1>3 DEF Wellformed, TablesOK, TypeOK
    <2> HIDE DEF o
    <2>2. CASE /\ uploads' = [uploads EXCEPT ![k].chunks[n] = o]
               /\ uploads[k].chunks[n] \in {None, o}
      <3>1. CASE f = k /\ i = n
        BY <2>1, <2>2, <3>1 DEF Wellformed, TypeOK, UploadRows
      <3>2. CASE f # k \/ i # n
        BY <2>1, <2>2, <3>2 DEF Wellformed, TypeOK, UploadRows
      <3>3. QED
        BY <3>1, <3>2
    <2>3. CASE UNCHANGED uploads
      BY <2>3
    <2>4. QED
      BY <2>2, <2>3 DEF ReadChunk, o
  <1>4. QED
    BY <1>1, <1>2, <1>3, UploadDurable

\* The death of a process keeps what files rest on.
LEMMA CrashDurable ==
    ASSUME Wellformed, Durable, NEW p \in Procs, Crash(p)
    PROVE  Durable'
  <1>1. Unpromising /\ UNCHANGED <<agentVars, rowVars, fileVars, lost>>
    BY ReturnUnpromising DEF Crash, Hiccup
  <1>2. SameFiles
    BY <1>1 DEF SameFiles, CurrentObjects, fileVars
  <1>3. \A q \in Procs, a \in Agents : inc'[q][a] \in {0, inc[q][a]}
    BY DEF Crash, Wellformed, TypeOK
  <1>4. QED
    BY <1>1, <1>2, <1>3, LocalDurable

\* An edit of the source keeps what files rest on.
LEMMA EditSourceDurable ==
    ASSUME Wellformed, Durable, NEW p \in Procs, NEW c \in Contents, EditSource(p, c)
    PROVE  Durable'
  <1>1. Unpromising
    BY DEF Unpromising, EditSource
  <1>2. QED
    BY <1>1, QuietDurable DEF EditSource, envVars

\* An agent that lost nothing reports its first volume, which is the one the
\* database knows already, if it knows any.
LEMMA VerifyAgentDurable ==
    ASSUME Wellformed, Durable, NEW p \in Procs, VerifyAgent(p)
    PROVE  Durable'
  <1> DEFINE a == at[p]
  <1>1. /\ a \in Agents /\ active' = [active EXCEPT ![a] = vol[a]]
        /\ inc' = [inc EXCEPT ![p][a] = vol[a]]
        /\ UNCHANGED <<agentVars, placements, fileVars, lost>>
    BY DEF VerifyAgent, ObserveIncarnation, envVars
  <1>2. Unpromising
    BY MoveUnpromising DEF VerifyAgent
  <1>3. Keeps
    BY <1>1 DEF Keeps, agentVars
  <1>4. SameFiles
    BY <1>1 DEF SameFiles, CurrentObjects, fileVars
  <1>5. ASSUME NEW b \in Agents \ lost' PROVE Steady(b)' /\ \A o \in Objects : Kept(o, b)'
    <2>1. Steady(b) /\ \A o \in Objects : Kept(o, b)
      BY <1>1 DEF Durable
    <2>2. vol'[b] = 1 /\ active'[b] \in {active[b], 1}
      BY <1>1, <2>1 DEF Steady, agentVars, Wellformed, TypeOK
    <2>3. active'[b] \in {0, 1} /\ (active[b] # 0 => active'[b] = active[b])
      BY <2>1, <2>2 DEF Steady
    <2>4. ASSUME NEW q \in Procs PROVE inc'[q][b] \in {0, active'[b]}
      <3>1. CASE q = p /\ b = a
        BY <1>1, <2>1, <3>1 DEF Steady, Wellformed, TypeOK
      <3>2. CASE q # p \/ b # a
        <4>1. inc'[q][b] = inc[q][b]
          BY <1>1, <3>2 DEF Wellformed, TypeOK
        <4>2. QED
          BY <2>1, <2>3, <4>1 DEF Steady
      <3>3. QED
        BY <3>1, <3>2
    <2>5. Steady(b)'
      BY <2>2, <2>3, <2>4 DEF Steady
    <2>6. \A o \in Objects : Kept(o, b)'
      BY <1>1, <2>1, <2>3 DEF Kept, agentVars
    <2>7. QED
      BY <2>5, <2>6
  <1>6. QED
    BY <1>2, <1>3, <1>4, <1>5, FilesBacked, PromisesKept DEF Durable

\* A process that finds its placement confirmed finds it on the volume that
\* is known; one that does not has verified the agent.
LEMMA PendPlacementDurable ==
    ASSUME Wellformed, Durable, NEW p \in Procs, PendPlacement(p)
    PROVE  Durable'
  <1> DEFINE o == obj[p]
             a == at[p]
  <1>1. /\ pc[p] = "pend" /\ a \in Agents
        /\ UNCHANGED <<agentVars, rowVars, fileVars, inc, lost>>
    BY DEF PendPlacement, envVars
  <1>2. o \in Objects
    BY <1>1, ProcHere DEF ProcAt
  <1>3. CASE Move(p, "pend", req[p], o, NextAgent(a))
    <2>1. Unpromising
      BY <1>1, <1>3, MoveUnpromising
    <2>2. QED
      BY <1>1, <2>1, QuietDurable
  <1>4. CASE /\ inc[p][a] # 0
             /\ \E r : Move(p, IF LiveConfirmed(o, a) THEN "put" ELSE "ensure", r, o, a)
    <2>1. Keeps
      BY <1>1 DEF Keeps, agentVars, rowVars
    <2>2. SameFiles
      BY <1>1 DEF SameFiles, CurrentObjects, fileVars
    <2>3. ASSUME NEW b \in Agents \ lost' PROVE Steady(b)' /\ \A x \in Objects : Kept(x, b)'
      BY <1>1 DEF Durable, Steady, Kept, agentVars, rowVars
    <2>4. ASSUME NEW q \in Procs PROVE Promised(q)'
      <3>1. CASE q = p
        <4>1. /\ pc'[p] = IF LiveConfirmed(o, a) THEN "put" ELSE "ensure"
              /\ obj'[p] = o /\ at'[p] = a
          BY <1>4 DEF Move, Wellformed, TypeOK
        <4>2. LiveConfirmed(o, a) /\ a \notin lost => placements[o][a].inc = 1
          BY <1>1, <1>2 DEF Durable, Kept, LiveConfirmed
        <4>3. QED
          BY <1>1, <1>4, <3>1, <4>1, <4>2 DEF Promised, rowVars
      <3>2. CASE q # p
        <4>1. pc'[q] = pc[q] /\ obj'[q] = obj[q] /\ at'[q] = at[q]
          BY <1>4, <3>2 DEF Move, Wellformed, TypeOK
        <4>2. QED
          BY <1>1, <2>1, <4>1, PromiseKept
      <3>3. QED
        BY <3>1, <3>2
    <2>5. QED
      BY <2>1, <2>2, <2>3, <2>4, FilesBacked DEF Durable
  <1>5. QED
    <2>1. \/ Move(p, "pend", req[p], o, NextAgent(a))
          \/ /\ inc[p][a] # 0
             /\ \E r : Move(p, IF LiveConfirmed(o, a) THEN "put" ELSE "ensure", r, o, a)
      BY Zenon DEF PendPlacement
    <2>2. QED
      BY <2>1, <1>3, <1>4

\* A row is only reset to the incarnation this process verified; at an agent
\* that lost nothing that is the one a confirmed row already has.
LEMMA EnsurePlacementDurable ==
    ASSUME Wellformed, Durable, NEW p \in Procs, EnsurePlacement(p)
    PROVE  Durable'
  <1> DEFINE o == obj[p]
             a == at[p]
             i == inc[p][a]
             row == IF placements[o][a].inc = i THEN placements[o][a]
                    ELSE [state |-> "pending", inc |-> i]
  <1>1. /\ pc[p] = "ensure" /\ Move(p, "put", req[p], o, a)
        /\ UNCHANGED <<agentVars, active, superseded, fileVars, inc, lost>>
    BY DEF EnsurePlacement, envVars
  <1>2. o \in Objects /\ a \in Agents
    BY <1>1, ProcHere DEF ProcAt
  <1>3. row \in PlacementRows
    BY <1>2 DEF Wellformed, TypeOK, PlacementRows
  <1>4. Records(o, a, row)
    BY DEF EnsurePlacement, EnsurePending, Records
  <1>5. ASSUME a \notin lost
        PROVE  /\ active[a] = 1 /\ i = 1
               /\ placements[o][a].state = "confirmed" => placements[o][a].inc = 1
    <2>1. Steady(a) /\ Kept(o, a) /\ i # 0
      BY <1>1, <1>2, <1>5 DEF Durable, Promised
    <2>2. QED
      BY <2>1 DEF Steady, Kept
  <1>6. ASSUME a \notin lost
        PROVE  /\ row.inc = 1
               /\ row.state = "confirmed" => row = placements[o][a]
               /\ placements[o][a].state = "confirmed" => row = placements[o][a]
    BY <1>5, <1>6
  <1> HIDE DEF row
  <1>7. /\ placements'[o][a] = row
        /\ \A x \in Objects, b \in Agents :
             x # o \/ b # a => placements'[x][b] = placements[x][b]
    BY <1>2, <1>3, <1>4, PlacementUpdate DEF Wellformed
  <1>8. Keeps
    BY <1>1, <1>6, <1>7 DEF Keeps, agentVars
  <1>9. SameFiles
    BY <1>1 DEF SameFiles, CurrentObjects, fileVars
  <1>10. ASSUME NEW b \in Agents \ lost' PROVE Steady(b)' /\ \A x \in Objects : Kept(x, b)'
    <2>1. Steady(b) /\ \A x \in Objects : Kept(x, b)
      BY <1>1 DEF Durable
    <2>2. Steady(b)'
      BY <1>1, <2>1 DEF Steady, agentVars
    <2>3. ASSUME NEW x \in Objects PROVE Kept(x, b)'
      <3>1. CASE x = o /\ b = a
        BY <1>1, <1>5, <1>6, <1>7, <2>1, <3>1 DEF Kept, agentVars
      <3>2. CASE x # o \/ b # a
        BY <1>1, <1>7, <2>1, <3>2 DEF Kept, agentVars
      <3>3. QED
        BY <3>1, <3>2
    <2>4. QED
      BY <2>2, <2>3
  <1>11. ASSUME NEW q \in Procs PROVE Promised(q)'
    <2>1. CASE q = p
      <3>1. pc'[p] = "put" /\ obj'[p] = o /\ at'[p] = a
        BY <1>1 DEF Move, Wellformed, TypeOK
      <3>2. QED
        BY <1>1, <1>6, <1>7, <2>1, <3>1 DEF Promised
    <2>2. CASE q # p
      <3>1. pc'[q] = pc[q] /\ obj'[q] = obj[q] /\ at'[q] = at[q]
        BY <1>1, <2>2 DEF Move, Wellformed, TypeOK
      <3>2. QED
        BY <1>1, <1>8, <3>1, PromiseKept
    <2>3. QED
      BY <2>1, <2>2
  <1>12. QED
    BY <1>8, <1>9, <1>10, <1>11, FilesBacked DEF Durable

\* Writes never take a copy away.
LEMMA PutDurable ==
    ASSUME Wellformed, Durable, NEW p \in Procs, pc[p] = "put",
           NEW a, a = at[p], NEW o, o = obj[p],
           UNCHANGED <<vol, rowVars, fileVars, inc, lost>>,
           stored' = stored \/ Writes(a, o, "valid"),
           \/ Move(p, "pend", req[p], o, NextAgent(a))
           \/ Move(p, "confirm", req[p], o, a) /\ Writes(a, o, "valid")
    PROVE  Durable'
  <1>1. a \in Agents /\ o \in Objects
    BY ProcHere DEF ProcAt
  <1>2. vol[a] \in Volumes /\ (a \notin lost => vol[a] = 1) /\ 1 \in Volumes
    BY <1>1, ConstantsAssumption DEF Durable, Steady, Wellformed, TypeOK, Volumes
  <1>3. \A b \in Agents, j \in Volumes, x \in Objects :
          stored[b][j][x] = "valid" => stored'[b][j][x] = "valid"
    <2>1. CASE stored' = stored
      BY <2>1
    <2>2. CASE Writes(a, o, "valid")
      <3>1. /\ stored'[a][vol[a]][o] = "valid"
            /\ \A b \in Agents, j \in Volumes, x \in Objects :
                 b # a \/ j # vol[a] \/ x # o => stored'[b][j][x] = stored[b][j][x]
        BY <1>1, <2>2, StoredUpdate DEF Wellformed
      <3>2. QED
        BY <3>1
    <2>3. QED
      BY <2>1, <2>2
  <1>4. Keeps
    BY <1>2, <1>3 DEF Keeps, rowVars
  <1>5. SameFiles
    BY DEF SameFiles, CurrentObjects, fileVars
  <1>6. ASSUME NEW b \in Agents \ lost' PROVE Steady(b)' /\ \A x \in Objects : Kept(x, b)'
    BY <1>2, <1>3 DEF Durable, Steady, Kept, rowVars
  <1>7. ASSUME NEW q \in Procs PROVE Promised(q)'
    <2>1. CASE q = p
      <3>1. CASE Move(p, "pend", req[p], o, NextAgent(a))
        BY <2>1, <3>1 DEF Move, Promised, Wellformed, TypeOK
      <3>2. CASE Move(p, "confirm", req[p], o, a) /\ Writes(a, o, "valid")
        <4>1. pc'[p] = "confirm" /\ obj'[p] = o /\ at'[p] = a
          BY <3>2 DEF Move, Wellformed, TypeOK
        <4>2. a \notin lost => placements[o][a].inc = 1
          BY DEF Durable, Promised
        <4>3. a \notin lost => stored'[a][1][o] = "valid"
          <5>1. stored'[a][vol[a]][o] = "valid"
            BY <1>1, <3>2, StoredUpdate DEF Wellformed
          <5>2. QED
            BY <1>2, <5>1
        <4>4. QED
          BY <2>1, <4>1, <4>2, <4>3 DEF Promised, rowVars
      <3>3. QED
        BY <3>1, <3>2
    <2>2. CASE q # p
      <3>1. pc'[q] = pc[q] /\ obj'[q] = obj[q] /\ at'[q] = at[q]
        BY <2>2 DEF Move, Wellformed, TypeOK
      <3>2. QED
        BY <1>4, <3>1, PromiseKept
    <2>3. QED
      BY <2>1, <2>2
  <1>8. QED
    BY <1>4, <1>5, <1>6, <1>7, FilesBacked DEF Durable

\* A PUT that an agent acknowledged keeps what files rest on.
LEMMA PutObjectDurable ==
    ASSUME Wellformed, Durable, NEW p \in Procs, PutObject(p)
    PROVE  Durable'
  BY PutDurable DEF PutObject, envVars, Writes

\* A PUT that failed keeps what files rest on.
LEMMA PutFailedDurable ==
    ASSUME Wellformed, Durable, NEW p \in Procs, PutFailed(p)
    PROVE  Durable'
  BY PutDurable DEF PutFailed, Hiccup, Writes

\* The row confirmed is the one promised, and the copy is behind it.
LEMMA ConfirmPlacementDurable ==
    ASSUME Wellformed, Durable, NEW p \in Procs, ConfirmPlacement(p)
    PROVE  Durable'
  <1> DEFINE o == obj[p]
             a == at[p]
             row == [placements[o][a] EXCEPT !.state = "confirmed"]
  <1>1. /\ pc[p] = "confirm" /\ Move(p, "pend", req[p], o, NextAgent(a))
        /\ placements' = [placements EXCEPT ![o][a].state = "confirmed"]
        /\ UNCHANGED <<agentVars, active, superseded, fileVars, inc, lost>>
    BY DEF ConfirmPlacement, envVars
  <1>2. a \in Agents /\ o \in Objects
    BY <1>1, ProcHere DEF ProcAt
  <1>3. placements[o][a] \in PlacementRows
    BY <1>2 DEF Wellformed, TypeOK, PlacementRows
  <1>4. row \in PlacementRows /\ row.inc = placements[o][a].inc /\ row.state = "confirmed"
    BY <1>3 DEF PlacementRows
  <1>5. Records(o, a, row)
    BY <1>1 DEF Records
  <1> HIDE DEF row
  <1>6. /\ placements'[o][a] = row
        /\ \A x \in Objects, b \in Agents :
             x # o \/ b # a => placements'[x][b] = placements[x][b]
    BY <1>2, <1>4, <1>5, PlacementUpdate DEF Wellformed
  <1>7. a \notin lost => placements[o][a].inc = 1 /\ stored[a][1][o] = "valid"
    BY <1>1 DEF Durable, Promised
  <1>8. Keeps
    BY <1>1, <1>4, <1>6 DEF Keeps, agentVars
  <1>9. SameFiles
    BY <1>1 DEF SameFiles, CurrentObjects, fileVars
  <1>10. ASSUME NEW b \in Agents \ lost' PROVE Steady(b)' /\ \A x \in Objects : Kept(x, b)'
    <2>1. Steady(b) /\ \A x \in Objects : Kept(x, b)
      BY <1>1 DEF Durable
    <2>2. Steady(b)'
      BY <1>1, <2>1 DEF Steady, agentVars
    <2>3. ASSUME NEW x \in Objects PROVE Kept(x, b)'
      <3>1. CASE x = o /\ b = a
        BY <1>1, <1>4, <1>6, <1>7, <2>1, <3>1 DEF Kept, agentVars
      <3>2. CASE x # o \/ b # a
        BY <1>1, <1>6, <2>1, <3>2 DEF Kept, agentVars
      <3>3. QED
        BY <3>1, <3>2
    <2>4. QED
      BY <2>2, <2>3
  <1>11. Unpromising
    BY <1>1, MoveUnpromising
  <1>12. QED
    BY <1>8, <1>9, <1>10, <1>11, FilesBacked, PromisesKept DEF Durable

\* Losses happen at agents that are counted as lost from then on.
LEMMA LossDurable ==
    ASSUME Wellformed, Durable, Loss
    PROVE  Durable'
  <1>1. PICK a \in Agents : Lose(a) /\ \/ \E i \in Volumes : MountVolume(a, i)
                                       \/ \E o \in Objects : CorruptCopy(a, o)
    BY DEF Loss, MountVolume, CorruptCopy
  <1>2. lost' = lost \cup {a} /\ UNCHANGED <<rowVars, fileVars, procVars>>
    BY <1>1 DEF Lose, MountVolume, CorruptCopy
  <1>3. /\ \A b \in Agents : b # a => vol'[b] = vol[b]
        /\ \A b \in Agents, j \in Volumes, o \in Objects :
             b # a => stored'[b][j][o] = stored[b][j][o]
    <2>1. CASE \E i \in Volumes : MountVolume(a, i)
      BY <2>1 DEF MountVolume, Wellformed, TypeOK
    <2>2. CASE \E o \in Objects : CorruptCopy(a, o)
      <3>1. PICK o \in Objects : CorruptCopy(a, o)
        BY <2>2
      <3>2. vol' = vol /\ Writes(a, o, "corrupt")
        BY <3>1 DEF CorruptCopy, Writes
      <3>3. \A b \in Agents, j \in Volumes, x \in Objects :
              b # a \/ j # vol[a] \/ x # o => stored'[b][j][x] = stored[b][j][x]
        BY <3>2, StoredUpdate DEF Wellformed
      <3>4. QED
        BY <3>2, <3>3
    <2>3. QED
      BY <1>1, <2>1, <2>2
  <1>4. 1 \in Volumes
    BY ConstantsAssumption DEF Volumes
  <1>5. Keeps
    BY <1>2, <1>3, <1>4 DEF Keeps, rowVars
  <1>6. SameFiles
    BY <1>2 DEF SameFiles, CurrentObjects, fileVars
  <1>7. ASSUME NEW b \in Agents \ lost' PROVE Steady(b)' /\ \A o \in Objects : Kept(o, b)'
    BY <1>2, <1>3, <1>4 DEF Durable, Steady, Kept, rowVars, procVars
  <1>8. Unpromising
    BY <1>2 DEF Unpromising, procVars
  <1>9. QED
    BY <1>5, <1>6, <1>7, <1>8, FilesBacked, PromisesKept DEF Durable

\* The floor a commit checks: two failure domains have confirmed the object.
LEMMA FloorBacks ==
    ASSUME NEW o, ReplicaFloor(o)
    PROVE  Backed(o)
  BY DEF ReplicaFloor, AtLeastTwo, ConfirmedAgents, LiveConfirmed, Backed

\* commit_file keeps what files rest on.
LEMMA CommitFileDurable ==
    ASSUME Wellformed, Durable, NEW p \in Procs, CommitFile(p)
    PROVE  Durable'
  <1> DEFINE k == req[p].key
             file == [gen |-> 1, state |-> "committed",
                      manifest |-> uploads[k].manifest, marker |-> None]
  <1>1. /\ pc[p] = "commit" /\ req[p].op = "upload" /\ Return(p)
        /\ UNCHANGED <<agentVars, rowVars, inc, lost>>
    BY DEF CommitFile
  <1>2. k \in UploadKeys /\ uploads[k] # None
    BY <1>1, ProcHere DEF ProcAt
  <1>3. Unpromising
    BY <1>1, ReturnUnpromising
  <1>4. Keeps
    BY <1>1 DEF Keeps, agentVars, rowVars
  <1>5. ASSUME NEW a \in Agents \ lost' PROVE Steady(a)' /\ \A o \in Objects : Kept(o, a)'
    BY <1>1 DEF Durable, Steady, Kept, agentVars, rowVars
  <1>6. ASSUME NEW f \in UploadKeys, NEW o \in CurrentObjects(f)' PROVE Backed(o)'
    <2>1. CASE UNCHANGED <<files, uploads>>
      <3>1. o \in CurrentObjects(f)
        BY <2>1 DEF CurrentObjects
      <3>2. QED
        BY <1>4, <3>1, CurrentObjectsType, BackedKept DEF Durable
    <2>2. CASE /\ CanCommitFile(k) /\ files' = [files EXCEPT ![k] = file]
               /\ uploads' = [uploads EXCEPT ![k].state = "committed"]
      <3>1. uploads[k] \in UploadRows
        BY <1>2 DEF Wellformed, TypeOK
      <3>2. \A e \in UploadKeys : uploads[e] \in UploadRows => uploads'[e].chunks = uploads[e].chunks
        BY <2>2 DEF Wellformed, TypeOK, UploadRows
      <3>3. CASE f # k
        <4>1. files'[f] = files[f] /\ uploads'[f] = uploads[f]
          BY <2>2, <3>3 DEF Wellformed, TypeOK
        <4>2. o \in CurrentObjects(f)
          BY <4>1 DEF CurrentObjects
        <4>3. QED
          BY <1>4, <4>2, CurrentObjectsType, BackedKept DEF Durable
      <3>4. CASE f = k
        <4>1. files'[f] = file /\ file # None
          BY <1>2, <2>2, <3>1, <3>4, NoneAssumption
             DEF Wellformed, TypeOK, TablesOK, FileRows, CanCommitFile, UploadRows
        <4>2. file.state = "committed" /\ file.manifest = uploads[k].manifest
          OBVIOUS
        <4> HIDE DEF file
        <4>3. o = uploads[k].manifest \/ \E n \in Ordinals : o = uploads[k].chunks[n]
          BY <3>1, <3>2, <3>4, <4>1, <4>2 DEF CurrentObjects
        <4>4. ReplicaFloor(o)
          BY <2>2, <4>3 DEF CanCommitFile
        <4>5. Backed(o)
          BY <4>4, FloorBacks
        <4>6. QED
          BY <1>1, <4>5 DEF Backed, rowVars
      <3>5. QED
        BY <3>3, <3>4
    <2>3. QED
      BY <2>1, <2>2 DEF CommitFile
  <1>7. QED
    BY <1>3, <1>4, <1>5, <1>6, PromisesKept DEF Durable

\* commit_delete keeps what files rest on.
LEMMA CommitDeleteDurable ==
    ASSUME Wellformed, Durable, NEW p \in Procs, CommitDelete(p)
    PROVE  Durable'
  <1> DEFINE d == req[p].key
             k == deletes[d].file
             file == [files[k] EXCEPT !.gen = deletes[d].gen, !.state = "deleted",
                                      !.marker = deletes[d].marker]
  <1>1. /\ pc[p] = "commit" /\ req[p].op = "delete" /\ Return(p)
        /\ UNCHANGED <<agentVars, rowVars, uploads, inc, lost>>
    BY DEF CommitDelete
  <1>2. d \in DeleteKeys /\ deletes[d] # None
    BY <1>1, ProcHere DEF ProcAt
  <1>3. deletes[d] \in DeleteRows /\ k \in UploadKeys /\ deletes[d].marker \in Markers
    BY <1>2 DEF Wellformed, TypeOK, DeleteRows
  <1>4. Unpromising
    BY <1>1, ReturnUnpromising
  <1>5. Keeps
    BY <1>1 DEF Keeps, agentVars, rowVars
  <1>6. ASSUME NEW a \in Agents \ lost' PROVE Steady(a)' /\ \A o \in Objects : Kept(o, a)'
    BY <1>1 DEF Durable, Steady, Kept, agentVars, rowVars
  <1>7. ASSUME NEW f \in UploadKeys, NEW o \in CurrentObjects(f)' PROVE Backed(o)'
    <2>1. CASE UNCHANGED files
      <3>1. o \in CurrentObjects(f)
        BY <1>1, <2>1 DEF CurrentObjects
      <3>2. QED
        BY <1>5, <3>1, CurrentObjectsType, BackedKept DEF Durable
    <2>2. CASE /\ CanCommitDelete(d)
               /\ files' = [files EXCEPT ![k].gen = deletes[d].gen, ![k].state = "deleted",
                                         ![k].marker = deletes[d].marker]
      <3>1. CASE f # k
        <4>1. files'[f] = files[f]
          BY <2>2, <3>1 DEF Wellformed, TypeOK
        <4>2. o \in CurrentObjects(f)
          BY <1>1, <4>1 DEF CurrentObjects
        <4>3. QED
          BY <1>5, <4>2, CurrentObjectsType, BackedKept DEF Durable
      <3>2. CASE f = k
        <4>1. files[k] \in FileRows
          BY <1>2, <1>3 DEF Wellformed, TablesOK, TypeOK
        <4>2. file \in FileRows /\ file.state = "deleted" /\ file.marker = deletes[d].marker
          BY <1>3, <4>1 DEF FileRows, DeleteRows
        <4>3. files' = [files EXCEPT ![k] = file]
          BY <1>3, <2>2, <4>1 DEF Wellformed, TypeOK, FileRows
        <4> HIDE DEF file
        <4>4. files'[f] = file /\ file # None
          BY <1>3, <3>2, <4>2, <4>3, NoneAssumption DEF Wellformed, TypeOK
        <4>5. o = deletes[d].marker
          BY <4>2, <4>4 DEF CurrentObjects
        <4>6. Backed(o)
          BY <2>2, <4>5, FloorBacks DEF CanCommitDelete
        <4>7. QED
          BY <1>1, <4>6 DEF Backed, rowVars
      <3>3. QED
        BY <3>1, <3>2
    <2>3. QED
      BY <2>1, <2>2 DEF CommitDelete
  <1>8. QED
    BY <1>4, <1>5, <1>6, <1>7, PromisesKept DEF Durable

\* Nothing is stored or promised at the start.
LEMMA DurableInit == Init => Durable
  <1> SUFFICES ASSUME Init PROVE Durable
    OBVIOUS
  <1>1. \A a \in Agents : Steady(a) /\ \A o \in Objects : Kept(o, a)
    BY DEF Init, Steady, Kept, NoRow
  <1>2. \A p \in Procs : Promised(p)
    BY DEF Init, Promised
  <1>3. \A f \in UploadKeys : CurrentObjects(f) = {}
    BY DEF Init, CurrentObjects
  <1>4. QED
    BY <1>1, <1>2, <1>3 DEF Durable

\* Every step keeps the promises.
LEMMA DurableStep == Wellformed /\ Durable /\ [Next]_vars => Durable'
  <1> SUFFICES ASSUME Wellformed, Durable, [Next]_vars PROVE Durable'
    OBVIOUS
  <1>1. ASSUME NEW p \in Procs, Step(p) PROVE Durable'
    BY <1>1, LooksDurable, CreateDeleteDurable, VerifyAgentDurable, PlanUploadDurable,
       AdvanceUploadDurable, ReadChunkDurable, PlanManifestDurable, PendPlacementDurable,
       EnsurePlacementDurable, PutObjectDurable, ConfirmPlacementDurable, CommitFileDurable, CommitDeleteDurable
       DEF Step, Looks
  <1>2. ASSUME NEW p \in Procs, Request(p) PROVE Durable'
    BY <1>2, LooksDurable DEF Looks
  <1>3. ASSUME NEW p \in Procs, Trouble(p) PROVE Durable'
    BY <1>3, LooksDurable, PutFailedDurable, CrashDurable, EditSourceDurable DEF Trouble, Looks
  <1>4. CASE Loss
    BY <1>4, LossDurable
  <1>5. CASE UNCHANGED vars
    <2>1. Unpromising /\ UNCHANGED <<agentVars, rowVars, fileVars, lost, inc>>
      BY <1>5 DEF vars, Unpromising, procVars, envVars
    <2>2. QED
      BY <2>1, QuietDurable
  <1>6. QED
    BY <1>1, <1>2, <1>3, <1>4, <1>5 DEF Next

\* Of the two failure domains promised, one has lost nothing, and there the
\* confirmed row is live and the copy behind it valid.
LEMMA DurableIsDownloadable == Wellformed /\ Durable => Downloadable
  <1> SUFFICES ASSUME Wellformed, Durable, ~ AtLeastTwo({Domain[a] : a \in lost}),
                      NEW f \in UploadKeys, NEW o \in CurrentObjects(f)
               PROVE  \E a \in Agents : LiveConfirmed(o, a) /\ Valid(a, o)
    BY DEF Downloadable
  <1>1. o \in Objects
    BY CurrentObjectsType
  <1>2. PICK a, b \in Agents : /\ Domain[a] # Domain[b]
                               /\ \A x \in {a, b} : x \in lost \/ placements[o][x].state = "confirmed"
    BY DEF Durable, Backed
  <1>3. a \notin lost \/ b \notin lost
    BY <1>2 DEF AtLeastTwo
  <1>4. PICK x \in Agents : x \notin lost /\ placements[o][x].state = "confirmed"
    BY <1>2, <1>3
  <1>5. Steady(x) /\ Kept(o, x)
    BY <1>1, <1>4 DEF Durable
  <1>6. QED
    BY <1>4, <1>5 DEF Steady, Kept, LiveConfirmed, Valid

\* Whatever portal processes, crashes, failed requests and retries do, a file
\* that upload or delete acknowledged survives every loss of volumes and every
\* corruption that stays inside one failure domain: download finds each object.
THEOREM CommittedFilesAreDownloadable == Spec => []Downloadable
  <1>1. Init => Wellformed /\ Durable
    BY WellformedInit, DurableInit
  <1>2. Wellformed /\ Durable /\ [Next]_vars => (Wellformed /\ Durable)'
    BY WellformedStep, DurableStep
  <1>3. Wellformed /\ Durable => Downloadable
    BY DurableIsDownloadable
  <1>4. QED
    BY <1>1, <1>2, <1>3, PTL DEF Spec

-----------------------------------------------------------------------------
(* The commit spine implements FileLifecycle.  Only the two commit          *)
(* transactions touch files: commit_file inserts a row, commit_delete marks *)
(* one deleted, and a repeated commit_delete is a stuttering step.          *)

\* Only the two commits touch the files.
LEMMA StepFiles ==
    ASSUME [Next]_vars
    PROVE  UNCHANGED files \/ \E p \in Procs : CommitFile(p) \/ CommitDelete(p)
  <1>1. ASSUME NEW p \in Procs, Step(p)
        PROVE  UNCHANGED files \/ CommitFile(p) \/ CommitDelete(p)
    BY <1>1 DEF Step, CreateDelete, VerifyAgent, VerifyRefused, VerifyDone, PlanUpload,
       ReloadUpload, AdmitUpload, AdvanceUpload, ReadChunk, ChunksDone, PlanManifest,
       PendPlacement, EnsurePlacement, PutObject, ConfirmPlacement, ReplicateDone, BeginCheck,
       GetReplica, CheckDone, fileVars
  <1>2. ASSUME NEW p \in Procs, Request(p) \/ Trouble(p) PROVE UNCHANGED files
    BY <1>2 DEF Request, Trouble, StartUpload, StartDelete, VerifyUnreachable, AdmissionRefused,
       PutFailed, GetFailed, Crash, EditSource, fileVars
  <1>3. CASE Loss
    BY <1>3 DEF Loss, MountVolume, CorruptCopy, fileVars
  <1>4. CASE UNCHANGED vars
    BY <1>4 DEF vars, fileVars
  <1>5. QED
    BY <1>1, <1>2, <1>3, <1>4 DEF Next


\* The status and the revision of a file, as the refinement maps them.
Status(f) == IF files[f] = None THEN "absent"
             ELSE IF files[f].state = "committed" THEN "visible" ELSE "deleted"
Revision(f) == IF files[f] = None THEN None ELSE files[f].manifest

\* commit_file publishes an absent file, or changes no file.
LEMMA CommitFilePublishes ==
    ASSUME Wellformed, NEW p \in Procs, CommitFile(p), files' # files
    PROVE  Lifecycle!Next
  <1> DEFINE k == req[p].key
             m == uploads[k].manifest
             file == [gen |-> 1, state |-> "committed", manifest |-> m, marker |-> None]
  <1>1. k \in UploadKeys /\ uploads[k] # None
    BY ProcHere DEF CommitFile, ProcAt
  <1>2. CanCommitFile(k) /\ files' = [files EXCEPT ![k] = file]
    BY DEF CommitFile
  <1>3. m \in Manifests
    BY <1>1, <1>2 DEF CanCommitFile, Wellformed, TypeOK, TablesOK, UploadRows
  <1>4. file # None /\ file.state = "committed" /\ file.manifest = m
    BY <1>3, NoneAssumption DEF FileRows
  <1> HIDE DEF file
  <1>5. files'[k] = file /\ \A f \in UploadKeys : f # k => files'[f] = files[f]
    BY <1>1, <1>2 DEF Wellformed, TypeOK
  <1>6. files[k] = None
    BY <1>2 DEF CanCommitFile, FileAbsent
  <1>7. PICK x \in UploadKeys, y \in Manifests : x = k /\ y = m
    BY <1>1, <1>3
  <1>8. Lifecycle!Publish(x, y)
    <2>1. /\ \A f \in UploadKeys : Status(f)' = IF f = x THEN "visible" ELSE Status(f)
          /\ \A f \in UploadKeys : Revision(f)' = IF f = x THEN y ELSE Revision(f)
      BY <1>4, <1>5, <1>7 DEF Status, Revision
    <2>2. [f \in UploadKeys |-> Status(f)'] = [[f \in UploadKeys |-> Status(f)] EXCEPT ![x] = "visible"]
      BY <2>1
    <2>3. [f \in UploadKeys |-> Revision(f)'] = [[f \in UploadKeys |-> Revision(f)] EXCEPT ![x] = y]
      BY <2>1
    <2>4. files[x] = None
      BY <1>6, <1>7
    <2>5. QED
      BY <2>2, <2>3, <2>4, Zenon DEF Lifecycle!Publish, Status, Revision
  <1>9. QED
    BY <1>8 DEF Lifecycle!Next

\* commit_delete removes a visible file, or leaves a deleted one deleted.
LEMMA CommitDeleteRemoves ==
    ASSUME Wellformed, NEW p \in Procs, CommitDelete(p), files' # files
    PROVE  Lifecycle!Next \/ UNCHANGED Lifecycle!vars
  <1> DEFINE d == req[p].key
             k == deletes[d].file
             file == [files[k] EXCEPT !.gen = deletes[d].gen, !.state = "deleted",
                                      !.marker = deletes[d].marker]
  <1>1. d \in DeleteKeys /\ deletes[d] # None
    BY ProcHere DEF CommitDelete, ProcAt
  <1>2. k \in UploadKeys /\ deletes[d].marker \in Markers /\ deletes[d].gen \in Nat
    BY <1>1 DEF Wellformed, TypeOK, DeleteRows
  <1>3. files[k] \in FileRows /\ files[k] # None
    BY <1>1, <1>2 DEF Wellformed, TypeOK, TablesOK
  <1>4. files' = [files EXCEPT ![k].gen = deletes[d].gen, ![k].state = "deleted",
                               ![k].marker = deletes[d].marker]
    BY DEF CommitDelete
  <1>5. /\ file \in FileRows /\ file # None
        /\ file.state = "deleted" /\ file.manifest = files[k].manifest
    BY <1>2, <1>3, NoneAssumption DEF FileRows
  <1>6. files' = [files EXCEPT ![k] = file]
    BY <1>2, <1>3, <1>4 DEF Wellformed, TypeOK, FileRows
  <1> HIDE DEF file
  <1>7. files'[k] = file /\ \A f \in UploadKeys : f # k => files'[f] = files[f]
    BY <1>2, <1>6 DEF Wellformed, TypeOK
  <1>8. CASE files[k].state = "committed"
    <2>1. PICK x \in UploadKeys : x = k
      BY <1>2
    <2>2. Lifecycle!Remove(x)
      <3>1. /\ \A f \in UploadKeys : Status(f)' = IF f = x THEN "deleted" ELSE Status(f)
            /\ \A f \in UploadKeys : Revision(f)' = Revision(f)
        BY <1>3, <1>5, <1>7, <2>1 DEF Status, Revision
      <3>2. [f \in UploadKeys |-> Status(f)'] = [[f \in UploadKeys |-> Status(f)] EXCEPT ![x] = "deleted"]
        BY <3>1
      <3>3. [f \in UploadKeys |-> Revision(f)'] = [f \in UploadKeys |-> Revision(f)]
        BY <3>1
      <3>4. files[x] # None /\ files[x].state = "committed"
        BY <1>3, <1>8, <2>1
      <3>5. QED
        BY <3>2, <3>3, <3>4, Zenon DEF Lifecycle!Remove, Status, Revision
    <2>3. QED
      BY <2>2 DEF Lifecycle!Next
  <1>9. CASE files[k].state # "committed"
    BY <1>2, <1>3, <1>5, <1>7, <1>9 DEF Lifecycle!vars
  <1>10. QED
    BY <1>8, <1>9

\* What a client sees of a file follows FileLifecycle: it appears once with
\* one manifest and, once deleted, never comes back.
THEOREM SpineImplementsLifecycle == Spec => ImplementsLifecycle
  <1>1. Init => Lifecycle!Init
    BY DEF Init, Lifecycle!Init
  <1>2. Wellformed /\ [Next]_vars => [Lifecycle!Next]_(Lifecycle!vars)
    <2> SUFFICES ASSUME Wellformed, [Next]_vars PROVE [Lifecycle!Next]_(Lifecycle!vars)
      OBVIOUS
    <2>1. CASE UNCHANGED files
      BY <2>1 DEF Lifecycle!vars
    <2>2. CASE files' # files
      BY <2>2, StepFiles, CommitFilePublishes, CommitDeleteRemoves
    <2>3. QED
      BY <2>1, <2>2
  <1>3. QED
    BY <1>1, <1>2, WellformedInit, WellformedStep, PTL DEF Spec, ImplementsLifecycle, Lifecycle!Spec

-----------------------------------------------------------------------------
(* One marker.  A marker on a volume was recorded by a delete operation     *)
(* before it was written, and the operations of one file record the same    *)
(* marker: the projection keeps its generation until it is deleted, so that *)
(* the transaction of create_delete_operation sees every earlier one.       *)

Recorded(x) == \E d \in DeleteKeys : deletes[d] # None /\ deletes[d].marker = x

\* The marker a process holds in a delete is the one its row records or,
\* before it has a row, one that a row of the same file records.  It
\* replicates no other marker.
Holds(l, r, o, ds) ==
    /\ r.op = "delete" /\ l \notin {"mark", "idle"} => ds[r.key].marker = r.manifest
    /\ l = "mark" /\ r.manifest # None =>
         \E d \in DeleteKeys : ds[d] # None /\ ds[d].marker = r.manifest /\ ds[d].file = r.file
    /\ l \in {"pend", "ensure", "put", "confirm"} /\ o \in Markers => r.op = "delete" /\ o = r.manifest

MarkerRows ==
    \A d \in DeleteKeys : deletes[d] # None =>
        /\ \E m \in 1..MaxMints : deletes[d].marker = Marker(deletes[d].file, m)
        /\ \A e \in DeleteKeys : deletes[e] # None /\ deletes[e].file = deletes[d].file =>
             deletes[e].marker = deletes[d].marker
        /\ files[deletes[d].file].state = "committed" =>
             deletes[d].gen = files[deletes[d].file].gen + 1

MarkerCopies ==
    \A a \in Agents, v \in Volumes, x \in Markers : stored[a][v][x] # "none" => Recorded(x)

MarkersNamed ==
    MarkerRows /\ MarkerCopies /\ \A p \in Procs : Holds(pc[p], req[p], obj[p], deletes)

\* Rows of deletes keep what they record.
RowsKeep ==
    \A d \in DeleteKeys : deletes[d] # None =>
        /\ deletes'[d] # None /\ deletes'[d].marker = deletes[d].marker
        /\ deletes'[d].file = deletes[d].file

\* What a process holds outlives the steps of the others.
LEMMA HoldsKept ==
    ASSUME Wellformed, RowsKeep, NEW q \in Procs, Holds(pc[q], req[q], obj[q], deletes)
    PROVE  Holds(pc[q], req[q], obj[q], deletes')
  <1>1. req[q].op = "delete" /\ pc[q] # "mark" => req[q].key \in DeleteKeys /\ deletes[req[q].key] # None
    BY ProcHere DEF ProcAt
  <1>2. QED
    BY <1>1 DEF Holds, RowsKeep

\* A process moves; the rows keep what they record.
LEMMA MoveHolds ==
    ASSUME Wellformed, MarkersNamed, RowsKeep, NEW p \in Procs, NEW l, NEW r, NEW o, NEW a,
           Move(p, l, r, o, a), Holds(l, r, o, deletes')
    PROVE  \A q \in Procs : Holds(pc'[q], req'[q], obj'[q], deletes')
  <1> SUFFICES ASSUME NEW q \in Procs PROVE Holds(pc'[q], req'[q], obj'[q], deletes')
    OBVIOUS
  <1>1. CASE q = p
    <2>1. pc'[p] = l /\ req'[p] = r /\ obj'[p] = o
      BY DEF Move, Wellformed, TypeOK
    <2>2. QED
      BY <1>1, <2>1
  <1>2. CASE q # p
    <2>1. pc'[q] = pc[q] /\ req'[q] = req[q] /\ obj'[q] = obj[q]
      BY <1>2 DEF Move, Wellformed, TypeOK
    <2>2. QED
      BY <2>1, HoldsKept DEF MarkersNamed
  <1>3. QED
    BY <1>1, <1>2

\* A step that leaves the rows alone and writes no marker that is not recorded.
LEMMA QuietNamed ==
    ASSUME Wellformed, MarkersNamed, UNCHANGED <<deletes, files>>,
           \A a \in Agents, v \in Volumes, x \in Markers :
               stored'[a][v][x] # "none" => stored[a][v][x] # "none" \/ Recorded(x),
           \A q \in Procs : Holds(pc'[q], req'[q], obj'[q], deletes')
    PROVE  MarkersNamed'
  <1>1. MarkerRows'
    BY DEF MarkersNamed, MarkerRows
  <1>2. MarkerCopies'
    BY DEF MarkersNamed, MarkerCopies, Recorded
  <1>3. QED
    BY <1>1, <1>2 DEF MarkersNamed

\* The same for a step of one process that writes nothing.
LEMMA MoveNamed ==
    ASSUME Wellformed, MarkersNamed, NEW p \in Procs, NEW l, NEW r, NEW o, NEW a,
           Move(p, l, r, o, a), Holds(l, r, o, deletes), UNCHANGED <<deletes, files, stored>>
    PROVE  MarkersNamed'
  <1>1. RowsKeep /\ Holds(l, r, o, deletes')
    BY DEF RowsKeep
  <1>2. \A q \in Procs : Holds(pc'[q], req'[q], obj'[q], deletes')
    BY <1>1, MoveHolds
  <1>3. QED
    BY <1>2, QuietNamed

LEMMA ReturnNamed ==
    ASSUME Wellformed, MarkersNamed, NEW p \in Procs, Return(p), UNCHANGED <<deletes, files, stored>>
    PROVE  MarkersNamed'
  <1>1. Holds("idle", NoReq, None, deletes)
    BY DEF Holds, NoReq
  <1>2. QED
    BY <1>1, MoveNamed DEF Return

\* A process in an upload holds no marker, and chunks and manifests are none.
LEMMA UploadHolds ==
    ASSUME NEW l, NEW r, NEW o, NEW ds, r.op = "upload", l # "mark", o \notin Markers
    PROVE  Holds(l, r, o, ds)
  BY DEF Holds

LEMMA NoMarker == None \notin Markers /\ Chunks \cap Markers = {} /\ Manifests \cap Markers = {}
  BY NoneAssumption DEF Objects, Chunks, Manifests, Markers, Chunk, Manifest, Marker

\* A process that stays in its call and leaves replicate.
LEMMA LeavingHolds ==
    ASSUME Wellformed, MarkersNamed, NEW p \in Procs, pc[p] \notin {"idle", "mark"}, NEW r,
           SameCall(req[p], r), NEW l, NEW o, l \notin {"mark", "pend", "ensure", "put", "confirm"}
    PROVE  Holds(l, r, o, deletes)
  <1>1. Holds(pc[p], req[p], obj[p], deletes)
    BY DEF MarkersNamed
  <1>2. QED
    BY <1>1 DEF Holds, SameCall

\* A process that goes on replicating its object.
LEMMA ReplicatingHolds ==
    ASSUME Wellformed, MarkersNamed, NEW p \in Procs, pc[p] \in {"pend", "ensure", "put", "confirm"}, NEW r,
           SameCall(req[p], r), NEW l, l # "mark"
    PROVE  Holds(l, r, obj[p], deletes)
  <1>1. Holds(pc[p], req[p], obj[p], deletes)
    BY DEF MarkersNamed
  <1>2. QED
    BY <1>1 DEF Holds, SameCall

\* Verifying the agents.
LEMMA VerifyNamed ==
    ASSUME Wellformed, MarkersNamed, NEW p \in Procs,
           VerifyAgent(p) \/ VerifyRefused(p) \/ VerifyUnreachable(p) \/ VerifyDone(p)
    PROVE  MarkersNamed'
  <1>1. pc[p] = "verify" /\ UNCHANGED <<deletes, files, stored>>
    BY DEF VerifyAgent, VerifyRefused, VerifyUnreachable, VerifyDone, agentVars, fileVars
  <1>2. req[p] \in ReqRows /\ Holds(pc[p], req[p], obj[p], deletes)
    BY ProcHere DEF MarkersNamed
  <1>3. ASSUME NEW S, NEW a, Move(p, "verify", [req[p] EXCEPT !.live = S], None, a) PROVE MarkersNamed'
    <2>1. Holds("verify", [req[p] EXCEPT !.live = S], None, deletes)
      BY <1>1, <1>2, SameCallUpdate, LeavingHolds
    <2>2. QED
      BY <1>1, <1>3, <2>1, MoveNamed
  <1>4. CASE VerifyAgent(p)
    BY <1>3, <1>4 DEF VerifyAgent
  <1>5. CASE VerifyRefused(p)
    BY <1>1, <1>5, ReturnNamed DEF VerifyRefused
  <1>6. CASE VerifyUnreachable(p)
    <2>1. Holds("verify", req[p], None, deletes)
      BY <1>1, <1>2, SameCallUpdate, LeavingHolds
    <2>2. QED
      BY <1>1, <1>6, <2>1, ReturnNamed, MoveNamed DEF VerifyUnreachable
  <1>7. CASE VerifyDone(p)
    <2> DEFINE r == [req[p] EXCEPT !.live = {}]
    <2>1. SameCall(req[p], r)
      BY <1>2, SameCallUpdate
    <2>2. Holds("plan", r, None, deletes)
      BY <1>1, <2>1, LeavingHolds
    <2>3. req[p].op # "upload" => Holds("pend", r, req[p].manifest, deletes)
      <3>1. req[p].op = "delete" \/ req[p].op = "upload"
        BY <1>1, <1>2, ProcHere DEF ProcAt, ReqRows
      <3>2. QED
        BY <1>1, <1>2, <2>1, <3>1 DEF Holds, SameCall
    <2> HIDE DEF r
    <2>4. \/ Return(p) \/ Move(p, "plan", r, None, 1)
          \/ req[p].op # "upload" /\ Move(p, "pend", r, req[p].manifest, 1)
      BY <1>7 DEF VerifyDone, r
    <2>5. QED
      BY <1>1, <2>2, <2>3, <2>4, ReturnNamed, MoveNamed
  <1>8. QED
    BY <1>4, <1>5, <1>6, <1>7

\* The steps of an upload up to its manifest handle no marker.
LEMMA UploadNamed ==
    ASSUME Wellformed, MarkersNamed, NEW p \in Procs,
           \/ PlanUpload(p) \/ ReloadUpload(p) \/ AdmitUpload(p) \/ AdmissionRefused(p)
           \/ AdvanceUpload(p) \/ ReadChunk(p) \/ ChunksDone(p) \/ PlanManifest(p)
    PROVE  MarkersNamed'
  <1>1. UNCHANGED <<deletes, files, stored>>
    BY DEF PlanUpload, ReloadUpload, AdmitUpload, AdmissionRefused, AdvanceUpload, ReadChunk,
       ChunksDone, PlanManifest, agentVars, fileVars
  <1>2. pc[p] \in {"plan", "reload", "admit", "advance", "chunk", "manifest"}
    BY DEF PlanUpload, ReloadUpload, AdmitUpload, AdmissionRefused, AdvanceUpload, ReadChunk,
       ChunksDone, PlanManifest
  <1>3. /\ req[p] \in ReqRows /\ req[p].op = "upload" /\ req[p].key \in UploadKeys /\ req[p].src \in Contents
        /\ pc[p] \notin {"plan", "reload"} => req[p].loaded # None
    BY <1>2, ProcHere DEF ProcAt
  <1>4. ASSUME NEW l, NEW r, NEW o, NEW a, r.op = "upload", l # "mark", o \notin Markers,
               Move(p, l, r, o, a)
        PROVE  MarkersNamed'
    BY <1>1, <1>4, UploadHolds, MoveNamed
  <1>5. ASSUME NEW l, NEW r, NEW a, r.op = "upload", l # "mark", Move(p, l, r, None, a)
        PROVE  MarkersNamed'
    BY <1>4, <1>5, NoMarker
  <1>6. CASE PlanUpload(p)
    BY <1>1, <1>3, <1>5, <1>6, ReturnNamed DEF PlanUpload
  <1>7. CASE ReloadUpload(p)
    <2>1. [req[p] EXCEPT !.loaded = uploads[req[p].key]].op = "upload"
      BY <1>3 DEF ReqRows
    <2>2. QED
      BY <1>5, <1>7, <2>1 DEF ReloadUpload
  <1>8. [req[p] EXCEPT !.n = 1].op = "upload"
    BY <1>3 DEF ReqRows
  <1>9. CASE AdmitUpload(p) \/ AdmissionRefused(p) \/ AdvanceUpload(p) \/ ChunksDone(p)
    BY <1>1, <1>3, <1>5, <1>8, <1>9, ReturnNamed
       DEF AdmitUpload, AdmissionRefused, AdvanceUpload, ChunksDone
  <1>10. CASE ReadChunk(p)
    <2> DEFINE o == Chunk(req[p].key, req[p].n, req[p].src)
    <2>1. o \notin Markers
      BY <1>3, <1>10, ObjectTypes, NoMarker DEF ReadChunk
    <2>2. Return(p) \/ Move(p, "pend", req[p], o, 1)
      BY <1>10 DEF ReadChunk
    <2> HIDE DEF o
    <2>3. QED
      BY <1>1, <1>3, <1>4, <2>1, <2>2, ReturnNamed
  <1>11. CASE PlanManifest(p)
    <2>1. \/ Return(p)
          \/ \E m \in Manifests : Move(p, "pend", [req[p] EXCEPT !.manifest = m], m, 1)
      <3>1. CASE req[p].loaded.manifest # None
        <4>1. req[p].loaded \in UploadRows
          BY <1>2, <1>3, <1>11 DEF ReqRows, PlanManifest
        <4>2. req[p].loaded.manifest \in Manifests
          BY <3>1, <4>1 DEF UploadRows
        <4>3. QED
          BY <1>11, <3>1, <4>2, Zenon DEF PlanManifest
      <3>2. CASE req[p].loaded.manifest = None
        <4>1. minted < MaxMints => Manifest(req[p].key, minted + 1) \in Manifests
          <5>1. minted < MaxMints => minted + 1 \in 1..MaxMints
            BY ConstantsAssumption DEF Wellformed, TypeOK
          <5>2. QED
            BY <1>3, <5>1, ObjectTypes
        <4>2. QED
          BY <1>11, <3>2, <4>1, Zenon DEF PlanManifest
      <3>3. QED
        BY <3>1, <3>2
    <2>2. ASSUME NEW m \in Manifests PROVE m \notin Markers /\ [req[p] EXCEPT !.manifest = m].op = "upload"
      BY <1>3, NoMarker DEF ReqRows
    <2>3. QED
      BY <1>1, <1>4, <2>1, <2>2, ReturnNamed
  <1>12. QED
    BY <1>6, <1>7, <1>9, <1>10, <1>11

\* Where a process goes from a step of replicate.
LEMMA ReplicateMoves ==
    ASSUME Wellformed, NEW p \in Procs,
           \/ PendPlacement(p) \/ EnsurePlacement(p) \/ PutObject(p) \/ PutFailed(p)
           \/ ConfirmPlacement(p) \/ ReplicateDone(p)
    PROVE  \/ Return(p)
           \/ \E l \in {"pend", "ensure", "put", "confirm", "chunk", "check"} : \E r, o, a :
                /\ SameCall(req[p], r) /\ Move(p, l, r, o, a)
                /\ l \in {"pend", "ensure", "put", "confirm"} => o = obj[p]
                /\ l = "check" => r.n = 0
  <1>1. req[p] \in ReqRows
    BY ProcHere
  <1>2. /\ SameCall(req[p], req[p]) /\ \A b : SameCall(req[p], [req[p] EXCEPT !.confirmed = b])
        /\ \A n : SameCall(req[p], [req[p] EXCEPT !.n = n]) /\ [req[p] EXCEPT !.n = n].n = n
    BY <1>1, SameCallUpdate
  <1>3. CASE PendPlacement(p) \/ EnsurePlacement(p) \/ PutObject(p) \/ PutFailed(p) \/ ConfirmPlacement(p)
    <2>1. \E l \in {"pend", "ensure", "put", "confirm"} : \E a :
            \/ Move(p, l, req[p], obj[p], a)
            \/ \E b : Move(p, l, [req[p] EXCEPT !.confirmed = b], obj[p], a)
      <3>1. CASE PendPlacement(p)
        <4>1. CASE inc[p][at[p]] = 0
          BY <3>1, <4>1, Zenon DEF PendPlacement
        <4>2. CASE inc[p][at[p]] # 0 /\ LiveConfirmed(obj[p], at[p])
          BY <3>1, <4>2, Zenon DEF PendPlacement
        <4>3. CASE inc[p][at[p]] # 0 /\ ~LiveConfirmed(obj[p], at[p])
          BY <3>1, <4>3, Zenon DEF PendPlacement
        <4>4. QED
          BY <4>1, <4>2, <4>3
      <3>2. CASE EnsurePlacement(p) \/ PutFailed(p) \/ ConfirmPlacement(p)
        BY <3>2, Zenon DEF EnsurePlacement, PutFailed, ConfirmPlacement
      <3>3. CASE PutObject(p)
        BY <3>3, Zenon DEF PutObject
      <3>4. QED
        BY <1>3, <3>1, <3>2, <3>3
    <2>2. PICK l \in {"pend", "ensure", "put", "confirm"} : \E a :
            \/ Move(p, l, req[p], obj[p], a)
            \/ \E b : Move(p, l, [req[p] EXCEPT !.confirmed = b], obj[p], a)
      BY <2>1
    <2>3. PICK r, a : SameCall(req[p], r) /\ Move(p, l, r, obj[p], a)
      BY <1>2, <2>2, Zenon
    <2>4. l \in {"pend", "ensure", "put", "confirm", "chunk", "check"} /\ l # "check"
      OBVIOUS
    <2>5. QED
      BY <2>3, <2>4
  <1>4. CASE ReplicateDone(p)
    <2>1. \/ Return(p)
          \/ \E n : Move(p, "chunk", [req[p] EXCEPT !.n = n], None, 1)
          \/ Move(p, "check", [req[p] EXCEPT !.n = 0], obj[p], 1)
      BY <1>1, <1>4 DEF ReplicateDone, ReqRows
    <2>2. QED
      BY <1>2, <2>1
  <1>5. QED
    BY <1>3, <1>4

\* Where a process goes from a step of the live check.
LEMMA CheckMoves ==
    ASSUME Wellformed, NEW p \in Procs,
           BeginCheck(p) \/ GetReplica(p) \/ GetFailed(p) \/ CheckDone(p)
    PROVE  \/ Return(p)
           \/ \E l \in {"get", "check", "commit"} : \E r, o, a : SameCall(req[p], r) /\ Move(p, l, r, o, a)
  <1>1. req[p] \in ReqRows
    BY ProcHere
  <1>2. /\ \A R, S : SameCall(req[p], [req[p] EXCEPT !.remaining = R, !.live = S])
        /\ \A R : SameCall(req[p], [req[p] EXCEPT !.remaining = R])
        /\ \A n : SameCall(req[p], [req[p] EXCEPT !.n = n]) /\ SameCall(req[p], req[p])
    BY <1>1 DEF ReqRows, SameCall
  <1>3. CASE BeginCheck(p)
    <2>1. Return(p) \/ \E R, S, o : Move(p, "get", [req[p] EXCEPT !.remaining = R, !.live = S], o, 1)
      BY <1>3, Zenon DEF BeginCheck
    <2>2. QED
      BY <1>2, <2>1
  <1>4. CASE GetReplica(p)
    <2> DEFINE R == req[p].remaining \ {Least(req[p].remaining)}
               S == IF Valid(Least(req[p].remaining), obj[p])
                    THEN req[p].live \cup {Domain[Least(req[p].remaining)]} ELSE req[p].live
    <2>1. Move(p, "get", [req[p] EXCEPT !.remaining = R, !.live = S], obj[p], 1)
      BY <1>1, <1>4 DEF GetReplica, ReqRows
    <2> HIDE DEF R, S
    <2>2. QED
      BY <1>2, <2>1
  <1>5. CASE GetFailed(p)
    <2>1. \E R : Move(p, "get", [req[p] EXCEPT !.remaining = R], obj[p], 1)
      BY <1>1, <1>5 DEF GetFailed, ReqRows
    <2>2. QED
      BY <1>2, <2>1
  <1>6. CASE CheckDone(p)
    <2>1. \/ Return(p) \/ Move(p, "commit", req[p], None, 1)
          \/ \E n : Move(p, "check", [req[p] EXCEPT !.n = n], None, 1)
      BY <1>1, <1>6 DEF CheckDone, ReqRows
    <2>2. QED
      BY <1>2, <2>1
  <1>7. QED
    BY <1>3, <1>4, <1>5, <1>6

\* replicate: the marker that is written is the one the row records.
LEMMA ReplicateNamed ==
    ASSUME Wellformed, MarkersNamed, NEW p \in Procs,
           \/ PendPlacement(p) \/ EnsurePlacement(p) \/ PutObject(p) \/ PutFailed(p)
           \/ ConfirmPlacement(p) \/ ReplicateDone(p)
    PROVE  MarkersNamed'
  <1>1. pc[p] \in {"pend", "ensure", "put", "confirm"} /\ UNCHANGED <<deletes, files>>
    BY DEF PendPlacement, EnsurePlacement, PutObject, PutFailed, ConfirmPlacement, ReplicateDone, fileVars
  <1>2. req[p] \in ReqRows /\ Holds(pc[p], req[p], obj[p], deletes)
    BY ProcHere DEF MarkersNamed
  <1>3. RowsKeep
    BY <1>1 DEF RowsKeep
  <1>4. \A q \in Procs : Holds(pc'[q], req'[q], obj'[q], deletes')
    <2>1. CASE Return(p)
      <3>1. Holds("idle", NoReq, None, deletes')
        BY DEF Holds, NoReq
      <3>2. QED
        BY <1>3, <2>1, <3>1, MoveHolds DEF Return
    <2>2. CASE ~Return(p)
      <3>1. PICK l \in {"pend", "ensure", "put", "confirm", "chunk", "check"} : \E r, o, a :
              /\ SameCall(req[p], r) /\ Move(p, l, r, o, a)
              /\ l \in {"pend", "ensure", "put", "confirm"} => o = obj[p]
        BY <2>2, ReplicateMoves
      <3> PICK r, o, a : /\ SameCall(req[p], r) /\ Move(p, l, r, o, a)
                         /\ l \in {"pend", "ensure", "put", "confirm"} => o = obj[p]
        BY <3>1
      <3>2. Holds(l, r, o, deletes')
        BY <1>1, ReplicatingHolds, LeavingHolds
      <3>3. QED
        BY <1>3, <3>2, MoveHolds
    <2>3. QED
      BY <2>1, <2>2
  <1>5. ASSUME NEW a \in Agents, NEW v \in Volumes, NEW x \in Markers, stored'[a][v][x] # "none"
        PROVE  stored[a][v][x] # "none" \/ Recorded(x)
    <2>1. CASE stored' = stored
      BY <1>5, <2>1
    <2>2. CASE pc[p] = "put" /\ stored' = [stored EXCEPT ![at[p]][vol[at[p]]][obj[p]] = "valid"]
      <3>1. CASE x = obj[p]
        <4>1. req[p].op = "delete" /\ x = req[p].manifest /\ deletes[req[p].key].marker = req[p].manifest
          BY <1>2, <2>2, <3>1 DEF Holds
        <4>2. req[p].key \in DeleteKeys /\ deletes[req[p].key] # None
          BY <2>2, <4>1, ProcHere DEF ProcAt
        <4>3. QED
          BY <4>1, <4>2 DEF Recorded
      <3>2. CASE x # obj[p]
        <4>1. x \in Objects
          BY ObjectTypes
        <4>2. stored'[a][v][x] = stored[a][v][x]
          BY <2>2, <3>2, <4>1 DEF Wellformed, TypeOK
        <4>3. QED
          BY <1>5, <4>2
      <3>3. QED
        BY <3>1, <3>2
    <2>3. QED
      BY <2>1, <2>2 DEF PendPlacement, EnsurePlacement, PutObject, PutFailed, ConfirmPlacement, ReplicateDone,
         agentVars
  <1>6. QED
    BY <1>1, <1>4, <1>5, QuietNamed

\* The live check.
LEMMA CheckNamed ==
    ASSUME Wellformed, MarkersNamed, NEW p \in Procs,
           BeginCheck(p) \/ GetReplica(p) \/ GetFailed(p) \/ CheckDone(p)
    PROVE  MarkersNamed'
  <1>1. pc[p] \in {"check", "get"} /\ UNCHANGED <<deletes, files, stored>>
    BY DEF BeginCheck, GetReplica, GetFailed, CheckDone, agentVars, fileVars
  <1>2. ASSUME NEW l \in {"get", "check", "commit"}, NEW r, SameCall(req[p], r), NEW o, NEW a,
               Move(p, l, r, o, a)
        PROVE  MarkersNamed'
    <2>1. Holds(l, r, o, deletes)
      BY <1>1, <1>2, LeavingHolds
    <2>2. QED
      BY <1>1, <1>2, <2>1, MoveNamed
  <1>3. QED
    BY <1>1, <1>2, CheckMoves, ReturnNamed

\* A delete begins with the marker its row records, or with one that the
\* lookup found in a row of the same file.
LEMMA RequestNamed ==
    ASSUME Wellformed, MarkersNamed, NEW p \in Procs, Request(p)
    PROVE  MarkersNamed'
  <1>1. CASE \E k \in UploadKeys, c \in Contents : StartUpload(p, k, c)
    <2>1. PICK k \in UploadKeys, c \in Contents : StartUpload(p, k, c)
      BY <1>1
    <2> DEFINE r == [NoReq EXCEPT !.op = "upload", !.key = k, !.file = k, !.src = c, !.loaded = uploads[k]]
    <2>2. Move(p, "verify", r, None, 1) /\ UNCHANGED <<deletes, files, stored>>
      BY <2>1 DEF StartUpload, agentVars, fileVars
    <2>3. r.op = "upload"
      BY DEF NoReq
    <2> HIDE DEF r
    <2>4. QED
      BY <2>2, <2>3, UploadHolds, NoMarker, MoveNamed
  <1>2. CASE \E d \in DeleteKeys, f \in UploadKeys : StartDelete(p, d, f)
    <2>1. PICK d \in DeleteKeys, f \in UploadKeys : StartDelete(p, d, f)
      BY <1>2
    <2> DEFINE r(m) == [NoReq EXCEPT !.op = "delete", !.key = d, !.file = f, !.manifest = m]
    <2>2. UNCHANGED <<deletes, files, stored>>
      BY <2>1 DEF StartDelete, agentVars, fileVars
    <2>3. ASSUME NEW m PROVE r(m).op = "delete" /\ r(m).key = d /\ r(m).file = f /\ r(m).manifest = m
      BY DEF NoReq
    <2>4. \/ Move(p, "verify", r(deletes[d].marker), None, 1)
          \/ \E m \in PendingMarkers(f, files[f].gen + 1) \cup {None} : Move(p, "mark", r(m), None, 1)
      BY <2>1 DEF StartDelete
    <2> HIDE DEF r
    <2>5. Holds("verify", r(deletes[d].marker), None, deletes)
      BY <2>3 DEF Holds
    <2>6. ASSUME NEW m \in PendingMarkers(f, files[f].gen + 1) \cup {None}
          PROVE  Holds("mark", r(m), None, deletes)
      BY <2>3 DEF Holds, PendingMarkers
    <2>7. QED
      BY <2>2, <2>4, <2>5, <2>6, MoveNamed
  <1>3. QED
    BY <1>1, <1>2 DEF Request

\* create_delete_operation records the marker the other rows of the file record.
LEMMA CreateDeleteNamed ==
    ASSUME Wellformed, MarkersNamed, NEW p \in Procs, CreateDelete(p)
    PROVE  MarkersNamed'
  <1> DEFINE d == req[p].key
             f == req[p].file
             m == IF req[p].manifest = None THEN Marker(f, minted + 1) ELSE req[p].manifest
             row == [file |-> f, gen |-> files[f].gen + 1, marker |-> m,
                     state |-> "replicating_marker"]
             r == [req[p] EXCEPT !.manifest = m]
  <1>1. ProcAt("mark", req[p], obj[p], at[p], uploads, files, deletes) /\ req[p] \in ReqRows
    BY DEF CreateDelete, Wellformed, ProcOK, TypeOK
  <1>2. d \in DeleteKeys /\ f \in UploadKeys /\ files[f] # None /\ req[p].op = "delete"
    BY <1>1 DEF ProcAt
  <1>3. UNCHANGED <<files, stored>>
    BY DEF CreateDelete, agentVars
  <1>4. CASE Return(p) /\ UNCHANGED deletes
    BY <1>3, <1>4, ReturnNamed
  <1>5. CASE /\ files[f].state = "committed" /\ MarkerAgrees(f, m) /\ deletes[d] = None
             /\ (req[p].manifest = None => minted < MaxMints)
             /\ deletes' = [deletes EXCEPT ![d] = row] /\ Move(p, "verify", r, None, 1)
    <2>1. deletes'[d] = row /\ \A e \in DeleteKeys : e # d => deletes'[e] = deletes[e]
      BY <1>2, <1>5 DEF Wellformed, TypeOK
    <2>2. row.file = f /\ row.gen = files[f].gen + 1 /\ row.marker = m
      OBVIOUS
    <2>3. r.op = "delete" /\ r.key = d /\ r.manifest = m
      BY <1>1, <1>2 DEF ReqRows
    <2> HIDE DEF r, row
    <2>4. \E n \in 1..MaxMints : m = Marker(f, n)
      <3>1. CASE req[p].manifest = None
        <4>1. minted + 1 \in 1..MaxMints
          BY <1>5, <3>1, ConstantsAssumption DEF Wellformed, TypeOK
        <4>2. QED
          BY <3>1, <4>1
      <3>2. CASE req[p].manifest # None
        <4>1. Holds("mark", req[p], obj[p], deletes)
          BY DEF MarkersNamed, CreateDelete
        <4>2. \E e \in DeleteKeys : deletes[e] # None /\ deletes[e].marker = m /\ deletes[e].file = f
          BY <3>2, <4>1 DEF Holds
        <4>3. QED
          BY <4>2 DEF MarkersNamed, MarkerRows
      <3>3. QED
        BY <3>1, <3>2
    <2>5. \A e \in DeleteKeys : deletes[e] # None /\ deletes[e].file = f => deletes[e].marker = m
      <3>1. ASSUME NEW e \in DeleteKeys, deletes[e] # None, deletes[e].file = f
            PROVE  deletes[e].marker \in PendingMarkers(f, files[f].gen + 1)
        BY <1>5, <3>1 DEF MarkersNamed, MarkerRows, PendingMarkers
      <3>2. QED
        BY <1>5, <3>1 DEF MarkerAgrees
    <2> HIDE DEF d, f, m
    <2>6. MarkerRows'
      BY <1>2, <1>3, <1>5, <2>1, <2>2, <2>4, <2>5 DEF MarkersNamed, MarkerRows
    <2>7. RowsKeep
      BY <1>5, <2>1 DEF RowsKeep
    <2>8. MarkerCopies'
      <3>1. \A x : Recorded(x) => Recorded(x)'
        BY <2>7 DEF Recorded, RowsKeep
      <3>2. QED
        BY <1>3, <3>1 DEF MarkersNamed, MarkerCopies
    <2>9. Holds("verify", r, None, deletes')
      BY <2>1, <2>2, <2>3, NoMarker DEF Holds
    <2>10. QED
      BY <1>5, <2>6, <2>7, <2>8, <2>9, MoveHolds DEF MarkersNamed
  <1>6. QED
    BY <1>4, <1>5 DEF CreateDelete

\* commit_file publishes a file that no delete names yet.
LEMMA CommitFileNamed ==
    ASSUME Wellformed, MarkersNamed, NEW p \in Procs, CommitFile(p)
    PROVE  MarkersNamed'
  <1>1. Return(p) /\ UNCHANGED <<deletes, stored>> /\ RowsKeep
    BY DEF CommitFile, agentVars, RowsKeep
  <1>2. req[p].key \in UploadKeys
    BY ProcHere DEF CommitFile, ProcAt
  <1>3. \A f \in UploadKeys : files[f] # None => files'[f] = files[f]
    BY <1>2 DEF CommitFile, CanCommitFile, FileAbsent, Wellformed, TypeOK
  <1>4. \A d \in DeleteKeys : deletes[d] # None => deletes[d].file \in UploadKeys /\ files[deletes[d].file] # None
    BY DEF Wellformed, TypeOK, TablesOK, DeleteRows
  <1>5. MarkerRows'
    BY <1>1, <1>3, <1>4 DEF MarkersNamed, MarkerRows
  <1>6. MarkerCopies'
    BY <1>1 DEF MarkersNamed, MarkerCopies, Recorded
  <1>7. Holds("idle", NoReq, None, deletes')
    BY DEF Holds, NoReq
  <1>8. QED
    BY <1>1, <1>5, <1>6, <1>7, MoveHolds DEF MarkersNamed, Return

\* commit_delete ends the life of the file; its rows keep their marker.
LEMMA CommitDeleteNamed ==
    ASSUME Wellformed, MarkersNamed, NEW p \in Procs, CommitDelete(p)
    PROVE  MarkersNamed'
  <1> DEFINE d == req[p].key
             f == deletes[d].file
  <1>1. Return(p) /\ UNCHANGED stored
    BY DEF CommitDelete, agentVars
  <1>2. d \in DeleteKeys /\ deletes[d] # None
    BY ProcHere DEF CommitDelete, ProcAt
  <1>3. deletes[d] \in DeleteRows /\ f \in UploadKeys /\ files[f] # None /\ files[f] \in FileRows
    BY <1>2 DEF Wellformed, TypeOK, TablesOK, DeleteRows
  <1>4. CASE UNCHANGED <<files, deletes>>
    BY <1>1, <1>4, ReturnNamed
  <1>5. CASE /\ files' = [files EXCEPT ![f].gen = deletes[d].gen, ![f].state = "deleted",
                                       ![f].marker = deletes[d].marker]
             /\ deletes' = [deletes EXCEPT ![d].state = "committed"]
    <2>1. files'[f].state = "deleted" /\ \A g \in UploadKeys : g # f => files'[g] = files[g]
      BY <1>3, <1>5 DEF Wellformed, TypeOK, FileRows
    <2> DEFINE row == [deletes[d] EXCEPT !.state = "committed"]
    <2>2. row # None /\ row.marker = deletes[d].marker /\ row.file = f /\ row.gen = deletes[d].gen
      BY <1>3, NoneAssumption DEF DeleteRows
    <2>3. deletes'[d] = row /\ \A e \in DeleteKeys : e # d => deletes'[e] = deletes[e]
      BY <1>2, <1>5 DEF Wellformed, TypeOK
    <2> HIDE DEF row
    <2>4. RowsKeep /\ \A e \in DeleteKeys : /\ deletes'[e] # None <=> deletes[e] # None
                                            /\ deletes[e] # None => deletes'[e].gen = deletes[e].gen
      BY <1>2, <2>2, <2>3 DEF RowsKeep
    <2> HIDE DEF d, f
    <2>5. \A e \in DeleteKeys : deletes[e] # None => deletes[e].file \in UploadKeys
      BY DEF Wellformed, TypeOK, DeleteRows
    <2>6. MarkerRows'
      BY <2>1, <2>4, <2>5 DEF MarkersNamed, MarkerRows, RowsKeep
    <2>7. MarkerCopies'
      BY <1>1, <2>4 DEF MarkersNamed, MarkerCopies, Recorded, RowsKeep
    <2>8. Holds("idle", NoReq, None, deletes')
      BY DEF Holds, NoReq
    <2>9. QED
      BY <1>1, <2>4, <2>6, <2>7, <2>8, MoveHolds DEF MarkersNamed, Return
  <1>6. QED
    BY <1>4, <1>5 DEF CommitDelete

\* Crashes, edits of the source and losses touch no row and write no marker.
LEMMA TroubleNamed ==
    ASSUME Wellformed, MarkersNamed, NEW p \in Procs, Crash(p) \/ \E c \in Contents : EditSource(p, c)
    PROVE  MarkersNamed'
  <1>1. CASE Crash(p)
    BY <1>1, ReturnNamed DEF Crash, agentVars, fileVars
  <1>2. CASE \E c \in Contents : EditSource(p, c)
    <2>1. PICK c \in Contents : EditSource(p, c)
      BY <1>2
    <2>2. /\ req[p].op = "upload" /\ req' = [req EXCEPT ![p].src = c]
          /\ UNCHANGED <<pc, obj, deletes, files, stored>>
      BY <2>1 DEF EditSource, agentVars, fileVars
    <2>3. pc[p] # "mark" /\ req[p] \in ReqRows
      BY <2>2, ProcHere DEF ProcAt
    <2>4. ASSUME NEW q \in Procs PROVE Holds(pc'[q], req'[q], obj'[q], deletes')
      <3>1. Holds(pc[q], req[q], obj[q], deletes)
        BY DEF MarkersNamed
      <3>2. CASE q # p
        BY <2>2, <3>1, <3>2 DEF Wellformed, TypeOK
      <3>3. CASE q = p
        <4>1. req'[p].op = "upload"
          BY <2>2, <2>3 DEF Wellformed, TypeOK, ReqRows
        <4>2. QED
          BY <2>2, <2>3, <3>1, <3>3, <4>1 DEF Holds
      <3>4. QED
        BY <3>2, <3>3
    <2>5. QED
      BY <2>2, <2>4, QuietNamed
  <1>3. QED
    BY <1>1, <1>2

LEMMA LossNamed ==
    ASSUME Wellformed, MarkersNamed, Loss
    PROVE  MarkersNamed'
  <1>1. UNCHANGED <<pc, req, obj, deletes, files>>
    BY DEF Loss, MountVolume, CorruptCopy, fileVars, procVars
  <1>2. \A q \in Procs : Holds(pc'[q], req'[q], obj'[q], deletes')
    BY <1>1 DEF MarkersNamed
  <1>3. ASSUME NEW a \in Agents, NEW v \in Volumes, NEW x \in Markers, stored'[a][v][x] # "none"
        PROVE  stored[a][v][x] # "none"
    <2>1. CASE UNCHANGED stored
      BY <1>3, <2>1
    <2>2. CASE \E b \in Agents, o \in Objects : CorruptCopy(b, o)
      <3>1. PICK b \in Agents, o \in Objects : CorruptCopy(b, o)
        BY <2>2
      <3>2. x \in Objects /\ stored[b][vol[b]][o] = "valid"
        BY <3>1, ObjectTypes DEF CorruptCopy, Valid
      <3>3. stored' = [stored EXCEPT ![b][vol[b]][o] = "corrupt"]
        BY <3>1 DEF CorruptCopy
      <3>4. QED
        BY <1>3, <3>2, <3>3 DEF Wellformed, TypeOK
    <2>3. QED
      BY <2>1, <2>2 DEF Loss, MountVolume
  <1>4. QED
    BY <1>1, <1>2, <1>3, QuietNamed

LEMMA NamedInit == Init => MarkersNamed
  <1> SUFFICES ASSUME Init PROVE MarkersNamed
    OBVIOUS
  <1>1. MarkerRows /\ MarkerCopies
    BY ObjectTypes DEF Init, MarkerRows, MarkerCopies
  <1>2. \A p \in Procs : Holds(pc[p], req[p], obj[p], deletes)
    BY DEF Init, Holds, NoReq
  <1>3. QED
    BY <1>1, <1>2 DEF MarkersNamed

LEMMA NamedStep == Wellformed /\ MarkersNamed /\ [Next]_vars => MarkersNamed'
  <1> SUFFICES ASSUME Wellformed, MarkersNamed, [Next]_vars PROVE MarkersNamed'
    OBVIOUS
  <1>1. ASSUME NEW p \in Procs, Step(p) PROVE MarkersNamed'
    BY <1>1, CreateDeleteNamed, VerifyNamed, UploadNamed, ReplicateNamed, CheckNamed, CommitFileNamed,
       CommitDeleteNamed DEF Step
  <1>2. ASSUME NEW p \in Procs, Request(p) PROVE MarkersNamed'
    BY <1>2, RequestNamed
  <1>3. ASSUME NEW p \in Procs, Trouble(p) PROVE MarkersNamed'
    BY <1>3, VerifyNamed, UploadNamed, ReplicateNamed, CheckNamed, TroubleNamed DEF Trouble
  <1>4. CASE Loss
    BY <1>4, LossNamed
  <1>5. CASE UNCHANGED vars
    <2>1. UNCHANGED <<pc, req, obj, deletes, files, stored>>
      BY <1>5 DEF vars, agentVars, fileVars, procVars
    <2>2. QED
      BY <2>1, QuietNamed DEF MarkersNamed
  <1>6. QED
    BY <1>1, <1>2, <1>3, <1>4, <1>5 DEF Next

\* Whatever processes delete a file under whatever keys, crash and retry, one
\* deletion marker of it is ever written to a volume (create_delete_operation,
\* pending_delete_marker).
THEOREM DeletesShareOneMarker == Spec => []OneMarker
  <1>1. ASSUME Wellformed, MarkersNamed PROVE OneMarker
    <2> SUFFICES ASSUME NEW f \in UploadKeys, NEW m \in 1..MaxMints, NEW n \in 1..MaxMints,
                        StoredSomewhere(Marker(f, m)), StoredSomewhere(Marker(f, n))
                 PROVE  m = n
      BY DEF OneMarker
    <2>1. Marker(f, m) \in Markers /\ Marker(f, n) \in Markers
      BY ObjectTypes
    <2>2. Recorded(Marker(f, m)) /\ Recorded(Marker(f, n))
      BY <1>1, <2>1 DEF StoredSomewhere, MarkersNamed, MarkerCopies
    <2>3. PICK d \in DeleteKeys : deletes[d] # None /\ deletes[d].marker = Marker(f, m)
      BY <2>2 DEF Recorded
    <2>4. PICK e \in DeleteKeys : deletes[e] # None /\ deletes[e].marker = Marker(f, n)
      BY <2>2 DEF Recorded
    <2>5. deletes[d].file = f /\ deletes[e].file = f
      BY <1>1, <2>3, <2>4 DEF MarkersNamed, MarkerRows, Marker
    <2>6. deletes[d].marker = deletes[e].marker
      BY <1>1, <2>3, <2>4, <2>5 DEF MarkersNamed, MarkerRows
    <2>7. QED
      BY <2>3, <2>4, <2>6 DEF Marker
  <1>2. QED
    BY <1>1, WellformedInit, WellformedStep, NamedInit, NamedStep, PTL DEF Spec
-----------------------------------------------------------------------------
(* What a commit rests on, as long as one process uploads.  The row of an   *)
(* upload keeps its plan: the content, the chunks and, once it has one, the *)
(* manifest.  Every chunk and manifest on a volume is of the plan, and the  *)
(* manifest that the live check read back is the one that is committed.     *)
(* With two uploading processes the UPDATE of advance_upload may take a row *)
(* back to a state in which set_manifest_plan replaces the manifest.        *)

OneUploader == \A p, q \in Uploaders : p = q

\* The states in which an upload has no manifest yet.
Early == {"staging", "replicating_chunks"}

\* A chunk is of the content its upload planned, a manifest the one it planned.
OfPlan(o, ups) ==
    /\ \A k \in UploadKeys, n \in Ordinals, c \in Contents :
         o = Chunk(k, n, c) => ups[k] # None /\ ups[k].content = c
    /\ \A k \in UploadKeys, m \in 1..MaxMints : o = Manifest(k, m) => ups[k] # None /\ ups[k].manifest = o

PlanRow(k, u) ==
    /\ u.state \in Early => u.manifest = None
    /\ u.manifest # None => \E m \in 1..MaxMints : u.manifest = Manifest(k, m)

PlanRows == \A k \in UploadKeys : uploads[k] # None => PlanRow(k, uploads[k])

PlannedCopies ==
    \A a \in Agents, v \in Volumes, o \in Objects : stored[a][v][o] # "none" => OfPlan(o, uploads)

\* What a process has in hand is of the plan, and so is what it read earlier.
InHand(p, l, r, o, ups) ==
    /\ l \in {"pend", "ensure", "put", "confirm"} => OfPlan(o, ups)
    /\ r.op = "upload" =>
         /\ p \in Uploaders
         /\ l = "advance" => ups[r.key].state \in Early
         /\ r.loaded # None /\ r.loaded.manifest # None => ups[r.key].manifest = r.loaded.manifest
         /\ r.manifest # None => ups[r.key] # None /\ ups[r.key].manifest = r.manifest

PlanKept == PlanRows /\ PlannedCopies /\ \A p \in Procs : InHand(p, pc[p], req[p], obj[p], uploads)

\* A row that was planned keeps its plan.
SamePlan(u, v) ==
    /\ v # None /\ v.content = u.content
    /\ u.manifest # None => v.manifest = u.manifest
    /\ \A n \in Ordinals : u.chunks[n] # None => v.chunks[n] = u.chunks[n]

PlansStay == \A k \in UploadKeys : uploads[k] # None => SamePlan(uploads[k], uploads'[k])

LEMMA OfPlanStays ==
    ASSUME PlansStay, NEW o, OfPlan(o, uploads)
    PROVE  OfPlan(o, uploads')
  <1>1. \A k \in UploadKeys, m \in 1..MaxMints : Manifest(k, m) # None
    BY ObjectTypes, NoneAssumption
  <1>2. QED
    BY <1>1 DEF OfPlan, PlansStay, SamePlan

\* What another process holds stays of the plan.
LEMMA InHandStays ==
    ASSUME Wellformed, PlansStay, NEW q \in Procs, InHand(q, pc[q], req[q], obj[q], uploads),
           req[q].op = "upload" /\ pc[q] = "advance" => uploads'[req[q].key].state \in Early
    PROVE  InHand(q, pc[q], req[q], obj[q], uploads')
  <1>1. OfPlan(obj[q], uploads) => OfPlan(obj[q], uploads')
    BY OfPlanStays
  <1>2. req[q].op = "upload" =>
          req[q].key \in UploadKeys /\ (req[q].loaded # None => uploads[req[q].key] # None)
    BY ProcHere DEF ProcAt
  <1>3. QED
    BY <1>1, <1>2 DEF InHand, PlansStay, SamePlan

\* A process moves while the plans stay.
LEMMA MovePlan ==
    ASSUME Wellformed, PlanKept, PlansStay, PlanRows', NEW p \in Procs, NEW l, NEW r, NEW o, NEW a,
           Move(p, l, r, o, a), InHand(p, l, r, o, uploads'),
           \A q \in Procs : q # p /\ req[q].op = "upload" => uploads' = uploads,
           \A b \in Agents, v \in Volumes, x \in Objects :
               stored'[b][v][x] # "none" => stored[b][v][x] # "none" \/ OfPlan(x, uploads')
    PROVE  PlanKept'
  <1>1. PlannedCopies'
    BY OfPlanStays DEF PlanKept, PlannedCopies
  <1>2. ASSUME NEW q \in Procs PROVE InHand(q, pc'[q], req'[q], obj'[q], uploads')
    <2>1. CASE q = p
      <3>1. pc'[p] = l /\ req'[p] = r /\ obj'[p] = o
        BY DEF Move, Wellformed, TypeOK
      <3>2. QED
        BY <2>1, <3>1
    <2>2. CASE q # p
      <3>1. pc'[q] = pc[q] /\ req'[q] = req[q] /\ obj'[q] = obj[q]
        BY <2>2 DEF Move, Wellformed, TypeOK
      <3>2. InHand(q, pc[q], req[q], obj[q], uploads)
        BY DEF PlanKept
      <3>3. req[q].op = "upload" /\ pc[q] = "advance" => uploads'[req[q].key].state \in Early
        BY <2>2, <3>2 DEF InHand
      <3>4. QED
        BY <3>1, <3>2, <3>3, InHandStays
    <2>3. QED
      BY <2>1, <2>2
  <1>3. QED
    BY <1>1, <1>2 DEF PlanKept

\* The same for a step that leaves rows and volumes alone.
LEMMA QuietPlan ==
    ASSUME Wellformed, PlanKept, NEW p \in Procs, NEW l, NEW r, NEW o, NEW a,
           Move(p, l, r, o, a), InHand(p, l, r, o, uploads), UNCHANGED <<uploads, stored>>
    PROVE  PlanKept'
  <1>1. PlansStay /\ PlanRows' /\ InHand(p, l, r, o, uploads')
    BY DEF PlansStay, SamePlan, PlanKept, PlanRows
  <1>2. QED
    BY <1>1, MovePlan

LEMMA ReturnPlan ==
    ASSUME Wellformed, PlanKept, NEW p \in Procs, Return(p), UNCHANGED <<uploads, stored>>
    PROVE  PlanKept'
  <1>1. InHand(p, "idle", NoReq, None, uploads)
    BY DEF InHand, NoReq
  <1>2. QED
    BY <1>1, QuietPlan DEF Return

\* The uploading process writes a row that keeps the plan.
LEMMA RowPlan ==
    ASSUME Wellformed, PlanKept, OneUploader, NEW p \in Procs, p \in Uploaders,
           NEW k \in UploadKeys, NEW row \in UploadRows, uploads' = [uploads EXCEPT ![k] = row],
           UNCHANGED stored, uploads[k] # None => SamePlan(uploads[k], row), PlanRow(k, row)
    PROVE  /\ PlansStay /\ uploads'[k] = row
           /\ \A l, r, o, a : Move(p, l, r, o, a) /\ InHand(p, l, r, o, uploads') => PlanKept'
  <1>1. uploads'[k] = row /\ \A e \in UploadKeys : e # k => uploads'[e] = uploads[e]
    BY DEF Wellformed, TypeOK
  <1>2. PlansStay /\ PlanRows'
    BY <1>1 DEF PlansStay, SamePlan, PlanKept, PlanRows
  <1>3. \A q \in Procs : q # p /\ req[q].op = "upload" => uploads' = uploads
    BY DEF PlanKept, InHand, OneUploader
  <1>4. QED
    BY <1>1, <1>2, <1>3, MovePlan

\* A process that stays in its call; what it replicates next is of the plan.
LEMMA SameCallInHand ==
    ASSUME PlanKept, NEW p \in Procs, NEW r, SameCall(req[p], r), NEW l, NEW o, l # "advance",
           l \in {"pend", "ensure", "put", "confirm"} => OfPlan(o, uploads)
    PROVE  InHand(p, l, r, o, uploads)
  <1>1. InHand(p, pc[p], req[p], obj[p], uploads)
    BY DEF PlanKept
  <1>2. QED
    BY <1>1 DEF InHand, SameCall

LEMMA MarkerOfPlan ==
    ASSUME NEW o \in Markers, NEW ups
    PROVE  OfPlan(o, ups)
  BY DEF OfPlan, Markers, Marker, Chunk, Manifest

\* Verifying the agents leaves the plans alone.
LEMMA VerifyPlan ==
    ASSUME Wellformed, PlanKept, NEW p \in Procs,
           VerifyAgent(p) \/ VerifyRefused(p) \/ VerifyUnreachable(p) \/ VerifyDone(p)
    PROVE  PlanKept'
  <1>1. pc[p] = "verify" /\ UNCHANGED <<uploads, stored>>
    BY DEF VerifyAgent, VerifyRefused, VerifyUnreachable, VerifyDone, agentVars, fileVars
  <1>2. req[p] \in ReqRows
    BY ProcHere
  <1>3. ASSUME NEW l \in {"verify", "plan"}, NEW r, SameCall(req[p], r), NEW a, Move(p, l, r, None, a)
        PROVE  PlanKept'
    <2>1. InHand(p, l, r, None, uploads)
      BY <1>3, SameCallInHand
    <2>2. QED
      BY <1>1, <1>3, <2>1, QuietPlan
  <1>4. CASE VerifyAgent(p)
    <2>1. \E S, a : Move(p, "verify", [req[p] EXCEPT !.live = S], None, a)
      BY <1>4, Zenon DEF VerifyAgent
    <2>2. QED
      BY <1>2, <1>3, <2>1, SameCallUpdate
  <1>5. CASE VerifyRefused(p)
    BY <1>1, <1>5, ReturnPlan DEF VerifyRefused
  <1>6. CASE VerifyUnreachable(p)
    BY <1>1, <1>2, <1>3, <1>6, ReturnPlan, SameCallUpdate DEF VerifyUnreachable
  <1>7. CASE VerifyDone(p)
    <2> DEFINE r == [req[p] EXCEPT !.live = {}]
    <2>1. SameCall(req[p], r)
      BY <1>2, SameCallUpdate
    <2> HIDE DEF r
    <2>2. req[p].op # "upload" => InHand(p, "pend", r, req[p].manifest, uploads)
      <3>1. req[p].op # "upload" => req[p].manifest \in Markers
        BY <1>1, <1>2, ProcHere DEF ProcAt, ReqRows
      <3>2. QED
        BY <2>1, <3>1, MarkerOfPlan, SameCallInHand
    <2>3. \/ Return(p) \/ Move(p, "plan", r, None, 1)
          \/ req[p].op # "upload" /\ Move(p, "pend", r, req[p].manifest, 1)
      BY <1>7 DEF VerifyDone, r
    <2>4. QED
      BY <1>1, <1>3, <2>1, <2>2, <2>3, ReturnPlan, QuietPlan
  <1>8. QED
    BY <1>4, <1>5, <1>6, <1>7

\* create_upload, on a key without a row.
LEMMA PlanUploadPlan ==
    ASSUME Wellformed, PlanKept, OneUploader, NEW p \in Procs, PlanUpload(p)
    PROVE  PlansStay /\ PlanKept'
  <1> DEFINE k == req[p].key
             row == [state |-> "staging", content |-> req[p].src,
                     chunks |-> [n \in Ordinals |-> None], manifest |-> None]
  <1>1. /\ req[p] \in ReqRows /\ req[p].op = "upload" /\ k \in UploadKeys /\ req[p].src \in Contents
        /\ pc[p] = "plan" /\ UNCHANGED stored
    BY ProcHere DEF PlanUpload, ProcAt, agentVars
  <1>2. InHand(p, pc[p], req[p], obj[p], uploads)
    BY DEF PlanKept
  <1>3. CASE /\ req[p].loaded = None /\ uploads[k] = None /\ uploads' = [uploads EXCEPT ![k] = row]
             /\ Move(p, "reload", req[p], None, 1)
    <2>1. row \in UploadRows /\ PlanRow(k, row)
      BY <1>1 DEF UploadRows, UploadStates, PlanRow
    <2>2. p \in Uploaders /\ req[p].manifest = None
      BY <1>1, <1>2, <1>3 DEF InHand
    <2> HIDE DEF row
    <2>3. InHand(p, "reload", req[p], None, uploads')
      BY <1>3, <2>2 DEF InHand
    <2>4. QED
      BY <1>1, <1>3, <2>1, <2>2, <2>3, RowPlan
  <1>4. CASE UNCHANGED uploads /\ (Return(p) \/ Move(p, "admit", req[p], None, 1))
    <2>1. InHand(p, "admit", req[p], None, uploads)
      BY <1>2 DEF InHand
    <2>2. QED
      BY <1>1, <1>4, <2>1, ReturnPlan, QuietPlan DEF PlansStay, SamePlan
  <1>5. QED
    BY <1>3, <1>4 DEF PlanUpload

\* The steps of an upload that write no row.
LEMMA UploadReadsPlan ==
    ASSUME Wellformed, PlanKept, NEW p \in Procs,
           ReloadUpload(p) \/ AdmitUpload(p) \/ AdmissionRefused(p) \/ ChunksDone(p)
    PROVE  PlanKept'
  <1>1. /\ pc[p] \in {"reload", "admit", "chunk"} /\ UNCHANGED <<uploads, stored>>
    BY DEF ReloadUpload, AdmitUpload, AdmissionRefused, ChunksDone, agentVars, fileVars
  <1>2. req[p] \in ReqRows /\ req[p].op = "upload" /\ req[p].key \in UploadKeys
    BY <1>1, ProcHere DEF ProcAt
  <1>3. InHand(p, pc[p], req[p], obj[p], uploads)
    BY DEF PlanKept
  <1>4. CASE ReloadUpload(p)
    <2> DEFINE r == [req[p] EXCEPT !.loaded = uploads[req[p].key]]
    <2>1. /\ r.op = "upload" /\ r.key = req[p].key /\ r.manifest = req[p].manifest
          /\ r.loaded = uploads[req[p].key]
      BY <1>2 DEF ReqRows
    <2>2. Move(p, "admit", r, None, 1)
      BY <1>4 DEF ReloadUpload
    <2> HIDE DEF r
    <2>3. InHand(p, "admit", r, None, uploads)
      BY <1>2, <1>3, <2>1 DEF InHand
    <2>4. QED
      BY <1>1, <2>2, <2>3, QuietPlan
  <1>5. CASE AdmitUpload(p)
    <2>1. \/ Return(p) \/ Move(p, "chunk", [req[p] EXCEPT !.n = 1], None, 1)
          \/ Permits(uploads[req[p].key].state, "replicating_chunks") /\ Move(p, "advance", req[p], None, 1)
      BY <1>5 DEF AdmitUpload
    <2>2. InHand(p, "chunk", [req[p] EXCEPT !.n = 1], None, uploads)
      BY <1>2, SameCallUpdate, SameCallInHand
    <2>3. Permits(uploads[req[p].key].state, "replicating_chunks") => InHand(p, "advance", req[p], None, uploads)
      BY <1>2, <1>3 DEF InHand, Permits, Early
    <2>4. QED
      BY <1>1, <2>1, <2>2, <2>3, ReturnPlan, QuietPlan
  <1>6. CASE AdmissionRefused(p) \/ ChunksDone(p)
    <2>1. InHand(p, "manifest", req[p], None, uploads)
      BY <1>2, SameCallUpdate, SameCallInHand
    <2>2. QED
      BY <1>1, <1>6, <2>1, ReturnPlan, QuietPlan DEF AdmissionRefused, ChunksDone
  <1>7. QED
    BY <1>4, <1>5, <1>6

\* The UPDATE of advance_upload finds the row without a manifest: the one
\* uploading process has not moved it since its SELECT.
LEMMA AdvancePlan ==
    ASSUME Wellformed, PlanKept, OneUploader, NEW p \in Procs, AdvanceUpload(p)
    PROVE  PlansStay /\ PlanKept'
  <1> DEFINE k == req[p].key
             row == [uploads[k] EXCEPT !.state = "replicating_chunks"]
             r == [req[p] EXCEPT !.n = 1]
  <1>1. /\ req[p] \in ReqRows /\ req[p].op = "upload" /\ k \in UploadKeys /\ uploads[k] # None
        /\ pc[p] = "advance" /\ UNCHANGED stored
    BY ProcHere DEF AdvanceUpload, ProcAt, agentVars
  <1>2. uploads[k] \in UploadRows
    BY <1>1 DEF Wellformed, TypeOK
  <1>3. InHand(p, "advance", req[p], obj[p], uploads)
    BY <1>1 DEF PlanKept
  <1>4. uploads[k].manifest = None /\ p \in Uploaders
    BY <1>1, <1>3 DEF InHand, PlanKept, PlanRows, PlanRow
  <1>5. row \in UploadRows /\ row.manifest = None /\ row.content = uploads[k].content /\ row.chunks = uploads[k].chunks
    BY <1>2, <1>4 DEF UploadRows, UploadStates
  <1>6. uploads' = [uploads EXCEPT ![k] = row] /\ Move(p, "chunk", r, None, 1)
    BY <1>1, <1>2 DEF AdvanceUpload, Wellformed, TypeOK, UploadRows
  <1>7. SameCall(req[p], r)
    BY <1>1, SameCallUpdate
  <1> HIDE DEF row, r
  <1>8. SamePlan(uploads[k], row) /\ PlanRow(k, row)
    BY <1>4, <1>5, NoneAssumption DEF SamePlan, PlanRow
  <1>9. uploads'[k] = row
    BY <1>1, <1>6 DEF Wellformed, TypeOK
  <1>10. InHand(p, "chunk", r, None, uploads')
    <2>1. InHand(p, "chunk", r, None, uploads)
      BY <1>7, SameCallInHand
    <2>2. r.key = k /\ row # None
      BY <1>5, <1>7, NoneAssumption DEF SameCall
    <2>3. QED
      BY <1>1, <1>4, <1>5, <1>9, <2>1, <2>2 DEF InHand
  <1>11. QED
    BY <1>1, <1>4, <1>5, <1>6, <1>8, <1>10, RowPlan

\* A chunk is encrypted only from the content that was planned.
LEMMA ReadChunkPlan ==
    ASSUME Wellformed, PlanKept, OneUploader, NEW p \in Procs, ReadChunk(p)
    PROVE  PlansStay /\ PlanKept'
  <1> DEFINE k == req[p].key
             n == req[p].n
             o == Chunk(k, n, req[p].src)
             row == [uploads[k] EXCEPT !.chunks = [@ EXCEPT ![n] = o]]
  <1>1. /\ req[p] \in ReqRows /\ req[p].op = "upload" /\ k \in UploadKeys /\ uploads[k] # None
        /\ req[p].src \in Contents /\ n \in Ordinals /\ pc[p] = "chunk" /\ UNCHANGED stored
    BY ProcHere DEF ReadChunk, ProcAt, agentVars
  <1>2. uploads[k] \in UploadRows /\ o \in Chunks
    BY <1>1, ObjectTypes DEF Wellformed, TypeOK
  <1>3. InHand(p, "chunk", req[p], obj[p], uploads)
    BY <1>1 DEF PlanKept
  <1>4. CASE /\ req[p].src = uploads[k].content /\ uploads[k].chunks[n] \in {None, o}
             /\ uploads' = [uploads EXCEPT ![k].chunks[n] = o] /\ Move(p, "pend", req[p], o, 1)
    <2>1. OfPlan(o, uploads)
      BY <1>1, <1>4 DEF OfPlan, Chunk, Manifest
    <2> HIDE DEF o
    <2>2. /\ row \in UploadRows /\ row.state = uploads[k].state /\ row.manifest = uploads[k].manifest
          /\ row.content = uploads[k].content
          /\ \A i \in Ordinals : uploads[k].chunks[i] # None => row.chunks[i] = uploads[k].chunks[i]
      BY <1>1, <1>2, <1>4 DEF UploadRows
    <2>3. uploads' = [uploads EXCEPT ![k] = row]
      BY <1>1, <1>2, <1>4 DEF Wellformed, TypeOK, UploadRows
    <2> HIDE DEF row
    <2>4. SamePlan(uploads[k], row) /\ PlanRow(k, row)
      BY <1>1, <2>2, NoneAssumption DEF SamePlan, PlanRow, PlanKept, PlanRows
    <2>5. p \in Uploaders
      BY <1>1, <1>3 DEF InHand
    <2>6. PlansStay /\ uploads'[k] = row
      BY <1>1, <2>2, <2>3, <2>4, <2>5, RowPlan
    <2>7. OfPlan(o, uploads') /\ row # None
      BY <2>1, <2>2, <2>6, OfPlanStays, NoneAssumption
    <2>8. InHand(p, "pend", req[p], o, uploads')
      BY <1>1, <1>3, <2>2, <2>6, <2>7 DEF InHand
    <2>9. QED
      BY <1>1, <1>4, <2>2, <2>3, <2>4, <2>5, <2>8, RowPlan
  <1>5. CASE Return(p) /\ UNCHANGED uploads
    BY <1>1, <1>5, ReturnPlan DEF PlansStay, SamePlan
  <1>6. QED
    BY <1>4, <1>5 DEF ReadChunk, SourceUnchanged

\* set_manifest_plan finds no manifest in the row, or the one that was loaded.
LEMMA PlanManifestPlan ==
    ASSUME Wellformed, PlanKept, OneUploader, NEW p \in Procs, PlanManifest(p)
    PROVE  PlansStay /\ PlanKept'
  <1> DEFINE k == req[p].key
             m == Manifest(k, minted + 1)
             row == [uploads[k] EXCEPT !.state = "replicating_manifest", !.manifest = m]
             r(x) == [req[p] EXCEPT !.manifest = x]
  <1>1. /\ req[p] \in ReqRows /\ req[p].op = "upload" /\ k \in UploadKeys /\ uploads[k] # None
        /\ req[p].loaded # None /\ pc[p] = "manifest" /\ UNCHANGED stored
    BY ProcHere DEF PlanManifest, ProcAt, agentVars
  <1>2. uploads[k] \in UploadRows
    BY <1>1 DEF Wellformed, TypeOK
  <1>3. InHand(p, "manifest", req[p], obj[p], uploads) /\ PlanRow(k, uploads[k])
    BY <1>1 DEF PlanKept, PlanRows
  <1>4. ASSUME NEW x PROVE /\ r(x).op = "upload" /\ r(x).key = k /\ r(x).manifest = x
                           /\ r(x).loaded = req[p].loaded
    BY <1>1 DEF ReqRows
  <1> HIDE DEF r
  <1>5. CASE /\ req[p].loaded.manifest # None /\ UNCHANGED uploads
             /\ Move(p, "pend", r(req[p].loaded.manifest), req[p].loaded.manifest, 1)
    <2>1. uploads[k].manifest = req[p].loaded.manifest /\ p \in Uploaders
      BY <1>1, <1>3, <1>5 DEF InHand
    <2>2. PICK x \in 1..MaxMints : req[p].loaded.manifest = Manifest(k, x)
      BY <1>3, <1>5, <2>1 DEF PlanRow
    <2>3. OfPlan(req[p].loaded.manifest, uploads)
      BY <1>1, <2>1, <2>2 DEF OfPlan, Chunk, Manifest
    <2>4. InHand(p, "pend", r(req[p].loaded.manifest), req[p].loaded.manifest, uploads)
      BY <1>1, <1>4, <2>1, <2>3 DEF InHand
    <2>5. QED
      BY <1>1, <1>5, <2>4, QuietPlan DEF PlansStay, SamePlan
  <1>6. CASE /\ req[p].loaded.manifest = None /\ uploads[k].state = "replicating_chunks" /\ minted < MaxMints
             /\ uploads' = [uploads EXCEPT ![k].state = "replicating_manifest", ![k].manifest = m]
             /\ Move(p, "pend", r(m), m, 1)
    <2>1. minted + 1 \in 1..MaxMints
      BY <1>6, ConstantsAssumption DEF Wellformed, TypeOK
    <2>2. m \in Manifests /\ uploads[k].manifest = None /\ p \in Uploaders
      BY <1>1, <1>3, <1>6, <2>1, ObjectTypes DEF PlanRow, Early, InHand
    <2>3. PlanRow(k, row)
      BY <1>2, <2>1 DEF PlanRow, Early, UploadRows
    <2>4. /\ \A e \in UploadKeys, i \in Ordinals, c \in Contents : m # Chunk(e, i, c)
          /\ \A e \in UploadKeys, i \in 1..MaxMints : m = Manifest(e, i) => e = k
      BY DEF Manifest, Chunk
    <2> HIDE DEF m
    <2>5. /\ row \in UploadRows /\ row.manifest = m /\ row.content = uploads[k].content
          /\ row.chunks = uploads[k].chunks
      BY <1>2, <2>2 DEF UploadRows, UploadStates
    <2>6. uploads' = [uploads EXCEPT ![k] = row]
      BY <1>1, <1>2, <1>6 DEF Wellformed, TypeOK, UploadRows
    <2> HIDE DEF row
    <2>7. SamePlan(uploads[k], row) /\ row # None
      BY <2>2, <2>5, NoneAssumption DEF SamePlan
    <2>8. PlansStay /\ uploads'[k] = row
      BY <1>1, <2>2, <2>3, <2>5, <2>6, <2>7, RowPlan
    <2>9. OfPlan(m, uploads')
      BY <2>4, <2>5, <2>7, <2>8 DEF OfPlan
    <2>10. InHand(p, "pend", r(m), m, uploads')
      <3>1. /\ r(m).key = k /\ r(m).manifest = m /\ r(m).loaded.manifest = None
        BY <1>4, <1>6
      <3>2. QED
        BY <2>2, <2>5, <2>7, <2>8, <2>9, <3>1 DEF InHand
    <2>11. QED
      BY <1>1, <1>6, <2>2, <2>3, <2>5, <2>6, <2>7, <2>10, RowPlan
  <1>7. CASE Return(p) /\ UNCHANGED uploads
    BY <1>1, <1>7, ReturnPlan DEF PlansStay, SamePlan
  <1>8. QED
    BY <1>5, <1>6, <1>7 DEF PlanManifest, r

\* replicate writes what the process has in hand.
LEMMA ReplicatePlan ==
    ASSUME Wellformed, PlanKept, NEW p \in Procs,
           \/ PendPlacement(p) \/ EnsurePlacement(p) \/ PutObject(p) \/ PutFailed(p)
           \/ ConfirmPlacement(p) \/ ReplicateDone(p)
    PROVE  PlanKept'
  <1>1. pc[p] \in {"pend", "ensure", "put", "confirm"} /\ UNCHANGED uploads
    BY DEF PendPlacement, EnsurePlacement, PutObject, PutFailed, ConfirmPlacement, ReplicateDone, fileVars
  <1>2. req[p] \in ReqRows /\ OfPlan(obj[p], uploads)
    BY <1>1, ProcHere DEF PlanKept, InHand
  <1>3. \/ Return(p)
        \/ \E l \in {"pend", "ensure", "put", "confirm", "chunk", "check"} : \E r, o, a :
             /\ SameCall(req[p], r) /\ Move(p, l, r, o, a)
             /\ l \in {"pend", "ensure", "put", "confirm"} => o = obj[p]
    BY ReplicateMoves
  <1>4. ASSUME NEW a \in Agents, NEW v \in Volumes, NEW x \in Objects, stored'[a][v][x] # "none"
        PROVE  stored[a][v][x] # "none" \/ OfPlan(x, uploads)
    <2>1. CASE stored' = stored
      BY <1>4, <2>1
    <2>2. CASE pc[p] = "put" /\ stored' = [stored EXCEPT ![at[p]][vol[at[p]]][obj[p]] = "valid"]
      <3>1. CASE x = obj[p]
        BY <1>2, <3>1
      <3>2. CASE x # obj[p]
        <4>1. stored'[a][v][x] = stored[a][v][x]
          BY <2>2, <3>2 DEF Wellformed, TypeOK
        <4>2. QED
          BY <1>4, <4>1
      <3>3. QED
        BY <3>1, <3>2
    <2>3. QED
      BY <2>1, <2>2 DEF PendPlacement, EnsurePlacement, PutObject, PutFailed, ConfirmPlacement, ReplicateDone,
         agentVars
  <1>5. PlansStay /\ PlanRows'
    BY <1>1 DEF PlansStay, SamePlan, PlanKept, PlanRows
  <1>6. CASE Return(p)
    <2>1. InHand(p, "idle", NoReq, None, uploads)
      BY DEF InHand, NoReq
    <2>2. QED
      BY <1>1, <1>4, <1>5, <1>6, <2>1, MovePlan DEF Return
  <1>7. CASE ~Return(p)
    <2>1. PICK l \in {"pend", "ensure", "put", "confirm", "chunk", "check"} : \E r, o, a :
             /\ SameCall(req[p], r) /\ Move(p, l, r, o, a)
             /\ l \in {"pend", "ensure", "put", "confirm"} => o = obj[p]
      BY <1>3, <1>7
    <2>2. PICK r, o, a : /\ SameCall(req[p], r) /\ Move(p, l, r, o, a)
                         /\ l \in {"pend", "ensure", "put", "confirm"} => o = obj[p]
      BY <2>1
    <2>3. InHand(p, l, r, o, uploads)
      BY <1>2, <2>2, SameCallInHand
    <2>4. QED
      BY <1>1, <1>4, <1>5, <2>2, <2>3, MovePlan
  <1>8. QED
    BY <1>6, <1>7

\* The live check leaves rows and volumes alone.
LEMMA CheckPlan ==
    ASSUME Wellformed, PlanKept, NEW p \in Procs,
           BeginCheck(p) \/ GetReplica(p) \/ GetFailed(p) \/ CheckDone(p)
    PROVE  PlanKept'
  <1>1. UNCHANGED <<uploads, stored>>
    BY DEF BeginCheck, GetReplica, GetFailed, CheckDone, agentVars, fileVars
  <1>2. ASSUME NEW l \in {"get", "check", "commit"}, NEW r, SameCall(req[p], r), NEW o, NEW a,
               Move(p, l, r, o, a)
        PROVE  PlanKept'
    <2>1. InHand(p, l, r, o, uploads)
      BY <1>2, SameCallInHand
    <2>2. QED
      BY <1>1, <1>2, <2>1, QuietPlan
  <1>3. QED
    BY <1>1, <1>2, CheckMoves, ReturnPlan

\* An upload begins with the row as it is.
LEMMA RequestPlan ==
    ASSUME Wellformed, PlanKept, NEW p \in Procs, Request(p)
    PROVE  PlanKept'
  <1>1. CASE \E k \in UploadKeys, c \in Contents : StartUpload(p, k, c)
    <2>1. PICK k \in UploadKeys, c \in Contents : StartUpload(p, k, c)
      BY <1>1
    <2> DEFINE r == [NoReq EXCEPT !.op = "upload", !.key = k, !.file = k, !.src = c, !.loaded = uploads[k]]
    <2>2. Move(p, "verify", r, None, 1) /\ p \in Uploaders /\ UNCHANGED <<uploads, stored>>
      BY <2>1 DEF StartUpload, agentVars, fileVars
    <2>3. r.key = k /\ r.loaded = uploads[k] /\ r.manifest = None
      BY DEF NoReq
    <2> HIDE DEF r
    <2>4. InHand(p, "verify", r, None, uploads)
      BY <2>2, <2>3 DEF InHand
    <2>5. QED
      BY <2>2, <2>4, QuietPlan
  <1>2. CASE \E d \in DeleteKeys, f \in UploadKeys : StartDelete(p, d, f)
    <2>1. PICK d \in DeleteKeys, f \in UploadKeys : StartDelete(p, d, f)
      BY <1>2
    <2> DEFINE r(m) == [NoReq EXCEPT !.op = "delete", !.key = d, !.file = f, !.manifest = m]
    <2>2. UNCHANGED <<uploads, stored>>
      BY <2>1 DEF StartDelete, agentVars, fileVars
    <2>3. \A m : r(m).op = "delete"
      BY DEF NoReq
    <2>4. \E l \in {"verify", "mark"} : \E m : Move(p, l, r(m), None, 1)
      <3>1. \/ Move(p, "verify", r(deletes[d].marker), None, 1)
            \/ \E m \in PendingMarkers(f, files[f].gen + 1) \cup {None} : Move(p, "mark", r(m), None, 1)
        BY <2>1 DEF StartDelete
      <3> HIDE DEF r
      <3>2. QED
        BY <3>1
    <2> HIDE DEF r
    <2>5. \A l \in {"verify", "mark"} : \A m : InHand(p, l, r(m), None, uploads)
      BY <2>3 DEF InHand
    <2>6. QED
      BY <2>2, <2>4, <2>5, QuietPlan
  <1>3. QED
    BY <1>1, <1>2 DEF Request

LEMMA CreateDeletePlan ==
    ASSUME Wellformed, PlanKept, NEW p \in Procs, CreateDelete(p)
    PROVE  PlanKept'
  <1>1. req[p] \in ReqRows /\ req[p].op = "delete" /\ UNCHANGED <<uploads, stored>>
    BY ProcHere DEF CreateDelete, ProcAt, agentVars
  <1>2. Return(p) \/ \E m : Move(p, "verify", [req[p] EXCEPT !.manifest = m], None, 1)
    BY Zenon DEF CreateDelete
  <1>3. \A m : [req[p] EXCEPT !.manifest = m].op = "delete"
    BY <1>1 DEF ReqRows
  <1>4. \A m : InHand(p, "verify", [req[p] EXCEPT !.manifest = m], None, uploads)
    BY <1>3 DEF InHand
  <1>5. QED
    BY <1>1, <1>2, <1>4, ReturnPlan, QuietPlan

\* commit_file moves the row on and keeps its plan.
LEMMA CommitFilePlan ==
    ASSUME Wellformed, PlanKept, OneUploader, NEW p \in Procs, CommitFile(p)
    PROVE  PlansStay /\ PlanKept'
  <1> DEFINE k == req[p].key
             row == [uploads[k] EXCEPT !.state = "committed"]
  <1>1. /\ req[p].op = "upload" /\ k \in UploadKeys /\ uploads[k] # None
        /\ pc[p] = "commit" /\ UNCHANGED stored /\ Return(p)
    BY ProcHere DEF CommitFile, ProcAt, agentVars
  <1>2. uploads[k] \in UploadRows
    BY <1>1 DEF Wellformed, TypeOK
  <1>3. InHand(p, pc[p], req[p], obj[p], uploads) /\ PlanRow(k, uploads[k])
    BY <1>1 DEF PlanKept, PlanRows
  <1>4. CASE uploads' = [uploads EXCEPT ![k].state = "committed"]
    <2>1. /\ row \in UploadRows /\ row.manifest = uploads[k].manifest /\ row.content = uploads[k].content
          /\ row.chunks = uploads[k].chunks /\ row.state = "committed"
      BY <1>2 DEF UploadRows, UploadStates
    <2>2. uploads' = [uploads EXCEPT ![k] = row]
      BY <1>1, <1>2, <1>4 DEF Wellformed, TypeOK, UploadRows
    <2> HIDE DEF row
    <2>3. SamePlan(uploads[k], row) /\ PlanRow(k, row)
      BY <1>3, <2>1, NoneAssumption DEF SamePlan, PlanRow, Early
    <2>4. p \in Uploaders
      BY <1>1, <1>3 DEF InHand
    <2>5. InHand(p, "idle", NoReq, None, uploads')
      BY DEF InHand, NoReq
    <2>6. QED
      BY <1>1, <2>1, <2>2, <2>3, <2>4, <2>5, RowPlan DEF Return
  <1>5. CASE UNCHANGED uploads
    BY <1>1, <1>5, ReturnPlan DEF PlansStay, SamePlan
  <1>6. QED
    BY <1>4, <1>5 DEF CommitFile

\* Deletes, crashes and edits of the source touch no row of an upload.
LEMMA TroublePlan ==
    ASSUME Wellformed, PlanKept, NEW p \in Procs,
           CommitDelete(p) \/ Crash(p) \/ \E c \in Contents : EditSource(p, c)
    PROVE  PlanKept'
  <1>1. CASE CommitDelete(p) \/ Crash(p)
    BY <1>1, ReturnPlan DEF CommitDelete, Crash, agentVars, fileVars
  <1>2. CASE \E c \in Contents : EditSource(p, c)
    <2>1. PICK c \in Contents : EditSource(p, c)
      BY <1>2
    <2>2. req' = [req EXCEPT ![p].src = c] /\ UNCHANGED <<pc, obj, uploads, stored>>
      BY <2>1 DEF EditSource, agentVars, fileVars
    <2>3. req[p] \in ReqRows
      BY ProcHere
    <2>4. ASSUME NEW q \in Procs PROVE InHand(q, pc'[q], req'[q], obj'[q], uploads')
      <3>1. InHand(q, pc[q], req[q], obj[q], uploads)
        BY DEF PlanKept
      <3>2. /\ req'[q].op = req[q].op /\ req'[q].key = req[q].key
            /\ req'[q].loaded = req[q].loaded /\ req'[q].manifest = req[q].manifest
        BY <2>2, <2>3 DEF Wellformed, TypeOK, ReqRows
      <3>3. QED
        BY <2>2, <3>1, <3>2 DEF InHand
    <2>5. PlanRows' /\ PlannedCopies'
      BY <2>2 DEF PlanKept, PlanRows, PlannedCopies
    <2>6. QED
      BY <2>4, <2>5 DEF PlanKept
  <1>3. QED
    BY <1>1, <1>2

LEMMA LossPlan ==
    ASSUME Wellformed, PlanKept, Loss
    PROVE  PlanKept'
  <1>1. UNCHANGED <<pc, req, obj, uploads>>
    BY DEF Loss, MountVolume, CorruptCopy, fileVars, procVars
  <1>2. ASSUME NEW a \in Agents, NEW v \in Volumes, NEW x \in Objects, stored'[a][v][x] # "none"
        PROVE  stored[a][v][x] # "none"
    <2>1. CASE UNCHANGED stored
      BY <1>2, <2>1
    <2>2. CASE \E b \in Agents, o \in Objects : CorruptCopy(b, o)
      <3>1. PICK b \in Agents, o \in Objects : CorruptCopy(b, o)
        BY <2>2
      <3>2. stored[b][vol[b]][o] = "valid" /\ stored' = [stored EXCEPT ![b][vol[b]][o] = "corrupt"]
        BY <3>1 DEF CorruptCopy, Valid
      <3>3. QED
        BY <1>2, <3>2 DEF Wellformed, TypeOK
    <2>3. QED
      BY <2>1, <2>2 DEF Loss, MountVolume
  <1>3. PlannedCopies' /\ PlanRows'
    BY <1>1, <1>2 DEF PlanKept, PlannedCopies, PlanRows
  <1>4. QED
    BY <1>1, <1>3 DEF PlanKept

\* The other steps leave the rows of uploads alone.
LEMMA PlansStayStep ==
    ASSUME Wellformed, PlanKept, OneUploader, [Next]_vars
    PROVE  PlansStay
  <1>1. CASE UNCHANGED uploads
    BY <1>1 DEF PlansStay, SamePlan
  <1>2. ASSUME NEW p \in Procs, Step(p) PROVE PlansStay
    <2>1. CASE PlanUpload(p) \/ AdvanceUpload(p) \/ ReadChunk(p) \/ PlanManifest(p) \/ CommitFile(p)
      BY <2>1, PlanUploadPlan, AdvancePlan, ReadChunkPlan, PlanManifestPlan, CommitFilePlan
    <2>2. CASE ~(PlanUpload(p) \/ AdvanceUpload(p) \/ ReadChunk(p) \/ PlanManifest(p) \/ CommitFile(p))
      <3>1. UNCHANGED uploads
        BY <1>2, <2>2 DEF Step, CreateDelete, VerifyAgent, VerifyRefused, VerifyDone, ReloadUpload, AdmitUpload,
           ChunksDone, PendPlacement, EnsurePlacement, PutObject, ConfirmPlacement, ReplicateDone, BeginCheck,
           GetReplica, CheckDone, CommitDelete, fileVars
      <3>2. QED
        BY <1>1, <3>1
    <2>3. QED
      BY <2>1, <2>2
  <1>3. ASSUME NEW p \in Procs, Request(p) \/ Trouble(p) PROVE UNCHANGED uploads
    BY <1>3 DEF Request, StartUpload, StartDelete, Trouble, VerifyUnreachable, AdmissionRefused, PutFailed,
       GetFailed, Crash, EditSource, fileVars
  <1>4. CASE Loss \/ UNCHANGED vars
    <2>1. UNCHANGED uploads
      BY <1>4 DEF Loss, MountVolume, CorruptCopy, fileVars, vars
    <2>2. QED
      BY <1>1, <2>1
  <1>5. QED
    BY <1>1, <1>2, <1>3, <1>4 DEF Next

LEMMA PlanInit == Init => PlanKept
  <1> SUFFICES ASSUME Init PROVE PlanKept
    OBVIOUS
  <1>1. PlanRows /\ PlannedCopies
    BY DEF Init, PlanRows, PlannedCopies
  <1>2. \A p \in Procs : InHand(p, pc[p], req[p], obj[p], uploads)
    BY DEF Init, InHand, NoReq
  <1>3. QED
    BY <1>1, <1>2 DEF PlanKept

LEMMA PlanStep == Wellformed /\ PlanKept /\ OneUploader /\ [Next]_vars => PlanKept'
  <1> SUFFICES ASSUME Wellformed, PlanKept, OneUploader, [Next]_vars PROVE PlanKept'
    OBVIOUS
  <1>1. ASSUME NEW p \in Procs, Step(p) PROVE PlanKept'
    BY <1>1, CreateDeletePlan, VerifyPlan, PlanUploadPlan, UploadReadsPlan, AdvancePlan, ReadChunkPlan,
       PlanManifestPlan, ReplicatePlan, CheckPlan, CommitFilePlan, TroublePlan DEF Step
  <1>2. ASSUME NEW p \in Procs, Request(p) PROVE PlanKept'
    BY <1>2, RequestPlan
  <1>3. ASSUME NEW p \in Procs, Trouble(p) PROVE PlanKept'
    BY <1>3, VerifyPlan, UploadReadsPlan, ReplicatePlan, CheckPlan, TroublePlan DEF Trouble
  <1>4. CASE Loss
    BY <1>4, LossPlan
  <1>5. CASE UNCHANGED vars
    <2>1. UNCHANGED <<pc, req, obj, uploads, stored>>
      BY <1>5 DEF vars, agentVars, fileVars, procVars
    <2>2. QED
      BY <2>1 DEF PlanKept, PlanRows, PlannedCopies
  <1>6. QED
    BY <1>1, <1>2, <1>3, <1>4, <1>5 DEF Next
-----------------------------------------------------------------------------
(* The live check.  An object that was read back in two failure domains     *)
(* stays valid there, but for the agents that lost data since.              *)

\* The agents that serve an object or lost data in L.
Fine(L) == [o \in Objects |-> {a \in Agents : a \in L \/ Valid(a, o)}]
TwoFine(F, o) == \E a, b \in F[o] : Domain[a] # Domain[b]

\* The j-th object of the live check; the manifest or marker is number 0.
ToCheck(r, j, ups) == IF j = 0 THEN r.manifest ELSE ups[r.key].chunks[j]
Passed(r, j, ups, F) == ToCheck(r, j, ups) \in Objects /\ TwoFine(F, ToCheck(r, j, ups))
LastOf(r) == IF r.op = "delete" THEN 0 ELSE NumChunks

CheckedAt(l, r, o, ups, F) ==
    /\ l \in {"check", "get"} => \A j \in 0..(r.n - 1) : Passed(r, j, ups, F)
    /\ l = "get" => /\ o = ToCheck(r, r.n, ups)
                    /\ \A d \in r.live : \E a \in F[o] : Domain[a] = d
    /\ l = "commit" => \A j \in 0..LastOf(r) : Passed(r, j, ups, F)

Checked == LiveFloor /\ \A p \in Procs : CheckedAt(pc[p], req[p], obj[p], uploads, Fine(lostSince[p]))

FloorMet(f) == \A o \in CurrentObjects(f) : o \in Objects /\ TwoFine(Fine(lostAfter[f]), o)

\* Nothing more is missing.
Wider(F, G) == \A o \in Objects : F[o] \subseteq G[o]

LEMMA WiderTwo ==
    ASSUME NEW F, NEW G, Wider(F, G), NEW o \in Objects, TwoFine(F, o)
    PROVE  TwoFine(G, o)
  BY DEF Wider, TwoFine

LEMMA FloorParts ==
    ASSUME Wellformed, LiveFloor
    PROVE  \A f \in UploadKeys : FloorMet(f)
  BY CurrentObjectsType DEF LiveFloor, FloorMet, TwoFine, Fine

\* What the check of a process has found stays found.
LEMMA CheckedStays ==
    ASSUME Wellformed, PlansStay, NEW q \in Procs, NEW F, NEW G, Wider(F, G),
           CheckedAt(pc[q], req[q], obj[q], uploads, F)
    PROVE  CheckedAt(pc[q], req[q], obj[q], uploads', G)
  <1> DEFINE r == req[q]
             l == pc[q]
  <1>1. CASE l \notin {"check", "get", "commit"}
    BY <1>1 DEF CheckedAt
  <1>2. CASE l \in {"check", "get", "commit"}
    <2>1. /\ r.op \in {"upload", "delete"}
          /\ r.op = "upload" => r.key \in UploadKeys /\ uploads[r.key] # None
          /\ l = "get" => obj[q] \in Objects
          /\ l \in {"check", "get"} => r.n = 0 \/ (r.op = "upload" /\ r.n \in Ordinals)
      BY <1>2, ProcHere DEF ProcAt, ReqRows
    <2>2. ASSUME NEW j, j = 0 \/ (r.op = "upload" /\ j \in Ordinals), ToCheck(r, j, uploads) \in Objects
          PROVE  ToCheck(r, j, uploads') = ToCheck(r, j, uploads)
      BY <2>1, <2>2, NoneAssumption DEF ToCheck, PlansStay, SamePlan
    <2>3. ASSUME NEW j, j = 0 \/ (r.op = "upload" /\ j \in Ordinals), Passed(r, j, uploads, F)
          PROVE  Passed(r, j, uploads', G)
      BY <2>2, <2>3, WiderTwo DEF Passed
    <2>4. /\ l \in {"check", "get"} => \A j \in 0..(r.n - 1) : j = 0 \/ (r.op = "upload" /\ j \in Ordinals)
          /\ \A j \in 0..LastOf(r) : j = 0 \/ (r.op = "upload" /\ j \in Ordinals)
      BY <2>1, ConstantsAssumption DEF Ordinals, LastOf
    <2>5. l = "get" => /\ obj[q] = ToCheck(r, r.n, uploads')
                       /\ \A d \in r.live : \E a \in G[obj[q]] : Domain[a] = d
      BY <2>1, <2>2 DEF CheckedAt, Wider
    <2> HIDE DEF r, l
    <2>6. CheckedAt(l, r, obj[q], uploads, F)
      BY DEF r, l
    <2>7. CheckedAt(l, r, obj[q], uploads', G)
      BY <2>3, <2>4, <2>5, <2>6 DEF CheckedAt
    <2>8. QED
      BY <2>7 DEF r, l
  <1>3. QED
    BY <1>1, <1>2

\* A step after which every agent serves what it served.
ValidStays == \A a \in Agents, o \in Objects : Valid(a, o) => Valid(a, o)'

\* What a file that stays as it is rests on.
LEMMA CurrentStays ==
    ASSUME Wellformed, PlansStay, NEW f \in UploadKeys, files'[f] = files[f]
    PROVE  CurrentObjects(f)' = CurrentObjects(f)
  <1>1. files[f] # None => \A n \in Ordinals : uploads'[f].chunks[n] = uploads[f].chunks[n]
    BY DEF Wellformed, TablesOK, PlansStay, SamePlan
  <1>2. {uploads'[f].chunks[n] : n \in Ordinals} = {uploads[f].chunks[n] : n \in Ordinals} \/ files[f] = None
    BY <1>1
  <1>3. QED
    BY <1>2 DEF CurrentObjects

\* The floor of one file, before and after a step that leaves it alone.
LEMMA FloorStays ==
    ASSUME Wellformed, PlansStay, NEW f \in UploadKeys, files'[f] = files[f], FloorMet(f),
           Wider(Fine(lostAfter[f]), Fine(lostAfter[f])')
    PROVE  FloorMet(f)'
  <1>1. CurrentObjects(f)' = CurrentObjects(f) /\ CurrentObjects(f) \subseteq Objects
    BY CurrentStays, CurrentObjectsType
  <1>2. \A o \in CurrentObjects(f) : TwoFine(Fine(lostAfter[f])', o)
    BY <1>1, WiderTwo DEF FloorMet
  <1>3. QED
    BY <1>1, <1>2 DEF FloorMet

\* One process moves; the others find what they found, and so do the files
\* that the step leaves alone.
LEMMA OthersChecked ==
    ASSUME Wellformed, Checked, PlansStay, ValidStays, NEW p \in Procs, NEW l, NEW r, NEW o, NEW a,
           Move(p, l, r, o, a), \A q \in Procs : q # p => lostSince'[q] = lostSince[q],
           CheckedAt(l, r, o, uploads', Fine(lostSince[p])')
    PROVE  /\ \A q \in Procs : CheckedAt(pc'[q], req'[q], obj'[q], uploads', Fine(lostSince[q])')
           /\ \A f \in UploadKeys : files'[f] = files[f] /\ lostAfter'[f] = lostAfter[f] => FloorMet(f)'
  <1>1. ASSUME NEW q \in Procs PROVE CheckedAt(pc'[q], req'[q], obj'[q], uploads', Fine(lostSince[q])')
    <2>1. CASE q = p
      <3>1. pc'[p] = l /\ req'[p] = r /\ obj'[p] = o
        BY DEF Move, Wellformed, TypeOK
      <3>2. QED
        BY <2>1, <3>1
    <2>2. CASE q # p
      <3>1. pc'[q] = pc[q] /\ req'[q] = req[q] /\ obj'[q] = obj[q]
        BY <2>2 DEF Move, Wellformed, TypeOK
      <3>2. Wider(Fine(lostSince[q]), Fine(lostSince[q])')
        BY <2>2 DEF Wider, Fine, ValidStays
      <3>3. CheckedAt(pc[q], req[q], obj[q], uploads, Fine(lostSince[q]))
        BY DEF Checked
      <3>4. QED
        BY <3>1, <3>2, <3>3, CheckedStays
    <2>3. QED
      BY <2>1, <2>2
  <1>2. ASSUME NEW f \in UploadKeys, files'[f] = files[f], lostAfter'[f] = lostAfter[f] PROVE FloorMet(f)'
    <2>1. Wider(Fine(lostAfter[f]), Fine(lostAfter[f])')
      BY <1>2 DEF Wider, Fine, ValidStays
    <2>2. FloorMet(f)
      BY FloorParts DEF Checked
    <2>3. QED
      BY <1>2, <2>1, <2>2, FloorStays
  <1>3. QED
    BY <1>1, <1>2

LEMMA PartsChecked ==
    ASSUME \A f \in UploadKeys : FloorMet(f)',
           \A q \in Procs : CheckedAt(pc'[q], req'[q], obj'[q], uploads', Fine(lostSince[q])')
    PROVE  Checked'
  <1>1. LiveFloor'
    <2> SUFFICES ASSUME NEW f \in UploadKeys, NEW o \in CurrentObjects(f)'
                 PROVE  \E a, b \in Agents : /\ Domain[a] # Domain[b]
                                             /\ \A x \in {a, b} : x \in lostAfter'[f] \/ Valid(x, o)'
      BY DEF LiveFloor
    <2>1. o \in Objects /\ TwoFine(Fine(lostAfter[f])', o)
      BY DEF FloorMet
    <2>2. PICK a, b \in Fine(lostAfter[f])'[o] : Domain[a] # Domain[b]
      BY <2>1 DEF TwoFine
    <2>3. \A x \in {a, b} : x \in Agents /\ (x \in lostAfter'[f] \/ Valid(x, o)')
      BY <2>1, <2>2 DEF Fine
    <2>4. QED
      BY <2>2, <2>3
  <1>2. QED
    BY <1>1 DEF Checked

\* A step that leaves the files alone.
LEMMA MoveChecked ==
    ASSUME Wellformed, Checked, PlansStay, ValidStays, NEW p \in Procs, NEW l, NEW r, NEW o, NEW a,
           Move(p, l, r, o, a), UNCHANGED <<files, lostAfter>>,
           \A q \in Procs : q # p => lostSince'[q] = lostSince[q],
           CheckedAt(l, r, o, uploads', Fine(lostSince[p])')
    PROVE  Checked'
  <1>1. /\ \A q \in Procs : CheckedAt(pc'[q], req'[q], obj'[q], uploads', Fine(lostSince[q])')
        /\ \A f \in UploadKeys : FloorMet(f)'
    BY OthersChecked
  <1>2. QED
    BY <1>1, PartsChecked

\* A step to a place outside the live check.
LEMMA OutsideChecked ==
    ASSUME Wellformed, Checked, PlansStay, ValidStays, NEW p \in Procs, NEW l, NEW r, NEW o, NEW a,
           Move(p, l, r, o, a), l \notin {"check", "get", "commit"}, UNCHANGED <<files, lostAfter, lostSince>>
    PROVE  Checked'
  <1>1. CheckedAt(l, r, o, uploads', Fine(lostSince[p])')
    BY DEF CheckedAt
  <1>2. QED
    BY <1>1, MoveChecked

LEMMA ReturnChecked ==
    ASSUME Wellformed, Checked, PlansStay, ValidStays, NEW p \in Procs, Return(p),
           UNCHANGED <<files, lostAfter, lostSince>>
    PROVE  Checked'
  BY OutsideChecked DEF Return

\* Only losses take an object from an agent.
LEMMA ValidStaysStep ==
    ASSUME Wellformed, NEW p \in Procs, Step(p) \/ Request(p) \/ Trouble(p)
    PROVE  ValidStays
  <1>1. CASE UNCHANGED agentVars
    BY <1>1 DEF agentVars, ValidStays, Valid
  <1>2. CASE PutObject(p) \/ PutFailed(p)
    <2>1. /\ pc[p] = "put" /\ UNCHANGED vol
          /\ stored' \in {stored, [stored EXCEPT ![at[p]][vol[at[p]]][obj[p]] = "valid"]}
      BY <1>2 DEF PutObject, PutFailed
    <2>2. at[p] \in Agents /\ obj[p] \in Objects
      BY <2>1, ProcHere DEF ProcAt
    <2>3. CASE Writes(at[p], obj[p], "valid")
      <3>1. /\ stored'[at[p]][vol[at[p]]][obj[p]] = "valid"
            /\ \A b \in Agents, i \in Volumes, x \in Objects :
                 b # at[p] \/ i # vol[at[p]] \/ x # obj[p] => stored'[b][i][x] = stored[b][i][x]
        BY <2>2, <2>3, StoredUpdate DEF Wellformed
      <3>2. \A b \in Agents : vol[b] \in Volumes
        BY DEF Wellformed, TypeOK
      <3>3. QED
        BY <2>1, <3>1, <3>2 DEF ValidStays, Valid
    <2>4. CASE stored' = stored
      BY <2>1, <2>4 DEF ValidStays, Valid
    <2>5. QED
      BY <2>1, <2>3, <2>4 DEF Writes
  <1>3. QED
    BY <1>1, <1>2 DEF Step, Request, Trouble, CreateDelete, VerifyAgent, VerifyRefused, VerifyDone, PlanUpload,
       ReloadUpload, AdmitUpload, AdvanceUpload, ReadChunk, ChunksDone, PlanManifest, PendPlacement,
       EnsurePlacement, ConfirmPlacement, ReplicateDone, BeginCheck, GetReplica, CheckDone, CommitFile,
       CommitDelete, StartUpload, StartDelete, VerifyUnreachable, AdmissionRefused, GetFailed, Crash, EditSource

\* Steps before the live check.
LEMMA BeforeChecked ==
    ASSUME Wellformed, Checked, PlansStay, NEW p \in Procs,
           \/ CreateDelete(p) \/ VerifyAgent(p) \/ VerifyRefused(p) \/ VerifyDone(p)
           \/ PlanUpload(p) \/ ReloadUpload(p) \/ AdmitUpload(p) \/ AdvanceUpload(p)
           \/ ReadChunk(p) \/ ChunksDone(p) \/ PlanManifest(p)
           \/ Request(p) \/ VerifyUnreachable(p) \/ AdmissionRefused(p) \/ Crash(p)
    PROVE  Checked'
  <1>1. ValidStays
    BY ValidStaysStep DEF Step, Trouble
  <1>2. UNCHANGED <<files, lostAfter, lostSince>>
    BY DEF CreateDelete, VerifyAgent, VerifyRefused, VerifyDone, PlanUpload, ReloadUpload, AdmitUpload,
       AdvanceUpload, ReadChunk, ChunksDone, PlanManifest, Request, StartUpload, StartDelete, VerifyUnreachable,
       AdmissionRefused, Crash, Hiccup, fileVars, envVars
  <1> DEFINE Out == {"idle", "verify", "plan", "pend", "reload", "admit", "advance", "chunk", "manifest", "mark"}
  <1>3. \E l \in Out : \E r, o, a : Move(p, l, r, o, a)
    <2>1. CASE VerifyAgent(p) \/ VerifyRefused(p) \/ VerifyDone(p) \/ VerifyUnreachable(p)
      BY <2>1, Zenon DEF VerifyAgent, VerifyRefused, VerifyDone, VerifyUnreachable, Return
    <2>2. CASE PlanUpload(p) \/ ReloadUpload(p) \/ AdmitUpload(p) \/ AdvanceUpload(p) \/ AdmissionRefused(p)
      BY <2>2, Zenon DEF PlanUpload, ReloadUpload, AdmitUpload, AdvanceUpload, AdmissionRefused, Return
    <2>3. CASE ReadChunk(p) \/ ChunksDone(p) \/ PlanManifest(p) \/ CreateDelete(p) \/ Crash(p)
      BY <2>3, Zenon DEF ReadChunk, ChunksDone, PlanManifest, CreateDelete, Crash, Return
    <2>4. CASE Request(p)
      BY <2>4, Zenon DEF Request, StartUpload, StartDelete
    <2>5. QED
      BY <2>1, <2>2, <2>3, <2>4
  <1>4. PICK l \in Out : \E r, o, a : Move(p, l, r, o, a)
    BY <1>3
  <1>5. QED
    BY <1>1, <1>2, <1>4, OutsideChecked

\* replicate ends where the live check begins.
LEMMA ReplicateChecked ==
    ASSUME Wellformed, Checked, PlansStay, NEW p \in Procs,
           \/ PendPlacement(p) \/ EnsurePlacement(p) \/ PutObject(p) \/ PutFailed(p)
           \/ ConfirmPlacement(p) \/ ReplicateDone(p)
    PROVE  Checked'
  <1>1. ValidStays
    BY ValidStaysStep DEF Step, Trouble
  <1>2. UNCHANGED <<files, lostAfter, lostSince>>
    BY DEF PendPlacement, EnsurePlacement, PutObject, PutFailed, ConfirmPlacement, ReplicateDone, Hiccup,
       fileVars, envVars
  <1>3. CASE Return(p)
    BY <1>1, <1>2, <1>3, ReturnChecked
  <1>4. CASE ~Return(p)
    <2>1. PICK l \in {"pend", "ensure", "put", "confirm", "chunk", "check"} : \E r, o, a :
            Move(p, l, r, o, a) /\ (l = "check" => r.n = 0)
      BY <1>4, ReplicateMoves
    <2>2. PICK r, o, a : Move(p, l, r, o, a) /\ (l = "check" => r.n = 0)
      BY <2>1
    <2>3. CheckedAt(l, r, o, uploads', Fine(lostSince[p])')
      BY <2>2 DEF CheckedAt
    <2>4. QED
      BY <1>1, <1>2, <2>2, <2>3, MoveChecked
  <1>5. QED
    BY <1>3, <1>4

\* The object that was just read back passed too.
LEMMA CheckedToo ==
    ASSUME NEW p \in Procs, req[p].n \in Nat, obj[p] \in Objects, LiveDomainsMet(p), NEW F,
           CheckedAt("get", req[p], obj[p], uploads, F)
    PROVE  \A j \in 0..req[p].n : Passed(req[p], j, uploads, F)
  <1>1. PICK d, e \in req[p].live : d # e
    BY DEF LiveDomainsMet, AtLeastTwo
  <1>2. TwoFine(F, obj[p]) /\ obj[p] = ToCheck(req[p], req[p].n, uploads)
    BY <1>1 DEF CheckedAt, TwoFine
  <1>3. \A j \in 0..req[p].n : j = req[p].n \/ j \in 0..(req[p].n - 1)
    OBVIOUS
  <1>4. QED
    BY <1>2, <1>3 DEF CheckedAt, Passed

LEMMA PassedStays ==
    ASSUME ValidStays, NEW p \in Procs, UNCHANGED lostSince, NEW r, NEW j,
           Passed(r, j, uploads, Fine(lostSince[p]))
    PROVE  Passed(r, j, uploads, Fine(lostSince[p])')
  <1>1. Wider(Fine(lostSince[p]), Fine(lostSince[p])')
    BY DEF Wider, Fine, ValidStays
  <1>2. QED
    BY <1>1, WiderTwo DEF Passed

\* The live check of the next object begins with nothing found; the first
\* one also forgets the losses before it.
LEMMA BeginChecked ==
    ASSUME Wellformed, Checked, PlansStay, NEW p \in Procs, BeginCheck(p)
    PROVE  Checked'
  <1> DEFINE r == req[p]
             o == IF r.n = 0 THEN r.manifest ELSE uploads[r.key].chunks[r.n]
             s == [r EXCEPT !.remaining = ConfirmedAgents(o), !.live = {}]
  <1>1. /\ pc[p] = "check" /\ UNCHANGED <<files, uploads, lostAfter>>
        /\ lostSince' = IF r.n = 0 THEN [lostSince EXCEPT ![p] = {}] ELSE lostSince
        /\ Return(p) \/ (o # None /\ Move(p, "get", s, o, 1))
    BY DEF BeginCheck, fileVars
  <1>2. ValidStays
    BY ValidStaysStep DEF Step
  <1>3. r \in ReqRows /\ r.n \in Nat /\ CheckedAt("check", r, obj[p], uploads, Fine(lostSince[p]))
    BY <1>1, ProcHere DEF Checked, ReqRows
  <1>4. \A q \in Procs : q # p => lostSince'[q] = lostSince[q]
    BY <1>1 DEF Wellformed, TypeOK
  <1>5. CASE Return(p)
    <2>1. CheckedAt("idle", NoReq, None, uploads', Fine(lostSince[p])')
      BY DEF CheckedAt
    <2>2. QED
      BY <1>1, <1>2, <1>4, <1>5, <2>1, MoveChecked DEF Return
  <1>6. CASE o # None /\ Move(p, "get", s, o, 1)
    <2>1. s.n = r.n /\ s.key = r.key /\ s.manifest = r.manifest /\ s.live = {}
      BY <1>3 DEF ReqRows
    <2>2. o = ToCheck(s, s.n, uploads)
      BY <2>1 DEF ToCheck
    <2> HIDE DEF s, o
    <2>3. \A j \in 0..(s.n - 1) : Passed(s, j, uploads, Fine(lostSince[p])')
      <3>1. CASE r.n = 0
        BY <2>1, <3>1
      <3>2. CASE r.n # 0
        <4>1. Wider(Fine(lostSince[p]), Fine(lostSince[p])')
          BY <1>1, <1>2, <3>2 DEF Wider, Fine, ValidStays
        <4>2. \A j \in 0..(r.n - 1) : Passed(r, j, uploads, Fine(lostSince[p]))
          BY <1>3 DEF CheckedAt
        <4>3. \A j \in 0..(r.n - 1) : Passed(r, j, uploads, Fine(lostSince[p])')
          BY <4>1, <4>2, WiderTwo DEF Passed
        <4>4. QED
          BY <2>1, <4>3 DEF Passed, ToCheck
      <3>3. QED
        BY <3>1, <3>2
    <2>4. CheckedAt("get", s, o, uploads', Fine(lostSince[p])')
      BY <1>1, <2>1, <2>2, <2>3 DEF CheckedAt
    <2>5. QED
      BY <1>1, <1>2, <1>4, <1>6, <2>4, MoveChecked
  <1>7. QED
    BY <1>1, <1>5, <1>6

\* The objects a process was to check before it read one more agent.
LEMMA GetChecked ==
    ASSUME Wellformed, Checked, PlansStay, NEW p \in Procs, pc[p] = "get", ValidStays,
           NEW r, SameCall(req[p], r), r.n = req[p].n, Move(p, "get", r, obj[p], 1),
           \A d \in r.live : d \in req[p].live \/ \E a \in Agents : Domain[a] = d /\ Valid(a, obj[p]),
           UNCHANGED <<files, uploads, lostAfter, lostSince>>
    PROVE  Checked'
  <1>1. CheckedAt("get", req[p], obj[p], uploads, Fine(lostSince[p])) /\ obj[p] \in Objects
    BY ProcHere DEF Checked, ProcAt
  <1>2. Wider(Fine(lostSince[p]), Fine(lostSince[p])')
    BY DEF Wider, Fine, ValidStays
  <1>3. /\ \A j \in 0..(req[p].n - 1) : Passed(req[p], j, uploads, Fine(lostSince[p])')
        /\ \A d \in req[p].live : \E a \in Fine(lostSince[p])'[obj[p]] : Domain[a] = d
    BY <1>1, <1>2, WiderTwo DEF CheckedAt, Passed, Wider
  <1>4. \A j \in 0..(r.n - 1) : Passed(r, j, uploads, Fine(lostSince[p])')
    BY <1>3 DEF Passed, ToCheck, SameCall
  <1>5. \A d \in r.live : \E a \in Fine(lostSince[p])'[obj[p]] : Domain[a] = d
    <2>1. \A a \in Agents : Valid(a, obj[p]) => a \in Fine(lostSince[p])'[obj[p]]
      BY <1>1 DEF Fine, ValidStays
    <2>2. QED
      BY <1>3, <2>1
  <1>6. obj[p] = ToCheck(r, r.n, uploads)
    BY <1>1 DEF CheckedAt, ToCheck, SameCall
  <1>7. CheckedAt("get", r, obj[p], uploads', Fine(lostSince[p])')
    BY <1>4, <1>5, <1>6 DEF CheckedAt
  <1>8. QED
    BY <1>7, MoveChecked

LEMMA ReplicaChecked ==
    ASSUME Wellformed, Checked, PlansStay, NEW p \in Procs, GetReplica(p) \/ GetFailed(p)
    PROVE  Checked'
  <1>1. /\ pc[p] = "get" /\ req[p].remaining # {} /\ UNCHANGED <<files, uploads, lostAfter, lostSince>>
    BY DEF GetReplica, GetFailed, Hiccup, fileVars, envVars
  <1>2. ValidStays
    BY ValidStaysStep DEF Step, Trouble
  <1>3. req[p] \in ReqRows
    BY ProcHere
  <1>4. CASE GetReplica(p)
    <2> DEFINE a == Least(req[p].remaining)
               R == req[p].remaining \ {a}
               S == IF Valid(a, obj[p]) THEN req[p].live \cup {Domain[a]} ELSE req[p].live
               r == [req[p] EXCEPT !.remaining = R, !.live = S]
    <2>1. a \in Agents
      <3>1. req[p].remaining \subseteq Agents
        BY <1>3 DEF ReqRows
      <3>2. QED
        BY <1>1, <3>1, LeastType
    <2>2. \A d \in S : d \in req[p].live \/ \E b \in Agents : Domain[b] = d /\ Valid(b, obj[p])
      BY <2>1
    <2>3. Move(p, "get", r, obj[p], 1)
      BY <1>3, <1>4 DEF GetReplica, ReqRows
    <2> HIDE DEF R, S
    <2>4. SameCall(req[p], r) /\ r.n = req[p].n /\ r.live = S
      BY <1>3 DEF ReqRows, SameCall
    <2> HIDE DEF r
    <2>5. QED
      BY <1>1, <1>2, <2>2, <2>3, <2>4, GetChecked
  <1>5. CASE GetFailed(p)
    <2>1. PICK R : Move(p, "get", [req[p] EXCEPT !.remaining = R], obj[p], 1)
      BY <1>3, <1>5 DEF GetFailed, ReqRows
    <2> DEFINE r == [req[p] EXCEPT !.remaining = R]
    <2>2. SameCall(req[p], r) /\ r.n = req[p].n /\ r.live = req[p].live
      BY <1>3 DEF ReqRows, SameCall
    <2> HIDE DEF r
    <2>3. Move(p, "get", r, obj[p], 1)
      BY <2>1 DEF r
    <2>4. QED
      BY <1>1, <1>2, <2>2, <2>3, GetChecked
  <1>6. QED
    BY <1>4, <1>5

\* require_live_domains: the object was found in two failure domains.
LEMMA CheckDoneChecked ==
    ASSUME Wellformed, Checked, PlansStay, NEW p \in Procs, CheckDone(p)
    PROVE  Checked'
  <1> DEFINE r == req[p]
             s == [r EXCEPT !.n = r.n + 1]
             F == Fine(lostSince[p])
  <1>1. pc[p] = "get" /\ UNCHANGED <<files, uploads, lostAfter, lostSince>>
    BY DEF CheckDone, fileVars, envVars
  <1>2. ValidStays
    BY ValidStaysStep DEF Step
  <1>3. /\ r \in ReqRows /\ r.n \in Nat /\ obj[p] \in Objects
        /\ CheckedAt("get", r, obj[p], uploads, F)
    BY <1>1, ProcHere DEF Checked, ReqRows, ProcAt
  <1>4. CASE Return(p)
    BY <1>1, <1>2, <1>4, ReturnChecked
  <1>5. CASE LiveDomainsMet(p) /\ r.n = LastToCheck(p) /\ Move(p, "commit", r, None, 1)
    <2>1. \A j \in 0..r.n : Passed(r, j, uploads, F)
      BY <1>3, <1>5, CheckedToo
    <2>2. LastOf(r) = r.n
      BY <1>5 DEF LastOf, LastToCheck
    <2>3. \A j \in 0..r.n : Passed(r, j, uploads, F')
      BY <1>1, <1>2, <2>1, PassedStays
    <2>4. CheckedAt("commit", r, None, uploads', F')
      BY <1>1, <2>2, <2>3 DEF CheckedAt
    <2>5. QED
      BY <1>1, <1>2, <1>5, <2>4, MoveChecked
  <1>6. CASE LiveDomainsMet(p) /\ Move(p, "check", s, None, 1)
    <2>1. \A j \in 0..r.n : Passed(r, j, uploads, F)
      BY <1>3, <1>6, CheckedToo
    <2>2. \A j \in 0..r.n : Passed(r, j, uploads, F')
      BY <1>1, <1>2, <2>1, PassedStays
    <2>3. SameCall(r, s) /\ s.n = r.n + 1
      BY <1>3, SameCallUpdate
    <2> HIDE DEF s
    <2>4. \A j \in 0..(s.n - 1) : Passed(s, j, uploads, F')
      BY <1>3, <2>2, <2>3 DEF Passed, ToCheck, SameCall
    <2>5. CheckedAt("check", s, None, uploads', F')
      BY <1>1, <2>4 DEF CheckedAt
    <2>6. QED
      BY <1>1, <1>2, <1>6, <2>5, MoveChecked
  <1>7. QED
    BY <1>3, <1>4, <1>5, <1>6 DEF CheckDone, ReqRows

\* commit_file publishes what its live check has read back: the manifest of
\* the row is the one in hand.
LEMMA CommitFileChecked ==
    ASSUME Wellformed, PlanKept, Checked, PlansStay, NEW p \in Procs, CommitFile(p)
    PROVE  Checked'
  <1> DEFINE r == req[p]
             F == Fine(lostSince[p])
  <1> PICK k : k = req[p].key
    OBVIOUS
  <1>1. /\ r.op = "upload" /\ k \in UploadKeys /\ uploads[k] # None /\ pc[p] = "commit" /\ Return(p)
        /\ UNCHANGED <<vol, stored, lostSince>>
    BY ProcHere DEF CommitFile, ProcAt, agentVars
  <1>2. ValidStays
    BY ValidStaysStep DEF Step
  <1>3. CheckedAt("idle", NoReq, None, uploads', Fine(lostSince[p])')
    BY DEF CheckedAt
  <1>4. CASE CanCommitFile(k)
    <2>1. /\ files' = [files EXCEPT ![k] = [gen |-> 1, state |-> "committed",
                                            manifest |-> uploads[k].manifest, marker |-> None]]
          /\ lostAfter' = [lostAfter EXCEPT ![k] = lostSince[p]]
      BY <1>4 DEF CommitFile
    <2>2. CheckedAt("commit", r, obj[p], uploads, F)
      BY <1>1 DEF Checked
    <2>3. \A j \in 0..NumChunks : Passed(r, j, uploads, F)
      BY <1>1, <2>2 DEF CheckedAt, LastOf
    <2>4. r.manifest \in Objects /\ TwoFine(F, r.manifest) /\ uploads[k].manifest = r.manifest
      <3>1. Passed(r, 0, uploads, F)
        BY <2>3, ConstantsAssumption
      <3>2. r.manifest \in Objects /\ TwoFine(F, r.manifest)
        BY <3>1 DEF Passed, ToCheck
      <3>3. InHand(p, pc[p], r, obj[p], uploads)
        BY DEF PlanKept
      <3>4. QED
        BY <1>1, <3>2, <3>3, NoneAssumption DEF InHand
    <2>5. \A n \in Ordinals : uploads[k].chunks[n] \in Objects /\ TwoFine(F, uploads[k].chunks[n])
      <3>1. \A n \in Ordinals : n \in 0..NumChunks /\ n # 0
        BY ConstantsAssumption DEF Ordinals
      <3>2. QED
        BY <2>3, <3>1 DEF Passed, ToCheck
    <2>6. \A n \in Ordinals : uploads'[k].chunks[n] = uploads[k].chunks[n]
      BY <1>1, <2>5, NoneAssumption DEF PlansStay, SamePlan
    <2>7. /\ files'[k] # None /\ files'[k].state = "committed" /\ files'[k].manifest = uploads[k].manifest
          /\ lostAfter'[k] = lostSince[p]
          /\ \A f \in UploadKeys : f # k => files'[f] = files[f] /\ lostAfter'[f] = lostAfter[f]
      <3> DEFINE row == [gen |-> 1, state |-> "committed", manifest |-> uploads[k].manifest, marker |-> None]
      <3>1. row \in FileRows /\ row.state = "committed" /\ row.manifest = uploads[k].manifest
        <4>1. uploads[k] \in UploadRows /\ uploads[k].manifest # None
          BY <1>1, <2>4, NoneAssumption DEF Wellformed, TypeOK
        <4>2. uploads[k].manifest \in Manifests
          BY <4>1 DEF UploadRows
        <4>3. QED
          BY <4>2 DEF FileRows
      <3> HIDE DEF row
      <3>2. files' = [files EXCEPT ![k] = row]
        BY <2>1 DEF row
      <3>3. QED
        BY <1>1, <2>1, <3>1, <3>2, NoneAssumption DEF Wellformed, TypeOK
    <2>8. Fine(lostAfter[k])' = F
      BY <1>1, <2>7 DEF Fine, Valid
    <2>9. ASSUME NEW o \in CurrentObjects(k)' PROVE o \in Objects /\ TwoFine(F, o)
      <3>1. o = uploads[k].manifest \/ \E n \in Ordinals : o = uploads[k].chunks[n]
        BY <2>6, <2>7, <2>9 DEF CurrentObjects
      <3>2. QED
        BY <2>4, <2>5, <3>1
    <2>10. FloorMet(k)'
      BY <2>8, <2>9 DEF FloorMet
    <2>11. /\ \A q \in Procs : CheckedAt(pc'[q], req'[q], obj'[q], uploads', Fine(lostSince[q])')
           /\ \A f \in UploadKeys : files'[f] = files[f] /\ lostAfter'[f] = lostAfter[f] => FloorMet(f)'
      BY <1>1, <1>2, <1>3, OthersChecked DEF Return
    <2>12. QED
      BY <2>7, <2>10, <2>11, PartsChecked
  <1>5. CASE ~CanCommitFile(k)
    BY <1>1, <1>2, <1>5, ReturnChecked DEF CommitFile
  <1>6. QED
    BY <1>4, <1>5

\* commit_delete rests on the marker its live check has read back.
LEMMA CommitDeleteChecked ==
    ASSUME Wellformed, MarkersNamed, Checked, PlansStay, NEW p \in Procs, CommitDelete(p)
    PROVE  Checked'
  <1> DEFINE r == req[p]
             F == Fine(lostSince[p])
  <1> PICK d : d = req[p].key
    OBVIOUS
  <1> PICK f : f = deletes[d].file
    OBVIOUS
  <1>1. /\ r.op = "delete" /\ d \in DeleteKeys /\ deletes[d] # None /\ pc[p] = "commit" /\ Return(p)
        /\ UNCHANGED <<vol, stored, lostSince>>
    BY ProcHere DEF CommitDelete, ProcAt, agentVars
  <1>2. ValidStays
    BY ValidStaysStep DEF Step
  <1>3. CheckedAt("idle", NoReq, None, uploads', Fine(lostSince[p])')
    BY DEF CheckedAt
  <1>4. CASE CanCommitDelete(d)
    <2>1. /\ files' = [files EXCEPT ![f].gen = deletes[d].gen, ![f].state = "deleted",
                                    ![f].marker = deletes[d].marker]
          /\ lostAfter' = [lostAfter EXCEPT ![f] = lostSince[p]]
      BY <1>4 DEF CommitDelete
    <2>2. CheckedAt("commit", r, obj[p], uploads, F)
      BY <1>1 DEF Checked
    <2>3. Passed(r, 0, uploads, F)
      BY <1>1, <2>2 DEF CheckedAt, LastOf
    <2>4. r.manifest \in Objects /\ TwoFine(F, r.manifest)
      BY <2>3 DEF Passed, ToCheck
    <2>5. deletes[d].marker = r.manifest
      BY <1>1 DEF MarkersNamed, Holds
    <2>6. f \in UploadKeys /\ files[f] # None /\ files[f] \in FileRows
      BY <1>1 DEF Wellformed, TypeOK, TablesOK, DeleteRows
    <2>7. /\ files'[f].state = "deleted" /\ files'[f].marker = r.manifest
          /\ lostAfter'[f] = lostSince[p]
          /\ \A g \in UploadKeys : g # f => files'[g] = files[g] /\ lostAfter'[g] = lostAfter[g]
      BY <2>1, <2>5, <2>6 DEF Wellformed, TypeOK, FileRows
    <2>8. Fine(lostAfter[f])' = F
      BY <1>1, <2>7 DEF Fine, Valid
    <2>9. CurrentObjects(f)' \subseteq {r.manifest}
      BY <2>7 DEF CurrentObjects
    <2>10. FloorMet(f)'
      BY <2>4, <2>8, <2>9 DEF FloorMet
    <2>11. /\ \A q \in Procs : CheckedAt(pc'[q], req'[q], obj'[q], uploads', Fine(lostSince[q])')
           /\ \A g \in UploadKeys : files'[g] = files[g] /\ lostAfter'[g] = lostAfter[g] => FloorMet(g)'
      BY <1>1, <1>2, <1>3, OthersChecked DEF Return
    <2>12. QED
      BY <2>7, <2>10, <2>11, PartsChecked
  <1>5. CASE ~CanCommitDelete(d)
    BY <1>1, <1>2, <1>5, ReturnChecked DEF CommitDelete
  <1>6. QED
    BY <1>4, <1>5

\* The source of an upload plays no part in its live check.
LEMMA EditChecked ==
    ASSUME Wellformed, Checked, PlansStay, NEW p \in Procs, NEW c \in Contents, EditSource(p, c)
    PROVE  Checked'
  <1> DEFINE r == [req[p] EXCEPT !.src = c]
  <1>1. /\ req' = [req EXCEPT ![p] = r]
        /\ UNCHANGED <<pc, obj, at, uploads, files, lostAfter, lostSince>>
    BY ProcHere DEF EditSource, fileVars, envVars, Wellformed, TypeOK, ReqRows
  <1>2. /\ r.op = req[p].op /\ r.key = req[p].key /\ r.manifest = req[p].manifest /\ r.n = req[p].n
        /\ r.live = req[p].live
    BY ProcHere DEF ReqRows
  <1> HIDE DEF r
  <1>3. Move(p, pc[p], r, obj[p], at[p])
    BY <1>1 DEF Move, Wellformed, TypeOK
  <1>4. ValidStays
    BY ValidStaysStep DEF Trouble
  <1>5. Wider(Fine(lostSince[p]), Fine(lostSince[p])')
    BY <1>1, <1>4 DEF Wider, Fine, ValidStays
  <1>6. CheckedAt(pc[p], req[p], obj[p], uploads', Fine(lostSince[p])')
    BY <1>5, CheckedStays DEF Checked
  <1>7. CheckedAt(pc[p], r, obj[p], uploads', Fine(lostSince[p])')
    BY <1>2, <1>6 DEF CheckedAt, Passed, ToCheck, LastOf
  <1>8. QED
    BY <1>1, <1>3, <1>4, <1>7, MoveChecked

\* A loss is noted with every check under way and with every file.
LEMMA LossChecked ==
    ASSUME Wellformed, Checked, PlansStay, Loss
    PROVE  Checked'
  <1>1. PICK a \in Agents : Lose(a) /\ \A b \in Agents, o \in Objects : b # a /\ Valid(b, o) => Valid(b, o)'
    <2>1. CASE \E a \in Agents, i \in Volumes : MountVolume(a, i)
      BY <2>1 DEF MountVolume, Valid, Wellformed, TypeOK
    <2>2. CASE \E a \in Agents, x \in Objects : CorruptCopy(a, x)
      <3>1. PICK a \in Agents, x \in Objects : CorruptCopy(a, x)
        BY <2>2
      <3>2. Lose(a) /\ vol' = vol /\ Writes(a, x, "corrupt")
        BY <3>1 DEF CorruptCopy, Writes
      <3>3. \A b \in Agents, i \in Volumes, o \in Objects :
                b # a \/ i # vol[a] \/ o # x => stored'[b][i][o] = stored[b][i][o]
        BY <3>2, StoredUpdate DEF Wellformed
      <3>4. \A b \in Agents, o \in Objects : b # a /\ Valid(b, o) => Valid(b, o)'
        BY <3>2, <3>3 DEF Valid, Wellformed, TypeOK
      <3>5. QED
        BY <3>2, <3>4
    <2>3. QED
      BY <2>1, <2>2 DEF Loss
  <1>2. UNCHANGED <<pc, req, obj, uploads, files>>
    BY DEF Loss, MountVolume, CorruptCopy, fileVars, procVars
  <1>3. ASSUME NEW q \in Procs PROVE CheckedAt(pc'[q], req'[q], obj'[q], uploads', Fine(lostSince[q])')
    <2>1. CheckedAt(pc[q], req[q], obj[q], uploads, Fine(lostSince[q]))
      BY DEF Checked
    <2>2. CASE pc[q] \in {"check", "get", "commit"}
      <3>1. lostSince'[q] = lostSince[q] \cup {a}
        BY <1>1, <2>2 DEF Lose
      <3>2. Wider(Fine(lostSince[q]), Fine(lostSince[q])')
        BY <1>1, <3>1 DEF Wider, Fine
      <3>3. QED
        BY <1>2, <2>1, <3>2, CheckedStays
    <2>3. CASE pc[q] \notin {"check", "get", "commit"}
      BY <1>2, <2>3 DEF CheckedAt
    <2>4. QED
      BY <2>2, <2>3
  <1>4. ASSUME NEW f \in UploadKeys PROVE FloorMet(f)'
    <2>1. CASE files[f] = None
      BY <1>2, <2>1 DEF FloorMet, CurrentObjects
    <2>2. CASE files[f] # None
      <3>1. lostAfter'[f] = lostAfter[f] \cup {a}
        BY <1>1, <2>2 DEF Lose
      <3>2. Wider(Fine(lostAfter[f]), Fine(lostAfter[f])')
        BY <1>1, <3>1 DEF Wider, Fine
      <3>3. FloorMet(f)
        BY FloorParts DEF Checked
      <3>4. QED
        BY <1>2, <3>2, <3>3, FloorStays
    <2>3. QED
      BY <2>1, <2>2
  <1>5. QED
    BY <1>3, <1>4, PartsChecked

LEMMA CheckedInit == Init => Checked
  <1> SUFFICES ASSUME Init PROVE Checked
    OBVIOUS
  <1>1. LiveFloor
    BY DEF Init, LiveFloor, CurrentObjects
  <1>2. \A p \in Procs : CheckedAt(pc[p], req[p], obj[p], uploads, Fine(lostSince[p]))
    BY DEF Init, CheckedAt
  <1>3. QED
    BY <1>1, <1>2 DEF Checked

LEMMA CheckedStep ==
    Wellformed /\ MarkersNamed /\ PlanKept /\ Checked /\ OneUploader /\ [Next]_vars => Checked'
  <1> SUFFICES ASSUME Wellformed, MarkersNamed, PlanKept, Checked, OneUploader, [Next]_vars PROVE Checked'
    OBVIOUS
  <1>1. PlansStay
    BY PlansStayStep
  <1>2. ASSUME NEW p \in Procs, Step(p) PROVE Checked'
    BY <1>1, <1>2, BeforeChecked, ReplicateChecked, BeginChecked, ReplicaChecked, CheckDoneChecked,
       CommitFileChecked, CommitDeleteChecked DEF Step
  <1>3. ASSUME NEW p \in Procs, Request(p) PROVE Checked'
    BY <1>1, <1>3, BeforeChecked
  <1>4. ASSUME NEW p \in Procs, Trouble(p) PROVE Checked'
    BY <1>1, <1>4, BeforeChecked, ReplicateChecked, ReplicaChecked, EditChecked DEF Trouble
  <1>5. CASE Loss
    BY <1>1, <1>5, LossChecked
  <1>6. CASE UNCHANGED vars
    <2>1. /\ UNCHANGED <<pc, req, obj, uploads, files, lostAfter, lostSince, vol, stored>>
      BY <1>6 DEF vars, agentVars, fileVars, procVars, envVars
    <2>2. \A q \in Procs : Fine(lostSince[q])' = Fine(lostSince[q])
      BY <2>1 DEF Fine, Valid
    <2>3. \A q \in Procs : CheckedAt(pc'[q], req'[q], obj'[q], uploads', Fine(lostSince[q])')
      BY <2>1, <2>2 DEF Checked
    <2>4. LiveFloor'
      BY <2>1 DEF Checked, LiveFloor, CurrentObjects, Valid
    <2>5. QED
      BY <2>3, <2>4 DEF Checked
  <1>7. QED
    BY <1>2, <1>3, <1>4, <1>5, <1>6 DEF Next

\* The inductive invariant.
CommitInv == OneUploader /\ Wellformed /\ MarkersNamed /\ PlanKept /\ Checked

\* As long as one process uploads, and any number delete: a file becomes visible
\* or deleted on objects read back alive from two failure domains, one manifest
\* of a file ever reaches a volume, and every chunk there is of the content that
\* was planned, over crashes, edits of the source, lost volumes and retries
\* (Portal::upload, set_manifest_plan, ensure_live_upload_replica_floor,
\* commit_file, commit_delete).
THEOREM CommitsAreSound == OneUploader /\ Spec => []CommitSound
  <1>1. ASSUME CommitInv PROVE CommitSound
    <2>1. PlanKept /\ Checked
      BY <1>1 DEF CommitInv
    <2>2. ASSUME NEW k \in UploadKeys, NEW m \in 1..MaxMints, StoredSomewhere(Manifest(k, m))
          PROVE  uploads[k].manifest = Manifest(k, m)
      <3>1. Manifest(k, m) \in Objects
        BY ObjectTypes
      <3>2. OfPlan(Manifest(k, m), uploads)
        BY <2>1, <2>2, <3>1 DEF StoredSomewhere, PlanKept, PlannedCopies
      <3>3. QED
        BY <3>2 DEF OfPlan
    <2>3. OneManifest
      BY <2>2 DEF OneManifest, Manifest
    <2>4. ASSUME NEW k \in UploadKeys, NEW n \in Ordinals, NEW c \in Contents, StoredSomewhere(Chunk(k, n, c))
          PROVE  uploads[k] # None /\ uploads[k].content = c
      <3>1. Chunk(k, n, c) \in Objects
        BY ObjectTypes
      <3>2. OfPlan(Chunk(k, n, c), uploads)
        BY <2>1, <2>4, <3>1 DEF StoredSomewhere, PlanKept, PlannedCopies
      <3>3. QED
        BY <3>2 DEF OfPlan
    <2>5. QED
      BY <2>1, <2>3, <2>4 DEF CommitSound, PlannedContentOnly, Checked
  <1>2. OneUploader /\ Init => CommitInv
    BY WellformedInit, NamedInit, PlanInit, CheckedInit DEF CommitInv
  <1>3. CommitInv /\ [Next]_vars => CommitInv'
    BY WellformedStep, NamedStep, PlanStep, CheckedStep DEF CommitInv, OneUploader
  <1>4. QED
    BY <1>1, <1>2, <1>3, PTL DEF Spec
=============================================================================
