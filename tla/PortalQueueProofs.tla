------------------------- MODULE PortalQueueProofs -------------------------
(***************************************************************************)
(* Proofs about PortalQueue, for any requests, limits and settings.        *)
(*                                                                         *)
(* The bounds of RequestsKept follow from exact counts (Counted), and      *)
(* these from where each request may be (Placed): a handler that is gone   *)
(* left nothing behind but its job, which holds its body and its permit.   *)
(***************************************************************************)
EXTENDS PortalQueue, FiniteSetTheorems, TLAPS

\* A handler that has begun and not ended.
Busy(h) == h \notin {"none", "answered", "gone"}
Before == {"spooling", "sending"}           \* a handler whose job is not queued yet

\* Where a request of kind k may be: its connection c, its handler h and its
\* spool entry s, when the queue and the worker hold jobs.  If no client may
\* hang up on a download (cut), its entry lives as long as its handler.
RequestAt(r, k, c, h, s, jobs, cut) ==
  /\ (Busy(h) => c = "open") /\ (h = "gone" => c = "closed")
  /\ r \in jobs => h \in {"waiting", "gone"}
  /\ h = "spooling" => k = "upload"
  /\ h \in {"got_ok", "got_error", "streaming"} => k = "download"
  /\ k = "upload" /\ (h = "sending" \/ r \in jobs) => s = "body"
  /\ k = "upload" /\ s # "none" => r \in jobs \/ h \in Before
  /\ k = "delete" => s = "none"
  /\ k = "download" /\ ~cut =>
       /\ r \in jobs => h = "waiting"
       /\ s # "none" => h \in {"sending", "waiting", "got_ok", "got_error"}

Cut == "download" \in setting.hangups

Handlers == {"none", "spooling", "sending", "waiting", "got_ok", "got_error", "streaming", "answered", "gone"}

\* TypeOK without the counters.
Types ==
  /\ setting \in Settings
  /\ conn \in [Reqs -> {"new", "open", "closed"}]
  /\ handler \in [Reqs -> Handlers]
  /\ spool \in [Reqs -> {"none", "empty", "body", "plain"}]
  /\ queue \in Seq(Reqs) /\ Len(queue) <= QueueLen
  /\ worker \in [job : Reqs \union {"none"}, pc : {"idle", "begin", "run", "end"}, ok : BOOLEAN]
  /\ audit \in [Reqs -> SUBSET {"allowed", "completed", "failed"}]
  /\ answer \in [Reqs -> {"none", "ok", "error"}]
  /\ lost \subseteq Reqs

\* A request is queued once, and not while the worker runs it.
QueueOK ==
  /\ \A i, j \in DOMAIN queue : queue[i] = queue[j] => i = j
  /\ \A i \in DOMAIN queue : queue[i] # worker.job
  /\ worker.pc = "idle" => worker = NoJob
  /\ worker.pc # "idle" => worker.job \in Reqs
  /\ worker.pc \in {"begin", "end"} => ~Downloading(worker.job)
  /\ worker.pc # "end" => worker.ok = FALSE

\* Where each request is.
Placed == \A r \in Reqs : RequestAt(r, Kind[r], conn[r], handler[r], spool[r], Jobs, Cut)

\* Who holds a slot, a permit for an upload and one for a download.
Opened == {r \in Reqs : conn[r] = "open"}
OpenedAt(a) == {r \in Reqs : conn[r] = "open" /\ Addr[r] = a}
UploadHolders == {r \in Reqs : Uploading(r) /\ (r \in Jobs \/ handler[r] \in Before)}
DownloadHolders == {r \in Reqs : Downloading(r) /\ Busy(handler[r])}

\* Every slot and permit is accounted for.
SlotsCounted ==
  /\ total = Cardinality(Opened) /\ total <= MaxConnections
  /\ per \in [Addrs -> 0..MaxPerAddress]
  /\ \A a \in Addrs : per[a] = Cardinality(OpenedAt(a))
UploadsCounted == uploads \in Nat /\ uploads + Cardinality(UploadHolders) = MaxUploads
DownloadsCounted == downloads \in Nat /\ downloads + Cardinality(DownloadHolders) = MaxDownloads
Counted == SlotsCounted /\ UploadsCounted /\ DownloadsCounted

\* The inductive invariant of RequestsKept.
Held == Types /\ QueueOK /\ Placed /\ Counted

-----------------------------------------------------------------------------
(* Settings and counts.                                                    *)

\* What each request is of.
LEMMA SettingFacts ==
  ASSUME Types
  PROVE  /\ Reqs \subseteq Requests /\ IsFiniteSet(Reqs) /\ "none" \notin Reqs
         /\ \A r \in Reqs : Kind[r] \in {"upload", "download", "delete"}
         /\ MaxConnections \in Nat \ {0}
  <1>1. setting \in Settings
    BY DEF Types
  <1>2. Reqs \subseteq Requests
    BY <1>1, QueueAssumption DEF Reqs, Kind
  <1>3. IsFiniteSet(Reqs)
    BY <1>2, FS_Subset, QueueAssumption
  <1>4. QED
    BY <1>1, <1>2, <1>3, QueueAssumption DEF Reqs, Kind, MaxConnections

\* The holders are finitely many.
LEMMA HoldersFinite ==
  ASSUME Types
  PROVE  /\ IsFiniteSet(Opened) /\ IsFiniteSet(UploadHolders) /\ IsFiniteSet(DownloadHolders)
         /\ \A a \in Addrs : IsFiniteSet(OpenedAt(a))
  <1>1. IsFiniteSet(Reqs)
    BY SettingFacts
  <1>2. Opened \subseteq Reqs /\ UploadHolders \subseteq Reqs /\ DownloadHolders \subseteq Reqs
    BY DEF Opened, UploadHolders, DownloadHolders
  <1>3. \A a \in Addrs : OpenedAt(a) \subseteq Reqs
    BY DEF OpenedAt
  <1>4. QED
    BY <1>1, <1>2, <1>3, FS_Subset

\* One element more, one less, or none.
LEMMA CountMoves ==
  ASSUME NEW S, IsFiniteSet(S), NEW r
  PROVE  /\ Cardinality(S) \in Nat
         /\ r \notin S => Cardinality(S \union {r}) = Cardinality(S) + 1 /\ S \ {r} = S
         /\ r \in S => Cardinality(S \ {r}) = Cardinality(S) - 1 /\ S \union {r} = S
  <1>1. Cardinality(S) \in Nat
    BY FS_CardinalityType
  <1>2. r \notin S => Cardinality(S \union {r}) = Cardinality(S) + 1
    BY FS_AddElement
  <1>3. r \in S => Cardinality(S \ {r}) = Cardinality(S) - 1
    BY FS_RemoveElement
  <1>4. (r \notin S => S \ {r} = S) /\ (r \in S => S \union {r} = S)
    OBVIOUS
  <1>5. QED
    BY <1>1, <1>2, <1>3, <1>4

\* A permit is taken or given back with its holder.
PermitMove(free, freed, before, after) ==
  \/ (before <=> after) /\ freed = free
  \/ ~before /\ after /\ free > 0 /\ freed = free - 1
  \/ before /\ ~after /\ freed = free + 1

LEMMA PermitsCounted ==
  ASSUME NEW S, IsFiniteSet(S), NEW T, NEW r, NEW free \in Nat, NEW max \in Nat, NEW freed,
         free + Cardinality(S) = max, T \ {r} = S \ {r},
         PermitMove(free, freed, r \in S, r \in T)
  PROVE  freed \in Nat /\ freed + Cardinality(T) = max
  <1>1. Cardinality(S) \in Nat
    BY FS_CardinalityType
  <1>2. CASE (r \in S <=> r \in T) /\ freed = free
    <2>1. T = S
      BY <1>2
    <2>2. QED
      BY <2>1, <1>2
  <1>3. CASE r \notin S /\ r \in T /\ free > 0 /\ freed = free - 1
    <2>1. T = S \union {r}
      BY <1>3
    <2>2. Cardinality(T) = Cardinality(S) + 1
      BY <2>1, <1>3, CountMoves
    <2>3. QED
      BY <2>2, <1>1, <1>3
  <1>4. CASE r \in S /\ r \notin T /\ freed = free + 1
    <2>1. T = S \ {r}
      BY <1>4
    <2>2. Cardinality(T) = Cardinality(S) - 1
      BY <2>1, <1>4, CountMoves
    <2>3. QED
      BY <2>2, <1>1, <1>4
  <1>5. QED
    BY <1>2, <1>3, <1>4 DEF PermitMove

-----------------------------------------------------------------------------
(* A step that concerns one request: every step but a crash.               *)

RequestStep(r, c, h, s) ==
  /\ UNCHANGED setting
  /\ conn' = [conn EXCEPT ![r] = c]
  /\ handler' = [handler EXCEPT ![r] = h]
  /\ spool' = [spool EXCEPT ![r] = s]
  /\ Jobs' \ {r} = Jobs \ {r}

\* A slot is taken or given back with the connection.
SlotMove(r, c) ==
  \/ (conn[r] = "open" <=> c = "open") /\ UNCHANGED <<total, per>>
  \/ /\ conn[r] # "open" /\ c = "open"
     /\ total < MaxConnections /\ per[Addr[r]] < MaxPerAddress
     /\ total' = total + 1 /\ per' = [per EXCEPT ![Addr[r]] = @ + 1]
  \/ /\ conn[r] = "open" /\ c # "open"
     /\ total' = total - 1 /\ per' = [per EXCEPT ![Addr[r]] = @ - 1]

\* The others stay where they are.
LEMMA OthersStay ==
  ASSUME Types, NEW r \in Reqs, NEW c, NEW h, NEW s, RequestStep(r, c, h, s)
  PROVE  /\ Reqs' = Reqs /\ Kind' = Kind /\ Cut' = Cut /\ Addrs' = Addrs
         /\ MaxConnections' = MaxConnections
         /\ conn'[r] = c /\ handler'[r] = h /\ spool'[r] = s
         /\ \A q \in Reqs \ {r} : /\ conn'[q] = conn[q] /\ handler'[q] = handler[q]
                                  /\ spool'[q] = spool[q] /\ (q \in Jobs' <=> q \in Jobs)
  <1>1. Reqs' = Reqs /\ Kind' = Kind /\ Cut' = Cut /\ MaxConnections' = MaxConnections
    BY DEF RequestStep, Reqs, Kind, Cut, MaxConnections
  <1>2. Addrs' = Addrs
    BY <1>1 DEF Addrs
  <1>3. conn'[r] = c /\ handler'[r] = h /\ spool'[r] = s
    BY DEF RequestStep, Types
  <1>4. ASSUME NEW q \in Reqs \ {r}
        PROVE  /\ conn'[q] = conn[q] /\ handler'[q] = handler[q]
               /\ spool'[q] = spool[q] /\ (q \in Jobs' <=> q \in Jobs)
    BY <1>4 DEF RequestStep, Types
  <1>5. QED
    BY <1>1, <1>2, <1>3, <1>4

LEMMA PlacedKept ==
  ASSUME Types, Placed, NEW r \in Reqs, NEW c, NEW h, NEW s, RequestStep(r, c, h, s),
         RequestAt(r, Kind[r], c, h, s, Jobs', Cut)
  PROVE  Placed'
  <1>1. SUFFICES ASSUME NEW q \in Reqs
                 PROVE  RequestAt(q, Kind[q], conn'[q], handler'[q], spool'[q], Jobs', Cut)
    BY OthersStay DEF Placed
  <1>2. CASE q = r
    BY <1>2, OthersStay
  <1>3. CASE q # r
    <2>1. RequestAt(q, Kind[q], conn[q], handler[q], spool[q], Jobs, Cut)
      BY DEF Placed
    <2>2. /\ conn'[q] = conn[q] /\ handler'[q] = handler[q]
          /\ spool'[q] = spool[q] /\ (q \in Jobs' <=> q \in Jobs)
      BY <1>3, OthersStay
    <2>3. RequestAt(q, Kind[q], conn[q], handler[q], spool[q], Jobs', Cut)
      BY <2>1, <2>2 DEF RequestAt
    <2>4. QED
      BY <2>2, <2>3
  <1>4. QED
    BY <1>2, <1>3

LEMMA SlotsKept ==
  ASSUME Types, SlotsCounted, NEW r \in Reqs, NEW c, NEW h, NEW s, RequestStep(r, c, h, s),
         SlotMove(r, c)
  PROVE  SlotsCounted'
  <1>1. Opened' \ {r} = Opened \ {r} /\ (r \in Opened <=> conn[r] = "open") /\ (r \in Opened' <=> c = "open")
    BY OthersStay DEF Opened
  <1>2. ASSUME NEW a \in Addrs
        PROVE  /\ OpenedAt(a)' \ {r} = OpenedAt(a) \ {r}
               /\ r \in OpenedAt(a) <=> conn[r] = "open" /\ Addr[r] = a
               /\ r \in OpenedAt(a)' <=> c = "open" /\ Addr[r] = a
    BY <1>2, OthersStay DEF OpenedAt
  <1>3. IsFiniteSet(Opened) /\ \A a \in Addrs : IsFiniteSet(OpenedAt(a))
    BY HoldersFinite
  <1>4. Addr[r] \in Addrs /\ Addrs' = Addrs /\ MaxConnections' = MaxConnections
    BY OthersStay DEF Addrs
  <1>5. MaxConnections \in Nat /\ MaxPerAddress \in Nat
    BY SettingFacts, QueueAssumption
  <1>6. Cardinality(Opened) \in Nat /\ \A a \in Addrs : Cardinality(OpenedAt(a)) \in Nat
    BY <1>3, FS_CardinalityType
  <1>7. CASE (conn[r] = "open" <=> c = "open") /\ UNCHANGED <<total, per>>
    <2>1. Opened' = Opened
      BY <1>7, <1>1
    <2>2. \A a \in Addrs : OpenedAt(a)' = OpenedAt(a)
      BY <1>7, <1>2
    <2>3. QED
      BY <2>1, <2>2, <1>4, <1>7 DEF SlotsCounted
  <1>8. CASE /\ conn[r] # "open" /\ c = "open"
             /\ total < MaxConnections /\ per[Addr[r]] < MaxPerAddress
             /\ total' = total + 1 /\ per' = [per EXCEPT ![Addr[r]] = @ + 1]
    <2>1. Opened' = Opened \union {r} /\ r \notin Opened
      BY <1>8, <1>1
    <2>2. Cardinality(Opened') = Cardinality(Opened) + 1
      BY <2>1, <1>3, CountMoves
    <2>3. ASSUME NEW a \in Addrs
          PROVE  per'[a] = Cardinality(OpenedAt(a)') /\ per'[a] \in 0..MaxPerAddress
      <3>1. CASE a = Addr[r]
        <4>1. OpenedAt(a)' = OpenedAt(a) \union {r} /\ r \notin OpenedAt(a)
          BY <1>2, <3>1, <1>8
        <4>2. Cardinality(OpenedAt(a)') = Cardinality(OpenedAt(a)) + 1
          BY <4>1, <1>3, CountMoves
        <4>3. per'[a] = per[a] + 1 /\ per[a] \in 0..MaxPerAddress /\ per[a] < MaxPerAddress
          BY <1>8, <3>1 DEF SlotsCounted
        <4>4. QED
          BY <4>2, <4>3, <1>5 DEF SlotsCounted
      <3>2. CASE a # Addr[r]
        <4>1. OpenedAt(a)' = OpenedAt(a)
          BY <1>2, <3>2
        <4>2. per'[a] = per[a] /\ per[a] \in 0..MaxPerAddress
          BY <1>8, <3>2 DEF SlotsCounted
        <4>3. QED
          BY <4>1, <4>2 DEF SlotsCounted
      <3>3. QED
        BY <3>1, <3>2
    <2>4. per' \in [Addrs -> 0..MaxPerAddress]
      BY <2>3, <1>8 DEF SlotsCounted
    <2>5. total' = Cardinality(Opened') /\ total' <= MaxConnections
      BY <2>2, <1>5, <1>6, <1>8 DEF SlotsCounted
    <2>6. QED
      BY <2>3, <2>4, <2>5, <1>4 DEF SlotsCounted
  <1>9. CASE /\ conn[r] = "open" /\ c # "open"
             /\ total' = total - 1 /\ per' = [per EXCEPT ![Addr[r]] = @ - 1]
    <2>1. Opened' = Opened \ {r} /\ r \in Opened
      BY <1>9, <1>1
    <2>2. Cardinality(Opened') = Cardinality(Opened) - 1
      BY <2>1, <1>3, CountMoves
    <2>3. ASSUME NEW a \in Addrs
          PROVE  per'[a] = Cardinality(OpenedAt(a)') /\ per'[a] \in 0..MaxPerAddress
      <3>1. CASE a = Addr[r]
        <4>1. OpenedAt(a)' = OpenedAt(a) \ {r} /\ r \in OpenedAt(a)
          BY <1>2, <3>1, <1>9
        <4>2. Cardinality(OpenedAt(a)') = Cardinality(OpenedAt(a)) - 1
          BY <4>1, <1>3, CountMoves
        <4>3. Cardinality(OpenedAt(a)') \in Nat
          BY <4>1, <1>3, FS_CardinalityType, FS_RemoveElement
        <4>4. per'[a] = per[a] - 1 /\ per[a] \in 0..MaxPerAddress
          BY <1>9, <3>1 DEF SlotsCounted
        <4>5. QED
          BY <4>2, <4>3, <4>4, <1>5 DEF SlotsCounted
      <3>2. CASE a # Addr[r]
        <4>1. OpenedAt(a)' = OpenedAt(a)
          BY <1>2, <3>2
        <4>2. per'[a] = per[a] /\ per[a] \in 0..MaxPerAddress
          BY <1>9, <3>2 DEF SlotsCounted
        <4>3. QED
          BY <4>1, <4>2 DEF SlotsCounted
      <3>3. QED
        BY <3>1, <3>2
    <2>4. per' \in [Addrs -> 0..MaxPerAddress]
      BY <2>3, <1>9 DEF SlotsCounted
    <2>5. total' = Cardinality(Opened') /\ total' <= MaxConnections
      BY <2>2, <1>5, <1>6, <1>9 DEF SlotsCounted
    <2>6. QED
      BY <2>3, <2>4, <2>5, <1>4 DEF SlotsCounted
  <1>10. QED
    BY <1>7, <1>8, <1>9 DEF SlotMove

\* Where request r holds a permit.
HoldsUpload(r, h, jobs) == Kind[r] = "upload" /\ (r \in jobs \/ h \in Before)
HoldsDownload(r, h) == Kind[r] = "download" /\ Busy(h)

LEMMA HeldKept ==
  ASSUME Held, NEW r \in Reqs, NEW c, NEW h, NEW s, RequestStep(r, c, h, s),
         Types', QueueOK', RequestAt(r, Kind[r], c, h, s, Jobs', Cut), SlotMove(r, c),
         PermitMove(uploads, uploads', HoldsUpload(r, handler[r], Jobs), HoldsUpload(r, h, Jobs')),
         PermitMove(downloads, downloads', HoldsDownload(r, handler[r]), HoldsDownload(r, h))
  PROVE  Held'
  <1>1. Types /\ QueueOK /\ Placed /\ Counted
    BY DEF Held
  <1>2. Placed'
    BY <1>1, PlacedKept
  <1>3. SlotsCounted'
    BY <1>1, SlotsKept DEF Counted
  <1>4. IsFiniteSet(UploadHolders) /\ IsFiniteSet(DownloadHolders)
    BY <1>1, HoldersFinite
  <1>5. /\ UploadHolders' \ {r} = UploadHolders \ {r}
        /\ r \in UploadHolders <=> HoldsUpload(r, handler[r], Jobs)
        /\ r \in UploadHolders' <=> HoldsUpload(r, h, Jobs')
    BY <1>1, OthersStay DEF UploadHolders, HoldsUpload, Uploading
  <1>6. /\ DownloadHolders' \ {r} = DownloadHolders \ {r}
        /\ r \in DownloadHolders <=> HoldsDownload(r, handler[r])
        /\ r \in DownloadHolders' <=> HoldsDownload(r, h)
    BY <1>1, OthersStay DEF DownloadHolders, HoldsDownload, Downloading
  <1>7. MaxUploads \in Nat /\ MaxDownloads \in Nat
    BY QueueAssumption
  <1>8. UploadsCounted'
    <2>1. PermitMove(uploads, uploads', r \in UploadHolders, r \in UploadHolders')
      BY <1>5 DEF PermitMove
    <2>2. uploads \in Nat /\ uploads + Cardinality(UploadHolders) = MaxUploads
      BY <1>1 DEF Counted, UploadsCounted
    <2>3. QED
      BY <2>1, <2>2, <1>4, <1>5, <1>7, PermitsCounted DEF UploadsCounted
  <1>9. DownloadsCounted'
    <2>1. PermitMove(downloads, downloads', r \in DownloadHolders, r \in DownloadHolders')
      BY <1>6 DEF PermitMove
    <2>2. downloads \in Nat /\ downloads + Cardinality(DownloadHolders) = MaxDownloads
      BY <1>1 DEF Counted, DownloadsCounted
    <2>3. QED
      BY <2>1, <2>2, <1>4, <1>6, <1>7, PermitsCounted DEF DownloadsCounted
  <1>10. QED
    BY <1>2, <1>3, <1>8, <1>9 DEF Held, Counted

-----------------------------------------------------------------------------
(* The handlers and the worker.                                            *)

Kinds == {"upload", "download", "delete"}
Entries == {"none", "empty", "body", "plain"}

LEMMA RequestHere ==
  ASSUME Held, NEW r \in Reqs
  PROVE  /\ RequestAt(r, Kind[r], conn[r], handler[r], spool[r], Jobs, Cut) /\ Kind[r] \in Kinds
         /\ conn[r] \in {"new", "open", "closed"} /\ handler[r] \in Handlers /\ spool[r] \in Entries
         /\ uploads \in Nat /\ downloads \in Nat
  <1>1. Types
    BY DEF Held
  <1>2. Kind[r] \in Kinds
    BY <1>1, SettingFacts DEF Kinds
  <1>3. QED
    BY <1>1, <1>2 DEF Held, Placed, Types, Counted, UploadsCounted, DownloadsCounted, Entries

\* A step of a handler beside the queue and the worker.
HandlerStep(r, c, h, s) ==
  /\ conn' = [conn EXCEPT ![r] = c]
  /\ handler' = [handler EXCEPT ![r] = h]
  /\ spool' = [spool EXCEPT ![r] = s]
  /\ UNCHANGED <<setting, queue, worker, audit, lost>>
  /\ \/ UNCHANGED answer
     \/ \E what \in {"ok", "error"} : answer' = [answer EXCEPT ![r] = what]

LEMMA HandlerKeeps ==
  ASSUME Held, NEW r \in Reqs, NEW c \in {"new", "open", "closed"}, NEW h \in Handlers, NEW s \in Entries,
         HandlerStep(r, c, h, s), RequestAt(r, Kind[r], c, h, s, Jobs, Cut), SlotMove(r, c),
         PermitMove(uploads, uploads', HoldsUpload(r, handler[r], Jobs), HoldsUpload(r, h, Jobs)),
         PermitMove(downloads, downloads', HoldsDownload(r, handler[r]), HoldsDownload(r, h))
  PROVE  Held'
  <1>1. Reqs' = Reqs /\ Kind' = Kind /\ Jobs' = Jobs
    BY DEF HandlerStep, Reqs, Kind, Jobs
  <1>2. RequestStep(r, c, h, s)
    BY <1>1 DEF HandlerStep, RequestStep
  <1>3. Types /\ QueueOK
    BY DEF Held
  <1>4. answer' \in [Reqs -> {"none", "ok", "error"}]
    <2>1. CASE UNCHANGED answer
      BY <1>3, <2>1 DEF Types
    <2>2. ASSUME NEW what \in {"ok", "error"}, answer' = [answer EXCEPT ![r] = what]
          PROVE  answer' \in [Reqs -> {"none", "ok", "error"}]
      BY <1>3, <2>2 DEF Types
    <2>3. QED
      BY <2>1, <2>2 DEF HandlerStep
  <1>5. Types'
    BY <1>1, <1>3, <1>4 DEF Types, HandlerStep, Entries
  <1>6. QueueOK'
    BY <1>1, <1>3 DEF QueueOK, HandlerStep, Downloading
  <1>7. QED
    BY <1>1, <1>2, <1>5, <1>6, HeldKept

LEMMA ConnectKeeps == ASSUME Held, NEW r \in Reqs, UNCHANGED setting, Connect(r) PROVE Held'
  <1>1. /\ RequestAt(r, Kind[r], conn[r], handler[r], spool[r], Jobs, Cut) /\ Kind[r] \in Kinds
        /\ conn[r] \in {"new", "open", "closed"} /\ handler[r] \in Handlers /\ spool[r] \in Entries
        /\ uploads \in Nat /\ downloads \in Nat
    BY RequestHere
  <1>2. HandlerStep(r, "open", handler[r], spool[r])
    BY DEF Connect, HandlerStep, Held, Types
  <1>3. RequestAt(r, Kind[r], "open", handler[r], spool[r], Jobs, Cut)
    BY <1>1 DEF Connect, RequestAt, Busy, Before, Uploading, Downloading, Kinds
  <1>4. SlotMove(r, "open")
    BY DEF Connect, SlotMove
  <1>5. PermitMove(uploads, uploads', HoldsUpload(r, handler[r], Jobs), HoldsUpload(r, handler[r], Jobs))
    BY <1>1 DEF Connect, PermitMove, HoldsUpload, RequestAt, Before, Busy, Uploading, Downloading
  <1>6. PermitMove(downloads, downloads', HoldsDownload(r, handler[r]), HoldsDownload(r, handler[r]))
    BY <1>1 DEF Connect, PermitMove, HoldsDownload, RequestAt, Before, Busy, Uploading, Downloading
  <1>7. QED
    BY <1>1, <1>2, <1>3, <1>4, <1>5, <1>6, HandlerKeeps DEF Handlers, Entries

LEMMA CloseKeeps == ASSUME Held, NEW r \in Reqs, UNCHANGED setting, Close(r) PROVE Held'
  <1>1. /\ RequestAt(r, Kind[r], conn[r], handler[r], spool[r], Jobs, Cut) /\ Kind[r] \in Kinds
        /\ conn[r] \in {"new", "open", "closed"} /\ handler[r] \in Handlers /\ spool[r] \in Entries
        /\ uploads \in Nat /\ downloads \in Nat
    BY RequestHere
  <1>2. HandlerStep(r, "closed", handler[r], spool[r])
    BY DEF Close, ReleaseSlot, HandlerStep, Held, Types
  <1>3. RequestAt(r, Kind[r], "closed", handler[r], spool[r], Jobs, Cut)
    BY <1>1 DEF Close, ReleaseSlot, RequestAt, Busy, Before, Uploading, Downloading, Kinds
  <1>4. SlotMove(r, "closed")
    BY DEF Close, ReleaseSlot, SlotMove
  <1>5. PermitMove(uploads, uploads', HoldsUpload(r, handler[r], Jobs), HoldsUpload(r, handler[r], Jobs))
    BY <1>1 DEF Close, ReleaseSlot, PermitMove, HoldsUpload, RequestAt, Before, Busy, Uploading, Downloading
  <1>6. PermitMove(downloads, downloads', HoldsDownload(r, handler[r]), HoldsDownload(r, handler[r]))
    BY <1>1 DEF Close, ReleaseSlot, PermitMove, HoldsDownload, RequestAt, Before, Busy, Uploading, Downloading
  <1>7. QED
    BY <1>1, <1>2, <1>3, <1>4, <1>5, <1>6, HandlerKeeps DEF Handlers, Entries

LEMMA RefuseKeeps == ASSUME Held, NEW r \in Reqs, UNCHANGED setting, Refuse(r) PROVE Held'
  <1>1. /\ RequestAt(r, Kind[r], conn[r], handler[r], spool[r], Jobs, Cut) /\ Kind[r] \in Kinds
        /\ conn[r] \in {"new", "open", "closed"} /\ handler[r] \in Handlers /\ spool[r] \in Entries
        /\ uploads \in Nat /\ downloads \in Nat
    BY RequestHere
  <1>2. HandlerStep(r, conn[r], "answered", spool[r])
    BY DEF Refuse, Tell, HandlerStep, Held, Types
  <1>3. RequestAt(r, Kind[r], conn[r], "answered", spool[r], Jobs, Cut)
    BY <1>1 DEF Refuse, Tell, RequestAt, Busy, Before, Uploading, Downloading, Kinds
  <1>4. SlotMove(r, conn[r])
    BY DEF Refuse, Tell, SlotMove
  <1>5. PermitMove(uploads, uploads', HoldsUpload(r, handler[r], Jobs), HoldsUpload(r, "answered", Jobs))
    BY <1>1 DEF Refuse, Tell, PermitMove, HoldsUpload, RequestAt, Before, Busy, Uploading, Downloading
  <1>6. PermitMove(downloads, downloads', HoldsDownload(r, handler[r]), HoldsDownload(r, "answered"))
    BY <1>1 DEF Refuse, Tell, PermitMove, HoldsDownload, RequestAt, Before, Busy, Uploading, Downloading
  <1>7. QED
    BY <1>1, <1>2, <1>3, <1>4, <1>5, <1>6, HandlerKeeps DEF Handlers, Entries

LEMMA BeginUploadKeeps == ASSUME Held, NEW r \in Reqs, UNCHANGED setting, BeginUpload(r) PROVE Held'
  <1>1. /\ RequestAt(r, Kind[r], conn[r], handler[r], spool[r], Jobs, Cut) /\ Kind[r] \in Kinds
        /\ conn[r] \in {"new", "open", "closed"} /\ handler[r] \in Handlers /\ spool[r] \in Entries
        /\ uploads \in Nat /\ downloads \in Nat
    BY RequestHere
  <1>2. HandlerStep(r, conn[r], "spooling", "empty")
    BY DEF BeginUpload, Go, HandlerStep, Held, Types
  <1>3. RequestAt(r, Kind[r], conn[r], "spooling", "empty", Jobs, Cut)
    BY <1>1 DEF BeginUpload, Go, RequestAt, Busy, Before, Uploading, Downloading, Kinds
  <1>4. SlotMove(r, conn[r])
    BY DEF BeginUpload, Go, SlotMove
  <1>5. PermitMove(uploads, uploads', HoldsUpload(r, handler[r], Jobs), HoldsUpload(r, "spooling", Jobs))
    BY <1>1 DEF BeginUpload, Go, PermitMove, HoldsUpload, RequestAt, Before, Busy, Uploading, Downloading
  <1>6. PermitMove(downloads, downloads', HoldsDownload(r, handler[r]), HoldsDownload(r, "spooling"))
    BY <1>1 DEF BeginUpload, Go, PermitMove, HoldsDownload, RequestAt, Before, Busy, Uploading, Downloading
  <1>7. QED
    BY <1>1, <1>2, <1>3, <1>4, <1>5, <1>6, HandlerKeeps DEF Handlers, Entries

LEMMA SpoolBodyKeeps == ASSUME Held, NEW r \in Reqs, UNCHANGED setting, SpoolBody(r) PROVE Held'
  <1>1. /\ RequestAt(r, Kind[r], conn[r], handler[r], spool[r], Jobs, Cut) /\ Kind[r] \in Kinds
        /\ conn[r] \in {"new", "open", "closed"} /\ handler[r] \in Handlers /\ spool[r] \in Entries
        /\ uploads \in Nat /\ downloads \in Nat
    BY RequestHere
  <1>2. HandlerStep(r, conn[r], "sending", "body")
    BY DEF SpoolBody, Go, HandlerStep, Held, Types
  <1>3. RequestAt(r, Kind[r], conn[r], "sending", "body", Jobs, Cut)
    BY <1>1 DEF SpoolBody, Go, RequestAt, Busy, Before, Uploading, Downloading, Kinds
  <1>4. SlotMove(r, conn[r])
    BY DEF SpoolBody, Go, SlotMove
  <1>5. PermitMove(uploads, uploads', HoldsUpload(r, handler[r], Jobs), HoldsUpload(r, "sending", Jobs))
    BY <1>1 DEF SpoolBody, Go, PermitMove, HoldsUpload, RequestAt, Before, Busy, Uploading, Downloading
  <1>6. PermitMove(downloads, downloads', HoldsDownload(r, handler[r]), HoldsDownload(r, "sending"))
    BY <1>1 DEF SpoolBody, Go, PermitMove, HoldsDownload, RequestAt, Before, Busy, Uploading, Downloading
  <1>7. QED
    BY <1>1, <1>2, <1>3, <1>4, <1>5, <1>6, HandlerKeeps DEF Handlers, Entries

LEMMA SpoolFailsKeeps == ASSUME Held, NEW r \in Reqs, UNCHANGED setting, SpoolFails(r) PROVE Held'
  <1>1. /\ RequestAt(r, Kind[r], conn[r], handler[r], spool[r], Jobs, Cut) /\ Kind[r] \in Kinds
        /\ conn[r] \in {"new", "open", "closed"} /\ handler[r] \in Handlers /\ spool[r] \in Entries
        /\ uploads \in Nat /\ downloads \in Nat
    BY RequestHere
  <1>2. HandlerStep(r, conn[r], "answered", "none")
    BY DEF SpoolFails, Tell, HandlerStep, Held, Types
  <1>3. RequestAt(r, Kind[r], conn[r], "answered", "none", Jobs, Cut)
    BY <1>1 DEF SpoolFails, Tell, RequestAt, Busy, Before, Uploading, Downloading, Kinds
  <1>4. SlotMove(r, conn[r])
    BY DEF SpoolFails, Tell, SlotMove
  <1>5. PermitMove(uploads, uploads', HoldsUpload(r, handler[r], Jobs), HoldsUpload(r, "answered", Jobs))
    BY <1>1 DEF SpoolFails, Tell, PermitMove, HoldsUpload, RequestAt, Before, Busy, Uploading, Downloading
  <1>6. PermitMove(downloads, downloads', HoldsDownload(r, handler[r]), HoldsDownload(r, "answered"))
    BY <1>1 DEF SpoolFails, Tell, PermitMove, HoldsDownload, RequestAt, Before, Busy, Uploading, Downloading
  <1>7. QED
    BY <1>1, <1>2, <1>3, <1>4, <1>5, <1>6, HandlerKeeps DEF Handlers, Entries

LEMMA BeginDownloadKeeps == ASSUME Held, NEW r \in Reqs, UNCHANGED setting, BeginDownload(r) PROVE Held'
  <1>1. /\ RequestAt(r, Kind[r], conn[r], handler[r], spool[r], Jobs, Cut) /\ Kind[r] \in Kinds
        /\ conn[r] \in {"new", "open", "closed"} /\ handler[r] \in Handlers /\ spool[r] \in Entries
        /\ uploads \in Nat /\ downloads \in Nat
    BY RequestHere
  <1>2. HandlerStep(r, conn[r], "sending", "empty")
    BY DEF BeginDownload, Go, HandlerStep, Held, Types
  <1>3. RequestAt(r, Kind[r], conn[r], "sending", "empty", Jobs, Cut)
    BY <1>1 DEF BeginDownload, Go, RequestAt, Busy, Before, Uploading, Downloading, Kinds
  <1>4. SlotMove(r, conn[r])
    BY DEF BeginDownload, Go, SlotMove
  <1>5. PermitMove(uploads, uploads', HoldsUpload(r, handler[r], Jobs), HoldsUpload(r, "sending", Jobs))
    BY <1>1 DEF BeginDownload, Go, PermitMove, HoldsUpload, RequestAt, Before, Busy, Uploading, Downloading
  <1>6. PermitMove(downloads, downloads', HoldsDownload(r, handler[r]), HoldsDownload(r, "sending"))
    BY <1>1 DEF BeginDownload, Go, PermitMove, HoldsDownload, RequestAt, Before, Busy, Uploading, Downloading
  <1>7. QED
    BY <1>1, <1>2, <1>3, <1>4, <1>5, <1>6, HandlerKeeps DEF Handlers, Entries

LEMMA BeginDeleteKeeps == ASSUME Held, NEW r \in Reqs, UNCHANGED setting, BeginDelete(r) PROVE Held'
  <1>1. /\ RequestAt(r, Kind[r], conn[r], handler[r], spool[r], Jobs, Cut) /\ Kind[r] \in Kinds
        /\ conn[r] \in {"new", "open", "closed"} /\ handler[r] \in Handlers /\ spool[r] \in Entries
        /\ uploads \in Nat /\ downloads \in Nat
    BY RequestHere
  <1>2. HandlerStep(r, conn[r], "sending", spool[r])
    BY DEF BeginDelete, Go, HandlerStep, Held, Types
  <1>3. RequestAt(r, Kind[r], conn[r], "sending", spool[r], Jobs, Cut)
    BY <1>1 DEF BeginDelete, Go, RequestAt, Busy, Before, Uploading, Downloading, Kinds
  <1>4. SlotMove(r, conn[r])
    BY DEF BeginDelete, Go, SlotMove
  <1>5. PermitMove(uploads, uploads', HoldsUpload(r, handler[r], Jobs), HoldsUpload(r, "sending", Jobs))
    BY <1>1 DEF BeginDelete, Go, PermitMove, HoldsUpload, RequestAt, Before, Busy, Uploading, Downloading
  <1>6. PermitMove(downloads, downloads', HoldsDownload(r, handler[r]), HoldsDownload(r, "sending"))
    BY <1>1 DEF BeginDelete, Go, PermitMove, HoldsDownload, RequestAt, Before, Busy, Uploading, Downloading
  <1>7. QED
    BY <1>1, <1>2, <1>3, <1>4, <1>5, <1>6, HandlerKeeps DEF Handlers, Entries

LEMMA SentKeeps == ASSUME Held, NEW r \in Reqs, UNCHANGED setting, Sent(r) PROVE Held'
  <1>1. /\ RequestAt(r, Kind[r], conn[r], handler[r], spool[r], Jobs, Cut) /\ Kind[r] \in Kinds
        /\ conn[r] \in {"new", "open", "closed"} /\ handler[r] \in Handlers /\ spool[r] \in Entries
        /\ uploads \in Nat /\ downloads \in Nat
    BY RequestHere
  <1>2. HandlerStep(r, conn[r], "answered", spool[r])
    BY DEF Sent, Tell, HandlerStep, Held, Types
  <1>3. RequestAt(r, Kind[r], conn[r], "answered", spool[r], Jobs, Cut)
    BY <1>1 DEF Sent, Tell, RequestAt, Busy, Before, Uploading, Downloading, Kinds
  <1>4. SlotMove(r, conn[r])
    BY DEF Sent, Tell, SlotMove
  <1>5. PermitMove(uploads, uploads', HoldsUpload(r, handler[r], Jobs), HoldsUpload(r, "answered", Jobs))
    BY <1>1 DEF Sent, Tell, PermitMove, HoldsUpload, RequestAt, Before, Busy, Uploading, Downloading
  <1>6. PermitMove(downloads, downloads', HoldsDownload(r, handler[r]), HoldsDownload(r, "answered"))
    BY <1>1 DEF Sent, Tell, PermitMove, HoldsDownload, RequestAt, Before, Busy, Uploading, Downloading
  <1>7. QED
    BY <1>1, <1>2, <1>3, <1>4, <1>5, <1>6, HandlerKeeps DEF Handlers, Entries

LEMMA OpenKeeps == ASSUME Held, NEW r \in Reqs, UNCHANGED setting, Open(r) PROVE Held'
  <1>1. /\ RequestAt(r, Kind[r], conn[r], handler[r], spool[r], Jobs, Cut) /\ Kind[r] \in Kinds
        /\ conn[r] \in {"new", "open", "closed"} /\ handler[r] \in Handlers /\ spool[r] \in Entries
        /\ uploads \in Nat /\ downloads \in Nat
    BY RequestHere
  <1>2. Kind[r] = "download" /\ conn[r] = "open" /\ r \notin Jobs /\ Busy(handler[r])
    BY <1>1 DEF Open, RequestAt, Busy
  <1>3. SlotMove(r, conn[r])
    BY DEF Open, SlotMove
  <1>4. CASE handler[r] = "got_ok" /\ Go(r, "streaming") /\ UNCHANGED <<downloads, answer>>
    <2>1. HandlerStep(r, conn[r], "streaming", "none") /\ UNCHANGED <<uploads, downloads>>
      <3>1. /\ spool' = [spool EXCEPT ![r] = "none"] /\ handler' = [handler EXCEPT ![r] = "streaming"]
            /\ UNCHANGED <<conn, queue, worker, audit, lost, answer, uploads, downloads>>
        BY <1>4 DEF Open, Go
      <3>2. QED
        BY <3>1 DEF HandlerStep, Held, Types
    <2>2. RequestAt(r, Kind[r], conn[r], "streaming", "none", Jobs, Cut)
      BY <1>2 DEF RequestAt, Busy, Before
    <2>3. PermitMove(uploads, uploads', HoldsUpload(r, handler[r], Jobs), HoldsUpload(r, "streaming", Jobs))
      BY <1>2, <2>1 DEF PermitMove, HoldsUpload
    <2>4. PermitMove(downloads, downloads', HoldsDownload(r, handler[r]), HoldsDownload(r, "streaming"))
      BY <1>2, <2>1 DEF PermitMove, HoldsDownload, Busy
    <2>5. QED
      BY <1>1, <1>3, <2>1, <2>2, <2>3, <2>4, HandlerKeeps DEF Handlers, Entries
  <1>5. CASE Tell(r, "error") /\ downloads' = downloads + 1
    <2>1. HandlerStep(r, conn[r], "answered", "none") /\ uploads' = uploads /\ downloads' = downloads + 1
      BY <1>5 DEF Open, Tell, HandlerStep, Held, Types
    <2>2. RequestAt(r, Kind[r], conn[r], "answered", "none", Jobs, Cut)
      BY <1>2 DEF RequestAt, Busy, Before
    <2>3. PermitMove(uploads, uploads', HoldsUpload(r, handler[r], Jobs), HoldsUpload(r, "answered", Jobs))
      BY <1>2, <2>1 DEF PermitMove, HoldsUpload
    <2>4. PermitMove(downloads, downloads', HoldsDownload(r, handler[r]), HoldsDownload(r, "answered"))
      BY <1>2, <2>1 DEF PermitMove, HoldsDownload, Busy
    <2>5. QED
      BY <1>1, <1>3, <2>1, <2>2, <2>3, <2>4, HandlerKeeps DEF Handlers, Entries
  <1>6. QED
    BY <1>4, <1>5 DEF Open

LEMMA HangUpKeeps == ASSUME Held, NEW r \in Reqs, UNCHANGED setting, HangUp(r) PROVE Held'
  <1> DEFINE s == IF DroppedEntry(r) THEN "none" ELSE spool[r]
  <1>1. /\ RequestAt(r, Kind[r], conn[r], handler[r], spool[r], Jobs, Cut) /\ Kind[r] \in Kinds
        /\ conn[r] \in {"new", "open", "closed"} /\ handler[r] \in Handlers /\ spool[r] \in Entries
        /\ uploads \in Nat /\ downloads \in Nat
    BY RequestHere
  <1>2. conn[r] = "open" /\ Busy(handler[r]) /\ (Kind[r] = "download" => Cut)
    BY <1>1 DEF HangUp, HangUps, Cut, Busy, RequestAt
  <1>3. /\ uploads' = uploads + (IF DroppedUpload(r) THEN 1 ELSE 0)
        /\ downloads' = downloads + (IF DroppedDownload(r) THEN 1 ELSE 0)
    BY DEF HangUp
  <1>4. HandlerStep(r, "closed", "gone", s)
    BY DEF HangUp, ReleaseSlot, Go, HandlerStep, Held, Types
  <1>5. RequestAt(r, Kind[r], "closed", "gone", s, Jobs, Cut)
    BY <1>1, <1>2 DEF RequestAt, Busy, Before, DroppedEntry, DroppedUpload, Uploading, Downloading, Kinds
  <1>6. SlotMove(r, "closed")
    BY <1>2 DEF HangUp, ReleaseSlot, SlotMove
  <1>7. PermitMove(uploads, uploads', HoldsUpload(r, handler[r], Jobs), HoldsUpload(r, "gone", Jobs))
    BY <1>1, <1>3 DEF PermitMove, HoldsUpload, RequestAt, DroppedUpload, Uploading, Before
  <1>8. PermitMove(downloads, downloads', HoldsDownload(r, handler[r]), HoldsDownload(r, "gone"))
    BY <1>1, <1>2, <1>3 DEF PermitMove, HoldsDownload, DroppedDownload, Downloading, Busy
  <1>9. s \in Entries
    BY <1>1 DEF Entries
  <1> HIDE DEF s
  <1>10. QED
    BY <1>4, <1>5, <1>6, <1>7, <1>8, <1>9, HandlerKeeps DEF Handlers

\* A step that leaves everyone where they are, and the jobs the same.
LEMMA StillKeeps ==
  ASSUME Held, UNCHANGED <<setting, conn, total, per, handler, uploads, downloads, spool>>, Jobs' = Jobs,
         Types', QueueOK'
  PROVE  Held'
  <1>1. Reqs' = Reqs /\ Kind' = Kind /\ Cut' = Cut /\ Addrs' = Addrs /\ MaxConnections' = MaxConnections
    BY DEF Reqs, Kind, Cut, Addrs, MaxConnections
  <1>2. Placed'
    BY <1>1 DEF Held, Placed
  <1>3. Opened' = Opened /\ UploadHolders' = UploadHolders /\ DownloadHolders' = DownloadHolders
    BY <1>1 DEF Opened, UploadHolders, DownloadHolders, Uploading, Downloading
  <1>4. \A a \in Addrs : OpenedAt(a)' = OpenedAt(a)
    BY <1>1 DEF OpenedAt
  <1>5. SlotsCounted'
    BY <1>1, <1>3, <1>4 DEF Held, Counted, SlotsCounted
  <1>6. QED
    BY <1>2, <1>3, <1>5 DEF Held, Counted, UploadsCounted, DownloadsCounted

LEMMA SendKeeps == ASSUME Held, NEW r \in Reqs, UNCHANGED setting, Send(r) PROVE Held'
  <1>1. /\ RequestAt(r, Kind[r], conn[r], handler[r], spool[r], Jobs, Cut) /\ Kind[r] \in Kinds
        /\ conn[r] \in {"new", "open", "closed"} /\ handler[r] \in Handlers /\ spool[r] \in Entries
        /\ uploads \in Nat /\ downloads \in Nat
    BY RequestHere
  <1>2. handler[r] = "sending" /\ r \notin Jobs
    BY <1>1 DEF Send, RequestAt
  <1>3. Types /\ QueueOK /\ queue \in Seq(Reqs) /\ QueueLen \in Nat
    BY QueueAssumption DEF Held, Types
  <1>4. /\ queue' = Append(queue, r) /\ queue' \in Seq(Reqs) /\ Len(queue) \in Nat
        /\ Len(queue') = Len(queue) + 1 /\ Len(queue) < QueueLen
        /\ DOMAIN queue' = DOMAIN queue \union {Len(queue) + 1} /\ DOMAIN queue = 1..Len(queue)
        /\ \A i \in DOMAIN queue : queue'[i] = queue[i]
        /\ queue'[Len(queue) + 1] = r
    BY <1>3 DEF Send
  <1>5. Jobs' = Jobs \union {r} /\ UNCHANGED worker
    <2>1. {queue'[i] : i \in DOMAIN queue'} = {queue[i] : i \in DOMAIN queue} \union {r}
      BY <1>4
    <2>2. QED
      BY <2>1 DEF Jobs, Send
  <1>6. RequestStep(r, conn[r], "waiting", spool[r])
    BY <1>3, <1>5 DEF Send, Go, RequestStep, Types
  <1>7. Types'
    BY <1>3, <1>4, OthersStay, <1>6 DEF Types, Send, Go, Handlers
  <1>8. QueueOK'
    <2>1. \A i \in DOMAIN queue : queue[i] # r
      BY <1>2 DEF Jobs
    <2>2. worker.job # r
      BY <1>2, <1>3, SettingFacts DEF Jobs
    <2>3. Reqs' = Reqs /\ Kind' = Kind
      BY <1>3, <1>6, OthersStay
    <2>4. \A i, j \in DOMAIN queue' : queue'[i] = queue'[j] => i = j
      BY <1>3, <1>4, <2>1 DEF QueueOK
    <2>5. \A i \in DOMAIN queue' : queue'[i] # worker'.job
      BY <1>3, <1>4, <1>5, <2>2 DEF QueueOK
    <2>6. QED
      BY <1>3, <1>5, <2>3, <2>4, <2>5 DEF QueueOK, Downloading
  <1>9. RequestAt(r, Kind[r], conn[r], "waiting", spool[r], Jobs', Cut)
    BY <1>1, <1>2, <1>5 DEF RequestAt, Busy, Before
  <1>10. SlotMove(r, conn[r])
    BY DEF Send, SlotMove
  <1>11. PermitMove(uploads, uploads', HoldsUpload(r, handler[r], Jobs), HoldsUpload(r, "waiting", Jobs'))
    BY <1>2, <1>5 DEF Send, PermitMove, HoldsUpload, Before
  <1>12. PermitMove(downloads, downloads', HoldsDownload(r, handler[r]), HoldsDownload(r, "waiting"))
    BY <1>2 DEF Send, PermitMove, HoldsDownload, Busy
  <1>13. QED
    BY <1>6, <1>7, <1>8, <1>9, <1>10, <1>11, <1>12, HeldKept

LEMMA TakeKeeps == ASSUME Held, UNCHANGED setting, Take PROVE Held'
  <1>1. Types /\ QueueOK /\ queue \in Seq(Reqs) /\ QueueLen \in Nat
    BY QueueAssumption DEF Held, Types
  <1>2. worker = NoJob /\ queue # <<>>
    BY DEF Take
  <1>3. /\ queue' = Tail(queue) /\ Head(queue) = queue[1] /\ queue[1] \in Reqs
        /\ queue' \in Seq(Reqs) /\ Len(queue) \in Nat \ {0} /\ Len(queue') = Len(queue) - 1
        /\ DOMAIN queue = 1..Len(queue) /\ DOMAIN queue' = 1..(Len(queue) - 1)
        /\ \A i \in 1..(Len(queue) - 1) : queue'[i] = queue[i + 1]
    BY <1>1, <1>2 DEF Take
  <1>4. worker' = [job |-> queue[1], ok |-> FALSE, pc |-> IF Downloading(queue[1]) THEN "run" ELSE "begin"]
    BY <1>3 DEF Take
  <1>5. "none" \notin Reqs
    BY <1>1, SettingFacts
  <1>6. Jobs' = Jobs
    <2>1. {queue[i] : i \in DOMAIN queue} = {queue'[i] : i \in DOMAIN queue'} \union {queue[1]}
      <3>1. ASSUME NEW i \in 1..Len(queue)
            PROVE  queue[i] \in {queue'[j] : j \in DOMAIN queue'} \union {queue[1]}
        <4>1. CASE i = 1
          BY <4>1
        <4>2. CASE i # 1
          <5>1. i - 1 \in 1..(Len(queue) - 1) /\ (i - 1) + 1 = i
            BY <1>3, <4>2
          <5>2. queue'[i - 1] = queue[i]
            BY <1>3, <5>1
          <5>3. QED
            BY <1>3, <5>1, <5>2
        <4>3. QED
          BY <4>1, <4>2
      <3>2. ASSUME NEW i \in 1..(Len(queue) - 1)
            PROVE  queue'[i] \in {queue[j] : j \in DOMAIN queue}
        <4>1. i + 1 \in DOMAIN queue /\ queue'[i] = queue[i + 1]
          BY <1>3
        <4>2. QED
          BY <4>1
      <3>3. queue[1] \in {queue[i] : i \in DOMAIN queue}
        BY <1>3
      <3>4. QED
        BY <1>3, <3>1, <3>2, <3>3
    <2>2. worker.job = "none" /\ worker'.job = queue[1] /\ queue[1] # "none"
      BY <1>2, <1>3, <1>4, <1>5 DEF NoJob
    <2>3. QED
      BY <2>1, <2>2 DEF Jobs
  <1>7. Reqs' = Reqs /\ Kind' = Kind
    BY DEF Reqs, Kind
  <1>8. Types'
    BY <1>1, <1>3, <1>4, <1>7 DEF Types, Take
  <1>9. QueueOK'
    <2>1. ASSUME NEW i \in DOMAIN queue', NEW j \in DOMAIN queue', queue'[i] = queue'[j]
          PROVE  i = j
      <3>1. i + 1 \in DOMAIN queue /\ j + 1 \in DOMAIN queue /\ queue[i + 1] = queue[j + 1]
        BY <1>3, <2>1
      <3>2. i + 1 = j + 1
        BY <1>1, <3>1 DEF QueueOK
      <3>3. QED
        BY <1>3, <3>2
    <2>2. ASSUME NEW i \in DOMAIN queue'
          PROVE  queue'[i] # worker'.job
      <3>1. i + 1 \in DOMAIN queue /\ 1 \in DOMAIN queue /\ i + 1 # 1 /\ queue'[i] = queue[i + 1]
        BY <1>3
      <3>2. QED
        BY <1>1, <1>4, <3>1 DEF QueueOK
    <2>3. worker'.pc # "idle" /\ worker'.job \in Reqs /\ worker'.pc # "end" /\ worker'.ok = FALSE
      BY <1>3, <1>4
    <2>4. worker'.pc = "begin" => ~Downloading(worker'.job)
      BY <1>4
    <2>5. QED
      BY <1>7, <2>1, <2>2, <2>3, <2>4 DEF QueueOK, Downloading
  <1>10. QED
    BY <1>6, <1>8, <1>9, StillKeeps DEF Take

LEMMA AuditBeginKeeps == ASSUME Held, UNCHANGED setting, AuditBegin PROVE Held'
  <1>1. Types /\ QueueOK
    BY DEF Held
  <1>2. worker.pc = "begin" /\ worker' = [worker EXCEPT !.pc = "run"] /\ worker.job \in Reqs
    BY <1>1 DEF AuditBegin, QueueOK
  <1>3. worker'.job = worker.job /\ worker'.pc = "run" /\ worker'.ok = worker.ok /\ UNCHANGED queue
    BY <1>1, <1>2 DEF Types, AuditBegin
  <1>4. Reqs' = Reqs /\ Kind' = Kind /\ Jobs' = Jobs
    BY <1>3 DEF Reqs, Kind, Jobs
  <1>5. Types'
    BY <1>1, <1>2, <1>4 DEF Types, AuditBegin
  <1>6. QueueOK'
    BY <1>1, <1>2, <1>3, <1>4 DEF QueueOK, Downloading
  <1>7. QED
    BY <1>4, <1>5, <1>6, StillKeeps DEF AuditBegin

LEMMA ChangeKeeps == ASSUME Held, UNCHANGED setting, Change PROVE Held'
  <1>1. Types /\ QueueOK
    BY DEF Held
  <1>2. /\ worker.pc = "run" /\ ~Downloading(worker.job) /\ worker.job \in Reqs
        /\ worker' \in {[worker EXCEPT !.pc = "end", !.ok = TRUE], [worker EXCEPT !.pc = "end"]}
    BY <1>1 DEF Change, QueueOK
  <1>3. worker'.job = worker.job /\ worker'.pc = "end" /\ UNCHANGED queue
    BY <1>1, <1>2 DEF Types, Change
  <1>4. Reqs' = Reqs /\ Kind' = Kind /\ Jobs' = Jobs
    BY <1>3 DEF Reqs, Kind, Jobs
  <1>5. Types'
    BY <1>1, <1>2, <1>4 DEF Types, Change
  <1>6. QueueOK'
    BY <1>1, <1>2, <1>3, <1>4 DEF QueueOK, Downloading
  <1>7. QED
    BY <1>4, <1>5, <1>6, StillKeeps DEF Change

\* The worker is done with its job, in whatever way its handler hears of it.
LEMMA JobDone ==
  ASSUME Held, UNCHANGED setting, worker.pc # "idle", worker' = NoJob, UNCHANGED queue
  PROVE  worker.job \in Reqs /\ Jobs' = Jobs \ {worker.job} /\ worker.job \in Jobs /\ QueueOK'
  <1>1. Types /\ QueueOK
    BY DEF Held
  <1>2. worker.job \in Reqs /\ "none" \notin Reqs
    BY <1>1, SettingFacts DEF QueueOK
  <1>3. \A i \in DOMAIN queue : queue[i] \in Reqs /\ queue[i] # worker.job
    BY <1>1 DEF Types, QueueOK
  <1>4. Jobs' = {queue[i] : i \in DOMAIN queue} /\ worker'.job = "none" /\ worker'.pc = "idle" /\ worker'.ok = FALSE
    BY DEF Jobs, NoJob
  <1>5. Jobs = {queue[i] : i \in DOMAIN queue} \union {worker.job}
    BY <1>2 DEF Jobs
  <1>6. Jobs' = Jobs \ {worker.job} /\ worker.job \in Jobs
    BY <1>3, <1>4, <1>5
  <1>7. QueueOK'
    BY <1>1, <1>2, <1>3, <1>4 DEF QueueOK
  <1>8. QED
    BY <1>2, <1>6, <1>7

\* Where a reply puts the handler.
Heard(r, ok) ==
  IF handler[r] # "waiting" THEN handler[r]
  ELSE IF Downloading(r) THEN (IF ok THEN "got_ok" ELSE "got_error") ELSE "answered"

LEMMA ReplyHeard ==
  ASSUME Types, NEW r \in Reqs, NEW ok \in BOOLEAN, Reply(r, ok), UNCHANGED setting
  PROVE  /\ handler' = [handler EXCEPT ![r] = Heard(r, ok)] /\ handler' \in [Reqs' -> Handlers]
         /\ answer' \in [Reqs' -> {"none", "ok", "error"}]
         /\ \A q \in Reqs \ {r} : answer'[q] = answer[q]
         /\ answer'[r] = "ok" => answer[r] = "ok" \/ ok
  <1>1. Reqs' = Reqs
    BY DEF Reqs, Kind
  <1>2. handler \in [Reqs -> Handlers] /\ answer \in [Reqs -> {"none", "ok", "error"}]
    BY DEF Types
  <1>3. CASE handler[r] # "waiting"
    BY <1>1, <1>2, <1>3 DEF Reply, Heard
  <1>4. CASE handler[r] = "waiting" /\ Downloading(r)
    BY <1>1, <1>2, <1>4 DEF Reply, Heard, Go, Handlers
  <1>5. CASE handler[r] = "waiting" /\ ~Downloading(r)
    BY <1>1, <1>2, <1>5 DEF Reply, Heard, Tell, Handlers
  <1>6. QED
    BY <1>3, <1>4, <1>5

\* A change that ends, recorded or not: its reply, its hold and its job go.
LEMMA ChangeEnds ==
  ASSUME Held, UNCHANGED setting, worker.pc \in {"begin", "end"}, worker' = NoJob, UNCHANGED queue,
         NEW ok \in BOOLEAN, Reply(worker.job, ok), DropHold(worker.job),
         UNCHANGED <<conn, total, per, downloads>>,
         audit' \in [Reqs -> SUBSET {"allowed", "completed", "failed"}], lost' \subseteq Reqs
  PROVE  Held'
  <1> DEFINE r == worker.job
             s == IF Uploading(r) THEN "none" ELSE spool[r]
  <1>1. r \in Reqs /\ Jobs' = Jobs \ {r} /\ r \in Jobs /\ QueueOK' /\ ~Downloading(r)
    BY JobDone DEF Held, QueueOK
  <1>2. Types
    BY DEF Held
  <1>3. /\ RequestAt(r, Kind[r], conn[r], handler[r], spool[r], Jobs, Cut) /\ Kind[r] \in Kinds
        /\ conn[r] \in {"new", "open", "closed"} /\ handler[r] \in Handlers /\ spool[r] \in Entries
        /\ uploads \in Nat /\ downloads \in Nat
    BY <1>1, RequestHere
  <1>4. /\ handler' = [handler EXCEPT ![r] = Heard(r, ok)] /\ handler' \in [Reqs' -> Handlers]
        /\ answer' \in [Reqs' -> {"none", "ok", "error"}]
    BY <1>1, <1>2, ReplyHeard
  <1>5. spool' = [spool EXCEPT ![r] = s] /\ uploads' = uploads + (IF Uploading(r) THEN 1 ELSE 0)
    BY <1>2, <1>3 DEF DropHold, Types
  <1>6. RequestStep(r, conn[r], Heard(r, ok), s)
    BY <1>1, <1>2, <1>4, <1>5 DEF RequestStep, Types
  <1>7. Types'
    <2>1. Reqs' = Reqs
      BY DEF Reqs, Kind
    <2>2. worker' \in [job : Reqs \union {"none"}, pc : {"idle", "begin", "run", "end"}, ok : BOOLEAN]
      BY DEF NoJob
    <2>3. spool' \in [Reqs -> {"none", "empty", "body", "plain"}]
      BY <1>2, <1>3, <1>5 DEF Types, Entries
    <2>4. QED
      BY <1>2, <1>4, <2>1, <2>2, <2>3 DEF Types
  <1>8. handler[r] \in {"waiting", "gone"} /\ Heard(r, ok) \in {"answered", "gone"}
    BY <1>1, <1>3 DEF RequestAt, Heard
  <1>9. handler[r] = "gone" <=> Heard(r, ok) = "gone"
    BY <1>1, <1>8 DEF Heard
  <1>10. RequestAt(r, Kind[r], conn[r], Heard(r, ok), s, Jobs', Cut)
    BY <1>1, <1>3, <1>8, <1>9 DEF RequestAt, Busy, Before, Uploading, Downloading, Kinds
  <1>11. SlotMove(r, conn[r])
    BY DEF SlotMove
  <1>12. PermitMove(uploads, uploads', HoldsUpload(r, handler[r], Jobs), HoldsUpload(r, Heard(r, ok), Jobs'))
    BY <1>1, <1>3, <1>5, <1>8 DEF PermitMove, HoldsUpload, Before, Uploading
  <1>13. PermitMove(downloads, downloads', HoldsDownload(r, handler[r]), HoldsDownload(r, Heard(r, ok)))
    BY <1>1 DEF PermitMove, HoldsDownload, Downloading
  <1> HIDE DEF s, r
  <1>14. QED
    BY <1>1, <1>6, <1>7, <1>10, <1>11, <1>12, <1>13, HeldKept

LEMMA AuditBeginFailsKeeps == ASSUME Held, UNCHANGED setting, AuditBeginFails PROVE Held'
  <1>1. /\ worker.pc \in {"begin", "end"} /\ worker' = NoJob /\ UNCHANGED queue
        /\ Reply(worker.job, FALSE) /\ DropHold(worker.job) /\ UNCHANGED <<conn, total, per, downloads>>
        /\ UNCHANGED <<audit, lost>>
    BY DEF AuditBeginFails, RefuseUnrecorded
  <1>2. audit \in [Reqs -> SUBSET {"allowed", "completed", "failed"}] /\ lost \subseteq Reqs
    BY DEF Held, Types
  <1>3. FALSE \in BOOLEAN
    OBVIOUS
  <1>4. QED
    BY <1>1, <1>2, <1>3, ChangeEnds

LEMMA AuditEndKeeps == ASSUME Held, UNCHANGED setting, AuditEnd PROVE Held'
  <1>1. /\ worker.pc \in {"begin", "end"} /\ worker' = NoJob /\ UNCHANGED queue
        /\ Reply(worker.job, worker.ok) /\ DropHold(worker.job) /\ UNCHANGED <<conn, total, per, downloads>>
    BY DEF AuditEnd
  <1>2. /\ audit \in [Reqs -> SUBSET {"allowed", "completed", "failed"}] /\ lost \subseteq Reqs
        /\ worker.ok \in BOOLEAN
    BY DEF Held, Types
  <1>3. worker.job \in Reqs
    BY <1>1 DEF Held, QueueOK
  <1>4. audit' \in [Reqs -> SUBSET {"allowed", "completed", "failed"}] /\ lost' \subseteq Reqs
    BY <1>2, <1>3 DEF AuditEnd, Record, Outcome
  <1>5. QED
    BY <1>1, <1>2, <1>4, ChangeEnds

LEMMA DownloadKeeps == ASSUME Held, UNCHANGED setting, Download PROVE Held'
  <1> DEFINE r == worker.job
  <1>1. r \in Reqs /\ Jobs' = Jobs \ {r} /\ r \in Jobs /\ QueueOK' /\ Downloading(r)
    BY JobDone DEF Download
  <1>2. Types
    BY DEF Held
  <1>3. /\ RequestAt(r, Kind[r], conn[r], handler[r], spool[r], Jobs, Cut) /\ Kind[r] \in Kinds
        /\ conn[r] \in {"new", "open", "closed"} /\ handler[r] \in Handlers /\ spool[r] \in Entries
        /\ uploads \in Nat /\ downloads \in Nat
    BY <1>1, RequestHere
  <1>4. PICK ok \in BOOLEAN, s \in Entries : Reply(r, ok) /\ spool' = [spool EXCEPT ![r] = s]
    <2>1. spool = [spool EXCEPT ![r] = spool[r]]
      BY <1>2 DEF Types
    <2>2. CASE spool' = [spool EXCEPT ![r] = "plain"] /\ Reply(r, TRUE)
      BY <2>2 DEF Entries
    <2>3. CASE spool' = [spool EXCEPT ![r] = "empty"] /\ Reply(r, FALSE)
      BY <2>3 DEF Entries
    <2>4. CASE Reply(r, FALSE) /\ UNCHANGED spool
      BY <1>3, <2>1, <2>4
    <2>5. QED
      BY <2>2, <2>3, <2>4 DEF Download
  <1>5. /\ handler' = [handler EXCEPT ![r] = Heard(r, ok)] /\ handler' \in [Reqs' -> Handlers]
        /\ answer' \in [Reqs' -> {"none", "ok", "error"}]
    BY <1>1, <1>2, <1>4, ReplyHeard
  <1>6. RequestStep(r, conn[r], Heard(r, ok), s)
    BY <1>1, <1>2, <1>4, <1>5 DEF RequestStep, Types, Download
  <1>7. Types'
    <2>1. Reqs' = Reqs
      BY DEF Reqs, Kind
    <2>2. worker' \in [job : Reqs \union {"none"}, pc : {"idle", "begin", "run", "end"}, ok : BOOLEAN]
      BY DEF Download, NoJob
    <2>3. spool' \in [Reqs -> {"none", "empty", "body", "plain"}]
      BY <1>2, <1>4 DEF Types, Entries
    <2>4. QED
      BY <1>2, <1>5, <2>1, <2>2, <2>3 DEF Types, Download
  <1>8. /\ handler[r] \in {"waiting", "gone"} /\ Heard(r, ok) \in {"got_ok", "got_error", "gone"}
        /\ handler[r] = "gone" <=> Heard(r, ok) = "gone"
    BY <1>1, <1>3 DEF RequestAt, Heard
  <1>9. RequestAt(r, Kind[r], conn[r], Heard(r, ok), s, Jobs', Cut)
    BY <1>1, <1>3, <1>8 DEF RequestAt, Busy, Before, Downloading
  <1>10. SlotMove(r, conn[r])
    BY DEF SlotMove, Download
  <1>11. PermitMove(uploads, uploads', HoldsUpload(r, handler[r], Jobs), HoldsUpload(r, Heard(r, ok), Jobs'))
    BY <1>1 DEF PermitMove, HoldsUpload, Downloading, Download
  <1>12. PermitMove(downloads, downloads', HoldsDownload(r, handler[r]), HoldsDownload(r, Heard(r, ok)))
    BY <1>8 DEF PermitMove, HoldsDownload, Busy, Download
  <1> HIDE DEF r
  <1>13. QED
    BY <1>1, <1>6, <1>7, <1>9, <1>10, <1>11, <1>12, HeldKept

\* With nobody holding anything, everything is free.
LEMMA NothingHeld ==
  ASSUME Types, Opened = {}, UploadHolders = {}, DownloadHolders = {}, total = 0, per = [a \in Addrs |-> 0],
         uploads = MaxUploads, downloads = MaxDownloads
  PROVE  Counted
  <1>1. MaxConnections \in Nat /\ MaxPerAddress \in Nat /\ MaxUploads \in Nat /\ MaxDownloads \in Nat
    BY SettingFacts, QueueAssumption
  <1>2. Cardinality({}) = 0
    BY FS_EmptySet
  <1>3. \A a \in Addrs : OpenedAt(a) = {}
    BY DEF Opened, OpenedAt
  <1>4. per \in [Addrs -> 0..MaxPerAddress]
    BY <1>1
  <1>5. SlotsCounted
    BY <1>1, <1>2, <1>3, <1>4 DEF SlotsCounted
  <1>6. QED
    BY <1>1, <1>2, <1>5 DEF Counted, UploadsCounted, DownloadsCounted

LEMMA CrashKeeps == ASSUME Held, UNCHANGED setting, Crash PROVE Held'
  <1>1. Types
    BY DEF Held
  <1>2. Reqs' = Reqs /\ Kind' = Kind /\ Cut' = Cut /\ Addrs' = Addrs
    BY DEF Reqs, Kind, Cut, Addrs
  <1>3. queue' = <<>> /\ worker' = NoJob /\ Jobs' = {}
    BY DEF Crash, Jobs, NoJob
  <1>4. lost' \subseteq Reqs
    BY <1>1 DEF Crash, Types
  <1>5. Types'
    BY <1>1, <1>2, <1>3, <1>4, QueueAssumption DEF Types, Crash, NoJob, Handlers
  <1>6. QueueOK'
    BY <1>3 DEF QueueOK, NoJob
  <1>7. ASSUME NEW r \in Reqs
        PROVE  /\ conn'[r] \in {"new", "closed"} /\ handler'[r] \in {"none", "answered", "gone"}
               /\ spool'[r] = "none" /\ (handler'[r] = "gone" => conn'[r] = "closed")
    <2>1. RequestAt(r, Kind[r], conn[r], handler[r], spool[r], Jobs, Cut)
      BY RequestHere
    <2>2. QED
      BY <1>1, <2>1 DEF Crash, Types, RequestAt, Busy, Handlers
  <1>8. Placed'
    BY <1>2, <1>3, <1>7 DEF Placed, RequestAt, Busy, Before
  <1>9. Opened' = {} /\ UploadHolders' = {} /\ DownloadHolders' = {}
    BY <1>2, <1>3, <1>7 DEF Opened, UploadHolders, DownloadHolders, Before, Busy
  <1>10. Counted'
    <2>1. /\ total' = 0 /\ per' = [a \in Addrs' |-> 0]
          /\ uploads' = MaxUploads /\ downloads' = MaxDownloads
      BY <1>2 DEF Crash
    <2>2. MaxConnections' \in Nat /\ MaxPerAddress \in Nat /\ MaxUploads \in Nat /\ MaxDownloads \in Nat
      BY <1>1, SettingFacts, QueueAssumption DEF MaxConnections
    <2>3. Cardinality({}) = 0
      BY FS_EmptySet
    <2>4. \A a \in Addrs' : OpenedAt(a)' = {}
      BY <1>9 DEF Opened, OpenedAt
    <2>5. per' \in [Addrs' -> 0..MaxPerAddress]
      BY <2>1, <2>2
    <2>6. SlotsCounted'
      BY <1>9, <2>1, <2>2, <2>3, <2>4, <2>5 DEF SlotsCounted
    <2>7. QED
      BY <1>9, <2>1, <2>2, <2>3, <2>6 DEF Counted, UploadsCounted, DownloadsCounted
  <1>11. QED
    BY <1>5, <1>6, <1>8, <1>10 DEF Held

LEMMA HeldFirst == Init => Held
  <1> SUFFICES ASSUME Init PROVE Held
    OBVIOUS
  <1>1. Types
    BY QueueAssumption DEF Init, Types, NoJob, Handlers
  <1>2. QueueOK /\ Jobs = {}
    BY DEF Init, QueueOK, NoJob, Jobs
  <1>3. Placed
    BY <1>2 DEF Init, Placed, RequestAt, Busy, Before
  <1>4. Opened = {} /\ UploadHolders = {} /\ DownloadHolders = {}
    BY <1>2 DEF Init, Opened, UploadHolders, DownloadHolders, Before, Busy
  <1>5. Counted
    BY <1>1, <1>4, NothingHeld DEF Init
  <1>6. QED
    BY <1>1, <1>2, <1>3, <1>5 DEF Held

LEMMA HeldStep == Held /\ [Next]_vars => Held'
  <1> SUFFICES ASSUME Held, [Next]_vars PROVE Held'
    OBVIOUS
  <1>1. CASE UNCHANGED vars
    <2>1. UNCHANGED <<setting, conn, total, per, handler, uploads, downloads, spool>> /\ Jobs' = Jobs
      BY <1>1 DEF vars, Jobs
    <2>2. Types'
      BY <1>1 DEF vars, Held, Types, Reqs, Kind
    <2>3. QueueOK'
      BY <1>1 DEF vars, Held, QueueOK, Reqs, Kind, Downloading
    <2>4. QED
      BY <2>1, <2>2, <2>3, StillKeeps
  <1>2. CASE Next
    <2>1. UNCHANGED setting /\ Activity
      BY <1>2 DEF Next
    <2>2. ASSUME NEW r \in Reqs,
                 Connect(r) \/ Close(r) \/ Refuse(r) \/ Admit(r) \/ Progress(r) \/ SpoolFails(r) \/ HangUp(r)
          PROVE  Held'
      BY <2>1, <2>2, ConnectKeeps, CloseKeeps, RefuseKeeps, BeginUploadKeeps, BeginDownloadKeeps,
         BeginDeleteKeeps, SpoolBodyKeeps, SendKeeps, OpenKeeps, SentKeeps, SpoolFailsKeeps, HangUpKeeps
         DEF Admit, Progress
    <2>3. CASE Work
      BY <2>1, <2>3, TakeKeeps, AuditBeginKeeps, AuditBeginFailsKeeps, ChangeKeeps, AuditEndKeeps, DownloadKeeps
         DEF Work
    <2>4. CASE Crash
      BY <2>1, <2>4, CrashKeeps
    <2>5. QED
      BY <2>1, <2>2, <2>3, <2>4 DEF Activity
  <1>3. QED
    BY <1>1, <1>2

LEMMA HeldAlways == Spec => []Held
  BY HeldFirst, HeldStep, PTL DEF Spec

-----------------------------------------------------------------------------
(* Requests are kept.                                                      *)

LEMMA HeldTypes == ASSUME Held PROVE TypeOK
  <1>1. Types
    BY DEF Held
  <1>2. total \in 0..MaxConnections
    <2>1. Cardinality(Opened) \in Nat /\ MaxConnections \in Nat
      BY <1>1, HoldersFinite, FS_CardinalityType, SettingFacts
    <2>2. QED
      BY <2>1 DEF Held, Counted, SlotsCounted
  <1>3. uploads \in 0..MaxUploads
    <2>1. Cardinality(UploadHolders) \in Nat /\ MaxUploads \in Nat
      BY <1>1, HoldersFinite, FS_CardinalityType, QueueAssumption
    <2>2. QED
      BY <2>1 DEF Held, Counted, UploadsCounted
  <1>4. downloads \in 0..MaxDownloads
    <2>1. Cardinality(DownloadHolders) \in Nat /\ MaxDownloads \in Nat
      BY <1>1, HoldersFinite, FS_CardinalityType, QueueAssumption
    <2>2. QED
      BY <2>1 DEF Held, Counted, DownloadsCounted
  <1>5. QED
    BY <1>1, <1>2, <1>3, <1>4 DEF Held, Counted, SlotsCounted, Types, TypeOK, Handlers

LEMMA HeldSuffices == Held => RequestsKept
  <1> SUFFICES ASSUME Held PROVE RequestsKept
    OBVIOUS
  <1>1. Types /\ Jobs \subseteq Reqs
    <2>1. \A i \in DOMAIN queue : queue[i] \in Reqs
      BY DEF Held, Types
    <2>2. worker.job \in Reqs \union {"none"}
      BY DEF Held, Types
    <2>3. QED
      BY <2>1, <2>2 DEF Jobs, Held
  <1>2. BodyHeld
    BY <1>1, RequestHere DEF BodyHeld, RequestAt, Uploading
  <1>3. UploadsBounded
    <2> DEFINE spooled == {r \in Reqs : Uploading(r) /\ spool[r] # "none"}
    <2>1. spooled \subseteq UploadHolders
      BY RequestHere DEF UploadHolders, RequestAt, Uploading
    <2>2. IsFiniteSet(UploadHolders)
      BY <1>1, HoldersFinite
    <2>3. Cardinality(spooled) \in Nat /\ Cardinality(spooled) <= Cardinality(UploadHolders)
      BY <2>1, <2>2, FS_Subset, FS_CardinalityType
    <2>4. Cardinality(UploadHolders) \in Nat /\ MaxUploads \in Nat
      BY <2>2, FS_CardinalityType, QueueAssumption
    <2>5. uploads \in Nat /\ uploads + Cardinality(UploadHolders) = MaxUploads
      BY DEF Held, Counted, UploadsCounted
    <2>6. Cardinality(spooled) <= MaxUploads
      BY ONLY <2>3, <2>4, <2>5
    <2>7. QED
      BY <2>5, <2>6 DEF UploadsBounded, UploadHolders, Before
  <1>4. SlotsExact
    BY DEF SlotsExact, Held, Counted, SlotsCounted, Opened, OpenedAt
  <1>5. SpoolDrained
    <2>1. SUFFICES ASSUME ~Cut, queue = <<>>, worker = NoJob,
                          \A r \in Reqs : handler[r] \in {"none", "answered", "gone"},
                          NEW r \in Reqs
                   PROVE  spool[r] = "none"
      BY DEF SpoolDrained, Cut
    <2>2. Jobs = {}
      BY <2>1 DEF Jobs, NoJob
    <2>3. RequestAt(r, Kind[r], conn[r], handler[r], spool[r], Jobs, Cut) /\ Kind[r] \in Kinds
      BY RequestHere
    <2>4. handler[r] \in {"none", "answered", "gone"}
      BY <2>1
    <2>5. QED
      BY <2>1, <2>2, <2>3, <2>4 DEF RequestAt, Before, Kinds
  <1>6. QED
    BY <1>2, <1>3, <1>4, <1>5, HeldTypes DEF RequestsKept

\* Slots, permits, queue and spool entries of `portal serve` are held for
\* exactly as long as a request needs them, whoever hangs up and whenever the
\* process dies: for any requests, limits and settings (ConnectionSlots,
\* UploadHold, SpoolEntry, PortalWorker::run).
THEOREM RequestsAreKept == Spec => []RequestsKept
  BY HeldAlways, HeldSuffices, PTL

-----------------------------------------------------------------------------
(* Changes are recorded, and answers are about the caller's own file.      *)

Queued == {queue[i] : i \in DOMAIN queue}

\* No change of request r was begun yet.
Fresh(r) ==
  handler[r] \in {"none", "spooling", "sending"} \/ r \in Queued \/ (worker.job = r /\ worker.pc = "begin")

\* The file that r's key names holds what r sent.
Stored(r) == files[FileKey(r)] # NoFile /\ files[FileKey(r)].content = Content[r]

\* The worker told, or is about to tell, r of success.
Promised(r) == answer[r] = "ok" \/ (worker.job = r /\ worker.pc = "end" /\ worker.ok)

\* A file's key names its owner.
FilesOwned ==
  /\ files \in [FileKeys -> [st : {"absent", "live", "deleted"}, by : Callers \union {"none"},
                             content : {Content[r] : r \in Reqs} \union {"none"}, gone : Callers \union {"none"}]]
  /\ \A k \in FileKeys : files[k] = NoFile \/ (files[k].by = k[1] /\ files[k].st # "absent")

RecordAt(r) ==
  /\ Fresh(r) \/ Downloading(r) => "allowed" \notin audit[r]
  /\ worker.job = r /\ worker.pc \in {"run", "end"} /\ ~Downloading(r) => "allowed" \in audit[r]
  /\ "allowed" \in audit[r] /\ worker.job # r /\ r \notin lost
       => audit[r] \intersect {"completed", "failed"} # {}
  /\ Uploading(r) /\ Promised(r) => Stored(r)

\* The inductive invariant of RecordedOwn, beside Held.
Records == FilesOwned /\ \A r \in Reqs : RecordAt(r)

LEMMA SameSetting ==
  ASSUME UNCHANGED setting
  PROVE  /\ Reqs' = Reqs /\ Kind' = Kind /\ FileKeys' = FileKeys /\ Callers' = Callers
         /\ \A r : FileKey(r)' = FileKey(r) /\ Uploading(r)' = Uploading(r) /\ Downloading(r)' = Downloading(r)
  <1>1. Reqs' = Reqs /\ Kind' = Kind
    BY DEF Reqs, Kind
  <1>2. Callers' = Callers
    BY <1>1 DEF Callers
  <1>3. FileKeys' = FileKeys
    BY <1>1, <1>2 DEF FileKeys
  <1>4. QED
    BY <1>1, <1>2, <1>3 DEF FileKey, Uploading, Downloading

LEMMA KeyHere ==
  ASSUME NEW r \in Reqs
  PROVE  FileKey(r) \in FileKeys /\ (Uploading(r) => FileKey(r)[1] = Principal[r])
  BY DEF FileKey, FileKeys, Callers

\* A step that writes no record and no file, and brings nothing new under way.
LEMMA QuietKeeps ==
  ASSUME Records, UNCHANGED <<setting, audit, files>>, lost \subseteq lost',
         \A r \in Reqs :
           /\ Fresh(r)' => Fresh(r)
           /\ worker'.job = r /\ worker'.pc \in {"run", "end"} /\ ~Downloading(r)
                => worker.job = r /\ worker.pc \in {"run", "end"}
           /\ "allowed" \in audit[r] /\ worker'.job # r /\ r \notin lost' => worker.job # r
           /\ Uploading(r) /\ Promised(r)' => Promised(r)
  PROVE  Records'
  <1>1. FilesOwned'
    BY SameSetting DEF Records, FilesOwned
  <1>2. ASSUME NEW r \in Reqs PROVE RecordAt(r)'
    <2>1. RecordAt(r)
      BY DEF Records
    <2>2. (Fresh(r) \/ Downloading(r) => "allowed" \notin audit[r])'
      BY <2>1, SameSetting DEF RecordAt
    <2>3. (worker.job = r /\ worker.pc \in {"run", "end"} /\ ~Downloading(r) => "allowed" \in audit[r])'
      BY <2>1, SameSetting DEF RecordAt
    <2>4. ("allowed" \in audit[r] /\ worker.job # r /\ r \notin lost
             => audit[r] \intersect {"completed", "failed"} # {})'
      BY <2>1 DEF RecordAt
    <2>5. (Uploading(r) /\ Promised(r) => Stored(r))'
      BY <2>1, SameSetting DEF RecordAt, Stored
    <2>6. QED
      BY <2>2, <2>3, <2>4, <2>5 DEF RecordAt
  <1>3. QED
    BY <1>1, <1>2, SameSetting DEF Records

\* A handler's own steps.
LEMMA HandlerQuiet ==
  ASSUME Held, Records, NEW r \in Reqs, NEW h, UNCHANGED <<setting, audit, files, lost, queue, worker>>,
         handler' = [handler EXCEPT ![r] = h],
         h \in {"none", "spooling", "sending"} => handler[r] \in {"none", "spooling", "sending"},
         \/ UNCHANGED answer
         \/ answer' = [answer EXCEPT ![r] = "error"]
         \/ Downloading(r) /\ answer' = [answer EXCEPT ![r] = "ok"]
  PROVE  Records'
  <1>1. Types
    BY DEF Held
  <1>2. ASSUME NEW q \in Reqs PROVE Fresh(q)' => Fresh(q)
    BY <1>1 DEF Types, Fresh, Queued
  <1>3. ASSUME NEW q \in Reqs PROVE Uploading(q) /\ Promised(q)' => Promised(q)
    BY <1>1 DEF Types, Promised, Uploading, Downloading
  <1>4. QED
    BY <1>2, <1>3, QuietKeeps

LEMMA HandlersRecord ==
  ASSUME Held, Records, UNCHANGED setting, NEW r \in Reqs,
         \/ Connect(r) \/ Close(r) \/ Refuse(r) \/ Admit(r) \/ SpoolBody(r) \/ Open(r) \/ Sent(r)
         \/ SpoolFails(r) \/ HangUp(r)
  PROVE  Records'
  <1>1. Types
    BY DEF Held
  <1>2. handler = [handler EXCEPT ![r] = handler[r]]
    BY <1>1 DEF Types
  <1>3. CASE Connect(r) \/ Close(r)
    BY <1>2, <1>3, HandlerQuiet DEF Connect, Close
  <1>4. CASE Refuse(r)
    BY <1>4, HandlerQuiet DEF Refuse, Tell
  <1>5. CASE Admit(r)
    BY <1>5, HandlerQuiet DEF Admit, BeginUpload, BeginDownload, BeginDelete, Go
  <1>6. CASE SpoolBody(r)
    BY <1>6, HandlerQuiet DEF SpoolBody, Go
  <1>7. CASE Open(r)
    BY <1>7, HandlerQuiet DEF Open, Go, Tell
  <1>8. CASE Sent(r)
    <2>1. Downloading(r)
      BY <1>8, RequestHere DEF Sent, RequestAt, Downloading
    <2>2. QED
      BY <1>8, <2>1, HandlerQuiet DEF Sent, Tell
  <1>9. CASE SpoolFails(r)
    BY <1>9, HandlerQuiet DEF SpoolFails, Tell
  <1>10. CASE HangUp(r)
    BY <1>10, HandlerQuiet DEF HangUp, Go
  <1>11. QED
    BY <1>3, <1>4, <1>5, <1>6, <1>7, <1>8, <1>9, <1>10

LEMMA SendRecords == ASSUME Held, Records, UNCHANGED setting, NEW r \in Reqs, Send(r) PROVE Records'
  <1>1. Types /\ queue \in Seq(Reqs)
    BY DEF Held, Types
  <1>2. handler[r] = "sending" /\ handler' = [handler EXCEPT ![r] = "waiting"] /\ queue' = Append(queue, r)
    BY DEF Send, Go
  <1>3. Queued' = Queued \union {r}
    <2>1. /\ DOMAIN queue' = DOMAIN queue \union {Len(queue) + 1}
          /\ \A i \in DOMAIN queue : queue'[i] = queue[i]
          /\ queue'[Len(queue) + 1] = r
      BY <1>1, <1>2
    <2>2. QED
      BY <2>1 DEF Queued
  <1>4. ASSUME NEW q \in Reqs PROVE Fresh(q)' => Fresh(q)
    BY <1>1, <1>2, <1>3 DEF Fresh, Types, Send
  <1>5. ASSUME NEW q \in Reqs PROVE Promised(q)' => Promised(q)
    BY DEF Promised, Send
  <1>6. QED
    BY <1>4, <1>5, QuietKeeps DEF Send

LEMMA TakeRecords == ASSUME Held, Records, UNCHANGED setting, Take PROVE Records'
  <1>1. Types /\ queue \in Seq(Reqs) /\ worker = NoJob /\ queue # <<>>
    BY DEF Held, Types, Take
  <1>2. /\ Len(queue) \in Nat \ {0} /\ DOMAIN queue = 1..Len(queue) /\ Head(queue) = queue[1]
        /\ DOMAIN queue' = 1..(Len(queue) - 1)
        /\ \A i \in 1..(Len(queue) - 1) : queue'[i] = queue[i + 1]
    BY <1>1 DEF Take
  <1>3. Queued' \subseteq Queued /\ Head(queue) \in Queued
    <2>1. ASSUME NEW i \in 1..(Len(queue) - 1) PROVE queue'[i] \in Queued
      <3>1. i + 1 \in DOMAIN queue /\ queue'[i] = queue[i + 1]
        BY <1>2
      <3>2. QED
        BY <3>1 DEF Queued
    <2>2. Queued' \subseteq Queued
      BY <1>2, <2>1 DEF Queued
    <2>3. 1 \in DOMAIN queue
      BY <1>2
    <2>4. queue[1] \in Queued
      BY <2>3 DEF Queued
    <2>5. QED
      BY <1>2, <2>2, <2>4
  <1>4. /\ worker'.job = Head(queue) /\ UNCHANGED <<handler, answer, lost, audit, files>>
        /\ worker'.pc = IF Downloading(Head(queue)) THEN "run" ELSE "begin"
    BY DEF Take
  <1>5. worker.job = "none" /\ worker.pc = "idle"
    BY <1>1 DEF NoJob
  <1>6. "none" \notin Reqs
    BY <1>1, SettingFacts
  <1>7. ASSUME NEW r \in Reqs
        PROVE  /\ Fresh(r)' => Fresh(r)
               /\ worker'.job = r /\ worker'.pc \in {"run", "end"} /\ ~Downloading(r)
                    => worker.job = r /\ worker.pc \in {"run", "end"}
               /\ worker.job # r
               /\ Promised(r)' => Promised(r)
    BY <1>3, <1>4, <1>5, <1>6 DEF Fresh, Promised
  <1>8. QED
    BY <1>4, <1>7, QuietKeeps

LEMMA AuditBeginRecords == ASSUME Held, Records, UNCHANGED setting, AuditBegin PROVE Records'
  <1>1. PICK j \in Reqs : Types /\ j = worker.job /\ ~Downloading(j) /\ worker.pc = "begin"
    BY DEF Held, QueueOK, AuditBegin
  <1>2. worker'.job = j /\ worker'.pc = "run" /\ UNCHANGED <<handler, queue, answer, lost, files>>
    BY <1>1 DEF AuditBegin, Types
  <1>3. audit' = [audit EXCEPT ![j] = @ \union {"allowed"}]
    BY <1>1 DEF AuditBegin
  <1>4. "allowed" \in audit'[j] /\ \A r \in Reqs \ {j} : audit'[r] = audit[r]
    BY <1>1, <1>3 DEF Types
  <1>5. ~Fresh(j)'
    <2>1. j \in Jobs /\ j \notin Queued
      BY <1>1, SettingFacts DEF Held, QueueOK, Queued, Jobs
    <2>2. handler[j] \in {"waiting", "gone"}
      BY <1>1, <2>1, RequestHere DEF RequestAt
    <2>3. Queued' = Queued
      BY <1>2 DEF Queued
    <2>4. QED
      BY <1>2, <2>1, <2>2, <2>3 DEF Fresh
  <1>6. FilesOwned'
    BY <1>2, SameSetting DEF Records, FilesOwned
  <1>7. RecordAt(j)'
    <2>1. RecordAt(j)
      BY <1>1 DEF Records
    <2>2. Promised(j)' => Promised(j)
      BY <1>2 DEF Promised
    <2>3. QED
      BY <1>1, <1>2, <1>4, <1>5, <2>1, <2>2, SameSetting DEF RecordAt, Stored
  <1>8. ASSUME NEW r \in Reqs \ {j} PROVE RecordAt(r)'
    <2>1. RecordAt(r)
      BY DEF Records
    <2>2. (Promised(r)' => Promised(r)) /\ (Fresh(r)' => Fresh(r))
      BY <1>2 DEF Promised, Fresh, Queued
    <2>3. worker.job # r /\ worker'.job # r /\ audit'[r] = audit[r]
      BY <1>1, <1>2, <1>4
    <2>4. QED
      BY <1>2, <2>1, <2>2, <2>3, SameSetting DEF RecordAt, Stored
  <1>9. QED
    BY <1>6, <1>7, <1>8, SameSetting DEF Records

\* The worker ends a job that has no record of its own to write.
LEMMA AuditBeginFailsRecords == ASSUME Held, Records, UNCHANGED setting, AuditBeginFails PROVE Records'
  <1> DEFINE j == worker.job
  <1>1. Types /\ j \in Reqs /\ worker.pc = "begin" /\ worker'.job = "none" /\ worker'.pc = "idle"
    BY DEF Held, QueueOK, AuditBeginFails, RefuseUnrecorded, NoJob
  <1>2. UNCHANGED <<setting, audit, files, lost, queue>> /\ Reply(j, FALSE)
    BY DEF AuditBeginFails, RefuseUnrecorded
  <1>3. FALSE \in BOOLEAN
    OBVIOUS
  <1>4. /\ handler' = [handler EXCEPT ![j] = Heard(j, FALSE)]
        /\ \A q \in Reqs \ {j} : answer'[q] = answer[q]
        /\ answer'[j] = "ok" => answer[j] = "ok"
    BY <1>1, <1>2, <1>3, ReplyHeard
  <1>5. Heard(j, FALSE) \in {"none", "spooling", "sending"} => handler[j] \in {"none", "spooling", "sending"}
    BY DEF Heard
  <1>6. "allowed" \notin audit[j]
    BY <1>1 DEF Records, RecordAt, Fresh
  <1>7. "none" \notin Reqs
    BY <1>1, SettingFacts
  <1>8. ASSUME NEW r \in Reqs
        PROVE  /\ Fresh(r)' => Fresh(r)
               /\ ~(worker'.job = r /\ worker'.pc \in {"run", "end"})
               /\ "allowed" \in audit[r] => worker.job # r
               /\ Promised(r)' => Promised(r)
    <2>1. Fresh(r)' => Fresh(r)
      <3>1. Queued' = Queued
        BY <1>2 DEF Queued
      <3>2. handler'[r] \in {"none", "spooling", "sending"} => handler[r] \in {"none", "spooling", "sending"}
        BY <1>1, <1>4, <1>5 DEF Types
      <3>3. QED
        BY <1>1, <3>1, <3>2 DEF Fresh
    <2>2. Promised(r)' => Promised(r)
      BY <1>1, <1>4 DEF Promised
    <2>3. QED
      BY <1>1, <1>6, <2>1, <2>2
  <1>9. QED
    BY <1>2, <1>8, QuietKeeps

LEMMA DownloadRecords == ASSUME Held, Records, UNCHANGED setting, Download PROVE Records'
  <1> DEFINE j == worker.job
  <1>1. Types /\ j \in Reqs /\ Downloading(j) /\ worker.pc = "run" /\ worker'.job = "none" /\ worker'.pc = "idle"
    BY DEF Held, QueueOK, Download, NoJob
  <1>2. UNCHANGED <<setting, audit, files, lost, queue>>
    BY DEF Download
  <1>3. PICK ok \in BOOLEAN : Reply(j, ok)
    BY DEF Download
  <1>4. /\ handler' = [handler EXCEPT ![j] = Heard(j, ok)]
        /\ \A q \in Reqs \ {j} : answer'[q] = answer[q]
    BY <1>1, <1>3, ReplyHeard
  <1>5. Heard(j, ok) \in {"none", "spooling", "sending"} => handler[j] \in {"none", "spooling", "sending"}
    BY DEF Heard
  <1>6. "allowed" \notin audit[j]
    BY <1>1 DEF Records, RecordAt
  <1>7. ASSUME NEW r \in Reqs
        PROVE  /\ Fresh(r)' => Fresh(r)
               /\ ~(worker'.job = r /\ worker'.pc \in {"run", "end"})
               /\ "allowed" \in audit[r] => worker.job # r
               /\ Uploading(r) /\ Promised(r)' => Promised(r)
    <2>1. Fresh(r)' => Fresh(r)
      <3>1. Queued' = Queued
        BY <1>2 DEF Queued
      <3>2. handler'[r] \in {"none", "spooling", "sending"} => handler[r] \in {"none", "spooling", "sending"}
        BY <1>1, <1>4, <1>5 DEF Types
      <3>3. QED
        BY <1>1, <3>1, <3>2 DEF Fresh
    <2>2. Uploading(r) /\ Promised(r)' => Promised(r)
      BY <1>1, <1>4 DEF Promised, Uploading, Downloading
    <2>3. QED
      BY <1>1, <1>6, <2>1, <2>2
  <1>8. QED
    BY <1>2, <1>7, QuietKeeps

LEMMA CrashRecords == ASSUME Held, Records, UNCHANGED setting, Crash PROVE Records'
  <1>1. Types
    BY DEF Held
  <1>2. /\ worker'.job = "none" /\ worker'.pc = "idle" /\ UNCHANGED <<audit, files, answer>>
        /\ queue' = <<>> /\ lost' = lost \union ({worker.job} \ {"none"})
    BY DEF Crash, NoJob
  <1>3. Queued' = {}
    BY <1>2 DEF Queued
  <1>4. ASSUME NEW r \in Reqs
        PROVE  /\ Fresh(r)' => Fresh(r)
               /\ ~(worker'.job = r /\ worker'.pc \in {"run", "end"})
               /\ r \notin lost' => worker.job # r
               /\ Promised(r)' => Promised(r)
    <2>1. handler'[r] \in {"none", "spooling", "sending"} => handler[r] = "none"
      BY <1>1 DEF Crash, Types
    <2>2. "none" \notin Reqs
      BY <1>1, SettingFacts
    <2>3. QED
      BY <1>2, <1>3, <2>1, <2>2 DEF Fresh, Promised
  <1>5. QED
    BY <1>2, <1>4, QuietKeeps

\* A change keeps what was stored: files are made once and only marked.
LEMMA ChangeStores ==
  ASSUME Held, Records, UNCHANGED setting, Change, NEW j \in Reqs, j = worker.job
  PROVE  /\ FilesOwned'
         /\ \A k \in FileKeys : files[k] # NoFile =>
              files'[k] # NoFile /\ files'[k].content = files[k].content
         /\ worker'.ok /\ Uploading(j) => Stored(j)'
  <1> DEFINE k == FileKey(j)
             Texts == {Content[r] : r \in Reqs} \union {"none"}
             File == [st : {"absent", "live", "deleted"}, by : Callers \union {"none"},
                      content : Texts, gone : Callers \union {"none"}]
  <1>1. Types /\ ~Downloading(j) /\ worker.ok = FALSE
    BY DEF Held, QueueOK, Change
  <1>2. /\ k \in FileKeys /\ (Uploading(j) => k[1] = Principal[j])
        /\ Principal[j] \in Callers /\ Content[j] \in Texts
    BY <1>1, KeyHere DEF Callers
  <1>3. /\ files \in [FileKeys -> File]
        /\ \A x \in FileKeys : files[x] = NoFile \/ (files[x].by = x[1] /\ files[x].st # "absent")
    BY DEF Records, FilesOwned
  <1>4. Callers' = Callers /\ FileKeys' = FileKeys /\ Reqs' = Reqs /\ FileKey(j)' = FileKey(j)
    BY SameSetting
  <1> HIDE DEF k, Texts, File
  <1>5. CASE UNCHANGED files /\ (worker'.ok /\ Uploading(j) => Stored(j))
    <2>1. Stored(j)' <=> Stored(j)
      BY <1>4, <1>5 DEF Stored
    <2>2. FilesOwned'
      BY <1>4, <1>5 DEF Records, FilesOwned
    <2>3. QED
      BY <1>5, <2>1, <2>2
  <1>6. CASE Uploading(j) /\ files[k] = NoFile /\ files' = [files EXCEPT ![k] = NewFile(j)]
    <2>1. /\ NewFile(j) \in File /\ NewFile(j).by = Principal[j] /\ NewFile(j).content = Content[j]
          /\ NewFile(j).st = "live" /\ NewFile(j) # NoFile
      BY <1>2 DEF NewFile, NoFile, File
    <2>2. files' \in [FileKeys -> File] /\ files'[k] = NewFile(j) /\ \A x \in FileKeys \ {k} : files'[x] = files[x]
      BY <1>2, <1>3, <1>6, <2>1
    <2>3. \A x \in FileKeys : files'[x] = NoFile \/ (files'[x].by = x[1] /\ files'[x].st # "absent")
      BY <1>2, <1>3, <1>6, <2>1, <2>2
    <2>4. FilesOwned'
      BY <1>4, <2>2, <2>3 DEF FilesOwned, File, Texts
    <2>5. Stored(j)'
      BY <1>2, <1>4, <2>1, <2>2 DEF Stored, k
    <2>6. QED
      BY <1>6, <2>2, <2>4, <2>5
  <1>7. CASE /\ Kind[j] = "delete" /\ files[k].st \in {"live", "deleted"}
             /\ files' = [files EXCEPT ![k] = [files[k] EXCEPT !.st = "deleted", !.gone = Principal[j]]]
    <2> DEFINE g == [files[k] EXCEPT !.st = "deleted", !.gone = Principal[j]]
    <2>1. files[k] \in File /\ files[k] # NoFile
      BY <1>2, <1>3, <1>7 DEF NoFile
    <2>2. g \in File /\ g.by = files[k].by /\ g.content = files[k].content /\ g.st = "deleted"
      BY <1>2, <2>1 DEF File
    <2>3. g # NoFile
      BY <2>2 DEF NoFile
    <2> HIDE DEF g
    <2>4. files' \in [FileKeys -> File] /\ files'[k] = g /\ \A x \in FileKeys \ {k} : files'[x] = files[x]
      BY <1>2, <1>3, <1>7, <2>2 DEF g
    <2>5. \A x \in FileKeys : files'[x] = NoFile \/ (files'[x].by = x[1] /\ files'[x].st # "absent")
      BY <1>2, <1>3, <2>1, <2>2, <2>4
    <2>6. FilesOwned'
      BY <1>4, <2>4, <2>5 DEF FilesOwned, File, Texts
    <2>7. \A x \in FileKeys : files[x] # NoFile => files'[x] # NoFile /\ files'[x].content = files[x].content
      BY <2>2, <2>3, <2>4
    <2>8. ~Uploading(j)
      BY <1>7 DEF Uploading
    <2>9. QED
      BY <2>6, <2>7, <2>8
  <1>8. CASE Store(j) /\ worker' = [worker EXCEPT !.pc = "end", !.ok = TRUE]
    BY <1>5, <1>6, <1>8 DEF Store, Stored, k
  <1>9. CASE Remove(j)
    BY <1>7, <1>9 DEF Remove, k
  <1>10. CASE UNCHANGED files /\ worker' = [worker EXCEPT !.pc = "end"]
    <2>1. worker'.ok = FALSE
      BY <1>1, <1>10 DEF Types
    <2>2. QED
      BY <1>5, <1>10, <2>1
  <1>11. QED
    BY <1>8, <1>9, <1>10 DEF Change

LEMMA ChangeRecords == ASSUME Held, Records, UNCHANGED setting, Change PROVE Records'
  <1>1. PICK j \in Reqs : Types /\ j = worker.job /\ worker.pc = "run" /\ ~Downloading(j)
    BY DEF Held, QueueOK, Change
  <1>2. worker'.job = j /\ worker'.pc = "end" /\ UNCHANGED <<handler, queue, audit, answer, lost>>
    BY <1>1 DEF Change, Types
  <1>3. /\ FilesOwned'
        /\ \A k \in FileKeys : files[k] # NoFile => files'[k] # NoFile /\ files'[k].content = files[k].content
        /\ worker'.ok /\ Uploading(j) => Stored(j)'
    BY <1>1, ChangeStores
  <1>4. ASSUME NEW r \in Reqs PROVE Stored(r) => Stored(r)'
    <2>1. FileKey(r) \in FileKeys /\ FileKey(r)' = FileKey(r)
      BY KeyHere, SameSetting
    <2>2. QED
      BY <1>3, <2>1 DEF Stored
  <1>5. ASSUME NEW r \in Reqs PROVE RecordAt(r)'
    <2>1. RecordAt(r)
      BY DEF Records
    <2>2. Fresh(r)' => Fresh(r)
      BY <1>2 DEF Fresh, Queued
    <2>3. Uploading(r) /\ Promised(r)' => Stored(r)'
      <3>1. CASE answer[r] = "ok"
        BY <1>4, <2>1, <3>1 DEF RecordAt, Promised
      <3>2. CASE answer[r] # "ok"
        BY <1>2, <1>3, <3>2 DEF Promised
      <3>3. QED
        BY <3>1, <3>2
    <2>4. (worker.job = r <=> worker'.job = r) /\ worker.pc = "run" /\ worker'.pc = "end"
      BY <1>1, <1>2
    <2>5. QED
      BY <1>2, <2>1, <2>2, <2>3, <2>4, SameSetting DEF RecordAt
  <1>6. QED
    BY <1>3, <1>5, SameSetting DEF Records

LEMMA AuditEndRecords == ASSUME Held, Records, UNCHANGED setting, AuditEnd PROVE Records'
  <1>1. PICK j \in Reqs : Types /\ j = worker.job /\ worker.pc = "end" /\ ~Downloading(j)
    BY DEF Held, QueueOK, AuditEnd
  <1>2. worker'.job = "none" /\ worker'.pc = "idle" /\ UNCHANGED <<queue, files>> /\ "none" \notin Reqs
    BY <1>1, SettingFacts DEF AuditEnd, NoJob
  <1>3. /\ worker.ok \in BOOLEAN /\ Reply(j, worker.ok)
    BY <1>1 DEF AuditEnd, Types
  <1>4. /\ handler' = [handler EXCEPT ![j] = Heard(j, worker.ok)]
        /\ \A q \in Reqs \ {j} : answer'[q] = answer[q]
        /\ answer'[j] = "ok" => answer[j] = "ok" \/ worker.ok
    BY <1>1, <1>3, ReplyHeard
  <1>5. /\ \A q \in Reqs \ {j} : audit'[q] = audit[q]
        /\ "allowed" \in audit'[j] <=> "allowed" \in audit[j]
        /\ j \in lost' \/ audit'[j] \intersect {"completed", "failed"} # {}
        /\ lost \subseteq lost'
    <2>1. CASE Record(j) /\ UNCHANGED lost
      <3>1. PICK o \in {"completed", "failed"} : audit' = [audit EXCEPT ![j] = @ \union {o}]
        BY <2>1 DEF Record, Outcome
      <3>2. audit'[j] = audit[j] \union {o} /\ \A q \in Reqs \ {j} : audit'[q] = audit[q]
        BY <1>1, <3>1 DEF Types
      <3>3. QED
        BY <2>1, <3>2
    <2>2. CASE UNCHANGED audit /\ lost' = lost \union {j}
      BY <2>2
    <2>3. QED
      BY <1>1, <2>1, <2>2 DEF AuditEnd
  <1>6. ~Fresh(j)'
    <2>1. j \in Jobs /\ j \notin Queued
      BY <1>1, <1>2 DEF Held, QueueOK, Queued, Jobs
    <2>2. handler[j] \in {"waiting", "gone"}
      BY <1>1, <2>1, RequestHere DEF RequestAt
    <2>3. handler'[j] \in {"answered", "gone"}
      BY <1>1, <1>4, <2>2 DEF Heard, Types
    <2>4. Queued' = Queued
      BY <1>2 DEF Queued
    <2>5. QED
      BY <1>2, <2>1, <2>3, <2>4 DEF Fresh
  <1>7. FilesOwned'
    BY <1>2, SameSetting DEF Records, FilesOwned
  <1>8. RecordAt(j)'
    <2>1. RecordAt(j)
      BY DEF Records
    <2>2. Promised(j)' => Promised(j)
      BY <1>1, <1>2, <1>4 DEF Promised
    <2>3. Stored(j)' <=> Stored(j)
      BY <1>2, SameSetting DEF Stored
    <2>4. QED
      BY <1>1, <1>2, <1>5, <1>6, <2>1, <2>2, <2>3, SameSetting DEF RecordAt
  <1>9. ASSUME NEW r \in Reqs \ {j} PROVE RecordAt(r)'
    <2>1. RecordAt(r)
      BY DEF Records
    <2>2. Promised(r)' => Promised(r)
      BY <1>2, <1>4 DEF Promised
    <2>3. Fresh(r)' => Fresh(r)
      <3>1. handler'[r] = handler[r] /\ Queued' = Queued
        BY <1>1, <1>2, <1>4 DEF Types, Queued
      <3>2. QED
        BY <1>2, <3>1 DEF Fresh
    <2>4. Stored(r)' <=> Stored(r)
      BY <1>2, SameSetting DEF Stored
    <2>5. worker'.job # r /\ worker.job # r /\ audit'[r] = audit[r] /\ lost \subseteq lost'
      BY <1>1, <1>2, <1>5
    <2>6. QED
      BY <2>1, <2>2, <2>3, <2>4, <2>5, SameSetting DEF RecordAt
  <1>10. QED
    BY <1>7, <1>8, <1>9, SameSetting DEF Records

LEMMA RecordsFirst == Init => Records
  <1> SUFFICES ASSUME Init PROVE Records
    OBVIOUS
  <1>1. FilesOwned
    BY DEF Init, FilesOwned, NoFile
  <1>2. ASSUME NEW r \in Reqs PROVE RecordAt(r)
    BY DEF Init, RecordAt, Promised, NoJob
  <1>3. QED
    BY <1>1, <1>2 DEF Records

LEMMA RecordsStep == Held /\ Records /\ [Next]_vars => Records'
  <1> SUFFICES ASSUME Held, Records, [Next]_vars PROVE Records'
    OBVIOUS
  <1>1. CASE UNCHANGED vars
    <2>1. \A r \in Reqs : Fresh(r)' = Fresh(r) /\ Promised(r)' = Promised(r)
      BY <1>1 DEF vars, Fresh, Promised, Queued
    <2>2. QED
      BY <1>1, <2>1, QuietKeeps DEF vars
  <1>2. CASE Next
    <2>1. UNCHANGED setting /\ Activity
      BY <1>2 DEF Next
    <2>2. ASSUME NEW r \in Reqs,
                 Connect(r) \/ Close(r) \/ Refuse(r) \/ Admit(r) \/ Progress(r) \/ SpoolFails(r) \/ HangUp(r)
          PROVE  Records'
      BY <2>1, <2>2, HandlersRecord, SendRecords DEF Progress
    <2>3. CASE Work
      BY <2>1, <2>3, TakeRecords, AuditBeginRecords, AuditBeginFailsRecords, ChangeRecords, AuditEndRecords,
         DownloadRecords DEF Work
    <2>4. CASE Crash
      BY <2>1, <2>4, CrashRecords
    <2>5. QED
      BY <2>1, <2>2, <2>3, <2>4 DEF Activity
  <1>3. QED
    BY <1>1, <1>2

LEMMA RecordsSuffice == Held /\ Records => RecordedOwn
  <1> SUFFICES ASSUME Held, Records PROVE RecordedOwn
    OBVIOUS
  <1>1. ChangeRecorded
    BY DEF ChangeRecorded, Records, RecordAt, Held, QueueOK
  <1>2. OwnFile
    BY KeyHere DEF OwnFile, Records, RecordAt, Promised, Stored, FilesOwned
  <1>3. QED
    BY <1>1, <1>2 DEF RecordedOwn

\* A change is in the audit log before it runs and has its outcome there when
\* the worker is done with it, unless the process died or the database refused
\* the record; and a caller who is told that an upload succeeded has a file of
\* its own with the content it sent: for any requests, limits and settings
\* (worker_loop, record_change, file_key).
THEOREM ChangesAreRecorded == Spec => []RecordedOwn
  BY HeldAlways, HeldFirst, HeldStep, RecordsFirst, RecordsStep, RecordsSuffice, PTL DEF Spec
=============================================================================
