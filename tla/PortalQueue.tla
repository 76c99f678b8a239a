----------------------------- MODULE PortalQueue -----------------------------
(***************************************************************************)
(* File requests through `portal serve` (portal_server.rs): connection     *)
(* slots, the permits for uploads and downloads, the spool on disk, the    *)
(* queue of the one worker that owns the portal, and the audit records the *)
(* worker writes around a change. A client may hang up at any moment: its  *)
(* handler is dropped with all it holds, its job is not. The process may   *)
(* die; the database and the spool survive it.                             *)
(*                                                                         *)
(* What upload, delete and download do is CommitSpine's subject; here they *)
(* succeed or fail in one step.                                            *)
(***************************************************************************)
EXTENDS Integers, Sequences, FiniteSets

CONSTANTS
  Requests,    \* each on a connection of its own
  Principal,   \* [Requests -> callers]
  ClientKey,   \* [Requests -> Idempotency-Key headers, or the file's name]
  Owner,       \* [Requests -> callers]: whose file a download or delete names
  Content,     \* [Requests -> bodies]
  Addr,        \* [Requests -> remote addresses]
  MaxPerAddress, MaxUploads, MaxDownloads, QueueLen,
  MaxCrashes, MaxAuditFailures, \* bounds on faults
  Settings     \* what may be asked, of which portal

ASSUME QueueAssumption ==
  /\ IsFiniteSet(Requests) /\ "none" \notin Requests
  /\ {MaxPerAddress, MaxUploads, MaxDownloads} \subseteq Nat \ {0}
  /\ QueueLen \in Nat \ {0} /\ MaxCrashes \in Nat /\ MaxAuditFailures \in Nat
  /\ \A x \in Settings :
       /\ DOMAIN x.kind \subseteq Requests /\ x.connections \in Nat \ {0}
       /\ x.hangups \subseteq {"upload", "download", "delete"}
       /\ \A r \in DOMAIN x.kind : x.kind[r] \in {"upload", "download", "delete"}

VARIABLES
  conn,      \* connections: new, open or closed
  total, per,\* ConnectionSlots: open connections, in all and per address
  handler,   \* where the handler of a request is
  uploads, downloads, \* free permits of the two semaphores
  spool,     \* spool entries: none, empty, body or plain (decrypted)
  queue,     \* jobs sent to the worker
  worker,    \* the job the worker runs, and how far it is
  audit,     \* the audit_log's records of a request's change
  files,     \* the portal's files by namespaced idempotency key
  answer,    \* what the client was told
  lost,      \* history: jobs whose outcome a crash or a failed write ate
  crashes, auditFailures,
  setting    \* the one of Settings that is served

vars == <<conn, total, per, handler, uploads, downloads, spool, queue, worker,
          audit, files, answer, lost, crashes, auditFailures, setting>>

Kind == setting.kind
Reqs == DOMAIN Kind     \* the requests that are made
HangUps == {r \in Reqs : Kind[r] \in setting.hangups}  \* whose client may hang up
MaxConnections == setting.connections

Callers == {Principal[r] : r \in Reqs} \union {Owner[r] : r \in Reqs}
Addrs == {Addr[r] : r \in Reqs}
FileKeys == Callers \X {ClientKey[r] : r \in Reqs}
NoJob == [job |-> "none", pc |-> "idle", ok |-> FALSE]
NoFile == [st |-> "absent", by |-> "none", content |-> "none", gone |-> "none"]

Init ==
  /\ setting \in Settings
  /\ conn = [r \in Reqs |-> "new"] /\ total = 0 /\ per = [a \in Addrs |-> 0]
  /\ handler = [r \in Reqs |-> "none"]
  /\ uploads = MaxUploads /\ downloads = MaxDownloads
  /\ spool = [r \in Reqs |-> "none"]
  /\ queue = <<>> /\ worker = NoJob
  /\ audit = [r \in Reqs |-> {}]
  /\ files = [k \in FileKeys |-> NoFile]
  /\ answer = [r \in Reqs |-> "none"]
  /\ lost = {} /\ crashes = 0 /\ auditFailures = 0

Uploading(r) == Kind[r] = "upload"
Downloading(r) == Kind[r] = "download"
Jobs == {queue[i] : i \in DOMAIN queue} \union ({worker.job} \ {"none"})

\* Mutant: the client's key is used as it came.
BareKey(r) == <<CHOOSE c \in Callers : TRUE, ClientKey[r]>>

\* The idempotency key, in the namespace of the caller.
FileKey(r) == <<IF Uploading(r) THEN Principal[r] ELSE Owner[r], ClientKey[r]>>

-----------------------------------------------------------------------------
(* Connections.                                                            *)

Connect(r) ==
  /\ conn[r] = "new"
  /\ total < MaxConnections /\ per[Addr[r]] < MaxPerAddress
  /\ conn' = [conn EXCEPT ![r] = "open"]
  /\ total' = total + 1
  /\ per' = [per EXCEPT ![Addr[r]] = @ + 1]
  /\ UNCHANGED <<handler, uploads, downloads, spool, queue, worker, audit, files,
                 answer, lost, crashes, auditFailures>>

\* The slot is dropped with the task that serves the connection.
ReleaseSlot(r) ==
  /\ conn' = [conn EXCEPT ![r] = "closed"]
  /\ total' = total - 1
  /\ per' = [per EXCEPT ![Addr[r]] = @ - 1]

\* WhoIs or the handshake failed, the client is done, or the connection's
\* lifetime ended after its current request.
Close(r) ==
  /\ conn[r] = "open" /\ handler[r] \in {"none", "answered"}
  /\ ReleaseSlot(r)
  /\ UNCHANGED <<handler, uploads, downloads, spool, queue, worker, audit, files,
                 answer, lost, crashes, auditFailures>>

-----------------------------------------------------------------------------
(* Handlers.                                                               *)

Go(r, pc) == handler' = [handler EXCEPT ![r] = pc]

Tell(r, what) ==
  /\ handler' = [handler EXCEPT ![r] = "answered"]
  /\ answer' = [answer EXCEPT ![r] = what]

\* Refused before it took a permit: authentication, scope, name, key, size.
Refuse(r) ==
  /\ conn[r] = "open" /\ handler[r] = "none"
  /\ Tell(r, "error")
  /\ UNCHANGED <<conn, total, per, uploads, downloads, spool, queue, worker, audit,
                 files, lost, crashes, auditFailures>>

\* upload_file takes a permit (or answers "busy"), finds space in the spool
\* and creates its entry.
BeginUpload(r) ==
  /\ conn[r] = "open" /\ handler[r] = "none" /\ Uploading(r)
  /\ uploads > 0
  /\ uploads' = uploads - 1
  /\ spool' = [spool EXCEPT ![r] = "empty"]
  /\ Go(r, "spooling")
  /\ UNCHANGED <<conn, total, per, downloads, queue, worker, audit, files, answer, lost,
                 crashes, auditFailures>>

SpoolBody(r) ==
  /\ handler[r] = "spooling"
  /\ spool' = [spool EXCEPT ![r] = "body"]
  /\ Go(r, "sending")
  /\ UNCHANGED <<conn, total, per, uploads, downloads, queue, worker, audit, files,
                 answer, lost, crashes, auditFailures>>

\* The body is too large, ends early or cannot be written.
SpoolFails(r) ==
  /\ handler[r] = "spooling"
  /\ spool' = [spool EXCEPT ![r] = "none"]
  /\ uploads' = uploads + 1
  /\ Tell(r, "error")
  /\ UNCHANGED <<conn, total, per, downloads, queue, worker, audit, files, lost,
                 crashes, auditFailures>>

BeginDownload(r) ==
  /\ conn[r] = "open" /\ handler[r] = "none" /\ Downloading(r)
  /\ downloads > 0
  /\ downloads' = downloads - 1
  /\ spool' = [spool EXCEPT ![r] = "empty"]
  /\ Go(r, "sending")
  /\ UNCHANGED <<conn, total, per, uploads, queue, worker, audit, files, answer, lost,
                 crashes, auditFailures>>

BeginDelete(r) ==
  /\ conn[r] = "open" /\ handler[r] = "none" /\ Kind[r] = "delete"
  /\ Go(r, "sending")
  /\ UNCHANGED <<conn, total, per, uploads, downloads, spool, queue, worker, audit,
                 files, answer, lost, crashes, auditFailures>>

\* PortalWorker::run waits for room in the queue, then for the reply.
Send(r) ==
  /\ handler[r] = "sending"
  /\ Len(queue) < QueueLen
  /\ queue' = Append(queue, r)
  /\ Go(r, "waiting")
  /\ UNCHANGED <<conn, total, per, uploads, downloads, spool, worker, audit, files,
                 answer, lost, crashes, auditFailures>>

\* The reply of a download: the file is opened and the entry dropped, and
\* the permit goes with the stream; an error, also of the opening, drops both.
Open(r) ==
  /\ handler[r] \in {"got_ok", "got_error"}
  /\ spool' = [spool EXCEPT ![r] = "none"]
  /\ \/ handler[r] = "got_ok" /\ Go(r, "streaming") /\ UNCHANGED <<downloads, answer>>
     \/ Tell(r, "error") /\ downloads' = downloads + 1
  /\ UNCHANGED <<conn, total, per, uploads, queue, worker, audit, files, lost, crashes,
                 auditFailures>>

Sent(r) ==
  /\ handler[r] = "streaming"
  /\ downloads' = downloads + 1
  /\ Tell(r, "ok")
  /\ UNCHANGED <<conn, total, per, uploads, spool, queue, worker, audit, files, lost,
                 crashes, auditFailures>>

\* Mutant: the handler keeps the spooled body while the worker has the job.
DroppedEntryAlways(r) == TRUE

\* Mutant: a stream that is cut off keeps its permit.
DroppedUnsent(r) == Downloading(r) /\ handler[r] # "streaming"

\* What a dropped handler lets go: before its job is queued everything,
\* afterwards an upload's body and permit belong to the job.
DroppedUpload(r) == Uploading(r) /\ handler[r] \in {"spooling", "sending"}
DroppedEntry(r) == DroppedUpload(r) \/ (Downloading(r) /\ handler[r] # "streaming")
DroppedDownload(r) == Downloading(r)

HangUp(r) ==
  /\ r \in HangUps
  /\ conn[r] = "open" /\ handler[r] \notin {"none", "answered"}
  /\ ReleaseSlot(r)
  /\ Go(r, "gone")
  /\ spool' = IF DroppedEntry(r) THEN [spool EXCEPT ![r] = "none"] ELSE spool
  /\ uploads' = uploads + (IF DroppedUpload(r) THEN 1 ELSE 0)
  /\ downloads' = downloads + (IF DroppedDownload(r) THEN 1 ELSE 0)
  /\ UNCHANGED <<queue, worker, audit, files, answer, lost, crashes, auditFailures>>

-----------------------------------------------------------------------------
(* The worker: one job at a time.                                          *)

Take ==
  /\ worker = NoJob /\ queue # <<>>
  /\ queue' = Tail(queue)
  /\ worker' = [job |-> Head(queue), ok |-> FALSE,
                pc |-> IF Downloading(Head(queue)) THEN "run" ELSE "begin"]
  /\ UNCHANGED <<conn, total, per, handler, uploads, downloads, spool, audit, files,
                 answer, lost, crashes, auditFailures>>

\* The oneshot reply, which a handler that is gone never hears.
Reply(r, ok) ==
  IF handler[r] # "waiting" THEN UNCHANGED <<handler, answer>>
  ELSE IF Downloading(r) THEN Go(r, IF ok THEN "got_ok" ELSE "got_error") /\ UNCHANGED answer
  ELSE Tell(r, IF ok THEN "ok" ELSE "error")

\* UploadHold is dropped with the job.
DropHold(r) ==
  IF Uploading(r)
  THEN uploads' = uploads + 1 /\ spool' = [spool EXCEPT ![r] = "none"]
  ELSE UNCHANGED <<uploads, spool>>

AuditBegin ==
  /\ worker.pc = "begin"
  /\ audit' = [audit EXCEPT ![worker.job] = @ \union {"allowed"}]
  /\ worker' = [worker EXCEPT !.pc = "run"]
  /\ UNCHANGED <<conn, total, per, handler, uploads, downloads, spool, queue, files,
                 answer, lost, crashes, auditFailures>>

RefuseUnrecorded ==
  /\ worker' = NoJob
  /\ Reply(worker.job, FALSE)
  /\ DropHold(worker.job)

AuditBeginFails ==
  /\ worker.pc = "begin" /\ auditFailures < MaxAuditFailures
  /\ auditFailures' = auditFailures + 1
  /\ RefuseUnrecorded
  /\ UNCHANGED <<conn, total, per, downloads, queue, audit, files, lost, crashes>>

NewFile(r) == [st |-> "live", by |-> Principal[r], content |-> Content[r], gone |-> "none"]

\* Portal::upload: a new file, or the one this key already names, if the
\* fingerprint of the spooled body agrees.
Store(r) ==
  /\ Uploading(r)
  /\ \/ files[FileKey(r)] = NoFile /\ files' = [files EXCEPT ![FileKey(r)] = NewFile(r)]
     \/ files[FileKey(r)] # NoFile /\ files[FileKey(r)].content = Content[r] /\ UNCHANGED files

\* Portal::delete, which answers the same to the same caller's retry.
Remove(r) ==
  LET f == files[FileKey(r)]
  IN  /\ Kind[r] = "delete"
      /\ f.st = "live" \/ (f.st = "deleted" /\ f.gone = Principal[r])
      /\ files' = [files EXCEPT ![FileKey(r)] = [f EXCEPT !.st = "deleted", !.gone = Principal[r]]]

Change ==
  /\ worker.pc = "run" /\ ~Downloading(worker.job)
  /\ \/ Store(worker.job) /\ worker' = [worker EXCEPT !.pc = "end", !.ok = TRUE]
     \/ Remove(worker.job) /\ worker' = [worker EXCEPT !.pc = "end", !.ok = TRUE]
     \/ UNCHANGED files /\ worker' = [worker EXCEPT !.pc = "end"]
  /\ UNCHANGED <<conn, total, per, handler, uploads, downloads, spool, queue, audit,
                 answer, lost, crashes, auditFailures>>

\* audit_end, then the reply; a record that fails is only printed.
Outcome == IF worker.ok THEN "completed" ELSE "failed"

Record(r) == audit' = [audit EXCEPT ![r] = @ \union {Outcome}]

AuditEnd ==
  /\ worker.pc = "end"
  /\ \/ Record(worker.job) /\ UNCHANGED <<lost, auditFailures>>
     \/ /\ auditFailures < MaxAuditFailures
        /\ auditFailures' = auditFailures + 1
        /\ lost' = lost \union {worker.job}
        /\ UNCHANGED audit
  /\ Reply(worker.job, worker.ok)
  /\ DropHold(worker.job)
  /\ worker' = NoJob
  /\ UNCHANGED <<conn, total, per, downloads, queue, files, crashes>>

\* Portal::download creates the destination's directory if it is missing,
\* and writes the decrypted file into it.
Download ==
  /\ worker.pc = "run" /\ Downloading(worker.job)
  /\ \/ /\ files[FileKey(worker.job)].st = "live"
        /\ spool' = [spool EXCEPT ![worker.job] = "plain"]
        /\ Reply(worker.job, TRUE)
     \/ /\ files[FileKey(worker.job)].st = "live"
        /\ spool' = [spool EXCEPT ![worker.job] = "empty"]
        /\ Reply(worker.job, FALSE)
     \/ Reply(worker.job, FALSE) /\ UNCHANGED spool
  /\ worker' = NoJob
  /\ UNCHANGED <<conn, total, per, uploads, downloads, queue, audit, files, lost,
                 crashes, auditFailures>>

\* The process dies, or exits because its tailnet address changed, and is
\* started again: the spool is wiped, the tables stay.
Crash ==
  /\ crashes < MaxCrashes
  /\ crashes' = crashes + 1
  /\ conn' = [r \in Reqs |-> IF conn[r] = "open" THEN "closed" ELSE conn[r]]
  /\ total' = 0 /\ per' = [a \in Addrs |-> 0]
  /\ handler' = [r \in Reqs |-> IF handler[r] \in {"none", "answered"} THEN handler[r] ELSE "gone"]
  /\ uploads' = MaxUploads /\ downloads' = MaxDownloads
  /\ spool' = [r \in Reqs |-> "none"]
  /\ queue' = <<>> /\ worker' = NoJob
  /\ lost' = lost \union ({worker.job} \ {"none"})
  /\ UNCHANGED <<audit, files, answer, auditFailures>>

Progress(r) == SpoolBody(r) \/ Send(r) \/ Open(r) \/ Sent(r)
Admit(r) == BeginUpload(r) \/ BeginDownload(r) \/ BeginDelete(r)
Work == Take \/ AuditBegin \/ AuditBeginFails \/ Change \/ AuditEnd \/ Download

Activity ==
  \/ \E r \in Reqs : Connect(r) \/ Close(r) \/ Refuse(r) \/ Admit(r) \/ Progress(r)
                       \/ SpoolFails(r) \/ HangUp(r)
  \/ Work \/ Crash

Next == UNCHANGED setting /\ Activity

Spec == Init /\ [][Next]_vars

\* The runtime polls its tasks and the worker's thread runs; a client that
\* stays sends its body and reads its answer.
FairSpec ==
  /\ Spec
  /\ WF_vars(UNCHANGED setting /\ Work)
  /\ \A r \in Requests : WF_vars(r \in Reqs /\ UNCHANGED setting /\ Progress(r))

-----------------------------------------------------------------------------
(* What is checked.                                                        *)

\* Tables, semaphores, spool, queue and worker keep their types.
TypeOK ==
  /\ setting \in Settings
  /\ conn \in [Reqs -> {"new", "open", "closed"}]
  /\ total \in 0..MaxConnections /\ per \in [Addrs -> 0..MaxPerAddress]
  /\ handler \in [Reqs -> {"none", "spooling", "sending", "waiting", "got_ok", "got_error",
                           "streaming", "answered", "gone"}]
  /\ uploads \in 0..MaxUploads /\ downloads \in 0..MaxDownloads
  /\ spool \in [Reqs -> {"none", "empty", "body", "plain"}]
  /\ queue \in Seq(Reqs) /\ Len(queue) <= QueueLen
  /\ worker \in [job : Reqs \union {"none"}, pc : {"idle", "begin", "run", "end"}, ok : BOOLEAN]
  /\ audit \in [Reqs -> SUBSET {"allowed", "completed", "failed"}]
  /\ answer \in [Reqs -> {"none", "ok", "error"}]
  /\ lost \subseteq Reqs

\* The body of an upload is in the spool for as long as its job is queued
\* or runs, also when the client is gone (UploadHold): Portal::upload would
\* otherwise accept a committed key without comparing the bodies.
BodyHeld ==
  \A r \in Jobs : Uploading(r) => spool[r] = "body"

\* Spooled bodies never outnumber the permits, and no permit is lost.
UploadsBounded ==
  /\ Cardinality({r \in Reqs : Uploading(r) /\ spool[r] # "none"}) <= MaxUploads
  /\ uploads + Cardinality({r \in Reqs : Uploading(r) /\ (r \in Jobs
                              \/ handler[r] \in {"spooling", "sending"})}) = MaxUploads

\* The slots count the open connections exactly, in all and per address.
SlotsExact ==
  /\ total = Cardinality({r \in Reqs : conn[r] = "open"})
  /\ \A a \in Addrs : per[a] = Cardinality({r \in Reqs : conn[r] = "open" /\ Addr[r] = a})

\* A change runs only after its "allowed" record, and a job the worker is
\* done with has its outcome on record unless the process died or the
\* database refused, also when the client hung up (deployment.md: "and
\* again when it ends, even if the client has disconnected").
ChangeRecorded ==
  /\ \A r \in Reqs : worker.job = r /\ worker.pc = "end" => "allowed" \in audit[r]
  /\ \A r \in Reqs : "allowed" \in audit[r] /\ worker.job # r /\ r \notin lost
       => audit[r] \intersect {"completed", "failed"} # {}

\* A client is told of success only for a file of its own with the content
\* it sent: Idempotency-Key headers of two callers never collide.
OwnFile ==
  \A r \in Reqs : Uploading(r) /\ answer[r] = "ok" =>
    files[FileKey(r)].by = Principal[r] /\ files[FileKey(r)].content = Content[r]

\* With nothing in flight the spool is empty (portal_server.rs:417: "A
\* spool entry removed when dropped"), if nobody hangs up on a download.
SpoolDrained ==
  "download" \notin setting.hangups /\ queue = <<>> /\ worker = NoJob /\ (\A r \in Reqs : handler[r] \in {"none", "answered", "gone"})
    => \A r \in Reqs : spool[r] = "none"

\* Every request that was admitted is answered, unless its client hung up
\* or the process died, and every permit comes back.
Answered ==
  <>[](/\ \A r \in Reqs : handler[r] \in {"none", "answered", "gone"}
       /\ (\A r \in Reqs : conn[r] = "closed") => uploads = MaxUploads /\ downloads = MaxDownloads)

\* Slots, permits, queue and spool: each is held for exactly as long as its
\* request needs it (ConnectionSlots, UploadHold, SpoolEntry).
RequestsKept == TypeOK /\ BodyHeld /\ UploadsBounded /\ SlotsExact /\ SpoolDrained

\* A change is on record, and a success is about the caller's own file
\* (worker_loop, record_change, file_key).
RecordedOwn == ChangeRecorded /\ OwnFile
=============================================================================
