----------------------------- MODULE AgentStore -----------------------------
(***************************************************************************)
(* One agent's volume: DurableStore (durability.rs) under the handlers of  *)
(* agent.rs.  The handlers run store.put and store.delete on a blocking    *)
(* thread pool, so their file operations interleave; every file operation  *)
(* is a step.  The agent process may die and the power may fail between    *)
(* any two steps.                                                          *)
(*                                                                         *)
(* A directory entry survives a power failure for certain only once its    *)
(* directory was synced; one that was not may or may not be there          *)
(* afterwards, in its old or its new form.  Objects are numbered in the    *)
(* order of their hashes, and the two levels of prefix directories are one *)
(* level: DirOf(o) is the directory that holds o, an entry of the          *)
(* namespace.                                                              *)
(* The byte counter changes in the step that syncs the directory before    *)
(* it, and admit's two limits (one for chunks, a wider one for manifests   *)
(* and markers) are one.                                                   *)
(***************************************************************************)
EXTENDS Integers, FiniteSets, FiniteSetsExt, Functions

CONSTANTS
    Objects,        \* the objects, numbered in hash order
    DirOf,          \* the prefix directory of each object
    Size,           \* bytes of each object
    Page,           \* entries of an inventory page
    Settings        \* how an agent may be set up, and what it meets

ASSUME StoreAssumption ==
    /\ Objects \subseteq Nat /\ IsFiniteSet(Objects) /\ Objects # {}
    /\ Objects \subseteq DOMAIN Size /\ Objects \subseteq DOMAIN DirOf
    /\ \A o \in Objects : Size[o] \in Nat \ {0}
    /\ Page \in Nat \ {0}
    /\ \A x \in Settings : /\ x.admissible \in Nat /\ x.faults \in Nat
                           /\ IsFiniteSet(DOMAIN x.works) /\ DOMAIN x.works # {}
                           /\ \A t \in DOMAIN x.works : x.works[t] \subseteq Objects

VARIABLES
    files,          \* object -> "absent", "good" or "bad" (bytes of another hash)
    synced,         \* what a power failure leaves for certain, as in files
    dirs,           \* prefix directories that exist
    syncedDirs,     \* those whose entries in the namespace are durable
    identity,       \* the volume's identity: [file, synced, served]
    used,           \* used_bytes
    up,             \* "down", "creating" an identity, or "up"
    thread,         \* the request each thread is working on
    acked,          \* objects whose PUT was acknowledged and that nothing removed
    list,           \* a listing of the inventory, page by page
    faults,
    setting         \* the one of Settings this agent has

diskVars == <<files, synced, dirs, syncedDirs>>
vars == <<files, synced, dirs, syncedDirs, identity, used, up, thread, acked, list, faults, setting>>

Works == setting.works              \* the objects each blocking thread is given
Threads == DOMAIN Works
Admissible == setting.admissible    \* quota less the reserve
Prepared == setting.prepared        \* the volume's directories and identity are durable already
MaxFaults == setting.faults         \* bound on process deaths, power failures, rot and I/O errors
IoErrors == setting.io              \* a directory sync may fail
Lists == setting.lists              \* a client lists the inventory

Namespace == {DirOf[o] : o \in Objects}
Idle == [pc |-> "idle", obj |-> 0, bytes |-> 0, undone |-> FALSE]
NoListing == [pc |-> "idle", after |-> -1, got |-> {}, stable |-> {}]

Init ==
    /\ setting \in Settings
    /\ files = [o \in Objects |-> "absent"]
    /\ synced = files
    /\ dirs = IF Prepared THEN Namespace ELSE {}
    /\ syncedDirs = dirs
    /\ identity = IF Prepared THEN [file |-> 1, synced |-> 1, served |-> 1]
                  ELSE [file |-> 0, synced |-> 0, served |-> 0]
    /\ used = 0
    /\ up = IF Prepared THEN "up" ELSE "down"
    /\ thread = [t \in Threads |-> Idle]
    /\ acked = {}
    /\ list = NoListing
    /\ faults = 0

Present == {o \in Objects : files[o] # "absent"}
Bytes(S) == SumFunctionOnSet(Size, S)

-----------------------------------------------------------------------------
(* Startup: DurableStore::open, sweep_stale_temporaries,                   *)
(* load_or_create_incarnation.                                             *)

NewIdentity == 1 + Max({identity.file, identity.synced, identity.served})

Serving(id) ==
    /\ up' = "up"
    /\ used' = Bytes(Present)
    /\ identity' = [identity EXCEPT !.served = id, !.synced = IF up = "creating" THEN id ELSE @]

\* An identity file is read as it is found.
Start ==
    /\ up = "down"
    /\ identity.file # 0
    /\ Serving(identity.file)
    /\ UNCHANGED <<diskVars, thread, acked, list, faults>>

\* hard_link of a new identity: it is in the directory, not yet durable.
CreateIdentity ==
    /\ up = "down"
    /\ identity.file = 0
    /\ up' = "creating"
    /\ identity' = [identity EXCEPT !.file = NewIdentity]
    /\ UNCHANGED <<diskVars, used, thread, acked, list, faults>>

\* Mutant: the agent serves without a sync of the volume's directory.
ServeUnsynced ==
    /\ up = "creating"
    /\ up' = "up"
    /\ used' = Bytes(Present)
    /\ identity' = [identity EXCEPT !.served = identity.file]
    /\ UNCHANGED <<diskVars, thread, acked, list, faults>>

\* sync_directory(root) by the process that made the identity.
SyncIdentity ==
    /\ up = "creating"
    /\ Serving(identity.file)
    /\ UNCHANGED <<diskVars, thread, acked, list, faults>>

-----------------------------------------------------------------------------
(* PUT                                                                     *)

Goto(t, pc) == thread' = [thread EXCEPT ![t].pc = pc]
Done(t) == thread' = [thread EXCEPT ![t] = Idle]

admit(o) == Size[o] <= Admissible - used

\* An admitted PUT begins; a refused one (HTTP 507) changes nothing here.
BeginPut(t, o) ==
    /\ up = "up"
    /\ thread[t].pc = "idle"
    /\ admit(o)
    /\ thread' = [thread EXCEPT ![t] = [Idle EXCEPT !.pc = "dirs", !.obj = o]]
    /\ UNCHANGED <<diskVars, identity, used, up, acked, list, faults>>

\* create_dir of the prefix; an existing directory is taken as it is.
EnsureDirectory(t) ==
    /\ thread[t].pc = "dirs"
    /\ LET dir == DirOf[thread[t].obj]
       IN  /\ Goto(t, IF dir \in dirs THEN "check" ELSE "sync_namespace")
           /\ dirs' = dirs \cup {dir}
    /\ UNCHANGED <<files, synced, syncedDirs, identity, used, up, acked,
                   list, faults>>

SyncNamespace(t) ==
    /\ thread[t].pc = "sync_namespace"
    /\ syncedDirs' = dirs
    /\ Goto(t, "check")
    /\ UNCHANGED <<files, synced, dirs, identity, used, up, acked, list,
                   faults>>

\* Mutant: an object that is there already is acknowledged at once.
AcknowledgeExisting(o) == "ack"

\* Where a PUT goes on when its object is there already with good bytes.
AfterGood(o) == "resync"

CheckExisting(t) ==
    /\ thread[t].pc = "check"
    /\ LET o == thread[t].obj
       IN  thread' = [thread EXCEPT
              ![t].pc = IF files[o] = "good" THEN AfterGood(o) ELSE "write",
              ![t].bytes = IF files[o] = "bad" THEN Size[o] ELSE 0]
    /\ UNCHANGED <<diskVars, identity, used, up, acked, list, faults>>

SyncedIn(dir) == [o \in Objects |-> IF DirOf[o] = dir THEN files[o] ELSE synced[o]]

\* The existing object's directories are synced, up to the namespace.
Resync(t) ==
    /\ thread[t].pc = "resync"
    /\ synced' = SyncedIn(DirOf[thread[t].obj])
    /\ syncedDirs' = dirs
    /\ Goto(t, "ack")
    /\ UNCHANGED <<files, dirs, identity, used, up, acked, list, faults>>

\* The bytes go to a temporary file of their own, which is synced.
WriteTemporary(t) ==
    /\ thread[t].pc = "write"
    /\ Goto(t, "rename")
    /\ UNCHANGED <<files, synced, dirs, syncedDirs, identity, used, up, acked,
                   list, faults>>

\* ENOSPC or another error before the rename: the temporary file is removed.
WriteFails(t) ==
    /\ thread[t].pc \in {"write", "rename"}
    /\ IoErrors /\ faults < MaxFaults
    /\ faults' = faults + 1
    /\ Done(t)
    /\ UNCHANGED <<files, synced, dirs, syncedDirs, identity, used, up, acked, list>>

Rename(t) ==
    /\ thread[t].pc = "rename"
    /\ files' = [files EXCEPT ![thread[t].obj] = "good"]
    /\ Goto(t, "sync_parent")
    /\ UNCHANGED <<synced, dirs, syncedDirs, identity, used, up, acked, list, faults>>

\* Mutant: the bytes of the file that was replaced are not taken off.
AddBytes(counter, replaced, size) == counter + size

Replaced(counter, replaced, size) == Max({0, counter - replaced}) + size

\* sync_directory(parent), then the counter.
SyncParent(t) ==
    /\ thread[t].pc = "sync_parent"
    /\ LET o == thread[t].obj
       IN  /\ synced' = SyncedIn(DirOf[o])
           /\ used' = Replaced(used, thread[t].bytes, Size[o])
    /\ Goto(t, "ack")
    /\ UNCHANGED <<files, dirs, syncedDirs, identity, up, acked, list, faults>>

\* The sync fails: the PUT or DELETE is refused and the counter left alone,
\* although the object was renamed into place or removed.
SyncFails(t) ==
    /\ thread[t].pc \in {"sync_parent", "sync_removed"}
    /\ IoErrors /\ faults < MaxFaults
    /\ faults' = faults + 1
    /\ Done(t)
    /\ UNCHANGED <<diskVars, identity, used, up, acked, list>>

\* HTTP 204.  A PUT whose object was removed or rotted meanwhile came before.
AckPut(t) ==
    /\ thread[t].pc = "ack"
    /\ acked' = IF thread[t].undone THEN acked ELSE acked \cup {thread[t].obj}
    /\ Done(t)
    /\ UNCHANGED <<diskVars, identity, used, up, list, faults>>

-----------------------------------------------------------------------------
(* DELETE                                                                  *)

\* The PUTs that found or stored o before it was lost.
Undo(o) ==
    [u \in Threads |->
        IF thread[u].obj = o /\ thread[u].pc \in {"resync", "sync_parent", "ack"}
        THEN [thread[u] EXCEPT !.undone = TRUE] ELSE thread[u]]

\* The size is read from the file; a missing object is no error.
BeginDelete(t, o) ==
    /\ up = "up"
    /\ thread[t].pc = "idle"
    /\ files[o] # "absent"
    /\ thread' = [thread EXCEPT ![t] = [Idle EXCEPT !.pc = "remove", !.obj = o,
                                                    !.bytes = Size[o]]]
    /\ UNCHANGED <<diskVars, identity, used, up, acked, list, faults>>

\* remove_file fails if another DELETE was faster.
RemoveFile(t) ==
    /\ thread[t].pc = "remove"
    /\ LET o == thread[t].obj
       IN  \/ /\ files[o] = "absent"
              /\ Done(t)
              /\ UNCHANGED <<files, acked, list>>
           \/ /\ files[o] # "absent"
              /\ files' = [files EXCEPT ![o] = "absent"]
              /\ acked' = acked \ {o}
              /\ list' = [list EXCEPT !.stable = @ \ {o}]
              /\ thread' = [Undo(o) EXCEPT ![t].pc = "sync_removed"]
    /\ UNCHANGED <<synced, dirs, syncedDirs, identity, used, up, faults>>

SyncRemoved(t) ==
    /\ thread[t].pc = "sync_removed"
    /\ synced' = SyncedIn(DirOf[thread[t].obj])
    /\ used' = Max({0, used - thread[t].bytes})
    /\ Done(t)
    /\ UNCHANGED <<files, dirs, syncedDirs, identity, up, acked, list, faults>>

-----------------------------------------------------------------------------
(* inventory                                                               *)

BeginList ==
    /\ Lists /\ up = "up"
    /\ list.pc = "idle"
    /\ list' = [pc |-> "page", after |-> -1, got |-> {}, stable |-> Present]
    /\ UNCHANGED <<diskVars, identity, used, up, thread, acked, faults>>

Beyond(o, after) == o > after

\* The next entries after the cursor; more than a page of them leave a cursor.
NextPage ==
    /\ list.pc = "page" /\ up = "up"
    /\ LET rest == {o \in Present : Beyond(o, list.after)}
           page == {o \in rest : Cardinality({p \in rest : p < o}) < Page}
       IN  list' = [list EXCEPT
              !.got = @ \cup page,
              !.pc = IF page = rest THEN "done" ELSE "page",
              !.after = IF page = rest THEN -1 ELSE Max(page)]
    /\ UNCHANGED <<diskVars, identity, used, up, thread, acked, faults>>

EndList ==
    /\ list.pc = "done"
    /\ list' = NoListing
    /\ UNCHANGED <<diskVars, identity, used, up, thread, acked, faults>>

-----------------------------------------------------------------------------
(* Faults                                                                  *)

Dead ==
    /\ up' = "down"
    /\ thread' = [t \in Threads |-> Idle]
    /\ list' = NoListing

\* The process dies, also while it starts; the filesystem stays as it is.
Stop ==
    /\ faults < MaxFaults
    /\ faults' = faults + 1
    /\ up # "down"
    /\ Dead
    /\ UNCHANGED <<diskVars, identity, used, acked>>

\* Entries that were never synced may be lost, each for itself, and an object
\* is lost with its directory.
PowerFailure ==
    /\ faults < MaxFaults
    /\ faults' = faults + 1
    /\ Dead
    /\ \E kept \in SUBSET {o \in Objects : files[o] # synced[o]},
          keptDirs \in SUBSET (dirs \ syncedDirs), keptIdentity \in BOOLEAN :
          /\ dirs' = syncedDirs \cup keptDirs
          /\ files' = [o \in Objects |->
                 IF DirOf[o] \notin dirs' THEN "absent"
                 ELSE IF o \in kept THEN files[o] ELSE synced[o]]
          /\ LET id == IF keptIdentity THEN identity.file ELSE identity.synced
             IN  identity' = [identity EXCEPT !.file = id, !.synced = id]
    /\ synced' = files'
    /\ syncedDirs' = dirs'
    /\ UNCHANGED <<used, acked>>

\* Stored bytes rot.
Rot(o) ==
    /\ faults < MaxFaults
    /\ faults' = faults + 1
    /\ files[o] = "good"
    /\ files' = [files EXCEPT ![o] = "bad"]
    /\ synced' = [synced EXCEPT ![o] = IF @ = "good" THEN "bad" ELSE @]
    /\ acked' = acked \ {o}
    /\ thread' = Undo(o)
    /\ UNCHANGED <<dirs, syncedDirs, identity, used, up, list>>

Serve(t) ==
    \/ \E o \in Works[t] : BeginPut(t, o) \/ BeginDelete(t, o)
    \/ EnsureDirectory(t) \/ SyncNamespace(t) \/ CheckExisting(t) \/ Resync(t)
    \/ WriteTemporary(t) \/ WriteFails(t) \/ Rename(t) \/ SyncParent(t) \/ SyncFails(t)
    \/ AckPut(t) \/ RemoveFile(t) \/ SyncRemoved(t)

Activity ==
    \/ Start \/ CreateIdentity \/ SyncIdentity
    \/ \E t \in Threads : Serve(t)
    \/ BeginList \/ NextPage \/ EndList
    \/ Stop \/ PowerFailure \/ \E o \in Objects : Rot(o)

Next == UNCHANGED setting /\ Activity

Spec == Init /\ [][Next]_vars

-----------------------------------------------------------------------------

Contents == [Objects -> {"absent", "good", "bad"}]
Steps == {"idle", "dirs", "sync_namespace", "check", "resync", "write", "rename",
          "sync_parent", "ack", "remove", "sync_removed"}

\* The values every variable takes; a file is in a directory that exists.
TypeOK ==
    /\ files \in Contents /\ synced \in Contents
    /\ dirs \subseteq Namespace /\ syncedDirs \subseteq dirs
    /\ \A o \in Present : DirOf[o] \in dirs
    /\ identity \in [file : Nat, synced : Nat, served : Nat]
    /\ used \in Nat
    /\ up \in {"down", "creating", "up"}
    /\ thread \in [Threads -> [pc : Steps, obj : Objects \cup {0}, bytes : Nat, undone : BOOLEAN]]
    /\ acked \subseteq Objects
    /\ list.pc \in {"idle", "page", "done"} /\ list.got \subseteq Objects
    /\ setting \in Settings /\ faults \in 0..MaxFaults

\* An object whose PUT was acknowledged is there, and a power failure at this
\* moment would leave it there, until a DELETE removes it or its bytes rot; on
\* a volume whose prefix directories were durable before (a directory that
\* another PUT has just made may not be: ensure_child_directory).
AckedDurable ==
    Prepared => \A o \in acked : files[o] = "good" /\ synced[o] = "good" /\ DirOf[o] \in syncedDirs

\* No two threads work on one object.
OwnObjects == \A t, u \in Threads : t # u => Works[t] \cap Works[u] = {}

\* While no request is at work, used_bytes is what the stored objects take:
\* "Bytes held by stored objects, computed on open and maintained by put and
\* delete" (DurableStore), if no two threads work on one object (two PUTs of a
\* missing object both add its bytes) and no sync fails (the counter is then left
\* as it was, although the object is in place or gone).
UsedExact ==
    up = "up" /\ OwnObjects /\ ~IoErrors /\ (\A t \in Threads : thread[t].pc = "idle")
        => used = Bytes(Present)

\* Admission reads the counter before the write, so concurrent PUTs may pass it
\* together, but never by more than one object for each other thread; nor after a
\* process death, a power failure or rot, where the counter is exact.  A second
\* fault may bring back an object whose DELETE was not yet synced.
Largest == Max({Size[o] : o \in Objects})
QuotaKept ==
    faults = 0 \/ (faults = 1 /\ OwnObjects /\ ~IoErrors)
        => Bytes(Present) <= Admissible + (Cardinality(Threads) - 1) * Largest

\* A listing made of pages holds every object that was there all the time.
InventoryComplete == list.pc = "done" => list.stable \subseteq list.got

\* The identity that the agent serves never changes on one volume: "Each volume
\* carries an immutable incarnation identity, a UUID created durably on first
\* open" (load_or_create_incarnation).  A new volume that meets a second fault
\* may lose an identity that a process found and served without a sync.
IdentityStable ==
    [][(Prepared \/ faults' <= 1) /\ identity.served # 0 => identity'.served = identity.served]_vars

\* The store's books: the counter, the quota and the listings agree with the
\* files, in and after every race and power failure (put, delete, inventory).
StoreAccounted == TypeOK /\ UsedExact /\ QuotaKept /\ InventoryComplete
=============================================================================
