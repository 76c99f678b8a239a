----------------------------- MODULE JobLeases -----------------------------
(***************************************************************************)
(* Job rows of several processes that share one database (metadata.rs).    *)
(* Every open database holds a lease, a locked file; a job records the     *)
(* lease of its owner; opening the database interrupts the running jobs    *)
(* whose owner is gone.                                                    *)
(*                                                                         *)
(* Abstractions                                                            *)
(*  - Lease ids are fresh; an id that no file and no running job names any *)
(*    more is used again, which bounds the model and not the code.         *)
(*  - A job is a reconcile job with at most one inventory scan at a time   *)
(*    or a backup job, which has none.  Reports are left out.  A job row   *)
(*    of a release before leases names no owner.                           *)
(*  - interrupt_running_jobs is one transaction on one snapshot: it takes  *)
(*    effect in one step or, after a competing write, fails the opening.   *)
(***************************************************************************)
EXTENDS Integers, FiniteSets

CONSTANTS
    Procs,          \* processes, each with at most one open database
    NumLeases,      \* bound on lease ids in use
    Jobs,           \* job ids, each used once
    MaxStops        \* bound on processes that stop without closing, and on failed writes

JobLeasesAssumption ==
    /\ IsFiniteSet(Procs) /\ NumLeases \in Nat \ {0}
    /\ MaxStops \in Nat

Leases == 1..NumLeases

VARIABLES
    stage,      \* process -> what it is doing
    lease,      \* process -> its lease, 0 if it has none
    mine,       \* process -> the jobs it runs
    file,       \* lease -> whether its file exists
    holder,     \* lease -> whether a process holds its lock
    job,        \* job -> row
    scan,       \* job -> its current scan
    stops       \* processes that died and writes that failed, so far

leaseVars == <<stage, lease, mine, file, holder, job, scan, stops>>

NoJob == [kind |-> "none", owner |-> 0, status |-> "none"]
OldJob(kind) == [kind |-> kind, owner |-> 0, status |-> "running"]
Statuses == {"running", "complete", "failed", "interrupted"}

\* The type invariant: lease files, job rows and processes.
LeasesTyped ==
    /\ stage \in [Procs -> {"down", "created", "locked", "up", "closing"}]
    /\ lease \in [Procs -> Leases \cup {0}]
    /\ mine \in [Procs -> SUBSET Jobs]
    /\ file \in [Leases -> BOOLEAN] /\ holder \in [Leases -> BOOLEAN]
    /\ job \in [Jobs -> [kind : {"none", "reconcile", "backup"}, owner : Leases \cup {0},
                         status : Statuses \cup {"none"}]]
    /\ scan \in [Jobs -> {"none", "running", "complete", "failed"}]
    /\ stops \in 0..MaxStops

LeasesInit ==
    /\ stage = [p \in Procs |-> "down"]
    /\ lease = [p \in Procs |-> 0]
    /\ mine = [p \in Procs |-> {}]
    /\ file = [l \in Leases |-> FALSE] /\ holder = [l \in Leases |-> FALSE]
    /\ job \in [Jobs -> {NoJob, OldJob("reconcile"), OldJob("backup")}]
    /\ scan \in [Jobs -> {"none", "running"}]
    /\ \A j \in Jobs : scan[j] = "running" => job[j].kind = "reconcile"
    /\ stops = 0

Running == {j \in Jobs : job[j].status = "running"}
Unused(l) ==
    /\ ~file[l] /\ ~holder[l]
    /\ \A j \in Running : job[j].owner # l
    /\ \A p \in Procs : lease[p] # l

-----------------------------------------------------------------------------
(* Database::open *)

\* ProcessLease::acquire creates the file and then locks it.
CreateLease(p) ==
    /\ stage[p] = "down"
    /\ \E l \in Leases :
         /\ Unused(l) /\ \A k \in 1..(l - 1) : ~Unused(k)
         /\ file' = [file EXCEPT ![l] = TRUE]
         /\ lease' = [lease EXCEPT ![p] = l]
    /\ stage' = [stage EXCEPT ![p] = "created"]
    /\ UNCHANGED <<mine, holder, job, scan, stops>>

\* Mutant: the lease file is never locked.
LockNothing(p) ==
    /\ stage[p] = "created"
    /\ stage' = [stage EXCEPT ![p] = "locked"]
    /\ UNCHANGED <<lease, mine, file, holder, job, scan, stops>>
LockLease(p) ==
    /\ stage[p] = "created" /\ ~holder[lease[p]]
    /\ holder' = [holder EXCEPT ![lease[p]] = TRUE]
    /\ stage' = [stage EXCEPT ![p] = "locked"]
    /\ UNCHANGED <<lease, mine, file, job, scan, stops>>

\* Mutant: a lease without a file counts as alive.
AliveUnlessUnlocked(l) == l \in Leases /\ (~file[l] \/ holder[l])
\* is_alive: an owner whose file exists and is locked; a job without one is dead.
IsAlive(l) == l \in Leases /\ file[l] /\ holder[l]

FailScans(dead) ==
    [j \in Jobs |-> IF j \in dead /\ scan[j] = "running" THEN "failed" ELSE scan[j]]

\* interrupt_running_jobs; is_alive removes the file of a dead owner.
InterruptRunningJobs(p) ==
    LET dead == {j \in Running : job[j].owner # lease[p] /\ ~IsAlive(job[j].owner)} IN
    /\ stage[p] = "locked"
    /\ job' = [j \in Jobs |-> IF j \in dead THEN [job[j] EXCEPT !.status = "interrupted"] ELSE job[j]]
    /\ scan' = FailScans(dead)
    /\ file' = [l \in Leases |-> file[l] /\ \A j \in dead : job[j].owner # l]
    /\ stage' = [stage EXCEPT ![p] = "up"]
    /\ UNCHANGED <<lease, mine, holder, stops>>

\* The opening fails after is_alive may have removed files; the lease is dropped.
OpenFailed(p) ==
    LET dead == {j \in Running : job[j].owner # lease[p] /\ ~IsAlive(job[j].owner)} IN
    /\ stage[p] = "locked" /\ stops < MaxStops
    /\ stops' = stops + 1
    /\ file' = [l \in Leases |-> file[l] /\ \A j \in dead : job[j].owner # l]
    /\ stage' = [stage EXCEPT ![p] = "closing"]
    /\ UNCHANGED <<lease, mine, holder, job, scan>>

-----------------------------------------------------------------------------
(* Jobs *)

\* create_reconcile_job, create_backup_job
CreateJob(p, j) ==
    /\ stage[p] = "up" /\ job[j].status = "none"
    /\ \E k \in {"reconcile", "backup"} :
         job' = [job EXCEPT ![j] = [kind |-> k, owner |-> lease[p], status |-> "running"]]
    /\ mine' = [mine EXCEPT ![p] = @ \cup {j}]
    /\ UNCHANGED <<stage, lease, file, holder, scan, stops>>

StartScan(p, j) ==
    /\ stage[p] = "up" /\ j \in mine[p] /\ job[j].kind = "reconcile" /\ scan[j] # "running"
    /\ scan' = [scan EXCEPT ![j] = "running"]
    /\ UNCHANGED <<stage, lease, mine, file, holder, job, stops>>

\* complete_scan, fail_scan: only a running scan ends.
EndScan(p, j) ==
    /\ stage[p] = "up" /\ j \in mine[p] /\ scan[j] = "running"
    /\ \E s \in {"complete", "failed"} : scan' = [scan EXCEPT ![j] = s]
    /\ UNCHANGED <<stage, lease, mine, file, holder, job, stops>>

\* finish_reconcile_job, finish_backup_job; a job that is not running any more
\* makes its owner fail with MissingJob.  When complete_scan or fail_scan could not
\* write, the job ends as failed and its scan stays open.
FinishJob(p, j) ==
    /\ stage[p] = "up" /\ j \in mine[p]
    /\ scan[j] = "running" => stops < MaxStops
    /\ stops' = IF scan[j] = "running" THEN stops + 1 ELSE stops
    /\ IF job[j].status = "running"
       THEN \E s \in {"complete", "failed"} :
              (scan[j] = "running" => s = "failed") /\ job' = [job EXCEPT ![j].status = s]
       ELSE UNCHANGED job
    /\ mine' = [mine EXCEPT ![p] = @ \ {j}]
    /\ UNCHANGED <<stage, lease, file, holder, scan>>

-----------------------------------------------------------------------------
(* The end of a process *)

\* Drop for ProcessLease removes the file; then the handle is closed.  A job
\* whose last write failed is left running.
DropLease(p) ==
    /\ stage[p] = "closing" \/ (stage[p] = "up" /\ (mine[p] = {} \/ stops < MaxStops))
    /\ stops' = IF stage[p] = "up" /\ mine[p] # {} THEN stops + 1 ELSE stops
    /\ file' = [file EXCEPT ![lease[p]] = FALSE]
    /\ holder' = [holder EXCEPT ![lease[p]] = FALSE]
    /\ mine' = [mine EXCEPT ![p] = {}]
    /\ stage' = [stage EXCEPT ![p] = "down"] /\ lease' = [lease EXCEPT ![p] = 0]
    /\ UNCHANGED <<job, scan>>

\* The process dies: the kernel releases the lock and the file stays.
ProcessStops(p) ==
    /\ stage[p] # "down" /\ stops < MaxStops
    /\ stops' = stops + 1
    /\ holder' = [holder EXCEPT ![lease[p]] = FALSE]
    /\ mine' = [mine EXCEPT ![p] = {}]
    /\ stage' = [stage EXCEPT ![p] = "down"] /\ lease' = [lease EXCEPT ![p] = 0]
    /\ UNCHANGED <<file, job, scan>>

OpenStep(p) == CreateLease(p) \/ LockLease(p) \/ InterruptRunningJobs(p)

LeasesNext ==
    \E p \in Procs :
      \/ OpenStep(p) \/ OpenFailed(p) \/ DropLease(p) \/ ProcessStops(p)
      \/ \E j \in Jobs : CreateJob(p, j) \/ StartScan(p, j) \/ EndScan(p, j) \/ FinishJob(p, j)

LeasesSpec == LeasesInit /\ [][LeasesNext]_leaseVars

\* Somebody opens and closes the database again and again: every portal
\* command does.
LeasesFairSpec ==
    LeasesSpec /\ \A p \in Procs : WF_leaseVars(OpenStep(p)) /\ WF_leaseVars(DropLease(p))

-----------------------------------------------------------------------------
(* Properties *)

\* No process finds its running job interrupted by another that opened the
\* database beside it (acquire, is_alive, interrupt_running_jobs).
LiveJobKept ==
    \A p \in Procs : \A j \in mine[p] : job[j].status = "running"

\* An interrupted job has no open scan, which a late complete_scan could turn
\* into a proof of absence (interrupt_running_jobs, complete_scan).
InterruptedProvesNothing ==
    \A j \in Jobs : job[j].status = "interrupted" => scan[j] # "running"

\* A job whose owner is gone does not stay "running" for ever.
DeadJobSettles ==
    \A j \in Jobs :
      (job[j].status = "running" /\ \A p \in Procs : j \notin mine[p])
         ~> job[j].status # "running"

\* Jobs are interrupted only when their process is gone, and the scan that was
\* open then is never completed; scans completed before still count
\* (acquire, is_alive, interrupt_running_jobs).
LeasesSound == LeasesTyped /\ LiveJobKept /\ InterruptedProvesNothing
=============================================================================
