------------------------------ MODULE MCDatabase ------------------------------
(***************************************************************************)
(* Database::open for TLC: SchemaMigration and, once the schema is current, *)
(* JobLeases.  The two share no variable, so a property of one holds of     *)
(* both together if it holds while the other rests: each behaviour moves    *)
(* one of them.                                                             *)
(***************************************************************************)
EXTENDS SchemaMigration, JobLeases

CONSTANTS p1, p2, p3, f1, f2, j1

VARIABLE part   \* which of the two moves

allVars == <<part, vars, leaseVars>>

TwoProcesses == {p1, p2}
ThreeProcesses == {p1, p2, p3}
OneJob == {j1}
TwoFiles == {f1, f2}
OneFile == {f1}
AllVersions == 0..12

ASSUME LeasesAssumption == JobLeasesAssumption

DatabaseInit ==
    /\ part \in {"schema", "leases"}
    /\ Init /\ (part = "leases" => db.version = SchemaVersion)
    /\ LeasesInit /\ (part = "schema" => \A j \in Jobs : job[j] = NoJob)

SchemaMoves == part = "schema" /\ Next /\ UNCHANGED <<part, leaseVars>>
LeasesMove == part = "leases" /\ LeasesNext /\ UNCHANGED <<part, vars>>
DatabaseNext == SchemaMoves \/ LeasesMove

\* The fairness of FairSpec in both modules.
DatabaseFairSpec ==
    /\ DatabaseInit /\ [][DatabaseNext]_allVars
    /\ \A p \in Processes : WF_allVars(part = "schema" /\ Opening(p) /\ UNCHANGED <<part, leaseVars>>)
    /\ \A p \in Procs :
         /\ WF_allVars(part = "leases" /\ OpenStep(p) /\ UNCHANGED <<part, vars>>)
         /\ WF_allVars(part = "leases" /\ DropLease(p) /\ UNCHANGED <<part, vars>>)

\* A database that is not from the future is opened by everybody at last, after
\* crashes at any statement (Database::open), and the job of a dead process is
\* marked in the end (interrupt_running_jobs).
EverythingSettles ==
    /\ part = "schema" /\ db.version <= SchemaVersion => OpensAgain
    /\ part = "leases" => DeadJobSettles
================================================================================
