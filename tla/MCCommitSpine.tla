--------------------------- MODULE MCCommitSpine ---------------------------
(***************************************************************************)
(* CommitSpine for TLC.  `mode' is what the portal processes are asked to  *)
(* do; every mode is a part of CommitSpine's behaviours, so that the       *)
(* bounds on faults and on concurrent calls can be chosen for each.        *)
(***************************************************************************)
EXTENDS CommitSpine, TLC

VARIABLE mode
modeVars == <<mode, vars>>

\* Two agents, and three agents of which two share a failure domain.
TwoDomains == <<"d1", "d2">>
SharedDomain == <<"d1", "d1", "d2">>

\* Processes with the same abilities, and delete keys, are interchangeable.
Symmetry == Permutations(Procs) \cup Permutations(DeleteKeys)

-----------------------------------------------------------------------------
(* Several processes: uploads under one key with a loss; deletes of one     *)
(* file with a loss; and both at once without losses.                       *)

Asked(p, op) == req[p].op = op
SharedBounds ==
    /\ mode = "uploads" => minted <= 2 /\ \A p \in Procs : ~Asked(p, "delete")
    /\ mode = "deletes" => \A p, q \in Procs : Asked(p, "upload") /\ ~Asked(q, "none") => p = q
    /\ mode = "both" => faults = 0

SharedInit == Init /\ mode \in {"uploads", "deletes", "both"}
SharedNext == UNCHANGED mode /\ Next /\ SharedBounds'
SharedSpec == SharedInit /\ [][SharedNext]_modeVars

-----------------------------------------------------------------------------
(* One process at a time: a source that is edited, and retries.             *)

SoloBounds ==
    /\ faults + hiccups <= 2
    /\ mode = "edit" => \A p \in Procs : ~Asked(p, "delete")
    /\ mode = "retry" => \A p \in Procs : req[p].src \in {None, CHOOSE c \in Contents : TRUE}

SoloFairness ==
    \A p \in Procs :
        /\ WF_modeVars(mode = "retry" /\ UNCHANGED mode /\ Step(p))
        /\ \A k \in UploadKeys, c \in Contents :
             SF_modeVars(mode = "retry" /\ UNCHANGED mode /\ StartUpload(p, k, c) /\ SoloBounds')
        /\ \A d \in DeleteKeys, f \in UploadKeys :
             SF_modeVars(mode = "retry" /\ UNCHANGED mode /\ StartDelete(p, d, f))

SoloInit == Init /\ mode \in {"edit", "retry"}
SoloNext == UNCHANGED mode /\ Next /\ SoloBounds'
SoloSpec == SoloInit /\ [][SoloNext]_modeVars /\ SoloFairness

\* UploadConverges and DeleteConverges, for a client whose source stays.
RetryConverges == mode = "retry" => UploadConverges /\ DeleteConverges
=============================================================================
