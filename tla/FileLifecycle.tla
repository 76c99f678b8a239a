--------------------------- MODULE FileLifecycle ---------------------------
(***************************************************************************)
(* What a client may rely on about a file: it is absent, becomes visible   *)
(* once with one revision, may be deleted, and then stays deleted.  The    *)
(* commit spine implements it.                                             *)
(***************************************************************************)
CONSTANTS Files, Revisions, None

VARIABLES status, revision

vars == <<status, revision>>

Init ==
    /\ status = [f \in Files |-> "absent"]
    /\ revision = [f \in Files |-> None]

\* The projection of a file is committed.
Publish(f, r) ==
    /\ status[f] = "absent"
    /\ status' = [status EXCEPT ![f] = "visible"]
    /\ revision' = [revision EXCEPT ![f] = r]

\* The deletion of a visible file is committed.
Remove(f) ==
    /\ status[f] = "visible"
    /\ status' = [status EXCEPT ![f] = "deleted"]
    /\ UNCHANGED revision

Next == \E f \in Files : Remove(f) \/ \E r \in Revisions : Publish(f, r)

Spec == Init /\ [][Next]_vars
=============================================================================
