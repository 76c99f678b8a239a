----------------------------- MODULE MCKeyTrust -----------------------------
(* KeyTrust for TLC. *)
EXTENDS KeyTrust

CONSTANTS p1, p2
TwoProcesses == {p1, p2}

Setting(ks, ts, ps, ns, vs, fs, rs, bs) ==
    [keys |-> ks, tokens |-> ts, procs |-> ps, nodes |-> ns, versions |-> vs, faults |-> fs,
     resets |-> rs, restores |-> bs]

\* Two processes beside rotations; joins from two nodes, cut short and reset;
\* one join through three faults; a database restored from a snapshot.
Cases ==
    {Setting(3, 1, {p1, p2}, {"n1"}, 4, 1, 0, 0), Setting(1, 2, {p1, p2}, {"n1", "n2"}, 2, 2, 1, 0),
     Setting(2, 1, {p1}, {"n1"}, 2, 3, 0, 0), Setting(3, 2, {p1}, {"n1"}, 3, 1, 1, 1)}
=============================================================================
