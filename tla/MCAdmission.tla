------------------------------ MODULE MCAdmission ------------------------------
(***************************************************************************)
(* What the servers let in, for TLC: the agent's store with its quota      *)
(* (AgentStore), the portal's sessions and keys (PortalAccess) and its     *)
(* limit on failing peers (PeerLimiter).  The modules share no variable,   *)
(* so that a property of one holds of all together if it holds while the   *)
(* others rest: a behaviour moves one of them.                             *)
(***************************************************************************)
EXTENDS AgentStore, PeerLimiter, PortalAccess

CONSTANTS t1, t2, u1, u2, n1, n2, n3, p1, p2, s1, s2, k1

VARIABLE part   \* which of the three moves

allVars == <<part, vars, accessVars, limiterVars>>

-----------------------------------------------------------------------------
\* Objects of sizes 2, 1, 1 and 1, the third alone in its prefix directory.
Four == {1, 2, 3, 4}
SharedDir == [o \in Four |-> IF o = 3 THEN "ff" ELSE "00"]
Sizes == [o \in Four |-> IF o = 1 THEN 2 ELSE 1]

Setting(works, admissible, prepared, max, io, lists) ==
    [works |-> works, admissible |-> admissible, prepared |-> prepared, faults |-> max,
     io |-> io, lists |-> lists]

\* Two threads on the same objects and two faults; two threads with objects
\* of their own at the quota; a listing beside one thread; a new volume.
Cases ==
    {Setting([t \in {t1, t2} |-> {1, 2}], 2, TRUE, 2, TRUE, FALSE),
     Setting([t \in {t1, t2} |-> IF t = t1 THEN {1, 3} ELSE {2, 4}], 2, TRUE, 1, FALSE, FALSE),
     Setting([t \in {t1} |-> {1, 2, 3}], 4, TRUE, 1, FALSE, TRUE),
     Setting([t \in {t1} |-> {1, 2, 3}], 3, FALSE, 2, FALSE, FALSE)}
-----------------------------------------------------------------------------
Realm(us, portal, ss, ks, commands, idle, until, moving) ==
    [users |-> us, nodes |-> {n1, n2}, portal |-> portal, procs |-> IF moving = 0 THEN {p1, p2} ELSE {p1},
     sessions |-> ss, keys |-> ks, cli |-> commands, idle |-> idle, lifetime |-> idle + 1, touch |-> idle - 1,
     time |-> until, moves |-> moving]

\* Identity commands beside requests; cookies that age and are stolen, on
\* one connection after the other; two sessions of one user beside the making of a key.
SomeRealms ==
    {Realm({u1}, n3, {s1}, {k1}, {"disable", "create", "revoke"}, 2, 1, 0),
     Realm({u1, u2}, n2, {s1}, {}, {}, 3, 4, 1),
     Realm({u1}, n3, {s1, s2}, {k1}, {"create"}, 2, 0, 0)}

\* Two peers, and room for one bucket.
TwoPeers == {p1, p2}

ASSUME AdmissionAssumption == AccessAssumption /\ BurstAssumption

-----------------------------------------------------------------------------
AnyStore == Setting([t \in {t1} |-> {1, 2, 3}], 4, TRUE, 1, FALSE, TRUE)
AnyRealm == Realm({u1}, n3, {s1, s2}, {k1}, {"create"}, 2, 0, 0)

AdmissionInit ==
    /\ part \in {"store", "access", "limiter"}
    /\ Init /\ (part # "store" => setting = AnyStore)
    /\ AccessInit /\ (part # "access" => realm = AnyRealm /\ owner = [n \in {n1, n2} |-> u1]
                                          /\ req = [p \in {p1, p2} |-> Quiet(n1)])
    /\ LimiterInit

StoreMoves == part = "store" /\ Next /\ UNCHANGED <<part, accessVars, limiterVars>>
AccessMoves == part = "access" /\ AccessNext /\ UNCHANGED <<part, vars, limiterVars>>
LimiterMoves == part = "limiter" /\ LimiterNext /\ UNCHANGED <<part, vars, accessVars>>

AdmissionSpec == AdmissionInit /\ [][StoreMoves \/ AccessMoves \/ LimiterMoves]_allVars
=============================================================================
