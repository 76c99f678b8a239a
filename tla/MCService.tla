------------------------------- MODULE MCService -------------------------------
(***************************************************************************)
(* `portal serve` for TLC: the way of a request (PortalQueue), the address *)
(* it is served on (TailnetBind) and the certificate it is served with     *)
(* (CertificateUpkeep, CertificateTime).  The modules share no variable,   *)
(* so that a property of one holds of all together if it holds while the   *)
(* others rest: a behaviour moves one of them.                             *)
(***************************************************************************)
EXTENDS PortalQueue

CONSTANTS r1, r2, r3, r4, alice, bob, a1, a2, discover

VARIABLES
    part,   \* which of them moves
    node, running, certificates, listener, chosen, exit, changes, dropouts, configured, \* TailnetBind
    now, portal, offered, current, wakeAt, deadline, retry, due, downFor, outages, since, \* CertificateUpkeep
    date, days                                                                            \* CertificateTime

bindVars == <<node, running, certificates, listener, chosen, exit, changes, dropouts, configured>>
upkeepVars == <<now, portal, offered, current, wakeAt, deadline, retry, due, downFor, outages, since>>
dateVars == <<date, days>>
allVars == <<part, vars, bindVars, upkeepVars, dateVars>>

-----------------------------------------------------------------------------
\* Four requests under one client key: of two callers from two addresses.
FourRequests == {r1, r2, r3, r4}
TwoCallers == [r \in FourRequests |-> IF r = r3 THEN bob ELSE alice]
OneKey == [r \in FourRequests |-> "key"]
SameContent == [r \in FourRequests |-> "body"]
TwoAddresses == [r \in FourRequests |-> IF r = r1 THEN "here" ELSE "there"]
AllAlice == [r \in FourRequests |-> alice]

\* An upload of alice's, its retry, a download of it and a delete by bob.
Mixed == [r \in FourRequests |-> IF r \in {r1, r4} THEN "upload"
                                 ELSE IF r = r2 THEN "download" ELSE "delete"]
Three == [r \in {r1, r2, r3} |-> Mixed[r]]
Uploads == [r \in {r1, r2, r3} |-> "upload"]

AnyCase == [kind |-> Three, hangups |-> {"upload", "download", "delete"}, connections |-> 2]

QueueCases ==
    {[kind |-> Mixed, hangups |-> {"upload", "delete"}, connections |-> 3],
     [kind |-> Uploads, hangups |-> {"upload"}, connections |-> 3],
     AnyCase}

-----------------------------------------------------------------------------
\* An address that is configured, or the node's own.
Bind == INSTANCE TailnetBind WITH
    Addresses <- {a1, a2}, Discover <- discover, Wanted <- {a1, discover}, MaxChanges <- 3, MaxOutages <- 3,
    portal <- listener, outages <- dropouts

\* One outage that is short against a third of a lifetime; two of any length.
Short == INSTANCE CertificateUpkeep WITH
    Life <- 15, RenewAhead <- 5, RetryMin <- 1, RetryMax <- 2, Refresh <- 4, Wait <- 3,
    MaxOutage <- 1, MaxOutages <- 1, MaxTime <- 40
Long == INSTANCE CertificateUpkeep WITH
    Life <- 15, RenewAhead <- 4, RetryMin <- 1, RetryMax <- 3, Refresh <- 5, Wait <- 3,
    MaxOutage <- 14, MaxOutages <- 2, MaxTime <- 32

\* Beyond 2000, 2050 and 2100.
Calendar == INSTANCE CertificateTime WITH LastYear <- 2110

ASSUME ServiceAssumption ==
    /\ Bind!AddressesAssumption /\ Calendar!LastYearAssumption
    /\ Short!PolicyAssumption /\ Long!PolicyAssumption

-----------------------------------------------------------------------------
ServiceInit ==
    /\ part \in {"queue", "bind", "short", "long", "calendar"}
    /\ Init /\ (part # "queue" => setting = AnyCase)
    /\ Bind!Init /\ (part # "bind" => node = a2 /\ running /\ certificates /\ configured = a1)
    /\ Short!Init
    /\ Calendar!Init

QueueOnly(A) == part = "queue" /\ UNCHANGED <<part, setting, bindVars, upkeepVars, dateVars>> /\ A
BindOnly(A) == part = "bind" /\ UNCHANGED <<part, vars, configured, upkeepVars, dateVars>> /\ A
UpkeepMoves ==
    /\ (part = "short" /\ Short!Next) \/ (part = "long" /\ Long!Next)
    /\ UNCHANGED <<part, vars, bindVars, dateVars>>
CalendarMoves == part = "calendar" /\ Calendar!NextDay /\ UNCHANGED <<part, vars, bindVars, upkeepVars>>

\* With the fairness of FairSpec in PortalQueue and TailnetBind.
ServiceSpec ==
    /\ ServiceInit /\ [][QueueOnly(Next) \/ BindOnly(Bind!Next) \/ UpkeepMoves \/ CalendarMoves]_allVars
    /\ WF_allVars(QueueOnly(Work))
    /\ \A r \in Requests : WF_allVars(QueueOnly(r \in Reqs /\ Progress(r)))
    /\ \A step \in Bind!Steps : WF_allVars(BindOnly(Bind!Step(step)))

\* The portal serves on while its address stays, and comes to serve on the
\* node's own address (resolve_bind, address_lost).
ServesOwnAddress == Bind!ServesSteadily /\ Bind!ServesOwnAddress

\* A renewed certificate is installed in time, a portal that serves has a valid
\* one when outages are short, and every date is read as the day it is (maintain,
\* der_time, days_from_civil).
CertificateKept ==
    /\ part = "short" => Short!UpkeepTimely /\ Short!NoLapse
    /\ part = "long" => Long!UpkeepTimely
    /\ Calendar!DateExact
=============================================================================
