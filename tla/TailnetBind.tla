---------------------------- MODULE TailnetBind -----------------------------
(***************************************************************************)
(* How the portal comes to listen on its node's tailnet address, and what  *)
(* happens when the address changes: serve_portal in crates/distr-         *)
(* hnsw/src/portal_server.rs with resolve_bind, wait_until_running and     *)
(* address_lost in tailscale.rs.  tailscaled, the network interface and    *)
(* the supervisor are external.  A wait may reach its deadline at any      *)
(* time.                                                                   *)
(*                                                                         *)
(* A loopback or wildcard address is decided without the node and is left  *)
(* out, as is a node without an IPv4 address, for which the search for its *)
(* own address fails until it has one.                                     *)
(***************************************************************************)
EXTENDS Naturals, FiniteSets

CONSTANTS
    Addresses,          \* the tailnet addresses the node may be given
    Discover,           \* no address: the node's own is to be found
    Wanted,             \* what may be configured: addresses and Discover
    MaxChanges,         \* bound on address changes
    MaxOutages          \* bound on outages of tailscaled and of its certificates

\* The constants have their types.
AddressesAssumption ==
    /\ IsFiniteSet(Addresses) /\ Addresses # {}
    /\ Discover \notin Addresses
    /\ Wanted \subseteq Addresses \cup {Discover}

VARIABLES
    node,           \* the address the node has
    running,        \* tailscaled answers and is logged in
    certificates,   \* LocalAPI has a certificate to give
    portal,         \* "down", "resolving", "asking", "obtaining" or "serving"
    chosen,         \* what resolve_bind returned, or the address bound
    exit,           \* exit status of the last process: 0 none, 1 an error, 75 address changed
    changes, outages,
    configured      \* the address asked for, or Discover

vars == <<node, running, certificates, portal, chosen, exit, changes, outages, configured>>

env == <<node, running, certificates, changes, outages>>

Init ==
    /\ node \in Addresses
    /\ running \in BOOLEAN /\ certificates \in BOOLEAN
    /\ portal = "down" /\ chosen = Discover /\ exit = 0
    /\ changes = 0 /\ outages = 0
    /\ configured \in Wanted

-----------------------------------------------------------------------------
\* External: the supervisor restarts a process that has ended.
Restart ==
    /\ portal = "down"
    /\ portal' = "resolving" /\ chosen' = Discover
    /\ UNCHANGED <<env, exit>>

Ended(status) == portal' = "down" /\ chosen' = Discover /\ exit' = status

\* The address to bind: the node's own, found or confirmed.
Chosen == node

\* wait_until_running asks, and asks again until its deadline; resolve_bind
\* then takes the node's address or checks the one configured.
Resolve ==
    /\ portal = "resolving"
    /\ UNCHANGED env
    /\ \/ /\ running /\ configured \in {Discover, node}
          /\ portal' = "asking" /\ chosen' = Chosen
          /\ UNCHANGED exit
       \/ /\ running /\ configured \notin {Discover, node}
          /\ Ended(1)
       \/ /\ ~running
          /\ Ended(1)

\* The second status, for the certificate's domain.
AskDomain ==
    /\ portal = "asking"
    /\ UNCHANGED env
    /\ IF running THEN portal' = "obtaining" /\ UNCHANGED <<chosen, exit>> ELSE Ended(1)

\* External: the kernel binds only to an address the interface has.
Binds == chosen = node

\* obtain has a certificate, or has waited long enough; then the listener is
\* bound to the address resolved before.
Obtain ==
    /\ portal = "obtaining"
    /\ UNCHANGED env
    /\ \/ /\ running /\ certificates /\ Binds
          /\ portal' = "serving"
          /\ UNCHANGED <<chosen, exit>>
       \/ /\ running /\ certificates /\ ~Binds
          /\ Ended(1)
       \/ /\ ~(running /\ certificates)
          /\ Ended(1)

\* Mutant: nobody watches the address.
LostNever == FALSE

\* address_lost: a running node that reports other addresses.
Lost == running /\ node # chosen

Watch ==
    /\ portal = "serving" /\ Lost
    /\ Ended(75)
    /\ UNCHANGED env

-----------------------------------------------------------------------------
\* External: the node gets another address.
Readdress(a) ==
    /\ changes < MaxChanges /\ a # node
    /\ node' = a /\ changes' = changes + 1
    /\ UNCHANGED <<running, certificates, portal, chosen, exit, outages>>

\* External: tailscaled or its certificates go away, and come back.
StopRunning ==
    /\ running /\ outages < MaxOutages
    /\ running' = FALSE /\ outages' = outages + 1
    /\ UNCHANGED <<node, certificates, portal, chosen, exit, changes>>

Run ==
    /\ ~running
    /\ running' = TRUE
    /\ UNCHANGED <<node, certificates, portal, chosen, exit, changes, outages>>

StopCertificates ==
    /\ certificates /\ outages < MaxOutages
    /\ certificates' = FALSE /\ outages' = outages + 1
    /\ UNCHANGED <<node, running, portal, chosen, exit, changes>>

IssueCertificates ==
    /\ ~certificates
    /\ certificates' = TRUE
    /\ UNCHANGED <<node, running, portal, chosen, exit, changes, outages>>

Portal == Resolve \/ AskDomain \/ Obtain \/ Watch

Environment ==
    \/ \E a \in Addresses : Readdress(a)
    \/ StopRunning \/ Run \/ StopCertificates \/ IssueCertificates

Activity == Restart \/ Portal \/ Environment

Next == UNCHANGED configured /\ Activity

Spec == Init /\ [][Next]_vars

Steps == {"restart", "resolve", "domain", "obtain", "watch", "run", "issue"}

\* The steps that are taken in the end.
Step(step) ==
    \/ step = "restart" /\ Restart
    \/ step = "resolve" /\ Resolve
    \/ step = "domain" /\ AskDomain
    \/ step = "obtain" /\ Obtain
    \/ step = "watch" /\ Watch
    \/ step = "run" /\ Run
    \/ step = "issue" /\ IssueCertificates

\* The portal's task runs, the supervisor restarts it, and outages end.
FairSpec ==
    /\ Spec
    /\ \A step \in Steps : WF_vars(UNCHANGED configured /\ Step(step))

-----------------------------------------------------------------------------
\* A portal that has resolved its address knows one; 75 is the exit status of
\* a changed address (serve_portal).
TypeOK ==
    /\ node \in Addresses
    /\ portal \in {"down", "resolving", "asking", "obtaining", "serving"}
    /\ chosen \in Addresses \cup {Discover}
    /\ portal \in {"asking", "obtaining", "serving"} => chosen # Discover
    /\ exit \in {0, 1, 75} /\ configured \in Wanted

\* A portal that serves stays up while its address stays: a tailscaled that
\* restarts, or a certificate that cannot be had, ends no process.
ServesThrough == [][portal = "serving" /\ chosen = node => portal' = "serving"]_vars

\* From some time on the portal serves on the node's address, unless another
\* one is configured: an address taken before a wait and bound after it is
\* found out in the end.
ServesOwnAddress == <>[](configured \in {Discover, node} => portal = "serving" /\ chosen = node)

\* A portal that serves knows its address and goes on while it stays
\* (serve_portal, address_lost).
ServesSteadily == []TypeOK /\ ServesThrough
================================================================================
