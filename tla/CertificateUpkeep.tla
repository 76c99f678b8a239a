--------------------------- MODULE CertificateUpkeep ---------------------------
(***************************************************************************)
(* How the portal keeps a certificate (crates/distr-hnsw/src/tls.rs):       *)
(* obtain at start-up, then maintain, which sleeps, fetches and installs.    *)
(* tailscaled is external: it answers or not, and renews on its own before  *)
(* its certificate runs out.  Time is discrete and a fetch takes none; a    *)
(* sleep ends when it is due.                                               *)
(***************************************************************************)
EXTENDS Integers

CONSTANTS
    Life,               \* lifetime of a certificate
    RenewAhead,         \* tailscaled has renewed by the time this much is left
    RetryMin, RetryMax, Refresh,    \* RenewalPolicy
    Wait,               \* how long start-up waits for a certificate
    MaxOutage,          \* longest time tailscaled does not answer
    MaxOutages,         \* bound on the outages
    MaxTime             \* bound on the clock

\* The lifetimes and the policy fit together.
PolicyAssumption ==
    /\ 0 < RetryMin /\ RetryMin <= RetryMax /\ 0 < Refresh
    /\ 0 < RenewAhead /\ RenewAhead < Life

VARIABLES
    now,
    portal,         \* "down", "starting" or "serving"
    offered,        \* the certificate tailscaled would answer with
    current,        \* the certificate in the store, None at first
    wakeAt,         \* end of the sleep
    deadline,       \* when start-up gives up
    retry,          \* the next retry delay
    due,            \* computed before the sleep, used after it
    downFor,        \* how long tailscaled has not answered, 0 if it does
    outages,
    since           \* from when on a fetch would have brought a new certificate

vars == <<now, portal, offered, current, wakeAt, deadline, retry, due, downFor, outages, since>>

Least(a, b) == IF a < b THEN a ELSE b

None == [nb |-> 0, na |-> 0]
Issued(t) == [nb |-> t, na |-> t + Life]

RenewAt(c) == c.nb + ((c.na - c.nb) * 2) \div 3

ValidAt(c, t) == c.nb <= t /\ t < c.na

\* A certificate is known by its validity here: two of them differ in it.
Replaces(fetched, cur, t) ==
    \/ cur = None
    \/ ~ValidAt(cur, t)
    \/ fetched # cur /\ fetched.na >= cur.na

Answers == downFor = 0

\* fetch: LocalAPI answers with a certificate that is valid now.
Fetched == Answers /\ ValidAt(offered, now)

Init ==
    /\ now = 0
    /\ portal = "down"
    /\ offered = Issued(0) /\ current = None
    /\ wakeAt = 0 /\ deadline = 0
    /\ retry = RetryMin /\ due = FALSE
    /\ downFor = 0 /\ outages = 0
    /\ since = 0

-----------------------------------------------------------------------------
BackedOff(r) == Least(2 * r, RetryMax)

\* Mutant: every sleep is as long as one with a fresh certificate may be.
SleepRefresh(c, r) ==
    /\ due' = (RenewAt(c) <= now)
    /\ wakeAt' = now + Refresh

\* The top of maintain's loop: is the certificate due, and how long to sleep.
Sleep(c, r) ==
    /\ due' = (RenewAt(c) <= now)
    /\ wakeAt' = now + (IF RenewAt(c) <= now THEN r ELSE Least(RenewAt(c) - now, Refresh))

\* The supervisor starts the portal.
Restart ==
    /\ portal = "down"
    /\ portal' = "starting"
    /\ wakeAt' = now /\ deadline' = now + Wait /\ retry' = RetryMin
    /\ UNCHANGED <<now, offered, current, due, downFor, outages>>

\* obtain: a certificate, another try later, or the end of the process.
Obtain ==
    /\ portal = "starting" /\ now = wakeAt
    /\ UNCHANGED <<now, offered, deadline, downFor, outages>>
    /\ \/ /\ Fetched
          /\ portal' = "serving" /\ current' = offered /\ retry' = RetryMin
          /\ Sleep(offered, RetryMin)
       \/ /\ ~Fetched /\ now < deadline
          /\ wakeAt' = now + Least(retry, deadline - now)
          /\ retry' = BackedOff(retry)
          /\ UNCHANGED <<portal, current, due>>
       \/ /\ ~Fetched /\ now >= deadline
          /\ portal' = "down"
          /\ UNCHANGED <<current, wakeAt, retry, due>>

\* One turn of maintain: the fetch after the sleep, and the next sleep.
Maintain ==
    LET takes == Fetched /\ Replaces(offered, current, now)
        expired == ~ValidAt(current, now)
        behind == IF Fetched THEN due ELSE due \/ expired
        r == IF takes THEN RetryMin ELSE IF behind THEN BackedOff(retry) ELSE retry
        c == IF takes THEN offered ELSE current
    IN  /\ portal = "serving" /\ now = wakeAt
        /\ current' = c /\ retry' = r
        /\ Sleep(c, r)
        /\ UNCHANGED <<now, portal, offered, deadline, downFor, outages>>

\* External: tailscaled renews the certificate.
Renew ==
    /\ Answers /\ offered.nb < now
    /\ offered' = Issued(now)
    /\ UNCHANGED <<now, portal, current, wakeAt, deadline, retry, due, downFor, outages>>

\* External: tailscaled stops answering, and answers again.
Fail ==
    /\ Answers /\ outages < MaxOutages
    /\ downFor' = 1 /\ outages' = outages + 1
    /\ UNCHANGED <<now, portal, offered, current, wakeAt, deadline, retry, due>>

Return ==
    /\ ~Answers
    /\ downFor' = 0
    /\ UNCHANGED <<now, portal, offered, current, wakeAt, deadline, retry, due, outages>>

\* Time passes when nothing is due: no sleep has ended, tailscaled has
\* renewed in time, and no outage is too long.
Tick ==
    /\ now < MaxTime
    /\ portal # "down" /\ now < wakeAt
    /\ Answers => offered.na - now > RenewAhead
    /\ downFor < MaxOutage + 1
    /\ now' = now + 1
    /\ downFor' = IF Answers THEN 0 ELSE downFor + 1
    /\ UNCHANGED <<portal, offered, current, wakeAt, deadline, retry, due, outages>>

\* A fetch would bring a certificate to install.
Fresh == portal = "serving" /\ Fetched /\ Replaces(offered, current, now)

Next ==
    /\ Restart \/ Obtain \/ Maintain \/ Renew \/ Fail \/ Return \/ Tick
    /\ since' = IF Fresh /\ Fresh' THEN since ELSE now'

Spec == Init /\ [][Next]_vars

-----------------------------------------------------------------------------
\* A sleep ends in the future and its length is within the policy; a portal
\* that serves has a certificate (maintain).
TypeOK ==
    /\ now \in 0..MaxTime
    /\ portal \in {"down", "starting", "serving"}
    /\ retry \in RetryMin..RetryMax
    /\ portal # "down" => wakeAt >= now
    /\ portal = "serving" => current # None

\* A new certificate is installed within Refresh of its being offered, and
\* within RetryMax when the current one was due by then: the delay before the
\* next fetch is never longer, whatever failed before.
PickedUp ==
    Fresh => now - since <= (IF RenewAt(current) <= since THEN RetryMax ELSE Refresh)

\* While tailscaled renews ahead and its outages are short against the last
\* third of a lifetime, the portal always has a valid certificate to serve.
NoLapse == portal = "serving" => ValidAt(current, now)

\* What is offered is installed in time, whatever failed before (maintain).
UpkeepTimely == TypeOK /\ PickedUp
================================================================================
