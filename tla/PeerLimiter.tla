---------------------------- MODULE PeerLimiter -----------------------------
(***************************************************************************)
(* The portal's rate limiters (crates/distr-hnsw/src/portal_server.rs,     *)
(* RateLimiter): token buckets per peer, one limiter for audit records of  *)
(* refusals and one for sign-ins.  Buckets that have refilled and owe no   *)
(* count are forgotten when there are too many.  A token comes back per    *)
(* unit of time.                                                           *)
(*                                                                         *)
(* admit reads the clock and takes its lock in one step; in the code       *)
(* another thread may come in between, and the time between the two clock  *)
(* readings is then refilled twice.                                        *)
(***************************************************************************)
EXTENDS Integers, Sequences, FiniteSets

CONSTANTS
    Peers,
    AuditBurst, SignInBurst,
    MaxBuckets,         \* buckets kept without a look at what can be forgotten
    MaxClock,           \* bound on the clock
    MaxAttempts,        \* bound on the attempts of one peer
    MaxFailures         \* bound on audit writes that fail

BurstAssumption ==
    /\ AuditBurst \in Nat \ {0} /\ SignInBurst \in Nat \ {0} /\ MaxBuckets \in Nat
    /\ MaxClock \in Nat /\ MaxAttempts \in Nat /\ MaxFailures \in Nat

VARIABLES
    now,
    audit,          \* the audit limiter: a bucket for each peer it knows
    signIn,         \* the sign-in limiter
    attempts,       \* refusals and observations about each peer
    written,        \* of those, the ones in the audit log
    noted,          \* and the ones counted by the note of a record in the log
    lost,           \* the ones in, or counted by, a record whose write failed
    recordedAt, signedAt,   \* when each peer's records were admitted, and its sign-ins
    failures

limiterVars == <<now, audit, signIn, attempts, written, noted, lost, recordedAt, signedAt, failures>>

Zero == [p \in Peers |-> 0]

NoBuckets == [p \in {} |-> 0]

LimiterInit ==
    /\ now = 0
    /\ audit = NoBuckets /\ signIn = NoBuckets
    /\ attempts = Zero /\ written = Zero /\ noted = Zero /\ lost = Zero
    /\ recordedAt = [p \in Peers |-> << >>] /\ signedAt = [p \in Peers |-> << >>]
    /\ failures = 0

Least(a, b) == IF a < b THEN a ELSE b

\* Mutant: a peer that owes no count is forgotten, its bucket full or not.
KeptIfOwing(limiter, burst) == {p \in DOMAIN limiter : limiter[p].suppressed > 0}

\* The buckets kept when there are too many: those that owe a count or have not refilled.
Kept(limiter, burst) ==
    {p \in DOMAIN limiter : \/ limiter[p].suppressed > 0
                            \/ limiter[p].tokens + (now - limiter[p].updated) < burst}

Retained(limiter, burst) ==
    IF Cardinality(DOMAIN limiter) > MaxBuckets
    THEN [p \in Kept(limiter, burst) |-> limiter[p]] ELSE limiter

Refilled(bucket, burst) == Least(bucket.tokens + (now - bucket.updated), burst)

\* RateLimiter::admit: whether there was a token, how many attempts were
\* refused before it, and the limiter afterwards.
Admit(limiter, burst, p) ==
    LET kept == Retained(limiter, burst)
        old == IF p \in DOMAIN kept THEN kept[p]
               ELSE [tokens |-> burst, updated |-> now, suppressed |-> 0]
        tokens == Refilled(old, burst)
        new == IF tokens >= 1
               THEN [tokens |-> tokens - 1, updated |-> now, suppressed |-> 0]
               ELSE [tokens |-> tokens, updated |-> now, suppressed |-> old.suppressed + 1]
    IN  [ok |-> tokens >= 1, owed |-> old.suppressed,
         limiter |-> [q \in DOMAIN kept \cup {p} |-> IF q = p THEN new ELSE kept[q]]]

Plus(count, p, n) == [count EXCEPT ![p] = @ + n]

\* record_limited: suppressed, written with its note, or lost with it.
RecordLimited(p) ==
    LET a == Admit(audit, AuditBurst, p)
    IN  /\ attempts[p] < MaxAttempts
        /\ attempts' = Plus(attempts, p, 1)
        /\ audit' = a.limiter
        /\ recordedAt' = IF a.ok THEN [recordedAt EXCEPT ![p] = Append(@, now)] ELSE recordedAt
        /\ \/ /\ ~a.ok
              /\ UNCHANGED <<written, noted, lost, failures>>
           \/ /\ a.ok
              /\ written' = Plus(written, p, 1) /\ noted' = Plus(noted, p, a.owed)
              /\ UNCHANGED <<lost, failures>>
           \/ /\ a.ok /\ failures < MaxFailures
              /\ failures' = failures + 1
              /\ lost' = Plus(lost, p, 1 + a.owed)
              /\ UNCHANGED <<written, noted>>

\* A refusal or an observation about a peer.
Refuse(p) ==
    /\ RecordLimited(p)
    /\ UNCHANGED <<now, signIn, signedAt>>

\* login: the sign-in limiter first; a refusal is recorded.
SignIn(p) ==
    LET s == Admit(signIn, SignInBurst, p)
    IN  /\ Len(signedAt[p]) < MaxAttempts
        /\ signIn' = s.limiter
        /\ UNCHANGED now
        /\ \/ /\ s.ok
              /\ signedAt' = [signedAt EXCEPT ![p] = Append(@, now)]
              /\ UNCHANGED <<audit, attempts, written, noted, lost, recordedAt, failures>>
           \/ /\ ~s.ok
              /\ RecordLimited(p)
              /\ UNCHANGED signedAt

Tick ==
    /\ now < MaxClock
    /\ now' = now + 1
    /\ UNCHANGED <<audit, signIn, attempts, written, noted, lost, recordedAt, signedAt, failures>>

LimiterNext == Tick \/ \E p \in Peers : Refuse(p) \/ SignIn(p)

LimiterSpec == LimiterInit /\ [][LimiterNext]_limiterVars

-----------------------------------------------------------------------------
\* A bucket is looked at only when a token is taken or there is none.
Buckets(burst) == [tokens : 0..(burst - 1), updated : 0..MaxClock, suppressed : 0..(2 * MaxAttempts)]

LimiterTyped ==
    /\ DOMAIN audit \subseteq Peers /\ \A p \in DOMAIN audit : audit[p] \in Buckets(AuditBurst)
    /\ DOMAIN signIn \subseteq Peers /\ \A p \in DOMAIN signIn : signIn[p] \in Buckets(SignInBurst)

WithinRate(times, burst) ==
    \A i, j \in 1..Len(times) : i <= j => j - i + 1 <= burst + (times[j] - times[i])

\* Over any span of time a peer gets no more records and no more sign-ins
\* than the burst and one for each unit of the span, although buckets are
\* forgotten and made again.
RateKept ==
    \A p \in Peers : WithinRate(recordedAt[p], AuditBurst) /\ WithinRate(signedAt[p], SignInBurst)

\* Every attempt is in the log, counted by a note in it, owed to the peer's
\* next record, or went with a record whose write failed.
NothingForgotten ==
    \A p \in Peers :
        attempts[p] = written[p] + noted[p] + lost[p]
                          + (IF p \in DOMAIN audit THEN audit[p].suppressed ELSE 0)

\* The limiter limits and forgets nothing (RateLimiter::admit, record_limited).
LimitsKept == LimiterTyped /\ RateKept /\ NothingForgotten
================================================================================
