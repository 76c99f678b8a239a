SPECIFICATION AdmissionSpec
CONSTANTS
    t1 = t1 t2 = t2 u1 = u1 u2 = u2 n1 = n1 n2 = n2 n3 = n3 p1 = p1 p2 = p2 s1 = s1 s2 = s2 k1 = k1
    Objects <- Four
    DirOf <- SharedDir
    Size <- Sizes
    Page = 1
    Peers <- TwoPeers
    AuditBurst = 1
    SignInBurst = 2
    MaxBuckets = 1
    MaxClock = 2
    MaxAttempts = 3
    MaxFailures = 1
    Settings <- Cases
    Realms <- SomeRealms
    Retention = 1
    KeyLifetime = 1
INVARIANTS AckedDurable StoreAccounted ChangesAudited LimitsKept
PROPERTIES IdentityStable AccessRefused
CHECK_DEADLOCK FALSE
