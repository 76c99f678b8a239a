SPECIFICATION ServiceSpec
CONSTANTS
    r1 = r1 r2 = r2 r3 = r3 r4 = r4 alice = alice bob = bob a1 = a1 a2 = a2 discover = discover
    Requests <- FourRequests
    Principal <- TwoCallers
    ClientKey <- OneKey
    Owner <- AllAlice
    Content <- SameContent
    Addr <- TwoAddresses
    MaxPerAddress = 2
    MaxUploads = 2
    MaxDownloads = 1
    QueueLen = 1
    MaxCrashes = 1
    MaxAuditFailures = 1
    Settings <- QueueCases
INVARIANTS RequestsKept RecordedOwn CertificateKept
PROPERTIES Answered ServesOwnAddress
CHECK_DEADLOCK FALSE
