SPECIFICATION LoginSpec
CONSTANTS
    Threads = {t1, t2}
    Users = {ana}
    Visitors = {bob}
    Guest = guest
    Macs = {m1, m2}
    Ips = {i1, i2}
    Ports = {p1, p2}
    MaxAttempts = 2
    Outages = 1
    MaxSessions = 2
    MaxFailures = 2
    t1 = t1
    t2 = t2
    m1 = m1
    m2 = m2
    i1 = i1
    i2 = i2
    p1 = p1
    p2 = p2
    Hosts <- AddressMoves
    Reach <- Shared
INVARIANT LoginTypeOK
INVARIANT DuplicatesExplained
INVARIANT BindingsAgree
INVARIANT LockedInTime
INVARIANT CredentialsUsed
PROPERTY TakeoverExplained
SYMMETRY Symmetric
CHECK_DEADLOCK FALSE
