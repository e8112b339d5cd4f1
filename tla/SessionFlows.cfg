SPECIFICATION Spec
CONSTANTS
    Threads = {t1}
    Jobs = {j1, j2}
    Users = {ana, eva}
    Visitors = {}
    Guest = guest
    Nobody = nobody
    Macs = {m1, m2}
    Ips = {i1, i2}
    Ports = {p1, p2}
    MaxAttempts = 1
    Outages = 0
    Faults = 1
    Restarts = TRUE
    MaxSessions = 2
    MaxFailures = 0
    Sweeps = 1
    t1 = t1
    j1 = j1
    j2 = j2
    m1 = m1
    m2 = m2
    i1 = i1
    i2 = i2
    p1 = p1
    p2 = p2
    Hosts <- OneHost
    Reach <- Anywhere
INVARIANT TypeOK
INVARIANT NoOrphanFlow
INVARIANT SessionsServed
SYMMETRY Symmetric
CHECK_DEADLOCK FALSE
