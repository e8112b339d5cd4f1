SPECIFICATION Spec
CONSTANTS
    Threads = {t1, t2}
    Ports = {p1}
    Alerts = {stress, flood}
    Targets = {host}
    Meters = {m1, m2, m3}
    Ttl = 1
    OnosFails = FALSE
    MaxTime = 1
    t1 = t1
    t2 = t2
    p1 = p1
    p2 = p2
    stress = stress
    flood = flood
    host = host
    port = port
INVARIANT TypeOK
INVARIANT NoDanglingFlow
INVARIANT DeletionIsOwn
SYMMETRY Symmetric
