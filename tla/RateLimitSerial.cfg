SPECIFICATION Spec
CONSTANTS
    Threads = {t1}
    Ports = {p1, p2}
    Alerts = {stress}
    Targets = {host, port}
    Meters = {m1, m2}
    Ttl = 1
    OnosFails = TRUE
    MaxTime = 2
    t1 = t1
    t2 = t2
    p1 = p1
    p2 = p2
    stress = stress
    flood = flood
    host = host
    port = port
INVARIANT ListedIsInForce
SYMMETRY Symmetric
