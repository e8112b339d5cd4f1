SPECIFICATION LoopSpec
CONSTANTS
    Events = {e1, e2}
    Persistence = "mysql"
    Enabled = {"TEMP_BLOCK", "BLOCK"}
    HistoryCap = 2
    MaxInFlight = 1
    MaxTime = 2
    Handlers = {t1}
    Nobody = nobody
    Failing <- OneHost
    e1 = e1
    e2 = e2
    h1 = h1
    Hosts <- OneHost
    HostOf <- OneHostOf
    Ttl <- ShortTtl
INVARIANT OneLivePerKind
INVARIANT BlockAgreed
CHECK_DEADLOCK FALSE
