SPECIFICATION FairSpec
CONSTANTS
    Events = {e1, e2, e3}
    Persistence = "memory"
    Enabled = {"MIRROR", "TEMP_BLOCK"}
    HistoryCap = 2
    MaxInFlight = 2
    MaxTime = 3
    e1 = e1
    e2 = e2
    e3 = e3
    h1 = h1
    Hosts <- OneHost
    HostOf <- OneHostOf
    Ttl <- ShortTtl
INVARIANT TypeOK
INVARIANT StateBacked
INVARIANT ExpiredIsLifted
INVARIANT MitigatingExplained
PROPERTY LiftIsFinal
PROPERTY ActiveMeansRunning
PROPERTY MitigatingEnds
CHECK_DEADLOCK FALSE
