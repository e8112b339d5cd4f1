SPECIFICATION Spec
CONSTANTS
    Lines = 4
    MaxQueue = 2
    Attempts = 2
    Overlap = FALSE
    MaxCrashes = 2
    Wanted <- SomeWanted
    DedupeKey <- SomeCopies
INVARIANT TypeOK
INVARIANT NoEventLost
INVARIANT QueueBounded
PROPERTY Delivered
CHECK_DEADLOCK FALSE
