SPECIFICATION Spec
CONSTANTS
    Failing <- AnyFailing
    RemoteMoves = TRUE
    SizeLags = TRUE
    MaxFaults = 3
INVARIANTS
    TypeOK
    PlaintextNotCommitted
    TrackingIsHonest
PROPERTY ForeignHistoryKept
