SPECIFICATION Spec
CONSTANTS
    Failing = {"push"}
    RemoteMoves = FALSE
    SizeLags = FALSE
    MaxFaults = 1
INVARIANT EncryptNeedsBootstrap
