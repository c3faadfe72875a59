SPECIFICATION Spec
CONSTANTS
    Failing = {}
    RemoteMoves = FALSE
    SizeLags = FALSE
    MaxFaults = 0
INVARIANT PushedFolderTracks
