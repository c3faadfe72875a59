SPECIFICATION FairProcessSpec
CONSTANTS
    None = None
    PipeSize = 2
    BufferSize = 2
    MaxChunks = 3
    Faults = {"pipe", "process", "empty", "kill"}
INVARIANTS
    ProcessTypeOK
    OutputComplete
    NobodyCutOff
    NoHandleLeft
PROPERTY Returns
