SPECIFICATION FairSpec
CONSTANTS
    reader = reader
    k1 = k1
    k2 = k2
    k3 = k3
    None = None
    NoFile = NoFile
    Garbled = Garbled
    Names = {reader}
    Keys <- MCKeys
    Answers <- MCAnswers
    Chapters = {1, 2}
    Faults = {"network", "rate", "drop", "write", "lose", "damage", "crash"}
    MaxFaults = 2
    MaxMoves = 2
INVARIANTS
    TypeOK
    MenuIsExact
    ReadableDecrypts
PROPERTY PublishedGetsReadable
