SPECIFICATION Spec
CONSTANTS
    ann = ann
    bob = bob
    k1 = k1
    k2 = k2
    None = None
    Names = {ann, bob}
    Keys = {k1, k2}
    Colons = {k1}
    Chapters = {12}
    HandLines <- MixedHandLines
    MaxCrashes = 1
    MaxEdits = 1
    MaxGrants = 3
    DiskMayFail = TRUE
INVARIANTS
    TypeOK
    OrderMatchesReaders
    EntriesMatchLevel
    MemoryMatchesFile
    RewriteKeepsOthers
    GrantProvenance
