SPECIFICATION Spec
CONSTANTS
    ann = ann
    bob = bob
    k1 = k1
    k2 = k2
    None = None
    Names = {ann, bob}
    Keys = {k1, k2}
    Colons = {}
    Chapters = {3}
    HandLines <- NoLines
    MaxCrashes = 0
    MaxEdits = 0
    MaxGrants = 12
    DiskMayFail = FALSE
PROPERTY ImplementsDirectory
