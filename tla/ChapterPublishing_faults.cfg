SPECIFICATION Spec
CONSTANTS
    ann = ann
    bob = bob
    eve = eve
    k1 = k1
    k2 = k2
    bad = bad
    None = None
    AccessTxt = AccessTxt
    Garbled = Garbled
    NoFile = NoFile
    Names = {ann, bob, eve}
    Colons = {eve}
    Keys = {k1, k2}
    GoodKeys = {k1, k2}
    Chapters = {1, 12}
    Offers <- MCTwoKeys
    Faults = {"add", "commit", "push", "write", "crash"}
    MaxFaults = 2
    MaxCommands = 2
    MaxEdits = 1
INVARIANTS
    NoUngrantedWrap
    NoHalfFilePublished
    WrappedReadersAreOnDisk
PROPERTY ImplementsPublishedFolder
