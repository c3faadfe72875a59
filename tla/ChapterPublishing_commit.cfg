SPECIFICATION Spec
CONSTANTS
    ann = ann
    bob = bob
    eve = eve
    k1 = k1
    k2 = k2
    bad = bad
    None = None
    AccessTxt = AccessTxt
    Garbled = Garbled
    NoFile = NoFile
    Names = {ann, bob, eve}
    Colons = {}
    Keys = {k1, bad}
    GoodKeys = {k1}
    Chapters = {1, 12}
    Offers <- MCOffers
    Faults = {"commit"}
    MaxFaults = 1
    MaxCommands = 2
    MaxEdits = 0
INVARIANTS
    SuccessIsPublished
