SPECIFICATION FairSpec
CONSTANTS
    ann = ann
    bob = bob
    eve = eve
    k1 = k1
    k2 = k2
    bad = bad
    None = None
    AccessTxt = AccessTxt
    Garbled = Garbled
    NoFile = NoFile
    Names = {ann, bob, eve}
    Colons = {eve}
    Keys = {k1, bad}
    GoodKeys = {k1}
    Chapters = {1, 12}
    Offers <- MCOffers
    Faults = {"push"}
    MaxFaults = 2
    MaxCommands = 3
    MaxEdits = 0
INVARIANTS
    TypeOK
    WrapsFollowAccessFile
    WrappedReadersAreListed
    SuccessIsPublished
PROPERTY FailedPushIsMadeUp
