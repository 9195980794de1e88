SPECIFICATION MCSpec
CONSTANTS
    Tags = {1, 2}
    Users = {1, 2}
    Configs <- Exchanging
    NoSlot <- WithoutSlot
    Lines = 3
    MaxFaults = 2
    a = a
    b = b
    c = c
    pa = pa
    pc = pc
INVARIANTS
    PublishedIsLive
    UndoRestores
    TrafficFollowsPublication
PROPERTIES
    MeetsAdapterContract
    LastGoodSurvives
