SPECIFICATION MCSpec
CONSTANTS
    k1 = k1
    k2 = k2
    NoKey = NoKey
    None = None
    LaneNames = {"regular"}
    Sessions = {1, 2, 3}
    Deliveries <- Resent
    Keys = {k1, k2}
    QueueCapacity = 1
    AckCapacity = 1
    Capacity = 1
INVARIANTS
    AppliedStays
    OneMembership
    DigestIsContent
PROPERTY
    Idempotent
