SPECIFICATION MCFairSpec
CONSTANTS
    Topologies = {t1, t2, b}
    Bare = {b}
    None = None
    MaxFaults = 3
INVARIANTS
    Coherent
    Accounted
PROPERTIES
    RolledBackTruthful
    Heals
    Arrives
