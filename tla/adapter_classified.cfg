SPECIFICATION Spec
CONSTANTS
    Topologies = {t1, t2, b}
    Bare = {b}
    None = None
    MaxFaults = 2
PROPERTY
    ClassifiedMeansIntact
