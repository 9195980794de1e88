SPECIFICATION MCSpec
SYMMETRY Symmetry
CONSTANTS
    u1 = u1
    u2 = u2
    None = None
    Interval = 2
    MaxAge = 3
    SendTimeout = 1
INVARIANTS
    
    MinuteIsExact
    CountedOnce
    EveryLineAccounted
    LinesAccounted
    SamplesAreHonest
\* Lines, records and epochs of the instances are used up.
CHECK_DEADLOCK FALSE
