SPECIFICATION FairSpec
CONSTANTS
    r1 = r1
    r2 = r2
    Nobody = Nobody
INVARIANTS
    OneGeneration
    ShutdownInOrder
    OneAtATime
PROPERTIES
    SessionsRecover
    StopCompletes
    RemoteWorkGoesOn
\* The loop ends after a stop, the process exits, and streams are used up.
CHECK_DEADLOCK FALSE
