SPECIFICATION FairSpec
CONSTANT
    None = None
PROPERTIES
    OperationsEnd
    Answered
    CommandsEnd
\* The bounds on publications, deliveries and revisions end a behaviour.
CHECK_DEADLOCK FALSE
