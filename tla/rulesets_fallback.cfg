SPECIFICATION Spec
CONSTANTS
    Remote = {a}
    Local = {}
    PathOf <- OwnPaths
    MaxVersion = 2
    Faults = 2
    Platforms = {FALSE}
PROPERTY
    FallBackKeepsLive
