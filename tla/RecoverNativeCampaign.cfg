SPECIFICATION FairSpec
CONSTANTS
    Targets <- TwoTargets
    Origins = {o1}
    Eligibilities = {TRUE}
    MaxFaults = 2
    MaxTries = 3
    None = None
    Partial = Partial
PROPERTIES RecoveryCompletes
CHECK_DEADLOCK FALSE
