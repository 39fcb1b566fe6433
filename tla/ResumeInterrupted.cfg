SPECIFICATION Spec
CONSTANTS
    Targets <- TwoTargets
    Origins = {o1}
    Eligibilities = {TRUE}
    MaxFaults = 1
    MaxTries = 2
    None = None
    Partial = Partial
INVARIANTS InterruptedRunResumes
CHECK_DEADLOCK FALSE
