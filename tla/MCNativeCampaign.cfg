SPECIFICATION Spec
CONSTANTS
    Targets <- TwoTargets
    Origins = {o1, o2}
    Eligibilities = {TRUE, FALSE}
    MaxFaults = 2
    MaxTries = 3
    None = None
    Partial = Partial
INVARIANTS
    TypeOK
    IndexBacked
    OneOrigin
    PromotionFromOneSession
    CompleteNeverRefused
    ExitZeroRevalidates
PROPERTIES
    SealedNeverRewritten
    KeepsLedger
CHECK_DEADLOCK FALSE
