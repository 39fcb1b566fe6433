SPECIFICATION Spec
CONSTANTS
    Rates <- MCRates
    MaxIn = 9
    MaxOut = 9
    Suffix = Suffix
    Final = Final
    SignParams <- MCSignParams
    Word <- MCWord
    Irrelevant = 9
    SampleKinds <- MCSampleKinds
    SampleSize = 3
    MaxBlocks = 4
    ChallengeSize = 7
    Tau = 4
    ChallengeRate = 4
    SignBytes = 2
    MaxBytes = 10
    HintRows = 3
    RowSize = 5
    Omega = 3
    KyberInputs <- MCKyberInputs
    MldsaInputs <- MCMldsaInputs
    Discard = 1
    Enough = 2
    Which <- MCWhich
    Cycles <- MCCycles
    Calibrations <- MCCalibrations
    MaxRows = 9
    Scores <- MCScores
    NaN = NaN
INVARIANTS
    TypeOK
    ChunksDoNotMatter
    NoncesNeverReused
    SuccessIsOneAttempt
    FailureLeavesNothing
    FirstAcceptedWin
    EverySignStands
    BytesReadOnce
    PackedDecodes
    AcceptedIsCanonical
    PatchKeepsTheValue
    ExpandedIsNear
    HintRecovers
    StatusMatchesTests
PROPERTIES
    Terminates
CHECK_DEADLOCK FALSE
