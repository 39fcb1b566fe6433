SPECIFICATION Spec
CONSTANTS
    Plans <- AllPlans
    Traces <- AllTraces
    Asked = 100
    Own = "own"
    Theirs <- OtherBuilds
    MaxOdd = 1
    None = None
INVARIANTS
    TypeOK
    MeasuredWhatWasSealed
    ValidIsControlled
    CorruptionIsError
    FailedRepeatNeverClears
CHECK_DEADLOCK FALSE
