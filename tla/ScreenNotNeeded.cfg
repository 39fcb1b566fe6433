SPECIFICATION Spec
CONSTANTS
    None = None
    t1 = t1
    m1 = m1
    d1 = d1
    Gcc = "gcc"
    DefaultOpts = {"O2"}
    Plans <- NotNeededPlans
    TimingOutcomes <- MCOutcomes
CHECK_DEADLOCK FALSE
INVARIANTS
    MeasuredIsReported
