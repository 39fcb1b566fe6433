SPECIFICATION Spec
CONSTANTS
    None = None
    t1 = t1
    m1 = m1
    d1 = d1
    Gcc = "gcc"
    DefaultOpts = {"O2"}
    Plans <- ClangPlans
    TimingOutcomes <- MCOutcomes
CHECK_DEADLOCK FALSE
INVARIANTS
    PrimaryIsRedundant
