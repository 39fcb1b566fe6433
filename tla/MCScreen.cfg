SPECIFICATION Spec
CONSTANTS
    None = None
    t1 = t1
    m1 = m1
    d1 = d1
    Gcc = "gcc"
    DefaultOpts = {"O2"}
    Plans <- MCPlans
    TimingOutcomes <- MCOutcomes
CHECK_DEADLOCK FALSE
INVARIANTS
    TypeOK
    ClearedMeansMeasured
    RiskNotHidden
    WorseNeverClears
    EvidenceIsConsistent
