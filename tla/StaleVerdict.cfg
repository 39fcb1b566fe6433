SPECIFICATION Spec
CONSTANTS
    N = 2
    Manual = {1}
    Configs <- OneEach
    TimingOutcomes <- MCOutcomes
    None = None
INVARIANT ErrorReachesTheCsv
