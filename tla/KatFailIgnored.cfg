SPECIFICATION Spec
CONSTANTS
    N = 2
    Manual = {1}
    Configs <- NoStages
    TimingOutcomes <- MCOutcomes
    None = None
INVARIANT KatFailGates
