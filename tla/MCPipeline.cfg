SPECIFICATION Spec
CONSTANTS
    N = 2
    Manual = {1}
    Configs <- MCConfigs
    TimingOutcomes <- MCOutcomes
    None = None
INVARIANTS
    TypeOK
    CleanRowsAreBacked
    ExitZeroIsAllClean
    GatesAgree
    MatrixIsTotal
    VerdictComesLast
