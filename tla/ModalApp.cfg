SPECIFICATION Spec
CONSTANTS
    Callers = {"r1", "r2"}
    Streaming <- StreamingCallers
    MaxTokens = 3
    MaxPieces = 3
    NumCells = 2
    Concurrency = 2
    WarmupMinimum = 1
    WarmupMaximum = 2
    NumPairs = 2
    Gpus = {g1, g2}
    MaxInvocations = 2
    Cells <- MCCells
    Load <- MCLoad
    TopK = 2
    Comparisons <- MCComparisons
    MaxSplits = 2
    AuditSize = 3
    AuditTarget = 2
    TargetOutputs <- MCTargetOutputs
    OtherOutputs <- MCOtherOutputs
    DriftBound = 1
    AuditEpsilon = 1
SYMMETRY GpuSymmetry
INVARIANTS
    ColdIsCold
    ClaimSound
    WorkloadOnDisk
    CandidatesQualify
    GateSound
    AuditSound
    NothingAbandoned
    StreamSound
