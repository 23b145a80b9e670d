SPECIFICATION Spec
CONSTANTS
    Reqs = {r1, r2, r3}
    Blocks = {b1, b2, b3}
    PrefixMax = 1
    MaxNeed = 2
    MaxFlights = 2
    Sequents = {r1, r2, r3}
    PromptTokens = 1
    Longest = 4
    BlockTokens = 2
    PoolBlocks = 5
    MaxActive = 3
    MaxBatchedTokens = 4
    ChunkTokens = 2
    MaxForwards = 4
    MaxLeaves = 1
    Served = {r1, r2, r3}
    PromptSizes = {1, 2}
    OutputSizes = {1, 3}
    PageTokens = 2
    PageCount = 4
    MaxServed = 2
SYMMETRY WorkerSymmetry
INVARIANTS
    Conserved
