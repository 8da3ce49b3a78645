SPECIFICATION SpecJob
CONSTANTS
    w1 = w1
    w2 = w2
    r1 = r1
    r2 = r2
    Worker = {w1, w2}
    Row = {r1, r2}
    NTopics = 1
    Chain <- GappedChain
    Processes <- TwoProcesses
    Limit = 2
    ReapAge = 1
PROPERTY StuckRowsRecovered
PROPERTY EventuallyDone
