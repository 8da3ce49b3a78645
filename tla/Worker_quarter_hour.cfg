SPECIFICATION Spec
CONSTANTS
    w1 = w1
    w2 = w2
    r1 = r1
    r2 = r2
    Worker = {w1}
    Row = {r1, r2}
    NTopics = 1
    Chain <- FullChain
    Processes <- OneProcess
    Limit = 1
    ReapAge = 4
PROPERTY SweptAfterQuarterHour
