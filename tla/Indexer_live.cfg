SPECIFICATION Spec
CONSTANTS
    w1 = w1
    Worker = {w1}
    Processes <- OneProcess
    NTopics = 1
    Limit = 2
    ReapAge = 1
    SplitAfter = 1
    MaxSpan = 2
    BatchSize = 2
    MaxNow = 4
    AlertAfter = 1
PROPERTY StallIsAlerted
PROPERTY EveryMinutePublished
