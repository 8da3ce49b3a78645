SPECIFICATION Spec
CONSTANTS
    SplitAfter = 3
    MaxSpan = 3
    BatchSize = 3
    MaxNow = 10
PROPERTY ResumesFromLatest
