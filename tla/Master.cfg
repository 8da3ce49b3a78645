SPECIFICATION SpecLive
CONSTANTS
    SplitAfter = 4
    MaxSpan = 4
    BatchSize = 3
    MaxNow = 15
INVARIANTS NoGaps WindowsValid ResumesNearEnd AtMostTwice
PROPERTY EveryMinuteCovered
