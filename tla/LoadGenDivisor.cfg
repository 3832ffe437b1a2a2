SPECIFICATION FairSpec
CONSTANTS
    Warmup = 2
    Micro = 2
    Interval = 3
    Duration = 6
    MaxLate = 1
    MaxRun = 2
    MaxKills = 2
INVARIANT
    UtilDivisor
