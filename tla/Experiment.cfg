SPECIFICATION FairSpec
CONSTANTS
    MaxFaults = 2
    Experiments = 2
    MaxTries = 4
INVARIANTS
    TypeOK
    NoMixedSeries
    OwnServices
    OnlySilenceStops
PROPERTIES
    BatchEnds
