SPECIFICATION FairSpec
CONSTANTS
    s1 = s1
    s2 = s2
    Subject <- MCOne
    Capacity = 1
    BatchSize = 2
    MaxStamp = 2
    MaxOther = 1
    MaxDropped = 1
PROPERTIES
    EveryStateSettles
    StopEndsTheThread
