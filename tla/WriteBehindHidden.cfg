SPECIFICATION Spec
CONSTANTS
    s1 = s1
    s2 = s2
    Subject <- MCSubject
    Capacity = 1
    BatchSize = 1
    MaxStamp = 2
    MaxOther = 1
    MaxDropped = 1
INVARIANT EveryPendingWriteIsVisible
