SPECIFICATION Spec
CONSTANTS
    s1 = s1
    s2 = s2
    Subject <- MCSubject
    Capacity = 2
    BatchSize = 2
    MaxStamp = 3
    MaxOther = 1
    MaxDropped = 1
SYMMETRY Symmetry
INVARIANTS
    TypeOK
    ReadYourWrites
    NothingLostSilently
    DatabaseNeverGoesBack
    FlushMeansStoredWhileRunning
    PendingDrains
PROPERTY ImplementsStore
