SPECIFICATION RestoreSpec
CONSTANTS
    Restorer = {p1}
    NumBases = 2
    MaxMade = 7
    MaxStarts = 1
    MaxRestoreFaults = 1
INVARIANT WayBack
CHECK_DEADLOCK FALSE
