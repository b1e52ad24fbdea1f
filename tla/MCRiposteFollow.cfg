SPECIFICATION MCFairSpec
CONSTANTS
    Sources <- MCOneJournal
    Inode <- MCInode
    Chunk = 2
    Prefix = 2
    Back = 1
    ShortJournals = TRUE
    MaxLines = 5
    MaxChanges = 1
    MaxFailures = 1
    MaxCrashes = 1
INVARIANTS
    TypeOK
    HandledOnce
    QuietTurnsLoseNothing
    PositionBehindMarks
PROPERTY SeenUnlessStuck
