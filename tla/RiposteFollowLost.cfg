SPECIFICATION Spec
CONSTANTS
    Sources <- MCJournals
    Inode <- MCInode
    Chunk = 1
    Prefix = 1
    Back = 1
    ShortJournals = TRUE
    MaxLines = 2
    MaxChanges = 0
    MaxFailures = 1
    MaxCrashes = 0
INVARIANT SeenIsHandled
