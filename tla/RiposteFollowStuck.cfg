SPECIFICATION FairSpec
CONSTANTS
    Sources <- MCOneJournal
    Inode <- MCInode
    Chunk = 1
    Prefix = 1
    Back = 1
    ShortJournals = TRUE
    MaxLines = 3
    MaxChanges = 1
    MaxFailures = 0
    MaxCrashes = 0
PROPERTY EveryLineIsSeen
