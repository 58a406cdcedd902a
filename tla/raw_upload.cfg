CONSTANTS
    Tabs = {t1, t2}
    Chunks = {c1, c2}
    N = 3
    PageSize = 1
    MaxSessions = 2
    MaxStarts = 3
    MaxFaults = 3
SPECIFICATION FairSpec
INVARIANT TypeOK
INVARIANT MultipartWhole
INVARIANT ChunksInOrder
INVARIANT CompleteMeansWhole
PROPERTY StoredIsAnnounced
PROPERTY HandoffKept
CHECK_DEADLOCK FALSE
