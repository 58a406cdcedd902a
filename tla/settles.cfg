CONSTANTS
    Corrupt = {}
    Videos = {v1}
    Workers = {w1}
    MsgIds = {m1}
    Qualities = {"360p", "720p"}
    Ladder <- OneRung
    KeepRaw = FALSE
    MaxRetries = 1
    MaxFaults = 3
    MaxDrops = 0
    NoJob = NoJob
SPECIFICATION FairSpec
PROPERTY UploadSelfHeals
PROPERTY PublishedSettles
PROPERTY HandoffKept
CHECK_DEADLOCK FALSE
