CONSTANTS
    Corrupt = {v1}
    Videos = {v1}
    Workers = {w1}
    MsgIds = {m1}
    Qualities = {"360p", "720p"}
    Ladder <- OneRung
    KeepRaw = FALSE
    MaxRetries = 1
    MaxFaults = 1
    MaxDrops = 0
    NoJob = NoJob
SPECIFICATION FairSpec
PROPERTY EveryVideoGetsVerdict
CHECK_DEADLOCK FALSE
