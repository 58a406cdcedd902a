CONSTANTS
    Corrupt = {}
    Videos = {v1}
    Workers = {w1, w2}
    MsgIds = {m1}
    Qualities = {"360p", "720p", "1080p"}
    Ladder <- TwoRungs
    KeepRaw = FALSE
    MaxRetries = 1
    MaxFaults = 1
    MaxDrops = 1
    NoJob = NoJob
SPECIFICATION Spec
SYMMETRY Symmetry
INVARIANT TypeOK
INVARIANT RenditionsBacked
INVARIANT RawUntilReady
INVARIANT UploadedNotLost
PROPERTY LifecycleKept
CHECK_DEADLOCK FALSE
