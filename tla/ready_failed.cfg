CONSTANTS
    Corrupt = {}
    Videos = {v1}
    Workers = {w1}
    MsgIds = {m1}
    Qualities = {"360p", "720p"}
    Ladder <- TwoRungs
    KeepRaw = FALSE
    MaxRetries = 1
    MaxFaults = 0
    MaxDrops = 1
    NoJob = NoJob
SPECIFICATION Spec
PROPERTY ReadyIsFinal
CHECK_DEADLOCK FALSE
