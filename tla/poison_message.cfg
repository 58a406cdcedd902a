CONSTANTS
    Corrupt = {v1}
    Videos = {v1}
    Workers = {w1, w2}
    MsgIds = {m1, m2}
    Qualities = {"360p", "720p"}
    Ladder <- TwoRungs
    KeepRaw = FALSE
    MaxRetries = 1
    MaxFaults = 2
    MaxDrops = 0
    NoJob = NoJob
SPECIFICATION Spec
SYMMETRY Symmetry
INVARIANT NoSilentLoss
CHECK_DEADLOCK FALSE
