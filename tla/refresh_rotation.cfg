CONSTANTS
    c1 = c1
    c2 = c2
    c3 = c3
    t1 = t1
    t2 = t2
    Users = {u1}
    Tabs = {t1, t2}
    Calls = {c1, c2, c3}
    TabOf <- TwoAndOne
    MaxStarts = 3
    MaxUpsets = 1
SPECIFICATION FairSpec
INVARIANT TypeOK
INVARIANT OneRefreshEach
INVARIANT SessionSurvives
PROPERTY OnlyLatestHonoured
PROPERTY EveryCallEnds
CHECK_DEADLOCK FALSE
