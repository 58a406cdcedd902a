CONSTANTS
    c1 = c1
    c2 = c2
    c3 = c3
    t1 = t1
    t2 = t2
    Users = {u1}
    Tabs = {t1, t2}
    Calls = {c1, c2, c3}
    TabOf <- TwoAndOne
    MaxStarts = 3
    MaxUpsets = 0
SPECIFICATION Spec
INVARIANT FreshTokensKept
CHECK_DEADLOCK FALSE
