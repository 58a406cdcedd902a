CONSTANTS
    Clients = {c1, c2}
    Proxies = {p1}
    Junk = Junk
    Handlers = {r1, r2}
    Rps = 1
    Burst = 2
    MaxHops = 2
    MaxClaims = 2
    MaxTime = 3
    MaxRequests = 5
    MaxFaults = 1
SPECIFICATION Spec
SYMMETRY Symmetry
INVARIANT TypeOK
INVARIANT OwnAddress
INVARIANT WithinLimit
INVARIANT VerifiedIdentity
PROPERTY RefusedForOwnTraffic
