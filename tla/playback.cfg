CONSTANTS
    Videos = {v1, v2}
    Handlers = {r1, r2}
    TTL = 2
    NegTTL = 1
    Timeout = 1
    Window = 3
    MaxEntries = 1
    MaxEdits = 2
    MaxFaults = 1
SPECIFICATION Spec
SYMMETRY Symmetry
INVARIANT TypeOK
INVARIANT CacheConsistent
PROPERTY AdmittedInWindow
PROPERTY RefusedForAReason
PROPERTY ShownHasMapping
