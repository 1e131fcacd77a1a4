\* Two processes, two requests that change the settings at any moment of the loops.
SPECIFICATION Spec
CONSTANTS
    p1 = p1
    p2 = p2
    r1 = r1
    r2 = r2
    off = off
    slow = slow
    fast = fast
    Proc <- P2
    Request <- R2
    Settings <- S3
    Off = off
    MaxLoop = 2
    Nobody = Nobody
INVARIANTS TypeOK SyncRunsWhenOn OneUsageLoop
SYMMETRY Same
