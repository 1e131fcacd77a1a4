\* One process, one request: the loop that is restarted may be in its release().
SPECIFICATION FairSpec
CONSTANTS
    p1 = p1
    p2 = p2
    r1 = r1
    r2 = r2
    off = off
    slow = slow
    fast = fast
    Proc <- P1
    Request <- R1
    Settings <- S3
    Off = off
    MaxLoop = 2
    Nobody = Nobody
PROPERTY RestartEnds
