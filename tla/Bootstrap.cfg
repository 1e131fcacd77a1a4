\* Two processes, an old or new database, rotations, mounts and crashes at any step.
SPECIFICATION Spec
CONSTANTS
    p1 = p1
    p2 = p2
    a1 = a1
    a2 = a2
    t1 = t1
    t2 = t2
    s1 = s1
    Proc <- P2
    Account <- A2
    Listed <- Both
    Token <- T2
    NoToken = NoToken
    Session <- S1
    Ttl = 2
    Window = 2
    MaxFailures = 2
    MaxTime = 3
INVARIANTS TypeOK ServesRewritten ServesAfterRotation ImportedWhole WindowCounted
PROPERTIES SessionsLast ImportedOnce
SYMMETRY Same
