\* One account, a worker and a manual refresh, lapses, failures, crashes.
SPECIFICATION Spec
CONSTANTS
    w1 = w1
    r1 = r1
    a1 = a1
    a2 = a2
    k1 = k1
    k2 = k2
    p1 = p1
    NoOwner = NoOwner
    NoAccount = NoAccount
    NoCred = NoCred
    Owner <- W1R1
    Worker <- W1
    Refresher <- R1
    Account <- A1
    Cred <- K2
    Admin <- P1
    Mortal <- R1
    MaxRev = 1
    Faults = TRUE
    AdminCrash = TRUE
INVARIANTS TypeOK ChangeIsQueued FreshMatchesCredential JobsMatchRevision
PROPERTIES NoStaleOverwrite
SYMMETRY Credentials
