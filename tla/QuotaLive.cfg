\* Every change of two accounts is collected by a worker that paces its jobs.
SPECIFICATION FairSpec
CONSTANTS
    w1 = w1
    r1 = r1
    a1 = a1
    a2 = a2
    k1 = k1
    k2 = k2
    p1 = p1
    NoOwner = NoOwner
    NoAccount = NoAccount
    NoCred = NoCred
    Owner <- W1
    Worker <- W1
    Refresher <- None
    Account <- A2
    Cred <- K1
    Admin <- P1
    Mortal <- None
    MaxRev = 2
    Faults = FALSE
    AdminCrash = FALSE
PROPERTIES EveryChangeCollected
