\* A worker, a consumer and one administrator, with failures and crashes.
SPECIFICATION Spec
CONSTANTS
    w1 = w1
    q1 = q1
    r1 = r1
    e1 = e1
    e2 = e2
    m1 = m1
    p1 = p1
    h1 = h1
    h2 = h2
    NoOwner = NoOwner
    Ghost = Ghost
    NoEndpoint = NoEndpoint
    Endpoint <- E1
    Cpamp <- M1
    Worker <- W1
    Consumer <- Q1
    Refresher <- None
    Process <- H1
    Home <- OneHome
    Mortal <- H1
    Admin <- P1
    MaxEp = 0
    MaxCol = 1
    MayFail = TRUE
INVARIANTS TypeOK ChangeIsQueued
PROPERTY PoppedIsKept
