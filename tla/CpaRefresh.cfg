\* A consumer and a manual refresh; the source or its endpoint changes.
SPECIFICATION Spec
CONSTANTS
    w1 = w1
    q1 = q1
    r1 = r1
    e1 = e1
    e2 = e2
    m1 = m1
    p1 = p1
    h1 = h1
    h2 = h2
    NoOwner = NoOwner
    Ghost = Ghost
    NoEndpoint = NoEndpoint
    Endpoint <- E2
    Cpamp <- M1
    Worker <- None
    Consumer <- Q1
    Refresher <- R1
    Process <- H1
    Home <- OneHome
    Mortal <- None
    Admin <- P1
    MaxEp = 1
    MaxCol = 1
    MayFail = FALSE
INVARIANTS GenerationIsPure QueueStatusConsistent
PROPERTY ShowsOnlyCurrent
SYMMETRY CpaEndpoints
