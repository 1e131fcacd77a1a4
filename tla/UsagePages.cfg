\* Two processes page through a growing list, with failures.
SPECIFICATION Spec
CONSTANTS
    a1 = a1
    s1 = s1
    s2 = s2
    w1 = w1
    q1 = q1
    h1 = h1
    h2 = h2
    NoOwner = NoOwner
    NoAccount = NoAccount
    NoSpace = NoSpace
    Account <- A1
    Space <- S1
    Worker <- W1
    Request <- Q1
    Process <- H2
    Home <- Apart
    Mortal <- None
    Owner <- Sessions
    Most <- MoreRecords
    PageSize = 2
    MaxPages = 2
    MaxBackfill = 1
    MaxRev = 0
    Faults = TRUE
INVARIANTS NoGap TotalsCount
