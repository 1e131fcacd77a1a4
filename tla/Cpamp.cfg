\* Sessions one after another, also when overtaken; the endpoint or the source moves.
\* A deleted channel is the end.
SPECIFICATION Spec
CONSTANTS
    w1 = w1
    r1 = r1
    a1 = a1
    a2 = a2
    Locator = Locator
    Nobody = Nobody
    NoOwner = NoOwner
    Worker <- None
    Refresher <- R1
    Identity <- A2
    Mortal <- R1
    MaxTime = 2
    MaxAge = 0
    MaxEp = 2
    MaxCol = 1
    Faults = TRUE
INVARIANTS TypeOK GenerationIsPure FreshSinceDiscovery ShownWereFound
PROPERTIES Forwards FreshChannelHasFreshRow
SYMMETRY Identities
CHECK_DEADLOCK FALSE
