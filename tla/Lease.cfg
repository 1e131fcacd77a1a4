\* Three owners; one may die, and sleep through its whole lease.
SPECIFICATION FairSpec
CONSTANTS
    o1 = o1
    o2 = o2
    o3 = o3
    Owner <- Owners
    Mortal <- OneMortal
    NoOwner = NoOwner
    Ttl = 3
    Heartbeat = 1
    MaxDelay <- OneLate
INVARIANTS TypeOK HeartbeatKeepsLease SingleFlight
PROPERTIES NoCommitAfterTakeover ImplementsLease LeaseRecovers
