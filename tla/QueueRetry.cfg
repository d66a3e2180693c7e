\* Two messages with one key and different payloads; one consumer acknowledges duplicates and lacks the strategy; faults at the start.
CONSTANTS
    k1 = k1
    f1 = f1
    f2 = f2
    d1 = d1
    d2 = d2
    w1 = w1
    w2 = w2
    Workers = {w1, w2}
    Keys = {k1}
    Fingerprints = {f1, f2}
    Deliveries = {d1, d2}
    Message <- ReusedKey
    NoFingerprint = noFingerprint
    NoResult = noResult
    NoKey = noKey
    NoDelivery = noDelivery
    Nobody = nobody
    Lease = 2
    Ttl = 3
    Skew = 0
    Grace = 1
    Overrun = FALSE
    Resend = FALSE
    FailOpen = FALSE
    OnInFlight <- OneAcks
    HasStrategy <- OneHasStrategy
    MaxAttempts = 2
    MaxTime = 3
    FaultHorizon = 1
SPECIFICATION DoorSpec
SYMMETRY Symmetry
INVARIANTS
    DoorTypeOK
    AckedMeansHandled
PROPERTY ReentersAfterLease
