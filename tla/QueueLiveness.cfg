\* One message, faults in the first half.
CONSTANTS
    k1 = k1
    f1 = f1
    f2 = f2
    d1 = d1
    d2 = d2
    w1 = w1
    w2 = w2
    Workers = {w1, w2}
    Keys = {k1}
    Fingerprints = {f1}
    Deliveries = {d1}
    Message <- OneMessage
    NoFingerprint = noFingerprint
    NoResult = noResult
    NoKey = noKey
    NoDelivery = noDelivery
    Nobody = nobody
    Lease = 2
    Ttl = 8
    Skew = 0
    Grace = 1
    Overrun = FALSE
    Resend = FALSE
    FailOpen = TRUE
    OnInFlight <- AllRetry
    HasStrategy <- AllHaveStrategy
    MaxAttempts = 2
    MaxTime = 4
    FaultHorizon = 2
SPECIFICATION DoorFairSpec
PROPERTY DeliveriesSettle
