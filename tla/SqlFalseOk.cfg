\* Attempts outlive their leases; every statement is answered.
CONSTANTS
    Workers = {w1, w2}
    Keys = {k1}
    Fingerprints = {f1, f2}
    NoFingerprint = noFingerprint
    NoResult = noResult
    NoKey = noKey
    Nobody = nobody
    Lease = 1
    Ttl = 8
    Skew = 0
    Grace = 0
    Overrun = TRUE
    Resend = FALSE
    FailOpen = FALSE
    MaxTime = 3
    FaultHorizon = 0
    MaxTries = 3
SPECIFICATION SqlSpec
PROPERTY OkMeansCompleted
