\* An attempt outlives its lease; every call is sent once and answered.
CONSTANTS
    Workers = {w1, w2}
    Keys = {k1}
    Fingerprints = {f1, f2}
    NoFingerprint = noFingerprint
    NoResult = noResult
    NoKey = noKey
    Nobody = nobody
    Lease = 2
    Ttl = 8
    Skew = 0
    Grace = 1
    Overrun = TRUE
    Resend = FALSE
    FailOpen = FALSE
    MaxTime = 5
    FaultHorizon = 0
SPECIFICATION Spec
INVARIANT StoredByHolder
