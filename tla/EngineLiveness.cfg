\* Callers retry, time passes, and faults stop while there is time left for a lease.
CONSTANTS
    Workers = {w1, w2}
    Keys = {k1}
    Fingerprints = {f1}
    NoFingerprint = noFingerprint
    NoResult = noResult
    NoKey = noKey
    Nobody = nobody
    Lease = 2
    Ttl = 8
    Skew = 0
    Grace = 1
    Overrun = TRUE
    Resend = TRUE
    FailOpen = TRUE
    MaxTime = 5
    FaultHorizon = 4
SPECIFICATION FairSpec
PROPERTY NoStuckKey
