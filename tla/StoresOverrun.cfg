\* Attempts outlive their leases.
CONSTANTS
    Workers = {w1, w2}
    Keys = {k1}
    Fingerprints = {f1, f2}
    NoFingerprint = noFingerprint
    NoResult = noResult
    NoKey = noKey
    Nobody = nobody
    Lease = 1
    Ttl = 2
    Skew = 0
    Grace = 0
    Overrun = TRUE
    Resend = TRUE
    FailOpen = TRUE
    MaxTime = 4
    FaultHorizon = 5
    MaxTries = 3
    NoText = noText
    Never = never
    NativeGrace = 1
    Second = 2
SPECIFICATION StoreSpec
SYMMETRY Symmetry
PROPERTIES
    LateWriterFenced
    CompletedStable
    EvictsOnlyDead
