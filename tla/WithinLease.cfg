\* Every store, the one in memory included: attempts end within their lease, clocks are skewed, calls fail, workers crash.
CONSTANTS
    Workers = {w1, w2}
    Keys = {k1}
    Fingerprints = {f1, f2}
    NoFingerprint = noFingerprint
    NoResult = noResult
    NoKey = noKey
    Nobody = nobody
    Lease = 3
    Ttl = 4
    Skew = 1
    Grace = 1
    Overrun = FALSE
    Resend = FALSE
    FailOpen = TRUE
    MaxTime = 6
    FaultHorizon = 7
    MaxTries = 3
    NoText = noText
    Never = never
    NativeGrace = 2
    Second = 2
SPECIFICATION StoreSpec
SYMMETRY Symmetry
INVARIANTS
    TypeOK
    ExclusiveWhileLeased
    ReplayMatchesPayload
    StoredByHolder
PROPERTIES
    StoredAnswerTrue
    ImplementsEngine
