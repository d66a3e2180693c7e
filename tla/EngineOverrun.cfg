\* Attempts outlive their leases and calls are sent twice.
CONSTANTS
    Workers = {w1, w2}
    Keys = {k1}
    Fingerprints = {f1, f2}
    NoFingerprint = noFingerprint
    NoResult = noResult
    NoKey = noKey
    Nobody = nobody
    Lease = 2
    Ttl = 3
    Skew = 1
    Grace = 1
    Overrun = TRUE
    Resend = TRUE
    FailOpen = FALSE
    MaxTime = 5
    FaultHorizon = 6
SPECIFICATION Spec
SYMMETRY Symmetry
INVARIANTS
    FenceWitnessesClaim
PROPERTIES
    LateWriterFenced
    LiveClaimRemovedByHolder
    CompletedStable
    PayloadFixedWhileAlive
