\* One object with two keys, whose entries fall due at two times; attempts outlive their leases, calls fail, clocks are skewed.
CONSTANTS
    Workers = {w1}
    Keys = {k1, k2}
    Fingerprints = {f1}
    NoFingerprint = noFingerprint
    NoResult = noResult
    NoKey = noKey
    Nobody = nobody
    Unset = unset
    Lease = 1
    Ttl = 1
    Skew = 1
    Grace = 2
    Overrun = TRUE
    Resend = FALSE
    FailOpen = FALSE
    MaxTime = 4
    FaultHorizon = 2
SPECIFICATION DurableFairSpec
INVARIANTS
    DurableTypeOK
    AlarmCoversRows
PROPERTIES
    DurableImplementsEngine
    SweepsOnlyDead
    RowsForgotten
