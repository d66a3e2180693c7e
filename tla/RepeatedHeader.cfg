\* Requests whose key header is sent twice; no faults.
CONSTANTS
    Workers = {w1, w2}
    Keys <- SentKeys
    Fingerprints <- TheFingerprints
    NoFingerprint = noFingerprint
    NoResult = noResult
    NoKey = noKey
    Nobody = nobody
    Lease = 1
    Ttl = 2
    Skew = 0
    Grace = 0
    Overrun = FALSE
    Resend = FALSE
    FailOpen = FALSE
    MaxTime = 1
    FaultHorizon = 0
    MaxChunks = 3
    MaxResultBytes = 3
    StoreMaxBytes = 2
    MaxKeyBytes = 4
    MaxHeaderChars = 5
    Doors <- SomeDoors
    HttpRequests <- RepeatingRequests
    NoHeader = noHeader
    NoTime = noTime
    NoBody = noBody
    Streaming = {w1}
    MaxRequestBytes = 1
    Secrets = {1, 2}
    Tolerance = 1
    ReplayHeaders <- SomeHeaders
    ReplayBytes = {0, 250}
    ReplayCaps = {0, 1, 3}
    Second = 2
    MaxLease = 7
SPECIFICATION HttpSpec
INVARIANT RepeatedRefused
