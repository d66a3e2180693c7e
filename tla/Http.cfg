\* Two requests at a time for one key, at five doors of one store.
CONSTANTS
    Workers = {w1, w2}
    Keys <- OneKey
    Fingerprints <- TheFingerprints
    NoFingerprint = noFingerprint
    NoResult = noResult
    NoKey = noKey
    Nobody = nobody
    Lease = 1
    Ttl = 2
    Skew = 0
    Grace = 0
    Overrun = FALSE
    Resend = FALSE
    FailOpen = FALSE
    MaxTime = 1
    FaultHorizon = 1
    MaxChunks = 3
    MaxResultBytes = 3
    StoreMaxBytes = 2
    MaxKeyBytes = 4
    MaxHeaderChars = 5
    Doors <- SomeDoors
    HttpRequests <- SomeRequests
    NoHeader = noHeader
    NoTime = noTime
    NoBody = noBody
    Streaming = {w1}
    MaxRequestBytes = 1
    Secrets = {1, 2}
    Tolerance = 1
    ReplayHeaders <- SomeHeaders
    ReplayBytes = {0, 250}
    ReplayCaps = {0, 1, 3}
    Second = 2
    MaxLease = 7
SPECIFICATION HttpFairSpec
INVARIANTS
    HttpTypeOK
    CopyWhole
    GateHolds
    KeyParsing
    RecordsApart
    ReplayFaithful
    RetryOutlivesLease
PROPERTIES
    KeepsPromise
    ReplayAnswersRequest
    RequestsEnd
