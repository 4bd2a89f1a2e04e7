\* Scanners sharing the pacing table and the cache: two that fetch once, and
\* one whose client is kept.
SPECIFICATION FetchSpec
CONSTANTS
    Origins = {o1}
    Urls = {1}
    Headers <- StaleHeaders
    Oversized = {}
    MaxCacheEntries = 1
    None = None
    Clients = {a, b, c}
    Reused = {a}
    OriginOf <- SameOrigin
    Lifecycles = {}
    Interval = 2
    DefaultTtl = 0
    MaxTtl = 0
    RetryDelays = {4}
    Readings = {0, 2, 4}
SYMMETRY OneFetchSymmetry
CHECK_DEADLOCK FALSE
INVARIANTS
    FetchTypeOK
    RequestsSpaced
    RenewalStorable
PROPERTIES
    DeferralsHonoured
