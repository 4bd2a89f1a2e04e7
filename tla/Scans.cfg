\* Scanners of two URLs with one signal key and one place in the cache, one
\* after the other or overlapping, while answers are kept and expire.
SPECIFICATION ScanSpec
CONSTANTS
    Origins = {o1}
    Urls = {1, 2}
    Headers <- VariedHeaders
    Oversized <- LargeHeaders
    MaxCacheEntries = 1
    None = None
    Clients = {a, b, c}
    Reused = {}
    OriginOf <- SameOrigin
    Sunset = Sunset
    Garbled = Garbled
    Lifecycles = {Sunset, Garbled}
    Invalid = {Garbled}
    DeprecatedFrom <- DeprecatedAtTwo
    SignalKeys = {k1}
    KeyOf <- SameKey
    Interval = 1
    DefaultTtl = 1
    MaxTtl = 3
    RetryDelays = {1}
    Readings = {1, 2, 3, 4}
SYMMETRY ClientSymmetry
CHECK_DEADLOCK FALSE
PROPERTIES
    OnlyCurrentAnswersRecorded
    ScanEndsUpToDate
