\* A slow answer takes the cache back from a later one.
SPECIFICATION ClockedScanSpec
CONSTANTS
    Origins = {o1}
    Urls = {1}
    Headers <- KeptHeaders
    Oversized = {}
    MaxCacheEntries = 1
    None = None
    Clients = {a, b, c}
    Reused = {}
    OriginOf <- SameOrigin
    Sunset = Sunset
    Garbled = Garbled
    Lifecycles = {Sunset, Garbled}
    Invalid = {Garbled}
    DeprecatedFrom <- DeprecatedAtTwo
    SignalKeys = {k1}
    KeyOf <- SameKey
    Interval = 1
    DefaultTtl = 1
    MaxTtl = 3
    RetryDelays = {}
    Readings = {3, 4, 5}
SYMMETRY ClientSymmetry
CHECK_DEADLOCK FALSE
PROPERTIES
    NewerAnswerStands
