\* Every call with any of five sources, whatever each holds when it is read;
\* every scan of one URL with one answer, in both modes, at three moments.
SPECIFICATION ReadingSpec
CONSTANTS
    None = None
    Sources <- MCSources
    Contents <- MCContents
    MaxSourceBytes = 5
    MaxKeyLength = 5
    Missing = Missing
    ExactHosts <- MCExactHosts
    WildcardSuffixes <- MCWildcardSuffixes
    LoopbackHosts <- MCLoopbackHosts
    AllowLoopback = TRUE
    RetryFallback = 60
    MaxRetryAfter = 90000
    Urls <- MCUrls
    Nows <- MCNows
    SunsetFields <- MCSunsetFields
    DeprecationFields <- MCDeprecationFields
    LinkFields <- MCLinkFields
    RetryAfters <- MCRetryAfters
CHECK_DEADLOCK FALSE
INVARIANTS
    MergedIsWellFormed
    VerdictMatchesFiles
    RowsSharedOnlyByNestedTargets
    OriginIdentifiesServer
    SpellingsAgree
    LeapSecondsRollOver
    CompatExtendsStrict
    LinksKeptOrReported
