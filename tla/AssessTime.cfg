\* One feed import under way, reports before, during and after it, at moments
\* around every date.
SPECIFICATION AssessSpec
CONSTANTS
    undated = undated
    scheduled = scheduled
    ending = ending
    both = both
    sooner = sooner
    light = light
    heavy = heavy
    SignalKeys = {k1, k2}
    ConsumerIds = {}
    Endpoints = {e1}
    Payloads = {undated, scheduled, ending, both, sooner}
    None = None
    Ingests = {i1}
    Batches <- Feeds
    Times = {1}
    Scopes = {"endpoint"}
    Endpoint = e1
    Dates <- MCDates
    CriticalityOf <- MCCriticalityOf
    Instants = {5, 33, 40, 93, 100}
CHECK_DEADLOCK FALSE
INVARIANTS
    StateMatchesUrgency
PROPERTIES
    TimeNeverLowersRisk
    MoreEvidenceIsConservative
