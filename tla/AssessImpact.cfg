\* Two imports of consumer maps that add and remove consumers and edges race
\* with the three reads of a report, on an endpoint or on a whole service.
SPECIFICATION AssessSpec
CONSTANTS
    undated = undated
    scheduled = scheduled
    ending = ending
    both = both
    sooner = sooner
    light = light
    heavy = heavy
    SignalKeys = {k1}
    ConsumerIds = {c1}
    Endpoints = {e1, e2}
    Payloads = {light, heavy}
    None = None
    Ingests = {i1, i2}
    Batches <- Maps
    Times = {1, 2}
    Scopes = {"endpoint", "service"}
    Endpoint = e1
    Dates <- MCDates
    CriticalityOf <- MCCriticalityOf
    Instants = {0}
SYMMETRY Symmetry
CHECK_DEADLOCK FALSE
PROPERTIES
    ImpactOnlyLifts
    AffectedConsumersAreUsers
