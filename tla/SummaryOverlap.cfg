\* The counts an IngestSummary reports while another import runs.
SPECIFICATION Spec
CONSTANTS
    SignalKeys = {k1, k2}
    ConsumerIds = {}
    Endpoints = {}
    Payloads = {p1}
    None = None
    Ingests = {i1, i2}
    Batches <- ActiveFeeds
    Times = {1}
CHECK_DEADLOCK FALSE
INVARIANTS
    SummaryCountsOwnChanges
