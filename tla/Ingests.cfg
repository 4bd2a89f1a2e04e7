\* Overlapping imports of feeds and of consumer maps, every time order.
SPECIFICATION Spec
CONSTANTS
    SignalKeys = {k1}
    ConsumerIds = {c1}
    Endpoints = {e1}
    Payloads = {p1, p2}
    None = None
    Ingests = {i1, i2, i3}
    Batches <- SingleImports
    Times = {1, 2}
SYMMETRY Symmetry
CHECK_DEADLOCK FALSE
INVARIANTS
    TypeOK
    HistoryReplays
    HistoryExplainsRows
    HistoryInOrder
    NewestEvidenceStands
    NoOrphanEdges
    RejectedOnlyByNewerSnapshot
PROPERTIES
    EvidenceNeverRegresses
    ImplementsChangeFeed
