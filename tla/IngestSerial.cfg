\* Imports of every category, one after the other, some dying half way.
SPECIFICATION SerialSpec
CONSTANTS
    SignalKeys = {k1}
    ConsumerIds = {c1}
    Endpoints = {e1}
    Payloads = {p1, p2}
    None = None
    Ingests = {i1, i2, i3}
    Batches <- MixedImports
    Times = {1, 2}
SYMMETRY Symmetry
CHECK_DEADLOCK FALSE
INVARIANTS
    SummaryCountsOwnChanges
    EdgesNoNewerThanConsumer
PROPERTIES
    SnapshotTakesEffect
