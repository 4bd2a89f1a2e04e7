\* A back-dated or slow consumer map after a newer one removed a consumer.
SPECIFICATION Spec
CONSTANTS
    SignalKeys = {}
    ConsumerIds = {c1}
    Endpoints = {}
    Payloads = {p1}
    None = None
    Ingests = {i1, i2, i3}
    Batches <- ConsumerMaps
    Times = {1, 2}
CHECK_DEADLOCK FALSE
PROPERTIES
    RemovedConsumerStaysRemoved
