\* The event consumer and the admin route run cycles at the same time.
SPECIFICATION Spec
CONSTANTS
    Messages = {1, 2}
    Workers = {w1, w2}
    w1 = w1
    w2 = w2
    RelayBatch = 2
    ConsumeBatch = 2
    Ticks = {1}
    MaxAborts = 0
INVARIANTS PublishedMeansStreamed ProjectedWasPublished CountNeverAhead
SYMMETRY WorkerSymmetry
