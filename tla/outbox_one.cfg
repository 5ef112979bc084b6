\* One pipeline worker with crashes and Redis failures.
SPECIFICATION FairSpec
CONSTANTS
    Messages = {1, 2, 3}
    Workers = {w1}
    w1 = w1
    RelayBatch = 2
    ConsumeBatch = 1
    Ticks = {0, 1}
    MaxAborts = 1
INVARIANTS TypeOK NothingSkipped ProjectedOnce ResentOnlyAfterAbort
PROPERTIES EventuallySettled DeliveredExactlyOnce
