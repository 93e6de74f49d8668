SPECIFICATION FairSpec
CONSTANTS
    Reviews = {r1, r2}
    Workers = {tick, manual}
    PageSize = 1
    MaxClock = 3
    MaxConnections = 2
    MaxFaults = 1
    r1 = r1
    r2 = r2
    tick = tick
    manual = manual
INVARIANT TypeOK
PROPERTIES EveryReviewArrives PromiseKept
