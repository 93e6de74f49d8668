SPECIFICATION Spec
CONSTANTS
    Reviews = {r1}
    Workers = {tick, manual}
    PageSize = 1
    MaxClock = 3
    MaxConnections = 1
    MaxFaults = 1
    r1 = r1
    tick = tick
    manual = manual
INVARIANT FailureIsRetried
