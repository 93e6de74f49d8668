SPECIFICATION Spec
CONSTANTS
    Reviews = {r1, r2}
    HasExternalId = {r1, r2}
    Texts = {a, b}
    Requests = {q1, q2}
    Ticks = {t1, t2}
    BatchLimit = 2
    MaxTime = 1
    MaxSaves = 2
    MaxFailures = 1
    MaxCrashes = 1
    NoText = NoText
    Null = Null
    r1 = r1
    r2 = r2
    a = a
    b = b
    q1 = q1
    q2 = q2
    t1 = t1
    t2 = t2
    google = google
    Platforms <- MCPlatforms
    PlatformOf <- MCPlatformOf
INVARIANTS TypeOK PostedMeansLive NeverBeforeItsTime AnnouncedOnce
PROPERTIES PromiseKept
SYMMETRY Interchangeable
