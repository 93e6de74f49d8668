SPECIFICATION FairSpec
CONSTANTS
    Reviews = {r1}
    HasExternalId = {r1}
    Texts = {a}
    Requests = {q1}
    Ticks = {t1, t2}
    BatchLimit = 100
    MaxTime = 1
    MaxSaves = 2
    MaxFailures = 1
    MaxCrashes = 1
    NoText = NoText
    Null = Null
    r1 = r1
    a = a
    q1 = q1
    t1 = t1
    t2 = t2
    google = google
    Platforms <- MCPlatforms
    PlatformOf <- MCPlatformOf
PROPERTY QueueDrains
