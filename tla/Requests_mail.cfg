SPECIFICATION Spec
CONSTANTS
    Requests = {q1, q2}
    Customers = {c1, c2}
    Handlers = {h1, h2}
    Runs = {w1, w2}
    Null = Null
    Cooldown = 1
    FollowUpAfter = 1
    MaxAge = 2
    MaxDay = 3
    MaxResends = 2
    MaxFaults = 1
    q1 = q1
    q2 = q2
    c1 = c1
    c2 = c2
    h1 = h1
    h2 = h2
    w1 = w1
    w2 = w2
INVARIANTS TypeOK OnceUnlessOverlap LinkInHand
PROPERTIES QuietAfterClick PromiseKept
SYMMETRY Interchangeable
