SPECIFICATION Spec
CONSTANTS
    Drafts = {d1, d2, d3}
    Cap = 2
    MaxMonth = 1
    MaxAsked = 3
    MaxReviews = 2
    Tones = 3
    Null = Null
    d1 = d1
    d2 = d2
    d3 = d3
INVARIANTS TypeOK NeverOvercharged ExactUnlessStray
PROPERTY PromiseKept
SYMMETRY Interchangeable
