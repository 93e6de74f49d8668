SPECIFICATION FairSpec
CONSTANTS
    Users = {u1, u2}
    Chats = {c1}
    None = None
    Deployments <- OneBot
    MaxCodes = 2
    MaxChanges = 1
    Businesses = {b1, b2}
    OwnerOf <- OneOwner
    Reviews = {r1, r2, r3}
    PlaceOf <- ThreeReviews
    PageSize = 2
    MaxFaults = 1
    u1 = u1
    u2 = u2
    b1 = b1
    b2 = b2
    r1 = r1
    r2 = r2
    r3 = r3
    c1 = c1
INVARIANTS TypeOK NothingForgotten DeadCodesStayDead
PROPERTIES EveryReviewArrives QuietAfterUnlink PromiseKept
