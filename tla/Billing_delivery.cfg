SPECIFICATION FairSpec
CONSTANTS
    Subs = {s1, s2}
    PaidPlans = {starter, pro}
    Free = free
    Null = Null
    MaxEvents = 4
    MaxFaults = 1
    s1 = s1
    s2 = s2
    starter = starter
    pro = pro
    free = free
INVARIANTS TypeOK PlanHasItsSubscription LostOnlyByFaults PayingCustomerServed
PROPERTIES EventsTakeEffect PromiseKept
