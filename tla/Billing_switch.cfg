SPECIFICATION Spec
CONSTANTS
    Subs = {s1}
    PaidPlans = {starter, pro}
    Free = free
    Null = Null
    MaxEvents = 2
    MaxFaults = 0
    s1 = s1
    starter = starter
    pro = pro
    free = free
INVARIANT SwitchTakesEffect
SYMMETRY Interchangeable
