SPECIFICATION FairSpec
CONSTANTS
    Users = {u1}
    Steps = {0, 1}
    SetupSteps = {1}
    FreeSteps = {1}
    Window = 2
    Audits = {a1}
    Runs = {w1, w2}
    Deployments <- OneJob
    DigestGap = 1
    ReminderAge = 1
    AuditLife = 3
    MaxDay = 2
    MaxChanges = 1
    MaxFaults = 1
    u1 = u1
    a1 = a1
    w1 = w1
    w2 = w2
    None = None
INVARIANTS TypeOK MarkedMeansMailed ReminderMatchesMark
PROPERTIES QuietWhenDeclined WantedIsServed PromiseKept
