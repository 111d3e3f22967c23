SPECIFICATION OutgoingSpec
CONSTANTS
    LeadProcesses = {p1, p2}
    Mailers = {w1, w2}
    Recipients = {u1, u2}
    Standing <- SomeWait
    MaxClicks = 3
    MaxMishaps = 1
    Endpoints = {n1}
    News = {m1, m2}
    max_retries = 5
    MaxDeaths = 1
    Addresses = {a1, a2}
    Members = {u1, u2}
    MaxChanges = 1
    Chapters = {c1, c2}
    LeadUsers = {l1}
    MaxAdmin = 2
    MaxReportDeaths = 1
INVARIANT OutgoingTypeOK
INVARIANT CopiesAccountedFor
INVARIANT ReadyTasksAreInHand
INVARIANT RowsTellTheTruth
INVARIANT RoundsAreWhole
INVARIANT ReportsReachTheLeads
PROPERTY ReadyTasksEnd
PROPERTY ImplementsPromise
PROPERTY CallsEnd
CHECK_DEADLOCK FALSE
