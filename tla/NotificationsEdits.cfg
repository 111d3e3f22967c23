SPECIFICATION Spec
CONSTANTS
    Events = {e1}
    Nothing = Nothing
    Workers = {w1}
    Processes = {p1}
    Forms <- SoonForms
    MaxTime = 5
    MaxRequests = 3
    MaxFaults = 0
INVARIANT TypeOK
INVARIANT RepeatsAccountedFor
INVARIANT PublishedBeforeNotified
PROPERTY ArchivedStaysArchived
