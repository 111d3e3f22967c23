SPECIFICATION Spec
CONSTANTS
    Events = {e1}
    Nothing = Nothing
    Workers = {w1}
    Processes = {p1}
    Forms <- LaterForms
    MaxTime = 7
    MaxRequests = 3
    MaxFaults = 0
PROPERTY ArchivedAreLeftAlone
