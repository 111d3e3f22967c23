SPECIFICATION Spec
CONSTANTS
    Events = {e1}
    Nothing = Nothing
    Workers = {w1}
    Processes = {p1}
    Forms <- LaterForms
    MaxTime = 7
    MaxRequests = 2
    MaxFaults = 1
INVARIANT SafeToRerun
