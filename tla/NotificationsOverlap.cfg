SPECIFICATION Spec
CONSTANTS
    Events = {e1}
    Nothing = Nothing
    Workers = {w1, w2}
    Processes = {p1}
    Forms <- OverlapForms
    MaxTime = 0
    MaxRequests = 2
    MaxFaults = 1
SYMMETRY Symmetry
INVARIANT RepeatsAccountedFor
INVARIANT NoNoticeSkipped
INVARIANT SingleShot
