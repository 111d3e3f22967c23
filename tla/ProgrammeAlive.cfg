SPECIFICATION ProgrammeSpec
CONSTANTS
    Leads = {p1, p2}
    Events = {e1}
    Sessions = {s1}
    EventOf <- OneEvent
    Venues = {v1, v2}
    EventForms <- SomeForms
    FirstVenues = {v1}
    MaxDay = 3
    MaxVisits = 4
INVARIANT PublicQueriesAreAlive
CHECK_DEADLOCK FALSE
