CONSTANTS
    u1 = u1
    u2 = u2
    w1 = w1
    w2 = w2
    Nobody = Nobody
    Users = {u1, u2}
    Workers = {w1, w2}
    Caps = {1}
    InviteOnly = FALSE
    Deadline = TRUE
    Requests = {"rsvp"}
    Decisions = {}
SPECIFICATION Spec
INVARIANT SeatCapRespected
