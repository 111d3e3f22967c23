CONSTANTS
    u1 = u1
    u2 = u2
    u3 = u3
    w1 = w1
    Nobody = Nobody
    Users = {u1, u2, u3}
    Workers = {w1}
    Caps = {0, 1}
    InviteOnly = FALSE
    Deadline = TRUE
    Requests = {"rsvp", "cancel", "decide", "batch", "check_in", "edit"}
    Decisions = {"Confirmed", "Not Attending", "Waitlisted"}
SPECIFICATION Spec
SYMMETRY Symmetry
INVARIANTS TypeOK NoIdleSeat
PROPERTIES ImplementsAllocation PromotedAreMailed PositionOnlyImproves
