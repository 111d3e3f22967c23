CONSTANTS
    u1 = u1
    u2 = u2
    u3 = u3
    w1 = w1
    w2 = w2
    Nobody = Nobody
    Users = {u1, u2, u3}
    Workers = {w1, w2}
    Caps = {1}
    InviteOnly = TRUE
    Deadline = TRUE
    Requests = {"rsvp", "cancel"}
    Decisions = {}
SPECIFICATION Spec
SYMMETRY Symmetry
PROPERTY PositionOnlyImproves
