CONSTANTS
    u1 = u1
    u2 = u2
    w1 = w1
    w2 = w2
    Nobody = Nobody
    Users = {u1, u2}
    Workers = {w1}
    Caps = {1}
    InviteOnly = TRUE
    Deadline = TRUE
    Requests = {"rsvp", "cancel"}
    Decisions = {}
SPECIFICATION Spec
INVARIANT InviteOnlyNeedsApproval
