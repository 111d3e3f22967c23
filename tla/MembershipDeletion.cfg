SPECIFICATION MemberSpec
CONSTANTS
    Requests = {r1, r2}
    MaxEndings = 2
    MaxTokens = 2
INVARIANT NothingIsLeft
CHECK_DEADLOCK FALSE
