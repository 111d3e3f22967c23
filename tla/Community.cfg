SPECIFICATION CommunitySpec
CONSTANTS
    Leads = {p1, p2}
    Events = {e1}
    Sessions = {s1}
    EventOf <- OneEvent
    Venues = {v1, v2}
    EventForms <- SomeForms
    FirstVenues = {v1}
    MaxDay = 3
    MaxVisits = 4
    Requests = {r1, r2}
    MaxEndings = 2
    MaxTokens = 2
    Tabs = {b1, b2}
    MaxClicks = 4
    Desks = {d1, d2}
    Chapters = {c1, c2}
    Reviewers = {l1}
    LeadsOf <- OneLed
    MaxMoves = 3
    REQUIRE_2FA_FOR_PRIVILEGED = TRUE
    Sites = {s1, s2}
    Labels = {"www", "pune"}
    SlugOf <- OneSlug
    Domains = {"null.in"}
    MaxSaves = 3
    NumSeeds = 3
    Kind <- OneOfEachKind
    MaxCommands = 3
    Speakers = {m1, m2}
    Editors = {o1, o2}
    MaxEdits = 3
INVARIANT CommunityTypeOK
INVARIANT LiveEventsHaveLiveVenues
INVARIANT PublicEventsAreListed
PROPERTY RowsStayArchived
INVARIANT CredentialsEnd
INVARIANT ClicksCount
INVARIANT ProposerIsTold
PROPERTY DecisionsStand
INVARIANT VisitsLand
INVARIANT DomainsAgree
INVARIANT SeedsAreWhole
INVARIANT LeadersGetIn
INVARIANT SlotsAreTrue
CHECK_DEADLOCK FALSE
