SPECIFICATION MCSpec
CONSTANTS
    ann = ann
    x1 = x1
    x2 = x2
    y1 = y1
    y2 = y2
    c1 = c1
    slot1 = slot1
    slot2 = slot2
    Users = {ann}
    Profiles = {x1, x2}
    Certs = {c1}
    Requests = {y1, y2}
    Slots = {slot1, slot2}
    None = None
    MaxRequests = 5
    bob = bob
    bobplus = bobplus
    Accounts = {bob, bobplus}
    PlusAddressed = {bobplus}
    Tokens = {y1, y2}
    Calls = {slot1, slot2}
    NoToken = NoToken
    MaxSaves = 1
    k1 = k1
    TicketKeys = {k1}
    JobKeys = {x1, x2}
    Workers = {y1, y2}
    TicketSlots = {slot1, slot2}
    NoKey = NoKey
    MaxTicketRequests = 3
    k2 = k2
    k3 = k3
    Rows = {k1, k2, k3}
    Markings = {slot1, slot2}
    Months = 2
    DaysPerMonth = 2
    MaxQueries = 2
    MaxChanges = 1
    MaxRanges = 1
    OtherRanges <- MCOtherRanges
    Chats = {x1, x2}
    NoChat = NoChat
    MaxTexts = 3
    PageSize = 2
    MaxLoads = 2
    f1 = f1
    f2 = f2
    Filters = {f1, f2}
    Nothing = Nothing
    MaxSearches = 3
    m1 = m1
    m2 = m2
    Persons = {m1, m2}
    Nil = Nil
    MaxSent = 2
SYMMETRY Symmetry
INVARIANTS
    AllTyped
    DecisionsStand
    OnePending
    VerdictsAgree
    RoleFitsProfile
    VerifiedStays
    NewestLinkCounts
    AnswersTrue
    JobsLinked
    CountRight
    DatesOfMonth
    SelectionFree
    SentOnce
    OwnMessages
    ResultsFit
    UserMatchesToken
    LoggedOutStays
PROPERTIES
    JobKeepsProfile
CHECK_DEADLOCK FALSE
