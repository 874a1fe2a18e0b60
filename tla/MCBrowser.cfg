SPECIFICATION MCSpec
CONSTANTS
    MaxLinks = 3
    MaxMounts = 1
    MaxRenders = 1
    MaxFails = 2
    MaxWaiting = 1
    Attempts = 2
    Limit = 1
    MaxNotices = 2
    MaxErrands = 2
    MaxErrors = 1
INVARIANTS
    AllTyped
    ShownStays
    PresenceRight
    NoStraySockets
PROPERTIES
    PollingShows
    SocketComesBack
CHECK_DEADLOCK FALSE
