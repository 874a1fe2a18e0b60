SPECIFICATION Spec
CONSTANTS
    client = client
    plumber = plumber
    painter = painter
    admin = admin
    job1 = job1
    slot1 = slot1
    slot2 = slot2
    Users = {client, plumber, painter, admin}
    Clients = {client}
    Admins = {admin}
    Profiles = {plumber, painter}
    ProviderRole = {client}
    Jobs = {job1}
    Slots = {slot1, slot2}
    None = None
    MaxRequests = 5
SYMMETRY Symmetry
INVARIANT
    CompletionAnnounced
CHECK_DEADLOCK FALSE
