SPECIFICATION Spec
CONSTANTS
    lister = lister
    guest = guest
    booking1 = booking1
    block1 = block1
    block2 = block2
    slot1 = slot1
    slot2 = slot2
    Users = {lister, guest}
    Owner = lister
    Visitors = {guest}
    Bookings = {booking1}
    Blocks = {block1, block2}
    Slots = {slot1, slot2}
    LastDay = 2
    None = None
SYMMETRY Symmetry
INVARIANT
    OwnCancelAccepted
CHECK_DEADLOCK FALSE
