SPECIFICATION Spec
CONSTANTS
    buyer = buyer
    seller = seller
    agent = agent
    chat1 = chat1
    chat2 = chat2
    slot1 = slot1
    slot2 = slot2
    Users = {buyer, seller, agent}
    Conversations = {chat1, chat2}
    Slots = {slot1, slot2}
    None = None
    MaxRequests = 4
SYMMETRY Symmetry
INVARIANT
    BlockStands
CHECK_DEADLOCK FALSE
