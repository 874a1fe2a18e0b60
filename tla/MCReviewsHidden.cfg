SPECIFICATION Spec
CONSTANTS
    ann = ann
    pro = pro
    admin = admin
    review1 = review1
    review2 = review2
    thanks = thanks
    sorry = sorry
    slot1 = slot1
    slot2 = slot2
    Users = {ann, pro, admin}
    Owner = pro
    Admins = {admin}
    Reviews = {review1, review2}
    Ratings = {250, 500}
    Texts = {thanks, sorry}
    Slots = {slot1, slot2}
    None = None
    MaxRequests = 4
PROPERTIES
    HiddenStays
CHECK_DEADLOCK FALSE
