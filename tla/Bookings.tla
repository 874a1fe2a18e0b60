------------------------------ MODULE Bookings ------------------------------
(***************************************************************************)
(* The bookings of one property and the dates its owner blocks: the        *)
(* handlers of BookingsService and the availability handlers of            *)
(* PropertiesService, cut at their awaits and run concurrently.            *)
(*                                                                         *)
(* create and blockAvailability each look at the other's table and then    *)
(* insert into their own, without a transaction: each is answered for what *)
(* it saw, and what was inserted in between is seen by neither.  create    *)
(* does not look at other bookings at all.                                 *)
(***************************************************************************)
EXTENDS Naturals, FiniteSets

CONSTANTS
    Users,      \* users with an account
    Owner,      \* the owner of the property
    Visitors,   \* users that book
    Bookings,   \* primary keys the bookings table may give out
    Blocks,     \* primary keys the availability blocks may get
    Slots,      \* requests the server handles at the same time
    LastDay,    \* dates are the days 1 to LastDay
    None        \* SQL NULL: no user (a guest), no dates

ASSUME BookingsAssumption ==
    /\ Owner \in Users
    /\ Visitors \subseteq Users
    /\ None \notin Users
    /\ LastDay \in Nat

VARIABLES
    listed,     \* the property is in the properties table
    booking,    \* booking[b]: the row, status "NONE" when there is none
    block,      \* block[k]: the dates of a block, NoDates when there is none
    req,        \* req[s]: the request in slot s
    heard,      \* bookings whose owner has a notification of them
    told,       \* told[b]: status in the latest notification of b's user
    (* history, never read by the code *)
    used,       \* primary keys given out
    unchecked,  \* <<b, k>>: came together with neither checked against the other
    muddled     \* bookings with a notice lost, or overtaken by another update

history == <<used, unchecked, muddled>>
vars == <<listed, booking, block, req, heard, told, history>>

BookingStatus == {"PENDING", "CONFIRMED", "CANCELLED", "COMPLETED", "REJECTED"}

Day == 1..LastDay
NoDates == [from |-> 0, to |-> 0]

\* The dates of a row.  Nothing orders a booking's two dates.  A viewing, an inquiry
\* and a booking without both dates have NoDates: every query skips these.
Dates == [from : Day, to : Day] \union {NoDates}

\* Blocks and bookings are compared with the same two conditions in both services.
Overlap(d, e) ==
    /\ d # NoDates /\ e # NoDates
    /\ d.from <= e.to
    /\ d.to >= e.from

Row == [user : Users \union {None}, dates : Dates,
        status : BookingStatus \union {"NONE"}]
NoRow == [user |-> None, dates |-> NoDates, status |-> "NONE"]

\* The statuses for which blockAvailability keeps the dates of a booking.
Holding == {"PENDING", "CONFIRMED"}

Holds(b) == booking[b].status \in Holding
Blocked == {k \in Blocks : block[k] # NoDates}

\* seen is history: the rows the request's check has looked at.
Request == [pc : {"idle", "insert", "notifyOwner", "save", "notifyUser", "insertBlock",
                    "refused"},
            op : {"none", "create", "updateStatus", "cancel", "block"},
            user : Users \union {None}, dates : Dates,
            booking : Bookings \union {None}, status : BookingStatus \union {"NONE"},
            seen : SUBSET (Bookings \union Blocks)]
Idle == [pc |-> "idle", op |-> "none", user |-> None, dates |-> NoDates,
         booking |-> None, status |-> "NONE", seen |-> {}]

Init ==
    /\ listed = TRUE
    /\ booking = [b \in Bookings |-> NoRow]
    /\ block = [k \in Blocks |-> NoDates]
    /\ req = [s \in Slots |-> Idle]
    /\ heard = {}
    /\ told = [b \in Bookings |-> "NONE"]
    /\ used = {}
    /\ unchecked = {}
    /\ muddled = {}

-----------------------------------------------------------------------------
(* BookingsService.create: the property and the user are there, no block   *)
(* overlaps the dates; then the insert, then the owner's notification.     *)
(* The conversation with the owner belongs to the messages service.        *)

Create(s, u, dates) ==
    /\ req[s].pc = "idle"
    /\ listed
    /\ \A k \in Blocked : ~Overlap(block[k], dates)
    /\ req' = [req EXCEPT ![s] = [Idle EXCEPT !.pc = "insert", !.op = "create",
                                    !.user = u, !.dates = dates, !.seen = Blocked]]
    /\ UNCHANGED <<listed, booking, block, heard, told, history>>

\* The foreign key refuses the insert when the property is gone (see Abort).
Insert(s, b) ==
    /\ req[s].pc = "insert"
    /\ listed
    /\ b \notin used
    /\ booking' = [booking EXCEPT ![b] = [user |-> req[s].user,
                                          dates |-> req[s].dates,
                                          status |-> "PENDING"]]
    /\ req' = [req EXCEPT ![s] = [Idle EXCEPT !.pc = "notifyOwner", !.op = "create",
                                              !.booking = b]]
    /\ used' = used \union {b}
    /\ unchecked' = unchecked \union ({b} \X (Blocked \ req[s].seen))
    /\ UNCHANGED <<listed, block, heard, told, muddled>>

NotifyOwner(s) ==
    /\ req[s].pc = "notifyOwner"
    /\ heard' = heard \union {req[s].booking}
    /\ req' = [req EXCEPT ![s] = Idle]
    /\ UNCHANGED <<listed, booking, block, told, history>>

-----------------------------------------------------------------------------
(* updateStatus and cancel read the booking, check the caller and save the *)
(* new status.  Nothing looks at the status the booking has, or at blocks. *)

\* What a request needs of the booking it has read to save and report.
Saving(op, b, status) ==
    [Idle EXCEPT !.pc = "save", !.op = op, !.booking = b, !.user = booking[b].user,
                 !.status = status]

\* (mutant) a body without a status writes NULL
UpdateStatusNull(s, u, b, status) ==
    /\ req[s].pc = "idle"
    /\ booking[b].status # "NONE"
    /\ u = Owner
    /\ req' = [req EXCEPT ![s] = Saving("updateStatus", b, None)]
    /\ UNCHANGED <<listed, booking, block, heard, told, history>>

UpdateStatus(s, u, b, status) ==
    /\ req[s].pc = "idle"
    /\ booking[b].status # "NONE"
    /\ u = Owner
    /\ req' = [req EXCEPT ![s] = Saving("updateStatus", b, status)]
    /\ UNCHANGED <<listed, booking, block, heard, told, history>>

\* The route has no guard, so req.user is never set, whoever calls.
CancellingUser(u) == None

\* (mutant) no booking is asked whose it is
CancelAny(s, u, b) ==
    /\ req[s].pc = "idle"
    /\ booking[b].status # "NONE"
    /\ req' = [req EXCEPT ![s] = Saving("cancel", b, "CANCELLED")]
    /\ UNCHANGED <<listed, booking, block, heard, told, history>>

Cancel(s, u, b) ==
    /\ req[s].pc = "idle"
    /\ booking[b].status # "NONE"
    /\ req' = [req EXCEPT ![s] =
                 IF booking[b].user = CancellingUser(u)
                 THEN Saving("cancel", b, "CANCELLED")
                 ELSE [Idle EXCEPT !.pc = "refused", !.op = "cancel", !.booking = b,
                                   !.user = u]]
    /\ UNCHANGED <<listed, booking, block, heard, told, history>>

\* The answer to a cancellation that is refused: 400.
Refuse(s) ==
    /\ req[s].pc = "refused"
    /\ req' = [req EXCEPT ![s] = Idle]
    /\ UNCHANGED <<listed, booking, block, heard, told, history>>

\* Requests whose save of b is done and whose notification is not.
Reporting(b) == {s \in Slots : req[s].pc = "notifyUser" /\ req[s].booking = b}

\* save of a row that is gone is an insert, which the foreign key refuses.
Save(s) ==
    LET b == req[s].booking
        reopened == ~Holds(b) /\ req[s].status \in Holding
    IN
    /\ req[s].pc = "save"
    /\ booking[b].status # "NONE"
    /\ booking' = [booking EXCEPT ![b].status = req[s].status]
    /\ req' = [req EXCEPT ![s] =
                 IF req[s].op = "updateStatus" /\ req[s].user # None
                 THEN [@ EXCEPT !.pc = "notifyUser"] ELSE Idle]
    /\ unchecked' = IF reopened THEN unchecked \union ({b} \X Blocked) ELSE unchecked
    /\ muddled' = IF Reporting(b) # {} THEN muddled \union {b} ELSE muddled
    /\ UNCHANGED <<listed, block, heard, told, used>>

NotifyUser(s) ==
    /\ req[s].pc = "notifyUser"
    /\ told' = [told EXCEPT ![req[s].booking] = req[s].status]
    /\ req' = [req EXCEPT ![s] = Idle]
    /\ UNCHANGED <<listed, booking, block, heard, history>>

-----------------------------------------------------------------------------
(* PropertiesService.blockAvailability, removeAvailabilityBlock, remove:   *)
(* called by the owner or an administrator, the check is on both alike.    *)

\* (mutant) only a confirmed booking keeps its dates
BlockUnconfirmed(s, dates) ==
    /\ req[s].pc = "idle"
    /\ listed
    /\ dates # NoDates /\ dates.from <= dates.to
    /\ \A b \in Bookings : booking[b].status = "CONFIRMED" =>
                              ~Overlap(booking[b].dates, dates)
    /\ req' = [req EXCEPT ![s] = [Idle EXCEPT !.pc = "insertBlock", !.op = "block",
                                    !.dates = dates, !.seen = {b \in Bookings : Holds(b)}]]
    /\ UNCHANGED <<listed, booking, block, heard, told, history>>

BlockAvailability(s, dates) ==
    /\ req[s].pc = "idle"
    /\ listed
    /\ dates # NoDates /\ dates.from <= dates.to
    /\ \A b \in Bookings : Holds(b) => ~Overlap(booking[b].dates, dates)
    /\ req' = [req EXCEPT ![s] = [Idle EXCEPT !.pc = "insertBlock", !.op = "block",
                                    !.dates = dates, !.seen = {b \in Bookings : Holds(b)}]]
    /\ UNCHANGED <<listed, booking, block, heard, told, history>>

InsertBlock(s, k) ==
    /\ req[s].pc = "insertBlock"
    /\ listed
    /\ k \notin used
    /\ block' = [block EXCEPT ![k] = req[s].dates]
    /\ req' = [req EXCEPT ![s] = Idle]
    /\ used' = used \union {k}
    /\ unchecked' = unchecked \union ({b \in Bookings : Holds(b) /\ b \notin req[s].seen}
                                        \X {k})
    /\ UNCHANGED <<listed, booking, heard, told, muddled>>

RemoveBlock(k) ==
    /\ k \in Blocked
    /\ block' = [block EXCEPT ![k] = NoDates]
    /\ unchecked' = unchecked \ (Bookings \X {k})
    /\ UNCHANGED <<listed, booking, req, heard, told, used, muddled>>

\* The foreign keys of both tables delete their rows with the property.
DeleteProperty ==
    /\ listed
    /\ listed' = FALSE
    /\ booking' = [b \in Bookings |-> NoRow]
    /\ block' = [k \in Blocks |-> NoDates]
    /\ unchecked' = {}
    /\ muddled' = {}
    /\ UNCHANGED <<req, heard, told, used>>

\* A database call fails (for a notification: the failure is swallowed), or the
\* process dies: what was saved stays, and nobody is notified of it.
Abort(s) ==
    /\ req[s].pc # "idle"
    /\ req' = [req EXCEPT ![s] = Idle]
    /\ muddled' = IF req[s].pc \in {"notifyOwner", "notifyUser"}
                  THEN muddled \union {req[s].booking} ELSE muddled
    /\ UNCHANGED <<listed, booking, block, heard, told, used, unchecked>>

-----------------------------------------------------------------------------

Next ==
    \/ \E s \in Slots, dates \in Dates :
           \/ \E u \in Visitors \union {None} : Create(s, u, dates)
           \/ BlockAvailability(s, dates)
    \/ \E s \in Slots, u \in Users \union {None}, b \in Bookings :
           \/ \E status \in BookingStatus : UpdateStatus(s, u, b, status)
           \/ Cancel(s, u, b)
    \/ \E s \in Slots :
           \/ \E b \in Bookings : Insert(s, b)
           \/ \E k \in Blocks : InsertBlock(s, k)
           \/ NotifyOwner(s) \/ Save(s) \/ NotifyUser(s) \/ Refuse(s) \/ Abort(s)
    \/ \E k \in Blocks : RemoveBlock(k)
    \/ DeleteProperty

Spec == Init /\ [][Next]_vars

-----------------------------------------------------------------------------
(* Properties                                                              *)

TypeOK ==
    /\ listed \in BOOLEAN
    /\ booking \in [Bookings -> Row]
    /\ block \in [Blocks -> Dates]
    /\ req \in [Slots -> Request]
    /\ heard \subseteq Bookings
    /\ told \in [Bookings -> BookingStatus \union {"NONE"}]
    /\ used \subseteq Bookings \union Blocks
    /\ unchecked \subseteq Bookings \X Blocks
    /\ muddled \subseteq Bookings

\* create and blockAvailability keep a pending or confirmed booking and a block
\* apart, also when their dates only touch or a booking's dates are inverted.
\* Only two requests that ran at the same time, or an owner who reopens a
\* closed booking, bring the two together.
BlockedMeansFree ==
    \A b \in Bookings, k \in Blocks :
        Holds(b) /\ Overlap(booking[b].dates, block[k]) => <<b, k>> \in unchecked

\* The last notification of a booking's user tells the status the booking has,
\* and the owner has one of every booking, unless a notification was lost or
\* two updates of the booking ran at the same time.
NotificationsFollow ==
    \A b \in Bookings \ muddled :
        booking[b].status # "NONE" =>
            /\ b \in heard \/ \E s \in Slots : /\ req[s].pc = "notifyOwner"
                                               /\ req[s].booking = b
            /\ booking[b].user # None /\ Reporting(b) = {} =>
                   booking[b].status = IF told[b] = "NONE" THEN "PENDING" ELSE told[b]

\* The controller says the route cancels for users with an account, too.
OwnCancelAccepted ==
    \A s \in Slots :
        req[s].pc = "refused" /\ booking[req[s].booking].status # "NONE" =>
            booking[req[s].booking].user # req[s].user
=============================================================================
