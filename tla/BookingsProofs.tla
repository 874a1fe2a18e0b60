--------------------------- MODULE BookingsProofs ---------------------------
(***************************************************************************)
(* Proofs about Bookings, for any number of users, bookings, blocks, days  *)
(* and concurrent requests.                                                *)
(***************************************************************************)
EXTENDS Bookings, TLAPS

(* ----------------------------- Type correctness ------------------------ *)

LEMMA IdleType == Idle \in Request
  BY DEF Idle, Request, Dates

LEMMA NoRowType == NoRow \in Row
  BY DEF NoRow, Row, Dates

LEMMA CreateType ==
    ASSUME TypeOK, NEW s \in Slots, NEW dates \in Dates,
           NEW u \in Visitors \union {None}, Create(s, u, dates)
    PROVE  TypeOK'
  <1>1. u \in Users \union {None}
    BY BookingsAssumption DEF BookingsAssumption
  <1>2. [Idle EXCEPT !.pc = "insert", !.op = "create", !.user = u, !.dates = dates,
                     !.seen = Blocked] \in Request
    BY <1>1 DEF Idle, Request, Blocked
  <1> QED
    BY <1>2 DEF TypeOK, Create, history

LEMMA InsertType ==
    ASSUME TypeOK, NEW s \in Slots, NEW b \in Bookings, Insert(s, b)
    PROVE  TypeOK'
  <1>1. req[s] \in Request
    BY DEF TypeOK
  <1>2. [user |-> req[s].user, dates |-> req[s].dates, status |-> "PENDING"] \in Row
    BY <1>1 DEF Request, Row, BookingStatus
  <1>3. [Idle EXCEPT !.pc = "notifyOwner", !.op = "create", !.booking = b] \in Request
    BY DEF Idle, Request, Dates
  <1>4. {b} \X (Blocked \ req[s].seen) \subseteq Bookings \X Blocks
    BY DEF Blocked
  <1> QED
    BY <1>2, <1>3, <1>4 DEF TypeOK, Insert

LEMMA BeginTypes ==
    ASSUME TypeOK, NEW s \in Slots, NEW u \in Users \union {None},
           NEW b \in Bookings, NEW status \in BookingStatus,
           UpdateStatus(s, u, b, status) \/ Cancel(s, u, b)
    PROVE  TypeOK'
  <1>1. booking[b] \in Row
    BY DEF TypeOK
  <1>2. \A op \in {"updateStatus", "cancel"}, st \in BookingStatus :
            Saving(op, b, st) \in Request
    BY <1>1 DEF Saving, Idle, Request, Row, Dates
  <1>3. [Idle EXCEPT !.pc = "refused", !.op = "cancel", !.booking = b, !.user = u]
            \in Request
    BY DEF Idle, Request, Dates
  <1>4. "CANCELLED" \in BookingStatus
    BY DEF BookingStatus
  <1>5. req' \in [Slots -> Request]
    BY <1>2, <1>3, <1>4 DEF TypeOK, UpdateStatus, Cancel
  <1> QED
    BY <1>5 DEF TypeOK, UpdateStatus, Cancel, history

LEMMA BlockTypes ==
    ASSUME TypeOK, NEW s \in Slots, NEW dates \in Dates, BlockAvailability(s, dates)
    PROVE  TypeOK'
  <1>1. [Idle EXCEPT !.pc = "insertBlock", !.op = "block", !.dates = dates,
                     !.seen = {b \in Bookings : Holds(b)}] \in Request
    BY DEF Idle, Request
  <1> QED
    BY <1>1 DEF TypeOK, BlockAvailability, history

LEMMA InsertBlockType ==
    ASSUME TypeOK, NEW s \in Slots, NEW k \in Blocks, InsertBlock(s, k)
    PROVE  TypeOK'
  <1>1. req[s] \in Request
    BY DEF TypeOK
  <1>2. req[s].dates \in Dates
    BY <1>1 DEF Request
  <1>3. {b \in Bookings : Holds(b) /\ b \notin req[s].seen} \X {k} \subseteq Bookings \X Blocks
    OBVIOUS
  <1> QED
    BY <1>2, <1>3, IdleType DEF TypeOK, InsertBlock

\* The requests that are to write about a booking name one.
Pointed ==
    \A s \in Slots :
        /\ req[s].pc \in {"notifyOwner", "save", "notifyUser"} => req[s].booking \in Bookings
        /\ req[s].pc \in {"save", "notifyUser"} => req[s].status \in BookingStatus

Typed == TypeOK /\ Pointed

LEMMA SaveType ==
    ASSUME Typed, NEW s \in Slots, Save(s)
    PROVE  TypeOK'
  <1>1. PICK b \in Bookings : b = req[s].booking
    BY DEF Typed, Pointed, Save
  <1>2. /\ req[s] \in Request
        /\ req[s].status \in BookingStatus
    BY DEF Typed, TypeOK, Pointed, Save
  <1>3. [req[s] EXCEPT !.pc = "notifyUser"] \in Request
    BY <1>2 DEF Request
  <1>4. req' \in [Slots -> Request]
    BY <1>3, IdleType DEF Typed, TypeOK, Save
  <1>5. booking[b] \in Row
    BY DEF Typed, TypeOK
  <1>6. [booking[b] EXCEPT !.status = req[s].status] \in Row
    BY <1>2, <1>5 DEF Row
  <1>7. booking' \in [Bookings -> Row]
    BY <1>1, <1>6 DEF Typed, TypeOK, Save
  <1>8. {b} \X Blocked \subseteq Bookings \X Blocks
    BY DEF Blocked
  <1>9. unchecked' \subseteq Bookings \X Blocks /\ muddled' \subseteq Bookings
    BY <1>1, <1>8 DEF Typed, TypeOK, Save
  <1> QED
    BY <1>4, <1>7, <1>9 DEF Typed, TypeOK, Save

LEMMA OtherTypes ==
    ASSUME Typed,
           \/ \E s \in Slots : NotifyOwner(s) \/ NotifyUser(s) \/ Refuse(s) \/ Abort(s)
           \/ \E k \in Blocks : RemoveBlock(k)
           \/ DeleteProperty
    PROVE  TypeOK'
  <1>1. ASSUME NEW s \in Slots, NotifyOwner(s) \/ NotifyUser(s) \/ Refuse(s) \/ Abort(s)
        PROVE  TypeOK'
    <2>1. req' \in [Slots -> Request]
      BY <1>1, IdleType DEF Typed, TypeOK, NotifyOwner, NotifyUser, Refuse, Abort
    <2>2. heard' \subseteq Bookings /\ muddled' \subseteq Bookings
      BY <1>1 DEF Typed, TypeOK, Pointed, NotifyOwner, NotifyUser, Refuse, Abort, history
    <2>3. told' \in [Bookings -> BookingStatus \union {"NONE"}]
      BY <1>1 DEF Typed, TypeOK, Pointed, NotifyOwner, NotifyUser, Refuse, Abort
    <2> QED
      BY <1>1, <2>1, <2>2, <2>3
      DEF Typed, TypeOK, NotifyOwner, NotifyUser, Refuse, Abort, history
  <1>2. ASSUME NEW k \in Blocks, RemoveBlock(k)
        PROVE  TypeOK'
    <2>1. NoDates \in Dates
      BY DEF Dates
    <2> QED
      BY <1>2, <2>1 DEF Typed, TypeOK, RemoveBlock
  <1>3. ASSUME DeleteProperty
        PROVE  TypeOK'
    <2>1. NoDates \in Dates
      BY DEF Dates
    <2> QED
      BY <1>3, <2>1, NoRowType DEF Typed, TypeOK, DeleteProperty
  <1> QED
    BY <1>1, <1>2, <1>3

\* Names the cases of Next, to be cited by the proofs that go through them.
LEMMA StepCases ==
    ASSUME Next
    PROVE  \/ \E s \in Slots, dates \in Dates, u \in Visitors \union {None} :
                  Create(s, u, dates)
           \/ \E s \in Slots, dates \in Dates : BlockAvailability(s, dates)
           \/ \E s \in Slots, u \in Users \union {None}, b \in Bookings,
                 status \in BookingStatus :
                  UpdateStatus(s, u, b, status) \/ Cancel(s, u, b)
           \/ \E s \in Slots, b \in Bookings : Insert(s, b)
           \/ \E s \in Slots, k \in Blocks : InsertBlock(s, k)
           \/ \E s \in Slots : Save(s)
           \/ \E s \in Slots : NotifyOwner(s) \/ NotifyUser(s) \/ Refuse(s) \/ Abort(s)
           \/ \E k \in Blocks : RemoveBlock(k)
           \/ DeleteProperty
  <1>1. "PENDING" \in BookingStatus
    BY DEF BookingStatus
  <1> QED
    BY <1>1, Zenon DEF Next

LEMMA TypeStep ==
    ASSUME Typed, [Next]_vars
    PROVE  TypeOK'
  <1>1. CASE UNCHANGED vars
    BY <1>1 DEF vars, history, Typed, TypeOK, Holds
  <1>2. CASE Next
    <2>0. TypeOK
      BY DEF Typed
    <2>1. ASSUME NEW s \in Slots, NEW dates \in Dates, NEW u \in Visitors \union {None},
                 Create(s, u, dates)
          PROVE  TypeOK'
      BY <2>0, <2>1, CreateType
    <2>2. ASSUME NEW s \in Slots, NEW dates \in Dates, BlockAvailability(s, dates)
          PROVE  TypeOK'
      BY <2>0, <2>2, BlockTypes
    <2>3. ASSUME NEW s \in Slots, NEW u \in Users \union {None}, NEW b \in Bookings,
                 NEW status \in BookingStatus, UpdateStatus(s, u, b, status) \/ Cancel(s, u, b)
          PROVE  TypeOK'
      BY <2>0, <2>3, BeginTypes
    <2>4. ASSUME NEW s \in Slots, NEW b \in Bookings, Insert(s, b)
          PROVE  TypeOK'
      BY <2>0, <2>4, InsertType
    <2>5. ASSUME NEW s \in Slots, NEW k \in Blocks, InsertBlock(s, k)
          PROVE  TypeOK'
      BY <2>0, <2>5, InsertBlockType
    <2>6. ASSUME NEW s \in Slots, Save(s)
          PROVE  TypeOK'
      BY <2>6, SaveType
    <2>7. ASSUME NEW s \in Slots, NotifyOwner(s) \/ NotifyUser(s) \/ Refuse(s) \/ Abort(s)
          PROVE  TypeOK'
      BY <2>7, OtherTypes
    <2>8. ASSUME DeleteProperty \/ \E k \in Blocks : RemoveBlock(k)
          PROVE  TypeOK'
      BY <2>8, OtherTypes
    <2> QED
      BY <1>2, StepCases, <2>1, <2>2, <2>3, <2>4, <2>5, <2>6, <2>7, <2>8, Zenon
  <1> QED
    BY <1>1, <1>2

LEMMA PointedStep ==
    ASSUME Typed, [Next]_vars
    PROVE  Pointed'
  <1>1. CASE UNCHANGED vars
    BY <1>1 DEF vars, Typed, Pointed
  <1>2. CASE Next
    <2> DEFINE Fits(r) ==
                 /\ r.pc \in {"notifyOwner", "save", "notifyUser"} => r.booking \in Bookings
                 /\ r.pc \in {"save", "notifyUser"} => r.status \in BookingStatus
    <2> SUFFICES \A t \in Slots : Fits(req'[t])
      BY DEF Pointed
    <2>0. \A t \in Slots : Fits(req[t]) /\ req[t] \in Request
      BY DEF Typed, TypeOK, Pointed
    <2>1. ASSUME NEW s \in Slots, NEW dates \in Dates, NEW u \in Visitors \union {None},
                 Create(s, u, dates)
          PROVE  \A t \in Slots : Fits(req'[t])
      BY <2>0, <2>1 DEF Create, Idle, Typed, TypeOK
    <2>2. ASSUME NEW s \in Slots, NEW dates \in Dates, BlockAvailability(s, dates)
          PROVE  \A t \in Slots : Fits(req'[t])
      BY <2>0, <2>2 DEF BlockAvailability, Idle, Typed, TypeOK
    <2>3. ASSUME NEW s \in Slots, NEW u \in Users \union {None}, NEW b \in Bookings,
                 NEW status \in BookingStatus, UpdateStatus(s, u, b, status) \/ Cancel(s, u, b)
          PROVE  \A t \in Slots : Fits(req'[t])
      <3>1. \A op \in {"updateStatus", "cancel"}, st \in BookingStatus :
                Fits(Saving(op, b, st))
        BY DEF Saving, Idle
      <3>2. Fits([Idle EXCEPT !.pc = "refused", !.op = "cancel", !.booking = b, !.user = u])
        BY DEF Idle
      <3>3. "CANCELLED" \in BookingStatus
        BY DEF BookingStatus
      <3> HIDE DEF Fits
      <3> QED
        BY <2>0, <2>3, <3>1, <3>2, <3>3 DEF UpdateStatus, Cancel, Typed, TypeOK
    <2>4. ASSUME NEW s \in Slots, NEW b \in Bookings, Insert(s, b)
          PROVE  \A t \in Slots : Fits(req'[t])
      BY <2>0, <2>4 DEF Insert, Idle, Typed, TypeOK
    <2>5. ASSUME NEW s \in Slots, NEW k \in Blocks, InsertBlock(s, k)
          PROVE  \A t \in Slots : Fits(req'[t])
      BY <2>0, <2>5 DEF InsertBlock, Idle, Typed, TypeOK
    <2>6. ASSUME NEW s \in Slots, Save(s)
          PROVE  \A t \in Slots : Fits(req'[t])
      BY <2>0, <2>6 DEF Save, Idle, Typed, TypeOK, Request
    <2>7. ASSUME NEW s \in Slots, NotifyOwner(s) \/ NotifyUser(s) \/ Refuse(s) \/ Abort(s)
          PROVE  \A t \in Slots : Fits(req'[t])
      BY <2>0, <2>7 DEF NotifyOwner, NotifyUser, Refuse, Abort, Idle, Typed, TypeOK
    <2>8. ASSUME DeleteProperty \/ \E k \in Blocks : RemoveBlock(k)
          PROVE  \A t \in Slots : Fits(req'[t])
      BY <2>0, <2>8 DEF DeleteProperty, RemoveBlock
    <2> HIDE DEF Fits
    <2> QED
      BY <1>2, StepCases, <2>1, <2>2, <2>3, <2>4, <2>5, <2>6, <2>7, <2>8, Zenon
  <1> QED
    BY <1>1, <1>2

\* Typed is an invariant, for the proofs that build on it.
LEMMA AlwaysTyped == Spec => []Typed
  <1>1. Init => Typed
    <2> SUFFICES ASSUME Init PROVE Typed
      OBVIOUS
    <2>1. NoDates \in Dates
      BY DEF Dates
    <2>2. TypeOK
      BY <2>1, IdleType, NoRowType DEF Init, TypeOK
    <2>3. Pointed
      BY DEF Init, Pointed, Idle
    <2> QED
      BY <2>2, <2>3 DEF Typed
  <1>2. Typed /\ [Next]_vars => Typed'
    BY TypeStep, PointedStep DEF Typed
  <1> QED
    BY <1>1, <1>2, PTL DEF Spec

\* The tables and the requests keep their types: no failure and no overtaking
\* leaves a row or a request half made.
THEOREM TypeCorrect == Spec => []TypeOK
  <1>1. Typed => TypeOK
    BY DEF Typed
  <1> QED
    BY AlwaysTyped, <1>1, PTL

(* ---------------- Bookings and blocks are kept apart ------------------- *)

\* Every row there is has had its primary key given out, so no key comes back.
Dealt ==
    /\ \A b \in Bookings : booking[b].status # "NONE" => b \in used
    /\ \A k \in Blocked : k \in used

\* A request about to insert is still clear of all it has looked at: the rows
\* it has seen may go, but none of them changes its dates.
Clear ==
    \A s \in Slots :
        /\ req[s].pc \in {"insert", "insertBlock"} => req[s].seen \subseteq used
        /\ req[s].pc = "insert" =>
               \A k \in Blocked \intersect req[s].seen : ~Overlap(req[s].dates, block[k])
        /\ req[s].pc = "insertBlock" =>
               \A b \in Bookings \intersect req[s].seen :
                   booking[b].status # "NONE" => ~Overlap(booking[b].dates, req[s].dates)

Apart == Dealt /\ Clear /\ BlockedMeansFree

LEMMA OverlapSymmetric ==
    ASSUME NEW d \in Dates, NEW e \in Dates
    PROVE  Overlap(d, e) <=> Overlap(e, d)
  BY BookingsAssumption DEF Overlap, Dates, NoDates, Day, BookingsAssumption

LEMMA CreateApart ==
    ASSUME Typed, Apart, NEW s \in Slots, NEW dates \in Dates,
           NEW u \in Visitors \union {None}, Create(s, u, dates)
    PROVE  Apart'
  <1>1. /\ UNCHANGED <<booking, block, used, unchecked>>
        /\ Blocked' = Blocked
    BY DEF Create, history, Blocked
  <1>2. Dealt' /\ BlockedMeansFree'
    BY <1>1 DEF Apart, Dealt, BlockedMeansFree, Holds
  <1>3. \A k \in Blocked : ~Overlap(dates, block[k])
    BY OverlapSymmetric DEF Create, Blocked, Typed, TypeOK
  <1>4. /\ req'[s].pc = "insert" /\ req'[s].seen = Blocked /\ req'[s].dates = dates
        /\ \A t \in Slots \ {s} : req'[t] = req[t]
    BY DEF Create, Idle, Typed, TypeOK
  <1>5. Clear'
    BY <1>1, <1>3, <1>4 DEF Apart, Dealt, Clear, Blocked
  <1> QED
    BY <1>2, <1>5 DEF Apart

LEMMA BlockApart ==
    ASSUME Typed, Apart, NEW s \in Slots, NEW dates \in Dates, BlockAvailability(s, dates)
    PROVE  Apart'
  <1>1. /\ UNCHANGED <<booking, block, used, unchecked>>
        /\ Blocked' = Blocked
    BY DEF BlockAvailability, history, Blocked
  <1>2. Dealt' /\ BlockedMeansFree'
    BY <1>1 DEF Apart, Dealt, BlockedMeansFree, Holds
  <1>3. /\ req'[s].pc = "insertBlock" /\ req'[s].seen = {b \in Bookings : Holds(b)}
        /\ req'[s].dates = dates
        /\ \A t \in Slots \ {s} : req'[t] = req[t]
    BY DEF BlockAvailability, Idle, Typed, TypeOK
  <1>4. \A b \in req'[s].seen : b \in used /\ ~Overlap(booking[b].dates, dates)
    BY <1>3 DEF BlockAvailability, Apart, Dealt, Holds, Holding
  <1>5. Clear'
    BY <1>1, <1>3, <1>4 DEF Apart, Clear
  <1> QED
    BY <1>2, <1>5 DEF Apart

LEMMA InsertApart ==
    ASSUME Typed, Apart, NEW s \in Slots, NEW b \in Bookings, Insert(s, b)
    PROVE  Apart'
  <1>1. /\ UNCHANGED block /\ Blocked' = Blocked
        /\ booking'[b].dates = req[s].dates
        /\ \A c \in Bookings \ {b} : booking'[c] = booking[c]
        /\ used' = used \union {b} /\ b \notin used
        /\ unchecked' = unchecked \union ({b} \X (Blocked \ req[s].seen))
    BY DEF Insert, Blocked, Typed, TypeOK
  <1>2. /\ req'[s].pc = "notifyOwner"
        /\ \A t \in Slots \ {s} : req'[t] = req[t]
    BY DEF Insert, Idle, Typed, TypeOK
  <1>3. Dealt'
    BY <1>1 DEF Apart, Dealt
  <1>4. Clear'
    BY <1>1, <1>2 DEF Apart, Clear
  <1>5. BlockedMeansFree'
    <2> SUFFICES ASSUME NEW c \in Bookings, NEW k \in Blocks, Holds(c)',
                        Overlap(booking[c].dates, block[k])'
                 PROVE  <<c, k>> \in unchecked'
      BY DEF BlockedMeansFree
    <2>1. CASE c = b
      <3>1. k \in Blocked
        BY <1>1 DEF Overlap, Blocked
      <3>2. k \notin req[s].seen
        BY <1>1, <2>1, <3>1 DEF Apart, Clear, Insert
      <3> QED
        BY <1>1, <2>1, <3>1, <3>2
    <2>2. CASE c # b
      BY <1>1, <2>2 DEF Apart, BlockedMeansFree, Holds
    <2> QED
      BY <2>1, <2>2
  <1> QED
    BY <1>3, <1>4, <1>5 DEF Apart

LEMMA InsertBlockApart ==
    ASSUME Typed, Apart, NEW s \in Slots, NEW k \in Blocks, InsertBlock(s, k)
    PROVE  Apart'
  <1>1. /\ UNCHANGED booking
        /\ block'[k] = req[s].dates
        /\ \A l \in Blocks \ {k} : block'[l] = block[l]
        /\ used' = used \union {k} /\ k \notin used
        /\ unchecked' = unchecked \union
               ({b \in Bookings : Holds(b) /\ b \notin req[s].seen} \X {k})
    BY DEF InsertBlock, Typed, TypeOK
  <1>2. /\ req'[s].pc = "idle"
        /\ \A t \in Slots \ {s} : req'[t] = req[t]
    BY DEF InsertBlock, Idle, Typed, TypeOK
  <1>3. Dealt'
    BY <1>1 DEF Apart, Dealt, Blocked
  <1>4. Clear'
    BY <1>1, <1>2 DEF Apart, Clear, Blocked
  <1>5. BlockedMeansFree'
    <2> SUFFICES ASSUME NEW c \in Bookings, NEW l \in Blocks, Holds(c)',
                        Overlap(booking[c].dates, block[l])'
                 PROVE  <<c, l>> \in unchecked'
      BY DEF BlockedMeansFree
    <2>1. Holds(c) /\ booking[c].status # "NONE"
      BY <1>1 DEF Holds, Holding
    <2>2. CASE l = k
      <3>1. c \notin req[s].seen
        BY <1>1, <2>1, <2>2 DEF Apart, Clear, InsertBlock
      <3> QED
        BY <1>1, <2>1, <2>2, <3>1
    <2>3. CASE l # k
      BY <1>1, <2>1, <2>3 DEF Apart, BlockedMeansFree
    <2> QED
      BY <2>2, <2>3
  <1> QED
    BY <1>3, <1>4, <1>5 DEF Apart

LEMMA SaveApart ==
    ASSUME Typed, Apart, NEW s \in Slots, Save(s)
    PROVE  Apart'
  <1>1. PICK b \in Bookings : b = req[s].booking
    BY DEF Typed, Pointed, Save
  <1>2. /\ booking[b].status # "NONE"
        /\ booking'[b].status = req[s].status /\ booking'[b].dates = booking[b].dates
        /\ \A c \in Bookings \ {b} : booking'[c] = booking[c]
        /\ UNCHANGED <<block, used>> /\ Blocked' = Blocked
    BY <1>1 DEF Save, Blocked, Typed, TypeOK, Row
  <1>3. req'[s].pc \in {"idle", "notifyUser"} /\ \A t \in Slots \ {s} : req'[t] = req[t]
    BY DEF Save, Idle, Typed, TypeOK, Request
  <1>4. Dealt'
    BY <1>2 DEF Apart, Dealt
  <1>5. Clear'
    BY <1>2, <1>3 DEF Apart, Clear
  <1>6. BlockedMeansFree'
    <2> SUFFICES ASSUME NEW c \in Bookings, NEW k \in Blocks, Holds(c)',
                        Overlap(booking[c].dates, block[k])'
                 PROVE  <<c, k>> \in unchecked'
      BY DEF BlockedMeansFree
    <2>1. unchecked \subseteq unchecked'
      BY DEF Save
    <2>2. CASE Holds(c)
      BY <1>2, <2>1, <2>2 DEF Apart, BlockedMeansFree
    <2>3. CASE ~Holds(c)
      <3>1. c = b /\ req[s].status \in Holding
        BY <1>2, <2>3 DEF Holds
      <3>2. k \in Blocked
        BY <1>2 DEF Overlap, Blocked
      <3> QED
        BY <1>1, <2>3, <3>1, <3>2 DEF Save
    <2> QED
      BY <2>2, <2>3
  <1> QED
    BY <1>4, <1>5, <1>6 DEF Apart

LEMMA OtherApart ==
    ASSUME Typed, Apart, NEW s \in Slots,
           \/ NotifyOwner(s) \/ NotifyUser(s) \/ Refuse(s) \/ Abort(s)
           \/ \E u \in Users \union {None}, b \in Bookings, status \in BookingStatus :
                  UpdateStatus(s, u, b, status) \/ Cancel(s, u, b)
    PROVE  Apart'
  <1>1. UNCHANGED <<booking, block, used, unchecked>>
    BY DEF NotifyOwner, NotifyUser, Refuse, Abort, UpdateStatus, Cancel, history
  <1>2. /\ req'[s].pc \notin {"insert", "insertBlock"}
        /\ \A t \in Slots \ {s} : req'[t] = req[t]
    <2>1. CASE NotifyOwner(s) \/ NotifyUser(s) \/ Refuse(s) \/ Abort(s)
      BY <2>1 DEF NotifyOwner, NotifyUser, Refuse, Abort, Idle, Typed, TypeOK
    <2>2. ASSUME NEW u \in Users \union {None}, NEW b \in Bookings,
                 NEW status \in BookingStatus, UpdateStatus(s, u, b, status) \/ Cancel(s, u, b)
          PROVE  /\ req'[s].pc \notin {"insert", "insertBlock"}
                 /\ \A t \in Slots \ {s} : req'[t] = req[t]
      <3>1. \A op \in {"updateStatus", "cancel"}, st \in BookingStatus :
                Saving(op, b, st).pc = "save"
        BY DEF Saving, Idle
      <3>2. [Idle EXCEPT !.pc = "refused", !.op = "cancel", !.booking = b, !.user = u].pc
                = "refused"
        BY DEF Idle
      <3>3. "CANCELLED" \in BookingStatus
        BY DEF BookingStatus
      <3> QED
        BY <2>2, <3>1, <3>2, <3>3 DEF UpdateStatus, Cancel, Typed, TypeOK
    <2> QED
      BY <2>1, <2>2
  <1>3. Dealt' /\ BlockedMeansFree'
    BY <1>1 DEF Apart, Dealt, BlockedMeansFree, Holds, Blocked
  <1>4. Clear'
    BY <1>1, <1>2 DEF Apart, Clear, Blocked
  <1> QED
    BY <1>3, <1>4 DEF Apart

LEMMA RemovalApart ==
    ASSUME Typed, Apart, DeleteProperty \/ \E k \in Blocks : RemoveBlock(k)
    PROVE  Apart'
  <1>1. CASE DeleteProperty
    <2>1. /\ \A b \in Bookings : booking'[b] = NoRow
          /\ \A k \in Blocks : block'[k] = NoDates
          /\ UNCHANGED <<req, used>>
      BY <1>1 DEF DeleteProperty
    <2> QED
      BY <2>1 DEF Apart, Dealt, Clear, BlockedMeansFree, Blocked, NoRow, Overlap
  <1>2. CASE \E k \in Blocks : RemoveBlock(k)
    <2> PICK k \in Blocks : RemoveBlock(k)
      BY <1>2
    <2>1. /\ block'[k] = NoDates
          /\ \A l \in Blocks \ {k} : block'[l] = block[l]
          /\ UNCHANGED <<booking, req, used>>
          /\ unchecked' = unchecked \ (Bookings \X {k})
      BY DEF RemoveBlock, Typed, TypeOK
    <2>2. Dealt' /\ Clear'
      BY <2>1 DEF Apart, Dealt, Clear, Blocked
    <2>3. BlockedMeansFree'
      BY <2>1 DEF Apart, BlockedMeansFree, Holds, Overlap
    <2> QED
      BY <2>2, <2>3 DEF Apart
  <1> QED
    BY <1>1, <1>2

\* A pending or confirmed booking overlaps a block only when the two were
\* inserted by requests that overlapped, or the booking was reopened.
THEOREM KeptApart == Spec => []BlockedMeansFree
  <1>1. Init => Apart
    BY DEF Init, Apart, Dealt, Clear, BlockedMeansFree, Blocked, NoRow, Idle, Holds, Holding
  <1>2. Typed /\ Apart /\ [Next]_vars => Apart'
    <2> SUFFICES ASSUME Typed, Apart, [Next]_vars PROVE Apart'
      OBVIOUS
    <2>1. CASE UNCHANGED vars
      BY <2>1 DEF vars, history, Apart, Dealt, Clear, BlockedMeansFree, Blocked, Holds
    <2>2. CASE Next
      BY <2>2, StepCases, CreateApart, BlockApart, InsertApart, InsertBlockApart, SaveApart,
         OtherApart, RemovalApart, Zenon
    <2> QED
      BY <2>1, <2>2
  <1>3. Apart => BlockedMeansFree
    BY DEF Apart
  <1> QED
    BY <1>1, <1>2, <1>3, AlwaysTyped, PTL DEF Spec

(* ------------------- Notifications follow the row ---------------------- *)

\* Nothing has been written about a booking before it is inserted.
Fresh ==
    \A b \in Bookings \ used :
        /\ booking[b].status = "NONE"
        /\ told[b] = "NONE"
        /\ \A s \in Slots : req[s].pc \in {"notifyOwner", "save", "notifyUser"} =>
                                req[s].booking # b

\* A request that saves a status knows whose the booking is; cancel only ever
\* saves a guest's.
Knowing ==
    \A s \in Slots :
        LET b == req[s].booking IN
        req[s].pc \in {"save", "notifyUser"} /\ booking[b].status # "NONE" =>
            /\ req[s].user = booking[b].user
            /\ req[s].op = "updateStatus" \/ req[s].user = None

\* At most one request is about to report a booking that was not muddled, and
\* it reports the status the booking has.
Single ==
    \A b \in Bookings \ muddled :
        booking[b].status # "NONE" =>
            \A s \in Reporting(b) : /\ req[s].status = booking[b].status
                                    /\ \A t \in Reporting(b) : t = s

Follows == Fresh /\ Knowing /\ Single /\ NotificationsFollow

\* Steps that leave the bookings and what is said of them alone, and change no
\* request that has something to say.
LEMMA QuietFollows ==
    ASSUME Typed, Follows, NEW s \in Slots,
           UNCHANGED <<booking, heard, told, muddled>>,
           used \subseteq used',
           \A t \in Slots \ {s} : req'[t] = req[t],
           req[s].pc \notin {"notifyOwner", "notifyUser"},
           req'[s].pc \notin {"notifyOwner", "notifyUser"},
           req'[s].pc = "save" =>
               LET b == req'[s].booking IN
               /\ b \in Bookings
               /\ booking[b].status # "NONE"
               /\ req'[s].user = booking[b].user
               /\ req'[s].op = "updateStatus" \/ req'[s].user = None
    PROVE  Follows'
  <1>1. \A b \in Bookings : Reporting(b)' = Reporting(b)
    BY DEF Reporting
  <1>2. Fresh'
    BY DEF Follows, Fresh
  <1>3. Knowing'
    BY DEF Follows, Knowing
  <1>4. Single'
    BY <1>1 DEF Follows, Single, Reporting
  <1>5. NotificationsFollow'
    BY <1>1 DEF Follows, NotificationsFollow
  <1> QED
    BY <1>2, <1>3, <1>4, <1>5 DEF Follows

LEMMA InsertFollows ==
    ASSUME Typed, Follows, NEW s \in Slots, NEW b \in Bookings, Insert(s, b)
    PROVE  Follows'
  <1>1. /\ b \notin used /\ used' = used \union {b}
        /\ booking'[b].status = "PENDING"
        /\ \A c \in Bookings \ {b} : booking'[c] = booking[c]
        /\ UNCHANGED <<heard, told, muddled>>
    BY DEF Insert, Typed, TypeOK
  <1>2. /\ req[s].pc = "insert"
        /\ req'[s].pc = "notifyOwner" /\ req'[s].booking = b
        /\ \A t \in Slots \ {s} : req'[t] = req[t]
    BY DEF Insert, Idle, Typed, TypeOK
  <1>3. \A c \in Bookings : Reporting(c)' = Reporting(c)
    BY <1>2 DEF Reporting
  <1>4. Reporting(b) = {} /\ told[b] = "NONE"
    BY <1>1 DEF Follows, Fresh, Reporting
  <1>5. Fresh'
    BY <1>1, <1>2 DEF Follows, Fresh
  <1>6. Knowing'
    <2>1. \A t \in Slots : req'[t].pc \in {"save", "notifyUser"} =>
              /\ req'[t] = req[t] /\ req[t].booking \in Bookings \ {b}
      BY <1>1, <1>2 DEF Follows, Fresh, Typed, Pointed
    <2> QED
      BY <1>1, <2>1 DEF Follows, Knowing
  <1>7. Single'
    BY <1>1, <1>2, <1>3, <1>4 DEF Follows, Single, Reporting
  <1>8. NotificationsFollow'
    BY <1>1, <1>2, <1>3, <1>4 DEF Follows, NotificationsFollow
  <1> QED
    BY <1>5, <1>6, <1>7, <1>8 DEF Follows

LEMMA SaveFollows ==
    ASSUME Typed, Follows, NEW s \in Slots, Save(s)
    PROVE  Follows'
  <1>1. PICK b \in Bookings : b = req[s].booking
    BY DEF Typed, Pointed, Save
  <1>2. /\ booking[b].status # "NONE"
        /\ booking'[b].status = req[s].status /\ booking'[b].user = booking[b].user
        /\ \A c \in Bookings \ {b} : booking'[c] = booking[c]
        /\ UNCHANGED <<heard, told, used>>
        /\ muddled' = IF Reporting(b) # {} THEN muddled \union {b} ELSE muddled
    BY <1>1 DEF Save, Typed, TypeOK, Row
  <1>3. /\ req[s].pc = "save"
        /\ \/ /\ req'[s].pc = "notifyUser" /\ req'[s].booking = b
              /\ req'[s].user = req[s].user /\ req'[s].op = req[s].op
              /\ req'[s].status = req[s].status
           \/ /\ req'[s].pc = "idle"
              /\ req[s].op # "updateStatus" \/ req[s].user = None
        /\ \A t \in Slots \ {s} : req'[t] = req[t]
    BY <1>1 DEF Save, Idle, Typed, TypeOK, Request
  <1>4. req[s].user = booking[b].user /\ (req[s].op = "updateStatus" \/ req[s].user = None)
    BY <1>1, <1>2, <1>3 DEF Follows, Knowing
  <1>5. \A c \in Bookings \ {b} : Reporting(c)' = Reporting(c)
    BY <1>1, <1>3 DEF Reporting
  <1>6. Reporting(b)' \subseteq Reporting(b) \union {s}
    BY <1>3 DEF Reporting
  <1>7. req'[s].pc # "notifyUser" => booking[b].user = None
    BY <1>3, <1>4
  <1>8. Fresh'
    BY <1>1, <1>2, <1>3 DEF Follows, Fresh
  <1>9. Knowing'
    <2>1. ASSUME NEW t \in Slots, req'[t].pc \in {"save", "notifyUser"},
                 booking'[req'[t].booking].status # "NONE"
          PROVE  /\ req'[t].user = booking'[req'[t].booking].user
                 /\ req'[t].op = "updateStatus" \/ req'[t].user = None
      <3>1. CASE t = s
        BY <1>2, <1>3, <1>4, <2>1, <3>1
      <3>2. CASE t # s /\ req[t].booking = b
        BY <1>2, <1>3, <2>1, <3>2 DEF Follows, Knowing
      <3>3. CASE t # s /\ req[t].booking # b
        <4>1. req[t].booking \in Bookings
          BY <1>3, <2>1, <3>3 DEF Typed, Pointed
        <4> QED
          BY <1>2, <1>3, <2>1, <3>3, <4>1 DEF Follows, Knowing
      <3> QED
        BY <3>1, <3>2, <3>3
    <2> QED
      BY <2>1 DEF Knowing
  <1>10. Single'
    <2> SUFFICES ASSUME NEW c \in Bookings \ muddled', booking'[c].status # "NONE"
                 PROVE  \A t \in Reporting(c)' : /\ req'[t].status = booking'[c].status
                                                 /\ \A v \in Reporting(c)' : v = t
      BY DEF Single
    <2>1. CASE c = b
      BY <1>2, <1>3, <1>6, <2>1 DEF Reporting
    <2>2. CASE c # b
      <3>1. c \in Bookings \ muddled /\ booking'[c] = booking[c] /\ s \notin Reporting(c)
        BY <1>2, <1>3, <2>2 DEF Reporting
      <3> QED
        BY <1>3, <1>5, <2>2, <3>1 DEF Follows, Single, Reporting
    <2> QED
      BY <2>1, <2>2
  <1>11. NotificationsFollow'
    <2> SUFFICES ASSUME NEW c \in Bookings \ muddled', booking'[c].status # "NONE"
                 PROVE  /\ c \in heard' \/ \E t \in Slots : /\ req'[t].pc = "notifyOwner"
                                                            /\ req'[t].booking = c
                        /\ booking'[c].user # None /\ Reporting(c)' = {} =>
                              booking'[c].status =
                                  IF told'[c] = "NONE" THEN "PENDING" ELSE told'[c]
      BY DEF NotificationsFollow
    <2>1. c \in Bookings \ muddled /\ booking[c].status # "NONE"
      BY <1>2
    <2>2. c \in heard' \/ \E t \in Slots : req'[t].pc = "notifyOwner" /\ req'[t].booking = c
      <3>1. c \in heard \/ \E t \in Slots : req[t].pc = "notifyOwner" /\ req[t].booking = c
        BY <2>1 DEF Follows, NotificationsFollow
      <3> QED
        BY <1>2, <1>3, <3>1
    <2>3. CASE c = b
      <3>1. CASE req'[s].pc = "notifyUser"
        <4>1. s \in Reporting(b)'
          BY <1>3, <3>1 DEF Reporting
        <4> QED
          BY <2>2, <2>3, <4>1
      <3>2. CASE req'[s].pc # "notifyUser"
        BY <1>2, <1>7, <2>2, <2>3, <3>2
      <3> QED
        BY <3>1, <3>2
    <2>4. CASE c # b
      BY <1>2, <1>5, <2>1, <2>2, <2>4 DEF Follows, NotificationsFollow
    <2> QED
      BY <2>3, <2>4
  <1> QED
    BY <1>8, <1>9, <1>10, <1>11 DEF Follows

LEMMA NotifyFollows ==
    ASSUME Typed, Follows, NEW s \in Slots, NotifyOwner(s) \/ NotifyUser(s)
    PROVE  Follows'
  <1>1. PICK b \in Bookings : b = req[s].booking
    BY DEF Typed, Pointed, NotifyOwner, NotifyUser
  <1>2. /\ UNCHANGED <<booking, used, muddled>>
        /\ req'[s].pc = "idle" /\ \A t \in Slots \ {s} : req'[t] = req[t]
        /\ \A c \in Bookings \ {b} : told'[c] = told[c]
        /\ heard \subseteq heard'
    BY <1>1 DEF NotifyOwner, NotifyUser, Idle, history, Typed, TypeOK
  <1>3. \A c \in Bookings : Reporting(c)' = Reporting(c) \ {s}
    BY <1>2 DEF Reporting
  <1>4. Fresh'
    BY <1>1, <1>2 DEF Follows, Fresh, NotifyOwner, NotifyUser
  <1>5. Knowing'
    BY <1>2 DEF Follows, Knowing
  <1>6. Single'
    <2>1. \A c \in Bookings : Reporting(c)' \subseteq Reporting(c) /\ Reporting(c)' \subseteq Slots \ {s}
      BY <1>3 DEF Reporting
    <2> QED
      BY <1>2, <2>1 DEF Follows, Single
  <1>7. CASE NotifyOwner(s)
    <2>1. /\ req[s].pc = "notifyOwner" /\ heard' = heard \union {b} /\ told' = told
      BY <1>1, <1>7 DEF NotifyOwner
    <2>2. \A c \in Bookings : Reporting(c)' = Reporting(c)
      BY <1>3, <2>1 DEF Reporting
    <2>3. NotificationsFollow'
      BY <1>1, <1>2, <2>1, <2>2 DEF Follows, NotificationsFollow
    <2> QED
      BY <1>4, <1>5, <1>6, <2>3 DEF Follows
  <1>8. CASE NotifyUser(s)
    <2>1. /\ req[s].pc = "notifyUser" /\ heard' = heard /\ told'[b] = req[s].status
          /\ req[s].status # "NONE"
      BY <1>1, <1>8 DEF NotifyUser, Typed, TypeOK, Pointed, BookingStatus
    <2>2. \A c \in Bookings \ {b} : Reporting(c)' = Reporting(c)
      BY <1>1, <1>3 DEF Reporting
    <2>3. s \in Reporting(b)
      BY <1>1, <2>1 DEF Reporting
    <2>4. b \notin muddled /\ booking[b].status # "NONE" => req[s].status = booking[b].status
      BY <2>3 DEF Follows, Single
    <2>5. NotificationsFollow'
      BY <1>2, <2>1, <2>2, <2>4 DEF Follows, NotificationsFollow
    <2> QED
      BY <1>4, <1>5, <1>6, <2>5 DEF Follows
  <1> QED
    BY <1>7, <1>8

LEMMA AbortFollows ==
    ASSUME Typed, Follows, NEW s \in Slots, Abort(s)
    PROVE  Follows'
  <1>1. /\ UNCHANGED <<booking, used, heard, told>>
        /\ req'[s].pc = "idle" /\ \A t \in Slots \ {s} : req'[t] = req[t]
        /\ muddled \subseteq muddled'
    BY DEF Abort, Idle, Typed, TypeOK
  <1>2. \A c \in Bookings \ muddled' :
            /\ Reporting(c)' = Reporting(c)
            /\ ~(req[s].pc = "notifyOwner" /\ req[s].booking = c)
    BY <1>1 DEF Reporting, Abort
  <1>3. Fresh'
    BY <1>1 DEF Follows, Fresh
  <1>4. Knowing'
    BY <1>1 DEF Follows, Knowing
  <1>5. Single'
    BY <1>1, <1>2 DEF Follows, Single, Reporting
  <1>6. NotificationsFollow'
    BY <1>1, <1>2 DEF Follows, NotificationsFollow
  <1> QED
    BY <1>3, <1>4, <1>5, <1>6 DEF Follows

\* The last notification agrees with the row, and the owner has heard of every
\* booking, unless a notification was lost or overtaken.
THEOREM NoticesRight == Spec => []NotificationsFollow
  <1>1. Init => Follows
    BY DEF Init, Follows, Fresh, Knowing, Single, NotificationsFollow, NoRow, Idle
  <1>2. Typed /\ Follows /\ [Next]_vars => Follows'
    <2> SUFFICES ASSUME Typed, Follows, [Next]_vars PROVE Follows'
      OBVIOUS
    <2>1. CASE UNCHANGED vars
      BY <2>1 DEF vars, history, Follows, Fresh, Knowing, Single, NotificationsFollow,
                  Reporting
    <2>2. ASSUME NEW s \in Slots, NEW dates \in Dates, NEW u \in Visitors \union {None},
                 Create(s, u, dates)
          PROVE  Follows'
      <3>1. req'[s].pc = "insert" /\ \A t \in Slots \ {s} : req'[t] = req[t]
        BY <2>2 DEF Create, Idle, Typed, TypeOK
      <3> QED
        BY <2>2, <3>1, QuietFollows DEF Create, history
    <2>3. ASSUME NEW s \in Slots, NEW dates \in Dates, BlockAvailability(s, dates)
          PROVE  Follows'
      <3>1. req'[s].pc = "insertBlock" /\ \A t \in Slots \ {s} : req'[t] = req[t]
        BY <2>3 DEF BlockAvailability, Idle, Typed, TypeOK
      <3> QED
        BY <2>3, <3>1, QuietFollows DEF BlockAvailability, history
    <2>4. ASSUME NEW s \in Slots, NEW u \in Users \union {None}, NEW b \in Bookings,
                 NEW status \in BookingStatus, UpdateStatus(s, u, b, status) \/ Cancel(s, u, b)
          PROVE  Follows'
      <3>1. \A op \in {"updateStatus", "cancel"}, st \in BookingStatus :
                LET r == Saving(op, b, st) IN
                r.pc = "save" /\ r.booking = b /\ r.user = booking[b].user /\ r.op = op
        BY DEF Saving, Idle
      <3>2. [Idle EXCEPT !.pc = "refused", !.op = "cancel", !.booking = b, !.user = u].pc
                = "refused"
        BY DEF Idle
      <3>3. "CANCELLED" \in BookingStatus
        BY DEF BookingStatus
      <3>4. /\ \A t \in Slots \ {s} : req'[t] = req[t]
            /\ req'[s].pc \in {"save", "refused"}
            /\ req'[s].pc = "save" =>
                   /\ req'[s].booking = b /\ req'[s].user = booking[b].user
                   /\ req'[s].op = "updateStatus" \/ req'[s].user = None
        <4>1. CASE UpdateStatus(s, u, b, status)
          <5>1. req' = [req EXCEPT ![s] = Saving("updateStatus", b, status)]
            BY <4>1 DEF UpdateStatus
          <5> QED
            BY <5>1, <3>1 DEF Typed, TypeOK
        <4>2. CASE Cancel(s, u, b) /\ booking[b].user = None
          <5>1. req' = [req EXCEPT ![s] = Saving("cancel", b, "CANCELLED")]
            BY <4>2 DEF Cancel, CancellingUser
          <5> QED
            BY <4>2, <5>1, <3>1, <3>3 DEF Typed, TypeOK
        <4>3. CASE Cancel(s, u, b) /\ booking[b].user # None
          BY <4>3, <3>2 DEF Cancel, CancellingUser, Typed, TypeOK
        <4> QED
          BY <2>4, <4>1, <4>2, <4>3
      <3>5. /\ UNCHANGED <<booking, heard, told, muddled, used>>
            /\ req[s].pc = "idle" /\ booking[b].status # "NONE"
        BY <2>4 DEF UpdateStatus, Cancel, history
      <3> QED
        BY <3>4, <3>5, QuietFollows
    <2>5. ASSUME NEW s \in Slots, NEW k \in Blocks, InsertBlock(s, k)
          PROVE  Follows'
      <3>1. req'[s].pc = "idle" /\ \A t \in Slots \ {s} : req'[t] = req[t]
        BY <2>5 DEF InsertBlock, Idle, Typed, TypeOK
      <3> QED
        BY <2>5, <3>1, QuietFollows DEF InsertBlock
    <2>6. ASSUME NEW s \in Slots, Refuse(s)
          PROVE  Follows'
      <3>1. req'[s].pc = "idle" /\ \A t \in Slots \ {s} : req'[t] = req[t]
        BY <2>6 DEF Refuse, Idle, Typed, TypeOK
      <3> QED
        BY <2>6, <3>1, QuietFollows DEF Refuse, history
    <2>7. ASSUME NEW k \in Blocks, RemoveBlock(k)
          PROVE  Follows'
      BY <2>7
         DEF RemoveBlock, Follows, Fresh, Knowing, Single, NotificationsFollow, Reporting
    <2>8. ASSUME DeleteProperty
          PROVE  Follows'
      <3>1. \A b \in Bookings : booking'[b].status = "NONE"
        BY <2>8 DEF DeleteProperty, NoRow
      <3>2. \A s \in Slots : req[s].pc \in {"save", "notifyUser"} => req[s].booking \in Bookings
        BY DEF Typed, Pointed
      <3> QED
        BY <2>8, <3>1, <3>2
        DEF DeleteProperty, Follows, Fresh, Knowing, Single, NotificationsFollow
    <2> QED
      BY StepCases, <2>1, <2>2, <2>3, <2>4, <2>5, <2>6, <2>7, <2>8, InsertFollows,
         SaveFollows, NotifyFollows, AbortFollows, Zenon
  <1>3. Follows => NotificationsFollow
    BY DEF Follows
  <1> QED
    BY <1>1, <1>2, <1>3, AlwaysTyped, PTL DEF Spec
=============================================================================
