------------------------------ MODULE Calendar ------------------------------
(***************************************************************************)
(* The availability calendar of a property page: the month it is open at,  *)
(* the dates it holds, the dates a guest or the owner selects, and the     *)
(* requests whose answers change them.                                     *)
(*                                                                         *)
(* Every answer to a fetch replaces the dates held, whichever month it was *)
(* asked for, and every end of one takes the spinner away.  A request to   *)
(* block or to unblock fetches afterwards, for the month that was open     *)
(* when it was clicked.  Days are numbered through the months; past days   *)
(* are left out.  Two bookings or blocks racing on the server are in       *)
(* Bookings; here each handler is one step.                                *)
(***************************************************************************)
EXTENDS Naturals, FiniteSets

CONSTANTS
    Months,         \* bound: months the visitor looks at
    DaysPerMonth,
    MaxQueries,       \* bound: requests in flight at the same time
    MaxChanges,     \* bound: of them, requests to block or to unblock
    MaxRanges,      \* bound: bookings and blocks ever made
    OtherRanges     \* bound: the dates other guests book, pairs <<from, to>>

CalendarDays == 1 .. Months * DaysPerMonth
NoDay == 0
StartOfMonth(m) == (m - 1) * DaysPerMonth + 1
EndOfMonth(m) == m * DaysPerMonth
SameMonth(d, m) == StartOfMonth(m) <= d /\ d <= EndOfMonth(m)

ASSUME CalendarAssumption ==
    /\ Months \in Nat \ {0} /\ DaysPerMonth \in Nat \ {0}
    /\ MaxQueries \in Nat \ {0} /\ MaxChanges \in Nat /\ MaxRanges \in Nat
    /\ OtherRanges \subseteq {r \in CalendarDays \X CalendarDays : r[1] < r[2]}

Ranges == 1 .. MaxRanges
Queries == 1 .. MaxQueries

VARIABLES
    owner,      \* isOwner
    range,      \* range[i]: [from, to, kind], a booking or a block
    month,      \* currentMonth
    held,       \* blocked and booked, the ranges as last answered
    busy,       \* loading
    start,      \* selectionStart
    finish,     \* selectionEnd
    query,       \* query[c]: a request of the calendar
    (* history, never read by the code *)
    heldFor,    \* the month the dates held were asked for; 0 when they are loose: the
                \* fetch overlapped another, or was for another month than the one
                \* open, or a later one failed
    heldAll,    \* for a guest: every range there was when they were answered
    assured    \* the ranges the selection was checked against, when it was completed
                \* in the month it was begun in and by dates that are not loose

calendarHistory == <<heldFor, heldAll, assured>>
calendarVars == <<owner, range, month, held, busy, start, finish, query, calendarHistory>>

\* kind "free" is a number not given yet; pending and confirmed bookings are "booked".
BookingKinds == {"booked", "completed", "cancelled"}
DateRange == [from : CalendarDays \union {NoDay}, to : CalendarDays \union {NoDay},
          kind : {"free", "block", "removed"} \union BookingKinds]
NoRange == [from |-> NoDay, to |-> NoDay, kind |-> "free"]

Alive == {i \in Ranges : range[i].kind \in {"booked", "completed", "block"}}
Covers(i, from, to) == range[i].from <= to /\ range[i].to >= from

\* month is the one asked for, or open at the click; alone is history: the only
\* fetch at any time so far, for the month open when it was begun.
Query == [op : {"none", "fetch", "block", "remove"}, pc : {"sent", "answer"},
                 month : 1 .. Months, from : CalendarDays \union {NoDay},
                 to : CalendarDays \union {NoDay}, id : Ranges \union {0},
                 found : SUBSET Ranges, all : SUBSET Ranges, alone : BOOLEAN]
NoQuery == [op |-> "none", pc |-> "sent", month |-> 1, from |-> NoDay, to |-> NoDay, id |-> 0,
           found |-> {}, all |-> {}, alone |-> FALSE]
FetchQuery(m, alone) == [NoQuery EXCEPT !.op = "fetch", !.month = m, !.alone = alone]

\* The calendar is opened, and its first fetch is on its way.
CalendarInit ==
    /\ owner \in BOOLEAN
    /\ range = [i \in Ranges |-> NoRange]
    /\ month = 1
    /\ held = {}
    /\ busy = TRUE
    /\ start = NoDay /\ finish = NoDay
    /\ query = [c \in Queries |-> IF c = 1 THEN FetchQuery(1, TRUE) ELSE NoQuery]
    /\ heldFor = 0 /\ heldAll = {} /\ assured = {}

-----------------------------------------------------------------------------
(* What the visitor does                                                   *)

FirstFree(c) == query[c].op = "none" /\ \A k \in Queries : k < c => query[k].op # "none"
Changes == {k \in Queries : query[k].op \in {"block", "remove"}}
OtherFetch(c) == \E k \in Queries : k # c /\ query[k].op = "fetch"

\* fetchAvailability for month m, as request c: no other fetch is alone any more.
BeginFetch(c, m, open) ==
    /\ busy' = TRUE
    /\ query' = [k \in Queries |->
                   IF k = c THEN FetchQuery(m, ~OtherFetch(c) /\ m = open)
                   ELSE [query[k] EXCEPT !.alone = FALSE]]

\* (mutant) the dates of the month before stay
ChangeMonthNoFetch(c, m) ==
    /\ FirstFree(c)
    /\ m \in {month - 1, month + 1}
    /\ month' = m
    /\ UNCHANGED <<owner, range, held, busy, start, finish, query, calendarHistory>>

\* previousMonth, nextMonth; the effect fetches.  The selection stays.
ChangeMonth(c, m) ==
    /\ FirstFree(c)
    /\ m \in {month - 1, month + 1}
    /\ month' = m
    /\ BeginFetch(c, m, m)
    /\ UNCHANGED <<owner, range, held, start, finish, calendarHistory>>

\* hasUnavailableDatesInRange, by the dates held.
Unavailable(from, to) == \E i \in held : Covers(i, from, to)

\* handleDayClick.  The grid is not there while the calendar is loading.
Click(d) ==
    LET completes == /\ start # NoDay /\ finish = NoDay
                     /\ IF owner THEN start <= d ELSE start < d /\ ~Unavailable(start, d)
    IN
    /\ ~busy
    /\ SameMonth(d, month)
    /\ ~Unavailable(d, d)
    /\ IF completes
       THEN /\ finish' = d
            /\ start' = start
            /\ assured' = IF heldFor = 0 \/ ~SameMonth(start, month) THEN {} ELSE heldAll
       ELSE start' = d /\ finish' = NoDay /\ assured' = {}
    /\ UNCHANGED <<owner, range, month, held, busy, query, heldFor, heldAll>>

\* clearSelection.
Cleared == start' = NoDay /\ finish' = NoDay /\ assured' = {}

\* "Clear" is there for the owner, and for a guest who has selected both dates.
ClearSelection ==
    /\ start # NoDay
    /\ owner \/ finish # NoDay
    /\ Cleared
    /\ UNCHANGED <<owner, range, month, held, busy, query, heldFor, heldAll>>

\* blockSelected.
BlockSelected(c) ==
    /\ owner /\ ~busy /\ start # NoDay
    /\ FirstFree(c) /\ Cardinality(Changes) < MaxChanges
    /\ query' = [query EXCEPT ![c] = [NoQuery EXCEPT
                   !.op = "block", !.month = month, !.from = start,
                   !.to = IF finish = NoDay THEN start ELSE finish]]
    /\ UNCHANGED <<owner, range, month, held, busy, start, finish, calendarHistory>>

\* removeBlock.
RemoveBlock(c, i) ==
    /\ owner
    /\ i \in held /\ range[i].kind \in {"block", "removed"}
    /\ FirstFree(c) /\ Cardinality(Changes) < MaxChanges
    /\ query' = [query EXCEPT ![c] = [NoQuery EXCEPT !.op = "remove", !.month = month, !.id = i]]
    /\ UNCHANGED <<owner, range, month, held, busy, start, finish, calendarHistory>>

-----------------------------------------------------------------------------
(* The server                                                              *)

\* (mutant) a range that begins before the month is missed
GetAvailabilityInside(c) ==
    LET m == query[c].month IN
    /\ query[c].op = "fetch" /\ query[c].pc = "sent"
    /\ query' = [query EXCEPT ![c].pc = "answer", ![c].all = IF owner THEN {} ELSE Alive,
                   ![c].found = {i \in Alive : SameMonth(range[i].from, m)}]
    /\ UNCHANGED <<owner, range, month, held, busy, start, finish, calendarHistory>>

\* getAvailability: the ranges that share a day with the month.
GetAvailability(c) ==
    LET m == query[c].month IN
    /\ query[c].op = "fetch" /\ query[c].pc = "sent"
    /\ query' = [query EXCEPT ![c].pc = "answer", ![c].all = IF owner THEN {} ELSE Alive,
                   ![c].found = {i \in Alive :
                       Covers(i, StartOfMonth(m), EndOfMonth(m))}]
    /\ UNCHANGED <<owner, range, month, held, busy, start, finish, calendarHistory>>

\* The next number is given to a range.
EnterRange(i, from, to, kind) ==
    /\ range[i].kind = "free"
    /\ \A k \in Ranges : k < i => range[k].kind # "free"
    /\ range' = [range EXCEPT ![i] = [from |-> from, to |-> to, kind |-> kind]]

\* blockAvailability: refused when it shares a day with a booking.
BlockAvailability(c, i) ==
    LET q == query[c] IN
    /\ q.op = "block" /\ q.pc = "sent"
    /\ ~\E k \in Alive : range[k].kind = "booked" /\ Covers(k, q.from, q.to)
    /\ EnterRange(i, q.from, q.to, "block")
    /\ query' = [query EXCEPT ![c].pc = "answer"]
    /\ UNCHANGED <<owner, month, held, busy, start, finish, calendarHistory>>

\* removeAvailabilityBlock: not found when it is removed already.
RemoveAvailabilityBlock(c) ==
    LET i == query[c].id IN
    /\ query[c].op = "remove" /\ query[c].pc = "sent"
    /\ i \in Alive
    /\ range' = [range EXCEPT ![i].kind = "removed"]
    /\ query' = [query EXCEPT ![c].pc = "answer"]
    /\ UNCHANGED <<owner, month, held, busy, start, finish, calendarHistory>>

\* Another guest books; blocks are looked at, other bookings are not.
OtherBooks(i, from, to) ==
    /\ ~\E k \in Alive : range[k].kind = "block" /\ Covers(k, from, to)
    /\ EnterRange(i, from, to, "booked")
    /\ UNCHANGED <<owner, month, held, busy, start, finish, query, calendarHistory>>

\* BookingsService.updateStatus takes any status to any other.
BookingChanges(i, kind) ==
    /\ range[i].kind \in BookingKinds
    /\ range' = [range EXCEPT ![i].kind = kind]
    /\ UNCHANGED <<owner, month, held, busy, start, finish, query, calendarHistory>>

-----------------------------------------------------------------------------
(* Answers                                                                 *)

Availability(c) ==
    /\ query[c].op = "fetch" /\ query[c].pc = "answer"
    /\ held' = query[c].found
    /\ heldFor' = IF query[c].alone THEN query[c].month ELSE 0
    /\ heldAll' = query[c].all
    /\ busy' = FALSE
    /\ query' = [query EXCEPT ![c] = NoQuery]
    /\ UNCHANGED <<owner, range, month, start, finish, assured>>

\* Blocked: whatever is selected by now is cleared.
Blocked(c) ==
    /\ query[c].op = "block" /\ query[c].pc = "answer"
    /\ Cleared
    /\ BeginFetch(c, query[c].month, month)
    /\ UNCHANGED <<owner, range, month, held, heldFor, heldAll>>

Unblocked(c) ==
    /\ query[c].op = "remove" /\ query[c].pc = "answer"
    /\ BeginFetch(c, query[c].month, month)
    /\ UNCHANGED <<owner, range, month, held, start, finish, calendarHistory>>

\* Any request may fail, before or after it was served; a fetch leaves the dates.
QueryFails(c) ==
    /\ query[c].op # "none"
    /\ query' = [query EXCEPT ![c] = NoQuery]
    /\ IF query[c].op = "fetch" THEN busy' = FALSE /\ heldFor' = 0 ELSE UNCHANGED <<busy, heldFor>>
    /\ UNCHANGED <<owner, range, month, held, start, finish, heldAll, assured>>

CalendarNext ==
    \/ ClearSelection
    \/ \E d \in CalendarDays : Click(d)
    \/ \E i \in Ranges, kind \in BookingKinds : BookingChanges(i, kind)
    \/ \E i \in Ranges, r \in OtherRanges : OtherBooks(i, r[1], r[2])
    \/ \E c \in Queries :
          \/ BlockSelected(c) \/ GetAvailability(c) \/ RemoveAvailabilityBlock(c)
          \/ Availability(c) \/ Blocked(c) \/ Unblocked(c) \/ QueryFails(c)
          \/ \E m \in 1 .. Months : ChangeMonth(c, m)
          \/ \E i \in Ranges : RemoveBlock(c, i) \/ BlockAvailability(c, i)

CalendarSpec == CalendarInit /\ [][CalendarNext]_calendarVars

-----------------------------------------------------------------------------
(* Properties                                                              *)

CalendarTypeOK ==
    /\ owner \in BOOLEAN /\ busy \in BOOLEAN
    /\ range \in [Ranges -> DateRange]
    /\ month \in 1 .. Months /\ heldFor \in 0 .. Months
    /\ held \in SUBSET Ranges /\ heldAll \in SUBSET Ranges /\ assured \in SUBSET Ranges
    /\ start \in CalendarDays \union {NoDay} /\ finish \in CalendarDays \union {NoDay}
    /\ query \in [Queries -> Query]

\* The grid shows the dates of the month it is headed with, unless the fetch they
\* came from overlapped another or was for another month, or a later one failed.
DatesOfMonth == (~busy /\ heldFor # 0) => heldFor = month

\* The dates a guest has selected share no day with a range there was when the
\* dates they were checked against were answered, whatever month that range began
\* in; unless check-in and check-out are in two months, or those dates were loose.
SelectionFree ==
    (~owner /\ finish # NoDay) => \A i \in assured : ~Covers(i, start, finish)
=============================================================================
