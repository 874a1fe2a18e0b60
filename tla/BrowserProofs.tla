--------------------------- MODULE BrowserProofs ---------------------------
(***************************************************************************)
(* Proofs about what a browser is shown: the number of unread              *)
(* notifications (UnreadCount), the availability calendar (Calendar), the  *)
(* pages that search (Searches), the session of a tab (Session) and the    *)
(* messages page (ChatPage), for any number of rows, months, filters,      *)
(* users, messages and requests in flight.                                 *)
(***************************************************************************)
EXTENDS UnreadCount, Calendar, ChatPage, Searches, Session, FiniteSetTheorems,
        WellFoundedInduction, TLAPS

(* ------------------------------ UnreadCount ---------------------------- *)

\* A request that has been alone is the only one under way, and the count it is
\* about to push is that of the rows.
AloneCounts ==
    \A m \in Markings : marking[m].alone =>
        /\ marking[m].pc # "idle"
        /\ \A k \in Markings : marking[k].pc # "idle" => k = m
        /\ marking[m].pc = "push" => marking[m].count = Cardinality(UnreadRows)

UnreadInv == UnreadTypeOK /\ AloneCounts /\ CountRight

LEMMA CountIsNat == UnreadTypeOK => Cardinality(UnreadRows) \in Nat
  <1>1. IsFiniteSet(UnreadRows)
    BY UnreadAssumption, FS_Subset DEF UnreadAssumption, UnreadRows
  <1> QED
    BY <1>1, FS_CardinalityType

LEMMA UnreadInitInv == UnreadInit => UnreadInv
  <1> SUFFICES ASSUME UnreadInit PROVE UnreadInv
    OBVIOUS
  <1>1. UnreadTypeOK
    BY DEF UnreadInit, UnreadTypeOK, Marking, NoMarking
  <1>2. AloneCounts
    BY DEF UnreadInit, AloneCounts, NoMarking
  <1>3. UnreadRows = {}
    BY DEF UnreadInit, UnreadRows
  <1>4. CountRight
    BY <1>3, FS_EmptySet DEF UnreadInit, CountRight
  <1> QED
    BY <1>1, <1>2, <1>4 DEF UnreadInv

LEMMA UnreadTypeStep == UnreadTypeOK /\ [UnreadNext]_unreadVars => UnreadTypeOK'
  <1> SUFFICES ASSUME UnreadTypeOK, [UnreadNext]_unreadVars PROVE UnreadTypeOK'
    OBVIOUS
  <1> USE DEF UnreadTypeOK, Marking, NoMarking
  <1>1. ASSUME NEW r \in Rows, StoreRow(r) PROVE UnreadTypeOK'
    BY <1>1 DEF StoreRow
  <1>2. ASSUME NEW r \in Rows, NEW m \in Markings, MarkRow(m, r) PROVE UnreadTypeOK'
    BY <1>2 DEF MarkRow, RowsWritten
  <1>3. ASSUME NEW m \in Markings, CountUnread(m) PROVE UnreadTypeOK'
    BY <1>3, CountIsNat DEF CountUnread
  <1>4. ASSUME NEW m \in Markings, MarkAllRows(m) PROVE UnreadTypeOK'
    BY <1>4 DEF MarkAllRows, RowsWritten
  <1>5. ASSUME NEW m \in Markings, PushUnread(m) PROVE UnreadTypeOK'
    BY <1>5 DEF PushUnread
  <1>6. ASSUME NEW m \in Markings, AbortMarking(m) PROVE UnreadTypeOK'
    BY <1>6 DEF AbortMarking
  <1>7. CASE UNCHANGED unreadVars
    BY <1>7 DEF unreadVars
  <1> QED
    BY <1>1, <1>2, <1>3, <1>4, <1>5, <1>6, <1>7 DEF UnreadNext

LEMMA AloneStep == UnreadInv /\ [UnreadNext]_unreadVars => AloneCounts'
  <1> SUFFICES ASSUME UnreadInv, [UnreadNext]_unreadVars PROVE AloneCounts'
    OBVIOUS
  <1> USE DEF UnreadInv, UnreadTypeOK, Marking, NoMarking, AloneCounts, Underway
  <1>1. ASSUME NEW r \in Rows, StoreRow(r) PROVE AloneCounts'
    BY <1>1 DEF StoreRow
  <1>2. ASSUME NEW r \in Rows, NEW m \in Markings, MarkRow(m, r) PROVE AloneCounts'
    BY <1>2 DEF MarkRow, RowsWritten
  <1>3. ASSUME NEW m \in Markings, CountUnread(m) PROVE AloneCounts'
    <2>1. UnreadRows' = UnreadRows
      BY <1>3 DEF CountUnread, UnreadRows
    <2> QED
      BY <1>3, <2>1 DEF CountUnread
  <1>4. ASSUME NEW m \in Markings, MarkAllRows(m) PROVE AloneCounts'
    <2>1. UnreadRows' = {}
      BY <1>4 DEF MarkAllRows, UnreadRows
    <2>2. Cardinality(UnreadRows') = 0
      BY <2>1, FS_EmptySet
    <2>3. \A k \in Markings : k # m => ~marking'[k].alone
      BY <1>4 DEF MarkAllRows, RowsWritten
    <2>4. /\ marking'[m].pc = "push" /\ marking'[m].count = 0
          /\ marking'[m].alone => \A k \in Markings : marking[k].pc = "idle"
      BY <1>4 DEF MarkAllRows, RowsWritten
    <2>5. \A k \in Markings : k # m => marking'[k].pc = marking[k].pc
      BY <1>4 DEF MarkAllRows, RowsWritten
    <2> QED
      BY <2>2, <2>3, <2>4, <2>5
  <1>5. ASSUME NEW m \in Markings, PushUnread(m) PROVE AloneCounts'
    BY <1>5 DEF PushUnread, UnreadRows
  <1>6. ASSUME NEW m \in Markings, AbortMarking(m) PROVE AloneCounts'
    BY <1>6 DEF AbortMarking, UnreadRows
  <1>7. CASE UNCHANGED unreadVars
    BY <1>7 DEF unreadVars, UnreadRows
  <1> QED
    BY <1>1, <1>2, <1>3, <1>4, <1>5, <1>6, <1>7 DEF UnreadNext

LEMMA CountStep == UnreadInv /\ [UnreadNext]_unreadVars => CountRight'
  <1> SUFFICES ASSUME UnreadInv, [UnreadNext]_unreadVars PROVE CountRight'
    OBVIOUS
  <1> USE DEF UnreadInv, UnreadTypeOK, Marking, NoMarking, CountRight, Underway
  <1>1. ASSUME NEW r \in Rows, StoreRow(r) PROVE CountRight'
    BY <1>1 DEF StoreRow
  <1>2. ASSUME NEW r \in Rows, NEW m \in Markings, MarkRow(m, r) PROVE CountRight'
    BY <1>2 DEF MarkRow, RowsWritten
  <1>3. ASSUME NEW m \in Markings, CountUnread(m) PROVE CountRight'
    BY <1>3 DEF CountUnread
  <1>4. ASSUME NEW m \in Markings, MarkAllRows(m) PROVE CountRight'
    BY <1>4 DEF MarkAllRows, RowsWritten
  <1>5. ASSUME NEW m \in Markings, PushUnread(m) PROVE CountRight'
    <2>1. UnreadRows' = UnreadRows
      BY <1>5 DEF PushUnread, UnreadRows
    <2>2. marking[m].alone => marking[m].count = Cardinality(UnreadRows)
      BY <1>5 DEF PushUnread, AloneCounts
    <2> QED
      BY <1>5, <2>1, <2>2 DEF PushUnread
  <1>6. ASSUME NEW m \in Markings, AbortMarking(m) PROVE CountRight'
    BY <1>6 DEF AbortMarking
  <1>7. CASE UNCHANGED unreadVars
    BY <1>7 DEF unreadVars, UnreadRows
  <1> QED
    BY <1>1, <1>2, <1>3, <1>4, <1>5, <1>6, <1>7 DEF UnreadNext

\* The rows, the requests that mark them and the count told keep their types.
THEOREM UnreadTypeCorrect == UnreadSpec => []UnreadTypeOK
  <1>1. UnreadInit => UnreadTypeOK
    BY UnreadInitInv DEF UnreadInv
  <1> QED
    BY <1>1, UnreadTypeStep, PTL DEF UnreadSpec

\* Whatever the number of notifications and of requests that mark them: when none
\* is under way and none overlapped the one that pushed last, the count pushed is
\* the number of unread notifications.
THEOREM UnreadCountRight == UnreadSpec => []CountRight
  <1>1. UnreadInv /\ [UnreadNext]_unreadVars => UnreadInv'
    BY UnreadTypeStep, AloneStep, CountStep DEF UnreadInv
  <1>2. UnreadInv => CountRight
    BY DEF UnreadInv
  <1> QED
    BY UnreadInitInv, <1>1, <1>2, PTL DEF UnreadSpec

(* -------------------------------- Calendar ----------------------------- *)

\* A fetch that has been alone is for the month open, and no other is in flight.
AloneFetch ==
    \A c \in Queries : query[c].alone =>
        /\ query[c].op = "fetch"
        /\ busy
        /\ query[c].month = month
        /\ \A k \in Queries : query[k].op = "fetch" => k = c

MonthInv == CalendarTypeOK /\ AloneFetch /\ DatesOfMonth

\* What a guest is answered for month m: of the ranges there were, those that share
\* a day with it; their dates are given for good.
Answers(m, found, all) ==
    \A i \in all : /\ range[i].kind # "free"
                   /\ Covers(i, StartOfMonth(m), EndOfMonth(m)) => i \in found

AnswersWhole ==
    \A c \in Queries : query[c].op = "fetch" /\ query[c].pc = "answer" /\ ~owner =>
        Answers(query[c].month, query[c].found, query[c].all)

HeldWhole == ~owner /\ heldFor # 0 => Answers(heldFor, held, heldAll)

AssuredGiven == ~owner => \A i \in assured : range[i].kind # "free"

SelectionInv == MonthInv /\ AnswersWhole /\ HeldWhole /\ AssuredGiven /\ SelectionFree

LEMMA MonthDays ==
    /\ \A m \in 1 .. Months : StartOfMonth(m) \in Int /\ EndOfMonth(m) \in Int
    /\ CalendarDays \subseteq Nat
    /\ NoDay \notin CalendarDays
  <1>1. Months \in Nat /\ DaysPerMonth \in Nat
    BY CalendarAssumption DEF CalendarAssumption
  <1>2. \A m \in 1 .. Months : StartOfMonth(m) \in Int /\ EndOfMonth(m) \in Int
    BY <1>1 DEF StartOfMonth, EndOfMonth
  <1>3. Months * DaysPerMonth \in Nat
    BY <1>1
  <1>4. CalendarDays \subseteq Nat /\ NoDay \notin CalendarDays
    BY <1>3 DEF CalendarDays, NoDay
  <1> QED
    BY <1>2, <1>4

LEMMA NoQueryType ==
    /\ NoQuery \in Query /\ ~NoQuery.alone /\ NoQuery.op = "none" /\ NoQuery.pc = "sent"
    /\ \A m \in 1 .. Months, alone \in BOOLEAN :
          /\ FetchQuery(m, alone) \in Query
          /\ FetchQuery(m, alone).op = "fetch" /\ FetchQuery(m, alone).pc = "sent"
          /\ FetchQuery(m, alone).month = m /\ FetchQuery(m, alone).alone = alone
  <1>1. 1 \in 1 .. Months
    BY CalendarAssumption DEF CalendarAssumption
  <1>2. NoQuery \in Query /\ ~NoQuery.alone /\ NoQuery.op = "none" /\ NoQuery.pc = "sent"
    BY <1>1 DEF NoQuery, Query
  <1> QED
    BY <1>2 DEF NoQuery, Query, FetchQuery

LEMMA CalendarInitInv == CalendarInit => SelectionInv
  <1> SUFFICES ASSUME CalendarInit PROVE SelectionInv
    OBVIOUS
  <1>0. 1 \in 1 .. Months /\ NoDay \in Nat
    BY CalendarAssumption DEF CalendarAssumption, NoDay
  <1>1. \A c \in Queries : /\ query[c] \in Query
                           /\ query[c].pc = "sent"
                           /\ query[c].alone => query[c].op = "fetch" /\ c = 1 /\ query[c].month = 1
                           /\ query[c].op = "fetch" => c = 1
    BY <1>0, NoQueryType DEF CalendarInit
  <1>2. \A i \in Ranges : range[i] = NoRange
    BY DEF CalendarInit
  <1>3. NoRange \in DateRange
    BY DEF NoRange, DateRange
  <1>4. CalendarTypeOK
    <2>1. range \in [Ranges -> DateRange] /\ query \in [Queries -> Query]
      BY <1>1, <1>3 DEF CalendarInit
    <2>2. heldFor \in 0 .. Months
      BY CalendarAssumption DEF CalendarAssumption, CalendarInit
    <2> QED
      BY <1>0, <2>1, <2>2 DEF CalendarInit, CalendarTypeOK
  <1>5. AloneFetch /\ AnswersWhole
    BY <1>1 DEF AloneFetch, AnswersWhole, CalendarInit
  <1>6. DatesOfMonth /\ HeldWhole /\ AssuredGiven /\ SelectionFree
    BY DEF CalendarInit, DatesOfMonth, HeldWhole, AssuredGiven, SelectionFree
  <1> QED
    BY <1>4, <1>5, <1>6 DEF SelectionInv, MonthInv

LEMMA BeginFetchType ==
    ASSUME CalendarTypeOK, NEW c \in Queries, NEW m \in 1 .. Months, NEW open,
           BeginFetch(c, m, open)
    PROVE  /\ query' \in [Queries -> Query] /\ busy' = TRUE
           /\ query'[c].op = "fetch" /\ query'[c].pc = "sent" /\ query'[c].month = m
           /\ query'[c].alone => m = open /\ \A k \in Queries : query[k].op = "fetch" => k = c
           /\ \A k \in Queries : k # c =>
                 /\ ~query'[k].alone /\ query'[k].op = query[k].op /\ query'[k].pc = query[k].pc
                 /\ query'[k].month = query[k].month /\ query'[k].found = query[k].found
                 /\ query'[k].all = query[k].all
  <1>1. /\ busy' = TRUE
        /\ \A k \in Queries : k # c => query'[k] = [query[k] EXCEPT !.alone = FALSE]
    BY DEF BeginFetch
  <1>2. query'[c] = FetchQuery(m, ~OtherFetch(c) /\ m = open)
    BY DEF BeginFetch
  <1>3. query' = [k \in Queries |-> query'[k]]
    BY DEF BeginFetch
  <1>4. (~OtherFetch(c) /\ m = open) \in BOOLEAN
    OBVIOUS
  <1>5. /\ query'[c] \in Query
        /\ query'[c].op = "fetch" /\ query'[c].pc = "sent" /\ query'[c].month = m
        /\ query'[c].alone = (~OtherFetch(c) /\ m = open)
    <2> DEFINE alone == ~OtherFetch(c) /\ m = open
    <2>1. /\ FetchQuery(m, alone) \in Query
          /\ FetchQuery(m, alone).op = "fetch" /\ FetchQuery(m, alone).pc = "sent"
          /\ FetchQuery(m, alone).month = m /\ FetchQuery(m, alone).alone = alone
      BY <1>4, NoQueryType
    <2> QED
      BY <1>2, <2>1
  <1>6. \A k \in Queries : query[k] \in Query
    BY DEF CalendarTypeOK
  <1>7. \A k \in Queries : k # c =>
            /\ query'[k] \in Query
            /\ ~query'[k].alone /\ query'[k].op = query[k].op /\ query'[k].pc = query[k].pc
            /\ query'[k].month = query[k].month /\ query'[k].found = query[k].found
            /\ query'[k].all = query[k].all
    <2> SUFFICES ASSUME NEW k \in Queries, k # c
                 PROVE  /\ query'[k] \in Query
                        /\ ~query'[k].alone /\ query'[k].op = query[k].op
                        /\ query'[k].pc = query[k].pc
                        /\ query'[k].month = query[k].month /\ query'[k].found = query[k].found
                        /\ query'[k].all = query[k].all
      OBVIOUS
    <2>1. query[k] \in Query /\ query'[k] = [query[k] EXCEPT !.alone = FALSE]
      BY <1>1, <1>6
    <2> QED
      BY <2>1 DEF Query
  <1>8. query' \in [Queries -> Query]
    BY <1>3, <1>5, <1>7
  <1> QED
    BY <1>1, <1>5, <1>7, <1>8 DEF OtherFetch

LEMMA EnterRangeType ==
    ASSUME CalendarTypeOK, NEW i \in Ranges, NEW from \in CalendarDays \union {NoDay},
           NEW to \in CalendarDays \union {NoDay}, NEW kind \in {"block", "booked"},
           EnterRange(i, from, to, kind)
    PROVE  /\ range' \in [Ranges -> DateRange]
           /\ \A k \in Ranges : range[k].kind # "free" => range'[k] = range[k]
  BY DEF EnterRange, CalendarTypeOK, DateRange, BookingKinds

\* A request is served.
LEMMA ServedType ==
    ASSUME CalendarTypeOK, NEW c \in Queries
    PROVE  /\ [query EXCEPT ![c].pc = "answer"] \in [Queries -> Query]
           /\ \A all \in SUBSET Ranges, found \in SUBSET Ranges :
                 [query EXCEPT ![c].pc = "answer", ![c].all = all, ![c].found = found]
                     \in [Queries -> Query]
  <1>1. query \in [Queries -> Query] /\ query[c] \in Query
    BY DEF CalendarTypeOK
  <1>2. [query EXCEPT ![c].pc = "answer"] \in [Queries -> Query]
    BY <1>1 DEF Query
  <1>3. ASSUME NEW all \in SUBSET Ranges, NEW found \in SUBSET Ranges
        PROVE  [query EXCEPT ![c].pc = "answer", ![c].all = all, ![c].found = found]
                   \in [Queries -> Query]
    <2>1. [query[c] EXCEPT !.pc = "answer", !.all = all, !.found = found] \in Query
      BY <1>1 DEF Query
    <2>2. [query EXCEPT ![c].pc = "answer", ![c].all = all, ![c].found = found]
              = [query EXCEPT ![c] = [query[c] EXCEPT !.pc = "answer", !.all = all,
                                                      !.found = found]]
      BY <1>1
    <2> QED
      BY <1>1, <2>1, <2>2
  <1> QED
    BY <1>2, <1>3

LEMMA CalendarTypeStep == CalendarTypeOK /\ [CalendarNext]_calendarVars => CalendarTypeOK'
  <1> SUFFICES ASSUME CalendarTypeOK, [CalendarNext]_calendarVars PROVE CalendarTypeOK'
    OBVIOUS
  <1>0. /\ Months \in Nat /\ 0 \in 0 .. Months /\ NoDay \notin CalendarDays
        /\ Alive \subseteq Ranges
    BY CalendarAssumption, MonthDays DEF CalendarAssumption, Alive
  <1> USE DEF CalendarTypeOK, calendarHistory
  <1>1. ASSUME ClearSelection PROVE CalendarTypeOK'
    BY <1>1 DEF ClearSelection, Cleared
  <1>2. ASSUME NEW d \in CalendarDays, Click(d) PROVE CalendarTypeOK'
    BY <1>2 DEF Click
  <1>3. ASSUME NEW i \in Ranges, NEW kind \in BookingKinds, BookingChanges(i, kind)
        PROVE  CalendarTypeOK'
    BY <1>3 DEF BookingChanges, DateRange, BookingKinds
  <1>4. ASSUME NEW i \in Ranges, NEW r \in OtherRanges, OtherBooks(i, r[1], r[2])
        PROVE  CalendarTypeOK'
    <2>1. r[1] \in CalendarDays /\ r[2] \in CalendarDays
      BY CalendarAssumption DEF CalendarAssumption
    <2>2. range' \in [Ranges -> DateRange]
      BY <1>4, <2>1, EnterRangeType DEF OtherBooks
    <2> QED
      BY <1>4, <2>2 DEF OtherBooks
  <1>5. ASSUME NEW c \in Queries, BlockSelected(c) PROVE CalendarTypeOK'
    BY <1>5 DEF BlockSelected, NoQuery, Query
  <1>6. ASSUME NEW c \in Queries, GetAvailability(c) PROVE CalendarTypeOK'
    <2>1. query' \in [Queries -> Query]
      <3> DEFINE all == IF owner THEN {} ELSE Alive
                 found == {i \in Alive : Covers(i, StartOfMonth(query[c].month),
                                                EndOfMonth(query[c].month))}
      <3>1. all \in SUBSET Ranges /\ found \in SUBSET Ranges
        BY <1>0
      <3>2. query' = [query EXCEPT ![c].pc = "answer", ![c].all = all, ![c].found = found]
        BY <1>6 DEF GetAvailability
      <3> HIDE DEF all, found
      <3> QED
        BY <3>1, <3>2, ServedType
    <2> QED
      BY <1>6, <2>1 DEF GetAvailability
  <1>7. ASSUME NEW c \in Queries, RemoveAvailabilityBlock(c) PROVE CalendarTypeOK'
    <2>1. query' \in [Queries -> Query]
      BY <1>7, ServedType DEF RemoveAvailabilityBlock
    <2>2. range' \in [Ranges -> DateRange]
      BY <1>0, <1>7 DEF RemoveAvailabilityBlock, DateRange
    <2> QED
      BY <1>7, <2>1, <2>2 DEF RemoveAvailabilityBlock
  <1>8. ASSUME NEW c \in Queries, Availability(c) PROVE CalendarTypeOK'
    <2>1. query' \in [Queries -> Query]
      BY <1>8, NoQueryType DEF Availability
    <2>2. /\ held' \in SUBSET Ranges /\ heldAll' \in SUBSET Ranges
          /\ heldFor' \in 0 .. Months
      BY <1>0, <1>8 DEF Availability, Query
    <2> QED
      BY <1>8, <2>1, <2>2 DEF Availability
  <1>9. ASSUME NEW c \in Queries, Blocked(c) PROVE CalendarTypeOK'
    <2>1. query[c].month \in 1 .. Months
      BY DEF Query
    <2>2. query' \in [Queries -> Query] /\ busy' = TRUE
      BY <1>9, <2>1, BeginFetchType DEF Blocked
    <2> QED
      BY <1>9, <2>2 DEF Blocked, Cleared
  <1>10. ASSUME NEW c \in Queries, Unblocked(c) PROVE CalendarTypeOK'
    <2>1. query[c].month \in 1 .. Months
      BY DEF Query
    <2>2. query' \in [Queries -> Query] /\ busy' = TRUE
      BY <1>10, <2>1, BeginFetchType DEF Unblocked
    <2> QED
      BY <1>10, <2>2 DEF Unblocked
  <1>11. ASSUME NEW c \in Queries, QueryFails(c) PROVE CalendarTypeOK'
    <2>1. query' \in [Queries -> Query]
      BY <1>11, NoQueryType DEF QueryFails
    <2>2. heldFor' \in 0 .. Months /\ busy' \in BOOLEAN
      <3>1. CASE query[c].op = "fetch"
        BY <1>0, <1>11, <3>1 DEF QueryFails
      <3>2. CASE query[c].op # "fetch"
        BY <1>11, <3>2 DEF QueryFails
      <3> QED
        BY <3>1, <3>2
    <2> QED
      BY <1>11, <2>1, <2>2 DEF QueryFails
  <1>12. ASSUME NEW c \in Queries, NEW m \in 1 .. Months, ChangeMonth(c, m)
         PROVE  CalendarTypeOK'
    <2>1. query' \in [Queries -> Query] /\ busy' = TRUE
      BY <1>12, BeginFetchType DEF ChangeMonth
    <2> QED
      BY <1>12, <2>1 DEF ChangeMonth
  <1>13. ASSUME NEW c \in Queries, NEW i \in Ranges, RemoveBlock(c, i) PROVE CalendarTypeOK'
    BY <1>13 DEF RemoveBlock, NoQuery, Query
  <1>14. ASSUME NEW c \in Queries, NEW i \in Ranges, BlockAvailability(c, i)
         PROVE  CalendarTypeOK'
    <2>1. /\ query[c].from \in CalendarDays \union {NoDay}
          /\ query[c].to \in CalendarDays \union {NoDay}
      BY DEF Query
    <2>2. range' \in [Ranges -> DateRange]
      BY <1>14, <2>1, EnterRangeType DEF BlockAvailability
    <2>3. query' \in [Queries -> Query]
      BY <1>14, ServedType DEF BlockAvailability
    <2> QED
      BY <1>14, <2>2, <2>3 DEF BlockAvailability
  <1>15. CASE UNCHANGED calendarVars
    BY <1>15 DEF calendarVars
  <1> QED
    BY <1>1, <1>2, <1>3, <1>4, <1>5, <1>6, <1>7, <1>8, <1>9, <1>10, <1>11, <1>12, <1>13,
       <1>14,
       <1>15 DEF CalendarNext

\* A step that begins no fetch and ends none that is alone.
LEMMA AloneKept ==
    ASSUME CalendarTypeOK, AloneFetch, month' = month, busy' = busy,
           \A c \in Queries :
               /\ query'[c].alone => query[c].alone /\ query'[c].op = query[c].op
                                                     /\ query'[c].month = query[c].month
               /\ query'[c].op = "fetch" => query[c].op = "fetch"
    PROVE  AloneFetch'
  BY DEF AloneFetch

LEMMA FetchBegun ==
    ASSUME CalendarTypeOK, AloneFetch, NEW c \in Queries, NEW m \in 1 .. Months,
           BeginFetch(c, m, month')
    PROVE  AloneFetch'
  <1>1. /\ busy' = TRUE
        /\ query'[c].op = "fetch" /\ query'[c].month = m
        /\ query'[c].alone => m = month' /\ \A k \in Queries : query[k].op = "fetch" => k = c
        /\ \A k \in Queries : k # c => ~query'[k].alone /\ query'[k].op = query[k].op
    BY BeginFetchType
  <1> QED
    BY <1>1 DEF AloneFetch

\* Request c is over, with what it has set.
LEMMA FetchOver ==
    ASSUME CalendarTypeOK, AloneFetch, NEW c \in Queries, month' = month,
           query' = [query EXCEPT ![c] = NoQuery],
           query[c].op = "fetch" \/ busy' = busy
    PROVE  AloneFetch'
  <1>1. \A k \in Queries : k # c => query'[k] = query[k]
    BY DEF CalendarTypeOK
  <1>2. ~query'[c].alone /\ query'[c].op # "fetch"
    BY NoQueryType DEF CalendarTypeOK
  <1> QED
    BY <1>1, <1>2 DEF AloneFetch

LEMMA MonthStep == MonthInv /\ [CalendarNext]_calendarVars => AloneFetch' /\ DatesOfMonth'
  <1> SUFFICES ASSUME MonthInv, [CalendarNext]_calendarVars PROVE AloneFetch' /\ DatesOfMonth'
    OBVIOUS
  <1>0. /\ CalendarTypeOK /\ AloneFetch /\ DatesOfMonth
        /\ query \in [Queries -> Query] /\ month \in 1 .. Months
        /\ \A c \in Queries : query[c].month \in 1 .. Months
    BY DEF MonthInv, CalendarTypeOK, Query
  <1> USE DEF calendarHistory
  \* the month, the dates held, the spinner and the requests stay
  <1>a. ASSUME UNCHANGED <<month, busy, heldFor, query>> PROVE AloneFetch' /\ DatesOfMonth'
    BY <1>0, <1>a DEF AloneFetch, DatesOfMonth
  \* a request that is no fetch begins, or one is served
  <1>b. ASSUME UNCHANGED <<month, busy, heldFor>>,
               \A c \in Queries :
                   /\ query'[c].alone => query[c].alone /\ query'[c].op = query[c].op
                                                         /\ query'[c].month = query[c].month
                   /\ query'[c].op = "fetch" => query[c].op = "fetch"
        PROVE  AloneFetch' /\ DatesOfMonth'
    BY <1>0, <1>b, AloneKept DEF DatesOfMonth
  \* a fetch begins
  <1>c. ASSUME NEW c \in Queries, NEW m \in 1 .. Months, BeginFetch(c, m, month')
        PROVE  AloneFetch' /\ DatesOfMonth'
    <2>1. busy' = TRUE
      BY <1>c DEF BeginFetch
    <2> QED
      BY <1>0, <1>c, <2>1, FetchBegun DEF DatesOfMonth
  <1>1. ASSUME ClearSelection PROVE AloneFetch' /\ DatesOfMonth'
    BY <1>1, <1>a DEF ClearSelection
  <1>2. ASSUME NEW d \in CalendarDays, Click(d) PROVE AloneFetch' /\ DatesOfMonth'
    BY <1>2, <1>a DEF Click
  <1>3. ASSUME NEW i \in Ranges, NEW kind \in BookingKinds, BookingChanges(i, kind)
        PROVE  AloneFetch' /\ DatesOfMonth'
    BY <1>3, <1>a DEF BookingChanges
  <1>4. ASSUME NEW i \in Ranges, NEW r \in OtherRanges, OtherBooks(i, r[1], r[2])
        PROVE  AloneFetch' /\ DatesOfMonth'
    BY <1>4, <1>a DEF OtherBooks
  <1>5. ASSUME NEW c \in Queries, BlockSelected(c) PROVE AloneFetch' /\ DatesOfMonth'
    <2>1. \A k \in Queries : k # c => query'[k] = query[k]
      BY <1>0, <1>5 DEF BlockSelected
    <2>2. query'[c].op = "block" /\ ~query'[c].alone
      BY <1>0, <1>5 DEF BlockSelected, NoQuery
    <2> QED
      BY <1>5, <1>b, <2>1, <2>2 DEF BlockSelected
  <1>6. ASSUME NEW c \in Queries, GetAvailability(c) PROVE AloneFetch' /\ DatesOfMonth'
    <2>1. \A k \in Queries : /\ query'[k].alone = query[k].alone
                             /\ query'[k].op = query[k].op /\ query'[k].month = query[k].month
      BY <1>0, <1>6 DEF GetAvailability, Query
    <2> QED
      BY <1>6, <1>b, <2>1 DEF GetAvailability
  <1>7. ASSUME NEW c \in Queries, RemoveAvailabilityBlock(c) PROVE AloneFetch' /\ DatesOfMonth'
    <2>1. \A k \in Queries : /\ query'[k].alone = query[k].alone
                             /\ query'[k].op = query[k].op /\ query'[k].month = query[k].month
      BY <1>0, <1>7 DEF RemoveAvailabilityBlock, Query
    <2> QED
      BY <1>7, <1>b, <2>1 DEF RemoveAvailabilityBlock
  <1>8. ASSUME NEW c \in Queries, Availability(c) PROVE AloneFetch' /\ DatesOfMonth'
    <2>1. AloneFetch'
      BY <1>0, <1>8, FetchOver DEF Availability
    <2>2. heldFor' # 0 => heldFor' = month'
      BY <1>0, <1>8 DEF Availability, AloneFetch
    <2> QED
      BY <2>1, <2>2 DEF DatesOfMonth
  <1>9. ASSUME NEW c \in Queries, Blocked(c) PROVE AloneFetch' /\ DatesOfMonth'
    BY <1>0, <1>9, <1>c DEF Blocked
  <1>10. ASSUME NEW c \in Queries, Unblocked(c) PROVE AloneFetch' /\ DatesOfMonth'
    BY <1>0, <1>10, <1>c DEF Unblocked
  <1>11. ASSUME NEW c \in Queries, QueryFails(c) PROVE AloneFetch' /\ DatesOfMonth'
    <2>1. /\ query' = [query EXCEPT ![c] = NoQuery] /\ month' = month
          /\ query[c].op = "fetch" \/ busy' = busy
          /\ heldFor' = 0 \/ (busy' = busy /\ heldFor' = heldFor)
      BY <1>11 DEF QueryFails
    <2>2. AloneFetch'
      BY <1>0, <2>1, FetchOver
    <2>3. DatesOfMonth'
      BY <1>0, <2>1 DEF DatesOfMonth
    <2> QED
      BY <2>2, <2>3
  <1>12. ASSUME NEW c \in Queries, NEW m \in 1 .. Months, ChangeMonth(c, m)
         PROVE  AloneFetch' /\ DatesOfMonth'
    BY <1>12, <1>c DEF ChangeMonth
  <1>13. ASSUME NEW c \in Queries, NEW i \in Ranges, RemoveBlock(c, i)
         PROVE  AloneFetch' /\ DatesOfMonth'
    <2>1. \A k \in Queries : k # c => query'[k] = query[k]
      BY <1>0, <1>13 DEF RemoveBlock
    <2>2. query'[c].op = "remove" /\ ~query'[c].alone
      BY <1>0, <1>13 DEF RemoveBlock, NoQuery
    <2> QED
      BY <1>13, <1>b, <2>1, <2>2 DEF RemoveBlock
  <1>14. ASSUME NEW c \in Queries, NEW i \in Ranges, BlockAvailability(c, i)
         PROVE  AloneFetch' /\ DatesOfMonth'
    <2>1. \A k \in Queries : /\ query'[k].alone = query[k].alone
                             /\ query'[k].op = query[k].op /\ query'[k].month = query[k].month
      BY <1>0, <1>14 DEF BlockAvailability, Query
    <2> QED
      BY <1>14, <1>b, <2>1 DEF BlockAvailability
  <1>15. CASE UNCHANGED calendarVars
    BY <1>15, <1>a DEF calendarVars
  <1> QED
    BY <1>1, <1>2, <1>3, <1>4, <1>5, <1>6, <1>7, <1>8, <1>9, <1>10, <1>11, <1>12, <1>13,
       <1>14,
       <1>15 DEF CalendarNext

\* A range that is given keeps its dates, whatever becomes of it.
RangesGiven ==
    /\ owner' = owner
    /\ \A i \in Ranges : range[i].kind # "free" =>
          /\ range'[i].kind # "free"
          /\ range'[i].from = range[i].from /\ range'[i].to = range[i].to

LEMMA RangesStep == CalendarTypeOK /\ [CalendarNext]_calendarVars => RangesGiven
  <1> SUFFICES ASSUME CalendarTypeOK, [CalendarNext]_calendarVars PROVE RangesGiven
    OBVIOUS
  <1>0. range \in [Ranges -> DateRange]
    BY DEF CalendarTypeOK
  <1>a. ASSUME UNCHANGED <<owner, range>> PROVE RangesGiven
    BY <1>a DEF RangesGiven
  <1>b. ASSUME NEW i \in Ranges, NEW from, NEW to, NEW kind \in {"block", "booked"},
               EnterRange(i, from, to, kind), owner' = owner
        PROVE  RangesGiven
    BY <1>0, <1>b DEF RangesGiven, EnterRange
  <1>1. ASSUME ClearSelection PROVE RangesGiven
    BY <1>1, <1>a DEF ClearSelection
  <1>2. ASSUME NEW d \in CalendarDays, Click(d) PROVE RangesGiven
    BY <1>2, <1>a DEF Click
  <1>3. ASSUME NEW i \in Ranges, NEW kind \in BookingKinds, BookingChanges(i, kind)
        PROVE  RangesGiven
    BY <1>0, <1>3 DEF BookingChanges, BookingKinds, DateRange, RangesGiven
  <1>4. ASSUME NEW i \in Ranges, NEW r \in OtherRanges, OtherBooks(i, r[1], r[2])
        PROVE  RangesGiven
    BY <1>4, <1>b DEF OtherBooks
  <1>5. ASSUME NEW c \in Queries, BlockSelected(c) PROVE RangesGiven
    BY <1>5, <1>a DEF BlockSelected
  <1>6. ASSUME NEW c \in Queries, GetAvailability(c) PROVE RangesGiven
    BY <1>6, <1>a DEF GetAvailability
  <1>7. ASSUME NEW c \in Queries, RemoveAvailabilityBlock(c) PROVE RangesGiven
    BY <1>0, <1>7 DEF RemoveAvailabilityBlock, DateRange, RangesGiven
  <1>8. ASSUME NEW c \in Queries, Availability(c) PROVE RangesGiven
    BY <1>8, <1>a DEF Availability
  <1>9. ASSUME NEW c \in Queries, Blocked(c) PROVE RangesGiven
    BY <1>9, <1>a DEF Blocked
  <1>10. ASSUME NEW c \in Queries, Unblocked(c) PROVE RangesGiven
    BY <1>10, <1>a DEF Unblocked
  <1>11. ASSUME NEW c \in Queries, QueryFails(c) PROVE RangesGiven
    BY <1>11, <1>a DEF QueryFails
  <1>12. ASSUME NEW c \in Queries, NEW m \in 1 .. Months, ChangeMonth(c, m) PROVE RangesGiven
    BY <1>12, <1>a DEF ChangeMonth
  <1>13. ASSUME NEW c \in Queries, NEW i \in Ranges, RemoveBlock(c, i) PROVE RangesGiven
    BY <1>13, <1>a DEF RemoveBlock
  <1>14. ASSUME NEW c \in Queries, NEW i \in Ranges, BlockAvailability(c, i) PROVE RangesGiven
    BY <1>14, <1>b DEF BlockAvailability
  <1>15. CASE UNCHANGED calendarVars
    BY <1>15, <1>a DEF calendarVars
  <1> QED
    BY <1>1, <1>2, <1>3, <1>4, <1>5, <1>6, <1>7, <1>8, <1>9, <1>10, <1>11, <1>12, <1>13,
       <1>14,
       <1>15 DEF CalendarNext

LEMMA AnswersKept ==
    ASSUME RangesGiven, NEW m, NEW found, NEW all \in SUBSET Ranges, Answers(m, found, all)
    PROVE  Answers(m, found, all)'
  BY DEF RangesGiven, Answers, Covers

\* Every answer on its way is one that was on its way before.
LEMMA AnswersOld ==
    ASSUME CalendarTypeOK, RangesGiven, AnswersWhole,
           \A k \in Queries : query'[k].op = "fetch" /\ query'[k].pc = "answer" =>
               /\ query[k].op = "fetch" /\ query[k].pc = "answer"
               /\ query'[k].month = query[k].month /\ query'[k].found = query[k].found
               /\ query'[k].all = query[k].all
    PROVE  AnswersWhole'
  <1> SUFFICES ASSUME NEW k \in Queries, query'[k].op = "fetch", query'[k].pc = "answer", ~owner'
               PROVE  Answers(query[k].month, query[k].found, query[k].all)'
    BY DEF AnswersWhole, Answers
  <1>1. ASSUME NEW m, NEW found, NEW all, m = query[k].month, found = query[k].found,
               all = query[k].all
        PROVE  Answers(m, found, all)'
    <2>1. all \in SUBSET Ranges
      BY <1>1 DEF CalendarTypeOK, Query
    <2>2. Answers(m, found, all)
      BY <1>1 DEF AnswersWhole, RangesGiven
    <2> QED
      BY <2>1, <2>2, AnswersKept
  <1> QED
    BY <1>1 DEF Answers

LEMMA AnswersStep == SelectionInv /\ [CalendarNext]_calendarVars => AnswersWhole'
  <1> SUFFICES ASSUME SelectionInv, [CalendarNext]_calendarVars PROVE AnswersWhole'
    OBVIOUS
  <1>0. /\ CalendarTypeOK /\ RangesGiven /\ AnswersWhole
        /\ query \in [Queries -> Query]
        /\ \A c \in Queries : query[c].month \in 1 .. Months
    BY RangesStep DEF SelectionInv, MonthInv, CalendarTypeOK, Query
  <1> USE DEF calendarHistory
  <1>a. ASSUME query' = query PROVE AnswersWhole'
    BY <1>0, <1>a, AnswersOld
  \* request c is not one that has just been answered
  <1>b. ASSUME NEW c \in Queries, query'[c].op # "fetch" \/ query'[c].pc # "answer",
               \A k \in Queries : k # c =>
                   /\ query'[k].op = query[k].op /\ query'[k].pc = query[k].pc
                   /\ query'[k].month = query[k].month /\ query'[k].found = query[k].found
                   /\ query'[k].all = query[k].all
        PROVE  AnswersWhole'
    BY <1>0, <1>b, AnswersOld
  <1>c. ASSUME NEW c \in Queries, NEW m \in 1 .. Months, NEW open, BeginFetch(c, m, open)
        PROVE  AnswersWhole'
    <2>1. /\ query'[c].pc = "sent"
          /\ \A k \in Queries : k # c =>
                   /\ query'[k].op = query[k].op /\ query'[k].pc = query[k].pc
                   /\ query'[k].month = query[k].month /\ query'[k].found = query[k].found
                   /\ query'[k].all = query[k].all
      BY <1>0, <1>c, BeginFetchType
    <2> QED
      BY <1>b, <2>1
  <1>d. ASSUME NEW c \in Queries, query' = [query EXCEPT ![c] = NoQuery] PROVE AnswersWhole'
    <2>1. query'[c].op # "fetch" /\ \A k \in Queries : k # c => query'[k] = query[k]
      BY <1>0, <1>d, NoQueryType
    <2> QED
      BY <1>b, <2>1
  <1>1. ASSUME ClearSelection PROVE AnswersWhole'
    BY <1>1, <1>a DEF ClearSelection
  <1>2. ASSUME NEW d \in CalendarDays, Click(d) PROVE AnswersWhole'
    BY <1>2, <1>a DEF Click
  <1>3. ASSUME NEW i \in Ranges, NEW kind \in BookingKinds, BookingChanges(i, kind)
        PROVE  AnswersWhole'
    BY <1>3, <1>a DEF BookingChanges
  <1>4. ASSUME NEW i \in Ranges, NEW r \in OtherRanges, OtherBooks(i, r[1], r[2])
        PROVE  AnswersWhole'
    BY <1>4, <1>a DEF OtherBooks
  <1>5. ASSUME NEW c \in Queries, BlockSelected(c) PROVE AnswersWhole'
    <2>1. query'[c].op = "block" /\ \A k \in Queries : k # c => query'[k] = query[k]
      BY <1>0, <1>5 DEF BlockSelected, NoQuery
    <2> QED
      BY <1>b, <2>1
  <1>6. ASSUME NEW c \in Queries, GetAvailability(c) PROVE AnswersWhole'
    <2> DEFINE found == {i \in Alive : Covers(i, StartOfMonth(query[c].month),
                                               EndOfMonth(query[c].month))}
    <2>1. /\ query'[c].month = query[c].month
          /\ owner' = owner /\ range' = range
          /\ ~owner => query'[c].all = Alive /\ query'[c].found = found
      BY <1>0, <1>6 DEF GetAvailability, Query
    <2>2. \A k \in Queries : k # c => query'[k] = query[k]
      BY <1>0, <1>6 DEF GetAvailability
    <2>3. ~owner => Answers(query[c].month, found, Alive)
      BY DEF Answers, Alive
    <2>4. ~owner => Answers(query[c].month, query[c].found, query[c].all)'
      BY <2>1, <2>3 DEF Answers, Covers
    <2>5. \A k \in Queries : k # c /\ query'[k].op = "fetch" /\ query'[k].pc = "answer" /\ ~owner =>
              Answers(query[k].month, query[k].found, query[k].all)'
      BY <1>0, <2>1, <2>2 DEF AnswersWhole, Answers, Covers
    <2> QED
      BY <2>1, <2>4, <2>5 DEF AnswersWhole
  <1>7. ASSUME NEW c \in Queries, RemoveAvailabilityBlock(c) PROVE AnswersWhole'
    <2>1. query'[c].op # "fetch" /\ \A k \in Queries : k # c => query'[k] = query[k]
      BY <1>0, <1>7 DEF RemoveAvailabilityBlock, Query
    <2> QED
      BY <1>b, <2>1
  <1>8. ASSUME NEW c \in Queries, Availability(c) PROVE AnswersWhole'
    BY <1>8, <1>d DEF Availability
  <1>9. ASSUME NEW c \in Queries, Blocked(c) PROVE AnswersWhole'
    BY <1>0, <1>9, <1>c DEF Blocked
  <1>10. ASSUME NEW c \in Queries, Unblocked(c) PROVE AnswersWhole'
    BY <1>0, <1>10, <1>c DEF Unblocked
  <1>11. ASSUME NEW c \in Queries, QueryFails(c) PROVE AnswersWhole'
    BY <1>11, <1>d DEF QueryFails
  <1>12. ASSUME NEW c \in Queries, NEW m \in 1 .. Months, ChangeMonth(c, m)
         PROVE  AnswersWhole'
    BY <1>12, <1>c DEF ChangeMonth
  <1>13. ASSUME NEW c \in Queries, NEW i \in Ranges, RemoveBlock(c, i) PROVE AnswersWhole'
    <2>1. query'[c].op = "remove" /\ \A k \in Queries : k # c => query'[k] = query[k]
      BY <1>0, <1>13 DEF RemoveBlock, NoQuery
    <2> QED
      BY <1>b, <2>1
  <1>14. ASSUME NEW c \in Queries, NEW i \in Ranges, BlockAvailability(c, i)
         PROVE  AnswersWhole'
    <2>1. query'[c].op # "fetch" /\ \A k \in Queries : k # c => query'[k] = query[k]
      BY <1>0, <1>14 DEF BlockAvailability, Query
    <2> QED
      BY <1>b, <2>1
  <1>15. CASE UNCHANGED calendarVars
    BY <1>15, <1>a DEF calendarVars
  <1> QED
    BY <1>1, <1>2, <1>3, <1>4, <1>5, <1>6, <1>7, <1>8, <1>9, <1>10, <1>11, <1>12, <1>13,
       <1>14,
       <1>15 DEF CalendarNext

LEMMA HeldStep == SelectionInv /\ [CalendarNext]_calendarVars => HeldWhole'
  <1> SUFFICES ASSUME SelectionInv, [CalendarNext]_calendarVars PROVE HeldWhole'
    OBVIOUS
  <1>0. /\ CalendarTypeOK /\ RangesGiven /\ AnswersWhole /\ HeldWhole
        /\ heldAll \in SUBSET Ranges /\ owner' = owner
        /\ \A c \in Queries : query[c].all \in SUBSET Ranges
    BY RangesStep DEF SelectionInv, MonthInv, CalendarTypeOK, Query, RangesGiven
  <1> USE DEF calendarHistory
  <1>a. ASSUME UNCHANGED <<held, heldFor, heldAll>> PROVE HeldWhole'
    <2> SUFFICES ASSUME ~owner, heldFor # 0 PROVE Answers(heldFor, held, heldAll)'
      BY <1>0, <1>a DEF HeldWhole
    <2>1. ASSUME NEW m, NEW found, NEW all, m = heldFor, found = held, all = heldAll
          PROVE  Answers(m, found, all)'
      BY <1>0, <2>1, AnswersKept DEF HeldWhole
    <2> QED
      BY <1>a, <2>1 DEF Answers
  <1>1. ASSUME ClearSelection PROVE HeldWhole'
    BY <1>1, <1>a DEF ClearSelection
  <1>2. ASSUME NEW d \in CalendarDays, Click(d) PROVE HeldWhole'
    BY <1>2, <1>a DEF Click
  <1>3. ASSUME NEW i \in Ranges, NEW kind \in BookingKinds, BookingChanges(i, kind)
        PROVE  HeldWhole'
    BY <1>3, <1>a DEF BookingChanges
  <1>4. ASSUME NEW i \in Ranges, NEW r \in OtherRanges, OtherBooks(i, r[1], r[2])
        PROVE  HeldWhole'
    BY <1>4, <1>a DEF OtherBooks
  <1>5. ASSUME NEW c \in Queries, BlockSelected(c) PROVE HeldWhole'
    BY <1>5, <1>a DEF BlockSelected
  <1>6. ASSUME NEW c \in Queries, GetAvailability(c) PROVE HeldWhole'
    BY <1>6, <1>a DEF GetAvailability
  <1>7. ASSUME NEW c \in Queries, RemoveAvailabilityBlock(c) PROVE HeldWhole'
    BY <1>7, <1>a DEF RemoveAvailabilityBlock
  <1>8. ASSUME NEW c \in Queries, Availability(c) PROVE HeldWhole'
    <2>1. /\ query[c].op = "fetch" /\ query[c].pc = "answer"
          /\ held' = query[c].found /\ heldAll' = query[c].all
          /\ heldFor' # 0 => heldFor' = query[c].month
      BY <1>8 DEF Availability
    <2> SUFFICES ASSUME ~owner, heldFor' # 0 PROVE Answers(heldFor, held, heldAll)'
      BY <1>0 DEF HeldWhole
    <2>2. ASSUME NEW m, NEW found, NEW all, m = heldFor', found = held', all = heldAll'
          PROVE  Answers(m, found, all)'
      BY <1>0, <2>1, <2>2, AnswersKept DEF AnswersWhole
    <2> QED
      BY <2>2 DEF Answers
  <1>9. ASSUME NEW c \in Queries, Blocked(c) PROVE HeldWhole'
    BY <1>9, <1>a DEF Blocked
  <1>10. ASSUME NEW c \in Queries, Unblocked(c) PROVE HeldWhole'
    BY <1>10, <1>a DEF Unblocked
  <1>11. ASSUME NEW c \in Queries, QueryFails(c) PROVE HeldWhole'
    <2>1. heldFor' = 0 \/ UNCHANGED <<held, heldFor, heldAll>>
      BY <1>11 DEF QueryFails
    <2>2. CASE heldFor' = 0
      BY <2>2 DEF HeldWhole
    <2> QED
      BY <1>a, <2>1, <2>2
  <1>12. ASSUME NEW c \in Queries, NEW m \in 1 .. Months, ChangeMonth(c, m) PROVE HeldWhole'
    BY <1>12, <1>a DEF ChangeMonth
  <1>13. ASSUME NEW c \in Queries, NEW i \in Ranges, RemoveBlock(c, i) PROVE HeldWhole'
    BY <1>13, <1>a DEF RemoveBlock
  <1>14. ASSUME NEW c \in Queries, NEW i \in Ranges, BlockAvailability(c, i) PROVE HeldWhole'
    BY <1>14, <1>a DEF BlockAvailability
  <1>15. CASE UNCHANGED calendarVars
    BY <1>15, <1>a DEF calendarVars
  <1> QED
    BY <1>1, <1>2, <1>3, <1>4, <1>5, <1>6, <1>7, <1>8, <1>9, <1>10, <1>11, <1>12, <1>13,
       <1>14,
       <1>15 DEF CalendarNext

\* A range that shares a day with two dates of a month shares a day with the month.
LEMMA WithinMonth ==
    ASSUME CalendarTypeOK, NEW i \in Ranges, NEW m \in 1 .. Months, NEW a \in CalendarDays,
           NEW b \in CalendarDays, SameMonth(a, m), SameMonth(b, m), Covers(i, a, b)
    PROVE  Covers(i, StartOfMonth(m), EndOfMonth(m))
  <1>1. StartOfMonth(m) \in Int /\ EndOfMonth(m) \in Int /\ a \in Int /\ b \in Int
    BY MonthDays
  <1>2. range[i].from \in Int /\ range[i].to \in Int
    <2>1. /\ range[i].from \in CalendarDays \union {NoDay}
          /\ range[i].to \in CalendarDays \union {NoDay}
      BY DEF CalendarTypeOK, DateRange
    <2>2. CalendarDays \union {NoDay} \subseteq Int
      BY MonthDays DEF NoDay
    <2> QED
      BY <2>1, <2>2
  <1> QED
    BY <1>1, <1>2 DEF SameMonth, Covers

LEMMA ClickStep ==
    ASSUME SelectionInv, NEW d \in CalendarDays, Click(d)
    PROVE  AssuredGiven' /\ SelectionFree'
  <1>0. /\ CalendarTypeOK /\ DatesOfMonth /\ HeldWhole
        /\ month \in 1 .. Months /\ heldAll \in SUBSET Ranges
        /\ start \in CalendarDays \union {NoDay}
    BY DEF SelectionInv, MonthInv, CalendarTypeOK
  <1>1. UNCHANGED <<owner, range, month, held, busy, query, heldFor, heldAll>>
    BY DEF Click
  <1>2. CASE assured' = {}
    BY <1>2 DEF AssuredGiven, SelectionFree
  <1>3. CASE assured' # {} /\ ~owner
    <2>1. /\ start # NoDay /\ start' = start /\ finish' = d /\ assured' = heldAll
          /\ ~Unavailable(start, d) /\ SameMonth(d, month)
          /\ heldFor # 0 /\ SameMonth(start, month) /\ ~busy
      BY <1>3 DEF Click
    <2>2. Answers(month, held, heldAll) /\ start \in CalendarDays
      BY <1>0, <1>3, <2>1 DEF DatesOfMonth, HeldWhole
    <2>3. \A i \in heldAll : ~Covers(i, start, d)
      <3> SUFFICES ASSUME NEW i \in heldAll, Covers(i, start, d) PROVE FALSE
        OBVIOUS
      <3>1. Covers(i, StartOfMonth(month), EndOfMonth(month))
        BY <1>0, <2>1, <2>2, WithinMonth
      <3>2. i \in held
        BY <2>2, <3>1 DEF Answers
      <3> QED
        BY <2>1, <3>2 DEF Unavailable
    <2>4. AssuredGiven'
      BY <1>1, <2>1, <2>2 DEF AssuredGiven, Answers
    <2>5. SelectionFree'
      BY <1>1, <2>1, <2>3 DEF SelectionFree, Covers
    <2> QED
      BY <2>4, <2>5
  <1>4. CASE owner
    BY <1>1, <1>4 DEF AssuredGiven, SelectionFree
  <1> QED
    BY <1>2, <1>3, <1>4

LEMMA SelectionStep ==
    SelectionInv /\ [CalendarNext]_calendarVars => AssuredGiven' /\ SelectionFree'
  <1> SUFFICES ASSUME SelectionInv, [CalendarNext]_calendarVars
               PROVE  AssuredGiven' /\ SelectionFree'
    OBVIOUS
  <1>0. /\ RangesGiven /\ AssuredGiven /\ SelectionFree
        /\ assured \in SUBSET Ranges
    BY RangesStep DEF SelectionInv, MonthInv, CalendarTypeOK
  <1> USE DEF calendarHistory
  <1>a. ASSUME UNCHANGED <<start, finish, assured>> PROVE AssuredGiven' /\ SelectionFree'
    BY <1>0, <1>a DEF RangesGiven, AssuredGiven, SelectionFree, Covers
  <1>b. ASSUME Cleared PROVE AssuredGiven' /\ SelectionFree'
    BY <1>b DEF Cleared, AssuredGiven, SelectionFree
  <1>1. ASSUME ClearSelection PROVE AssuredGiven' /\ SelectionFree'
    BY <1>1, <1>b DEF ClearSelection
  <1>2. ASSUME NEW d \in CalendarDays, Click(d) PROVE AssuredGiven' /\ SelectionFree'
    BY <1>2, ClickStep
  <1>3. ASSUME NEW i \in Ranges, NEW kind \in BookingKinds, BookingChanges(i, kind)
        PROVE  AssuredGiven' /\ SelectionFree'
    BY <1>3, <1>a DEF BookingChanges
  <1>4. ASSUME NEW i \in Ranges, NEW r \in OtherRanges, OtherBooks(i, r[1], r[2])
        PROVE  AssuredGiven' /\ SelectionFree'
    BY <1>4, <1>a DEF OtherBooks
  <1>5. ASSUME NEW c \in Queries, BlockSelected(c) PROVE AssuredGiven' /\ SelectionFree'
    BY <1>5, <1>a DEF BlockSelected
  <1>6. ASSUME NEW c \in Queries, GetAvailability(c) PROVE AssuredGiven' /\ SelectionFree'
    BY <1>6, <1>a DEF GetAvailability
  <1>7. ASSUME NEW c \in Queries, RemoveAvailabilityBlock(c)
        PROVE  AssuredGiven' /\ SelectionFree'
    BY <1>7, <1>a DEF RemoveAvailabilityBlock
  <1>8. ASSUME NEW c \in Queries, Availability(c) PROVE AssuredGiven' /\ SelectionFree'
    BY <1>8, <1>a DEF Availability
  <1>9. ASSUME NEW c \in Queries, Blocked(c) PROVE AssuredGiven' /\ SelectionFree'
    BY <1>9, <1>b DEF Blocked
  <1>10. ASSUME NEW c \in Queries, Unblocked(c) PROVE AssuredGiven' /\ SelectionFree'
    BY <1>10, <1>a DEF Unblocked
  <1>11. ASSUME NEW c \in Queries, QueryFails(c) PROVE AssuredGiven' /\ SelectionFree'
    BY <1>11, <1>a DEF QueryFails
  <1>12. ASSUME NEW c \in Queries, NEW m \in 1 .. Months, ChangeMonth(c, m)
         PROVE  AssuredGiven' /\ SelectionFree'
    BY <1>12, <1>a DEF ChangeMonth
  <1>13. ASSUME NEW c \in Queries, NEW i \in Ranges, RemoveBlock(c, i)
         PROVE  AssuredGiven' /\ SelectionFree'
    BY <1>13, <1>a DEF RemoveBlock
  <1>14. ASSUME NEW c \in Queries, NEW i \in Ranges, BlockAvailability(c, i)
         PROVE  AssuredGiven' /\ SelectionFree'
    BY <1>14, <1>a DEF BlockAvailability
  <1>15. CASE UNCHANGED calendarVars
    BY <1>15, <1>a DEF calendarVars
  <1> QED
    BY <1>1, <1>2, <1>3, <1>4, <1>5, <1>6, <1>7, <1>8, <1>9, <1>10, <1>11, <1>12, <1>13,
       <1>14,
       <1>15 DEF CalendarNext

\* The page's state, the ranges on the server and the requests keep their types.
THEOREM CalendarTypeCorrect == CalendarSpec => []CalendarTypeOK
  <1>1. CalendarInit => CalendarTypeOK
    BY CalendarInitInv DEF SelectionInv, MonthInv
  <1> QED
    BY <1>1, CalendarTypeStep, PTL DEF CalendarSpec

\* Whatever is clicked and however late the answers are: the dates held are those
\* of the month open, unless the fetch they came from overlapped another one or
\* was for another month, or a later one failed.
THEOREM CalendarDatesOfMonth == CalendarSpec => []DatesOfMonth
  <1>1. CalendarInit => MonthInv
    BY CalendarInitInv DEF SelectionInv
  <1>2. MonthInv /\ [CalendarNext]_calendarVars => MonthInv'
    BY CalendarTypeStep, MonthStep DEF MonthInv
  <1>3. MonthInv => DatesOfMonth
    BY DEF MonthInv
  <1> QED
    BY <1>1, <1>2, <1>3, PTL DEF CalendarSpec

\* However long the months and the ranges: dates selected in the month they were
\* begun in share no day with a range there was when the calendar was answered.
THEOREM CalendarSelectionFree == CalendarSpec => []SelectionFree
  <1>1. MonthInv /\ [CalendarNext]_calendarVars => MonthInv'
    BY CalendarTypeStep, MonthStep DEF MonthInv
  <1>2. SelectionInv /\ [CalendarNext]_calendarVars => SelectionInv'
    BY <1>1, AnswersStep, HeldStep, SelectionStep DEF SelectionInv
  <1>3. SelectionInv => SelectionFree
    BY DEF SelectionInv
  <1> QED
    BY CalendarInitInv, <1>2, <1>3, PTL DEF CalendarSpec

(* -------------------------------- Searches ----------------------------- *)

\* A search whose answer will be applied on the guarded page, and one that has been
\* alone, is for the filter chosen.
SearchesFit ==
    \A k \in InFlight :
        /\ search[k].alone => /\ search[k].filter = filter
                              /\ \A i \in InFlight : i = k
        /\ guarded /\ search[k].live => search[k].filter = filter

SearchesInv == SearchesTypeOK /\ SearchesFit /\ ResultsFit

LEMMA SearchesInitInv == SearchesInit => SearchesInv
  <1> SUFFICES ASSUME SearchesInit PROVE SearchesInv
    OBVIOUS
  <1>1. SearchesTypeOK
    BY DEF SearchesInit, SearchesTypeOK, Search, NoSearch
  <1>2. SearchesFit
    BY SearchesAssumption
       DEF SearchesAssumption, SearchesInit, SearchesFit, InFlight, NoSearch
  <1>3. ResultsFit
    BY DEF SearchesInit, ResultsFit
  <1> QED
    BY <1>1, <1>2, <1>3 DEF SearchesInv

LEMMA SearchBegun ==
    ASSUME SearchesInv, NEW k \in SearchSlots, NEW f \in Filters, NEW cleanup \in BOOLEAN,
           BeginSearch(k, f, cleanup), guarded' = guarded,
           filter' = f, f # filter => cleanup = guarded
    PROVE  /\ search' \in [SearchSlots -> Search] /\ waiting'
           /\ SearchesFit'
  <1>0. search \in [SearchSlots -> Search] /\ guarded \in BOOLEAN
    BY DEF SearchesInv, SearchesTypeOK
  <1>1. /\ waiting' /\ k \notin InFlight
        /\ search'[k].filter = f /\ search'[k].alone = (InFlight = {})
    BY DEF BeginSearch
  <1>2. search' \in [SearchSlots -> Search]
    BY <1>0 DEF BeginSearch, Search
  <1>3. \A i \in SearchSlots : i # k =>
            /\ search'[i].filter = search[i].filter /\ ~search'[i].alone
            /\ search'[i].live => search[i].live /\ ~cleanup
    BY <1>0 DEF BeginSearch, Search
  <1>4. \A i \in SearchSlots : i # k => (i \in InFlight' <=> i \in InFlight)
    BY <1>3 DEF InFlight
  <1>5. SearchesFit'
    <2> SUFFICES ASSUME NEW i \in InFlight'
                 PROVE  /\ search'[i].alone => /\ search'[i].filter = filter'
                                               /\ \A j \in InFlight' : j = i
                        /\ guarded' /\ search'[i].live => search'[i].filter = filter'
      BY DEF SearchesFit
    <2>0. i \in SearchSlots /\ InFlight' \subseteq SearchSlots
      BY DEF InFlight
    <2>1. CASE i = k
      BY <1>1, <1>4, <2>0, <2>1
    <2>2. CASE i # k
      BY <1>3, <1>4, <2>0, <2>2 DEF SearchesInv, SearchesFit
    <2> QED
      BY <2>1, <2>2
  <1> QED
    BY <1>1, <1>2, <1>5

LEMMA SearchOver ==
    ASSUME SearchesInv, NEW k \in SearchSlots, NEW list \in {search[k].filter, Nothing},
           EndSearch(k, list)
    PROVE  SearchesInv'
  <1>0. /\ search \in [SearchSlots -> Search] /\ guarded \in BOOLEAN /\ filter \in Filters
        /\ k \in InFlight
    BY DEF SearchesInv, SearchesTypeOK, EndSearch
  <1>1. /\ search' = [search EXCEPT ![k] = NoSearch]
        /\ guarded' = guarded /\ filter' = filter
    BY DEF EndSearch
  <1>2. list \in Filters \union {Nothing}
    BY <1>0 DEF Search
  <1>3. SearchesTypeOK'
    <2>1. NoSearch \in Search /\ search[k].alone \in BOOLEAN
      BY <1>0 DEF Search, NoSearch
    <2>2. search' \in [SearchSlots -> Search]
      BY <1>0, <1>1, <2>1
    <2>3. /\ results' \in Filters \union {Nothing}
          /\ waiting' \in BOOLEAN /\ jumbled' \in BOOLEAN
      <3>1. CASE Ignored(k)
        BY <3>1 DEF EndSearch, SearchesInv, SearchesTypeOK
      <3>2. CASE ~Ignored(k)
        <4>1. results' = list /\ waiting' = FALSE /\ jumbled' = ~search[k].alone
          BY <3>2 DEF EndSearch
        <4> QED
          BY <1>2, <2>1, <4>1
      <3> QED
        BY <3>1, <3>2
    <2> QED
      BY <1>0, <1>1, <2>2, <2>3 DEF SearchesTypeOK
  <1>4. /\ k \notin InFlight'
        /\ \A i \in SearchSlots : i # k =>
              search'[i] = search[i] /\ (i \in InFlight' <=> i \in InFlight)
    BY <1>0, <1>1 DEF InFlight, NoSearch
  <1>5. SearchesFit'
    BY <1>1, <1>4 DEF SearchesInv, SearchesFit, InFlight
  <1>6. ResultsFit'
    <2>1. CASE Ignored(k)
      BY <1>1, <2>1 DEF EndSearch, SearchesInv, ResultsFit
    <2>2. CASE ~Ignored(k)
      <3>1. results' = list /\ jumbled' = ~search[k].alone
        BY <2>2 DEF EndSearch
      <3>2. guarded \/ ~jumbled' => search[k].filter = filter
        BY <1>0, <2>2, <3>1 DEF SearchesInv, SearchesFit, Ignored
      <3> QED
        BY <1>1, <3>1, <3>2 DEF ResultsFit
    <2> QED
      BY <2>1, <2>2
  <1> QED
    BY <1>3, <1>5, <1>6 DEF SearchesInv

LEMMA SearchesStep == SearchesInv /\ [SearchesNext]_searchVars => SearchesInv'
  <1> SUFFICES ASSUME SearchesInv, [SearchesNext]_searchVars PROVE SearchesInv'
    OBVIOUS
  <1>0. guarded \in BOOLEAN /\ filter \in Filters
    BY DEF SearchesInv, SearchesTypeOK
  <1>1. ASSUME NEW k \in SearchSlots, BecomeVisible(k) PROVE SearchesInv'
    <2>1. search' \in [SearchSlots -> Search] /\ waiting' /\ SearchesFit'
      BY <1>0, <1>1, SearchBegun DEF BecomeVisible
    <2>2. waiting' = TRUE
      BY <1>1 DEF BecomeVisible, BeginSearch
    <2> QED
      BY <1>1, <2>1, <2>2 DEF BecomeVisible, SearchesInv, SearchesTypeOK, ResultsFit
  <1>2. ASSUME NEW k \in SearchSlots, NEW f \in Filters, ChooseFilter(k, f) PROVE SearchesInv'
    <2>1. search' \in [SearchSlots -> Search] /\ waiting' /\ SearchesFit'
      BY <1>0, <1>2, SearchBegun DEF ChooseFilter
    <2>2. waiting' = TRUE
      BY <1>2 DEF ChooseFilter, BeginSearch
    <2> QED
      BY <1>2, <2>1, <2>2 DEF ChooseFilter, SearchesInv, SearchesTypeOK, ResultsFit
  <1>3. ASSUME NEW k \in SearchSlots, SearchAnswered(k) PROVE SearchesInv'
    BY <1>3, SearchOver DEF SearchAnswered
  <1>4. ASSUME NEW k \in SearchSlots, SearchFails(k) PROVE SearchesInv'
    BY <1>4, SearchOver DEF SearchFails
  <1>5. CASE UNCHANGED searchVars
    BY <1>5 DEF searchVars, SearchesInv, SearchesTypeOK, SearchesFit, ResultsFit, InFlight
  <1> QED
    BY <1>1, <1>2, <1>3, <1>4, <1>5 DEF SearchesNext

\* The page's state and its searches keep their types.
THEOREM SearchesTypeCorrect == SearchesSpec => []SearchesTypeOK
  <1>1. SearchesInv => SearchesTypeOK
    BY DEF SearchesInv
  <1> QED
    BY SearchesInitInv, SearchesStep, <1>1, PTL DEF SearchesSpec

\* However many searches are in flight and in whatever order they end: what the
\* providers page lists is what its filter asks for; the category page too, unless
\* the search it came from overlapped another.
THEOREM SearchesResultsFit == SearchesSpec => []ResultsFit
  <1>1. SearchesInv => ResultsFit
    BY DEF SearchesInv
  <1> QED
    BY SearchesInitInv, SearchesStep, <1>1, PTL DEF SearchesSpec

(* --------------------------------- Session ----------------------------- *)

\* A request that is not stale carries the token in localStorage; who logs in is
\* somebody.
SentBelongs ==
    \A s \in Sent :
        /\ sent[s].op # "none" /\ ~sent[s].stale => sent[s].token = key
        /\ sent[s].op \in {"login", "provider"} => sent[s].person \in Persons

\* Without a session nobody's name and token are left, once nothing is blended.
NobodyLeft == ~blended /\ ~mem.auth => mem.user = Nil /\ mem.token = Nil

OutMeansNoKey == out => key = Nil

SessionInv ==
    /\ SessionTypeOK /\ SentBelongs /\ NobodyLeft /\ OutMeansNoKey
    /\ UserMatchesToken /\ LoggedOutStays

LEMMA SessionInitInv == SessionInit => SessionInv
  <1> SUFFICES ASSUME SessionInit PROVE SessionInv
    OBVIOUS
  <1> USE DEF SessionInit, NoSession, NoMessage
  <1>1. SessionTypeOK
    BY DEF SessionTypeOK, StoreState, Message
  <1>2. SentBelongs
    BY DEF SentBelongs
  <1>3. NobodyLeft /\ OutMeansNoKey /\ UserMatchesToken /\ LoggedOutStays
    BY DEF NobodyLeft, OutMeansNoKey, UserMatchesToken, LoggedOutStays
  <1> QED
    BY <1>1, <1>2, <1>3 DEF SessionInv

LEMMA DispatchStep ==
    ASSUME SessionTypeOK, SentBelongs, NEW s \in Sent, NEW op \in SessionOps \ {"callback"},
           NEW u \in Persons \union {Nil}, op \in {"login", "provider"} => u \in Persons,
           Dispatch(s, op, u), key' = key
    PROVE  /\ sent' \in [Sent -> Message] /\ SentBelongs'
           /\ \A t \in Sent : sent[t].op = "callback" => sent'[t].op = "callback"
  <1>1. /\ sent \in [Sent -> Message] /\ sent[s].op = "none" /\ key \in Persons \union {Nil}
        /\ sent' = [sent EXCEPT ![s] = [NoMessage EXCEPT !.op = op, !.token = key, !.person = u]]
    BY DEF Dispatch, SessionTypeOK
  <1>2. /\ sent'[s].op = op /\ sent'[s].token = key /\ sent'[s].person = u
        /\ sent'[s] \in Message
    BY <1>1 DEF NoMessage, Message
  <1>3. \A t \in Sent : t # s => sent'[t] = sent[t]
    BY <1>1
  <1>4. sent' \in [Sent -> Message]
    BY <1>1, <1>2, <1>3
  <1>5. SentBelongs'
    BY <1>2, <1>3 DEF SentBelongs
  <1> QED
    BY <1>1, <1>3, <1>4, <1>5

\* The callbacks in flight, s apart, stay.
CallbacksStay(s) ==
    \A t \in Sent : t # s /\ sent[t].op = "callback" => sent'[t].op = "callback"

\* The end of a request, with a change of the session or without.
LEMMA OverStep ==
    ASSUME SessionTypeOK, SentBelongs, NEW s, NEW changes \in BOOLEAN, Over(s, changes),
           ~changes => key' = key
    PROVE  sent' \in [Sent -> Message] /\ SentBelongs' /\ CallbacksStay(s)
  <1>1. sent \in [Sent -> Message] /\ NoMessage \in Message /\ NoMessage.op = "none"
    BY DEF SessionTypeOK, NoMessage, Message
  <1>2. \A t \in Sent : IF t = s \/ sent[t].op = "none" THEN sent'[t] = NoMessage
                        ELSE sent'[t] = [sent[t] EXCEPT !.stale = @ \/ changes]
    BY DEF Over
  <1>3. ASSUME NEW t \in Sent, t # s, sent[t].op # "none"
        PROVE  /\ sent'[t] \in Message /\ sent'[t].op = sent[t].op
               /\ sent'[t].token = sent[t].token /\ sent'[t].person = sent[t].person
               /\ sent'[t].stale = (sent[t].stale \/ changes)
    <2>1. sent[t] \in Message /\ sent'[t] = [sent[t] EXCEPT !.stale = @ \/ changes]
      BY <1>1, <1>2, <1>3
    <2> QED
      BY <2>1 DEF Message
  <1>4. \A t \in Sent : t = s \/ sent[t].op = "none" => sent'[t] = NoMessage
    BY <1>2
  <1>5. sent' \in [Sent -> Message]
    <2>1. \A t \in Sent : sent'[t] \in Message
      BY <1>1, <1>3, <1>4
    <2>2. sent' = [t \in Sent |-> sent'[t]]
      BY DEF Over
    <2> QED
      BY <2>1, <2>2
  <1>6. SentBelongs'
    BY <1>1, <1>3, <1>4 DEF SentBelongs
  <1>7. CallbacksStay(s)
    BY <1>3 DEF CallbacksStay
  <1> QED
    BY <1>5, <1>6, <1>7

Sessions == NobodyLeft /\ OutMeansNoKey /\ UserMatchesToken /\ LoggedOutStays

\* The session stays, and so does what is blended or waiting for a profile.
LEMMA SessionKept ==
    ASSUME SessionInv, mem'.user = mem.user, mem'.token = mem.token, mem'.auth = mem.auth,
           key' = key, out' = out, blended => blended',
           \/ blended'
           \/ \A s \in Sent : sent[s].op = "callback" => sent'[s].op = "callback"
    PROVE  Sessions'
  BY DEF Sessions, SessionInv, NobodyLeft, OutMeansNoKey, UserMatchesToken, LoggedOutStays

\* The session is set as a whole.
LEMMA SessionSet ==
    ASSUME mem'.user = key', mem'.token = key', mem'.auth <=> key' # Nil, out' => key' = Nil
    PROVE  Sessions'
  BY DEF Sessions, NobodyLeft, OutMeansNoKey, UserMatchesToken, LoggedOutStays

LEMMA StoreType ==
    ASSUME NEW m \in StoreState
    PROVE  /\ m.user \in Persons \union {Nil} /\ m.token \in Persons \union {Nil}
           /\ m.auth \in BOOLEAN /\ m.loading \in BOOLEAN
           /\ \A b \in BOOLEAN :
                 LET n == [m EXCEPT !.loading = b] IN
                 /\ n \in StoreState /\ n.user = m.user /\ n.token = m.token /\ n.auth = m.auth
           /\ \A b \in BOOLEAN :
                 LET n == [NoSession EXCEPT !.loading = b] IN
                 /\ n \in StoreState /\ n.user = Nil /\ n.token = Nil /\ n.auth = FALSE
           /\ NoSession \in StoreState
  BY DEF StoreState, NoSession

LEMMA LoadPageStep ==
    ASSUME SessionInv, NEW p \in Paths, LoadPage(p)
    PROVE  SessionInv'
  <1>0. SessionTypeOK /\ SentBelongs /\ mem \in StoreState /\ key \in Persons \union {Nil}
    BY DEF SessionInv, SessionTypeOK
  <1>1. /\ mem' = [mem EXCEPT !.loading = FALSE] /\ key' = key /\ out' = out
        /\ blended' = (blended \/ \E s \in Sent : sent[s].op = "callback")
        /\ sent' = [s \in Sent |-> IF s = 1 THEN InitMessage ELSE NoMessage]
        /\ path' = p /\ expired' = expired /\ ousted' = ousted
    BY DEF LoadPage
  <1>2. /\ mem' \in StoreState
        /\ mem'.user = mem.user /\ mem'.token = mem.token /\ mem'.auth = mem.auth
    BY <1>0, <1>1, StoreType
  <1>3. /\ NoMessage \in Message /\ NoMessage.op = "none"
        /\ InitMessage \in Message
        /\ InitMessage.op \in {"none", "init"}
        /\ InitMessage.op # "none" => InitMessage.token = key
    BY <1>0 DEF InitMessage, NoMessage, Message, SessionOps
  <1>4. sent' \in [Sent -> Message] /\ SentBelongs'
    BY <1>1, <1>3 DEF SentBelongs
  <1>5. blended' \in BOOLEAN
    BY <1>0, <1>1 DEF SessionTypeOK
  <1>6. SessionTypeOK'
    BY <1>0, <1>1, <1>2, <1>4, <1>5 DEF SessionTypeOK
  <1>7. Sessions'
    BY <1>1, <1>2, SessionKept
  <1> QED
    BY <1>4, <1>6, <1>7 DEF SessionInv, Sessions

LEMMA GoogleCallbackStep ==
    ASSUME SessionInv, NEW u \in Persons, GoogleCallback(u)
    PROVE  SessionInv'
  <1>0. /\ SessionTypeOK /\ mem \in StoreState /\ key \in Persons \union {Nil} /\ u # Nil
        /\ 1 \in Sent /\ expired \in SUBSET Persons
    BY SessionAssumption DEF SessionAssumption, SessionInv, SessionTypeOK, Sent
  <1>1. /\ key' = u /\ expired' = expired \ {u} /\ path' = "auth" /\ out' = FALSE
        /\ mem' = [mem EXCEPT !.token = u, !.auth = TRUE, !.loading = FALSE]
        /\ sent' = [s \in Sent |->
                      IF s = 1 THEN [NoMessage EXCEPT !.op = "callback", !.token = u]
                      ELSE IF s = 2 /\ InitMessage # NoMessage
                           THEN [InitMessage EXCEPT !.stale = TRUE]
                      ELSE NoMessage]
        /\ blended' = blended /\ ousted' = ousted
    BY DEF GoogleCallback
  <1>2. mem' \in StoreState /\ mem'.auth
    BY <1>0, <1>1 DEF StoreState
  <1>3. /\ NoMessage \in Message /\ NoMessage.op = "none"
        /\ InitMessage \in Message /\ InitMessage.op \in {"none", "init"}
    BY <1>0 DEF InitMessage, NoMessage, Message, SessionOps
  <1>4. LET c == [NoMessage EXCEPT !.op = "callback", !.token = u] IN
        c \in Message /\ c.op = "callback" /\ c.token = u
    BY DEF NoMessage, Message, SessionOps
  <1>5. LET i == [InitMessage EXCEPT !.stale = TRUE] IN
        i \in Message /\ i.stale /\ i.op = InitMessage.op
    BY <1>3 DEF Message
  <1>6. sent' \in [Sent -> Message] /\ SentBelongs' /\ sent'[1].op = "callback"
    BY <1>0, <1>1, <1>3, <1>4, <1>5 DEF SentBelongs
  <1>7. SessionTypeOK'
    BY <1>0, <1>1, <1>2, <1>6 DEF SessionTypeOK, Paths
  <1>8. Sessions'
    BY <1>0, <1>1, <1>2, <1>6
    DEF Sessions, NobodyLeft, OutMeansNoKey, UserMatchesToken, LoggedOutStays
  <1> QED
    BY <1>6, <1>7, <1>8 DEF SessionInv, Sessions

LEMMA LogoutStep == ASSUME SessionInv, Logout PROVE SessionInv'
  <1>0. SessionTypeOK /\ SentBelongs /\ mem \in StoreState
    BY DEF SessionInv, SessionTypeOK
  <1>1. /\ key' = Nil /\ mem' = [NoSession EXCEPT !.loading = mem.loading]
        /\ Over(NoOne, TRUE) /\ blended' = FALSE /\ out' = TRUE
        /\ expired' = expired /\ path' = path /\ ousted' = ousted
    BY DEF Logout
  <1>2. mem' \in StoreState /\ mem'.user = Nil /\ mem'.token = Nil /\ mem'.auth = FALSE
    BY <1>0, <1>1, StoreType
  <1>3. sent' \in [Sent -> Message] /\ SentBelongs'
    BY <1>0, <1>1, OverStep
  <1>4. SessionTypeOK'
    BY <1>0, <1>1, <1>2, <1>3 DEF SessionTypeOK
  <1>5. Sessions'
    BY <1>1, <1>2, SessionSet
  <1> QED
    BY <1>3, <1>4, <1>5 DEF SessionInv, Sessions

LEMMA EnteredStep == ASSUME SessionInv, NEW s \in Sent, Entered(s) PROVE SessionInv'
  <1> DEFINE u == sent[s].person
  <1>0. SessionTypeOK /\ SentBelongs /\ expired \in SUBSET Persons
    BY DEF SessionInv, SessionTypeOK
  <1>1. /\ key' = u /\ mem' = SessionOf(u) /\ expired' = expired \ {u}
        /\ blended' = FALSE /\ out' = FALSE /\ Over(s, TRUE)
        /\ path' = path /\ ousted' = ousted
        /\ sent[s].op \in {"login", "provider"}
    BY DEF Entered
  <1>2. u \in Persons /\ u # Nil
    BY <1>0, <1>1, SessionAssumption DEF SentBelongs, SessionAssumption
  <1> HIDE DEF u
  <1>3. mem' \in StoreState /\ mem'.user = u /\ mem'.token = u /\ mem'.auth = TRUE
    BY <1>1, <1>2 DEF SessionOf, StoreState
  <1>4. sent' \in [Sent -> Message] /\ SentBelongs'
    BY <1>0, <1>1, OverStep
  <1>5. SessionTypeOK'
    BY <1>0, <1>1, <1>2, <1>3, <1>4 DEF SessionTypeOK
  <1>6. Sessions'
    BY <1>1, <1>2, <1>3, SessionSet
  <1> QED
    BY <1>4, <1>5, <1>6 DEF SessionInv, Sessions

LEMMA ProfileStep == ASSUME SessionInv, NEW s \in Sent, Profile(s) PROVE SessionInv'
  <1> DEFINE u == sent[s].token
             op == sent[s].op
  <1>0. /\ SessionTypeOK /\ SentBelongs /\ mem \in StoreState
        /\ sent[s] \in Message /\ u \in Persons \union {Nil}
        /\ sent[s].stale \in BOOLEAN /\ blended \in BOOLEAN
    BY DEF SessionInv, SessionTypeOK, Message
  <1>1. /\ op \in {"refresh", "init", "callback", "update"}
        /\ u # Nil
        /\ blended' = (sent[s].stale \/ (blended /\ op \in {"refresh", "update"}))
        /\ Over(s, FALSE) /\ key' = key /\ out' = out
        /\ expired' = expired /\ path' = path /\ ousted' = ousted
    BY DEF Profile, Authorized
  <1>2. /\ sent' \in [Sent -> Message] /\ SentBelongs'
        /\ \A t \in Sent : t # s /\ sent[t].op = "callback" => sent'[t].op = "callback"
    <2>1. sent' \in [Sent -> Message] /\ SentBelongs' /\ CallbacksStay(s)
      BY <1>0, <1>1, OverStep
    <2> QED
      BY <2>1 DEF CallbacksStay
  <1>3. ~blended' => u = key /\ key # Nil /\ ~out
    <2>1. op # "none" /\ (~sent[s].stale => u = key)
      BY <1>0, <1>1 DEF SentBelongs
    <2> QED
      BY <1>1, <2>1 DEF SessionInv, OutMeansNoKey
  <1>4. OutMeansNoKey'
    BY <1>1 DEF SessionInv, OutMeansNoKey
  <1> SUFFICES mem' \in StoreState /\ Sessions'
    <2>1. blended' \in BOOLEAN
      BY <1>0, <1>1
    <2>2. mem' \in StoreState => SessionTypeOK'
      BY <1>0, <1>1, <1>2, <2>1 DEF SessionTypeOK
    <2> QED
      BY <1>2, <2>2 DEF SessionInv, Sessions
  <1>5. CASE op = "refresh"
    <2>1. mem' = [mem EXCEPT !.user = u, !.auth = TRUE]
      BY <1>5 DEF Profile
    <2>2. /\ mem' \in StoreState
          /\ mem'.user = u /\ mem'.token = mem.token /\ mem'.auth = TRUE
      BY <1>0, <2>1 DEF StoreState
    <2>3. (\A t \in Sent : sent'[t].op # "callback") => \A t \in Sent : sent[t].op # "callback"
      BY <1>2, <1>5
    <2>4. ~blended' => ~blended
      BY <1>1, <1>5
    <2>5. UserMatchesToken'
      BY <1>1, <1>3, <2>2, <2>3, <2>4 DEF SessionInv, UserMatchesToken
    <2> QED
      BY <1>1, <1>3, <1>4, <2>2, <2>5 DEF Sessions, NobodyLeft, LoggedOutStays
  <1>6. CASE op = "update"
    <2>1. mem' = [mem EXCEPT !.user = IF @ = Nil THEN Nil ELSE u]
      BY <1>6 DEF Profile
    <2>2. /\ mem' \in StoreState
          /\ mem'.user = (IF mem.user = Nil THEN Nil ELSE u)
          /\ mem'.token = mem.token /\ mem'.auth = mem.auth
      BY <1>0, <2>1 DEF StoreState
    <2>3. UserMatchesToken'
      BY <1>0, <1>1, <1>2, <1>3, <1>6, <2>2 DEF SessionInv, UserMatchesToken
    <2>4. NobodyLeft'
      BY <1>0, <1>1, <1>6, <2>2 DEF SessionInv, NobodyLeft
    <2> QED
      BY <1>3, <1>4, <1>1, <2>2, <2>3, <2>4 DEF Sessions, LoggedOutStays
  <1>7. CASE op \in {"init", "callback"}
    <2>1. mem' = [mem EXCEPT !.user = u, !.token = u, !.auth = TRUE]
      BY <1>7 DEF Profile
    <2>2. mem' \in StoreState /\ mem'.user = u /\ mem'.token = u /\ mem'.auth = TRUE
      BY <1>0, <2>1 DEF StoreState
    <2> QED
      BY <1>1, <1>3, <1>4, <2>2
      DEF Sessions, NobodyLeft, UserMatchesToken, LoggedOutStays
  <1> QED
    BY <1>1, <1>5, <1>6, <1>7

\* The login page is loaded with the store m, which is the store or none.
LEMMA ToLoginStep ==
    ASSUME SessionInv, NEW m \in {mem, NoSession}, ToLogin(m)
    PROVE  SessionInv'
  <1>0. /\ SessionTypeOK /\ mem \in StoreState /\ m \in StoreState
        /\ blended \in BOOLEAN /\ ousted \in BOOLEAN
    BY StoreType DEF SessionInv, SessionTypeOK
  <1>1. /\ key' = Nil /\ mem' = [m EXCEPT !.loading = FALSE]
        /\ sent' = [s \in Sent |-> NoMessage] /\ path' = "auth"
        /\ expired' = expired /\ out' = out
    BY DEF ToLogin
  <1>2. /\ blended' = ((blended \/ m.auth) /\ m # NoSession)
        /\ ousted' = (ousted \/ path = "public")
    BY DEF ToLogin
  <1>3. /\ mem' \in StoreState
        /\ mem'.user = m.user /\ mem'.token = m.token /\ mem'.auth = m.auth
    BY <1>0, <1>1, StoreType
  <1>4. sent' \in [Sent -> Message] /\ SentBelongs'
    BY <1>1 DEF NoMessage, Message, SentBelongs
  <1>5. blended' \in BOOLEAN /\ ousted' \in BOOLEAN
    BY <1>0, <1>2
  <1>6. SessionTypeOK'
    BY <1>0, <1>1, <1>3, <1>4, <1>5 DEF SessionTypeOK, Paths
  <1>7. ~blended' => m.user = Nil /\ m.token = Nil /\ ~m.auth
    <2>1. CASE m = NoSession
      BY <2>1 DEF NoSession
    <2>2. CASE m # NoSession
      BY <1>2, <2>2 DEF SessionInv, NobodyLeft
    <2> QED
      BY <2>1, <2>2
  <1>8. Sessions'
    BY <1>1, <1>3, <1>7
    DEF Sessions, NobodyLeft, OutMeansNoKey, UserMatchesToken, LoggedOutStays
  <1> QED
    BY <1>4, <1>6, <1>8 DEF SessionInv, Sessions

\* A request ends and leaves the session.
LEMMA QuietStep ==
    ASSUME SessionInv, NEW s \in Sent, sent[s].op # "callback", Over(s, FALSE),
           UNCHANGED <<mem, key, expired, path, sessionHistory>>
    PROVE  SessionInv'
  <1>0. SessionTypeOK /\ SentBelongs
    BY DEF SessionInv
  <1>1. key' = key /\ UNCHANGED <<mem, expired, path, blended, out, ousted>>
    BY DEF sessionHistory
  <1>2. sent' \in [Sent -> Message] /\ SentBelongs' /\ CallbacksStay(s)
    BY <1>0, <1>1, OverStep
  <1>3. SessionTypeOK'
    BY <1>0, <1>1, <1>2 DEF SessionTypeOK
  <1>4. \A t \in Sent : sent[t].op = "callback" => sent'[t].op = "callback"
    BY <1>2 DEF CallbacksStay
  <1>5. Sessions'
    BY <1>1, <1>4, SessionKept
  <1> QED
    BY <1>2, <1>3, <1>5 DEF SessionInv, Sessions

LEMMA FailedStep == ASSUME SessionInv, NEW s \in Sent, Failed(s) PROVE SessionInv'
  <1> DEFINE op == sent[s].op
  <1>0. SessionTypeOK /\ SentBelongs /\ mem \in StoreState /\ blended \in BOOLEAN
    BY DEF SessionInv, SessionTypeOK
  <1>1. expired' = expired /\ path' = path /\ out' = out /\ ousted' = ousted
    BY DEF Failed
  <1>2. CASE op \in {"refresh", "init"}
    <2>1. /\ key' = Nil /\ mem' = [NoSession EXCEPT !.loading = mem.loading]
          /\ blended' = FALSE /\ Over(s, TRUE)
      BY <1>2 DEF Failed
    <2>2. mem' \in StoreState /\ mem'.user = Nil /\ mem'.token = Nil /\ mem'.auth = FALSE
      BY <1>0, <2>1, StoreType
    <2>3. sent' \in [Sent -> Message] /\ SentBelongs'
      BY <1>0, <2>1, OverStep
    <2>4. SessionTypeOK'
      BY <1>0, <1>1, <2>1, <2>2, <2>3 DEF SessionTypeOK
    <2>5. Sessions'
      BY <2>1, <2>2, SessionSet
    <2> QED
      BY <2>3, <2>4, <2>5 DEF SessionInv, Sessions
  <1>3. CASE op \notin {"refresh", "init"}
    <2>1. /\ mem' = IF op = "login" THEN [mem EXCEPT !.loading = FALSE] ELSE mem
          /\ Over(s, FALSE) /\ key' = key
      BY <1>3 DEF Failed
    <2>2. blended' = (blended \/ op = "callback")
      BY <1>3 DEF Failed
    <2>3. /\ mem' \in StoreState
          /\ mem'.user = mem.user /\ mem'.token = mem.token /\ mem'.auth = mem.auth
      BY <1>0, <2>1, StoreType
    <2>4. sent' \in [Sent -> Message] /\ SentBelongs' /\ CallbacksStay(s)
      BY <1>0, <2>1, OverStep
    <2>5. blended' \in BOOLEAN
      BY <1>0, <2>2
    <2>6. SessionTypeOK'
      BY <1>0, <1>1, <2>1, <2>3, <2>4, <2>5 DEF SessionTypeOK
    <2>7. blended' \/ \A t \in Sent : sent[t].op = "callback" => sent'[t].op = "callback"
      BY <2>2, <2>4 DEF CallbacksStay
    <2>8. blended => blended'
      BY <2>2
    <2>9. Sessions'
      BY <1>1, <2>1, <2>3, <2>7, <2>8, SessionKept
    <2> QED
      BY <2>4, <2>6, <2>9 DEF SessionInv, Sessions
  <1> QED
    BY <1>2, <1>3

\* A request begins, which is no callback.
LEMMA AskedStep ==
    ASSUME SessionInv, NEW s \in Sent, NEW op \in SessionOps \ {"callback"},
           NEW u \in Persons \union {Nil}, op \in {"login", "provider"} => u \in Persons,
           Dispatch(s, op, u), mem' \in StoreState,
           mem'.user = mem.user, mem'.token = mem.token, mem'.auth = mem.auth,
           UNCHANGED <<key, expired, path, sessionHistory>>
    PROVE  SessionInv'
  <1>0. SessionTypeOK /\ SentBelongs
    BY DEF SessionInv
  <1>1. key' = key /\ UNCHANGED <<expired, path, blended, out, ousted>>
    BY DEF sessionHistory
  <1>2. /\ sent' \in [Sent -> Message] /\ SentBelongs'
        /\ \A t \in Sent : sent[t].op = "callback" => sent'[t].op = "callback"
    BY <1>0, <1>1, DispatchStep
  <1>3. SessionTypeOK'
    BY <1>0, <1>1, <1>2 DEF SessionTypeOK
  <1>4. Sessions'
    BY <1>1, <1>2, SessionKept
  <1> QED
    BY <1>2, <1>3, <1>4 DEF SessionInv, Sessions

LEMMA SessionStep == SessionInv /\ [SessionNext]_sessionVars => SessionInv'
  <1> SUFFICES ASSUME SessionInv, [SessionNext]_sessionVars PROVE SessionInv'
    OBVIOUS
  <1>0. /\ SessionTypeOK /\ SentBelongs /\ mem \in StoreState
        /\ NobodyLeft /\ OutMeansNoKey /\ UserMatchesToken /\ LoggedOutStays
    BY DEF SessionInv, SessionTypeOK
  \* the store, the token and the requests stay
  <1>a. ASSUME UNCHANGED <<mem, key, sent, blended, out>>, SessionTypeOK' PROVE SessionInv'
    <2>1. Sessions'
      BY <1>a, SessionKept
    <2>2. SentBelongs'
      BY <1>0, <1>a DEF SentBelongs
    <2> QED
      BY <1>a, <2>1, <2>2 DEF SessionInv, Sessions
  <1>1. ASSUME Logout PROVE SessionInv'
    BY <1>1, LogoutStep
  <1>2. ASSUME NEW p \in Paths, Visit(p) PROVE SessionInv'
    <2>1. SessionTypeOK'
      BY <1>0, <1>2 DEF Visit, SessionTypeOK, sessionHistory
    <2> QED
      BY <1>2, <1>a, <2>1 DEF Visit, sessionHistory
  <1>3. ASSUME NEW p \in Paths, LoadPage(p) PROVE SessionInv'
    BY <1>3, LoadPageStep
  <1>4. ASSUME NEW u \in Persons, GoogleCallback(u) PROVE SessionInv'
    BY <1>4, GoogleCallbackStep
  <1>5. ASSUME NEW u \in Persons, Expiry(u) PROVE SessionInv'
    <2>1. SessionTypeOK'
      BY <1>0, <1>5 DEF Expiry, SessionTypeOK, sessionHistory
    <2> QED
      BY <1>5, <1>a, <2>1 DEF Expiry, sessionHistory
  <1>6. ASSUME NEW s \in Sent, NEW u \in Persons, Login(s, u) PROVE SessionInv'
    <2>1. /\ mem' = [mem EXCEPT !.loading = TRUE] /\ Dispatch(s, "login", u)
          /\ UNCHANGED <<key, expired, path, sessionHistory>>
      BY <1>6 DEF Login
    <2>2. /\ mem' \in StoreState
          /\ mem'.user = mem.user /\ mem'.token = mem.token /\ mem'.auth = mem.auth
      BY <1>0, <2>1, StoreType
    <2>3. "login" \in SessionOps \ {"callback"}
      BY DEF SessionOps
    <2> QED
      BY <2>1, <2>2, <2>3, AskedStep
  <1>7. ASSUME NEW s \in Sent, NEW u \in Persons, SignUpProvider(s, u) PROVE SessionInv'
    <2>1. /\ mem' = mem /\ Dispatch(s, "provider", u)
          /\ UNCHANGED <<key, expired, path, sessionHistory>>
      BY <1>7 DEF SignUpProvider
    <2>2. "provider" \in SessionOps \ {"callback"}
      BY DEF SessionOps
    <2> QED
      BY <1>0, <2>1, <2>2, AskedStep
  <1>8. ASSUME NEW s \in Sent, NEW op \in SessionOps, Ask(s, op) PROVE SessionInv'
    <2>1. /\ mem' = mem /\ Dispatch(s, op, Nil) /\ op \in {"refresh", "update", "open", "other"}
          /\ UNCHANGED <<key, expired, path, sessionHistory>>
      BY <1>8 DEF Ask
    <2>2. op \in SessionOps \ {"callback"} /\ op \notin {"login", "provider"}
      BY <2>1 DEF SessionOps
    <2> QED
      BY <1>0, <2>1, <2>2, AskedStep
  <1>9. ASSUME NEW s \in Sent, Answer(s) PROVE SessionInv'
    <2>1. CASE Entered(s)
      BY <2>1, EnteredStep
    <2>2. CASE Profile(s)
      BY <2>2, ProfileStep
    <2>3. CASE ResponseArrives(s)
      BY <2>3, QuietStep DEF ResponseArrives
    <2>4. CASE Unauthorized(s)
      <3>1. CASE ToLogin(mem)
        BY <3>1, ToLoginStep
      <3>2. CASE ToLogin(NoSession)
        BY <3>2, ToLoginStep
      <3>3. CASE /\ sent[s].op = "open" /\ Over(s, FALSE)
                 /\ UNCHANGED <<mem, key, expired, path, sessionHistory>>
        BY <3>3, QuietStep
      <3> QED
        BY <2>4, <3>1, <3>2, <3>3 DEF Unauthorized
    <2>5. CASE Failed(s)
      BY <2>5, FailedStep
    <2> QED
      BY <1>9, <2>1, <2>2, <2>3, <2>4, <2>5 DEF Answer
  <1>10. CASE UNCHANGED sessionVars
    <2>1. SessionTypeOK'
      BY <1>0, <1>10 DEF sessionVars, sessionHistory, SessionTypeOK
    <2> QED
      BY <1>10, <1>a, <2>1 DEF sessionVars, sessionHistory
  <1> QED
    BY <1>1, <1>2, <1>3, <1>4, <1>5, <1>6, <1>7, <1>8, <1>9, <1>10 DEF SessionNext

\* The store, the token and the requests in flight keep their types.
THEOREM SessionTypeCorrect == SessionSpec => []SessionTypeOK
  <1>1. SessionInv => SessionTypeOK
    BY DEF SessionInv
  <1> QED
    BY SessionInitInv, SessionStep, <1>1, PTL DEF SessionSpec

\* However many users and requests in flight: user, token and localStorage are of
\* one person or all missing, outside the overlaps the history records.
THEOREM SessionUserMatchesToken == SessionSpec => []UserMatchesToken
  <1>1. SessionInv => UserMatchesToken
    BY DEF SessionInv
  <1> QED
    BY SessionInitInv, SessionStep, <1>1, PTL DEF SessionSpec

\* Who has logged out stays so through page loads, failures, 401s and answers, until
\* the next login, or an answer to a request of the session that ended.
THEOREM SessionLoggedOutStays == SessionSpec => []LoggedOutStays
  <1>1. SessionInv => LoggedOutStays
    BY DEF SessionInv
  <1> QED
    BY SessionInitInv, SessionStep, <1>1, PTL DEF SessionSpec

(* ------------------------------- ChatPage ------------------------------ *)

\* Induction over the numbers, stated with a set: it holds of 0 and goes from n to n + 1.
LEMMA InductionOnNat ==
    ASSUME NEW S \in SUBSET Nat, 0 \in S, \A n \in S : n + 1 \in S
    PROVE  S = Nat
  <1> DEFINE R == {p \in Nat \X Nat : p[1] < p[2]}
  <1>1. IsWellFoundedOn(R, Nat)
    BY NatLessThanWellFounded DEF OpToRel
  <1>2. SUFFICES ASSUME Nat \ S # {} PROVE FALSE
    OBVIOUS
  <1>3. PICK n \in Nat \ S : \A k \in Nat \ S : ~(<<k, n>> \in R)
    BY <1>1, <1>2, WFMin
  <1>4. n # 0 /\ n - 1 \in Nat /\ <<n - 1, n>> \in R
    OBVIOUS
  <1>5. n - 1 \in S
    BY <1>3, <1>4
  <1>6. (n - 1) + 1 = n
    BY <1>4
  <1> QED
    BY <1>3, <1>5, <1>6

\* One step of the recursion of Filtered, and what it computes up to m.
FilterStep(s, keep, f, n) ==
    IF n = 0 THEN <<>>
    ELSE IF s[n] \in keep THEN Append(f[n - 1], s[n]) ELSE f[n - 1]

FiltersUpTo(s, keep, f, m) == f = [n \in 0 .. m |-> FilterStep(s, keep, f, n)]

LEMMA FilterExists ==
    ASSUME NEW s, NEW keep, NEW m \in Nat
    PROVE  \E f : FiltersUpTo(s, keep, f, m)
  <1> DEFINE T == {n \in Nat : \E f : FiltersUpTo(s, keep, f, n)}
  <1>1. 0 \in T
    <2>1. FiltersUpTo(s, keep, [n \in 0 .. 0 |-> <<>>], 0)
      BY DEF FiltersUpTo, FilterStep
    <2> QED
      BY <2>1
  <1>2. ASSUME NEW n \in T PROVE n + 1 \in T
    <2>1. PICK f : FiltersUpTo(s, keep, f, n)
      BY <1>2
    <2> DEFINE g == [k \in 0 .. n + 1 |-> IF k <= n THEN f[k] ELSE FilterStep(s, keep, f, n + 1)]
    <2>2. n \in Nat
      BY <1>2
    <2>3. ASSUME NEW k \in 0 .. n + 1 PROVE g[k] = FilterStep(s, keep, g, k)
      <3>1. CASE k <= n
        <4>1. f[k] = FilterStep(s, keep, f, k)
          BY <2>1, <2>2, <3>1 DEF FiltersUpTo
        <4>2. k # 0 => g[k - 1] = f[k - 1]
          BY <2>2, <3>1
        <4> QED
          BY <2>2, <3>1, <4>1, <4>2 DEF FilterStep
      <3>2. CASE k = n + 1
        <4>1. g[k] = FilterStep(s, keep, f, n + 1) /\ g[(n + 1) - 1] = f[(n + 1) - 1]
          BY <2>2, <3>2
        <4> QED
          BY <2>2, <3>2, <4>1 DEF FilterStep
      <3> QED
        BY <2>2, <3>1, <3>2
    <2> HIDE DEF g
    <2>4. FiltersUpTo(s, keep, g, n + 1)
      BY <2>2, <2>3 DEF FiltersUpTo, g
    <2> QED
      BY <2>2, <2>4
  <1>3. T = Nat
    BY <1>1, <1>2, InductionOnNat
  <1> QED
    BY <1>3

LEMMA FilteredIs ==
    ASSUME NEW s, NEW keep, Len(s) \in Nat
    PROVE  \E f : FiltersUpTo(s, keep, f, Len(s)) /\ Filtered(s, keep) = f[Len(s)]
  <1> DEFINE f == CHOOSE f : FiltersUpTo(s, keep, f, Len(s))
  <1>1. FiltersUpTo(s, keep, f, Len(s))
    BY FilterExists
  <1>2. Filtered(s, keep) = f[Len(s)]
    BY DEF Filtered, FiltersUpTo, FilterStep
  <1> QED
    BY <1>1, <1>2

\* r is the elements of the first n of s that are in keep: g says where they come from.
Picks(s, keep, n, r, g) ==
    /\ g \in [1 .. Len(r) -> 1 .. n]
    /\ \A i, j \in 1 .. Len(r) : i < j => g[i] < g[j]
    /\ \A i \in 1 .. Len(r) : r[i] = s[g[i]] /\ r[i] \in keep
    /\ \A k \in 1 .. n : s[k] \in keep => \E i \in 1 .. Len(r) : g[i] = k

LEMMA PicksStep ==
    ASSUME NEW S, NEW s \in Seq(S), NEW keep, NEW n \in Nat, n < Len(s),
           NEW r \in Seq(S), NEW g, Picks(s, keep, n, r, g)
    PROVE  IF s[n + 1] \in keep
           THEN \E h : Picks(s, keep, n + 1, Append(r, s[n + 1]), h)
           ELSE Picks(s, keep, n + 1, r, g)
  <1>1. CASE s[n + 1] \in keep
    <2> DEFINE t == Append(r, s[n + 1])
               h == [i \in 1 .. Len(r) + 1 |-> IF i <= Len(r) THEN g[i] ELSE n + 1]
    <2>1. /\ Len(r) \in Nat /\ Len(t) = Len(r) + 1
          /\ \A i \in 1 .. Len(r) : t[i] = r[i]
          /\ t[Len(r) + 1] = s[n + 1]
      OBVIOUS
    <2>2. h \in [1 .. Len(r) + 1 -> 1 .. n + 1]
      BY <2>1 DEF Picks
    <2>3. \A i, j \in 1 .. Len(r) + 1 : i < j => h[i] < h[j]
      BY <2>1 DEF Picks
    <2>4. \A i \in 1 .. Len(r) + 1 : t[i] = s[h[i]] /\ t[i] \in keep
      BY <1>1, <2>1 DEF Picks
    <2>5. ASSUME NEW k \in 1 .. n + 1, s[k] \in keep PROVE \E i \in 1 .. Len(r) + 1 : h[i] = k
      <3>1. CASE k = n + 1
        BY <2>1, <3>1
      <3>2. CASE k \in 1 .. n
        BY <2>1, <2>5, <3>2 DEF Picks
      <3> QED
        BY <3>1, <3>2
    <2> HIDE DEF t, h
    <2>6. Picks(s, keep, n + 1, t, h)
      BY <2>1, <2>2, <2>3, <2>4, <2>5 DEF Picks
    <2> QED
      BY <1>1, <2>6 DEF t
  <1>2. CASE s[n + 1] \notin keep
    BY <1>2 DEF Picks
  <1> QED
    BY <1>1, <1>2

\* What the filters of the messages page compute, whatever the sequence and whatever they
\* keep: every element that is to be kept is in the result, nothing else is, and the order
\* is that of the sequence (getConversation's where clause, prev.filter of the page).
THEOREM FilteredPicks ==
    ASSUME NEW S, NEW s \in Seq(S), NEW keep
    PROVE  /\ Filtered(s, keep) \in Seq(S)
           /\ \E g : Picks(s, keep, Len(s), Filtered(s, keep), g)
  <1>0. Len(s) \in Nat
    OBVIOUS
  <1>1. PICK f : FiltersUpTo(s, keep, f, Len(s)) /\ Filtered(s, keep) = f[Len(s)]
    BY <1>0, FilteredIs
  <1> DEFINE T == {n \in Nat : n <= Len(s) => f[n] \in Seq(S) /\ \E g : Picks(s, keep, n, f[n], g)}
  <1>2. 0 \in T
    <2>1. f[0] = <<>>
      BY <1>0, <1>1 DEF FiltersUpTo, FilterStep
    <2>2. Picks(s, keep, 0, <<>>, <<>>)
      BY DEF Picks
    <2>3. f[0] \in Seq(S)
      BY <2>1
    <2>4. \E g : Picks(s, keep, 0, f[0], g)
      BY <2>1, <2>2
    <2> QED
      BY <2>3, <2>4
  <1>3. ASSUME NEW n \in T PROVE n + 1 \in T
    <2>1. CASE n < Len(s)
      <3>1. PICK g : Picks(s, keep, n, f[n], g)
        BY <1>0, <1>3, <2>1
      <3>2. f[n] \in Seq(S) /\ n \in Nat /\ s[n + 1] \in S
        BY <1>0, <1>3, <2>1
      <3>3. f[n + 1] = IF s[n + 1] \in keep THEN Append(f[n], s[n + 1]) ELSE f[n]
        <4>1. f[n + 1] = FilterStep(s, keep, f, n + 1)
          BY <1>0, <1>1, <2>1, <3>2 DEF FiltersUpTo
        <4>2. n + 1 # 0 /\ (n + 1) - 1 = n
          BY <3>2
        <4> QED
          BY <4>1, <4>2 DEF FilterStep
      <3>4. \E h : Picks(s, keep, n + 1, f[n + 1], h)
        BY <2>1, <3>1, <3>2, <3>3, PicksStep
      <3>5. f[n + 1] \in Seq(S)
        BY <3>2, <3>3
      <3> QED
        BY <3>2, <3>4, <3>5
    <2>2. CASE ~(n < Len(s))
      BY <1>0, <1>3, <2>2
    <2> QED
      BY <2>1, <2>2
  <1> HIDE DEF T
  <1>4. T = Nat
    BY <1>2, <1>3, InductionOnNat DEF T
  <1> QED
    BY <1>0, <1>1, <1>4 DEF T

\* What is stored was written, and is stored once; what is being sent was written,
\* and is not stored before the server has it.
StoredOnce ==
    /\ \A i \in DOMAIN stored : chatOf[stored[i]] # NoChat
    /\ \A i, j \in DOMAIN stored : stored[i] = stored[j] => i = j
    /\ sending.pc = "none" => sending = NoSending
    /\ sending.pc # "none" => sending.text \in Texts /\ chatOf[sending.text] # NoChat
    /\ sending.pc = "sent" => \A i \in DOMAIN stored : stored[i] # sending.text

ListedWritten == \A i \in DOMAIN listed : chatOf[listed[i].text] # NoChat

\* A load that has been alone is for the open conversation; an answer has messages of
\* its conversation, each once.
RowsRight(q) ==
    /\ \A i \in DOMAIN q.rows : ~q.rows[i].temp /\ chatOf[q.rows[i].text] = q.chat
    /\ \A i, j \in DOMAIN q.rows : q.rows[i].text = q.rows[j].text => i = j

LoadsRight ==
    \A k \in 1 .. MaxLoads :
        /\ load[k].pc # "none" => load[k].chat \in Chats
        /\ load[k].pc = "answer" => RowsRight(load[k])
        /\ load[k].alone => load[k].pc # "none" /\ load[k].chat = opened

ChatInv ==
    /\ ChatTypeOK /\ StoredOnce /\ ListedWritten /\ LoadsRight
    /\ SentOnce /\ OwnMessages

LEMMA ChatTypes ==
    /\ NoText \notin Texts /\ NoLoad \in Load
    /\ NoSending \in [text : Texts \union {NoText}, pc : {"none", "sent", "stored"}]
    /\ <<>> \in Seq(Texts) /\ <<>> \in Seq(Item)
  <1>1. <<>> \in Seq(Item) /\ <<>> \in Seq(Texts)
    OBVIOUS
  <1>2. NoLoad \in Load
    BY <1>1 DEF NoLoad, Load
  <1> QED
    BY <1>1, <1>2 DEF NoSending, NoText, Texts

LEMMA ItemParts ==
    ASSUME NEW s \in Seq(Item), NEW i \in DOMAIN s
    PROVE  /\ s[i] \in Item /\ s[i].text \in Texts
           /\ [s[i] EXCEPT !.temp = FALSE] \in Item
           /\ [s[i] EXCEPT !.temp = FALSE].text = s[i].text
           /\ ~[s[i] EXCEPT !.temp = FALSE].temp
  <1>1. s[i] \in Item
    OBVIOUS
  <1> QED
    BY <1>1 DEF Item

LEMMA ChatInitInv == ChatInit => ChatInv
  <1> SUFFICES ASSUME ChatInit PROVE ChatInv
    OBVIOUS
  <1> USE ChatTypes
  <1>1. ChatTypeOK
    BY DEF ChatInit, ChatTypeOK
  <1>2. StoredOnce /\ ListedWritten /\ SentOnce /\ OwnMessages
    BY DEF ChatInit, StoredOnce, NoSending, ListedWritten, SentOnce, OwnMessages
  <1>3. LoadsRight
    BY DEF ChatInit, LoadsRight, NoLoad
  <1> QED
    BY <1>1, <1>2, <1>3 DEF ChatInv

\* The rows of a conversation: each message of it once.
LEMMA RowsOfRight ==
    ASSUME ChatTypeOK, StoredOnce, NEW c \in Chats
    PROVE  /\ RowsOf(c) \in Seq(Item)
           /\ \A i \in DOMAIN RowsOf(c) : ~RowsOf(c)[i].temp /\ chatOf[RowsOf(c)[i].text] = c
           /\ \A i, j \in DOMAIN RowsOf(c) : RowsOf(c)[i].text = RowsOf(c)[j].text => i = j
  <1> DEFINE keep == {t \in Texts : chatOf[t] = c}
             rows == Filtered(stored, keep)
  <1>1. stored \in Seq(Texts)
    BY DEF ChatTypeOK
  <1>2. PICK g : rows \in Seq(Texts) /\ Picks(stored, keep, Len(stored), rows, g)
    BY <1>1, FilteredPicks
  <1>3. /\ Len(rows) \in Nat
        /\ \A i \in 1 .. Len(rows) : rows[i] \in Texts /\ chatOf[rows[i]] = c
    BY <1>2 DEF Picks
  <1>4. ASSUME NEW i \in 1 .. Len(rows), NEW j \in 1 .. Len(rows), rows[i] = rows[j]
        PROVE  i = j
    <2>1. /\ g[i] \in DOMAIN stored /\ g[j] \in DOMAIN stored
          /\ rows[i] = stored[g[i]] /\ rows[j] = stored[g[j]]
      BY <1>1, <1>2 DEF Picks
    <2>2. g[i] = g[j]
      BY <1>4, <2>1 DEF StoredOnce
    <2>3. (i < j => g[i] < g[j]) /\ (j < i => g[j] < g[i])
      BY <1>2 DEF Picks
    <2> QED
      BY <1>1, <1>3, <2>1, <2>2, <2>3
  <1> DEFINE skipped == IF Len(rows) > PageSize THEN Len(rows) - PageSize ELSE 0
  <1>5. RowsOf(c) = [i \in 1 .. Len(rows) - skipped |-> [text |-> rows[skipped + i], temp |-> FALSE]]
    BY DEF RowsOf
  <1> HIDE DEF rows
  <1>6. /\ skipped \in Nat /\ Len(rows) - skipped \in Nat
        /\ \A i \in 1 .. Len(rows) - skipped : skipped + i \in 1 .. Len(rows)
        /\ \A i, j \in 1 .. Len(rows) - skipped : skipped + i = skipped + j => i = j
    BY <1>3, ChatAssumption DEF ChatAssumption
  <1> HIDE DEF skipped
  <1>7. DOMAIN RowsOf(c) = 1 .. Len(rows) - skipped /\ RowsOf(c) \in Seq(Item)
    <2>1. \A i \in 1 .. Len(rows) - skipped : [text |-> rows[skipped + i], temp |-> FALSE] \in Item
      BY <1>3, <1>6 DEF Item
    <2>2. RowsOf(c) \in [1 .. Len(rows) - skipped -> Item]
      BY <1>5, <2>1
    <2> QED
      BY <1>6, <2>2
  <1>8. \A i \in 1 .. Len(rows) - skipped :
           /\ ~RowsOf(c)[i].temp /\ chatOf[RowsOf(c)[i].text] = c
           /\ RowsOf(c)[i].text = rows[skipped + i]
    BY <1>3, <1>5, <1>6
  <1>9. ASSUME NEW i \in 1 .. Len(rows) - skipped, NEW j \in 1 .. Len(rows) - skipped,
               RowsOf(c)[i].text = RowsOf(c)[j].text
        PROVE  i = j
    <2>1. rows[skipped + i] = rows[skipped + j]
      BY <1>8, <1>9
    <2>2. skipped + i = skipped + j
      BY <1>4, <1>6, <2>1
    <2> QED
      BY <1>6, <2>2
  <1> QED
    BY <1>7, <1>8, <1>9

\* The list without the temporary message: what is left was listed, and none twice.
LEMMA OthersRight ==
    ASSUME ChatTypeOK, SentOnce
    PROVE  /\ ListedOthers \in Seq(Item)
           /\ \A i \in DOMAIN ListedOthers : /\ \E k \in DOMAIN listed : ListedOthers[i] = listed[k]
                                             /\ ~ListedOthers[i].temp
           /\ \A i, j \in DOMAIN ListedOthers : ListedOthers[i].text = ListedOthers[j].text => i = j
  <1> DEFINE keep == {m \in Item : ~(m.temp /\ m.text = sending.text)}
             left == Filtered(listed, keep)
  <1>1. listed \in Seq(Item)
    BY DEF ChatTypeOK
  <1>2. PICK g : left \in Seq(Item) /\ Picks(listed, keep, Len(listed), left, g)
    BY <1>1, FilteredPicks
  <1>3. \A i \in 1 .. Len(left) :
            /\ g[i] \in DOMAIN listed /\ left[i] = listed[g[i]]
            /\ ~(left[i].temp /\ left[i].text = sending.text)
    BY <1>1, <1>2 DEF Picks
  <1>4. \A i \in 1 .. Len(left) : ~left[i].temp
    BY <1>3 DEF SentOnce
  <1>5. ASSUME NEW i \in 1 .. Len(left), NEW j \in 1 .. Len(left), left[i].text = left[j].text
        PROVE  i = j
    <2>1. g[i] = g[j]
      BY <1>3, <1>5 DEF SentOnce
    <2>2. (i < j => g[i] < g[j]) /\ (j < i => g[j] < g[i]) /\ g[i] \in Nat
      BY <1>1, <1>2, <1>3 DEF Picks
    <2> QED
      BY <1>2, <2>1, <2>2
  <1>6. ListedOthers = left /\ DOMAIN left = 1 .. Len(left)
    BY <1>2 DEF ListedOthers
  <1> HIDE DEF left
  <1> QED
    BY <1>2, <1>3, <1>4, <1>5, <1>6

\* A message is written with a text that no row and no item has.
LEMMA WrittenIsNew ==
    ASSUME ChatInv, NEW t \in Texts, NEW c \in Chats, Written(t, c)
    PROVE  /\ chatOf' \in [Texts -> Chats \union {NoChat}]
           /\ chatOf[t] = NoChat /\ chatOf'[t] = c /\ c # NoChat
           /\ \A u \in Texts \ {t} : chatOf'[u] = chatOf[u]
           /\ \A i \in DOMAIN stored : stored[i] # t
           /\ \A i \in DOMAIN listed : listed[i].text # t
           /\ sending.pc # "none" => sending.text # t
  BY ChatAssumption
     DEF ChatInv, ChatTypeOK, Written, ChatAssumption, StoredOnce, ListedWritten

LEMMA ChatTypeStep == ChatInv /\ [ChatNext]_chatVars => ChatTypeOK'
  <1> SUFFICES ASSUME ChatInv, [ChatNext]_chatVars PROVE ChatTypeOK'
    OBVIOUS
  <1>0. ChatTypeOK /\ StoredOnce /\ SentOnce
    BY DEF ChatInv
  <1> USE ChatTypes
  <1>1. CASE StoreSent
    BY <1>0, <1>1 DEF StoreSent, ChatTypeOK, StoredOnce
  <1>2. CASE SentAnswered
    <2>1. listed' \in Seq(Item)
      <3>1. listed \in Seq(Item) /\ Len(listed) \in Nat /\ DOMAIN listed = 1 .. Len(listed)
        BY <1>0 DEF ChatTypeOK
      <3>2. \A i \in DOMAIN listed : [listed[i] EXCEPT !.temp = FALSE] \in Item
        BY <3>1, ItemParts
      <3> QED
        BY <1>2, <3>1, <3>2 DEF SentAnswered
    <2> QED
      BY <1>0, <1>2, <2>1 DEF SentAnswered, ChatTypeOK
  <1>3. CASE SendFails
    BY <1>0, <1>3, OthersRight DEF SendFails, ChatTypeOK
  <1>4. ASSUME NEW t \in Texts, SendMessage(t) PROVE ChatTypeOK'
    <2>1. chatOf' \in [Texts -> Chats \union {NoChat}]
      BY <1>0, <1>4 DEF SendMessage, Written, ChatTypeOK
    <2>2. [text |-> t, temp |-> TRUE] \in Item
      BY DEF Item
    <2> QED
      BY <1>0, <1>4, <2>1, <2>2 DEF SendMessage, ChatTypeOK
  <1>5. ASSUME NEW t \in Texts, NEW c \in Chats, Arrives(t, c) PROVE ChatTypeOK'
    BY <1>0, <1>5 DEF Arrives, Written, ChatTypeOK
  <1>6. ASSUME NEW k \in 1 .. MaxLoads, ServeConversation(k) PROVE ChatTypeOK'
    <2>1. load[k].chat \in Chats
      BY <1>6 DEF ChatInv, LoadsRight, ServeConversation
    <2>2. RowsOf(load[k].chat) \in Seq(Item)
      BY <1>0, <2>1, RowsOfRight
    <2>3. load' \in [1 .. MaxLoads -> Load]
      BY <1>0, <1>6, <2>2 DEF ServeConversation, ChatTypeOK, Load
    <2> QED
      BY <1>0, <1>6, <2>3 DEF ServeConversation, ChatTypeOK
  <1>7. ASSUME NEW k \in 1 .. MaxLoads, NEW rows \in Seq(Item), EndLoad(k, rows)
        PROVE  ChatTypeOK'
    <2>1. load[k].alone \in BOOLEAN
      BY <1>0 DEF ChatTypeOK, Load
    <2> QED
      BY <1>0, <1>7, <2>1 DEF EndLoad, ChatTypeOK
  <1>8. ASSUME NEW k \in 1 .. MaxLoads, Loaded(k) PROVE ChatTypeOK'
    BY <1>0, <1>7, <1>8 DEF Loaded, ChatTypeOK, Load
  <1>9. ASSUME NEW k \in 1 .. MaxLoads, LoadFails(k) PROVE ChatTypeOK'
    BY <1>7, <1>9 DEF LoadFails
  <1>10. ASSUME NEW k \in 1 .. MaxLoads, NEW c \in Chats, SelectConversation(k, c)
         PROVE  ChatTypeOK'
    <2>1. load' \in [1 .. MaxLoads -> Load]
      BY <1>0, <1>10 DEF SelectConversation, ChatTypeOK, Load, NoLoad
    <2> QED
      BY <1>0, <1>10, <2>1 DEF SelectConversation, ChatTypeOK
  <1>11. CASE UNCHANGED chatVars
    BY <1>0, <1>11 DEF chatVars, ChatTypeOK
  <1> QED
    BY <1>1, <1>2, <1>3, <1>4, <1>5, <1>6, <1>8, <1>9, <1>10, <1>11 DEF ChatNext

LEMMA StoredOnceStep == ChatInv /\ [ChatNext]_chatVars => StoredOnce'
  <1> SUFFICES ASSUME ChatInv, [ChatNext]_chatVars PROVE StoredOnce'
    OBVIOUS
  <1>0. ChatTypeOK /\ StoredOnce
    BY DEF ChatInv
  <1> USE ChatTypes
  <1>1. CASE StoreSent
    BY <1>0, <1>1 DEF StoreSent, ChatTypeOK, StoredOnce
  <1>2. CASE SentAnswered \/ SendFails
    BY <1>0, <1>2 DEF SentAnswered, SendFails, StoredOnce, NoSending
  <1>4. ASSUME NEW t \in Texts, SendMessage(t) PROVE StoredOnce'
    <2>1. opened \in Chats /\ Written(t, opened)
      BY <1>0, <1>4 DEF SendMessage, ChatTypeOK
    <2> QED
      BY <1>0, <1>4, <2>1, WrittenIsNew DEF SendMessage, ChatTypeOK, StoredOnce
  <1>5. ASSUME NEW t \in Texts, NEW c \in Chats, Arrives(t, c) PROVE StoredOnce'
    BY <1>0, <1>5, WrittenIsNew DEF Arrives, ChatTypeOK, StoredOnce, NoSending
  <1>6. ASSUME UNCHANGED <<chatOf, stored, sending>> PROVE StoredOnce'
    BY <1>0, <1>6 DEF StoredOnce
  <1>7. ASSUME NEW k \in 1 .. MaxLoads,
               \/ ServeConversation(k) \/ Loaded(k) \/ LoadFails(k)
               \/ \E c \in Chats : SelectConversation(k, c)
        PROVE  StoredOnce'
    BY <1>6, <1>7 DEF ServeConversation, Loaded, LoadFails, EndLoad, SelectConversation
  <1>8. CASE UNCHANGED chatVars
    BY <1>6, <1>8 DEF chatVars
  <1> QED
    BY <1>1, <1>2, <1>4, <1>5, <1>7, <1>8 DEF ChatNext
\* What is listed from before still fits when no message is listed anew.
LEMMA ListedKept ==
    ASSUME ChatInv, listed' = listed, \A t \in Texts : chatOf[t] # NoChat => chatOf'[t] = chatOf[t]
    PROVE  /\ ListedWritten'
           /\ sending'.text = sending.text => SentOnce'
  <1>1. listed \in Seq(Item) /\ ListedWritten /\ SentOnce
    BY DEF ChatInv, ChatTypeOK
  <1>2. \A i \in DOMAIN listed : listed[i].text \in Texts
    BY <1>1, ItemParts
  <1> QED
    BY <1>1, <1>2 DEF ListedWritten, SentOnce

LEMMA ListedStep == ChatInv /\ [ChatNext]_chatVars => ListedWritten' /\ SentOnce'
  <1> SUFFICES ASSUME ChatInv, [ChatNext]_chatVars PROVE ListedWritten' /\ SentOnce'
    OBVIOUS
  <1>0. ChatTypeOK /\ StoredOnce /\ ListedWritten /\ SentOnce
    BY DEF ChatInv
  <1>1. CASE StoreSent
    BY <1>0, <1>1, ListedKept DEF StoreSent, ChatTypeOK
  <1>2. CASE SentAnswered
    <2>1. /\ listed \in Seq(Item) /\ DOMAIN listed' = DOMAIN listed
          /\ \A i \in DOMAIN listed : listed'[i].text = listed[i].text /\ ~listed'[i].temp
      BY <1>0, <1>2 DEF SentAnswered, ChatTypeOK, SentOnce, Item
    <2> QED
      BY <1>0, <1>2, <2>1 DEF SentAnswered, ListedWritten, SentOnce
  <1>3. CASE SendFails
    BY <1>0, <1>3, OthersRight DEF SendFails, ListedWritten, SentOnce
  <1>4. ASSUME NEW t \in Texts, SendMessage(t) PROVE ListedWritten' /\ SentOnce'
    <2>1. opened \in Chats /\ Written(t, opened)
      BY <1>0, <1>4 DEF SendMessage, ChatTypeOK
    <2>2. \A i \in DOMAIN listed : ~listed[i].temp /\ listed[i].text \in Texts \ {t}
      <3>1. listed \in Seq(Item) /\ sending.text = NoText
        BY <1>0, <1>4 DEF SendMessage, ChatTypeOK, NoSending
      <3>2. \A i \in DOMAIN listed : listed[i].text \in Texts /\ listed[i].text # t
        BY <2>1, <3>1, WrittenIsNew, ItemParts
      <3> QED
        BY <1>0, <3>1, <3>2, ChatTypes DEF SentOnce
    <2>3. /\ Len(listed) \in Nat /\ DOMAIN listed = 1 .. Len(listed)
          /\ DOMAIN listed' = 1 .. Len(listed) + 1
          /\ \A i \in DOMAIN listed : listed'[i] = listed[i]
          /\ listed'[Len(listed) + 1] = [text |-> t, temp |-> TRUE]
          /\ sending'.text = t
      BY <1>0, <1>4 DEF SendMessage, ChatTypeOK
    <2>4. ListedWritten'
      BY <1>0, <2>1, <2>2, <2>3, WrittenIsNew DEF ListedWritten
    <2>5. SentOnce'
      BY <1>0, <2>2, <2>3 DEF SentOnce
    <2> QED
      BY <2>4, <2>5
  <1>5. ASSUME NEW t \in Texts, NEW c \in Chats, Arrives(t, c)
        PROVE  ListedWritten' /\ SentOnce'
    BY <1>5, WrittenIsNew, ListedKept DEF Arrives
  <1>6. ASSUME NEW k \in 1 .. MaxLoads, Loaded(k) PROVE ListedWritten' /\ SentOnce'
    <2>1. RowsRight(load[k]) /\ load[k].chat # NoChat
      BY <1>6, ChatAssumption DEF ChatInv, LoadsRight, Loaded, ChatAssumption
    <2> QED
      BY <1>6, <2>1 DEF Loaded, EndLoad, RowsRight, ListedWritten, SentOnce
  <1>7. ASSUME NEW k \in 1 .. MaxLoads, LoadFails(k) PROVE ListedWritten' /\ SentOnce'
    BY <1>7 DEF LoadFails, EndLoad, ListedWritten, SentOnce
  <1>8. ASSUME NEW k \in 1 .. MaxLoads,
               ServeConversation(k) \/ \E c \in Chats : SelectConversation(k, c)
        PROVE  ListedWritten' /\ SentOnce'
    BY <1>8, ListedKept DEF ServeConversation, SelectConversation
  <1>9. CASE UNCHANGED chatVars
    BY <1>9, ListedKept DEF chatVars
  <1> QED
    BY <1>1, <1>2, <1>3, <1>4, <1>5, <1>6, <1>7, <1>8, <1>9 DEF ChatNext

\* An answer stays right while no message of it is written anew.
LEMMA RowsKept ==
    ASSUME ChatInv, NEW k \in 1 .. MaxLoads, load[k].pc = "answer",
           \A t \in Texts : chatOf[t] # NoChat => chatOf'[t] = chatOf[t],
           load'[k].rows = load[k].rows, load'[k].chat = load[k].chat
    PROVE  RowsRight(load[k])'
  <1>1. RowsRight(load[k]) /\ load[k].chat # NoChat /\ load[k].rows \in Seq(Item)
    BY ChatAssumption DEF ChatInv, LoadsRight, ChatTypeOK, Load, ChatAssumption
  <1>2. \A i \in DOMAIN load[k].rows : load[k].rows[i].text \in Texts
    BY <1>1, ItemParts
  <1> QED
    BY <1>1, <1>2 DEF RowsRight

LEMMA LoadsStep == ChatInv /\ [ChatNext]_chatVars => LoadsRight'
  <1> SUFFICES ASSUME ChatInv, [ChatNext]_chatVars PROVE LoadsRight'
    OBVIOUS
  <1>0. ChatTypeOK /\ StoredOnce /\ LoadsRight /\ load \in [1 .. MaxLoads -> Load]
    BY DEF ChatInv, ChatTypeOK
  <1>1. ASSUME UNCHANGED <<opened, load>>,
               \A t \in Texts : chatOf[t] # NoChat => chatOf'[t] = chatOf[t]
        PROVE  LoadsRight'
    BY <1>0, <1>1, RowsKept DEF LoadsRight
  <1>2. CASE StoreSent \/ SentAnswered \/ SendFails \/ UNCHANGED chatVars
    BY <1>1, <1>2 DEF StoreSent, SentAnswered, SendFails, chatVars
  <1>3. ASSUME NEW t \in Texts, SendMessage(t) PROVE LoadsRight'
    <2>1. opened \in Chats /\ Written(t, opened)
      BY <1>0, <1>3 DEF SendMessage, ChatTypeOK
    <2> QED
      BY <1>1, <1>3, <2>1, WrittenIsNew DEF SendMessage
  <1>4. ASSUME NEW t \in Texts, NEW c \in Chats, Arrives(t, c) PROVE LoadsRight'
    BY <1>1, <1>4, WrittenIsNew DEF Arrives
  <1>5. ASSUME NEW k \in 1 .. MaxLoads, ServeConversation(k) PROVE LoadsRight'
    <2>1. load[k].chat \in Chats
      BY <1>0, <1>5 DEF LoadsRight, ServeConversation
    <2>2. /\ load'[k].pc = "answer" /\ load'[k].rows = RowsOf(load[k].chat)
          /\ load'[k].chat = load[k].chat /\ load'[k].alone = load[k].alone
          /\ \A i \in 1 .. MaxLoads : i # k => load'[i] = load[i]
          /\ chatOf' = chatOf /\ opened' = opened
      BY <1>0, <1>5 DEF ServeConversation, Load
    <2>3. RowsRight(load[k])'
      BY <1>0, <2>1, <2>2, RowsOfRight DEF RowsRight
    <2>4. \A i \in 1 .. MaxLoads : i # k /\ load[i].pc = "answer" => RowsRight(load[i])'
      BY <2>2, RowsKept
    <2> QED
      BY <1>0, <1>5, <2>1, <2>2, <2>3, <2>4 DEF LoadsRight, ServeConversation
  <1>6. ASSUME NEW k \in 1 .. MaxLoads, NEW rows, EndLoad(k, rows) PROVE LoadsRight'
    <2>1. /\ load'[k] = NoLoad /\ \A i \in 1 .. MaxLoads : i # k => load'[i] = load[i]
          /\ chatOf' = chatOf /\ opened' = opened
      BY <1>0, <1>6 DEF EndLoad
    <2>2. \A i \in 1 .. MaxLoads : i # k /\ load[i].pc = "answer" => RowsRight(load[i])'
      BY <2>1, RowsKept
    <2> QED
      BY <1>0, <2>1, <2>2 DEF LoadsRight, NoLoad
  <1>7. ASSUME NEW k \in 1 .. MaxLoads, NEW c \in Chats, SelectConversation(k, c)
        PROVE  LoadsRight'
    <2>1. /\ load[k].pc = "none" /\ opened' = c /\ chatOf' = chatOf
          /\ load'[k].pc = "asked" /\ load'[k].chat = c
          /\ \A i \in 1 .. MaxLoads : i # k =>
                /\ load'[i].pc = load[i].pc /\ load'[i].chat = load[i].chat
                /\ load'[i].rows = load[i].rows /\ ~load'[i].alone
      BY <1>0, <1>7 DEF SelectConversation, NoLoad, Load
    <2>2. \A i \in 1 .. MaxLoads : i # k /\ load[i].pc = "answer" => RowsRight(load[i])'
      BY <2>1, RowsKept
    <2> QED
      BY <1>0, <2>1, <2>2 DEF LoadsRight
  <1> QED
    BY <1>2, <1>3, <1>4, <1>5, <1>6, <1>7 DEF ChatNext, Loaded, LoadFails

LEMMA OwnMessagesStep == ChatInv /\ [ChatNext]_chatVars => OwnMessages'
  <1> SUFFICES ASSUME ChatInv, [ChatNext]_chatVars PROVE OwnMessages'
    OBVIOUS
  <1>0. /\ ChatTypeOK /\ SentOnce /\ ListedWritten /\ LoadsRight /\ OwnMessages
        /\ listed \in Seq(Item)
    BY DEF ChatInv, ChatTypeOK
  <1>1. ASSUME UNCHANGED <<opened, spinning, crossed>>,
               \A t \in Texts : chatOf[t] # NoChat => chatOf'[t] = chatOf[t],
               \A i \in DOMAIN listed' : \E k \in DOMAIN listed : listed'[i].text = listed[k].text
        PROVE  OwnMessages'
    BY <1>0, <1>1, ItemParts DEF OwnMessages, ListedWritten
  <1>2. CASE StoreSent \/ UNCHANGED chatVars
    BY <1>1, <1>2 DEF StoreSent, chatVars
  <1>3. CASE SentAnswered
    <2>1. /\ DOMAIN listed' = DOMAIN listed
          /\ \A i \in DOMAIN listed : listed'[i].text = listed[i].text
      BY <1>0, <1>3 DEF SentAnswered, Item
    <2> QED
      BY <1>1, <1>3, <2>1 DEF SentAnswered
  <1>4. CASE SendFails
    BY <1>0, <1>1, <1>4, OthersRight DEF SendFails
  <1>5. ASSUME NEW t \in Texts, SendMessage(t) PROVE OwnMessages'
    <2>1. opened \in Chats /\ Written(t, opened)
      BY <1>0, <1>5 DEF SendMessage, ChatTypeOK
    <2>2. /\ Len(listed) \in Nat /\ DOMAIN listed = 1 .. Len(listed)
          /\ DOMAIN listed' = 1 .. Len(listed) + 1
          /\ \A i \in DOMAIN listed : listed'[i] = listed[i]
          /\ listed'[Len(listed) + 1].text = t
          /\ UNCHANGED <<opened, spinning, crossed>>
      BY <1>0, <1>5 DEF SendMessage
    <2>3. \A i \in DOMAIN listed : listed[i].text \in Texts \ {t}
      BY <1>0, <2>1, ItemParts, WrittenIsNew
    <2>4. /\ chatOf'[t] = opened
          /\ \A i \in DOMAIN listed : chatOf'[listed[i].text] = chatOf[listed[i].text]
      BY <2>1, <2>3, WrittenIsNew
    <2> QED
      BY <1>0, <2>2, <2>4 DEF OwnMessages
  <1>6. ASSUME NEW t \in Texts, NEW c \in Chats, Arrives(t, c) PROVE OwnMessages'
    BY <1>1, <1>6, WrittenIsNew DEF Arrives
  <1>7. ASSUME NEW k \in 1 .. MaxLoads, ServeConversation(k) PROVE OwnMessages'
    BY <1>1, <1>7 DEF ServeConversation
  <1>8. ASSUME NEW k \in 1 .. MaxLoads, Loaded(k) PROVE OwnMessages'
    BY <1>0, <1>8 DEF Loaded, EndLoad, OwnMessages, LoadsRight, RowsRight
  <1>9. ASSUME NEW k \in 1 .. MaxLoads, LoadFails(k) PROVE OwnMessages'
    BY <1>9 DEF LoadFails, EndLoad, OwnMessages
  <1>10. ASSUME NEW k \in 1 .. MaxLoads, NEW c \in Chats, SelectConversation(k, c)
         PROVE  OwnMessages'
    BY <1>10 DEF SelectConversation, OwnMessages
  <1> QED
    BY <1>2, <1>3, <1>4, <1>5, <1>6, <1>7, <1>8, <1>9, <1>10 DEF ChatNext

LEMMA ChatStep == ChatInv /\ [ChatNext]_chatVars => ChatInv'
  BY ChatTypeStep, StoredOnceStep, ListedStep, LoadsStep, OwnMessagesStep DEF ChatInv

LEMMA ChatAlways == ChatSpec => []ChatInv
  BY ChatInitInv, ChatStep, PTL DEF ChatSpec

\* Every state of the messages page is of the type ChatTypeOK gives.
THEOREM ChatTypeCorrect == ChatSpec => []ChatTypeOK
  <1>1. ChatInv => ChatTypeOK
    BY DEF ChatInv
  <1> QED
    BY <1>1, ChatAlways, PTL

\* The page lists no message twice and a temporary one only while it is being sent,
\* for any number of loads, answers and failures in any order.
THEOREM ChatSentOnce == ChatSpec => []SentOnce
  <1>1. ChatInv => SentOnce
    BY DEF ChatInv
  <1> QED
    BY <1>1, ChatAlways, PTL

\* What is listed is of the conversation that is open, whenever no load that
\* overlapped another has been shown last and none is awaited.
THEOREM ChatOwnMessages == ChatSpec => []OwnMessages
  <1>1. ChatInv => OwnMessages
    BY DEF ChatInv
  <1> QED
    BY <1>1, ChatAlways, PTL
=============================================================================
