---------------------------- MODULE UnreadCount ----------------------------
(***************************************************************************)
(* The number of unread notifications that the server pushes to a user:    *)
(* marking one as read saves the row, counts the unread ones and pushes    *)
(* the count, with an await between each two; marking all updates them and *)
(* pushes 0.  Storing a notification pushes no count.                      *)
(***************************************************************************)
EXTENDS Naturals, FiniteSets

CONSTANTS
    Rows,           \* notifications of the user
    Markings        \* requests to mark, handled at the same time

ASSUME UnreadAssumption == IsFiniteSet(Rows)

VARIABLES
    mark,       \* mark[r]: "none" when not stored, "unread", "read"
    marking,    \* marking[m]: where request m is, and the count it will push
    told,       \* the unread count pushed last
    (* history, never read by the code *)
    sound       \* nothing was written while told was counted, nor stored since,
                \* and no marking has died before its push since

unreadVars == <<mark, marking, told, sound>>

\* alone is history: no row was written since this request wrote, none was being
\* counted then.
Marking == [pc : {"idle", "count", "push"}, count : Nat, alone : BOOLEAN]
NoMarking == [pc |-> "idle", count |-> 0, alone |-> FALSE]

UnreadInit ==
    /\ mark = [r \in Rows |-> "none"]
    /\ marking = [m \in Markings |-> NoMarking]
    /\ told = 0
    /\ sound = TRUE

UnreadRows == {r \in Rows : mark[r] = "unread"}
Underway == {m \in Markings : marking[m].pc # "idle"}

\* The rows are written: the counts under way may be wrong.
RowsWritten(m, q) ==
    marking' = [k \in Markings |-> IF k = m THEN q ELSE [marking[k] EXCEPT !.alone = FALSE]]

\* NotificationsService.create.
StoreRow(r) ==
    /\ mark[r] = "none"
    /\ mark' = [mark EXCEPT ![r] = "unread"]
    /\ marking' = [k \in Markings |-> [marking[k] EXCEPT !.alone = FALSE]]
    /\ sound' = FALSE
    /\ told' = told

\* markAsRead: the row is read and saved; a read one may be marked again.
MarkRow(m, r) ==
    /\ marking[m].pc = "idle"
    /\ mark[r] # "none"
    /\ mark' = [mark EXCEPT ![r] = "read"]
    /\ RowsWritten(m, [NoMarking EXCEPT !.pc = "count", !.alone = Underway = {}])
    /\ UNCHANGED <<told, sound>>

\* (mutant) the count of before the save
CountOthers(m) ==
    /\ marking[m].pc = "count"
    /\ marking' = [marking EXCEPT ![m].pc = "push", ![m].count = Cardinality(UnreadRows) + 1]
    /\ UNCHANGED <<mark, told, sound>>

\* getUnreadCount.
CountUnread(m) ==
    /\ marking[m].pc = "count"
    /\ marking' = [marking EXCEPT ![m].pc = "push", ![m].count = Cardinality(UnreadRows)]
    /\ UNCHANGED <<mark, told, sound>>

\* markAllAsRead: one UPDATE; what is pushed is 0.
MarkAllRows(m) ==
    /\ marking[m].pc = "idle"
    /\ mark' = [r \in Rows |-> IF mark[r] = "unread" THEN "read" ELSE mark[r]]
    /\ RowsWritten(m, [NoMarking EXCEPT !.pc = "push", !.alone = Underway = {}])
    /\ UNCHANGED <<told, sound>>

\* sendUnreadCountToUser, and the answer.
PushUnread(m) ==
    /\ marking[m].pc = "push"
    /\ told' = marking[m].count
    /\ sound' = marking[m].alone
    /\ marking' = [marking EXCEPT ![m] = NoMarking]
    /\ mark' = mark

\* The count fails or the process dies: nothing is pushed.
AbortMarking(m) ==
    /\ marking[m].pc # "idle"
    /\ marking' = [marking EXCEPT ![m] = NoMarking]
    /\ sound' = FALSE
    /\ UNCHANGED <<mark, told>>

UnreadNext ==
    \/ \E r \in Rows : StoreRow(r) \/ \E m \in Markings : MarkRow(m, r)
    \/ \E m \in Markings : CountUnread(m) \/ MarkAllRows(m) \/ PushUnread(m) \/ AbortMarking(m)

UnreadSpec == UnreadInit /\ [][UnreadNext]_unreadVars

-----------------------------------------------------------------------------
(* Properties                                                              *)

UnreadTypeOK ==
    /\ mark \in [Rows -> {"none", "unread", "read"}]
    /\ marking \in [Markings -> Marking]
    /\ told \in Nat
    /\ sound \in BOOLEAN

\* Once no marking is under way, the count pushed last is the number of unread
\* notifications, unless one was stored or a marking died since, or the marking
\* that pushed it overlapped another one.
CountRight == (sound /\ Underway = {}) => told = Cardinality(UnreadRows)
=============================================================================
