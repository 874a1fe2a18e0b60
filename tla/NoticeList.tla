----------------------------- MODULE NoticeList -----------------------------
(***************************************************************************)
(* The notifications of one user: their rows, the handlers that store,     *)
(* push, list and mark them, and the list a dashboard keeps of them.       *)
(*                                                                         *)
(* The list changes in five ways: a push is put in front, a fetch replaces *)
(* it, a failed fetch (of notifications or, on the user's dashboard, of    *)
(* jobs) empties it, marking one writes back the list as it was at the     *)
(* click, and marking all fetches it.  The requests of one page are in     *)
(* flight together.  Whether a push arrives is up to the socket (Sockets); *)
(* when that fails the page polls.                                         *)
(***************************************************************************)
EXTENDS Naturals, Sequences

CONSTANTS
    Limit,          \* notifications a fetch asks for, 50
    MaxNotices,     \* bound: notifications created
    MaxErrands,     \* bound: requests of the page in flight at the same time
    MaxErrors       \* bound: failed requests

ASSUME NoticeListAssumption ==
    /\ Limit \in Nat \ {0}
    /\ MaxNotices \in Nat \ {0}
    /\ MaxErrands \in Nat \ {0}
    /\ MaxErrors \in Nat

Notices == 1 .. MaxNotices      \* in the order of their creation
Errands == 1 .. MaxErrands
NoNotice == 0
Nobody == 0

VARIABLES
    row,        \* row[n]: 0 not stored, 1 unread, 2 read
    unsent,     \* stored, and not yet pushed by the listener
    transit,    \* pushes on their way to the page
    list,       \* list[n]: the page's list, with the numbers of row
    polling,    \* usePolling
    errand,     \* errand[e]: a request of the page
    (* history, never read by the code *)
    best,       \* best[n]: the most the list has shown of n
    disturbed,  \* the list was replaced by something out of date or emptied, and
                \* no fetch that nothing overtook has answered since
    errors      \* failed requests, at most MaxErrors

pageVars == <<list, polling, errand>>
listHistory == <<best, disturbed, errors>>
noticeVars == <<row, unsent, transit, pageVars, listHistory>>

Marks == [Notices -> 0 .. 2]
Empty == [n \in Notices |-> 0]

\* seen is what the request will write to the list: the list at the click, or the
\* rows as the server found them.  overtaken is history: the list changed since the
\* request was sent.
Errand == [pc : {"idle", "sent", "answer", "get", "served"}, op : {"fetch", "one", "all"},
           notice : Notices \union {NoNotice}, seen : Marks, overtaken : BOOLEAN]
NoErrand == [pc |-> "idle", op |-> "fetch", notice |-> NoNotice, seen |-> Empty,
             overtaken |-> FALSE]

NoticesInit ==
    /\ row = Empty
    /\ unsent = {}
    /\ transit = <<>>
    /\ list = Empty
    /\ polling = FALSE
    /\ errand = [e \in Errands |-> NoErrand]
    /\ best = Empty
    /\ disturbed = FALSE
    /\ errors = 0

-----------------------------------------------------------------------------
(* The page                                                                *)

\* Which slot a request takes makes no difference: the first that is free.
Send(e, q) ==
    /\ errand[e].pc = "idle"
    /\ \A f \in Errands : f < e => errand[f].pc # "idle"
    /\ errand' = [errand EXCEPT ![e] = q]

\* The list becomes new: requests in flight were sent before, e is over with after.
Show(e, new, after) ==
    /\ list' = new
    /\ best' = [n \in Notices |-> IF new[n] > best[n] THEN new[n] ELSE best[n]]
    /\ errand' = [f \in Errands |->
                     IF f = e THEN after
                     ELSE IF new = list \/ errand[f].pc = "idle" THEN errand[f]
                     ELSE [errand[f] EXCEPT !.overtaken = TRUE]]

\* (mutant) a list that has something is not fetched again
FetchIfEmpty(e) ==
    /\ list = Empty
    /\ Send(e, [NoErrand EXCEPT !.pc = "get"])
    /\ UNCHANGED <<row, unsent, transit, list, polling, listHistory>>

\* fetchNotifications: on opening, on becoming visible, and while polling.
FetchNotifications(e) ==
    /\ Send(e, [NoErrand EXCEPT !.pc = "get"])
    /\ UNCHANGED <<row, unsent, transit, list, polling, listHistory>>

Poll == polling /\ \E e \in Errands : FetchNotifications(e)

\* The state of the socket changes: the effect runs again, and fetches.
TogglePolling(e) ==
    /\ Send(e, [NoErrand EXCEPT !.pc = "get"])
    /\ polling' = ~polling
    /\ UNCHANGED <<row, unsent, transit, list, listHistory>>

\* A click on an unread notification.
MarkOne(e, n) ==
    /\ list[n] = 1
    /\ Send(e, [NoErrand EXCEPT !.pc = "sent", !.op = "one", !.notice = n, !.seen = list])
    /\ UNCHANGED <<row, unsent, transit, list, polling, listHistory>>

\* "Mark all read" is there while the list has an unread one.
MarkAll(e) ==
    /\ \E n \in Notices : list[n] = 1
    /\ Send(e, [NoErrand EXCEPT !.pc = "sent", !.op = "all"])
    /\ UNCHANGED <<row, unsent, transit, list, polling, listHistory>>

\* (mutant) a pushed notification replaces the list
DeliverOver ==
    /\ transit # <<>>
    /\ transit' = Tail(transit)
    /\ \E n \in Notices : n = Head(transit) /\ Show(Nobody, [Empty EXCEPT ![n] = 1], NoErrand)
    /\ UNCHANGED <<row, unsent, polling, disturbed, errors>>

\* onNotification: one that is listed already is ignored.
Deliver ==
    /\ transit # <<>>
    /\ transit' = Tail(transit)
    /\ LET n == Head(transit) IN
         Show(Nobody, IF list[n] = 0 THEN [list EXCEPT ![n] = 1] ELSE list, NoErrand)
    /\ UNCHANGED <<row, unsent, polling, disturbed, errors>>

\* The answer to a fetch replaces the list.
Fetched(e) ==
    /\ errand[e].pc = "served"
    /\ Show(e, errand[e].seen, NoErrand)
    /\ disturbed' = errand[e].overtaken
    /\ UNCHANGED <<row, unsent, transit, polling, errors>>

\* The answer to a click: the list of that time, with n read.
Marked(e) ==
    /\ errand[e].pc = "answer"
    /\ errand[e].op = "one"
    /\ Show(e, [errand[e].seen EXCEPT ![errand[e].notice] = 2], NoErrand)
    /\ disturbed' = (disturbed \/ errand[e].overtaken)
    /\ UNCHANGED <<row, unsent, transit, polling, errors>>

\* After all are marked the list is fetched.
MarkedAll(e) ==
    /\ errand[e].pc = "answer"
    /\ errand[e].op = "all"
    /\ errand' = [errand EXCEPT ![e].pc = "get", ![e].overtaken = FALSE]
    /\ UNCHANGED <<row, unsent, transit, list, polling, listHistory>>

\* Any request may fail.  A fetch that fails or is not answered in five seconds
\* empties the list; the fetch after marking all may also leave it.
Fail(e, empties) ==
    LET fetching == errand[e].pc \in {"get", "served"} IN
    /\ errand[e].pc # "idle"
    /\ errors < MaxErrors
    /\ errors' = errors + 1
    /\ IF errand[e].op = "fetch" THEN empties ELSE empties => fetching
    /\ Show(e, IF empties THEN Empty ELSE list, NoErrand)
    /\ disturbed' = (disturbed \/ empties)
    /\ UNCHANGED <<row, unsent, transit, polling>>

\* fetchJobs of the user's dashboard empties the list when it fails.
JobsFail ==
    /\ errors < MaxErrors
    /\ errors' = errors + 1
    /\ Show(Nobody, Empty, NoErrand)
    /\ disturbed' = TRUE
    /\ UNCHANGED <<row, unsent, transit, polling>>

-----------------------------------------------------------------------------
(* The server                                                              *)

\* NotificationsService.create, called by the listener or another service.
StoreNotice(n) ==
    /\ row[n] = 0
    /\ n > 1 => row[n - 1] # 0
    /\ row' = [row EXCEPT ![n] = 1]
    /\ unsent' = unsent \union {n}
    /\ UNCHANGED <<transit, pageVars, listHistory>>

\* sendNotificationToUser reaches the page when a socket of the user is in the room.
Push(n, arrives) ==
    /\ n \in unsent
    /\ unsent' = unsent \ {n}
    /\ transit' = IF arrives THEN Append(transit, n) ELSE transit
    /\ UNCHANGED <<row, pageVars, listHistory>>

\* n is stored, and not one of the newest that a fetch asks for.
Beyond(n) == n + Limit \in Notices /\ row[n + Limit] # 0

\* findByUserId, the newest first and no more than Limit.
Serve(e) ==
    /\ errand[e].pc = "get"
    /\ errand' = [errand EXCEPT ![e].pc = "served",
                                ![e].seen = [n \in Notices |-> IF Beyond(n) THEN 0 ELSE row[n]]]
    /\ UNCHANGED <<row, unsent, transit, list, polling, listHistory>>

\* (mutant) a mark is added to what the row has
SaveReadAgain(e) ==
    /\ errand[e].pc = "sent"
    /\ row' = [n \in Notices |->
                  IF row[n] # 0 /\ (errand[e].op = "all" \/ errand[e].notice = n)
                  THEN row[n] + 1 ELSE row[n]]
    /\ errand' = [errand EXCEPT ![e].pc = "answer"]
    /\ UNCHANGED <<unsent, transit, list, polling, listHistory>>

\* markAsRead and markAllAsRead, with the count they push (UnreadCount).
SaveRead(e) ==
    /\ errand[e].pc = "sent"
    /\ row' = [n \in Notices |->
                  IF row[n] = 1 /\ (errand[e].op = "all" \/ errand[e].notice = n)
                  THEN 2 ELSE row[n]]
    /\ errand' = [errand EXCEPT ![e].pc = "answer"]
    /\ UNCHANGED <<unsent, transit, list, polling, listHistory>>

NoticesNext ==
    \/ Deliver \/ JobsFail
    \/ \E n \in Notices : StoreNotice(n) \/ \E arrives \in BOOLEAN : Push(n, arrives)
    \/ \E e \in Errands :
          \/ FetchNotifications(e) \/ TogglePolling(e) \/ MarkAll(e)
          \/ \E n \in Notices : MarkOne(e, n)
          \/ Fetched(e) \/ Marked(e) \/ MarkedAll(e) \/ Serve(e)
          \/ SaveRead(e)
          \/ \E empties \in BOOLEAN : Fail(e, empties)

\* The interval fires every ten seconds, and what is sent is served and answered,
\* unless it fails.
NoticesFairness ==
    /\ WF_noticeVars(Poll)
    /\ \A e \in Errands :
          /\ WF_noticeVars(Serve(e) \/ SaveRead(e))
          /\ WF_noticeVars(Fetched(e) \/ Marked(e) \/ MarkedAll(e))

NoticesSpec == NoticesInit /\ [][NoticesNext]_noticeVars /\ NoticesFairness

-----------------------------------------------------------------------------
(* Properties                                                              *)

NoticesTypeOK ==
    /\ row \in Marks /\ list \in Marks /\ best \in Marks
    /\ unsent \in SUBSET Notices
    /\ transit \in Seq(Notices)
    /\ polling \in BOOLEAN /\ disturbed \in BOOLEAN
    /\ errand \in [Errands -> Errand]
    /\ errors \in Nat

\* A notification of the newest Limit that the list has shown stays in it, and one it
\* has shown as read stays read, unless since the last fetch that nothing overtook
\* the list was emptied by a failure or replaced by one older than what it then
\* showed.  Any fetch drops the older ones, and a late push may show one of them again.
ShownStays == ~disturbed => \A n \in Notices : list[n] = best[n] \/ Beyond(n)

\* A page that polls shows all that is stored again and again, as far as a fetch
\* reaches: nothing is left out for good, whatever was pushed, lost, clicked or failed.
PollingShows ==
    []<>(~polling \/ \A n \in Notices : row[n] = 0 \/ list[n] # 0 \/ Beyond(n))
=============================================================================
