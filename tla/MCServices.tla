----------------------------- MODULE MCServices -----------------------------
(* Eight parts that share no state, on small instances: providers, the        *)
(* verification of e-mail addresses, maintenance tickets, the unread count,   *)
(* and in the browser the availability calendar, the messages page, searches  *)
(* and the session.  Each behaviour is of one of them, which keeps their      *)
(* state spaces apart.                                                        *)
EXTENDS Providers, EmailTokens, Tickets, UnreadCount, Calendar, ChatPage, Searches, Session,
        TLC

VARIABLE part   \* the module at work

MCVars == <<vars, emailVars, ticketsVars, unreadVars, calendarVars, chatVars, searchVars,
            sessionVars, part>>

\* In each part {x1, x2}, {y1, y2} and the slots are sets of interchangeable values.
Symmetry == Permutations(Profiles) \union Permutations(Requests) \union Permutations(Slots)

\* Other guests book the nights around the end of the first month.
MCOtherRanges == {<<DaysPerMonth, DaysPerMonth + 1>>}

MCInit ==
    /\ Init /\ EmailInit /\ TicketsInit /\ UnreadInit
    /\ CalendarInit /\ ChatInit /\ SearchesInit /\ SessionInit
    /\ part \in {"providers", "email", "tickets", "unread",
                "calendar", "chat", "searches", "session"}
    /\ part # "providers" => \A u \in Users : role[u] = "none"
    /\ part # "calendar" => ~owner
    /\ part # "searches" => guarded /\ filter = CHOOSE f \in Filters : TRUE
    /\ part # "session" => path = "public"

MCNext ==
    \/ /\ part = "providers" /\ Next
       /\ UNCHANGED <<emailVars, ticketsVars, unreadVars, calendarVars, chatVars,
                      searchVars, sessionVars, part>>
    \/ /\ part = "email" /\ EmailNext
       /\ UNCHANGED <<vars, ticketsVars, unreadVars, calendarVars, chatVars,
                      searchVars, sessionVars, part>>
    \/ /\ part = "tickets" /\ TicketsNext
       /\ UNCHANGED <<vars, emailVars, unreadVars, calendarVars, chatVars,
                      searchVars, sessionVars, part>>
    \/ /\ part = "unread" /\ UnreadNext
       /\ UNCHANGED <<vars, emailVars, ticketsVars, calendarVars, chatVars,
                      searchVars, sessionVars, part>>
    \/ /\ part = "calendar" /\ CalendarNext
       /\ UNCHANGED <<vars, emailVars, ticketsVars, unreadVars, chatVars,
                      searchVars, sessionVars, part>>
    \/ /\ part = "chat" /\ ChatNext
       /\ UNCHANGED <<vars, emailVars, ticketsVars, unreadVars, calendarVars,
                      searchVars, sessionVars, part>>
    \/ /\ part = "searches" /\ SearchesNext
       /\ UNCHANGED <<vars, emailVars, ticketsVars, unreadVars, calendarVars,
                      chatVars, sessionVars, part>>
    \/ /\ part = "session" /\ SessionNext
       /\ UNCHANGED <<vars, emailVars, ticketsVars, unreadVars, calendarVars,
                      chatVars, searchVars, part>>

MCSpec == MCInit /\ [][MCNext]_MCVars

\* The types of the eight modules.
AllTyped ==
    /\ TypeOK /\ EmailTypeOK /\ TicketsTypeOK /\ UnreadTypeOK
    /\ CalendarTypeOK /\ ChatTypeOK /\ SearchesTypeOK /\ SessionTypeOK
=============================================================================
