------------------------------ MODULE Sockets ------------------------------
(***************************************************************************)
(* The socket a dashboard keeps for its notifications: the hook            *)
(* useWebSocketNotifications in one page, the connections it opens and     *)
(* leaves behind, and NotificationsGateway, which records who is connected.*)
(*                                                                         *)
(* The pages pass the hook a new onNotification on every render, so each   *)
(* render runs the cleanup of the first effect and the effect again: it    *)
(* closes the socket and opens another.  Opening awaits the import of the  *)
(* client library; once that is loaded the call settles before the next    *)
(* event.  socket.io connects the client first; handleConnection then      *)
(* verifies the token while the connection may already be closed.          *)
(***************************************************************************)
EXTENDS Naturals

CONSTANTS
    MaxLinks,       \* bound: connections there is a record of at one time
    MaxMounts,      \* bound: times the page is opened
    MaxRenders,     \* bound: renders for reasons other than the socket
    MaxFails,       \* bound: failures of the network
    MaxWaiting,     \* bound: connects awaiting the import while polls render the page
    Attempts        \* reconnectionAttempts, 5

ASSUME SocketsAssumption ==
    /\ MaxLinks \in Nat \ {0}
    /\ MaxWaiting \in Nat \ {0}
    /\ Attempts \in Nat \ {0}

Links == 1 .. MaxLinks
NoLink == 0
ClosedLink == MaxLinks + 1

VARIABLES
    page,       \* [mounted, timer, pending, ref, isConnected, error, due]: the hook
    loaded,     \* socket.io-client is loaded
    valid,      \* the token verifies
    client,     \* client[l]: the browser's end of connection l
    server,     \* server[l]: the gateway's end
    tries,      \* tries[l]: failed attempts in a row
    online,     \* connectedClients of the user: a connection, ClosedLink for one
                \* that had closed when it was entered, or NoLink
    (* history, never read by the code *)
    mounts, renders, fails, \* so far; at most MaxMounts, MaxRenders, MaxFails
    overlap,    \* two connects were under way at once, or the page left during one
    crowded,    \* two connections were admitted at once, and one still is
    phantom     \* the last one entered into connectedClients had closed before

socketsHistory == <<mounts, renders, fails, overlap, crowded, phantom>>
gatewayVars == <<server, online>>
socketsVars == <<page, loaded, valid, client, tries, gatewayVars, socketsHistory>>

\* pending counts the connects that await the import; timer is the second effect's;
\* error is connectionError, and with it the polling of the page; due: a state
\* of the page was set and it has yet to render.
NoPage == [mounted |-> FALSE, timer |-> FALSE, pending |-> 0, ref |-> NoLink,
           isConnected |-> FALSE, error |-> FALSE, due |-> FALSE]

Open == {l \in Links : client[l] \in {"opening", "up"}}
Admitted == {l \in Links : server[l] = "admitted"}

\* The number of a connection is given again when neither end knows it any more.
Free == {l \in Links : client[l] = "gone" /\ server[l] = "none"}

\* Events wait until the connects that only await a loaded module have settled.
Settled == loaded => page.pending = 0

SocketsInit ==
    /\ page = NoPage
    /\ loaded = FALSE
    /\ valid = TRUE
    /\ client = [l \in Links |-> "gone"]
    /\ server = [l \in Links |-> "none"]
    /\ tries = [l \in Links |-> 0]
    /\ online = NoLink
    /\ mounts = 0 /\ renders = 0 /\ fails = 0
    /\ overlap = FALSE /\ crowded = FALSE /\ phantom = FALSE

-----------------------------------------------------------------------------
(* The hook                                                                *)

\* setIsConnected and setConnectionError: the page renders when a state changes.
Set(p, isConnected, error) ==
    IF ~p.mounted THEN p
    ELSE [p EXCEPT !.isConnected = isConnected, !.error = error,
                   !.due = @ \/ p.isConnected # isConnected \/ p.error # error]

\* disconnect
Disconnected(p) ==
    IF p.ref = NoLink THEN p ELSE [Set(p, FALSE, p.error) EXCEPT !.ref = NoLink]

Close(l) == /\ client' = [k \in Links |-> IF k = l THEN "gone" ELSE client[k]]
            /\ tries' = [k \in Links |-> IF k = l THEN 0 ELSE tries[k]]

\* connect, up to the import.
Connecting(p) ==
    IF p.ref # NoLink /\ client[p.ref] = "up" THEN p ELSE [p EXCEPT !.pending = @ + 1]

Mount ==
    /\ Settled
    /\ ~page.mounted
    /\ mounts < MaxMounts
    /\ mounts' = mounts + 1
    /\ page' = [NoPage EXCEPT !.mounted = TRUE, !.timer = TRUE, !.pending = page.pending + 1]
    /\ overlap' = (overlap \/ page.pending > 0)
    /\ UNCHANGED <<loaded, valid, client, tries, gatewayVars, renders, fails, crowded, phantom>>

\* The page is left or the user logs out: both effects are cleaned up.
Unmount ==
    /\ Settled
    /\ page.mounted
    /\ Close(page.ref)
    /\ page' = [NoPage EXCEPT !.pending = page.pending]
    /\ overlap' = (overlap \/ page.pending > 0)
    /\ UNCHANGED <<loaded, valid, gatewayVars, mounts, renders, fails, crowded, phantom>>

\* (mutant) the effect is not cleaned up
RerenderUnclean ==
    /\ Settled
    /\ page.due
    /\ page' = [Connecting(page) EXCEPT !.due = FALSE]
    /\ overlap' = (overlap \/ page.pending > 0)
    /\ UNCHANGED <<loaded, valid, client, tries, gatewayVars,
                   mounts, renders, fails, crowded, phantom>>

\* (mutant) the effect does not run again
RerenderIdle ==
    /\ Settled
    /\ page.due
    /\ Close(page.ref)
    /\ page' = Disconnected([page EXCEPT !.due = FALSE])
    /\ overlap' = (overlap \/ page.pending > 0)
    /\ UNCHANGED <<loaded, valid, gatewayVars, mounts, renders, fails, crowded, phantom>>

\* A render: cleanup, then the first effect again.
Rerender ==
    /\ Settled
    /\ page.due
    /\ Close(page.ref)
    /\ page' = Connecting(Disconnected([page EXCEPT !.due = FALSE]))
    /\ overlap' = (overlap \/ page.pending > 0)
    /\ UNCHANGED <<loaded, valid, gatewayVars, mounts, renders, fails, crowded, phantom>>

\* The page's own state changes: a fetch is answered, a menu opened.
OtherRender ==
    /\ page.mounted
    /\ renders < MaxRenders
    /\ renders' = renders + 1
    /\ page' = [page EXCEPT !.due = TRUE]
    /\ UNCHANGED <<loaded, valid, client, tries, gatewayVars,
                   mounts, fails, overlap, crowded, phantom>>

\* After an error the page polls, at once and every ten seconds, and each answer is a
\* new array and renders it: also while a socket is connecting or about to try again.
PollRender ==
    /\ page.mounted /\ page.error /\ ~page.due
    /\ ~loaded => page.pending < MaxWaiting
    /\ page' = [page EXCEPT !.due = TRUE]
    /\ UNCHANGED <<loaded, valid, client, tries, gatewayVars, socketsHistory>>

\* The second effect: 100 ms after the page was opened.
Timer ==
    /\ Settled
    /\ page.timer
    /\ page' = Connecting([page EXCEPT !.timer = FALSE])
    /\ overlap' = (overlap \/ page.pending > 0
                           \/ (page.ref # NoLink /\ client[page.ref] # "up"))
    /\ UNCHANGED <<loaded, valid, client, tries, gatewayVars,
                   mounts, renders, fails, crowded, phantom>>

\* The import settles: a socket is made and remembered, whatever happened meanwhile.
FinishConnect(l) ==
    /\ page.pending > 0
    /\ l \in Free
    /\ loaded' = TRUE
    /\ page' = [page EXCEPT !.pending = @ - 1, !.ref = l]
    /\ client' = [client EXCEPT ![l] = "opening"]
    /\ UNCHANGED <<valid, tries, gatewayVars, socketsHistory>>

\* The import fails, for every connect that awaits it: the next one asks for it again.
ImportFails ==
    /\ ~loaded
    /\ page.pending > 0
    /\ fails < MaxFails
    /\ fails' = fails + 1
    /\ page' = Set([page EXCEPT !.pending = 0], page.isConnected, TRUE)
    /\ UNCHANGED <<loaded, valid, client, tries, gatewayVars,
                   mounts, renders, overlap, crowded, phantom>>

-----------------------------------------------------------------------------
(* The connections                                                         *)

\* socket.io connects socket l anew, as connection n.
Reconnect(l, n) ==
    /\ n \in Free
    /\ client' = [client EXCEPT ![l] = "gone", ![n] = "opening"]
    /\ page' = [Set(page, FALSE, page.error) EXCEPT !.ref = IF @ = l THEN n ELSE @]

\* The connection reaches the gateway.
Reach(l) ==
    /\ client[l] = "opening"
    /\ server[l] = "none"
    /\ server' = [server EXCEPT ![l] = "verifying"]
    /\ UNCHANGED <<page, loaded, valid, client, tries, online, socketsHistory>>

\* The event "connect".
Connected(l) ==
    /\ Settled
    /\ client[l] = "opening"
    /\ server[l] # "none"
    /\ client' = [client EXCEPT ![l] = "up"]
    /\ tries' = [tries EXCEPT ![l] = 0]
    /\ page' = Set(page, TRUE, FALSE)
    /\ UNCHANGED <<loaded, valid, gatewayVars, socketsHistory>>

\* The event "disconnect" with the reason "io server disconnect".
Kicked(l, n) ==
    /\ Settled
    /\ client[l] = "up"
    /\ server[l] = "refused"
    /\ Reconnect(l, n)
    /\ UNCHANGED <<loaded, valid, tries, gatewayVars, socketsHistory>>

\* The network drops the connection; the gateway has yet to find out.
Drop(l, n) ==
    /\ Settled
    /\ client[l] = "up"
    /\ fails < MaxFails
    /\ fails' = fails + 1
    /\ Reconnect(l, n)
    /\ UNCHANGED <<loaded, valid, tries, gatewayVars, mounts, renders, overlap, crowded, phantom>>

\* The event "connect_error"; after Attempts of them the socket gives up.
ConnectError(l) ==
    /\ Settled
    /\ client[l] = "opening"
    /\ server[l] = "none"
    /\ fails < MaxFails
    /\ fails' = fails + 1
    /\ IF tries[l] + 1 < Attempts
       THEN tries' = [tries EXCEPT ![l] = @ + 1] /\ client' = client
       ELSE Close(l)
    /\ page' = Set(page, FALSE, TRUE)
    /\ UNCHANGED <<loaded, valid, gatewayVars, mounts, renders, overlap, crowded, phantom>>

TokenExpires ==
    /\ valid
    /\ valid' = FALSE
    /\ UNCHANGED <<page, loaded, client, tries, gatewayVars, socketsHistory>>

-----------------------------------------------------------------------------
(* The gateway                                                             *)

\* handleConnection, after the token was verified; the connection may have closed.
Verified(l) ==
    LET closed == server[l] = "late" IN
    /\ server[l] \in {"verifying", "late"}
    /\ IF valid
       THEN /\ server' = [server EXCEPT ![l] = IF closed THEN "none" ELSE "admitted"]
            /\ online' = IF closed THEN ClosedLink ELSE l
            /\ phantom' = closed
            /\ crowded' = (crowded \/ (~closed /\ Admitted # {}))
       ELSE /\ server' = [server EXCEPT ![l] = IF closed THEN "none" ELSE "refused"]
            /\ UNCHANGED <<online, phantom, crowded>>
    /\ UNCHANGED <<page, loaded, valid, client, tries, mounts, renders, fails, overlap>>

\* (mutant) the user is never taken out
HandleDisconnectNever(l) ==
    /\ client[l] = "gone"
    /\ server[l] = "admitted"
    /\ server' = [server EXCEPT ![l] = "none"]
    /\ phantom' = FALSE
    /\ crowded' = (crowded /\ Admitted # {l})
    /\ UNCHANGED <<page, loaded, valid, client, tries, online, mounts, renders, fails, overlap>>

\* handleDisconnect takes out the user, whichever connection it was.  While the
\* token is being verified the connection has no user yet.
HandleDisconnect(l) ==
    /\ client[l] = "gone"
    /\ server[l] \in {"verifying", "admitted", "refused"}
    /\ server' = [server EXCEPT ![l] = IF @ = "verifying" THEN "late" ELSE "none"]
    /\ IF server[l] = "admitted"
       THEN /\ online' = NoLink
            /\ phantom' = FALSE
            /\ crowded' = (crowded /\ Admitted # {l})
       ELSE UNCHANGED <<online, phantom, crowded>>
    /\ UNCHANGED <<page, loaded, valid, client, tries, mounts, renders, fails, overlap>>

\* The smallest free number; which one is taken makes no difference.
Next1(l) == l \in Free /\ \A n \in Free : l <= n

SocketsNext ==
    \/ Mount \/ Unmount \/ Rerender \/ OtherRender \/ PollRender \/ Timer
    \/ ImportFails \/ TokenExpires
    \/ \E l \in Links : \/ Next1(l) /\ FinishConnect(l)
                        \/ Reach(l) \/ Connected(l) \/ ConnectError(l)
                        \/ Verified(l) \/ HandleDisconnect(l)
    \/ \E l, n \in Links : Next1(n) /\ (Kicked(l, n) \/ Drop(l, n))

\* The library loads, timers fire, and React renders.  A render may close each socket
\* before it has connected; that of the connections tried again and again one gets
\* through is what the network is assumed to do (an attempt takes less than the ten
\* seconds between two polls).  Nothing says that a user opens or leaves a page or
\* the network fails.
SocketsFairness ==
    /\ SF_socketsVars(\E l \in Links : Reach(l))
    /\ SF_socketsVars(\E l \in Links : Connected(l))
    /\ WF_socketsVars(Rerender)
    /\ WF_socketsVars(PollRender)
    /\ WF_socketsVars(\E l \in Links : Next1(l) /\ FinishConnect(l))
    /\ \A l \in Links : /\ WF_socketsVars(Verified(l))
                        /\ WF_socketsVars(HandleDisconnect(l))

SocketsSpec == SocketsInit /\ [][SocketsNext]_socketsVars /\ SocketsFairness

-----------------------------------------------------------------------------
(* Properties                                                              *)

SocketsTypeOK ==
    /\ page \in [mounted : BOOLEAN, timer : BOOLEAN, pending : Nat, ref : Links \union {NoLink},
                 isConnected : BOOLEAN, error : BOOLEAN, due : BOOLEAN]
    /\ loaded \in BOOLEAN /\ valid \in BOOLEAN
    /\ client \in [Links -> {"opening", "up", "gone"}]
    /\ server \in [Links -> {"none", "verifying", "admitted", "refused", "late"}]
    /\ tries \in [Links -> Nat]
    /\ online \in Links \union {NoLink, ClosedLink}
    /\ mounts \in Nat /\ renders \in Nat /\ fails \in Nat
    /\ overlap \in BOOLEAN /\ crowded \in BOOLEAN /\ phantom \in BOOLEAN

\* connectedClients holds the user exactly while the gateway has an admitted
\* connection of his, and then that one; unless two were admitted at once, or one
\* had closed before its token was verified.
PresenceRight ==
    (~crowded /\ ~phantom) =>
        IF Admitted = {} THEN online = NoLink ELSE Admitted = {online}

\* The page has no connection but the one it holds, and none once it is left,
\* unless two connects ran at once or the page was left during one.
NoStraySockets ==
    ~overlap => /\ Open \subseteq {page.ref}
                /\ ~page.mounted => Open = {} /\ page.pending = 0

\* A page that stays open is connected again and again: a closed, refused or lost
\* socket, one that has given up, one that a render closed while it connected and an
\* import that failed are always followed by a socket that connects.
SocketComesBack == []<>(~page.mounted \/ \E l \in Links : client[l] = "up")
=============================================================================
