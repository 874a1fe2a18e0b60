--------------------------- MODULE SocketsProofs ---------------------------
(***************************************************************************)
(* Proofs about the notifications of a dashboard: the connections of its   *)
(* socket (Sockets), the list it keeps (NoticeList) and the two side by    *)
(* side (MCBrowser), for any number of connections, notifications,         *)
(* requests in flight, renders and failures.                               *)
(***************************************************************************)
EXTENDS MCBrowser, TLAPS

(* -------------------------------- Sockets ------------------------------ *)

Page == [mounted : BOOLEAN, timer : BOOLEAN, pending : Nat, ref : Links \union {NoLink},
         isConnected : BOOLEAN, error : BOOLEAN, due : BOOLEAN]

\* The gateway admits a second connection only into a crowd.
AdmittedOnce == ~crowded => \A k, l \in Admitted : k = l

\* A page that is not there waits for nothing; and while no two connects have been
\* under way at once, a connect is the only one, and no connection is open during it.
ConnectsAlone ==
    /\ page.timer => page.mounted
    /\ page.due => page.mounted
    /\ ~overlap => page.pending \in {0, 1} /\ (page.pending = 1 => Open = {})

SocketsInv ==
    /\ SocketsTypeOK /\ AdmittedOnce /\ ConnectsAlone
    /\ PresenceRight /\ NoStraySockets

LEMMA LinksType ==
    /\ Links \subseteq Nat /\ NoLink \notin Links /\ ClosedLink \notin Links
    /\ NoLink # ClosedLink
    /\ NoPage \in Page
  <1>1. Links \subseteq Nat /\ NoLink \notin Links /\ ClosedLink \notin Links /\ NoLink # ClosedLink
    BY SocketsAssumption DEF SocketsAssumption, Links, NoLink, ClosedLink
  <1> QED
    BY <1>1 DEF NoPage, Page

LEMMA SocketsInitInv == SocketsInit => SocketsInv
  <1> SUFFICES ASSUME SocketsInit PROVE SocketsInv
    OBVIOUS
  <1> USE LinksType DEF SocketsInit
  <1>1. SocketsTypeOK
    BY DEF SocketsTypeOK, Page
  <1>2. Open = {} /\ Admitted = {}
    BY DEF Open, Admitted
  <1> QED
    BY <1>1, <1>2
    DEF SocketsInv, AdmittedOnce, ConnectsAlone, PresenceRight, NoStraySockets, NoPage

\* What the helpers of the hook leave alone, and what they set.
LEMMA SetEffect ==
    ASSUME NEW p \in Page, NEW c \in BOOLEAN, NEW e \in BOOLEAN
    PROVE  /\ Set(p, c, e) \in Page
           /\ Set(p, c, e).mounted = p.mounted /\ Set(p, c, e).timer = p.timer
           /\ Set(p, c, e).pending = p.pending /\ Set(p, c, e).ref = p.ref
           /\ Set(p, c, e).due => p.due \/ p.mounted
  BY DEF Set, Page

LEMMA DisconnectedEffect ==
    ASSUME NEW p \in Page
    PROVE  /\ Disconnected(p) \in Page
           /\ Disconnected(p).mounted = p.mounted /\ Disconnected(p).timer = p.timer
           /\ Disconnected(p).pending = p.pending /\ Disconnected(p).ref = NoLink
           /\ Disconnected(p).due => p.due \/ p.mounted
  <1>1. p.error \in BOOLEAN /\ FALSE \in BOOLEAN
    BY DEF Page
  <1> DEFINE q == Set(p, FALSE, p.error)
  <1>2. /\ q \in Page /\ q.mounted = p.mounted /\ q.timer = p.timer
        /\ q.pending = p.pending /\ (q.due => p.due \/ p.mounted)
    BY <1>1, SetEffect
  <1> HIDE DEF q
  <1>3. Disconnected(p) = IF p.ref = NoLink THEN p ELSE [q EXCEPT !.ref = NoLink]
    BY DEF Disconnected, q
  <1> QED
    BY <1>2, <1>3 DEF Page

LEMMA ConnectingEffect ==
    ASSUME NEW p \in Page
    PROVE  /\ Connecting(p) \in Page
           /\ Connecting(p).mounted = p.mounted /\ Connecting(p).timer = p.timer
           /\ Connecting(p).due = p.due /\ Connecting(p).ref = p.ref
           /\ Connecting(p).pending = IF p.ref # NoLink /\ client[p.ref] = "up"
                                      THEN p.pending ELSE p.pending + 1
  BY DEF Connecting, Page

LEMMA CloseEffect ==
    ASSUME SocketsTypeOK, NEW l, Close(l)
    PROVE  /\ client' \in [Links -> {"opening", "up", "gone"}]
           /\ tries' \in [Links -> Nat]
           /\ Open' = Open \ {l}
  BY DEF SocketsTypeOK, Close, Open

\* A page about to be closed or rendered.
LEMMA RerenderEffect ==
    ASSUME SocketsTypeOK, Rerender
    PROVE  /\ page' \in Page
           /\ page'.mounted = page.mounted /\ page'.timer = page.timer
           /\ page'.due => page.mounted
           /\ page'.pending = page.pending + 1 /\ page'.ref = NoLink
           /\ Open' = Open \ {page.ref}
  <1> DEFINE p == [page EXCEPT !.due = FALSE]
             q == Disconnected(p)
  <1>1. /\ p \in Page /\ p.mounted = page.mounted /\ p.timer = page.timer
        /\ p.pending = page.pending /\ p.ref = page.ref /\ ~p.due
    BY DEF SocketsTypeOK, Page
  <1> HIDE DEF p
  <1>2. /\ q \in Page /\ q.mounted = page.mounted /\ q.timer = page.timer
        /\ q.pending = page.pending /\ q.ref = NoLink /\ (q.due => page.mounted)
    BY <1>1, DisconnectedEffect
  <1> HIDE DEF q
  <1>3. page' = Connecting(q) /\ Close(page.ref)
    BY DEF Rerender, q, p
  <1> QED
    BY <1>2, <1>3, ConnectingEffect, CloseEffect

LEMMA ReconnectEffect ==
    ASSUME SocketsTypeOK, NEW l \in Links, NEW n \in Links, Reconnect(l, n), client[l] = "up"
    PROVE  /\ page' \in Page
           /\ page'.mounted = page.mounted /\ page'.timer = page.timer
           /\ page'.due => page.due \/ page.mounted
           /\ page'.pending = page.pending
           /\ page'.ref = IF page.ref = l THEN n ELSE page.ref
           /\ client' \in [Links -> {"opening", "up", "gone"}]
           /\ Open' = (Open \ {l}) \union {n}
  <1> DEFINE q == Set(page, FALSE, page.error)
  <1>1. page \in Page /\ page.error \in BOOLEAN /\ FALSE \in BOOLEAN
    BY DEF SocketsTypeOK, Page
  <1>2. /\ q \in Page /\ q.mounted = page.mounted /\ q.timer = page.timer
        /\ q.pending = page.pending /\ q.ref = page.ref /\ (q.due => page.due \/ page.mounted)
    BY <1>1, SetEffect
  <1> HIDE DEF q
  <1>3. page' = [q EXCEPT !.ref = IF @ = l THEN n ELSE @]
    BY DEF Reconnect, q
  <1>4. client' = [client EXCEPT ![l] = "gone", ![n] = "opening"] /\ n # l
    BY DEF Reconnect, Free
  <1>5. page' \in Page
    BY <1>2, <1>3 DEF Page
  <1> QED
    BY <1>2, <1>3, <1>4, <1>5 DEF SocketsTypeOK, Page, Open

\* The parts of the invariant that the hook and its connections can disturb.
PageInv == ConnectsAlone /\ NoStraySockets

LEMMA PageStep == SocketsInv /\ [SocketsNext]_socketsVars => page' \in Page /\ PageInv'
  <1> SUFFICES ASSUME SocketsInv, [SocketsNext]_socketsVars PROVE page' \in Page /\ PageInv'
    OBVIOUS
  <1>0. /\ SocketsTypeOK /\ ConnectsAlone /\ NoStraySockets
        /\ page \in Page /\ page.ref \in Links \union {NoLink} /\ page.pending \in Nat
        /\ Open \subseteq Links /\ overlap \in BOOLEAN
    BY DEF SocketsInv, SocketsTypeOK, Page, Open
  <1>a. ASSUME overlap' = (overlap \/ page.pending > 0)
        PROVE  ~overlap' => ~overlap /\ page.pending = 0
    <2>1. ~overlap' => ~overlap /\ ~(page.pending > 0)
      BY <1>a
    <2> QED
      BY <1>0, <2>1
  <1>1. CASE Mount
    <2>1. page' = [mounted |-> TRUE, timer |-> TRUE, pending |-> page.pending + 1, ref |-> NoLink,
                   isConnected |-> FALSE, error |-> FALSE, due |-> FALSE]
      BY <1>1 DEF Mount, NoPage
    <2>2. /\ page' \in Page /\ page'.mounted /\ page'.pending = page.pending + 1
          /\ page'.ref = NoLink
      BY <1>0, <2>1 DEF Page
    <2>3. /\ Open' = Open /\ ~page.mounted
          /\ ~overlap' => ~overlap /\ page.pending = 0
      BY <1>1, <1>a DEF Mount, Open
    <2> QED
      BY <1>0, <2>2, <2>3 DEF PageInv, ConnectsAlone, NoStraySockets
  <1>2. CASE Unmount
    <2>1. page' = [mounted |-> FALSE, timer |-> FALSE, pending |-> page.pending, ref |-> NoLink,
                   isConnected |-> FALSE, error |-> FALSE, due |-> FALSE]
      BY <1>2 DEF Unmount, NoPage
    <2>2. /\ page' \in Page /\ ~page'.mounted /\ page'.pending = page.pending
          /\ ~page'.timer /\ ~page'.due
      BY <1>0, <2>1 DEF Page
    <2>3. Open' = Open \ {page.ref} /\ (~overlap' => ~overlap /\ page.pending = 0)
      BY <1>0, <1>2, <1>a, CloseEffect DEF Unmount
    <2> QED
      BY <1>0, <2>2, <2>3 DEF PageInv, ConnectsAlone, NoStraySockets
  <1>3. CASE Rerender
    <2>1. page.mounted /\ (~overlap' => ~overlap /\ page.pending = 0)
      BY <1>0, <1>3, <1>a DEF Rerender, ConnectsAlone
    <2>2. /\ page' \in Page /\ page'.mounted /\ page'.pending = page.pending + 1
          /\ page'.ref = NoLink /\ Open' = Open \ {page.ref}
      BY <1>0, <1>3, <2>1, RerenderEffect
    <2> QED
      BY <1>0, <2>1, <2>2 DEF PageInv, ConnectsAlone, NoStraySockets
  <1>4. ASSUME page' = [page EXCEPT !.due = TRUE], page.mounted, client' = client, overlap' = overlap
        PROVE  page' \in Page /\ PageInv'
    <2>1. /\ page' \in Page /\ page'.mounted = page.mounted /\ page'.timer = page.timer
          /\ page'.pending = page.pending /\ page'.ref = page.ref /\ Open' = Open
      BY <1>0, <1>4 DEF Page, Open
    <2> QED
      BY <1>0, <1>4, <2>1 DEF PageInv, ConnectsAlone, NoStraySockets
  <1>5. CASE OtherRender \/ PollRender
    BY <1>4, <1>5 DEF OtherRender, PollRender, socketsHistory
  <1>6. CASE Timer
    <2> DEFINE p == [page EXCEPT !.timer = FALSE]
    <2>1. /\ p \in Page /\ p.mounted = page.mounted /\ ~p.timer /\ p.due = page.due
          /\ p.pending = page.pending /\ p.ref = page.ref
      BY <1>0 DEF Page
    <2> HIDE DEF p
    <2>2. /\ page' = Connecting(p) /\ page.timer /\ client' = client
          /\ overlap' = (overlap \/ page.pending > 0
                                 \/ (page.ref # NoLink /\ client[page.ref] # "up"))
      BY <1>6 DEF Timer, p
    <2>a. ~overlap' => /\ ~overlap /\ page.pending = 0
                       /\ (page.ref = NoLink \/ client[page.ref] = "up")
      <3>1. ~overlap' => /\ ~overlap /\ ~(page.pending > 0)
                         /\ (page.ref = NoLink \/ client[page.ref] = "up")
        BY <2>2
      <3> QED
        BY <1>0, <3>1
    <2>3. /\ page' \in Page /\ page'.mounted /\ ~page'.timer /\ page'.ref = page.ref
          /\ page'.pending = IF page.ref # NoLink /\ client[page.ref] = "up"
                             THEN page.pending ELSE page.pending + 1
          /\ Open' = Open
      BY <1>0, <2>1, <2>2, ConnectingEffect DEF ConnectsAlone, Open
    <2>4. ~overlap' /\ page'.pending # page.pending => Open = {}
      BY <1>0, <2>a, <2>3, LinksType DEF NoStraySockets
    <2> QED
      BY <1>0, <2>a, <2>3, <2>4 DEF PageInv, ConnectsAlone, NoStraySockets
  <1>7. ASSUME NEW l \in Links, FinishConnect(l) PROVE page' \in Page /\ PageInv'
    <2>1. page.pending > 0 /\ page.pending - 1 \in Nat
      BY <1>0, <1>7 DEF FinishConnect
    <2>2. /\ page' \in Page /\ page'.mounted = page.mounted /\ page'.timer = page.timer
          /\ page'.due = page.due /\ page'.ref = l
          /\ page'.pending = page.pending - 1
      BY <1>0, <1>7, <2>1 DEF FinishConnect, Page
    <2>3. Open' = Open \union {l} /\ overlap' = overlap
      BY <1>0, <1>7 DEF FinishConnect, Open, socketsHistory, SocketsTypeOK
    <2> QED
      BY <1>0, <2>1, <2>2, <2>3 DEF PageInv, ConnectsAlone, NoStraySockets
  <1>8. ASSUME NEW l \in Links, NEW n \in Links, Reconnect(l, n), client[l] = "up", overlap' = overlap
        PROVE  page' \in Page /\ PageInv'
    <2>1. l \in Open
      BY <1>8 DEF Open
    <2> QED
      BY <1>0, <1>8, <2>1, ReconnectEffect DEF PageInv, ConnectsAlone, NoStraySockets
  <1>9. ASSUME NEW l \in Links, NEW n \in Links, Kicked(l, n) \/ Drop(l, n)
        PROVE  page' \in Page /\ PageInv'
    BY <1>8, <1>9 DEF Kicked, Drop, socketsHistory
  <1>10. ASSUME NEW c \in BOOLEAN, NEW e \in BOOLEAN, page' = Set(page, c, e),
                Open' \subseteq Open, overlap' = overlap
         PROVE  page' \in Page /\ PageInv'
    <2>1. /\ page' \in Page /\ page'.mounted = page.mounted /\ page'.timer = page.timer
          /\ page'.pending = page.pending /\ page'.ref = page.ref
          /\ page'.due => page.due \/ page.mounted
      BY <1>0, <1>10, SetEffect
    <2> QED
      BY <1>0, <1>10, <2>1 DEF PageInv, ConnectsAlone, NoStraySockets
  <1>11. ASSUME NEW l \in Links, Connected(l) PROVE page' \in Page /\ PageInv'
    <2>1. Open' = Open
      BY <1>0, <1>11 DEF Connected, Open, SocketsTypeOK
    <2> QED
      BY <1>10, <1>11, <2>1 DEF Connected, socketsHistory
  <1>12. ASSUME NEW l \in Links, ConnectError(l) PROVE page' \in Page /\ PageInv'
    <2>1. Open' \subseteq Open
      BY <1>0, <1>12, CloseEffect DEF ConnectError, Open
    <2> QED
      BY <1>10, <1>12, <2>1 DEF ConnectError
  <1>13. ASSUME UNCHANGED <<page, client, overlap>> PROVE page' \in Page /\ PageInv'
    BY <1>0, <1>13 DEF PageInv, ConnectsAlone, NoStraySockets, Open
  <1>14. ASSUME NEW l \in Links, Reach(l) \/ Verified(l) \/ HandleDisconnect(l)
         PROVE  page' \in Page /\ PageInv'
    BY <1>13, <1>14 DEF Reach, Verified, HandleDisconnect, socketsHistory
  <1>15. CASE TokenExpires \/ UNCHANGED socketsVars
    BY <1>13, <1>15 DEF TokenExpires, socketsVars, socketsHistory
  <1>16. CASE ImportFails
    <2> DEFINE p == [page EXCEPT !.pending = 0]
    <2>1. /\ p \in Page /\ p.mounted = page.mounted /\ p.timer = page.timer /\ p.due = page.due
          /\ p.pending = 0 /\ p.ref = page.ref /\ page.isConnected \in BOOLEAN
      BY <1>0 DEF Page
    <2> HIDE DEF p
    <2>2. page' = Set(p, page.isConnected, TRUE) /\ Open' = Open /\ overlap' = overlap
      BY <1>16 DEF ImportFails, Open, p
    <2>3. /\ page' \in Page /\ page'.mounted = page.mounted /\ page'.timer = page.timer
          /\ page'.pending = 0 /\ page'.ref = page.ref
          /\ page'.due => page.due \/ page.mounted
      BY <2>1, <2>2, SetEffect
    <2> QED
      BY <1>0, <2>2, <2>3 DEF PageInv, ConnectsAlone, NoStraySockets
  <1> QED
    BY <1>1, <1>2, <1>3, <1>5, <1>6, <1>7, <1>9, <1>11, <1>12, <1>14, <1>15, <1>16
    DEF SocketsNext

LEMMA SocketsTypeStep == SocketsInv /\ [SocketsNext]_socketsVars => SocketsTypeOK'
  <1> SUFFICES ASSUME SocketsInv, [SocketsNext]_socketsVars PROVE SocketsTypeOK'
    OBVIOUS
  <1>0. SocketsTypeOK /\ page' \in Page
    BY PageStep DEF SocketsInv
  <1> USE DEF SocketsTypeOK, Page
  <1>1. CASE Mount
    BY <1>0, <1>1 DEF Mount, gatewayVars
  <1>2. CASE Unmount \/ Rerender
    BY <1>0, <1>2, CloseEffect DEF Unmount, Rerender, gatewayVars
  <1>3. CASE OtherRender
    BY <1>0, <1>3 DEF OtherRender, gatewayVars
  <1>4. CASE PollRender
    BY <1>0, <1>4 DEF PollRender, gatewayVars, socketsHistory
  <1>5. CASE Timer
    <2>1. overlap' \in BOOLEAN
      BY <1>0, <1>5 DEF Timer
    <2> QED
      BY <1>0, <1>5, <2>1 DEF Timer, gatewayVars
  <1>6. CASE TokenExpires
    BY <1>0, <1>6 DEF TokenExpires, gatewayVars, socketsHistory
  <1>7. ASSUME NEW l \in Links, FinishConnect(l) PROVE SocketsTypeOK'
    BY <1>0, <1>7 DEF FinishConnect, gatewayVars, socketsHistory
  <1>8. ASSUME NEW l \in Links, Reach(l) PROVE SocketsTypeOK'
    BY <1>0, <1>8 DEF Reach, socketsHistory
  <1>9. ASSUME NEW l \in Links, Connected(l) PROVE SocketsTypeOK'
    BY <1>0, <1>9 DEF Connected, gatewayVars, socketsHistory
  <1>10. ASSUME NEW l \in Links, ConnectError(l) PROVE SocketsTypeOK'
    <2>1. client' \in [Links -> {"opening", "up", "gone"}] /\ tries' \in [Links -> Nat]
      BY <1>0, <1>10, CloseEffect DEF ConnectError
    <2>2. /\ UNCHANGED <<loaded, valid, server, online, mounts, renders, overlap, crowded, phantom>>
          /\ fails' \in Nat
      BY <1>0, <1>10 DEF ConnectError, gatewayVars
    <2> QED
      BY <1>0, <2>1, <2>2
  <1>11. ASSUME NEW l \in Links, Verified(l) PROVE SocketsTypeOK'
    BY <1>0, <1>11 DEF Verified
  <1>12. ASSUME NEW l \in Links, HandleDisconnect(l) PROVE SocketsTypeOK'
    BY <1>0, <1>12 DEF HandleDisconnect
  <1>13. ASSUME NEW l \in Links, NEW n \in Links, Kicked(l, n) \/ Drop(l, n)
         PROVE  SocketsTypeOK'
    <2>1. client' \in [Links -> {"opening", "up", "gone"}]
      BY <1>0, <1>13, ReconnectEffect DEF Kicked, Drop
    <2> QED
      BY <1>0, <1>13, <2>1 DEF Kicked, Drop, gatewayVars, socketsHistory
  <1>14. CASE UNCHANGED socketsVars
    BY <1>0, <1>14 DEF socketsVars, gatewayVars, socketsHistory
  <1>15. CASE ImportFails
    <2>1. /\ UNCHANGED <<loaded, valid, client, tries, server, online>>
          /\ UNCHANGED <<mounts, renders, overlap, crowded, phantom>>
          /\ fails' \in Nat
      BY <1>0, <1>15 DEF ImportFails, gatewayVars
    <2> QED
      BY <1>0, <2>1
  <1> QED
    BY <1>1, <1>2, <1>3, <1>4, <1>5, <1>6, <1>7, <1>8, <1>9, <1>10, <1>11, <1>12, <1>13,
       <1>14, <1>15 DEF SocketsNext

\* Who is recorded as connected: only the gateway's handlers change it.
LEMMA PresenceStep ==
    SocketsInv /\ [SocketsNext]_socketsVars => AdmittedOnce' /\ PresenceRight'
  <1> SUFFICES ASSUME SocketsInv, [SocketsNext]_socketsVars PROVE AdmittedOnce' /\ PresenceRight'
    OBVIOUS
  <1>0. /\ SocketsTypeOK /\ AdmittedOnce /\ PresenceRight
        /\ server \in [Links -> {"none", "verifying", "admitted", "refused", "late"}]
    BY DEF SocketsInv, SocketsTypeOK
  <1>1. ASSUME Admitted' = Admitted, UNCHANGED <<online, crowded, phantom>>
        PROVE  AdmittedOnce' /\ PresenceRight'
    BY <1>0, <1>1 DEF AdmittedOnce, PresenceRight
  <1>2. ASSUME UNCHANGED <<server, online, crowded, phantom>>
        PROVE  AdmittedOnce' /\ PresenceRight'
    BY <1>1, <1>2 DEF Admitted
  <1>3. CASE \/ Mount \/ Unmount \/ Rerender \/ OtherRender \/ PollRender \/ Timer \/ ImportFails
             \/ TokenExpires \/ UNCHANGED socketsVars
    BY <1>2, <1>3
    DEF Mount, Unmount, Rerender, OtherRender, PollRender, Timer, ImportFails, TokenExpires,
        socketsVars, gatewayVars, socketsHistory
  <1>4. ASSUME NEW l \in Links, FinishConnect(l) \/ Connected(l) \/ ConnectError(l)
        PROVE  AdmittedOnce' /\ PresenceRight'
    BY <1>2, <1>4 DEF FinishConnect, Connected, ConnectError, gatewayVars, socketsHistory
  <1>5. ASSUME NEW l \in Links, NEW n \in Links, Kicked(l, n) \/ Drop(l, n)
        PROVE  AdmittedOnce' /\ PresenceRight'
    BY <1>2, <1>5 DEF Kicked, Drop, gatewayVars, socketsHistory
  <1>6. ASSUME NEW l \in Links, Reach(l) PROVE AdmittedOnce' /\ PresenceRight'
    <2>1. Admitted' = Admitted
      BY <1>0, <1>6 DEF Reach, Admitted
    <2> QED
      BY <1>1, <1>6, <2>1 DEF Reach, socketsHistory
  <1>7. ASSUME NEW l \in Links, Verified(l) PROVE AdmittedOnce' /\ PresenceRight'
    <2>1. CASE valid /\ server[l] # "late"
      <3>1. /\ Admitted' = Admitted \union {l} /\ online' = l
            /\ ~crowded' => ~crowded /\ Admitted = {}
        BY <1>0, <1>7, <2>1 DEF Verified, Admitted
      <3> QED
        BY <1>0, <3>1 DEF AdmittedOnce, PresenceRight
    <2>2. CASE valid /\ server[l] = "late"
      <3>1. Admitted' = Admitted /\ phantom' /\ (~crowded' => ~crowded)
        BY <1>0, <1>7, <2>2 DEF Verified, Admitted
      <3> QED
        BY <1>0, <3>1 DEF AdmittedOnce, PresenceRight
    <2>3. CASE ~valid
      <3>1. Admitted' = Admitted
        BY <1>0, <1>7, <2>3 DEF Verified, Admitted
      <3> QED
        BY <1>1, <1>7, <2>3, <3>1 DEF Verified
    <2> QED
      BY <2>1, <2>2, <2>3
  <1>8. ASSUME NEW l \in Links, HandleDisconnect(l) PROVE AdmittedOnce' /\ PresenceRight'
    <2>1. CASE server[l] = "admitted"
      <3>1. /\ Admitted' = Admitted \ {l} /\ l \in Admitted /\ online' = NoLink
            /\ ~crowded' => ~crowded \/ Admitted = {l}
        BY <1>0, <1>8, <2>1 DEF HandleDisconnect, Admitted
      <3>2. ~crowded' => Admitted' = {}
        BY <1>0, <3>1 DEF AdmittedOnce
      <3> QED
        BY <3>1, <3>2 DEF AdmittedOnce, PresenceRight
    <2>2. CASE server[l] # "admitted"
      <3>1. Admitted' = Admitted
        BY <1>0, <1>8, <2>2 DEF HandleDisconnect, Admitted
      <3> QED
        BY <1>1, <1>8, <2>2, <3>1 DEF HandleDisconnect
    <2> QED
      BY <2>1, <2>2
  <1> QED
    BY <1>3, <1>4, <1>5, <1>6, <1>7, <1>8 DEF SocketsNext

LEMMA SocketsStep == SocketsInv /\ [SocketsNext]_socketsVars => SocketsInv'
  BY PageStep, SocketsTypeStep, PresenceStep DEF SocketsInv, PageInv

LEMMA SocketsAlways == SocketsSpec => []SocketsInv
  BY SocketsInitInv, SocketsStep, PTL DEF SocketsSpec

\* Every state of the socket and the gateway is of the type SocketsTypeOK gives.
THEOREM SocketsTypeCorrect == SocketsSpec => []SocketsTypeOK
  <1>1. SocketsInv => SocketsTypeOK
    BY DEF SocketsInv
  <1> QED
    BY <1>1, SocketsAlways, PTL

\* connectedClients of the gateway names the connection a user has, in every order in
\* which connections are verified, dropped and closed, for any number of connections
\* and reconnection attempts.
THEOREM SocketsPresenceRight == SocketsSpec => []PresenceRight
  <1>1. SocketsInv => PresenceRight
    BY DEF SocketsInv
  <1> QED
    BY <1>1, SocketsAlways, PTL

\* The hook leaves no connection open but the one it holds, whatever renders,
\* reconnections and failures come, as long as no two connects overlap.
THEOREM SocketsNoStray == SocketsSpec => []NoStraySockets
  <1>1. SocketsInv => NoStraySockets
    BY DEF SocketsInv
  <1> QED
    BY <1>1, SocketsAlways, PTL

(* ------------------------------- NoticeList ---------------------------- *)

\* The list shows at most what it has shown, and that at most what is stored.
ListBehind == \A n \in Notices : list[n] <= best[n] /\ best[n] <= row[n]

\* What the listener pushes is stored.
PushesStored ==
    /\ \A n \in unsent : row[n] > 0
    /\ \A i \in DOMAIN transit : row[transit[i]] > 0

\* What a request will write to the list: nothing that is not stored; all that the
\* list has shown of the newest, when it was served and nothing overtook it; the list as it is, when
\* it marks one and nothing overtook it; and the one it marks is stored, and read once
\* the request is answered.
ErrandRight(e) ==
    LET q == errand[e] IN
    /\ \A n \in Notices : q.seen[n] <= row[n]
    /\ q.pc = "served" /\ ~q.overtaken =>
          \A n \in Notices : best[n] <= q.seen[n] \/ Beyond(n)
    /\ q.pc \in {"sent", "answer"} /\ q.op = "one" =>
          /\ q.notice \in Notices /\ row[q.notice] > 0
          /\ q.pc = "answer" => row[q.notice] = 2
          /\ ~q.overtaken => q.seen = list

NoticesInv ==
    /\ NoticesTypeOK /\ ListBehind /\ PushesStored
    /\ \A e \in Errands : ErrandRight(e)
    /\ ShownStays

LEMMA NoticeTypes ==
    /\ Empty \in Marks /\ \A n \in Notices : Empty[n] = 0
    /\ NoErrand \in Errand /\ NoErrand.pc = "idle" /\ NoErrand.seen = Empty
    /\ <<>> \in Seq(Notices)
    /\ Nobody \notin Errands /\ NoNotice \notin Notices
  <1>1. Empty \in Marks /\ \A n \in Notices : Empty[n] = 0
    BY DEF Empty, Marks
  <1> QED
    BY <1>1 DEF NoErrand, Errand, Nobody, Errands, NoNotice, Notices

LEMMA NoticesInitInv == NoticesInit => NoticesInv
  <1> SUFFICES ASSUME NoticesInit PROVE NoticesInv
    OBVIOUS
  <1> USE NoticeTypes DEF NoticesInit
  <1>1. NoticesTypeOK
    BY DEF NoticesTypeOK
  <1>2. \A e \in Errands : ErrandRight(e)
    BY DEF ErrandRight
  <1> QED
    BY <1>1, <1>2 DEF NoticesInv, ListBehind, PushesStored, ShownStays

\* What Send and Show do, and what they leave alone.
LEMMA SendEffect ==
    ASSUME NoticesTypeOK, NEW e \in Errands, NEW q \in Errand, Send(e, q)
    PROVE  /\ errand' \in [Errands -> Errand]
           /\ errand'[e] = q /\ \A f \in Errands \ {e} : errand'[f] = errand[f]
  BY DEF NoticesTypeOK, Send

LEMMA ShowEffect ==
    ASSUME NoticesTypeOK, NEW e, NEW new \in Marks, NEW q \in Errand, Show(e, new, q)
    PROVE  /\ list' = new /\ best' \in Marks /\ errand' \in [Errands -> Errand]
           /\ \A n \in Notices : best'[n] = IF new[n] > best[n] THEN new[n] ELSE best[n]
           /\ e \in Errands => errand'[e] = q
           /\ \A f \in Errands : f # e =>
                 /\ errand'[f].pc = errand[f].pc /\ errand'[f].op = errand[f].op
                 /\ errand'[f].notice = errand[f].notice /\ errand'[f].seen = errand[f].seen
                 /\ errand[f].pc # "idle" /\ ~errand'[f].overtaken =>
                       ~errand[f].overtaken /\ new = list
  <1>1. list' = new
    BY DEF Show
  <1>2. /\ best' \in Marks
        /\ \A n \in Notices : best'[n] = IF new[n] > best[n] THEN new[n] ELSE best[n]
    BY DEF Show, NoticesTypeOK, Marks
  <1>3. ASSUME NEW f \in Errands
        PROVE  /\ errand'[f] \in Errand /\ (f = e => errand'[f] = q)
               /\ f # e =>
                 /\ errand'[f].pc = errand[f].pc /\ errand'[f].op = errand[f].op
                 /\ errand'[f].notice = errand[f].notice /\ errand'[f].seen = errand[f].seen
                 /\ errand[f].pc # "idle" /\ ~errand'[f].overtaken =>
                       ~errand[f].overtaken /\ new = list
    BY DEF Show, NoticesTypeOK, Errand
  <1>4. errand' \in [Errands -> Errand]
    BY <1>3 DEF Show
  <1> QED
    BY <1>1, <1>2, <1>3, <1>4

\* A list that shows nothing but what is stored keeps the invariant about the list and
\* the requests; what disturbed becomes is up to the caller.
LEMMA ShowStep ==
    ASSUME NoticesInv, NEW e, NEW new \in Marks, Show(e, new, NoErrand),
           UNCHANGED <<row, unsent>>, \A n \in Notices : new[n] <= row[n],
           transit' \in Seq(Notices), \A i \in DOMAIN transit' : row[transit'[i]] > 0,
           polling' \in BOOLEAN, disturbed' \in BOOLEAN, errors' \in Nat
    PROVE  /\ NoticesTypeOK' /\ ListBehind' /\ PushesStored'
           /\ \A f \in Errands : ErrandRight(f)'
  <1>0. /\ NoticesTypeOK /\ ListBehind /\ PushesStored
        /\ row \in Marks /\ best \in Marks /\ list \in Marks /\ unsent \subseteq Notices
        /\ \A f \in Errands : ErrandRight(f)
    BY DEF NoticesInv, NoticesTypeOK
  <1>1. /\ list' = new /\ best' \in Marks /\ errand' \in [Errands -> Errand]
        /\ \A n \in Notices : best'[n] = IF new[n] > best[n] THEN new[n] ELSE best[n]
        /\ e \in Errands => errand'[e] = NoErrand
        /\ \A f \in Errands : f # e =>
              /\ errand'[f].pc = errand[f].pc /\ errand'[f].op = errand[f].op
              /\ errand'[f].notice = errand[f].notice /\ errand'[f].seen = errand[f].seen
              /\ errand[f].pc # "idle" /\ ~errand'[f].overtaken => ~errand[f].overtaken /\ new = list
    BY <1>0, NoticeTypes, ShowEffect
  <1>2. \A n \in Notices : /\ row[n] \in 0 .. 2 /\ best[n] \in 0 .. 2
                           /\ list[n] \in 0 .. 2 /\ new[n] \in 0 .. 2
    BY <1>0 DEF Marks
  <1>3. NoticesTypeOK'
    BY <1>0, <1>1 DEF NoticesTypeOK
  <1>4. ListBehind'
    BY <1>0, <1>1, <1>2 DEF ListBehind
  <1>5. PushesStored'
    BY <1>0 DEF PushesStored
  <1>6. new = list => \A n \in Notices : best'[n] = best[n]
    BY <1>0, <1>1, <1>2 DEF ListBehind
  <1>7. ASSUME NEW f \in Errands PROVE ErrandRight(f)'
    <2>1. CASE f = e
      BY <1>1, <1>2, <2>1, NoticeTypes DEF ErrandRight
    <2>2. CASE f # e
      BY <1>0, <1>1, <1>6, <2>2 DEF ErrandRight, Beyond
    <2> QED
      BY <2>1, <2>2
  <1> QED
    BY <1>3, <1>4, <1>5, <1>7

\* A request that is sent, and nothing else but the polling changes.
LEMMA SendStep ==
    ASSUME NoticesInv, NEW e \in Errands, NEW q \in Errand, Send(e, q),
           UNCHANGED <<row, unsent, transit, list, listHistory>>, polling' \in BOOLEAN,
           q.pc \in {"get", "sent"}, \A n \in Notices : q.seen[n] <= row[n],
           q.op = "one" => q.notice \in Notices /\ row[q.notice] > 0 /\ q.seen = list
    PROVE  NoticesInv'
  <1>0. NoticesTypeOK /\ ListBehind /\ PushesStored /\ ShownStays
    BY DEF NoticesInv
  <1>1. /\ errand' \in [Errands -> Errand]
        /\ errand'[e] = q /\ \A f \in Errands \ {e} : errand'[f] = errand[f]
    BY <1>0, SendEffect
  <1>2. NoticesTypeOK' /\ ListBehind' /\ PushesStored' /\ ShownStays'
    BY <1>0, <1>1 DEF NoticesTypeOK, ListBehind, PushesStored, ShownStays, Beyond, listHistory
  <1>3. ASSUME NEW f \in Errands PROVE ErrandRight(f)'
    <2>1. ErrandRight(f)
      BY DEF NoticesInv
    <2> QED
      BY <1>1, <2>1 DEF ErrandRight, Beyond, listHistory
  <1> QED
    BY <1>2, <1>3 DEF NoticesInv

\* A notification that is not one of the newest never is again.
LEMMA BeyondStays ==
    ASSUME row \in Marks, row' \in Marks, \A n \in Notices : row[n] <= row'[n],
           NEW n \in Notices, Beyond(n)
    PROVE  Beyond(n)'
  <1>1. n + Limit \in Notices /\ row[n + Limit] \in 0 .. 2 /\ row'[n + Limit] \in 0 .. 2
    BY DEF Beyond, Marks
  <1>2. row[n + Limit] <= row'[n + Limit] /\ row[n + Limit] # 0
    BY <1>1 DEF Beyond
  <1> QED
    BY <1>1, <1>2 DEF Beyond

\* Rows only come and are read: the invariant is kept when no request changes.
LEMMA RowsGrow ==
    ASSUME NoticesInv, row' \in Marks, \A n \in Notices : row[n] <= row'[n],
           UNCHANGED <<list, listHistory>>
    PROVE  /\ ListBehind' /\ ShownStays'
           /\ \A n \in unsent : row'[n] > 0
           /\ \A i \in DOMAIN transit : row'[transit[i]] > 0
           /\ \A e \in Errands : errand'[e] = errand[e] => ErrandRight(e)'
  <1>0. /\ row \in Marks /\ best \in Marks /\ list \in Marks /\ unsent \subseteq Notices
        /\ transit \in Seq(Notices) /\ errand \in [Errands -> Errand]
        /\ ListBehind /\ PushesStored /\ ShownStays /\ \A e \in Errands : ErrandRight(e)
    BY DEF NoticesInv, NoticesTypeOK
  <1>1. \A n \in Notices : row[n] \in 0 .. 2 /\ row'[n] \in 0 .. 2 /\ best[n] \in 0 .. 2
    BY <1>0 DEF Marks
  <1>b. \A n \in Notices : Beyond(n) => Beyond(n)'
    BY <1>0, BeyondStays
  <1>2. ListBehind' /\ ShownStays'
    BY <1>0, <1>1, <1>b DEF ListBehind, ShownStays, listHistory
  <1>3. (\A n \in unsent : row'[n] > 0) /\ (\A i \in DOMAIN transit : row'[transit[i]] > 0)
    BY <1>0, <1>1 DEF PushesStored
  <1>4. ASSUME NEW e \in Errands, errand'[e] = errand[e] PROVE ErrandRight(e)'
    <2>1. errand[e].seen \in Marks
      BY <1>0 DEF Errand
    <2>2. \A n \in Notices : errand[e].seen[n] \in 0 .. 2
      BY <2>1 DEF Marks
    <2>3. \A n \in Notices : errand[e].seen[n] <= row'[n]
      BY <1>0, <1>1, <2>2 DEF ErrandRight
    <2>4. \A n \in Notices : (row[n] > 0 => row'[n] > 0) /\ (row[n] = 2 => row'[n] = 2)
      BY <1>1
    <2> QED
      BY <1>0, <1>4, <1>b, <2>3, <2>4 DEF ErrandRight, listHistory
  <1> QED
    BY <1>2, <1>3, <1>4

LEMMA NoticesStep == NoticesInv /\ [NoticesNext]_noticeVars => NoticesInv'
  <1> SUFFICES ASSUME NoticesInv, [NoticesNext]_noticeVars PROVE NoticesInv'
    OBVIOUS
  <1>0. /\ NoticesTypeOK /\ ListBehind /\ PushesStored /\ ShownStays
        /\ row \in Marks /\ best \in Marks /\ list \in Marks /\ unsent \subseteq Notices
        /\ transit \in Seq(Notices) /\ errand \in [Errands -> Errand]
        /\ polling \in BOOLEAN /\ disturbed \in BOOLEAN /\ errors \in Nat
        /\ \A e \in Errands : ErrandRight(e)
    BY DEF NoticesInv, NoticesTypeOK
  <1>a. /\ \A n \in Notices : /\ row[n] \in 0 .. 2 /\ best[n] \in 0 .. 2 /\ list[n] \in 0 .. 2
                              /\ list[n] <= best[n] /\ best[n] <= row[n]
        /\ \A e \in Errands : errand[e] \in Errand /\ errand[e].seen \in Marks
        /\ \A e \in Errands, n \in Notices : errand[e].seen[n] \in 0 .. 2
    BY <1>0 DEF Marks, Errand, ListBehind
  <1>1. CASE Deliver
    <2> DEFINE n == Head(transit)
               new == IF list[n] = 0 THEN [list EXCEPT ![n] = 1] ELSE list
    <2>1. n \in Notices /\ row[n] > 0 /\ transit' = Tail(transit) /\ transit' \in Seq(Notices)
      BY <1>0, <1>1 DEF Deliver, PushesStored
    <2>2. \A i \in DOMAIN transit' : row[transit'[i]] > 0
      BY <1>0, <1>1 DEF Deliver, PushesStored
    <2>3. /\ new \in Marks
          /\ \A m \in Notices : new[m] <= row[m] /\ list[m] <= new[m] /\ new[m] \in 0 .. 2
      BY <1>0, <1>a, <2>1 DEF Marks
    <2>4. Show(Nobody, new, NoErrand) /\ UNCHANGED <<row, unsent, polling, disturbed, errors>>
      BY <1>1 DEF Deliver
    <2> HIDE DEF n, new
    <2>5. NoticesTypeOK' /\ ListBehind' /\ PushesStored' /\ \A f \in Errands : ErrandRight(f)'
      BY <1>0, <2>1, <2>2, <2>3, <2>4, ShowStep
    <2>6. ~disturbed => \A m \in Notices : list'[m] = best'[m] \/ Beyond(m)
      <3>1. list' = new /\ best' \in Marks /\ \A m \in Notices :
               best'[m] = IF new[m] > best[m] THEN new[m] ELSE best[m]
        BY <1>0, <2>3, <2>4, NoticeTypes, ShowEffect
      <3>2. ~disturbed => \A m \in Notices : best'[m] = new[m] \/ Beyond(m)
        BY <1>0, <1>a, <2>3, <3>1 DEF ShownStays
      <3> QED
        BY <3>1, <3>2
    <2> QED
      BY <2>4, <2>5, <2>6 DEF NoticesInv, ShownStays, Beyond
  <1>2. ASSUME NEW e, NEW new \in Marks, Show(e, new, NoErrand),
               UNCHANGED <<row, unsent, transit, polling>>,
               \A n \in Notices : new[n] <= row[n],
               disturbed' \in BOOLEAN, errors' \in Nat,
               ~disturbed' => \A n \in Notices : best[n] <= new[n] \/ Beyond(n)
        PROVE  NoticesInv'
    <2>1. NoticesTypeOK' /\ ListBehind' /\ PushesStored' /\ \A f \in Errands : ErrandRight(f)'
      BY <1>0, <1>2, ShowStep DEF PushesStored
    <2>2. list' = new /\ best' \in Marks /\ \A m \in Notices :
             best'[m] = IF new[m] > best[m] THEN new[m] ELSE best[m]
      BY <1>0, <1>2, NoticeTypes, ShowEffect
    <2>3. \A n \in Notices : new[n] \in 0 .. 2
      BY DEF Marks
    <2>4. ~disturbed' => \A m \in Notices : best'[m] = new[m] \/ Beyond(m)
      BY <1>2, <1>a, <2>2, <2>3
    <2>5. ~disturbed' => \A m \in Notices : list'[m] = best'[m] \/ Beyond(m)
      BY <2>2, <2>4
    <2> QED
      BY <1>2, <2>1, <2>5 DEF NoticesInv, ShownStays, Beyond
  <1>3. CASE JobsFail
    BY <1>0, <1>a, <1>2, <1>3, NoticeTypes DEF JobsFail
  <1>4. ASSUME NEW e \in Errands, Fetched(e) PROVE NoticesInv'
    <2>1. /\ errand[e].seen \in Marks /\ errand[e].overtaken \in BOOLEAN
          /\ \A n \in Notices : errand[e].seen[n] <= row[n]
          /\ ~errand[e].overtaken =>
                \A n \in Notices : best[n] <= errand[e].seen[n] \/ Beyond(n)
      BY <1>0, <1>a, <1>4 DEF Fetched, ErrandRight, Errand
    <2> QED
      BY <1>0, <1>2, <1>4, <2>1 DEF Fetched
  <1>5. ASSUME NEW e \in Errands, Marked(e) PROVE NoticesInv'
    <2> DEFINE m == errand[e].notice
               new == [errand[e].seen EXCEPT ![m] = 2]
    <2>1. /\ errand[e].seen \in Marks /\ errand[e].overtaken \in BOOLEAN
          /\ \A n \in Notices : errand[e].seen[n] <= row[n]
          /\ m \in Notices /\ row[m] = 2
          /\ ~errand[e].overtaken => errand[e].seen = list
      BY <1>0, <1>a, <1>5 DEF Marked, ErrandRight, Errand
    <2>2. new \in Marks /\ \A n \in Notices : new[n] <= row[n] /\ errand[e].seen[n] <= new[n]
      BY <1>a, <2>1 DEF Marks
    <2>3. disturbed' = (disturbed \/ errand[e].overtaken) /\ Show(e, new, NoErrand)
      BY <1>5 DEF Marked
    <2>4. ~disturbed' => \A n \in Notices : best[n] <= new[n] \/ Beyond(n)
      <3>1. ~disturbed' => ~disturbed /\ ~errand[e].overtaken
        BY <2>3
      <3>2. ~disturbed' => \A n \in Notices : errand[e].seen[n] = best[n] \/ Beyond(n)
        BY <1>0, <2>1, <3>1 DEF ShownStays
      <3> QED
        BY <1>a, <2>2, <3>2
    <2>5. UNCHANGED <<row, unsent, transit, polling, errors>> /\ disturbed' \in BOOLEAN
      BY <1>5 DEF Marked
    <2> HIDE DEF new, m
    <2> QED
      BY <1>0, <1>2, <2>2, <2>3, <2>4, <2>5
  <1>6. ASSUME NEW e \in Errands, NEW empties \in BOOLEAN, Fail(e, empties) PROVE NoticesInv'
    <2> DEFINE new == IF empties THEN Empty ELSE list
    <2>1. /\ Show(e, new, NoErrand) /\ UNCHANGED <<row, unsent, transit, polling>>
          /\ errors' \in Nat /\ disturbed' = (disturbed \/ empties)
      BY <1>0, <1>6 DEF Fail
    <2>2. new \in Marks /\ \A n \in Notices : new[n] <= row[n]
      BY <1>0, <1>a, NoticeTypes
    <2>3. ~disturbed' => \A n \in Notices : best[n] <= new[n] \/ Beyond(n)
      <3>1. ~disturbed' => ~disturbed /\ ~empties
        BY <2>1
      <3> QED
        BY <1>0, <1>a, <3>1 DEF ShownStays
    <2>4. disturbed' \in BOOLEAN
      BY <2>1
    <2> HIDE DEF new
    <2> QED
      BY <1>2, <2>1, <2>2, <2>3, <2>4
  <1>7. ASSUME NEW e \in Errands, FetchNotifications(e) \/ TogglePolling(e) PROVE NoticesInv'
    <2> DEFINE q == [NoErrand EXCEPT !.pc = "get"]
    <2>1. q \in Errand /\ q.pc = "get" /\ q.op = "fetch" /\ q.seen = Empty
      BY NoticeTypes DEF NoErrand, Errand
    <2>2. /\ Send(e, q) /\ UNCHANGED <<row, unsent, transit, list, listHistory>>
          /\ polling' \in BOOLEAN
      BY <1>0, <1>7 DEF FetchNotifications, TogglePolling
    <2> HIDE DEF q
    <2> QED
      BY <1>a, <2>1, <2>2, NoticeTypes, SendStep
  <1>8. ASSUME NEW e \in Errands, NEW n \in Notices, MarkOne(e, n) PROVE NoticesInv'
    <2> DEFINE q == [NoErrand EXCEPT !.pc = "sent", !.op = "one", !.notice = n, !.seen = list]
    <2>1. q \in Errand /\ q.pc = "sent" /\ q.op = "one" /\ q.notice = n /\ q.seen = list
      BY <1>0, NoticeTypes DEF NoErrand, Errand
    <2>2. /\ Send(e, q) /\ UNCHANGED <<row, unsent, transit, list, listHistory>>
          /\ polling' \in BOOLEAN /\ list[n] = 1
      BY <1>0, <1>8 DEF MarkOne
    <2>3. row[n] > 0 /\ \A m \in Notices : list[m] <= row[m]
      BY <1>a, <2>2
    <2> HIDE DEF q
    <2> QED
      BY <2>1, <2>2, <2>3, SendStep
  <1>9. ASSUME NEW e \in Errands, MarkAll(e) PROVE NoticesInv'
    <2> DEFINE q == [NoErrand EXCEPT !.pc = "sent", !.op = "all"]
    <2>1. q \in Errand /\ q.pc = "sent" /\ q.op = "all" /\ q.seen = Empty
      BY NoticeTypes DEF NoErrand, Errand
    <2>2. /\ Send(e, q) /\ UNCHANGED <<row, unsent, transit, list, listHistory>>
          /\ polling' \in BOOLEAN
      BY <1>0, <1>9 DEF MarkAll
    <2> HIDE DEF q
    <2> QED
      BY <1>a, <2>1, <2>2, NoticeTypes, SendStep
  <1>10. ASSUME NEW e \in Errands, MarkedAll(e) PROVE NoticesInv'
    <2>1. /\ errand' \in [Errands -> Errand]
          /\ errand'[e].pc = "get" /\ errand'[e].seen = errand[e].seen
          /\ \A f \in Errands \ {e} : errand'[f] = errand[f]
          /\ UNCHANGED <<row, unsent, transit, list, polling, listHistory>>
      BY <1>0, <1>10 DEF MarkedAll, Errand
    <2>2. \A f \in Errands : ErrandRight(f)'
      BY <1>0, <2>1 DEF ErrandRight, Beyond, listHistory
    <2> QED
      BY <1>0, <2>1, <2>2
      DEF NoticesInv, NoticesTypeOK, ListBehind, PushesStored, ShownStays, Beyond, listHistory
  <1>11. ASSUME NEW e \in Errands, Serve(e) PROVE NoticesInv'
    <2> DEFINE newest == [n \in Notices |-> IF Beyond(n) THEN 0 ELSE row[n]]
    <2>0. newest \in Marks /\ \A n \in Notices : newest[n] = IF Beyond(n) THEN 0 ELSE row[n]
      <3>1. \A n \in Notices : (IF Beyond(n) THEN 0 ELSE row[n]) \in 0 .. 2
        BY <1>a
      <3> QED
        BY <3>1 DEF Marks
    <2>a. /\ errand' = [errand EXCEPT ![e].pc = "served", ![e].seen = newest]
          /\ UNCHANGED <<row, unsent, transit, list, polling, listHistory>>
      BY <1>11 DEF Serve
    <2> HIDE DEF newest
    <2>1. /\ errand' \in [Errands -> Errand]
          /\ errand'[e].pc = "served"
          /\ errand'[e].seen = newest
          /\ \A f \in Errands \ {e} : errand'[f] = errand[f]
          /\ UNCHANGED <<row, unsent, transit, list, polling, listHistory>>
      BY <1>0, <2>0, <2>a DEF Errand
    <2>2. \A f \in Errands : ErrandRight(f)'
      BY <1>0, <1>a, <2>0, <2>1 DEF ErrandRight, Beyond, listHistory
    <2> QED
      BY <1>0, <2>1, <2>2
      DEF NoticesInv, NoticesTypeOK, ListBehind, PushesStored, ShownStays, Beyond, listHistory
  <1>12. ASSUME NEW e \in Errands, SaveRead(e) PROVE NoticesInv'
    <2>1. /\ errand' \in [Errands -> Errand] /\ errand[e].pc = "sent"
          /\ errand'[e].pc = "answer" /\ errand'[e].seen = errand[e].seen
          /\ errand'[e].op = errand[e].op /\ errand'[e].notice = errand[e].notice
          /\ errand'[e].overtaken = errand[e].overtaken
          /\ \A f \in Errands \ {e} : errand'[f] = errand[f]
          /\ UNCHANGED <<unsent, transit, list, polling, listHistory>>
      BY <1>0, <1>12 DEF SaveRead, Errand
    <2>2. /\ row' \in Marks /\ \A n \in Notices : row[n] <= row'[n]
          /\ \A n \in Notices : row[n] > 0 /\ errand[e].notice = n => row'[n] = 2
      BY <1>0, <1>a, <1>12 DEF SaveRead, Marks
    <2>3. /\ ListBehind' /\ ShownStays'
          /\ \A n \in unsent : row'[n] > 0
          /\ \A i \in DOMAIN transit : row'[transit[i]] > 0
          /\ \A f \in Errands : errand'[f] = errand[f] => ErrandRight(f)'
      BY <2>1, <2>2, RowsGrow
    <2>4. ErrandRight(e)'
      <3>1. \A n \in Notices : errand[e].seen[n] <= row'[n]
        <4>1. \A n \in Notices : row'[n] \in 0 .. 2
          BY <2>2 DEF Marks
        <4> QED
          BY <1>0, <1>a, <2>2, <4>1 DEF ErrandRight
      <3>2. errand[e].op = "one" =>
               /\ errand[e].notice \in Notices /\ row'[errand[e].notice] = 2
               /\ ~errand[e].overtaken => errand[e].seen = list
        BY <1>0, <2>1, <2>2 DEF ErrandRight
      <3> QED
        BY <2>1, <3>1, <3>2 DEF ErrandRight
    <2> QED
      BY <1>0, <2>1, <2>2, <2>3, <2>4
         DEF NoticesInv, NoticesTypeOK, PushesStored, listHistory
  <1>13. ASSUME NEW n \in Notices, StoreNotice(n) PROVE NoticesInv'
    <2>1. /\ row' \in Marks /\ (\A m \in Notices : row[m] <= row'[m]) /\ row'[n] = 1
          /\ unsent' = unsent \union {n}
          /\ UNCHANGED <<transit, list, polling, errand, listHistory>>
      BY <1>0, <1>a, <1>13 DEF StoreNotice, Marks, pageVars
    <2>2. /\ ListBehind' /\ ShownStays'
          /\ \A m \in unsent : row'[m] > 0
          /\ \A i \in DOMAIN transit : row'[transit[i]] > 0
          /\ \A f \in Errands : ErrandRight(f)'
      BY <2>1, RowsGrow
    <2> QED
      BY <1>0, <2>1, <2>2 DEF NoticesInv, NoticesTypeOK, PushesStored, listHistory
  <1>14. ASSUME NEW n \in Notices, NEW arrives \in BOOLEAN, Push(n, arrives) PROVE NoticesInv'
    <2>1. /\ unsent' \subseteq unsent /\ transit' \in Seq(Notices)
          /\ \A i \in DOMAIN transit' : row[transit'[i]] > 0
          /\ UNCHANGED <<row, list, polling, errand, listHistory>>
      BY <1>0, <1>14 DEF Push, PushesStored, pageVars
    <2>2. \A f \in Errands : ErrandRight(f)'
      BY <1>0, <2>1 DEF ErrandRight, Beyond, listHistory
    <2> QED
      BY <1>0, <2>1, <2>2
      DEF NoticesInv, NoticesTypeOK, ListBehind, PushesStored, ShownStays, Beyond, listHistory
  <1>15. CASE UNCHANGED noticeVars
    <2>1. \A f \in Errands : ErrandRight(f)'
      BY <1>0, <1>15 DEF noticeVars, pageVars, listHistory, ErrandRight, Beyond
    <2> QED
      BY <1>0, <1>15, <2>1
      DEF NoticesInv, NoticesTypeOK, ListBehind, PushesStored, ShownStays, Beyond, noticeVars,
          pageVars, listHistory
  <1> QED
    BY <1>1, <1>3, <1>4, <1>5, <1>6, <1>7, <1>8, <1>9, <1>10, <1>11, <1>12, <1>13, <1>14,
       <1>15
    DEF NoticesNext

LEMMA NoticesAlways == NoticesSpec => []NoticesInv
  BY NoticesInitInv, NoticesStep, PTL DEF NoticesSpec

\* Every state of the notifications and the list is of the type NoticesTypeOK gives.
THEOREM NoticesTypeCorrect == NoticesSpec => []NoticesTypeOK
  <1>1. NoticesInv => NoticesTypeOK
    BY DEF NoticesInv
  <1> QED
    BY <1>1, NoticesAlways, PTL

\* The list of a dashboard loses none of the newest Limit and shows none of them read as
\* unread again, however pushes, fetches and clicks interleave, as long as nothing older
\* replaced it.
THEOREM NoticesShownStays == NoticesSpec => []ShownStays
  <1>1. NoticesInv => ShownStays
    BY DEF NoticesInv
  <1> QED
    BY <1>1, NoticesAlways, PTL

(* ------------------------------- MCBrowser ----------------------------- *)

\* Every state of the two parts side by side is of their types.
THEOREM BrowserTyped == MCSpec => []AllTyped
  <1>1. MCInit => SocketsInv /\ NoticesInv
    BY SocketsInitInv, NoticesInitInv DEF MCInit
  <1>2. [MCNext]_MCVars => [SocketsNext]_socketsVars /\ [NoticesNext]_noticeVars
    BY DEF MCNext, MCVars
  <1>3. SocketsInv /\ NoticesInv => AllTyped
    BY DEF SocketsInv, NoticesInv, AllTyped
  <1> QED
    BY <1>1, <1>2, <1>3, SocketsStep, NoticesStep, PTL DEF MCSpec
=============================================================================
