----------------------------- MODULE MCBrowser -----------------------------
(* The two parts of the browser that come right by timers and retries: the    *)
(* socket and the list of notifications, on small instances.  They share no   *)
(* state: each behaviour is of one of them, and the fairness of the other     *)
(* then asks for nothing, as none of its fair actions is possible.            *)
EXTENDS Sockets, NoticeList

VARIABLE part   \* the module at work

MCVars == <<socketsVars, noticeVars, part>>

MCInit == SocketsInit /\ NoticesInit /\ part \in {"sockets", "notices"}

MCNext == \/ part = "sockets" /\ SocketsNext /\ UNCHANGED <<noticeVars, part>>
          \/ part = "notices" /\ NoticesNext /\ UNCHANGED <<socketsVars, part>>

MCSpec == MCInit /\ [][MCNext]_MCVars /\ SocketsFairness /\ NoticesFairness

\* The types of the two modules.
AllTyped == SocketsTypeOK /\ NoticesTypeOK
=============================================================================
