------------------------------ MODULE Messages ------------------------------
(***************************************************************************)
(* The messages service: conversations of two users, the messages in them, *)
(* and the counters, the preview and the block a conversation keeps.       *)
(*                                                                         *)
(* Sending is an insert into messages and then an update of the            *)
(* conversation; reading is an update of the messages and then one of the  *)
(* conversation.  Each statement is atomic and the counter is incremented  *)
(* by the database, but nothing holds the two statements together, and     *)
(* nothing keeps two requests from creating the same conversation.         *)
(***************************************************************************)
EXTENDS Naturals, FiniteSets, Sequences

CONSTANTS
    Users,          \* users with an account
    Conversations,  \* primary keys the conversations table may give out
    Slots,          \* requests the server handles at the same time
    None,           \* SQL NULL
    MaxRequests     \* bound: requests in a run

ASSUME MessagesAssumption ==
    /\ None \notin Users
    /\ None \notin Conversations
    /\ MaxRequests \in Nat
    /\ IsFiniteSet(Slots)

VARIABLES
    conv,       \* conv[c]: the row, participants None when there is none
    log,        \* log[c]: the messages of c in the order of their inserts
    req,        \* req[s]: the request in slot s
    (* history, never read by the code *)
    begun,      \* requests begun so far, at most MaxRequests
    twins,      \* {c, d}: created with neither in the other's search
    muddled,    \* <<c, side>>: sending to side and its reading met, or one died
    overtaken,  \* conversations updated for a message after a later one, or not at all
    blocking    \* blocking[c]: users who have blocked c and not unblocked it since

history == <<twins, muddled, overtaken, blocking>>
vars == <<conv, log, req, begun, history>>

Sides == {1, 2}
Other(side) == 3 - side

\* party[1] is participantOne.  isBlocked and blockedBy are always set together:
\* blockedBy is not None exactly when isBlocked.  last is the message previewed
\* in lastMessageContent, 0 when there is none.
Conversation == [party : [Sides -> Users \union {None}], unread : [Sides -> Nat],
                 blockedBy : Users \union {None}, last : Nat]
NoConversation == [party |-> [i \in Sides |-> None], unread |-> [i \in Sides |-> 0],
                   blockedBy |-> None, last |-> 0]

Message == [sender : Users, read : BOOLEAN]

Stored == {c \in Conversations : conv[c].party[1] # None}

\* The conversations a search for the pair u and v may return, either way round.
Between(u, v) == {c \in Stored : \/ conv[c].party[1] = u /\ conv[c].party[2] = v
                                 \/ conv[c].party[1] = v /\ conv[c].party[2] = u}

Member(u, c) == \E i \in Sides : conv[c].party[i] = u

\* The code asks whether the user is participantOne and takes everybody else for
\* participantTwo.
SideOf(u, c) == IF conv[c].party[1] = u THEN 1 ELSE 2

\* at is the message a send has inserted; seen (history) the conversations there
\* were when a search found none.
Request == [pc : {"idle", "create", "lookup", "insert", "bump", "mark", "reset", "unblock"},
            op : {"none", "start", "send", "read", "unblock"},
            user : Users \union {None}, to : Users \union {None},
            conv : Conversations \union {None}, initial : BOOLEAN, at : Nat,
            seen : SUBSET Conversations]
Idle == [pc |-> "idle", op |-> "none", user |-> None, to |-> None, conv |-> None,
         initial |-> FALSE, at |-> 0, seen |-> {}]

Init ==
    /\ conv = [c \in Conversations |-> NoConversation]
    /\ log = [c \in Conversations |-> <<>>]
    /\ req = [s \in Slots |-> Idle]
    /\ begun = 0
    /\ twins = {}
    /\ muddled = {}
    /\ overtaken = {}
    /\ blocking = [c \in Conversations |-> {}]

\* Every request takes one of the MaxRequests.
Arrive ==
    /\ begun < MaxRequests
    /\ begun' = begun + 1

-----------------------------------------------------------------------------
(* createConversation and sendMessage look for a conversation, create it   *)
(* when there is none, and then insert a message.                          *)

Searching(pc, op, u, v, initial) ==
    [Idle EXCEPT !.pc = pc, !.op = op, !.user = u, !.to = v, !.initial = initial]

\* (mutant) the search only looks for conversations this user has started
StartOneWay(s, u, v, initial) ==
    LET found == {c \in Stored : conv[c].party[1] = u /\ conv[c].party[2] = v} IN
    /\ req[s].pc = "idle"
    /\ Arrive
    /\ u # v
    /\ \/ /\ found = {}
          /\ req' = [req EXCEPT ![s] =
                       [Searching("create", "start", u, v, initial) EXCEPT !.seen = Stored]]
       \/ \E c \in found :
              /\ initial
              /\ req' = [req EXCEPT ![s] =
                           [Searching("lookup", "start", u, v, TRUE) EXCEPT !.conv = c]]
    /\ UNCHANGED <<conv, log, history>>

\* createConversation: with an initial message it goes on as sendMessage to the
\* conversation it has found or created, and is checked again there.
StartConversation(s, u, v, initial) ==
    /\ req[s].pc = "idle"
    /\ Arrive
    /\ u # v
    /\ \/ /\ Between(u, v) = {}
          /\ req' = [req EXCEPT ![s] =
                       [Searching("create", "start", u, v, initial) EXCEPT !.seen = Stored]]
       \/ \E c \in Between(u, v) :
              /\ initial
              /\ req' = [req EXCEPT ![s] =
                           [Searching("lookup", "start", u, v, TRUE) EXCEPT !.conv = c]]
    /\ UNCHANGED <<conv, log, history>>

\* sendMessage without a conversationId.
SendTo(s, u, v) ==
    /\ req[s].pc = "idle"
    /\ Arrive
    /\ \/ /\ Between(u, v) = {}
          /\ req' = [req EXCEPT ![s] =
                       [Searching("create", "send", u, v, TRUE) EXCEPT !.seen = Stored]]
       \/ \E c \in Between(u, v) :
              req' = [req EXCEPT ![s] =
                        [Searching("insert", "send", u, v, TRUE) EXCEPT !.conv = c]]
    /\ UNCHANGED <<conv, log, history>>

\* sendMessage with a conversationId.
Send(s, u, c) ==
    /\ req[s].pc = "idle"
    /\ Arrive
    /\ c \in Stored
    /\ Member(u, c)
    /\ conv[c].blockedBy = None
    /\ req' = [req EXCEPT ![s] = [Searching("insert", "send", u, None, TRUE)
                                    EXCEPT !.conv = c]]
    /\ UNCHANGED <<conv, log, history>>

\* (mutant) the counters have no default
CreateUncounted(s, c) ==
    /\ req[s].pc = "create"
    /\ c \notin Stored
    /\ conv' = [conv EXCEPT ![c] = [party |-> [i \in Sides |-> IF i = 1 THEN req[s].user
                                                               ELSE req[s].to],
                                    unread |-> None, blockedBy |-> None, last |-> 0]]
    /\ req' = [req EXCEPT ![s] = Idle]
    /\ UNCHANGED <<begun, log, history>>

CreateConversation(s, c) ==
    /\ req[s].pc = "create"
    /\ c \notin Stored
    /\ conv' = [conv EXCEPT ![c] = [NoConversation EXCEPT
                                      !.party = [i \in Sides |-> IF i = 1 THEN req[s].user
                                                                 ELSE req[s].to]]]
    /\ twins' = twins \union {{c, d} : d \in Stored \ req[s].seen}
    /\ req' = [req EXCEPT ![s] =
                 IF ~@.initial THEN Idle
                 ELSE [@ EXCEPT !.pc = IF req[s].op = "start" THEN "lookup"
                                       ELSE "insert",
                                !.conv = c, !.seen = {}]]
    /\ UNCHANGED <<begun, log, muddled, overtaken, blocking>>

\* A start with an initial message is sendMessage with the conversation's id.
Lookup(s) ==
    /\ req[s].pc = "lookup"
    /\ req' = [req EXCEPT ![s] = IF conv[@.conv].blockedBy = None
                                 THEN [@ EXCEPT !.pc = "insert"] ELSE Idle]
    /\ UNCHANGED <<begun, conv, log, history>>

\* The side of c a message of u is counted for.
Receiver(u, c) == Other(SideOf(u, c))

\* Requests that have marked the messages of c to a side and not reset its counter.
Resetting(c, side) == {s \in Slots : /\ req[s].pc = "reset" /\ req[s].conv = c
                                     /\ SideOf(req[s].user, c) = side}

\* Requests that have inserted a message of c to a side and not counted it.
Counting(c, side) == {s \in Slots : /\ req[s].pc = "bump" /\ req[s].conv = c
                                    /\ Receiver(req[s].user, c) = side}

InsertMessage(s) ==
    LET c == req[s].conv
        side == Receiver(req[s].user, c)
    IN
    /\ req[s].pc = "insert"
    /\ log' = [log EXCEPT ![c] = Append(@, [sender |-> req[s].user, read |-> FALSE])]
    /\ req' = [req EXCEPT ![s] = [@ EXCEPT !.pc = "bump", !.at = Len(log[c]) + 1]]
    /\ muddled' = IF Resetting(c, side) # {} THEN muddled \union {<<c, side>>} ELSE muddled
    /\ UNCHANGED <<begun, conv, twins, overtaken, blocking>>

\* (mutant) the sender's own counter is incremented
BumpSender(s) ==
    LET c == req[s].conv IN
    /\ req[s].pc = "bump"
    /\ conv' = [conv EXCEPT ![c] = [@ EXCEPT !.last = req[s].at,
                                             !.unread[SideOf(req[s].user, c)] = @ + 1]]
    /\ req' = [req EXCEPT ![s] = Idle]
    /\ UNCHANGED <<begun, log, history>>

\* (mutant) only the counter is updated
BumpCounterOnly(s) ==
    LET c == req[s].conv IN
    /\ req[s].pc = "bump"
    /\ conv' = [conv EXCEPT ![c] = [@ EXCEPT !.unread[Receiver(req[s].user, c)] = @ + 1]]
    /\ req' = [req EXCEPT ![s] = Idle]
    /\ UNCHANGED <<begun, log, history>>

Bump(s) ==
    LET c == req[s].conv
        side == Receiver(req[s].user, c)
    IN
    /\ req[s].pc = "bump"
    /\ conv' = [conv EXCEPT ![c] = [conv[c] EXCEPT !.last = req[s].at,
                                                   !.unread[side] = @ + 1]]
    /\ req' = [req EXCEPT ![s] = Idle]
    /\ overtaken' = IF req[s].at < conv[c].last THEN overtaken \union {c} ELSE overtaken
    /\ UNCHANGED <<begun, log, twins, muddled, blocking>>

-----------------------------------------------------------------------------
(* getConversation, for a member, and markAsRead, for whoever asks: the    *)
(* messages of the other party are marked, then the counter is reset.      *)

Read(s, u, c) ==
    /\ req[s].pc = "idle"
    /\ Arrive
    /\ c \in Stored
    /\ req' = [req EXCEPT ![s] = [Idle EXCEPT !.pc = "mark", !.op = "read", !.user = u,
                                              !.conv = c]]
    /\ UNCHANGED <<conv, log, history>>

MarkMessages(s) ==
    LET c == req[s].conv
        side == SideOf(req[s].user, c)
        sender == conv[c].party[Other(side)]
    IN
    /\ req[s].pc = "mark"
    /\ log' = [log EXCEPT ![c] = [n \in DOMAIN @ |->
                 IF @[n].sender = sender THEN [@[n] EXCEPT !.read = TRUE] ELSE @[n]]]
    /\ req' = [req EXCEPT ![s] = [@ EXCEPT !.pc = "reset"]]
    /\ muddled' = IF Counting(c, side) # {} THEN muddled \union {<<c, side>>} ELSE muddled
    /\ UNCHANGED <<begun, conv, twins, overtaken, blocking>>

ResetCounter(s) ==
    LET c == req[s].conv IN
    /\ req[s].pc = "reset"
    /\ conv' = [conv EXCEPT ![c] = [@ EXCEPT !.unread[SideOf(req[s].user, c)] = 0]]
    /\ req' = [req EXCEPT ![s] = Idle]
    /\ UNCHANGED <<begun, log, history>>

-----------------------------------------------------------------------------
(* blockUser overwrites whose block it is; unblockUser reads, then writes. *)

BlockUser(u, c) ==
    /\ Arrive
    /\ c \in Stored
    /\ Member(u, c)
    /\ conv' = [conv EXCEPT ![c] = [@ EXCEPT !.blockedBy = u]]
    /\ blocking' = [blocking EXCEPT ![c] = @ \union {u}]
    /\ UNCHANGED <<log, req, twins, muddled, overtaken>>

UnblockUser(s, u, c) ==
    /\ req[s].pc = "idle"
    /\ Arrive
    /\ c \in Stored
    /\ conv[c].blockedBy = u
    /\ req' = [req EXCEPT ![s] = [Idle EXCEPT !.pc = "unblock", !.op = "unblock", !.user = u,
                                              !.conv = c]]
    /\ UNCHANGED <<conv, log, history>>

LiftBlock(s) ==
    LET c == req[s].conv IN
    /\ req[s].pc = "unblock"
    /\ conv' = [conv EXCEPT ![c] = [@ EXCEPT !.blockedBy = None]]
    /\ blocking' = [blocking EXCEPT ![c] = @ \ {req[s].user}]
    /\ req' = [req EXCEPT ![s] = Idle]
    /\ UNCHANGED <<begun, log, twins, muddled, overtaken>>

-----------------------------------------------------------------------------

\* A database call fails or the process dies: the message stays uncounted and
\* unpreviewed, or the counter of the messages marked stays as it is.
Abort(s) ==
    LET c == req[s].conv
        u == req[s].user
    IN
    /\ req[s].pc # "idle"
    /\ req' = [req EXCEPT ![s] = Idle]
    /\ overtaken' = IF req[s].pc = "bump" THEN overtaken \union {c} ELSE overtaken
    /\ muddled' = CASE req[s].pc = "bump" -> muddled \union {<<c, Receiver(u, c)>>}
                    [] req[s].pc = "reset" -> muddled \union {<<c, SideOf(u, c)>>}
                    [] OTHER -> muddled
    /\ UNCHANGED <<begun, conv, log, twins, blocking>>

Next ==
    \/ \E s \in Slots, u, v \in Users :
           \/ \E initial \in BOOLEAN : StartConversation(s, u, v, initial)
           \/ SendTo(s, u, v)
    \/ \E s \in Slots, u \in Users, c \in Conversations :
           Send(s, u, c) \/ Read(s, u, c) \/ UnblockUser(s, u, c)
    \/ \E u \in Users, c \in Conversations : BlockUser(u, c)
    \/ \E s \in Slots :
           \/ \E c \in Conversations : CreateConversation(s, c)
           \/ Lookup(s) \/ InsertMessage(s) \/ Bump(s)
           \/ MarkMessages(s) \/ ResetCounter(s) \/ LiftBlock(s)
           \/ Abort(s)

Spec == Init /\ [][Next]_vars

-----------------------------------------------------------------------------
(* Properties                                                              *)

TypeOK ==
    /\ conv \in [Conversations -> Conversation]
    /\ log \in [Conversations -> Seq(Message)]
    /\ req \in [Slots -> Request]
    /\ begun \in Nat
    /\ twins \subseteq SUBSET Conversations
    /\ muddled \subseteq Conversations \X Sides
    /\ overtaken \subseteq Conversations
    /\ blocking \in [Conversations -> SUBSET Users]

\* Two users have two conversations only when each was created while the other's
\* creator had already searched in vain, whoever began and whichever way round.
OnePerPair ==
    \A c, d \in Stored :
        /\ c # d
        /\ {conv[c].party[i] : i \in Sides} = {conv[d].party[i] : i \in Sides}
        => {c, d} \in twins

Unread(c, side) ==
    Cardinality({n \in DOMAIN log[c] : /\ log[c][n].sender = conv[c].party[Other(side)]
                                       /\ ~log[c][n].read})

\* The counter a participant sees is the number of messages from the other that
\* are not marked read, less those being counted, unless a message was inserted or
\* counted while the conversation was being read, or a request died between its
\* two statements.
UnreadCounterRight ==
    \A c \in Stored, side \in Sides :
        /\ conv[c].party[1] # conv[c].party[2]
        /\ <<c, side>> \notin muddled
        /\ Resetting(c, side) = {}
        => Unread(c, side) = conv[c].unread[side] + Cardinality(Counting(c, side))

\* The preview is of the newest message once all sends are done, unless an update
\* of the conversation came after that of a later message, or never.
PreviewIsNewest ==
    \A c \in Stored \ overtaken :
        /\ conv[c].last <= Len(log[c])
        /\ (\A s \in Slots : ~(req[s].pc = "bump" /\ req[s].conv = c)) =>
               conv[c].last = Len(log[c])

\* unblockUser says only the user who blocked can unblock: a conversation stays
\* blocked while a user who has blocked it has not unblocked it.
BlockStands ==
    \A c \in Conversations : blocking[c] # {} => conv[c].blockedBy # None
=============================================================================
