---------------------------- MODULE MessagesProofs ----------------------------
(***************************************************************************)
(* Proofs about Messages, for any number of users, conversations and       *)
(* concurrent requests.                                                    *)
(***************************************************************************)
EXTENDS Messages, FiniteSetTheorems, TLAPS

(* ------------------------------ What a request knows -------------------- *)

\* Requests that are about a conversation, and those that bring a message.
About == {"lookup", "insert", "bump", "mark", "reset", "unblock"}
Sending == {"lookup", "insert", "bump"}

Sound(q) ==
    /\ q.pc = "create" => q.user \in Users /\ q.to \in Users
    /\ q.pc \in About => q.user \in Users /\ q.conv \in Stored
    /\ q.pc \in Sending => Member(q.user, q.conv)

\* A stored conversation has two participants, another has no messages.
Tables == \A c \in Conversations :
    IF c \in Stored THEN \A i \in Sides : conv[c].party[i] \in Users
                    ELSE conv[c] = NoConversation /\ log[c] = <<>>

Typed == TypeOK /\ Tables /\ \A s \in Slots : Sound(req[s])

LEMMA IdleType == Idle \in Request /\ NoConversation \in Conversation
  BY DEF Idle, Request, NoConversation, Conversation

LEMMA SideTypes ==
    ASSUME NEW u, NEW c
    PROVE  SideOf(u, c) \in Sides /\ Receiver(u, c) \in Sides
  BY DEF SideOf, Receiver, Other, Sides

LEMMA OtherSide ==
    ASSUME NEW side \in Sides
    PROVE  /\ Other(side) \in Sides /\ Other(side) # side /\ Other(Other(side)) = side
           /\ \A i \in Sides : i = side \/ i = Other(side)
  BY DEF Other, Sides

LEMMA TypedInit == Init => Typed
  <1> SUFFICES ASSUME Init PROVE Typed
    OBVIOUS
  <1>1. TypeOK
    BY IdleType DEF Init, TypeOK
  <1>2. Stored = {}
    BY DEF Init, Stored, NoConversation, Sides
  <1>3. Tables
    BY <1>2 DEF Init, Tables
  <1>4. \A s \in Slots : Sound(req[s])
    BY DEF Init, Sound, Idle, About, Sending
  <1> QED
    BY <1>1, <1>3, <1>4 DEF Typed

(* ---------------------- The first part of the handlers ------------------ *)

\* Slot s takes a request, q when the checks are done.
Began(s, q) ==
    /\ req[s].pc = "idle"
    /\ begun' = begun + 1
    /\ req' = [req EXCEPT ![s] = q]
    /\ UNCHANGED <<conv, log, history>>

Searched(q) == q.pc = "create" => q.seen = Stored /\ Between(q.user, q.to) = {}

Handle(s) ==
    \/ \E u, v \in Users :
           \/ \E initial \in BOOLEAN : StartConversation(s, u, v, initial)
           \/ SendTo(s, u, v)
    \/ \E u \in Users, c \in Conversations :
           Send(s, u, c) \/ Read(s, u, c) \/ UnblockUser(s, u, c)

LEMMA BetweenMembers ==
    ASSUME NEW u \in Users, NEW v \in Users, NEW c \in Between(u, v)
    PROVE  c \in Stored /\ c \in Conversations /\ Member(u, c)
  BY DEF Between, Stored, Member, Sides

LEMMA Begins ==
    ASSUME Typed, NEW s \in Slots, Handle(s)
    PROVE  \E q \in Request :
               /\ Began(s, q) /\ Sound(q) /\ Searched(q)
               /\ q.pc \in {"create", "lookup", "insert", "mark", "unblock"}
  <1>1. ASSUME NEW u \in Users, NEW v \in Users, NEW initial \in BOOLEAN,
               StartConversation(s, u, v, initial)
        PROVE  \E q \in Request :
                   /\ Began(s, q) /\ Sound(q) /\ Searched(q)
                   /\ q.pc \in {"create", "lookup", "insert", "mark", "unblock"}
    <2>1. CASE Between(u, v) = {} /\ req' = [req EXCEPT ![s] =
                   [Searching("create", "start", u, v, initial) EXCEPT !.seen = Stored]]
      <3> DEFINE q == [Searching("create", "start", u, v, initial) EXCEPT !.seen = Stored]
      <3>1. /\ q.pc = "create" /\ q.user = u /\ q.to = v /\ q.seen = Stored
        BY DEF Searching, Idle
      <3>2. q \in Request
        BY DEF Searching, Idle, Request, Stored
      <3>3. Began(s, q)
        BY <1>1, <2>1 DEF Began, StartConversation, Arrive
      <3> HIDE DEF q
      <3>4. Sound(q) /\ Searched(q)
        BY <2>1, <3>1 DEF Sound, Searched, About, Sending
      <3> QED
        BY <3>1, <3>2, <3>3, <3>4
    <2>2. CASE \E c \in Between(u, v) : req' = [req EXCEPT ![s] =
                   [Searching("lookup", "start", u, v, TRUE) EXCEPT !.conv = c]]
      <3> PICK c \in Between(u, v) : req' = [req EXCEPT ![s] =
                   [Searching("lookup", "start", u, v, TRUE) EXCEPT !.conv = c]]
        BY <2>2
      <3> DEFINE q == [Searching("lookup", "start", u, v, TRUE) EXCEPT !.conv = c]
      <3>1. /\ q.pc = "lookup" /\ q.user = u /\ q.conv = c
        BY DEF Searching, Idle
      <3>2. q \in Request
        BY BetweenMembers DEF Searching, Idle, Request
      <3>3. Began(s, q)
        BY <1>1 DEF Began, StartConversation, Arrive
      <3> HIDE DEF q
      <3>4. Sound(q) /\ Searched(q)
        BY <3>1, BetweenMembers DEF Sound, Searched, About, Sending
      <3> QED
        BY <3>1, <3>2, <3>3, <3>4
    <2> QED
      BY <1>1, <2>1, <2>2 DEF StartConversation
  <1>2. ASSUME NEW u \in Users, NEW v \in Users, SendTo(s, u, v)
        PROVE  \E q \in Request :
                   /\ Began(s, q) /\ Sound(q) /\ Searched(q)
                   /\ q.pc \in {"create", "lookup", "insert", "mark", "unblock"}
    <2>1. CASE Between(u, v) = {} /\ req' = [req EXCEPT ![s] =
                   [Searching("create", "send", u, v, TRUE) EXCEPT !.seen = Stored]]
      <3> DEFINE q == [Searching("create", "send", u, v, TRUE) EXCEPT !.seen = Stored]
      <3>1. /\ q.pc = "create" /\ q.user = u /\ q.to = v /\ q.seen = Stored
        BY DEF Searching, Idle
      <3>2. q \in Request
        BY DEF Searching, Idle, Request, Stored
      <3>3. Began(s, q)
        BY <1>2, <2>1 DEF Began, SendTo, Arrive
      <3> HIDE DEF q
      <3>4. Sound(q) /\ Searched(q)
        BY <2>1, <3>1 DEF Sound, Searched, About, Sending
      <3> QED
        BY <3>1, <3>2, <3>3, <3>4
    <2>2. CASE \E c \in Between(u, v) : req' = [req EXCEPT ![s] =
                   [Searching("insert", "send", u, v, TRUE) EXCEPT !.conv = c]]
      <3> PICK c \in Between(u, v) : req' = [req EXCEPT ![s] =
                   [Searching("insert", "send", u, v, TRUE) EXCEPT !.conv = c]]
        BY <2>2
      <3> DEFINE q == [Searching("insert", "send", u, v, TRUE) EXCEPT !.conv = c]
      <3>1. /\ q.pc = "insert" /\ q.user = u /\ q.conv = c
        BY DEF Searching, Idle
      <3>2. q \in Request
        BY BetweenMembers DEF Searching, Idle, Request
      <3>3. Began(s, q)
        BY <1>2 DEF Began, SendTo, Arrive
      <3> HIDE DEF q
      <3>4. Sound(q) /\ Searched(q)
        BY <3>1, BetweenMembers DEF Sound, Searched, About, Sending
      <3> QED
        BY <3>1, <3>2, <3>3, <3>4
    <2> QED
      BY <1>2, <2>1, <2>2 DEF SendTo
  <1>3. ASSUME NEW u \in Users, NEW c \in Conversations, Send(s, u, c)
        PROVE  \E q \in Request :
                   /\ Began(s, q) /\ Sound(q) /\ Searched(q)
                   /\ q.pc \in {"create", "lookup", "insert", "mark", "unblock"}
    <2> DEFINE q == [Searching("insert", "send", u, None, TRUE) EXCEPT !.conv = c]
    <2>1. /\ q.pc = "insert" /\ q.user = u /\ q.conv = c
      BY DEF Searching, Idle
    <2>2. q \in Request
      BY DEF Searching, Idle, Request
    <2>3. Began(s, q)
      BY <1>3 DEF Began, Send, Arrive
    <2> HIDE DEF q
    <2>4. Sound(q) /\ Searched(q)
      BY <1>3, <2>1 DEF Send, Sound, Searched, About, Sending
    <2> QED
      BY <2>1, <2>2, <2>3, <2>4
  <1>4. ASSUME NEW u \in Users, NEW c \in Conversations, Read(s, u, c)
        PROVE  \E q \in Request :
                   /\ Began(s, q) /\ Sound(q) /\ Searched(q)
                   /\ q.pc \in {"create", "lookup", "insert", "mark", "unblock"}
    <2> DEFINE q == [Idle EXCEPT !.pc = "mark", !.op = "read", !.user = u, !.conv = c]
    <2>1. /\ q.pc = "mark" /\ q.user = u /\ q.conv = c
      BY DEF Idle
    <2>2. q \in Request
      BY DEF Idle, Request
    <2>3. Began(s, q)
      BY <1>4 DEF Began, Read, Arrive
    <2> HIDE DEF q
    <2>4. Sound(q) /\ Searched(q)
      BY <1>4, <2>1 DEF Read, Sound, Searched, About, Sending
    <2> QED
      BY <2>1, <2>2, <2>3, <2>4
  <1>5. ASSUME NEW u \in Users, NEW c \in Conversations, UnblockUser(s, u, c)
        PROVE  \E q \in Request :
                   /\ Began(s, q) /\ Sound(q) /\ Searched(q)
                   /\ q.pc \in {"create", "lookup", "insert", "mark", "unblock"}
    <2> DEFINE q == [Idle EXCEPT !.pc = "unblock", !.op = "unblock", !.user = u, !.conv = c]
    <2>1. /\ q.pc = "unblock" /\ q.user = u /\ q.conv = c
      BY DEF Idle
    <2>2. q \in Request
      BY DEF Idle, Request
    <2>3. Began(s, q)
      BY <1>5 DEF Began, UnblockUser, Arrive
    <2> HIDE DEF q
    <2>4. Sound(q) /\ Searched(q)
      BY <1>5, <2>1 DEF UnblockUser, Sound, Searched, About, Sending
    <2> QED
      BY <2>1, <2>2, <2>3, <2>4
  <1> QED
    BY <1>1, <1>2, <1>3, <1>4, <1>5 DEF Handle

(* --------------------------- Steps that keep the parties ---------------- *)

\* Only CreateConversation gives a conversation participants.
SameParties == \A c \in Conversations : conv'[c].party = conv[c].party

LEMMA SameSides ==
    ASSUME SameParties
    PROVE  /\ Stored' = Stored
           /\ \A u, c : c \in Conversations =>
                  /\ Member(u, c)' <=> Member(u, c)
                  /\ SideOf(u, c)' = SideOf(u, c)
                  /\ Receiver(u, c)' = Receiver(u, c)
  BY DEF SameParties, Stored, Member, SideOf, Receiver, Other, Sides

\* Slot s goes on as q, with the parties unchanged.
LEMMA Progress ==
    ASSUME Typed, TypeOK', Tables', SameParties, NEW s \in Slots, NEW q \in Request,
           req' = [req EXCEPT ![s] = q], Sound(q)
    PROVE  Typed'
  <1>1. \A t \in Slots : /\ req'[t] = IF t = s THEN q ELSE req[t]
                         /\ Sound(req[t]) /\ req[t] \in Request
    BY DEF Typed, TypeOK
  <1>2. ASSUME NEW t \in Slots
        PROVE  Sound(req[t])'
    <2>1. CASE t = s
      BY <1>1, <2>1, SameSides DEF Sound, About, Sending, Stored
    <2>2. CASE t # s
      BY <1>1, <2>2, SameSides DEF Sound, About, Sending, Stored
    <2> QED
      BY <2>1, <2>2
  <1> QED
    BY <1>2 DEF Typed

\* Row c becomes r, another stored conversation or none having changed.
Wrote(c, r) ==
    /\ c \in Stored /\ r \in Conversation /\ r.party = conv[c].party
    /\ conv' = [conv EXCEPT ![c] = r]

LEMMA WroteRow ==
    ASSUME Typed, NEW c, NEW r, Wrote(c, r)
    PROVE  /\ SameParties /\ conv' \in [Conversations -> Conversation]
           /\ conv'[c] = r /\ \A d \in Conversations \ {c} : conv'[d] = conv[d]
           /\ log' = log => Tables'
  <1>1. conv \in [Conversations -> Conversation] /\ c \in Conversations
    BY DEF Wrote, Stored, Typed, TypeOK
  <1>2. /\ conv' \in [Conversations -> Conversation] /\ conv'[c] = r
        /\ \A d \in Conversations \ {c} : conv'[d] = conv[d]
    BY <1>1 DEF Wrote
  <1>3. SameParties
    BY <1>2 DEF Wrote, SameParties
  <1>4. ASSUME log' = log PROVE Tables'
    BY <1>2, <1>3, <1>4, SameSides DEF Wrote, Typed, Tables, SameParties
  <1> QED
    BY <1>2, <1>3, <1>4

(* -------------------------- What each handler does ---------------------- *)

BumpRow(s) ==
    LET side == Receiver(req[s].user, req[s].conv) IN
    [conv[req[s].conv] EXCEPT !.last = req[s].at, !.unread[side] = @ + 1]

ResetRow(s) == [conv[req[s].conv] EXCEPT !.unread[SideOf(req[s].user, req[s].conv)] = 0]

LEMMA RowTypes ==
    ASSUME Typed, NEW s \in Slots, req[s].pc \in About
    PROVE  /\ req[s].conv \in Stored /\ req[s].conv \in Conversations
           /\ req[s].user \in Users /\ req[s] \in Request
           /\ conv[req[s].conv] \in Conversation
           /\ Sound(Idle)
           /\ req[s].pc \in Sending => Member(req[s].user, req[s].conv)
  BY DEF Typed, TypeOK, Sound, Stored, Idle, About, Sending

LEMMA BumpWrites ==
    ASSUME Typed, NEW s \in Slots, Bump(s)
    PROVE  LET c == req[s].conv
               side == Receiver(req[s].user, c)
           IN /\ Wrote(c, BumpRow(s))
              /\ BumpRow(s).last = req[s].at
              /\ BumpRow(s).unread = [conv[c].unread EXCEPT ![side] = @ + 1]
  <1> DEFINE c == req[s].conv
             side == Receiver(req[s].user, c)
             old == conv[c]
  <1>1. c \in Stored /\ old \in Conversation /\ side \in Sides /\ req[s].at \in Nat
    <2>1. req[s].pc \in About
      BY DEF Bump, About
    <2> QED
      BY <2>1, RowTypes, SideTypes DEF Request
  <1>2. [old.unread EXCEPT ![side] = @ + 1] \in [Sides -> Nat]
    BY <1>1 DEF Conversation
  <1>3. \A r : r = BumpRow(s) => /\ r.party = old.party /\ r.last = req[s].at
                                /\ r.unread = [old.unread EXCEPT ![side] = @ + 1]
                                /\ r \in Conversation
    BY <1>1, <1>2 DEF BumpRow, Conversation
  <1>4. conv' = [conv EXCEPT ![c] = BumpRow(s)]
    BY DEF Bump, BumpRow
  <1> QED
    BY <1>1, <1>3, <1>4 DEF Wrote

LEMMA ResetWrites ==
    ASSUME Typed, NEW s \in Slots, ResetCounter(s)
    PROVE  LET c == req[s].conv
               side == SideOf(req[s].user, c)
           IN /\ Wrote(c, ResetRow(s))
              /\ ResetRow(s).last = conv[c].last
              /\ ResetRow(s).unread = [conv[c].unread EXCEPT ![side] = 0]
  <1> DEFINE c == req[s].conv
             side == SideOf(req[s].user, c)
             old == conv[c]
  <1>1. c \in Stored /\ old \in Conversation /\ side \in Sides
    <2>1. req[s].pc \in About
      BY DEF ResetCounter, About
    <2> QED
      BY <2>1, RowTypes, SideTypes
  <1>2. [old.unread EXCEPT ![side] = 0] \in [Sides -> Nat]
    BY <1>1 DEF Conversation
  <1>3. \A r : r = ResetRow(s) => /\ r.party = old.party /\ r.last = old.last
                                 /\ r.unread = [old.unread EXCEPT ![side] = 0]
                                 /\ r \in Conversation
    BY <1>1, <1>2 DEF ResetRow, Conversation
  <1>4. conv' = [conv EXCEPT ![c] = ResetRow(s)]
    BY DEF ResetCounter, ResetRow
  <1> QED
    BY <1>1, <1>3, <1>4 DEF Wrote

LEMMA BlockWrites ==
    ASSUME Typed, NEW c \in Stored, NEW u \in Users \union {None},
           conv' = [conv EXCEPT ![c] = [@ EXCEPT !.blockedBy = u]]
    PROVE  LET r == [conv[c] EXCEPT !.blockedBy = u] IN
           Wrote(c, r) /\ r.last = conv[c].last /\ r.unread = conv[c].unread
  <1>1. conv[c] \in Conversation
    BY DEF Typed, TypeOK, Stored
  <1> QED
    BY <1>1 DEF Wrote, Conversation

\* The message a send inserts, and the messages of a conversation when those of
\* sender are marked.
Sent(s) == [sender |-> req[s].user, read |-> FALSE]
Marked(c, sender) == [n \in DOMAIN log[c] |->
    IF log[c][n].sender = sender THEN [log[c][n] EXCEPT !.read = TRUE] ELSE log[c][n]]

LEMMA LogStep ==
    ASSUME Typed, conv' = conv, NEW c \in Stored, NEW l \in Seq(Message),
           log' = [log EXCEPT ![c] = l]
    PROVE  /\ log' \in [Conversations -> Seq(Message)] /\ Tables' /\ SameParties
           /\ log'[c] = l /\ \A d \in Conversations \ {c} : log'[d] = log[d]
  <1>1. /\ c \in Conversations /\ log \in [Conversations -> Seq(Message)]
        /\ Stored' = Stored
    BY DEF Stored, Typed, TypeOK
  <1>2. /\ log' \in [Conversations -> Seq(Message)]
        /\ log'[c] = l /\ \A d \in Conversations \ {c} : log'[d] = log[d]
    BY <1>1
  <1> QED
    BY <1>1, <1>2 DEF Typed, Tables, SameParties

LEMMA MarkedType ==
    ASSUME Typed, NEW c \in Conversations, NEW sender
    PROVE  Marked(c, sender) \in Seq(Message) /\ Len(Marked(c, sender)) = Len(log[c])
  <1>1. log[c] \in Seq(Message)
    BY DEF Typed, TypeOK
  <1>2. \A n \in 1..Len(log[c]) : log[c][n] \in Message
    BY <1>1
  <1>3. \A n \in 1..Len(log[c]) : [log[c][n] EXCEPT !.read = TRUE] \in Message
    BY <1>2 DEF Message
  <1>4. Marked(c, sender) \in [1..Len(log[c]) -> Message]
    BY <1>1, <1>2, <1>3 DEF Marked
  <1> QED
    BY <1>1, <1>4

(* --------------------------------- Typing ------------------------------- *)

\* What the history variables keep their type under.
HistoryType ==
    /\ twins \subseteq SUBSET Conversations
    /\ muddled \subseteq Conversations \X Sides
    /\ overtaken \subseteq Conversations
    /\ blocking \in [Conversations -> SUBSET Users]

LEMMA TypedHandle ==
    ASSUME Typed, NEW s \in Slots, Handle(s)
    PROVE  Typed'
  <1>1. PICK q \in Request : Began(s, q) /\ Sound(q)
    BY Begins
  <1>2. TypeOK'
    BY <1>1 DEF Began, Typed, TypeOK, history
  <1>3. Tables' /\ SameParties
    BY <1>1 DEF Began, Typed, Tables, Stored, SameParties
  <1> QED
    BY <1>1, <1>2, <1>3, Progress DEF Began

LEMMA TypedCreate ==
    ASSUME Typed, NEW s \in Slots, NEW c \in Conversations, CreateConversation(s, c)
    PROVE  Typed'
  <1> DEFINE party == [i \in Sides |-> IF i = 1 THEN req[s].user ELSE req[s].to]
             r == [NoConversation EXCEPT !.party = party]
             q == [req[s] EXCEPT !.pc = IF req[s].op = "start" THEN "lookup" ELSE "insert",
                                 !.conv = c, !.seen = {}]
  <1>1. /\ req[s] \in Request /\ req[s].pc = "create" /\ c \notin Stored
        /\ req[s].user \in Users /\ req[s].to \in Users
    BY DEF CreateConversation, Typed, TypeOK, Sound
  <1>2. /\ r \in Conversation /\ r.party = party
        /\ \A i \in Sides : r.party[i] \in Users
    BY <1>1, IdleType DEF Conversation, NoConversation
  <1>3. /\ q \in Request /\ q.conv = c /\ q.user = req[s].user
        /\ q.pc \in {"lookup", "insert"}
    BY <1>1 DEF Request
  <1>4. conv' = [conv EXCEPT ![c] = r] /\ log' = log
    BY DEF CreateConversation
  <1>5. req' = [req EXCEPT ![s] = Idle] \/ req' = [req EXCEPT ![s] = q]
    BY DEF CreateConversation
  <1>6. r.party[1] = req[s].user
    BY <1>2 DEF Sides
  <1> HIDE DEF r, q
  <1>7. /\ conv' \in [Conversations -> Conversation] /\ conv'[c] = r
        /\ \A d \in Conversations \ {c} : conv'[d] = conv[d]
    BY <1>2, <1>4 DEF Typed, TypeOK
  <1>8. Stored' = Stored \union {c}
    BY <1>1, <1>2, <1>7, MessagesAssumption DEF Stored, Sides
  <1>9. req' \in [Slots -> Request]
    BY <1>3, <1>5, IdleType DEF Typed, TypeOK
  <1>10. TypeOK'
    <2>1. twins' \subseteq SUBSET Conversations
      <3> DEFINE new == {{c, d} : d \in Stored \ req[s].seen}
      <3>1. new \subseteq SUBSET Conversations
        BY DEF Stored
      <3>2. twins' = twins \union new /\ twins \subseteq SUBSET Conversations
        BY DEF CreateConversation, Typed, TypeOK
      <3> HIDE DEF new
      <3> QED
        BY <3>1, <3>2
    <2> QED
      BY <2>1, <1>7, <1>9 DEF CreateConversation, Typed, TypeOK
  <1>11. Tables'
    BY <1>2, <1>4, <1>7, <1>8 DEF Typed, Tables
  <1>12. ASSUME NEW t \in Slots
         PROVE  Sound(req[t])'
    <2>1. \A u : \A d \in Stored : d \in Stored' /\ (Member(u, d) => Member(u, d)')
      BY <1>1, <1>7, <1>8 DEF Member, Stored
    <2>2. CASE t # s
      <3>1. req'[t] = req[t] /\ Sound(req[t])
        BY <1>5, <2>2 DEF Typed, TypeOK
      <3> QED
        BY <2>1, <3>1 DEF Sound, About, Sending
    <2>3. CASE t = s /\ req' = [req EXCEPT ![s] = Idle]
      BY <2>3, IdleType DEF Sound, Idle, About, Sending, Typed, TypeOK
    <2>4. CASE t = s /\ req' = [req EXCEPT ![s] = q]
      <3>1. req'[t] = q
        BY <2>4 DEF Typed, TypeOK
      <3>2. \E i \in Sides : conv'[c].party[i] = q.user
        BY <1>3, <1>6, <1>7 DEF Sides
      <3> QED
        BY <1>1, <1>3, <1>8, <3>1, <3>2 DEF Sound, Member, About, Sending
    <2> QED
      BY <1>5, <2>2, <2>3, <2>4
  <1> QED
    BY <1>10, <1>11, <1>12 DEF Typed

LEMMA TypedInsert ==
    ASSUME Typed, NEW s \in Slots, InsertMessage(s)
    PROVE  Typed'
  <1> DEFINE c == req[s].conv
             side == Receiver(req[s].user, c)
             q == [req[s] EXCEPT !.pc = "bump", !.at = Len(log[c]) + 1]
  <1>1. /\ req[s].pc = "insert" /\ conv' = conv
        /\ log' = [log EXCEPT ![c] = Append(log[c], Sent(s))]
        /\ req' = [req EXCEPT ![s] = q]
    BY DEF InsertMessage, Sent
  <1>2. c \in Stored /\ c \in Conversations /\ req[s].user \in Users /\ req[s] \in Request
        /\ Member(req[s].user, c)
    BY <1>1, RowTypes DEF About, Sending
  <1>3. log[c] \in Seq(Message) /\ Sent(s) \in Message
    BY <1>2 DEF Typed, TypeOK, Sent, Message
  <1>4. Append(log[c], Sent(s)) \in Seq(Message) /\ Len(log[c]) \in Nat
    BY <1>3
  <1>5. /\ q \in Request /\ q.pc = "bump" /\ q.conv = c /\ q.user = req[s].user
    <2>1. ASSUME NEW n \in Nat, NEW p, p = [req[s] EXCEPT !.pc = "bump", !.at = n]
          PROVE  p \in Request /\ p.pc = "bump" /\ p.conv = req[s].conv
                 /\ p.user = req[s].user
      BY <1>2, <2>1 DEF Request
    <2>2. Len(log[c]) + 1 \in Nat
      BY <1>4
    <2> QED
      BY <2>1, <2>2
  <1>6. side \in Sides
    BY SideTypes
  <1> HIDE DEF q
  <1>7. TypeOK' /\ Tables' /\ SameParties
    <2>1. log' \in [Conversations -> Seq(Message)] /\ Tables' /\ SameParties
      BY <1>1, <1>2, <1>4, LogStep
    <2>2. muddled' \subseteq Conversations \X Sides
      BY <1>2, <1>6 DEF InsertMessage, Typed, TypeOK
    <2> QED
      BY <1>1, <1>5, <2>1, <2>2 DEF InsertMessage, Typed, TypeOK
  <1>8. Sound(q)
    BY <1>2, <1>5 DEF Sound, About, Sending
  <1> QED
    BY <1>1, <1>5, <1>7, <1>8, Progress

LEMMA TypedMark ==
    ASSUME Typed, NEW s \in Slots, MarkMessages(s)
    PROVE  Typed'
  <1> DEFINE c == req[s].conv
             side == SideOf(req[s].user, c)
             l == Marked(c, conv[c].party[Other(side)])
             q == [req[s] EXCEPT !.pc = "reset"]
  <1>1. /\ req[s].pc = "mark" /\ conv' = conv
        /\ log' = [log EXCEPT ![c] = l]
        /\ req' = [req EXCEPT ![s] = q]
    BY DEF MarkMessages, Marked
  <1>2. c \in Stored /\ c \in Conversations /\ req[s].user \in Users /\ req[s] \in Request
    BY <1>1, RowTypes DEF About, Sending
  <1>3. l \in Seq(Message)
    BY <1>2, MarkedType
  <1>4. /\ q \in Request /\ q.pc = "reset" /\ q.conv = c /\ q.user = req[s].user
    BY <1>2 DEF Request
  <1>5. side \in Sides
    BY SideTypes
  <1> HIDE DEF q, l
  <1>6. TypeOK' /\ Tables' /\ SameParties
    <2>1. log' \in [Conversations -> Seq(Message)] /\ Tables' /\ SameParties
      BY <1>1, <1>2, <1>3, LogStep
    <2>2. muddled' \subseteq Conversations \X Sides
      <3>1. muddled' \in {muddled, muddled \union {<<c, side>>}}
        BY DEF MarkMessages
      <3>2. muddled \subseteq Conversations \X Sides
        BY DEF Typed, TypeOK
      <3> QED
        BY <1>2, <1>5, <3>1, <3>2
    <2>3. UNCHANGED <<begun, twins, overtaken, blocking>>
      BY DEF MarkMessages
    <2> QED
      BY <1>1, <1>4, <2>1, <2>2, <2>3 DEF Typed, TypeOK
  <1>7. Sound(q)
    BY <1>2, <1>4 DEF Sound, About, Sending
  <1> QED
    BY <1>1, <1>4, <1>6, <1>7, Progress

LEMMA TypedBump ==
    ASSUME Typed, NEW s \in Slots, Bump(s)
    PROVE  Typed'
  <1> DEFINE c == req[s].conv
  <1>1. Wrote(c, BumpRow(s)) /\ c \in Conversations
    BY BumpWrites DEF Wrote, Stored
  <1>2. SameParties /\ conv' \in [Conversations -> Conversation] /\ Tables'
    BY <1>1, WroteRow DEF Bump
  <1>3. TypeOK'
    BY <1>1, <1>2, IdleType DEF Bump, Typed, TypeOK
  <1>4. req' = [req EXCEPT ![s] = Idle] /\ Sound(Idle)
    BY DEF Bump, Sound, Idle, About, Sending
  <1> QED
    BY <1>2, <1>3, <1>4, IdleType, Progress

LEMMA TypedReset ==
    ASSUME Typed, NEW s \in Slots, ResetCounter(s)
    PROVE  Typed'
  <1> DEFINE c == req[s].conv
  <1>1. Wrote(c, ResetRow(s)) /\ c \in Conversations
    BY ResetWrites DEF Wrote, Stored
  <1>2. SameParties /\ conv' \in [Conversations -> Conversation] /\ Tables'
    BY <1>1, WroteRow DEF ResetCounter
  <1>3. TypeOK'
    BY <1>2, IdleType DEF ResetCounter, Typed, TypeOK, history
  <1>4. req' = [req EXCEPT ![s] = Idle] /\ Sound(Idle)
    BY DEF ResetCounter, Sound, Idle, About, Sending
  <1> QED
    BY <1>2, <1>3, <1>4, IdleType, Progress

LEMMA TypedBlock ==
    ASSUME Typed, NEW u \in Users, NEW c \in Conversations, BlockUser(u, c)
    PROVE  Typed' /\ SameParties
  <1> DEFINE r == [conv[c] EXCEPT !.blockedBy = u]
  <1>1. Wrote(c, r) /\ req' = req /\ log' = log
    BY BlockWrites DEF BlockUser
  <1> HIDE DEF r
  <1>2. SameParties /\ conv' \in [Conversations -> Conversation] /\ Tables'
    BY <1>1, WroteRow
  <1>3. TypeOK'
    BY <1>1, <1>2 DEF BlockUser, Arrive, Typed, TypeOK
  <1>4. ASSUME NEW t \in Slots
        PROVE  Sound(req[t])'
    BY <1>1, <1>2, SameSides DEF Typed, Sound, About, Sending, Stored
  <1> QED
    BY <1>2, <1>3, <1>4 DEF Typed

LEMMA TypedLift ==
    ASSUME Typed, NEW s \in Slots, LiftBlock(s)
    PROVE  Typed' /\ SameParties
  <1> DEFINE c == req[s].conv
             r == [conv[c] EXCEPT !.blockedBy = None]
  <1>1. c \in Stored /\ c \in Conversations
    BY RowTypes DEF LiftBlock, About
  <1>2. Wrote(c, r) /\ log' = log
    BY <1>1, BlockWrites DEF LiftBlock
  <1> HIDE DEF r
  <1>3. SameParties /\ conv' \in [Conversations -> Conversation] /\ Tables'
    BY <1>2, WroteRow
  <1>4. TypeOK'
    BY <1>1, <1>2, <1>3, IdleType DEF LiftBlock, Typed, TypeOK
  <1>5. req' = [req EXCEPT ![s] = Idle] /\ Sound(Idle)
    BY DEF LiftBlock, Sound, Idle, About, Sending
  <1> QED
    BY <1>3, <1>4, <1>5, IdleType, Progress

LEMMA TypedLookup ==
    ASSUME Typed, NEW s \in Slots, Lookup(s)
    PROVE  Typed'
  <1> DEFINE q == [req[s] EXCEPT !.pc = "insert"]
  <1>1. /\ req[s].pc = "lookup" /\ conv' = conv /\ log' = log
        /\ req' = [req EXCEPT ![s] = Idle] \/ req' = [req EXCEPT ![s] = q]
    BY DEF Lookup
  <1>2. /\ req[s].conv \in Stored /\ req[s].user \in Users /\ req[s] \in Request
        /\ Member(req[s].user, req[s].conv)
    BY <1>1, RowTypes DEF About, Sending
  <1>3. /\ q \in Request /\ q.pc = "insert" /\ q.conv = req[s].conv /\ q.user = req[s].user
    BY <1>2 DEF Request
  <1> HIDE DEF q
  <1>4. Sound(q) /\ Sound(Idle)
    BY <1>2, <1>3 DEF Sound, Idle, About, Sending
  <1>5. Tables' /\ SameParties
    BY <1>1 DEF Typed, Tables, Stored, SameParties
  <1>6. TypeOK'
    BY <1>1, <1>3, IdleType DEF Lookup, Typed, TypeOK, history
  <1> QED
    BY <1>1, <1>3, <1>4, <1>5, <1>6, IdleType, Progress

LEMMA TypedAbort ==
    ASSUME Typed, NEW s \in Slots, Abort(s)
    PROVE  Typed'
  <1>1. conv' = conv /\ log' = log /\ req' = [req EXCEPT ![s] = Idle] /\ Sound(Idle)
    BY DEF Abort, Sound, Idle, About, Sending
  <1>2. Tables' /\ SameParties
    BY <1>1 DEF Typed, Tables, Stored, SameParties
  <1>3. req[s].pc \in {"bump", "reset"} => req[s].conv \in Conversations
    BY RowTypes DEF About
  <1>4. overtaken' \subseteq Conversations
    BY <1>3 DEF Abort, Typed, TypeOK
  <1>5. muddled' \subseteq Conversations \X Sides
    <2>1. /\ SideOf(req[s].user, req[s].conv) \in Sides
          /\ Receiver(req[s].user, req[s].conv) \in Sides
      BY SideTypes
    <2> QED
      BY <1>3, <2>1 DEF Abort, Typed, TypeOK
  <1>6. TypeOK'
    BY <1>1, <1>4, <1>5, IdleType DEF Abort, Typed, TypeOK
  <1> QED
    BY <1>1, <1>2, <1>6, IdleType, Progress

\* The steps, each handler's first part taken together.
Steps ==
    \/ \E s \in Slots : Handle(s)
    \/ \E u \in Users, c \in Conversations : BlockUser(u, c)
    \/ \E s \in Slots, c \in Conversations : CreateConversation(s, c)
    \/ \E s \in Slots : \/ Lookup(s) \/ InsertMessage(s) \/ Bump(s)
                        \/ MarkMessages(s) \/ ResetCounter(s) \/ LiftBlock(s)
                        \/ Abort(s)

LEMMA NextSteps == Next => Steps
  BY DEF Next, Steps, Handle

LEMMA TypedStep == Typed /\ [Next]_vars => Typed'
  <1> SUFFICES ASSUME Typed, [Next]_vars PROVE Typed'
    OBVIOUS
  <1>1. CASE UNCHANGED vars
    BY <1>1 DEF vars, history, Typed, TypeOK, Tables, Sound, Stored, Member
  <1>2. CASE Steps
    BY <1>2, TypedHandle, TypedBlock, TypedCreate, TypedLookup, TypedInsert, TypedBump,
       TypedMark, TypedReset, TypedLift, TypedAbort DEF Steps
  <1> QED
    BY <1>1, <1>2, NextSteps

\* Rows, messages and requests keep their types: in particular every counter is a
\* number, and a request is about a conversation that exists.
THEOREM TypeCorrect == Spec => []TypeOK
  <1>1. Typed => TypeOK
    BY DEF Typed
  <1> QED
    BY <1>1, TypedInit, TypedStep, PTL DEF Spec

(* ------------------------- One conversation per pair -------------------- *)

\* What the other steps do to the rows' parties and to the requests.
Quiet(s, q) ==
    /\ SameParties
    /\ twins' = twins
    /\ q.pc # "create"
    /\ req' = [req EXCEPT ![s] = q]

LEMMA QuietSteps ==
    ASSUME Typed, NEW s \in Slots,
           \/ Lookup(s) \/ InsertMessage(s) \/ Bump(s) \/ MarkMessages(s)
           \/ ResetCounter(s) \/ LiftBlock(s) \/ Abort(s)
    PROVE  \E q : Quiet(s, q)
  <1>1. Idle.pc # "create" /\ (conv' = conv => SameParties)
    BY DEF Idle, SameParties
  <1>2. CASE Lookup(s)
    <2> DEFINE q == IF conv[req[s].conv].blockedBy = None
                    THEN [req[s] EXCEPT !.pc = "insert"] ELSE Idle
    <2>1. req[s] \in Request /\ req' = [req EXCEPT ![s] = q] /\ conv' = conv /\ twins' = twins
      BY <1>2 DEF Lookup, history, Typed, TypeOK
    <2>2. q.pc # "create"
      BY <2>1, <1>1 DEF Request
    <2> HIDE DEF q
    <2> QED
      BY <1>1, <2>1, <2>2 DEF Quiet
  <1>3. CASE InsertMessage(s)
    <2> DEFINE q == [req[s] EXCEPT !.pc = "bump", !.at = Len(log[req[s].conv]) + 1]
    <2>1. req[s] \in Request /\ req' = [req EXCEPT ![s] = q] /\ conv' = conv /\ twins' = twins
      BY <1>3 DEF InsertMessage, Typed, TypeOK
    <2>2. q.pc # "create"
      BY <2>1 DEF Request
    <2> HIDE DEF q
    <2> QED
      BY <1>1, <2>1, <2>2 DEF Quiet
  <1>4. CASE Bump(s)
    <2>1. SameParties
      BY <1>4, BumpWrites, WroteRow
    <2>2. req' = [req EXCEPT ![s] = Idle] /\ twins' = twins
      BY <1>4 DEF Bump
    <2> QED
      BY <1>1, <2>1, <2>2 DEF Quiet
  <1>5. CASE MarkMessages(s)
    <2> DEFINE q == [req[s] EXCEPT !.pc = "reset"]
    <2>1. req[s] \in Request /\ req' = [req EXCEPT ![s] = q] /\ conv' = conv /\ twins' = twins
      BY <1>5 DEF MarkMessages, Typed, TypeOK
    <2>2. q.pc # "create"
      BY <2>1 DEF Request
    <2> HIDE DEF q
    <2> QED
      BY <1>1, <2>1, <2>2 DEF Quiet
  <1>6. CASE ResetCounter(s)
    <2>1. SameParties
      BY <1>6, ResetWrites, WroteRow
    <2>2. req' = [req EXCEPT ![s] = Idle] /\ twins' = twins
      BY <1>6 DEF ResetCounter, history
    <2> QED
      BY <1>1, <2>1, <2>2 DEF Quiet
  <1>7. CASE LiftBlock(s)
    BY <1>1, <1>7, TypedLift DEF LiftBlock, Quiet
  <1>8. CASE Abort(s)
    BY <1>1, <1>8 DEF Abort, Quiet
  <1> QED
    BY <1>2, <1>3, <1>4, <1>5, <1>6, <1>7, <1>8

Parties(c) == {conv[c].party[i] : i \in Sides}

\* A request that is about to create a conversation has seen none of its pair.
Searches == \A s \in Slots : req[s].pc = "create" =>
    req[s].seen \subseteq Stored /\ \A c \in req[s].seen : Parties(c) # {req[s].user, req[s].to}

PairInv == OnePerPair /\ Searches

LEMMA PairOf ==
    ASSUME NEW c
    PROVE  Parties(c) = {conv[c].party[1], conv[c].party[2]}
  BY DEF Parties, Sides

LEMMA BetweenParties ==
    ASSUME NEW u, NEW v, NEW c \in Stored, Parties(c) = {u, v}
    PROVE  c \in Between(u, v)
  BY PairOf DEF Between

LEMMA PairQuiet ==
    ASSUME Typed, PairInv, NEW s \in Slots, NEW q, SameParties, twins' = twins,
           req' = [req EXCEPT ![s] = q],
           q.pc = "create" => /\ q.seen \subseteq Stored
                              /\ \A c \in q.seen : Parties(c) # {q.user, q.to}
    PROVE  PairInv'
  <1>1. Stored' = Stored /\ \A c \in Stored : Parties(c)' = Parties(c)
    BY SameSides DEF SameParties, Parties, Stored
  <1>2. OnePerPair'
    BY <1>1 DEF PairInv, OnePerPair, Parties
  <1>3. ASSUME NEW t \in Slots, req'[t].pc = "create"
        PROVE  /\ req'[t].seen \subseteq Stored
               /\ \A c \in req'[t].seen : Parties(c) # {req'[t].user, req'[t].to}
    <2>1. req'[t] = IF t = s THEN q ELSE req[t]
      BY DEF Typed, TypeOK
    <2> QED
      BY <1>3, <2>1 DEF PairInv, Searches
  <1>4. Searches'
    BY <1>1, <1>3 DEF Searches
  <1> QED
    BY <1>2, <1>4 DEF PairInv

LEMMA PairCreate ==
    ASSUME Typed, PairInv, NEW s \in Slots, NEW c \in Conversations, CreateConversation(s, c)
    PROVE  PairInv'
  <1> DEFINE party == [i \in Sides |-> IF i = 1 THEN req[s].user ELSE req[s].to]
             r == [NoConversation EXCEPT !.party = party]
             new == {{c, d} : d \in Stored \ req[s].seen}
             pair == {req[s].user, req[s].to}
  <1>1. /\ req[s].pc = "create" /\ c \notin Stored /\ req[s].user \in Users
        /\ twins' = twins \union new /\ conv' = [conv EXCEPT ![c] = r]
        /\ conv \in [Conversations -> Conversation] /\ Searches /\ OnePerPair
    BY DEF CreateConversation, Typed, TypeOK, Sound, PairInv
  <1>2. r.party[1] = req[s].user /\ r.party[2] = req[s].to
    BY DEF NoConversation, Sides
  <1> HIDE DEF r
  <1>3. conv'[c] = r /\ \A d \in Conversations \ {c} : conv'[d] = conv[d]
    BY <1>1
  <1>4. Stored' = Stored \union {c}
    BY <1>1, <1>2, <1>3, MessagesAssumption DEF Stored
  <1>5. Parties(c)' = pair
    BY <1>2, <1>3, PairOf DEF Parties, Sides
  <1>6. \A d \in Stored : Parties(d)' = Parties(d) /\ d # c
    BY <1>1, <1>3 DEF Parties, Stored
  <1>7. \A d \in Stored : Parties(d) = pair => {c, d} \in twins' /\ {d, c} \in twins'
    <2> SUFFICES ASSUME NEW d \in Stored, Parties(d) = pair
                 PROVE  {c, d} \in twins' /\ {d, c} \in twins'
      OBVIOUS
    <2>1. d \notin req[s].seen
      BY <1>1 DEF Searches
    <2>2. {c, d} \in new /\ {d, c} = {c, d}
      BY <2>1
    <2> QED
      BY <1>1, <2>2
  <1>8. OnePerPair'
    <2>1. \A x, y \in Stored : x # y /\ Parties(x) = Parties(y) => {x, y} \in twins
      BY <1>1 DEF OnePerPair, Parties
    <2>2. ASSUME NEW x \in Stored', NEW y \in Stored', x # y, Parties(x)' = Parties(y)'
          PROVE  {x, y} \in twins'
      <3> HIDE DEF new, pair
      <3>1. CASE x = c
        BY <1>4, <1>5, <1>6, <1>7, <2>2, <3>1
      <3>2. CASE y = c
        BY <1>4, <1>5, <1>6, <1>7, <2>2, <3>2
      <3>3. CASE x \in Stored /\ y \in Stored
        BY <1>1, <1>6, <2>1, <2>2, <3>3
      <3> QED
        BY <1>4, <3>1, <3>2, <3>3
    <2> QED
      BY <2>2 DEF OnePerPair, Parties
  <1>9. Searches'
    <2> SUFFICES ASSUME NEW t \in Slots, req'[t].pc = "create"
                 PROVE  /\ req'[t].seen \subseteq Stored'
                        /\ \A d \in req'[t].seen :
                               Parties(d)' # {req'[t].user, req'[t].to}
      BY DEF Searches
    <2>1. t # s
      <3>1. req[s] \in Request /\ req \in [Slots -> Request]
        BY DEF Typed, TypeOK
      <3>2. req'[s].pc # "create"
        BY <3>1 DEF CreateConversation, Request, Idle
      <3> QED
        BY <3>2
    <2>2. req'[t] = req[t]
      BY <2>1 DEF CreateConversation, Typed, TypeOK
    <2> QED
      BY <1>1, <1>4, <1>6, <2>2 DEF Searches
  <1> QED
    BY <1>8, <1>9 DEF PairInv

LEMMA PairStep == Typed /\ PairInv /\ [Next]_vars => PairInv'
  <1> SUFFICES ASSUME Typed, PairInv, [Next]_vars PROVE PairInv'
    OBVIOUS
  <1>1. CASE UNCHANGED vars
    <2>1. conv' = conv /\ req' = req /\ twins' = twins
      BY <1>1 DEF vars, history
    <2>2. Stored' = Stored /\ \A c : Parties(c)' = Parties(c)
      BY <2>1 DEF Stored, Parties
    <2>3. OnePerPair'
      <3>1. \A c, d \in Stored : c # d /\ Parties(c) = Parties(d) => {c, d} \in twins
        BY DEF PairInv, OnePerPair, Parties
      <3>2. \A c, d \in Stored' : c # d /\ Parties(c)' = Parties(d)' => {c, d} \in twins'
        BY <2>1, <2>2, <3>1
      <3> QED
        BY <3>2 DEF OnePerPair, Parties
    <2>4. Searches'
      BY <2>1, <2>2 DEF PairInv, Searches
    <2> QED
      BY <2>3, <2>4 DEF PairInv
  <1>2. ASSUME NEW s \in Slots, Handle(s) PROVE PairInv'
    <2>1. PICK q \in Request : Began(s, q) /\ Searched(q)
      BY <1>2, Begins
    <2>2. SameParties /\ twins' = twins /\ req' = [req EXCEPT ![s] = q]
      BY <2>1 DEF Began, SameParties, history
    <2>3. q.pc = "create" => /\ q.seen \subseteq Stored
                             /\ \A c \in q.seen : Parties(c) # {q.user, q.to}
      BY <2>1, BetweenParties DEF Searched
    <2> QED
      BY <2>2, <2>3, PairQuiet
  <1>3. ASSUME NEW u \in Users, NEW c \in Conversations, BlockUser(u, c) PROVE PairInv'
    <2>1. SameParties /\ req' = req /\ twins' = twins
      BY <1>3, TypedBlock DEF BlockUser
    <2>2. Stored' = Stored /\ \A d \in Stored : Parties(d)' = Parties(d)
      BY <2>1, SameSides DEF SameParties, Parties, Stored
    <2> QED
      BY <2>1, <2>2 DEF PairInv, OnePerPair, Searches, Parties
  <1>4. ASSUME NEW s \in Slots,
               \/ Lookup(s) \/ InsertMessage(s) \/ Bump(s) \/ MarkMessages(s)
               \/ ResetCounter(s) \/ LiftBlock(s) \/ Abort(s)
        PROVE  PairInv'
    BY <1>4, QuietSteps, PairQuiet DEF Quiet
  <1> QED
    BY <1>1, <1>2, <1>3, <1>4, PairCreate, NextSteps DEF Steps

LEMMA PairInit == Init => PairInv
  BY DEF Init, PairInv, OnePerPair, Searches, Stored, NoConversation, Sides, Idle

\* Two conversations of the same two users exist only when each was created after
\* the other's creator had searched, however the two are ordered in the row.
THEOREM OneConversationPerPair == Spec => []OnePerPair
  <1>1. PairInv => OnePerPair
    BY DEF PairInv
  <1> QED
    BY <1>1, TypedInit, TypedStep, PairInit, PairStep, PTL DEF Spec

(* ------------------------------- The preview ---------------------------- *)

\* Message n of c is inserted and not yet previewed.
Pending(c, n) == \E s \in Slots : req[s].pc = "bump" /\ req[s].conv = c /\ req[s].at = n

\* Every message after the one previewed is pending.
Previewed(c) ==
    /\ conv[c].last <= Len(log[c])
    /\ \A n \in 1..Len(log[c]) : n > conv[c].last => Pending(c, n)

Placed == \A s \in Slots : req[s].pc = "bump" => req[s].at \in 1..Len(log[req[s].conv])

PreviewInv == Placed /\ \A c \in Stored \ overtaken : Previewed(c)

LEMMA PreviewInit == Init => PreviewInv
  BY DEF Init, PreviewInv, Placed, Stored, NoConversation, Sides, Idle

\* Rows, messages and pending previews as they were, for the rows there were.
LEMMA PreviewFrame ==
    ASSUME Typed, PreviewInv, NEW s \in Slots, NEW q,
           req[s].pc # "bump", q.pc # "bump", req' = [req EXCEPT ![s] = q],
           \A c \in Stored : conv'[c].last = conv[c].last /\ Len(log'[c]) = Len(log[c]),
           \A c \in Stored' \ Stored : conv'[c].last = 0 /\ Len(log'[c]) = 0,
           overtaken' = overtaken
    PROVE  PreviewInv'
  <1>1. \A t \in Slots : req'[t] = IF t = s THEN q ELSE req[t]
    BY DEF Typed, TypeOK
  <1>2. Placed'
    <2>1. ASSUME NEW t \in Slots, req'[t].pc = "bump"
          PROVE  req'[t].at \in 1..Len(log'[req'[t].conv])
      <3>1. req'[t] = req[t] /\ req[t].pc = "bump"
        BY <1>1, <2>1
      <3>2. req[t].conv \in Stored
        BY <3>1 DEF Typed, Sound, About
      <3> QED
        BY <3>1, <3>2 DEF PreviewInv, Placed
    <2> QED
      BY <2>1 DEF Placed
  <1>3. ASSUME NEW c, NEW n, Pending(c, n)
        PROVE  Pending(c, n)'
    BY <1>1, <1>3 DEF Pending
  <1>4. ASSUME NEW c \in Stored' \ overtaken'
        PROVE  Previewed(c)'
    <2>1. CASE c \in Stored
      <3>1. Previewed(c) /\ conv'[c].last = conv[c].last /\ Len(log'[c]) = Len(log[c])
        BY <1>4, <2>1 DEF PreviewInv
      <3> QED
        BY <1>3, <3>1 DEF Previewed
    <2>2. CASE c \notin Stored
      <3>1. conv'[c].last = 0 /\ Len(log'[c]) = 0
        BY <1>4, <2>2
      <3> QED
        BY <3>1 DEF Previewed
    <2> QED
      BY <2>1, <2>2
  <1> QED
    BY <1>2, <1>4 DEF PreviewInv

LEMMA PreviewInsert ==
    ASSUME Typed, PreviewInv, NEW s \in Slots, InsertMessage(s)
    PROVE  PreviewInv'
  <1> DEFINE c == req[s].conv
             l == Append(log[c], Sent(s))
             q == [req[s] EXCEPT !.pc = "bump", !.at = Len(log[c]) + 1]
  <1>1. /\ req[s].pc = "insert" /\ conv' = conv /\ overtaken' = overtaken
        /\ log' = [log EXCEPT ![c] = l] /\ req' = [req EXCEPT ![s] = q]
    BY DEF InsertMessage, Sent
  <1>2. /\ c \in Stored /\ req[s] \in Request /\ Sent(s) \in Message
        /\ log[c] \in Seq(Message)
    <2>1. c \in Stored /\ c \in Conversations /\ req[s].user \in Users /\ req[s] \in Request
      BY <1>1, RowTypes DEF About
    <2> QED
      BY <2>1 DEF Sent, Message, Typed, TypeOK
  <1>3. /\ l \in Seq(Message) /\ Len(l) = Len(log[c]) + 1 /\ Len(log[c]) \in Nat
    BY <1>2
  <1>4. /\ log'[c] = l /\ \A d \in Conversations \ {c} : log'[d] = log[d]
    BY <1>1, <1>2, <1>3, LogStep
  <1>5. q.pc = "bump" /\ q.conv = c /\ q.at = Len(log[c]) + 1
    BY <1>2 DEF Request
  <1> HIDE DEF q, l
  <1>6. \A t \in Slots : req'[t] = IF t = s THEN q ELSE req[t]
    BY <1>1 DEF Typed, TypeOK
  <1>7. Stored' = Stored
    BY <1>1 DEF Stored
  <1>8. Placed'
    <2>1. ASSUME NEW t \in Slots, req'[t].pc = "bump"
          PROVE  req'[t].at \in 1..Len(log'[req'[t].conv])
      <3>1. CASE t = s
        BY <1>3, <1>4, <1>5, <1>6, <3>1
      <3>2. CASE t # s
        <4>1. /\ req'[t] = req[t] /\ req[t].conv \in Conversations
              /\ req[t].at \in 1..Len(log[req[t].conv])
          BY <1>6, <2>1, <3>2 DEF PreviewInv, Placed, Typed, Sound, About, Stored
        <4>2. CASE req[t].conv = c
          BY <1>3, <1>4, <4>1, <4>2
        <4>3. CASE req[t].conv # c
          BY <1>4, <4>1, <4>3
        <4> QED
          BY <4>2, <4>3
      <3> QED
        BY <3>1, <3>2
    <2> QED
      BY <2>1 DEF Placed
  <1>9. ASSUME NEW d, NEW n, Pending(d, n)
        PROVE  Pending(d, n)'
    BY <1>1, <1>6, <1>9 DEF Pending
  <1>10. ASSUME NEW d \in Stored \ overtaken
         PROVE  Previewed(d)'
    <2>1. Previewed(d) /\ conv'[d] = conv[d] /\ d \in Conversations
      BY <1>1, <1>10 DEF PreviewInv, Stored
    <2>2. CASE d # c
      BY <1>4, <1>9, <2>1, <2>2 DEF Previewed
    <2>3. CASE d = c
      <3>1. \A n : n = Len(log[c]) + 1 => Pending(d, n)'
        BY <1>5, <1>6, <2>3 DEF Pending
      <3>2. conv[c].last \in Nat
        BY <1>2 DEF Typed, TypeOK, Stored, Conversation
      <3>3. \A n \in 1..Len(l) : n > conv[c].last => Pending(d, n)'
        <4> SUFFICES ASSUME NEW n \in 1..Len(l), n > conv[c].last PROVE Pending(d, n)'
          OBVIOUS
        <4>1. n \in 1..Len(log[c]) \/ n = Len(log[c]) + 1
          BY <1>3
        <4>2. n \in 1..Len(log[c]) => Pending(d, n)
          BY <2>1, <2>3 DEF Previewed
        <4> QED
          BY <1>9, <3>1, <4>1, <4>2
      <3>4. conv[c].last <= Len(l)
        BY <1>3, <2>1, <2>3, <3>2 DEF Previewed
      <3> QED
        BY <1>4, <2>1, <2>3, <3>3, <3>4 DEF Previewed
    <2> QED
      BY <2>2, <2>3
  <1> QED
    BY <1>1, <1>7, <1>8, <1>10 DEF PreviewInv

LEMMA PreviewBump ==
    ASSUME Typed, PreviewInv, NEW s \in Slots, Bump(s)
    PROVE  PreviewInv'
  <1> DEFINE c == req[s].conv
  <1>1. /\ req[s].pc = "bump" /\ log' = log /\ req' = [req EXCEPT ![s] = Idle]
        /\ overtaken' = IF req[s].at < conv[c].last THEN overtaken \union {c} ELSE overtaken
    BY DEF Bump
  <1>2. /\ SameParties /\ Stored' = Stored /\ conv'[c].last = req[s].at
        /\ \A d \in Conversations \ {c} : conv'[d] = conv[d]
    <2>1. Wrote(c, BumpRow(s)) /\ BumpRow(s).last = req[s].at
      BY BumpWrites
    <2>2. /\ SameParties /\ conv'[c] = BumpRow(s)
          /\ \A d \in Conversations \ {c} : conv'[d] = conv[d]
      BY <2>1, WroteRow
    <2> QED
      BY <2>1, <2>2, SameSides
  <1>3. \A t \in Slots : req'[t] = IF t = s THEN Idle ELSE req[t]
    BY <1>1 DEF Typed, TypeOK
  <1>4. Placed'
    <2>1. \A t \in Slots : req'[t].pc = "bump" => req'[t] = req[t]
      BY <1>3 DEF Idle
    <2> QED
      BY <1>1, <2>1 DEF PreviewInv, Placed
  <1>5. ASSUME NEW d, NEW n, Pending(d, n), d # c \/ n # req[s].at
        PROVE  Pending(d, n)'
    <2>1. PICK t \in Slots : req[t].pc = "bump" /\ req[t].conv = d /\ req[t].at = n
      BY <1>5 DEF Pending
    <2>2. t # s
      BY <1>5, <2>1
    <2> QED
      BY <1>3, <2>1, <2>2 DEF Pending
  <1>6. ASSUME NEW d \in Stored \ overtaken'
        PROVE  Previewed(d)'
    <2>1. Previewed(d) /\ d \in Conversations
      BY <1>1, <1>6 DEF PreviewInv, Stored
    <2>2. CASE d # c
      BY <1>1, <1>2, <1>5, <2>1, <2>2 DEF Previewed
    <2>3. CASE d = c
      <3>1. req[s].at \in 1..Len(log[c]) /\ Len(log[c]) \in Nat
        BY <1>1, <2>1, <2>3 DEF PreviewInv, Placed, Typed, TypeOK
      <3>2. conv[c].last \in Nat
        BY <2>1, <2>3 DEF Typed, TypeOK, Conversation
      <3>3. req[s].at >= conv[c].last
        BY <1>1, <1>6, <2>3, <3>1, <3>2
      <3>4. ASSUME NEW n \in 1..Len(log[c]), n > req[s].at
            PROVE  Pending(d, n)'
        <4>1. n > conv[c].last /\ n # req[s].at
          BY <3>1, <3>2, <3>3, <3>4
        <4>2. Pending(d, n)
          BY <2>1, <2>3, <4>1 DEF Previewed
        <4> QED
          BY <1>5, <4>1, <4>2
      <3> QED
        BY <1>1, <1>2, <2>3, <3>1, <3>4 DEF Previewed
    <2> QED
      BY <2>2, <2>3
  <1> QED
    BY <1>2, <1>4, <1>6 DEF PreviewInv

LEMMA PreviewAbort ==
    ASSUME Typed, PreviewInv, NEW s \in Slots, Abort(s)
    PROVE  PreviewInv'
  <1> DEFINE c == req[s].conv
  <1>1. /\ conv' = conv /\ log' = log /\ req' = [req EXCEPT ![s] = Idle]
        /\ overtaken' = IF req[s].pc = "bump" THEN overtaken \union {c} ELSE overtaken
    BY DEF Abort
  <1>2. \A t \in Slots : req'[t] = IF t = s THEN Idle ELSE req[t]
    BY <1>1 DEF Typed, TypeOK
  <1>3. Placed'
    <2>1. \A t \in Slots : req'[t].pc = "bump" => req'[t] = req[t]
      BY <1>2 DEF Idle
    <2> QED
      BY <1>1, <2>1 DEF PreviewInv, Placed
  <1>4. ASSUME NEW d \in Stored' \ overtaken'
        PROVE  Previewed(d)'
    <2>1. Previewed(d)
      BY <1>1, <1>4 DEF PreviewInv, Stored
    <2>2. ASSUME NEW n, Pending(d, n)
          PROVE  Pending(d, n)'
      <3>1. PICK t \in Slots : req[t].pc = "bump" /\ req[t].conv = d /\ req[t].at = n
        BY <2>2 DEF Pending
      <3>2. t # s
        BY <1>1, <1>4, <3>1
      <3> QED
        BY <1>2, <3>1, <3>2 DEF Pending
    <2> QED
      BY <1>1, <2>1, <2>2 DEF Previewed
  <1> QED
    BY <1>3, <1>4 DEF PreviewInv

LEMMA PreviewStep == Typed /\ PreviewInv /\ [Next]_vars => PreviewInv'
  <1> SUFFICES ASSUME Typed, PreviewInv, [Next]_vars PROVE PreviewInv'
    OBVIOUS
  <1>0. Idle.pc # "bump" /\ \A c \in Stored : c \in Conversations
    BY DEF Idle, Stored
  <1>1. CASE UNCHANGED vars
    <2>1. conv' = conv /\ log' = log /\ req' = req /\ overtaken' = overtaken
      BY <1>1 DEF vars, history
    <2>2. Stored' = Stored /\ Placed'
      BY <2>1 DEF Stored, PreviewInv, Placed
    <2>3. \A c \in Stored \ overtaken : Previewed(c)'
      BY <2>1 DEF PreviewInv, Previewed, Pending
    <2> QED
      BY <2>1, <2>2, <2>3 DEF PreviewInv
  <1>2. ASSUME NEW s \in Slots, Handle(s) PROVE PreviewInv'
    <2>1. PICK q \in Request : /\ Began(s, q)
                               /\ q.pc \in {"create", "lookup", "insert", "mark", "unblock"}
      BY <1>2, Begins
    <2>2. Stored' = Stored /\ conv' = conv /\ log' = log /\ overtaken' = overtaken
      BY <2>1 DEF Began, Stored, history
    <2>3. req[s].pc # "bump" /\ q.pc # "bump" /\ req' = [req EXCEPT ![s] = q]
      BY <2>1 DEF Began
    <2> QED
      BY <2>2, <2>3, PreviewFrame
  <1>3. ASSUME NEW u \in Users, NEW c \in Conversations, BlockUser(u, c) PROVE PreviewInv'
    <2> DEFINE r == [conv[c] EXCEPT !.blockedBy = u]
    <2>1. Wrote(c, r) /\ r.last = conv[c].last /\ req' = req /\ log' = log
          /\ overtaken' = overtaken
      BY <1>3, BlockWrites DEF BlockUser
    <2> HIDE DEF r
    <2>2. Stored' = Stored /\ \A d \in Stored : conv'[d].last = conv[d].last
      BY <1>0, <2>1, WroteRow, SameSides
    <2>3. \A d \in Stored \ overtaken : Previewed(d)'
      BY <2>1, <2>2 DEF PreviewInv, Previewed, Pending
    <2>4. Placed'
      BY <2>1 DEF PreviewInv, Placed
    <2> QED
      BY <2>1, <2>2, <2>3, <2>4 DEF PreviewInv
  <1>4. ASSUME NEW s \in Slots, NEW c \in Conversations, CreateConversation(s, c)
        PROVE  PreviewInv'
    <2> DEFINE r == [NoConversation EXCEPT !.party = [i \in Sides |->
                                               IF i = 1 THEN req[s].user ELSE req[s].to]]
               q == IF ~req[s].initial THEN Idle
                    ELSE [req[s] EXCEPT !.pc = IF req[s].op = "start" THEN "lookup"
                                               ELSE "insert",
                                        !.conv = c, !.seen = {}]
    <2>1. /\ req[s].pc = "create" /\ c \notin Stored /\ conv' = [conv EXCEPT ![c] = r]
          /\ req' = [req EXCEPT ![s] = q] /\ log' = log /\ overtaken' = overtaken
          /\ req[s] \in Request
      BY <1>4 DEF CreateConversation, Typed, TypeOK
    <2>2. q.pc # "bump"
      BY <1>0, <2>1 DEF Request
    <2>3. r.last = 0
      BY DEF NoConversation
    <2> HIDE DEF q, r
    <2>4. conv'[c] = r /\ \A d \in Conversations \ {c} : conv'[d] = conv[d]
      BY <2>1 DEF Typed, TypeOK
    <2>5. \A d \in Stored : conv'[d].last = conv[d].last
      BY <1>0, <2>1, <2>4
    <2>6. \A d \in Stored' \ Stored : d = c
      BY <2>4 DEF Stored
    <2>7. Len(log[c]) = 0
      BY <2>1 DEF Typed, Tables
    <2>8. \A d \in Stored' \ Stored : conv'[d].last = 0 /\ Len(log'[d]) = 0
      BY <2>1, <2>3, <2>4, <2>6, <2>7
    <2>9. req[s].pc # "bump" /\ \A d \in Stored : Len(log'[d]) = Len(log[d])
      BY <2>1
    <2> QED
      BY <2>1, <2>2, <2>5, <2>8, <2>9, PreviewFrame
  <1>5. ASSUME NEW s \in Slots, Lookup(s) PROVE PreviewInv'
    <2> DEFINE q == IF conv[req[s].conv].blockedBy = None
                    THEN [req[s] EXCEPT !.pc = "insert"] ELSE Idle
    <2>1. /\ req[s].pc = "lookup" /\ req[s] \in Request /\ req' = [req EXCEPT ![s] = q]
          /\ conv' = conv /\ log' = log /\ overtaken' = overtaken
      BY <1>5 DEF Lookup, history, Typed, TypeOK
    <2>2. q.pc # "bump"
      BY <1>0, <2>1 DEF Request
    <2> HIDE DEF q
    <2>3. Stored' = Stored
      BY <2>1 DEF Stored
    <2> QED
      BY <2>1, <2>2, <2>3, PreviewFrame
  <1>6. ASSUME NEW s \in Slots, MarkMessages(s) PROVE PreviewInv'
    <2> DEFINE q == [req[s] EXCEPT !.pc = "reset"]
               c == req[s].conv
               l == Marked(c, conv[c].party[Other(SideOf(req[s].user, c))])
    <2>1. /\ req[s].pc = "mark" /\ req[s] \in Request /\ req' = [req EXCEPT ![s] = q]
          /\ conv' = conv /\ log' = [log EXCEPT ![c] = l] /\ overtaken' = overtaken
      BY <1>6 DEF MarkMessages, Marked, Typed, TypeOK
    <2>2. q.pc # "bump"
      BY <2>1 DEF Request
    <2>3. c \in Stored /\ c \in Conversations
      BY <2>1, RowTypes DEF About
    <2>4. l \in Seq(Message) /\ Len(l) = Len(log[c])
      BY <2>3, MarkedType
    <2> HIDE DEF q, l
    <2>5. Stored' = Stored /\ \A d \in Stored : Len(log'[d]) = Len(log[d])
      <3>1. log'[c] = l /\ \A d \in Conversations \ {c} : log'[d] = log[d]
        BY <2>1, <2>3, <2>4, LogStep
      <3> QED
        BY <1>0, <2>1, <2>4, <3>1 DEF Stored
    <2> QED
      BY <2>1, <2>2, <2>5, PreviewFrame
  <1>7. ASSUME NEW s \in Slots, ResetCounter(s) PROVE PreviewInv'
    <2>1. Wrote(req[s].conv, ResetRow(s)) /\ ResetRow(s).last = conv[req[s].conv].last
      BY <1>7, ResetWrites
    <2>2. Stored' = Stored /\ \A d \in Stored : conv'[d].last = conv[d].last
      BY <1>0, <2>1, WroteRow, SameSides
    <2>3. /\ req[s].pc # "bump" /\ req' = [req EXCEPT ![s] = Idle] /\ log' = log
          /\ overtaken' = overtaken
      BY <1>7 DEF ResetCounter, history
    <2> QED
      BY <1>0, <2>2, <2>3, PreviewFrame
  <1>8. ASSUME NEW s \in Slots, LiftBlock(s) PROVE PreviewInv'
    <2> DEFINE c == req[s].conv
               r == [conv[c] EXCEPT !.blockedBy = None]
    <2>1. c \in Stored
      BY <1>8, RowTypes DEF LiftBlock, About
    <2>2. Wrote(c, r) /\ r.last = conv[c].last
      BY <1>8, <2>1, BlockWrites DEF LiftBlock
    <2> HIDE DEF r
    <2>3. Stored' = Stored /\ \A d \in Stored : conv'[d].last = conv[d].last
      BY <1>0, <2>2, WroteRow, SameSides
    <2>4. /\ req[s].pc # "bump" /\ req' = [req EXCEPT ![s] = Idle] /\ log' = log
          /\ overtaken' = overtaken
      BY <1>8 DEF LiftBlock
    <2> QED
      BY <1>0, <2>3, <2>4, PreviewFrame
  <1> QED
    BY <1>1, <1>2, <1>3, <1>4, <1>5, <1>6, <1>7, <1>8, PreviewInsert, PreviewBump,
       PreviewAbort, NextSteps DEF Steps

\* The preview is never beyond the messages, and is of the newest one once every
\* send is done, unless a later send overtook an earlier one or one died.
THEOREM PreviewOfNewest == Spec => []PreviewIsNewest
  <1>1. ASSUME Typed, PreviewInv, NEW c \in Stored \ overtaken
        PROVE  /\ conv[c].last <= Len(log[c])
               /\ (\A s \in Slots : ~(req[s].pc = "bump" /\ req[s].conv = c)) =>
                      conv[c].last = Len(log[c])
    <2>1. Previewed(c) /\ conv[c].last \in Nat /\ Len(log[c]) \in Nat
      BY <1>1 DEF PreviewInv, Typed, TypeOK, Stored, Conversation
    <2>2. ASSUME \A s \in Slots : ~(req[s].pc = "bump" /\ req[s].conv = c),
                 conv[c].last < Len(log[c])
          PROVE  FALSE
      <3>1. Len(log[c]) \in 1..Len(log[c])
        BY <2>1, <2>2
      <3>2. Pending(c, Len(log[c]))
        BY <2>1, <2>2, <3>1 DEF Previewed
      <3> QED
        BY <2>2, <3>2 DEF Pending
    <2>3. conv[c].last <= Len(log[c])
      BY <2>1 DEF Previewed
    <2> QED
      BY <2>1, <2>2, <2>3
  <1>2. Typed /\ PreviewInv => PreviewIsNewest
    BY <1>1 DEF PreviewIsNewest
  <1> QED
    BY <1>2, TypedInit, TypedStep, PreviewInit, PreviewStep, PTL DEF Spec

(* --------------------------- The unread counters ------------------------ *)

\* The messages in l that u has sent and that are not marked read.
UnreadOf(l, u) == {n \in DOMAIN l : l[n].sender = u /\ ~l[n].read}

\* Either nobody is reading and the counter is right, or somebody has marked
\* everything and is about to reset the counter.
Agrees(c, side) ==
    conv[c].party[1] # conv[c].party[2] /\ <<c, side>> \notin muddled =>
        IF Resetting(c, side) = {}
        THEN Unread(c, side) = conv[c].unread[side] + Cardinality(Counting(c, side))
        ELSE Unread(c, side) = 0 /\ Counting(c, side) = {}

UnreadInv == \A c \in Stored, side \in Sides : Agrees(c, side)

LEMMA UnreadIs ==
    ASSUME NEW c, NEW side
    PROVE  Unread(c, side) = Cardinality(UnreadOf(log[c], conv[c].party[Other(side)]))
  BY DEF Unread, UnreadOf

LEMMA UnreadNext ==
    ASSUME NEW c, NEW side
    PROVE  Unread(c, side)' = Cardinality(UnreadOf(log'[c], conv'[c].party[Other(side)]))
  BY DEF Unread, UnreadOf, Other

LEMMA UnreadFinite ==
    ASSUME NEW l \in Seq(Message), NEW u
    PROVE  IsFiniteSet(UnreadOf(l, u)) /\ Cardinality(UnreadOf(l, u)) \in Nat
  <1>1. IsFiniteSet(1..Len(l))
    BY FS_Interval
  <1>2. UnreadOf(l, u) \subseteq 1..Len(l)
    BY DEF UnreadOf
  <1> QED
    BY <1>1, <1>2, FS_Subset, FS_CardinalityType

LEMMA UnreadAppend ==
    ASSUME NEW l \in Seq(Message), NEW u, NEW v \in Users, NEW k,
           k = Append(l, [sender |-> v, read |-> FALSE])
    PROVE  /\ u = v => Cardinality(UnreadOf(k, u)) = Cardinality(UnreadOf(l, u)) + 1
           /\ u # v => UnreadOf(k, u) = UnreadOf(l, u)
  <1> DEFINE m == [sender |-> v, read |-> FALSE]
  <1>1. m \in Message /\ m.sender = v /\ m.read = FALSE
    BY DEF Message
  <1> HIDE DEF m
  <1>2. /\ k \in Seq(Message) /\ Len(l) \in Nat /\ DOMAIN k = 1..(Len(l) + 1)
        /\ k[Len(l) + 1] = m /\ \A n \in 1..Len(l) : k[n] = l[n]
    BY <1>1 DEF m
  <1>3. DOMAIN l = 1..Len(l) /\ 1..(Len(l) + 1) = (1..Len(l)) \union {Len(l) + 1}
    BY <1>2
  <1>4. u # v => UnreadOf(k, u) = UnreadOf(l, u)
    BY <1>1, <1>2, <1>3 DEF UnreadOf
  <1>5. ASSUME u = v
        PROVE  Cardinality(UnreadOf(k, u)) = Cardinality(UnreadOf(l, u)) + 1
    <2>1. UnreadOf(k, u) = UnreadOf(l, u) \union {Len(l) + 1}
      BY <1>1, <1>2, <1>3, <1>5 DEF UnreadOf
    <2>2. Len(l) + 1 \notin UnreadOf(l, u)
      BY <1>2, <1>3 DEF UnreadOf
    <2>3. IsFiniteSet(UnreadOf(l, u))
      BY UnreadFinite
    <2> QED
      BY <2>1, <2>2, <2>3, FS_AddElement
  <1> QED
    BY <1>4, <1>5

LEMMA UnreadMarked ==
    ASSUME Typed, NEW c \in Conversations, NEW w, NEW u
    PROVE  /\ u = w => UnreadOf(Marked(c, w), u) = {}
           /\ u # w => UnreadOf(Marked(c, w), u) = UnreadOf(log[c], u)
  <1>1. \A n \in DOMAIN log[c] : log[c][n] \in Message
    BY DEF Typed, TypeOK
  <1>2. /\ DOMAIN Marked(c, w) = DOMAIN log[c]
        /\ \A n \in DOMAIN log[c] :
               /\ Marked(c, w)[n].sender = log[c][n].sender
               /\ Marked(c, w)[n].read = (log[c][n].read \/ log[c][n].sender = w)
    <2>1. DOMAIN Marked(c, w) = DOMAIN log[c]
      BY DEF Marked
    <2>2. ASSUME NEW n \in DOMAIN log[c]
          PROVE  /\ Marked(c, w)[n].sender = log[c][n].sender
                 /\ Marked(c, w)[n].read = (log[c][n].read \/ log[c][n].sender = w)
      <3>1. log[c][n] \in Message
        BY <1>1
      <3>2. Marked(c, w)[n] = IF log[c][n].sender = w
                              THEN [log[c][n] EXCEPT !.read = TRUE] ELSE log[c][n]
        BY DEF Marked
      <3>3. CASE log[c][n].sender = w
        BY <3>1, <3>2, <3>3 DEF Message
      <3>4. CASE log[c][n].sender # w
        BY <3>1, <3>2, <3>4 DEF Message
      <3> QED
        BY <3>3, <3>4
    <2> QED
      BY <2>1, <2>2
  <1> QED
    BY <1>2 DEF UnreadOf

\* A request q has marked the messages of c to side, or inserted one of them.
Resets(q, c, side) == q.pc = "reset" /\ q.conv = c /\ SideOf(q.user, c) = side
Counts(q, c, side) == q.pc = "bump" /\ q.conv = c /\ Receiver(q.user, c) = side

\* Slot s goes on as q.
Goes(s, q) == req' = [req EXCEPT ![s] = q]

LEMMA ResettingStep ==
    ASSUME Typed, SameParties, NEW s \in Slots, NEW q, Goes(s, q),
           NEW c \in Conversations, NEW side
    PROVE  Resetting(c, side)' = IF Resets(q, c, side) THEN Resetting(c, side) \union {s}
                              ELSE Resetting(c, side) \ {s}
  <1>1. \A t \in Slots : req'[t] = IF t = s THEN q ELSE req[t]
    BY DEF Goes, Typed, TypeOK
  <1>2. conv'[c].party = conv[c].party
    BY DEF SameParties
  <1> QED
    BY <1>1, <1>2 DEF Resetting, Resets, SideOf

LEMMA CountingStep ==
    ASSUME Typed, SameParties, NEW s \in Slots, NEW q, Goes(s, q),
           NEW c \in Conversations, NEW side
    PROVE  Counting(c, side)' = IF Counts(q, c, side) THEN Counting(c, side) \union {s}
                              ELSE Counting(c, side) \ {s}
  <1>1. \A t \in Slots : req'[t] = IF t = s THEN q ELSE req[t]
    BY DEF Goes, Typed, TypeOK
  <1>2. conv'[c].party = conv[c].party
    BY DEF SameParties
  <1> QED
    BY <1>1, <1>2 DEF Counting, Counts, Receiver, SideOf

LEMMA CountingFinite ==
    ASSUME NEW c, NEW side
    PROVE  IsFiniteSet(Counting(c, side)) /\ Cardinality(Counting(c, side)) \in Nat
  <1>1. Counting(c, side) \subseteq Slots
    BY DEF Counting
  <1> QED
    BY <1>1, FS_Subset, FS_CardinalityType, MessagesAssumption

\* Nothing that Agrees(c, side) is about has changed.
LEMMA AgreesFrame ==
    ASSUME NEW c, NEW side, Agrees(c, side), conv'[c].party = conv[c].party,
           conv'[c].unread[side] = conv[c].unread[side], Unread(c, side)' = Unread(c, side),
           <<c, side>> \in muddled => <<c, side>> \in muddled',
           Resetting(c, side)' = Resetting(c, side), Counting(c, side)' = Counting(c, side)
    PROVE  Agrees(c, side)'
  BY DEF Agrees

\* A step of a request that neither reads nor counts, before it and after it.
LEMMA AgreesAside ==
    ASSUME Typed, UnreadInv, NEW s \in Slots, NEW q, req' = [req EXCEPT ![s] = q],
           req[s].pc \notin {"bump", "reset"}, q.pc \notin {"bump", "reset"},
           SameParties, log' = log, muddled' = muddled,
           \A c \in Stored : conv'[c].unread = conv[c].unread
    PROVE  UnreadInv'
  <1>1. ASSUME NEW c \in Stored, NEW side \in Sides
        PROVE  Agrees(c, side)'
    <2>1. c \in Conversations /\ Agrees(c, side) /\ conv'[c].party = conv[c].party
          /\ Goes(s, q)
      BY DEF Stored, UnreadInv, SameParties, Goes
    <2>2. s \notin Resetting(c, side) /\ s \notin Counting(c, side)
      BY DEF Resetting, Counting
    <2>3. Resetting(c, side)' = Resetting(c, side) /\ Counting(c, side)' = Counting(c, side)
      <3>1. Resetting(c, side)' = IF Resets(q, c, side) THEN Resetting(c, side) \union {s}
                                    ELSE Resetting(c, side) \ {s}
        BY <2>1, ResettingStep
      <3>3. Counting(c, side)' = IF Counts(q, c, side) THEN Counting(c, side) \union {s}
                                    ELSE Counting(c, side) \ {s}
        BY <2>1, CountingStep
      <3>2. ~Resets(q, c, side) /\ ~Counts(q, c, side)
        BY DEF Resets, Counts
      <3> QED
        BY <2>2, <3>1, <3>2, <3>3
    <2>4. Unread(c, side)' = Unread(c, side)
      BY <2>1 DEF Unread
    <2> QED
      BY <2>1, <2>3, <2>4, AgreesFrame
  <1> QED
    BY <1>1, SameSides DEF UnreadInv

LEMMA UnreadInsert ==
    ASSUME Typed, UnreadInv, NEW s \in Slots, InsertMessage(s),
           NEW c, c = req[s].conv, NEW u, u = req[s].user, NEW to, to = Receiver(u, c)
    PROVE  UnreadInv'
  <1> DEFINE q == [req[s] EXCEPT !.pc = "bump", !.at = Len(log[c]) + 1]
             l == Append(log[c], [sender |-> u, read |-> FALSE])
  <1>1. /\ req[s].pc = "insert" /\ conv' = conv /\ req' = [req EXCEPT ![s] = q]
        /\ log' = [log EXCEPT ![c] = l]
        /\ muddled' = IF Resetting(c, to) # {} THEN muddled \union {<<c, to>>} ELSE muddled
    BY DEF InsertMessage
  <1>2. /\ c \in Stored /\ c \in Conversations /\ u \in Users /\ req[s] \in Request
        /\ Member(u, c) /\ to \in Sides
    BY <1>1, RowTypes, SideTypes DEF About, Sending
  <1>3. q.pc = "bump" /\ q.conv = c /\ q.user = u
    BY <1>2 DEF Request
  <1>4. log[c] \in Seq(Message) /\ l \in Seq(Message)
    <2>1. log[c] \in Seq(Message)
      BY <1>2 DEF Typed, TypeOK
    <2>2. [sender |-> u, read |-> FALSE] \in Message
      BY <1>2 DEF Message
    <2> QED
      BY <2>1, <2>2
  <1>5. SameParties /\ log'[c] = l /\ \A d \in Conversations \ {c} : log'[d] = log[d]
    BY <1>1, <1>2, <1>4, LogStep
  <1>6. ASSUME conv[c].party[1] # conv[c].party[2]
        PROVE  /\ conv[c].party[Other(to)] = u
               /\ \A side \in Sides : side # to => conv[c].party[Other(side)] # u
    BY <1>2, <1>6 DEF Member, Receiver, SideOf, Other, Sides
  <1> HIDE DEF q, l
  <1>7. ASSUME NEW d \in Stored, NEW side \in Sides
        PROVE  Agrees(d, side)'
    <2>1. /\ d \in Conversations /\ Agrees(d, side) /\ conv'[d] = conv[d] /\ Goes(s, q)
          /\ <<d, side>> \in muddled => <<d, side>> \in muddled'
      BY <1>1 DEF Stored, UnreadInv, Goes
    <2>2. /\ Resetting(d, side)' = Resetting(d, side)
          /\ Counting(d, side)' = IF c = d /\ to = side THEN Counting(d, side) \union {s}
                                  ELSE Counting(d, side)
      <3>1. s \notin Resetting(d, side) /\ s \notin Counting(d, side)
        BY <1>1 DEF Resetting, Counting
      <3>2. /\ ~Resets(q, d, side)
            /\ Counts(q, d, side) <=> c = d /\ to = side
        BY <1>3 DEF Resets, Counts
      <3> QED
        <4>1. Resetting(d, side)' = IF Resets(q, d, side) THEN Resetting(d, side) \union {s}
                                      ELSE Resetting(d, side) \ {s}
          BY <1>5, <2>1, ResettingStep
        <4>2. Counting(d, side)' = IF Counts(q, d, side) THEN Counting(d, side) \union {s}
                                      ELSE Counting(d, side) \ {s}
          BY <1>5, <2>1, CountingStep
        <4> QED
          BY <3>1, <3>2, <4>1, <4>2
    <2>3. CASE d # c
      <3>1. Unread(d, side)' = Unread(d, side) /\ Counting(d, side)' = Counting(d, side)
        BY <1>5, <2>1, <2>2, <2>3 DEF Unread
      <3> QED
        BY <2>1, <2>2, <3>1, AgreesFrame
    <2>4. CASE d = c /\ conv[c].party[1] = conv[c].party[2]
      BY <2>1, <2>4 DEF Agrees
    <2>5. CASE d = c /\ conv[c].party[1] # conv[c].party[2] /\ side # to
      <3>1. UnreadOf(l, conv[c].party[Other(side)]) = UnreadOf(log[c], conv[c].party[Other(side)])
        BY <1>2, <1>4, <1>6, <2>5, UnreadAppend DEF l
      <3>2. Unread(d, side)' = Unread(d, side) /\ Counting(d, side)' = Counting(d, side)
        BY <1>1, <1>5, <2>2, <2>5, <3>1, UnreadIs, UnreadNext
      <3> QED
        BY <2>1, <2>2, <3>2, AgreesFrame
    <2>6. CASE d = c /\ conv[c].party[1] # conv[c].party[2] /\ side = to
      <3>1. CASE Resetting(c, to) # {}
        BY <1>1, <2>6, <3>1 DEF Agrees
      <3>2. CASE Resetting(c, to) = {}
        <4>1. Cardinality(UnreadOf(l, u)) = Cardinality(UnreadOf(log[c], u)) + 1
          BY <1>2, <1>4, UnreadAppend DEF l
        <4>2. Unread(d, side)' = Unread(d, side) + 1
          BY <1>1, <1>5, <1>6, <2>6, <4>1 DEF Unread, UnreadOf
        <4>3. Cardinality(Counting(d, side)') = Cardinality(Counting(d, side)) + 1
          <5>1. Counting(d, side)' = Counting(d, side) \union {s} /\ s \notin Counting(d, side)
            BY <1>1, <2>2, <2>6 DEF Counting
          <5> QED
            BY <5>1, CountingFinite, FS_AddElement
        <4>4. /\ Unread(d, side) \in Nat /\ conv[d].unread[side] \in Nat
              /\ Cardinality(Counting(d, side)) \in Nat
          <5>1. conv[d].unread[side] \in Nat
            BY <2>1 DEF Typed, TypeOK, Conversation
          <5>2. log[d] \in Seq(Message)
            BY <2>1 DEF Typed, TypeOK
          <5> QED
            BY <5>1, <5>2, UnreadIs, UnreadFinite, CountingFinite
        <4>5. <<d, side>> \in muddled' <=> <<d, side>> \in muddled
          BY <1>1, <3>2
        <4> QED
          BY <2>1, <2>2, <2>6, <3>2, <4>2, <4>3, <4>4, <4>5 DEF Agrees
      <3> QED
        BY <3>1, <3>2
    <2> QED
      BY <2>3, <2>4, <2>5, <2>6
  <1> QED
    BY <1>5, <1>7, SameSides DEF UnreadInv

LEMMA UnreadBump ==
    ASSUME Typed, UnreadInv, NEW s \in Slots, Bump(s),
           NEW c, c = req[s].conv, NEW to, to = Receiver(req[s].user, c)
    PROVE  UnreadInv'
  <1>1. /\ req[s].pc = "bump" /\ req' = [req EXCEPT ![s] = Idle] /\ log' = log
        /\ muddled' = muddled
    BY DEF Bump
  <1>2. Wrote(c, BumpRow(s)) /\ BumpRow(s).unread = [conv[c].unread EXCEPT ![to] = @ + 1]
    BY BumpWrites
  <1>3. /\ SameParties /\ conv'[c].unread = [conv[c].unread EXCEPT ![to] = @ + 1]
        /\ \A d \in Conversations \ {c} : conv'[d] = conv[d]
    BY <1>2, WroteRow
  <1>4. ASSUME NEW d \in Stored, NEW side \in Sides
        PROVE  Agrees(d, side)'
    <2>1. /\ d \in Conversations /\ Agrees(d, side) /\ conv'[d].party = conv[d].party
          /\ conv[d] \in Conversation /\ Goes(s, Idle)
      BY <1>1, <1>3 DEF Stored, UnreadInv, SameParties, Typed, TypeOK, Goes
    <2>2. Unread(d, side)' = Unread(d, side)
      BY <1>1, <2>1 DEF Unread
    <2>3. /\ Resetting(d, side)' = Resetting(d, side)
          /\ Counting(d, side)' = Counting(d, side) \ {s}
      <3>1. s \notin Resetting(d, side) /\ Idle.pc = "idle"
        BY <1>1 DEF Resetting, Idle
      <3>2. ~Resets(Idle, d, side) /\ ~Counts(Idle, d, side)
        BY <3>1 DEF Resets, Counts
      <3> QED
        <4>1. Resetting(d, side)' = IF Resets(Idle, d, side) THEN Resetting(d, side) \union {s}
                                      ELSE Resetting(d, side) \ {s}
          BY <1>3, <2>1, ResettingStep
        <4>2. Counting(d, side)' = IF Counts(Idle, d, side) THEN Counting(d, side) \union {s}
                                      ELSE Counting(d, side) \ {s}
          BY <1>3, <2>1, CountingStep
        <4> QED
          BY <3>1, <3>2, <4>1, <4>2
    <2>4. s \in Counting(d, side) <=> d = c /\ side = to
      BY <1>1 DEF Counting
    <2>5. CASE d # c \/ side # to
      <3>1. conv'[d].unread[side] = conv[d].unread[side]
        <4>1. CASE d # c
          BY <1>3, <2>1, <4>1
        <4>2. CASE d = c
          BY <1>3, <2>1, <2>5, <4>2 DEF Conversation
        <4> QED
          BY <4>1, <4>2
      <3> QED
        BY <1>1, <2>1, <2>2, <2>3, <2>4, <2>5, <3>1, AgreesFrame
    <2>6. CASE d = c /\ side = to
      <3>1. conv'[d].unread[side] = conv[d].unread[side] + 1 /\ conv[d].unread[side] \in Nat
        BY <1>3, <2>1, <2>6 DEF Conversation
      <3>2. Cardinality(Counting(d, side)') = Cardinality(Counting(d, side)) - 1
        <4>1. Cardinality(Counting(d, side) \ {s}) = Cardinality(Counting(d, side)) - 1
          BY <2>4, <2>6, CountingFinite, FS_RemoveElement
        <4> QED
          BY <2>3, <4>1
      <3>3. Counting(d, side) # {} /\ Cardinality(Counting(d, side)) \in Nat
        BY <2>4, <2>6, CountingFinite
      <3> QED
        BY <1>1, <2>1, <2>2, <2>3, <3>1, <3>2, <3>3 DEF Agrees
    <2> QED
      BY <2>5, <2>6
  <1> QED
    BY <1>3, <1>4, SameSides DEF UnreadInv

LEMMA UnreadMark ==
    ASSUME Typed, UnreadInv, NEW s \in Slots, MarkMessages(s),
           NEW c, c = req[s].conv, NEW u, u = req[s].user, NEW by, by = SideOf(u, c)
    PROVE  UnreadInv'
  <1> DEFINE q == [req[s] EXCEPT !.pc = "reset"]
             w == conv[c].party[Other(by)]
             l == Marked(c, w)
  <1>1. /\ req[s].pc = "mark" /\ conv' = conv /\ req' = [req EXCEPT ![s] = q]
        /\ log' = [log EXCEPT ![c] = l]
        /\ muddled' = IF Counting(c, by) # {} THEN muddled \union {<<c, by>>} ELSE muddled
    BY DEF MarkMessages, Marked
  <1>2. c \in Stored /\ c \in Conversations /\ req[s] \in Request /\ by \in Sides
    BY <1>1, RowTypes, SideTypes DEF About
  <1>3. q.pc = "reset" /\ q.conv = c /\ q.user = u
    BY <1>2 DEF Request
  <1>4. /\ l \in Seq(Message) /\ UnreadOf(l, w) = {}
        /\ \A v : v # w => UnreadOf(l, v) = UnreadOf(log[c], v)
    BY <1>2, MarkedType, UnreadMarked
  <1> HIDE DEF q, l
  <1>5. SameParties /\ log'[c] = l /\ \A d \in Conversations \ {c} : log'[d] = log[d]
    BY <1>1, <1>2, <1>4, LogStep
  <1>6. ASSUME NEW d \in Stored, NEW side \in Sides
        PROVE  Agrees(d, side)'
    <2>1. /\ d \in Conversations /\ Agrees(d, side) /\ conv'[d] = conv[d] /\ Goes(s, q)
          /\ <<d, side>> \in muddled => <<d, side>> \in muddled'
      BY <1>1 DEF Stored, UnreadInv, Goes
    <2>2. /\ Resetting(d, side)' = IF c = d /\ by = side THEN Resetting(d, side) \union {s}
                                   ELSE Resetting(d, side)
          /\ Counting(d, side)' = Counting(d, side)
      <3>1. s \notin Resetting(d, side) /\ s \notin Counting(d, side)
        BY <1>1 DEF Resetting, Counting
      <3>2. /\ ~Counts(q, d, side)
            /\ Resets(q, d, side) <=> c = d /\ by = side
        BY <1>3 DEF Resets, Counts
      <3> QED
        <4>1. Resetting(d, side)' = IF Resets(q, d, side) THEN Resetting(d, side) \union {s}
                                      ELSE Resetting(d, side) \ {s}
          BY <1>5, <2>1, ResettingStep
        <4>2. Counting(d, side)' = IF Counts(q, d, side) THEN Counting(d, side) \union {s}
                                      ELSE Counting(d, side) \ {s}
          BY <1>5, <2>1, CountingStep
        <4> QED
          BY <3>1, <3>2, <4>1, <4>2
    <2>3. CASE d # c
      <3>1. Unread(d, side)' = Unread(d, side) /\ Resetting(d, side)' = Resetting(d, side)
        BY <1>5, <2>1, <2>2, <2>3 DEF Unread
      <3> QED
        BY <2>1, <2>2, <3>1, AgreesFrame
    <2>4. CASE d = c /\ conv[c].party[1] = conv[c].party[2]
      BY <2>1, <2>4 DEF Agrees
    <2>5. CASE d = c /\ conv[c].party[1] # conv[c].party[2] /\ side # by
      <3>1. conv[c].party[Other(side)] # w
        BY <1>2, <2>5 DEF Other, Sides
      <3>2. Unread(d, side)' = Unread(d, side) /\ Resetting(d, side)' = Resetting(d, side)
        BY <1>1, <1>4, <1>5, <2>2, <2>5, <3>1, UnreadIs, UnreadNext
      <3> QED
        BY <2>1, <2>2, <3>2, AgreesFrame
    <2>6. CASE d = c /\ side = by
      <3>1. Unread(d, side)' = Cardinality({})
        BY <1>1, <1>4, <1>5, <2>6, UnreadNext
      <3>2. Resetting(d, side)' # {}
        BY <2>2, <2>6
      <3>3. <<d, side>> \notin muddled' => Counting(d, side) = {}
        BY <1>1, <2>6
      <3> QED
        BY <2>2, <3>1, <3>2, <3>3, FS_EmptySet DEF Agrees
    <2> QED
      BY <2>3, <2>4, <2>5, <2>6
  <1> QED
    BY <1>5, <1>6, SameSides DEF UnreadInv

LEMMA UnreadReset ==
    ASSUME Typed, UnreadInv, NEW s \in Slots, ResetCounter(s),
           NEW c, c = req[s].conv, NEW by, by = SideOf(req[s].user, c)
    PROVE  UnreadInv'
  <1>1. /\ req[s].pc = "reset" /\ Goes(s, Idle) /\ log' = log /\ muddled' = muddled
    BY DEF ResetCounter, history, Goes
  <1>2. Wrote(c, ResetRow(s)) /\ ResetRow(s).unread = [conv[c].unread EXCEPT ![by] = 0]
    BY ResetWrites
  <1>3. /\ SameParties /\ conv'[c].unread = [conv[c].unread EXCEPT ![by] = 0]
        /\ \A d \in Conversations \ {c} : conv'[d] = conv[d]
    BY <1>2, WroteRow
  <1>4. ASSUME NEW d \in Stored, NEW side \in Sides
        PROVE  Agrees(d, side)'
    <2>1. /\ d \in Conversations /\ Agrees(d, side) /\ conv'[d].party = conv[d].party
          /\ conv[d] \in Conversation
      BY <1>3 DEF Stored, UnreadInv, SameParties, Typed, TypeOK
    <2>2. Unread(d, side)' = Unread(d, side)
      BY <1>1, <2>1 DEF Unread
    <2>3. /\ Resetting(d, side)' = Resetting(d, side) \ {s}
          /\ Counting(d, side)' = Counting(d, side)
      <3>1. s \notin Counting(d, side) /\ Idle.pc = "idle"
        BY <1>1 DEF Counting, Idle
      <3>2. ~Resets(Idle, d, side) /\ ~Counts(Idle, d, side)
        BY <3>1 DEF Resets, Counts
      <3>3. Resetting(d, side)' = IF Resets(Idle, d, side) THEN Resetting(d, side) \union {s}
                                  ELSE Resetting(d, side) \ {s}
        BY <1>1, <1>3, <2>1, ResettingStep
      <3>4. Counting(d, side)' = IF Counts(Idle, d, side) THEN Counting(d, side) \union {s}
                                 ELSE Counting(d, side) \ {s}
        BY <1>1, <1>3, <2>1, CountingStep
      <3> QED
        BY <3>1, <3>2, <3>3, <3>4
    <2>4. s \in Resetting(d, side) <=> d = c /\ side = by
      BY <1>1 DEF Resetting
    <2>5. CASE d # c \/ side # by
      <3>1. conv'[d].unread[side] = conv[d].unread[side]
        <4>1. CASE d # c
          BY <1>3, <2>1, <4>1
        <4>2. CASE d = c
          BY <1>3, <2>1, <2>5, <4>2 DEF Conversation
        <4> QED
          BY <4>1, <4>2
      <3> QED
        BY <1>1, <2>1, <2>2, <2>3, <2>4, <2>5, <3>1, AgreesFrame
    <2>6. CASE d = c /\ side = by
      <3>1. conv'[d].unread[side] = 0
        BY <1>3, <2>1, <2>6 DEF Conversation
      <3>2. Resetting(d, side) # {} /\ Cardinality({}) = 0
        BY <2>4, <2>6, FS_EmptySet
      <3>3. CASE conv[d].party[1] # conv[d].party[2] /\ <<d, side>> \notin muddled
        <4>1. Unread(d, side) = 0 /\ Counting(d, side) = {}
          BY <2>1, <3>2, <3>3 DEF Agrees
        <4> QED
          BY <2>2, <2>3, <3>1, <3>2, <4>1 DEF Agrees
      <3>4. CASE ~(conv[d].party[1] # conv[d].party[2] /\ <<d, side>> \notin muddled)
        BY <1>1, <2>1, <3>4 DEF Agrees
      <3> QED
        BY <3>3, <3>4
    <2> QED
      BY <2>5, <2>6
  <1> QED
    BY <1>3, <1>4, SameSides DEF UnreadInv

LEMMA UnreadAbort ==
    ASSUME Typed, UnreadInv, NEW s \in Slots, Abort(s)
    PROVE  UnreadInv'
  <1>1. /\ conv' = conv /\ log' = log /\ Goes(s, Idle) /\ muddled \subseteq muddled'
        /\ Stored' = Stored
    BY DEF Abort, Goes, Stored
  <1>2. SameParties
    BY <1>1 DEF SameParties
  <1>3. ASSUME NEW d \in Stored, NEW side \in Sides
        PROVE  Agrees(d, side)'
    <2>1. d \in Conversations /\ Agrees(d, side) /\ conv'[d] = conv[d]
      BY <1>1 DEF Stored, UnreadInv
    <2>2. Unread(d, side)' = Unread(d, side)
      BY <1>1 DEF Unread
    <2>3. /\ Resetting(d, side)' = Resetting(d, side) \ {s}
          /\ Counting(d, side)' = Counting(d, side) \ {s}
      <3>1. ~Resets(Idle, d, side) /\ ~Counts(Idle, d, side)
        BY DEF Resets, Counts, Idle
      <3>2. Resetting(d, side)' = IF Resets(Idle, d, side) THEN Resetting(d, side) \union {s}
                                  ELSE Resetting(d, side) \ {s}
        BY <1>1, <1>2, <2>1, ResettingStep
      <3>3. Counting(d, side)' = IF Counts(Idle, d, side) THEN Counting(d, side) \union {s}
                                 ELSE Counting(d, side) \ {s}
        BY <1>1, <1>2, <2>1, CountingStep
      <3> QED
        BY <3>1, <3>2, <3>3
    <2>4. CASE s \in Resetting(d, side) \/ s \in Counting(d, side)
      <3>1. <<d, side>> \in muddled'
        BY <2>4 DEF Abort, Resetting, Counting
      <3> QED
        BY <3>1 DEF Agrees
    <2>5. CASE s \notin Resetting(d, side) /\ s \notin Counting(d, side)
      BY <1>1, <2>1, <2>2, <2>3, <2>5, AgreesFrame
    <2> QED
      BY <2>4, <2>5
  <1> QED
    BY <1>1, <1>3 DEF UnreadInv

LEMMA UnreadCreate ==
    ASSUME Typed, UnreadInv, NEW s \in Slots, NEW c \in Conversations, CreateConversation(s, c)
    PROVE  UnreadInv'
  <1> DEFINE r == [NoConversation EXCEPT !.party = [i \in Sides |->
                                             IF i = 1 THEN req[s].user ELSE req[s].to]]
             q == IF ~req[s].initial THEN Idle
                  ELSE [req[s] EXCEPT !.pc = IF req[s].op = "start" THEN "lookup"
                                             ELSE "insert",
                                      !.conv = c, !.seen = {}]
  <1>1. /\ req[s].pc = "create" /\ c \notin Stored /\ conv' = [conv EXCEPT ![c] = r]
        /\ req' = [req EXCEPT ![s] = q] /\ log' = log /\ muddled' = muddled
        /\ req[s] \in Request
    BY DEF CreateConversation, Typed, TypeOK
  <1>2. q.pc \notin {"bump", "reset"}
    BY <1>1 DEF Request, Idle
  <1>3. \A side \in Sides : r.unread[side] = 0
    BY DEF NoConversation
  <1> HIDE DEF q, r
  <1>4. conv'[c] = r /\ \A d \in Conversations \ {c} : conv'[d] = conv[d]
    BY <1>1 DEF Typed, TypeOK
  <1>5. \A t \in Slots : req'[t] = IF t = s THEN q ELSE req[t]
    BY <1>1 DEF Typed, TypeOK
  <1>6. \A t \in Slots : req[t].pc \in {"bump", "reset"} => req[t].conv \in Stored
    BY DEF Typed, Sound, About
  <1>7. ASSUME NEW d \in Stored, NEW side \in Sides
        PROVE  Agrees(d, side)'
    <2>1. d \in Conversations /\ d # c /\ Agrees(d, side) /\ conv'[d] = conv[d]
      BY <1>1, <1>4 DEF Stored, UnreadInv
    <2>2. Unread(d, side)' = Unread(d, side)
      BY <1>1, <2>1 DEF Unread
    <2>3. Resetting(d, side)' = Resetting(d, side)
      BY <1>1, <1>2, <1>5, <2>1 DEF Resetting, SideOf
    <2>4. Counting(d, side)' = Counting(d, side)
      BY <1>1, <1>2, <1>5, <2>1 DEF Counting, Receiver, SideOf
    <2> QED
      BY <1>1, <2>1, <2>2, <2>3, <2>4, AgreesFrame
  <1>8. ASSUME NEW side \in Sides
        PROVE  Agrees(c, side)'
    <2>1. log'[c] = <<>>
      BY <1>1 DEF Typed, Tables
    <2>2. UnreadOf(log'[c], conv'[c].party[Other(side)]) = {}
      BY <2>1 DEF UnreadOf
    <2>3. Unread(c, side)' = 0
      BY <2>2, UnreadNext, FS_EmptySet
    <2>4. Resetting(c, side)' = {} /\ Counting(c, side)' = {}
      BY <1>1, <1>2, <1>5, <1>6 DEF Resetting, Counting
    <2>5. conv'[c].unread[side] = 0
      BY <1>3, <1>4
    <2> QED
      BY <2>3, <2>4, <2>5, FS_EmptySet DEF Agrees
  <1>9. Stored' \subseteq Stored \union {c}
    BY <1>4 DEF Stored
  <1> QED
    BY <1>7, <1>8, <1>9 DEF UnreadInv

LEMMA UnreadStep == Typed /\ UnreadInv /\ [Next]_vars => UnreadInv'
  <1> SUFFICES ASSUME Typed, UnreadInv, [Next]_vars PROVE UnreadInv'
    OBVIOUS
  <1>0. Idle.pc = "idle" /\ \A c \in Stored : c \in Conversations
    BY DEF Idle, Stored
  <1>1. ASSUME conv' = conv, log' = log, req' = req, muddled' = muddled
        PROVE  UnreadInv'
    <2>1. ASSUME NEW c \in Stored, NEW side \in Sides
          PROVE  Agrees(c, side)'
      <3>1. Unread(c, side)' = Unread(c, side) /\ Resetting(c, side)' = Resetting(c, side)
            /\ Counting(c, side)' = Counting(c, side)
        BY <1>1 DEF Unread, Resetting, Counting, Receiver, SideOf
      <3> QED
        BY <1>1, <3>1, AgreesFrame DEF UnreadInv
    <2> QED
      BY <1>1, <2>1 DEF UnreadInv, Stored
  <1>2. ASSUME NEW s \in Slots, Handle(s) PROVE UnreadInv'
    <2>1. PICK q \in Request : /\ Began(s, q)
                               /\ q.pc \in {"create", "lookup", "insert", "mark", "unblock"}
      BY <1>2, Begins
    <2>2. /\ req[s].pc = "idle" /\ req' = [req EXCEPT ![s] = q] /\ conv' = conv
          /\ log' = log /\ muddled' = muddled /\ SameParties
      BY <2>1 DEF Began, history, SameParties
    <2> QED
      BY <2>1, <2>2, AgreesAside
  <1>3. ASSUME NEW u \in Users, NEW c \in Conversations, BlockUser(u, c) PROVE UnreadInv'
    <2> DEFINE r == [conv[c] EXCEPT !.blockedBy = u]
    <2>1. Wrote(c, r) /\ r.unread = conv[c].unread /\ req' = req /\ log' = log
          /\ muddled' = muddled
      BY <1>3, BlockWrites DEF BlockUser
    <2> HIDE DEF r
    <2>2. /\ Stored' = Stored /\ SameParties
          /\ \A d \in Stored : conv'[d].unread = conv[d].unread
      BY <1>0, <2>1, WroteRow, SameSides
    <2>3. ASSUME NEW d \in Stored, NEW side \in Sides
          PROVE  Agrees(d, side)'
      <3>1. Agrees(d, side) /\ conv'[d].party = conv[d].party
        BY <1>0, <2>2 DEF UnreadInv, SameParties
      <3>2. Unread(d, side)' = Unread(d, side) /\ Resetting(d, side)' = Resetting(d, side)
            /\ Counting(d, side)' = Counting(d, side)
        BY <2>1, <3>1 DEF Unread, Resetting, Counting, Receiver, SideOf
      <3> QED
        BY <2>1, <2>2, <3>1, <3>2, AgreesFrame
    <2> QED
      BY <2>2, <2>3 DEF UnreadInv
  <1>4. ASSUME NEW s \in Slots, Lookup(s) PROVE UnreadInv'
    <2> DEFINE q == IF conv[req[s].conv].blockedBy = None
                    THEN [req[s] EXCEPT !.pc = "insert"] ELSE Idle
    <2>1. /\ req[s].pc = "lookup" /\ req[s] \in Request /\ req' = [req EXCEPT ![s] = q]
          /\ conv' = conv /\ log' = log /\ muddled' = muddled /\ SameParties
      BY <1>4 DEF Lookup, history, SameParties, Typed, TypeOK
    <2>2. q.pc \notin {"bump", "reset"}
      BY <1>0, <2>1 DEF Request
    <2> HIDE DEF q
    <2> QED
      BY <2>1, <2>2, AgreesAside
  <1>5. ASSUME NEW s \in Slots, LiftBlock(s) PROVE UnreadInv'
    <2> DEFINE c == req[s].conv
               r == [conv[c] EXCEPT !.blockedBy = None]
    <2>1. c \in Stored
      BY <1>5, RowTypes DEF LiftBlock, About
    <2>2. Wrote(c, r) /\ r.unread = conv[c].unread
      BY <1>5, <2>1, BlockWrites DEF LiftBlock
    <2> HIDE DEF r
    <2>3. SameParties /\ \A d \in Stored : conv'[d].unread = conv[d].unread
      BY <1>0, <2>2, WroteRow
    <2>4. /\ req[s].pc = "unblock" /\ req' = [req EXCEPT ![s] = Idle] /\ log' = log
          /\ muddled' = muddled
      BY <1>5 DEF LiftBlock
    <2> QED
      BY <1>0, <2>3, <2>4, AgreesAside
  <1>6. CASE UNCHANGED vars
    BY <1>1, <1>6 DEF vars, history
  <1> QED
    BY <1>2, <1>3, <1>4, <1>5, <1>6, UnreadCreate, UnreadInsert, UnreadBump, UnreadMark,
       UnreadReset, UnreadAbort, NextSteps DEF Steps

LEMMA UnreadInit == Init => UnreadInv
  BY DEF Init, UnreadInv, Stored, NoConversation, Sides

\* What a participant's badge shows is what is unread, whenever nobody is between
\* reading and resetting, unless a send met a read or a request died half way.
THEOREM BadgeIsUnread == Spec => []UnreadCounterRight
  <1>1. UnreadInv => UnreadCounterRight
    BY DEF UnreadInv, Agrees, UnreadCounterRight
  <1> QED
    BY <1>1, TypedInit, TypedStep, UnreadInit, UnreadStep, PTL DEF Spec
=============================================================================
