------------------------------ MODULE ChatPage ------------------------------
(***************************************************************************)
(* The messages page of a dashboard: the conversation that is open, the    *)
(* messages it lists, the loads that replace them, and the one message     *)
(* being sent, which is listed as a temporary one until it is answered.    *)
(* What the server does with a message is in Messages; here the rows of a  *)
(* conversation only grow.                                                 *)
(***************************************************************************)
EXTENDS Naturals, Sequences

CONSTANTS
    Chats,          \* the conversations in the list
    NoChat,         \* null
    MaxTexts,       \* bound: messages ever written
    PageSize,       \* messages a load asks for, 100
    MaxLoads        \* bound: loads in flight at the same time

ASSUME ChatAssumption ==
    /\ NoChat \notin Chats
    /\ PageSize \in Nat \ {0} /\ MaxTexts \in Nat \ {0} /\ MaxLoads \in Nat \ {0}

Texts == 1 .. MaxTexts
NoText == 0

VARIABLES
    chatOf,     \* chatOf[t]: the conversation of message t, NoChat when unwritten
    stored,     \* the messages in the order of their rows
    opened,     \* selectedConversation
    listed,     \* messages: [text, temp]
    spinning,   \* messagesLoading
    sending,    \* [text, pc]: the message being sent
    load,       \* load[k]: a getConversation in flight
    (* history, never read by the code *)
    crossed     \* the messages listed come from a load that overlapped another

chatVars == <<chatOf, stored, opened, listed, spinning, sending, load, crossed>>

Item == [text : Texts, temp : BOOLEAN]

\* alone is history: no other load has been in flight with this one.
Load == [pc : {"none", "asked", "answer"}, chat : Chats \union {NoChat}, rows : Seq(Item),
         alone : BOOLEAN]
NoLoad == [pc |-> "none", chat |-> NoChat, rows |-> <<>>, alone |-> FALSE]
NoSending == [text |-> NoText, pc |-> "none"]

ChatInit ==
    /\ chatOf = [t \in Texts |-> NoChat]
    /\ stored = <<>>
    /\ opened = NoChat
    /\ listed = <<>>
    /\ spinning = FALSE
    /\ sending = NoSending
    /\ load = [k \in 1 .. MaxLoads |-> NoLoad]
    /\ crossed = FALSE

\* Messages are numbered as they are written.
Written(t, c) ==
    /\ chatOf[t] = NoChat
    /\ \A u \in Texts : u < t => chatOf[u] # NoChat
    /\ chatOf' = [chatOf EXCEPT ![t] = c]

\* The elements of s that are in keep, in their order.
Filtered(s, keep) ==
    LET upTo[n \in 0 .. Len(s)] ==
            IF n = 0 THEN <<>>
            ELSE IF s[n] \in keep THEN Append(upTo[n - 1], s[n]) ELSE upTo[n - 1]
    IN upTo[Len(s)]

\* The newest messages of c, in the order of their rows.
RowsOf(c) ==
    LET rows == Filtered(stored, {t \in Texts : chatOf[t] = c})
        skipped == IF Len(rows) > PageSize THEN Len(rows) - PageSize ELSE 0
    IN [i \in 1 .. Len(rows) - skipped |-> [text |-> rows[skipped + i], temp |-> FALSE]]

\* What is listed without the temporary message.
ListedOthers == Filtered(listed, {m \in Item : ~(m.temp /\ m.text = sending.text)})

-----------------------------------------------------------------------------
(* The page                                                                *)

\* handleSelectConversation, and the link that names one: its messages are loaded;
\* those of the one before stay until then, behind the spinner.
SelectConversation(k, c) ==
    LET busyLoads == {i \in 1 .. MaxLoads : load[i].pc # "none"} IN
    /\ load[k].pc = "none"
    /\ \A i \in 1 .. MaxLoads : i < k => load[i].pc # "none"
    /\ opened' = c
    /\ spinning' = TRUE
    /\ load' = [i \in 1 .. MaxLoads |->
                   IF i = k
                   THEN [NoLoad EXCEPT !.pc = "asked", !.chat = c, !.alone = busyLoads = {}]
                   ELSE [load[i] EXCEPT !.alone = FALSE]]
    /\ UNCHANGED <<chatOf, stored, listed, sending, crossed>>

\* handleSendMessage, up to the request: the input does not wait for a load.
SendMessage(t) ==
    /\ opened # NoChat
    /\ sending = NoSending
    /\ Written(t, opened)
    /\ listed' = Append(listed, [text |-> t, temp |-> TRUE])
    /\ sending' = [text |-> t, pc |-> "sent"]
    /\ UNCHANGED <<stored, opened, spinning, load, crossed>>

\* Another participant writes.
Arrives(t, c) ==
    /\ Written(t, c)
    /\ stored' = Append(stored, t)
    /\ UNCHANGED <<opened, listed, spinning, sending, load, crossed>>

\* The server stores the message.
StoreSent ==
    /\ sending.pc = "sent"
    /\ stored' = Append(stored, sending.text)
    /\ sending' = [sending EXCEPT !.pc = "stored"]
    /\ UNCHANGED <<chatOf, opened, listed, spinning, load, crossed>>

\* (mutant) what was sent is added, the temporary message taken out
SentAppended ==
    /\ sending.pc = "stored"
    /\ listed' = Append(ListedOthers, [text |-> sending.text, temp |-> FALSE])
    /\ sending' = NoSending
    /\ UNCHANGED <<chatOf, stored, opened, spinning, load, crossed>>

\* The answer takes the place of the temporary message, if that is still listed.
SentAnswered ==
    /\ sending.pc = "stored"
    /\ listed' = [i \in DOMAIN listed |->
                     IF listed[i].temp /\ listed[i].text = sending.text
                     THEN [listed[i] EXCEPT !.temp = FALSE] ELSE listed[i]]
    /\ sending' = NoSending
    /\ UNCHANGED <<chatOf, stored, opened, spinning, load, crossed>>

\* The request fails, or its answer is lost: the temporary message is taken out.
SendFails ==
    /\ sending.pc # "none"
    /\ listed' = ListedOthers
    /\ sending' = NoSending
    /\ UNCHANGED <<chatOf, stored, opened, spinning, load, crossed>>

\* findAndCount of getConversation.
ServeConversation(k) ==
    /\ load[k].pc = "asked"
    /\ load' = [load EXCEPT ![k].pc = "answer", ![k].rows = RowsOf(load[k].chat)]
    /\ UNCHANGED <<chatOf, stored, opened, listed, spinning, sending, crossed>>

\* What is listed becomes rows, temporary messages included in what is replaced.
EndLoad(k, rows) ==
    /\ listed' = rows
    /\ spinning' = FALSE
    /\ crossed' = ~load[k].alone
    /\ load' = [load EXCEPT ![k] = NoLoad]
    /\ UNCHANGED <<chatOf, stored, opened, sending>>

Loaded(k) == load[k].pc = "answer" /\ EndLoad(k, load[k].rows)

\* (mutant) a failed load leaves the list
LoadFailsLeaving(k) == load[k].pc # "none" /\ EndLoad(k, listed)

\* A failed load empties the list.
LoadFails(k) == load[k].pc # "none" /\ EndLoad(k, <<>>)

ChatNext ==
    \/ StoreSent \/ SentAnswered \/ SendFails
    \/ \E t \in Texts : SendMessage(t) \/ \E c \in Chats : Arrives(t, c)
    \/ \E k \in 1 .. MaxLoads :
          \/ ServeConversation(k) \/ Loaded(k) \/ LoadFails(k)
          \/ \E c \in Chats : SelectConversation(k, c)

ChatSpec == ChatInit /\ [][ChatNext]_chatVars

-----------------------------------------------------------------------------
(* Properties                                                              *)

ChatTypeOK ==
    /\ chatOf \in [Texts -> Chats \union {NoChat}]
    /\ stored \in Seq(Texts)
    /\ opened \in Chats \union {NoChat}
    /\ listed \in Seq(Item)
    /\ spinning \in BOOLEAN /\ crossed \in BOOLEAN
    /\ sending \in [text : Texts \union {NoText}, pc : {"none", "sent", "stored"}]
    /\ load \in [1 .. MaxLoads -> Load]

\* No message is listed twice, however loads and the answer to a send interleave,
\* and a temporary one only while it is being sent.
SentOnce ==
    \A i, j \in DOMAIN listed :
        /\ listed[i].text = listed[j].text => i = j
        /\ listed[i].temp => listed[i].text = sending.text

\* The messages listed are those of the open conversation, unless the load they came
\* from overlapped another one.
OwnMessages ==
    (~spinning /\ ~crossed) => \A i \in DOMAIN listed : chatOf[listed[i].text] = opened
=============================================================================
