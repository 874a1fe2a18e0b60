------------------------------ MODULE Tickets ------------------------------
(***************************************************************************)
(* Maintenance tickets: the row of a ticket with its status, its provider  *)
(* and its job, and the handlers of MaintenanceTicketsService, cut at      *)
(* their awaits.                                                           *)
(*                                                                         *)
(* Every handler reads the ticket with the related provider and job.  Of a *)
(* relation that was loaded and the key column beside it, TypeORM's save   *)
(* believes the relation: a key assigned to a ticket that has a provider   *)
(* or a job already is shown in the answer and never stored.  For the rest *)
(* a ticket is saved the way Jobs tells.                                   *)
(***************************************************************************)
EXTENDS Naturals

CONSTANTS
    TicketKeys,         \* primary keys of maintenance_tickets
    JobKeys,            \* primary keys of jobs
    Workers,            \* users a ticket may be given to
    TicketSlots,        \* requests the server handles at the same time
    NoKey,              \* SQL NULL
    MaxTicketRequests   \* bound: requests begun

ASSUME TicketsAssumption ==
    /\ NoKey \notin TicketKeys
    /\ NoKey \notin JobKeys
    /\ NoKey \notin Workers
    /\ JobKeys \intersect TicketKeys = {}

VARIABLES
    ticket,     \* ticket[t]: the row, NoTicket when there is none
    madeFor,    \* madeFor[j]: the ticket job j was made from, itself for another job
    treq,       \* treq[s]: the request in slot s
    (* history, never read by the code *)
    tbegun,     \* requests begun so far, at most MaxTicketRequests
    filed,      \* primary keys of tickets given out
    claimed,    \* claimed[t]: the ticket as the last answer showed it
    occupied,   \* tickets given another provider or job, or none, while they had one
    overwritten,\* tickets saved from an object that was out of date
    unlinked    \* jobs whose request died before the link was saved

ticketHistory == <<tbegun, filed, claimed, occupied, overwritten, unlinked>>
ticketsVars == <<ticket, madeFor, treq, ticketHistory>>

\* Work in progress, completed and rejected are the same to every handler.
TicketStatus == {"pending", "assigned", "other"}
TicketRow == [exists : BOOLEAN, status : TicketStatus, provider : Workers \union {NoKey},
              job : JobKeys \union {NoKey}]
NoTicket == [exists |-> FALSE, status |-> "pending", provider |-> NoKey, job |-> NoKey]

\* A request holds what it will store (row), what it will answer (answer), and the
\* columns save is about to update.  stale is history: the row was written since.
TicketRequest == [pc : {"idle", "makeJob", "diff", "update", "reinsert", "remove"},
                  ticket : TicketKeys \union {NoKey}, row : TicketRow, answer : TicketRow,
                  cols : SUBSET {"status", "provider", "job"},
                  made : JobKeys \union {NoKey}, stale : BOOLEAN]
NoTicketRequest == [pc |-> "idle", ticket |-> NoKey, row |-> NoTicket, answer |-> NoTicket,
                    cols |-> {}, made |-> NoKey, stale |-> FALSE]

TicketsInit ==
    /\ ticket = [t \in TicketKeys |-> NoTicket]
    /\ madeFor = [j \in JobKeys |-> NoKey]
    /\ treq = [s \in TicketSlots |-> NoTicketRequest]
    /\ tbegun = 0
    /\ filed = {}
    /\ claimed = [t \in TicketKeys |-> NoTicket]
    /\ occupied = {}
    /\ overwritten = {}
    /\ unlinked = {}

StoredJobs == {j \in JobKeys : madeFor[j] # NoKey}

-----------------------------------------------------------------------------

\* create; the tenant's account exists.
CreateTicket(t) ==
    /\ t \notin filed
    /\ filed' = filed \union {t}
    /\ ticket' = [ticket EXCEPT ![t] = [NoTicket EXCEPT !.exists = TRUE]]
    /\ claimed' = [claimed EXCEPT ![t] = [NoTicket EXCEPT !.exists = TRUE]]
    /\ UNCHANGED <<madeFor, treq, tbegun, occupied, overwritten, unlinked>>

\* JobsService.create behind its own endpoint.
CreateOtherJob(j) ==
    /\ madeFor[j] = NoKey
    /\ madeFor' = [madeFor EXCEPT ![j] = j]
    /\ UNCHANGED <<ticket, treq, ticketHistory>>

\* The keys that an assignment of the columns of asked leaves to be stored.
Stores(read, asked) ==
    [asked EXCEPT !.provider = IF read.provider = NoKey THEN asked.provider ELSE read.provider,
                  !.job = IF read.job = NoKey THEN asked.job ELSE read.job]

\* findOne, the check of the caller (ownerId is never set: an administrator, or the
\* assigned provider for the status), and the object as the handler changes it.
StartTicket(s, t, pc, asked) ==
    /\ treq[s].pc = "idle"
    /\ ticket[t].exists
    /\ tbegun < MaxTicketRequests
    /\ tbegun' = tbegun + 1
    /\ treq' = [treq EXCEPT ![s] = [NoTicketRequest EXCEPT !.pc = pc, !.ticket = t,
                                        !.row = Stores(ticket[t], asked), !.answer = asked]]
    /\ UNCHANGED <<ticket, madeFor, filed, claimed, occupied, overwritten, unlinked>>

\* (mutant) the provider is stored, the status is forgotten
AssignWithoutStatus(s, t, w) ==
    /\ treq[s].pc = "idle"
    /\ ticket[t].exists
    /\ tbegun < MaxTicketRequests
    /\ tbegun' = tbegun + 1
    /\ treq' = [treq EXCEPT ![s] = [NoTicketRequest EXCEPT !.pc = "diff", !.ticket = t,
                   !.row = Stores(ticket[t], [ticket[t] EXCEPT !.provider = w]),
                   !.answer = [ticket[t] EXCEPT !.provider = w, !.status = "assigned"]]]
    /\ UNCHANGED <<ticket, madeFor, filed, claimed, occupied, overwritten, unlinked>>

AssignTicketProvider(s, t, w) ==
    StartTicket(s, t, "diff", [ticket[t] EXCEPT !.provider = w, !.status = "assigned"])

UpdateTicketStatus(s, t, status) ==
    StartTicket(s, t, "diff", [ticket[t] EXCEPT !.status = status])

\* update: the body may name any of the columns, and may name a key as null.
UpdateTicket(s, t, asked) ==
    /\ asked.exists
    /\ asked.job \in StoredJobs \union {NoKey}
    /\ StartTicket(s, t, "diff", asked)

LinkJob(s, t, j) ==
    /\ j \in StoredJobs
    /\ StartTicket(s, t, "diff", [ticket[t] EXCEPT !.job = j])

CreateJobFromTicket(s, t) == StartTicket(s, t, "makeJob", ticket[t])

\* (mutant) the job is made and the ticket is not touched when it has a provider
MakeJobUnlinked(s, j) ==
    LET asked == [treq[s].answer EXCEPT !.job = j] IN
    /\ treq[s].pc = "makeJob"
    /\ madeFor[j] = NoKey
    /\ madeFor' = [madeFor EXCEPT ![j] = treq[s].ticket]
    /\ treq' = [treq EXCEPT ![s] = IF treq[s].row.provider # NoKey THEN NoTicketRequest
                                   ELSE [treq[s] EXCEPT !.pc = "diff", !.made = j, !.answer = asked,
                                                        !.row = Stores(treq[s].row, asked)]]
    /\ UNCHANGED <<ticket, ticketHistory>>

\* JobsService.create, then the link.
MakeJob(s, j) ==
    LET asked == [treq[s].answer EXCEPT !.job = j] IN
    /\ treq[s].pc = "makeJob"
    /\ madeFor[j] = NoKey
    /\ madeFor' = [madeFor EXCEPT ![j] = treq[s].ticket]
    /\ treq' = [treq EXCEPT ![s] = [treq[s] EXCEPT !.pc = "diff", !.made = j, !.answer = asked,
                                                   !.row = Stores(treq[s].row, asked)]]
    /\ UNCHANGED <<ticket, ticketHistory>>

-----------------------------------------------------------------------------
(* ticketRepository.save and remove                                        *)

DiffersIn(s) ==
    {c \in {"status", "provider", "job"} : treq[s].row[c] # ticket[treq[s].ticket][c]}

\* The answer is the object, with the keys that were assigned to it.
Answered(s, t) ==
    /\ claimed' = [claimed EXCEPT ![t] = treq[s].answer]
    /\ occupied' = IF \E c \in {"provider", "job"} : treq[s].answer[c] # treq[s].row[c]
                   THEN occupied \union {t} ELSE occupied

\* Ticket t is written: the other requests that have read it hold an old object.
WroteTicket(s, t, after) ==
    treq' = [r \in TicketSlots |-> IF r = s THEN after
                                   ELSE IF treq[r].ticket = t THEN [treq[r] EXCEPT !.stale = TRUE]
                                   ELSE treq[r]]

DiffTicket(s) ==
    LET t == treq[s].ticket
        same == ticket[t].exists /\ DiffersIn(s) = {}
    IN
    /\ treq[s].pc = "diff"
    /\ treq' = [treq EXCEPT ![s] = IF ~ticket[t].exists THEN [treq[s] EXCEPT !.pc = "reinsert"]
                                   ELSE IF same THEN NoTicketRequest
                                   ELSE [treq[s] EXCEPT !.pc = "update", !.cols = DiffersIn(s)]]
    /\ IF same THEN Answered(s, t) ELSE UNCHANGED <<claimed, occupied>>
    /\ UNCHANGED <<ticket, madeFor, tbegun, filed, overwritten, unlinked>>

\* A row removed meanwhile is not there to update, which is no error.
SaveTicket(s) ==
    LET t == treq[s].ticket
        to(c) == IF c \in treq[s].cols THEN treq[s].row[c] ELSE ticket[t][c]
    IN
    /\ treq[s].pc = "update"
    /\ ticket' = IF ticket[t].exists
                 THEN [ticket EXCEPT ![t] = [exists |-> TRUE, status |-> to("status"),
                                             provider |-> to("provider"), job |-> to("job")]]
                 ELSE ticket
    /\ overwritten' = IF treq[s].stale THEN overwritten \union {t} ELSE overwritten
    /\ Answered(s, t)
    /\ WroteTicket(s, t, NoTicketRequest)
    /\ UNCHANGED <<madeFor, tbegun, filed, unlinked>>

ReinsertTicket(s) ==
    LET t == treq[s].ticket IN
    /\ treq[s].pc = "reinsert"
    /\ ~ticket[t].exists
    /\ ticket' = [ticket EXCEPT ![t] = treq[s].row]
    /\ overwritten' = overwritten \union {t}
    /\ Answered(s, t)
    /\ WroteTicket(s, t, NoTicketRequest)
    /\ UNCHANGED <<madeFor, tbegun, filed, unlinked>>

RemoveTicket(s, t) == StartTicket(s, t, "remove", ticket[t])

DeleteTicket(s) ==
    LET t == treq[s].ticket IN
    /\ treq[s].pc = "remove"
    /\ ticket' = [ticket EXCEPT ![t] = NoTicket]
    /\ WroteTicket(s, t, NoTicketRequest)
    /\ UNCHANGED <<madeFor, ticketHistory>>

\* A database call fails, or the process dies.
AbortTicket(s) ==
    /\ treq[s].pc # "idle"
    /\ treq' = [treq EXCEPT ![s] = NoTicketRequest]
    /\ unlinked' = unlinked \union ({treq[s].made} \ {NoKey})
    /\ UNCHANGED <<ticket, madeFor, tbegun, filed, claimed, occupied, overwritten>>

HandleTicket(s, t) ==
    \/ \E w \in Workers : AssignTicketProvider(s, t, w)
    \/ \E status \in TicketStatus : UpdateTicketStatus(s, t, status)
    \/ \E asked \in TicketRow : UpdateTicket(s, t, asked)
    \/ \E j \in JobKeys : LinkJob(s, t, j)
    \/ CreateJobFromTicket(s, t)
    \/ RemoveTicket(s, t)

ContinueTicket(s) ==
    \/ \E j \in JobKeys : MakeJob(s, j)
    \/ DiffTicket(s) \/ SaveTicket(s) \/ ReinsertTicket(s) \/ DeleteTicket(s) \/ AbortTicket(s)

TicketsNext ==
    \/ \E t \in TicketKeys : CreateTicket(t)
    \/ \E j \in JobKeys : CreateOtherJob(j)
    \/ \E s \in TicketSlots, t \in TicketKeys : HandleTicket(s, t)
    \/ \E s \in TicketSlots : ContinueTicket(s)

TicketsSpec == TicketsInit /\ [][TicketsNext]_ticketsVars

-----------------------------------------------------------------------------
(* Properties                                                              *)

TicketsTypeOK ==
    /\ ticket \in [TicketKeys -> TicketRow]
    /\ madeFor \in [JobKeys -> TicketKeys \union JobKeys \union {NoKey}]
    /\ treq \in [TicketSlots -> TicketRequest]
    /\ tbegun \in Nat
    /\ filed \in SUBSET TicketKeys
    /\ claimed \in [TicketKeys -> TicketRow]
    /\ occupied \in SUBSET TicketKeys
    /\ overwritten \in SUBSET TicketKeys
    /\ unlinked \in SUBSET JobKeys

\* A ticket is what the last answer about it showed, unless a provider or a job was
\* assigned to a ticket that had one, or an object out of date was saved.
AnswersTrue ==
    \A t \in TicketKeys \ (occupied \union overwritten) :
        ticket[t].exists => ticket[t] = claimed[t]

\* A job made from a ticket is the ticket's job once its request is over, unless the
\* ticket had a job already, an object out of date was saved, or the request died
\* between the two saves.
JobsLinked ==
    \A j \in StoredJobs \ unlinked, t \in TicketKeys \ (occupied \union overwritten) :
        (madeFor[j] = t /\ ticket[t].exists /\ \A s \in TicketSlots : treq[s].made # j) =>
            ticket[t].job = j
=============================================================================
