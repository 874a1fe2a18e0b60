-------------------------------- MODULE Jobs --------------------------------
(***************************************************************************)
(* The jobs service: every handler of JobsService as the steps between its *)
(* awaits, running concurrently against the jobs and providers tables.     *)
(*                                                                         *)
(* No handler opens a transaction or takes a lock.  A handler reads a row, *)
(* checks it, changes the object in memory and hands it to                 *)
(* repository.save.  TypeORM's save reads the row again (Diff), takes the  *)
(* columns in which the object differs from it, and updates these columns  *)
(* (Update): an object read before somebody else's update takes that       *)
(* update back.                                                            *)
(***************************************************************************)
EXTENDS Naturals, FiniteSets

CONSTANTS
    Users,          \* primary keys of the users table
    Clients,        \* users that ask for jobs
    Admins,         \* users whose role is ADMIN
    Profiles,       \* users with a row in the providers table
    ProviderRole,   \* users whose role is SERVICE_PROVIDER or PROPERTY_MANAGER
    Jobs,           \* primary keys the jobs table may hold
    Slots,          \* requests the server handles at the same time
    None,           \* SQL NULL
    MaxRequests     \* bound: requests that follow the creations

ASSUME ConstantsAssumption ==
    /\ Clients \subseteq Users
    /\ Admins \subseteq Users
    /\ Profiles \subseteq Users
    /\ ProviderRole \subseteq Users
    /\ None \notin Users
    /\ IsFiniteSet(Slots)

VARIABLES
    job,            \* job[j]: the row, status "NONE" before the insert
    completedJobs,  \* completedJobs[p]: the column of p's row in providers
    req,            \* req[s]: the request in slot s
    fired,          \* <<event, job>>: events emitted so far that tell somebody
    (* history, never read by the code *)
    begun,          \* requests begun so far, at most MaxRequests
    been,           \* been[j]: the working statuses the row has had
    wild,           \* jobs updated after a stale read or without a check
    racedCounter,   \* providers whose counter was written after a stale read
    finished,       \* finished[p]: completeJob requests of p that succeeded
    interrupted     \* providers with a completeJob that died after counting

history == <<begun, been, wild, racedCounter, finished, interrupted>>
vars == <<job, completedJobs, req, fired, history>>

JobStatus == {"PENDING", "ACCEPTED", "IN_PROGRESS", "COMPLETED", "CANCELLED",
              "DISPUTED"}
Working == {"ACCEPTED", "IN_PROGRESS", "COMPLETED"}

Columns == {"client", "provider", "status", "rated"}
Row == [client : Users \union {None}, provider : Users \union {None},
        status : JobStatus \union {"NONE"}, rated : BOOLEAN]
NoRow == [client |-> None, provider |-> None, status |-> "NONE",
          rated |-> FALSE]

Events == {"job.created", "job.assigned", "job.accepted", "job.started",
           "job.completed"}

Operations == {"updateStatus", "updateProgress", "addRating", "assignProvider",
               "acceptJob", "completeJob", "startJob"}

\* A request holds the row it wants to save, then (cols) the columns save is about
\* to update and, in completeJob, the provider and the counter it is to write.
\* stale, cstale and override are history: the row (the counter) was updated by
\* somebody else since this request read it; the request overrides the checks.
Request == [pc : {"idle", "findProvider", "saveProvider", "diff", "update", "respond"},
            op : Operations \union {"none"}, by : Users \union {None},
            job : Jobs \union {None}, row : Row, cols : SUBSET Columns,
            count : Nat, stale : BOOLEAN, cstale : BOOLEAN, override : BOOLEAN]
Idle == [pc |-> "idle", op |-> "none", by |-> None, job |-> None,
         row |-> NoRow, cols |-> {}, count |-> 0, stale |-> FALSE,
         cstale |-> FALSE, override |-> FALSE]

Init ==
    /\ job = [j \in Jobs |-> NoRow]
    /\ completedJobs = [p \in Profiles |-> 0]
    /\ req = [s \in Slots |-> Idle]
    /\ fired = {}
    /\ begun = 0
    /\ been = [j \in Jobs |-> {}]
    /\ wild = {}
    /\ racedCounter = {}
    /\ finished = [p \in Profiles |-> 0]
    /\ interrupted = {}

-----------------------------------------------------------------------------
(* create: the provider named in the request is a row of providers, or a   *)
(* user with a provider's role; the insert and the events follow.  Users   *)
(* and providers do not change in this module, so only the insert matters. *)

Create(u, p, j, announced) ==
    /\ job[j].status = "NONE"
    /\ p \in Profiles \union ProviderRole \union {None}
    /\ job' = [job EXCEPT ![j] = [NoRow EXCEPT !.client = u, !.provider = p,
                                               !.status = "PENDING"]]
    \* the retry without images emits nothing, nor does a process that dies
    /\ fired' = IF announced
                THEN fired \union {<<"job.created", j>>}
                           \union (IF p # None THEN {<<"job.assigned", j>>} ELSE {})
                ELSE fired
    /\ UNCHANGED <<completedJobs, req, history>>

-----------------------------------------------------------------------------
(* The other handlers start by reading the job; a request whose checks     *)
(* fail on that read changes nothing and is not a step of the model.       *)

\* The handler moves the job where it checks nothing that would keep the job on
\* its course: through updateProgress, through updateStatus to a status it has
\* no rule for (other than the start of an accepted job), or because an
\* administrator stands in for the provider.
Overrides(op, u, base, row) ==
    \/ /\ op \in {"updateProgress", "updateStatus"}
       /\ row.status # base.status
       /\ \/ op = "updateProgress"
          \/ row.status \in {"PENDING", "DISPUTED"}
          \/ row.status = "IN_PROGRESS" /\ base.status # "ACCEPTED"
    \/ u \in Admins /\ u # base.provider

Begin(s, op, u, j, row) ==
    /\ begun' = begun + 1
    /\ req' = [req EXCEPT ![s] =
                 [pc |-> IF op = "completeJob" THEN "findProvider" ELSE "diff",
                  op |-> op, by |-> IF op = "completeJob" THEN u ELSE None,
                  job |-> j, row |-> row, cols |-> {}, count |-> 0,
                  stale |-> FALSE, cstale |-> FALSE,
                  override |-> Overrides(op, u, job[j], row)]]
    /\ UNCHANGED <<job, completedJobs, fired, been, wild, racedCounter, finished,
                   interrupted>>

UpdateStatus(s, u, j, st) ==
    LET isProvider == job[j].provider = u IN
    /\ job[j].client = u \/ isProvider \/ u \in Admins
    /\ st = "ACCEPTED" => /\ job[j].status = "PENDING"
                          /\ isProvider \/ u \in Admins
    /\ st = "CANCELLED" => job[j].status # "COMPLETED"
    /\ st = "COMPLETED" => /\ job[j].status \in {"IN_PROGRESS", "ACCEPTED"}
                           /\ isProvider \/ u \in Admins
    /\ Begin(s, "updateStatus", u, j, [job[j] EXCEPT !.status = st])

\* (mutant) a body without a status writes NULL
UpdateProgressNull(s, u, j, st) ==
    /\ job[j].provider = u \/ u \in Admins
    /\ Begin(s, "updateProgress", u, j, [job[j] EXCEPT !.status = None])

\* The body's type is Partial<CreateJobDto>, which the validation pipe does not
\* check: a status in it reaches the row as it is.
UpdateProgress(s, u, j, st) ==
    /\ job[j].provider = u \/ u \in Admins
    /\ Begin(s, "updateProgress", u, j, [job[j] EXCEPT !.status = st])

\* (mutant) a job is rated in any status
AddRatingAnytime(s, u, j) ==
    /\ job[j].client = u
    /\ Begin(s, "addRating", u, j, [job[j] EXCEPT !.rated = TRUE])

AddRating(s, u, j) ==
    /\ job[j].client = u
    /\ job[j].status = "COMPLETED"
    /\ Begin(s, "addRating", u, j, [job[j] EXCEPT !.rated = TRUE])

\* (mutant) a second choice replaces the first
AssignProviderAgain(s, u, j, p) ==
    /\ job[j].client = u
    /\ job[j].status = "PENDING"
    /\ p \in Profiles
    /\ Begin(s, "assignProvider", u, j, [job[j] EXCEPT !.provider = p])

\* findOne loads the provider relation.  When it is not null save takes the
\* foreign key from the loaded user, and the assigned providerId is lost.
AssignProvider(s, u, j, p) ==
    /\ job[j].client = u
    /\ job[j].status = "PENDING"
    /\ p \in Profiles
    /\ Begin(s, "assignProvider", u, j,
             [job[j] EXCEPT !.provider = IF @ = None THEN p ELSE @])

\* (mutant) the job may be in any status
AcceptJobAnytime(s, u, j) ==
    /\ job[j].provider = u
    /\ Begin(s, "acceptJob", u, j, [job[j] EXCEPT !.status = "ACCEPTED"])

AcceptJob(s, u, j) ==
    /\ job[j].provider = u
    /\ job[j].status = "PENDING"
    /\ Begin(s, "acceptJob", u, j, [job[j] EXCEPT !.status = "ACCEPTED"])

StartJob(s, u, j) ==
    /\ job[j].provider = u
    /\ job[j].status = "ACCEPTED"
    /\ Begin(s, "startJob", u, j, [job[j] EXCEPT !.status = "IN_PROGRESS"])

CompleteJob(s, u, j) ==
    /\ job[j].provider = u
    /\ job[j].status \in {"ACCEPTED", "IN_PROGRESS"}
    /\ Begin(s, "completeJob", u, j, [job[j] EXCEPT !.status = "COMPLETED"])

-----------------------------------------------------------------------------
(* completeJob goes on with the provider's counter, then saves the job.    *)

FindProvider(s) ==
    /\ req[s].pc = "findProvider"
    /\ req' = IF req[s].by \in Profiles
              THEN [req EXCEPT ![s] =
                      [@ EXCEPT !.pc = "saveProvider",
                                !.count = completedJobs[req[s].by] + 1]]
              ELSE [req EXCEPT ![s] = [@ EXCEPT !.pc = "diff"]]
    /\ UNCHANGED <<job, completedJobs, fired, history>>

\* (mutant) the counting is tried again after it succeeded
SaveProviderAgain(s) ==
    LET p == req[s].by IN
    /\ req[s].pc = "saveProvider"
    /\ completedJobs' = [completedJobs EXCEPT ![p] = req[s].count]
    /\ \E pc \in {"findProvider", "diff"} :
           req' = [req EXCEPT ![s] = [@ EXCEPT !.pc = pc, !.count = 0]]
    /\ UNCHANGED <<job, fired, history>>

SaveProvider(s) ==
    LET p == req[s].by IN
    /\ req[s].pc = "saveProvider"
    /\ completedJobs' = [completedJobs EXCEPT ![p] = req[s].count]
    /\ racedCounter' = IF req[s].cstale THEN racedCounter \union {p}
                                        ELSE racedCounter
    /\ req' = [t \in Slots |->
                 IF t = s THEN [req[s] EXCEPT !.pc = "diff", !.count = 0,
                                              !.cstale = FALSE]
                 ELSE IF req[t].pc = "saveProvider" /\ req[t].by = p
                      THEN [req[t] EXCEPT !.cstale = TRUE]
                      ELSE req[t]]
    /\ UNCHANGED <<job, fired, begun, been, wild, finished, interrupted>>

-----------------------------------------------------------------------------
(* repository.save(job), and what the handler does after it.               *)

\* The columns in which the object differs from the row as it is now.
Changed(s) == {c \in Columns : req[s].row[c] # job[req[s].job][c]}

\* The row `below` with the columns in cols taken from `above`.
Overlay(above, cols, below) ==
    [c \in Columns |-> IF c \in cols THEN above[c] ELSE below[c]]

\* The events a handler emits after its save, of those that tell somebody.
Emitted(op) == CASE op = "acceptJob" -> {"job.accepted"}
                 [] op = "startJob" -> {"job.started"}
                 [] OTHER -> {}

\* What is left of a request whose save is done.
Saved(r) == [Idle EXCEPT !.pc = "respond", !.op = r.op, !.by = r.by, !.job = r.job]

Diff(s) ==
    /\ req[s].pc = "diff"
    /\ req' = [req EXCEPT ![s] =
                 IF Changed(s) = {} THEN Saved(@)
                 ELSE [@ EXCEPT !.pc = "update", !.cols = Changed(s),
                                !.row = Overlay(req[s].row, Changed(s), NoRow)]]
    /\ UNCHANGED <<job, completedJobs, fired, history>>

Update(s) ==
    LET j == req[s].job
        row == Overlay(req[s].row, req[s].cols, job[j])
    IN
    /\ req[s].pc = "update"
    /\ job' = [job EXCEPT ![j] = row]
    /\ req' = [t \in Slots |->
                 IF t = s THEN Saved(req[s])
                 ELSE IF req[t].job = j /\ req[t].pc # "respond"
                      THEN [req[t] EXCEPT !.stale = TRUE]
                      ELSE req[t]]
    /\ been' = [been EXCEPT ![j] = @ \union ({row.status} \intersect Working)]
    /\ wild' = IF req[s].stale \/ req[s].override THEN wild \union {j} ELSE wild
    /\ UNCHANGED <<completedJobs, fired, begun, racedCounter, finished, interrupted>>

Respond(s) ==
    /\ req[s].pc = "respond"
    /\ fired' = fired \union (Emitted(req[s].op) \X {req[s].job})
    /\ finished' = IF req[s].op = "completeJob" /\ req[s].by \in Profiles
                   THEN [finished EXCEPT ![req[s].by] = @ + 1]
                   ELSE finished
    /\ req' = [req EXCEPT ![s] = Idle]
    /\ UNCHANGED <<job, completedJobs, begun, been, wild, racedCounter, interrupted>>

\* A database call of the request fails, or the process dies: what was saved
\* before stays, what was to follow never happens.
Abort(s) ==
    /\ req[s].pc # "idle"
    /\ req' = [req EXCEPT ![s] = Idle]
    /\ interrupted' = IF /\ req[s].op = "completeJob"
                         /\ req[s].pc \in {"diff", "update", "respond"}
                         /\ req[s].by \in Profiles
                      THEN interrupted \union {req[s].by}
                      ELSE interrupted
    /\ UNCHANGED <<job, completedJobs, fired, begun, been, wild,
                   racedCounter, finished>>

-----------------------------------------------------------------------------

\* A free slot takes a request of u about the stored job j.
Handle(s, u, j) ==
    /\ req[s].pc = "idle"
    /\ begun < MaxRequests
    /\ job[j].status # "NONE"
    /\ \/ \E st \in JobStatus : UpdateStatus(s, u, j, st) \/ UpdateProgress(s, u, j, st)
       \/ AddRating(s, u, j)
       \/ \E p \in Users : AssignProvider(s, u, j, p)
       \/ AcceptJob(s, u, j)
       \/ StartJob(s, u, j)
       \/ CompleteJob(s, u, j)

Continue(s) ==
    \/ FindProvider(s) \/ SaveProvider(s)
    \/ Diff(s) \/ Update(s) \/ Respond(s)
    \/ Abort(s)

Next ==
    \/ \E u \in Clients, p \in Users \union {None}, j \in Jobs, a \in BOOLEAN :
           Create(u, p, j, a)
    \/ \E s \in Slots, u \in Users, j \in Jobs : Handle(s, u, j)
    \/ \E s \in Slots : Continue(s)

Spec == Init /\ [][Next]_vars

-----------------------------------------------------------------------------
(* Properties                                                              *)

TypeOK ==
    /\ job \in [Jobs -> Row]
    /\ completedJobs \in [Profiles -> Nat]
    /\ req \in [Slots -> Request]
    /\ fired \in SUBSET (Events \X Jobs)
    /\ begun \in Nat
    /\ been \in [Jobs -> SUBSET Working]
    /\ wild \in SUBSET Jobs
    /\ racedCounter \in SUBSET Profiles
    /\ finished \in [Profiles -> Nat]
    /\ interrupted \in SUBSET Profiles

\* However requests interleave, a rating is only ever found on a job that was
\* COMPLETED at some time, and a client was told of the acceptance or the start
\* only of a job that has been ACCEPTED or IN_PROGRESS.
TracesOfTheStatus ==
    \A j \in Jobs :
        /\ job[j].rated => "COMPLETED" \in been[j]
        /\ <<"job.accepted", j>> \in fired => "ACCEPTED" \in been[j]
        /\ <<"job.started", j>> \in fired => "IN_PROGRESS" \in been[j]

\* completeJob requests of p that have counted and not yet been answered
Counted(p) == {s \in Slots : /\ req[s].op = "completeJob"
                             /\ req[s].by = p
                             /\ req[s].pc \in {"diff", "update", "respond"}}

\* The counter is saved before the job.  Unless a request died in between, a
\* provider's completedJobs never exceeds the completions the provider was
\* answered for and those still at work; without two completions
\* racing for the counter it is exactly their number.
CounterMatchesAnswers ==
    \A p \in Profiles \ interrupted :
        LET completions == finished[p] + Cardinality(Counted(p)) IN
        /\ completedJobs[p] <= completions
        /\ p \notin racedCounter => completedJobs[p] = completions

\* The jobs that were neither raced nor overridden live the life JobLifecycle
\* promises, whatever other requests run at the same time.
Lifecycle == INSTANCE JobLifecycle
    WITH status <- [j \in Jobs |-> job[j].status],
         assigned <- [j \in Jobs |-> job[j].provider],
         rated <- [j \in Jobs |-> job[j].rated],
         wild <- wild

LifecycleKept == Lifecycle!Spec

\* Of the promise, the parts a reader looks for.  A job that somebody works on
\* or has finished has a provider, and only a completed job is rated ...
TamePromise == Lifecycle!TamePromise

\* ... and a completed or cancelled job stays so, and a provider once named is
\* not exchanged or lost.
TameStays == Lifecycle!TameStays

\* The testing guide lists job.completed as fired when a provider completes.
CompletionAnnounced ==
    \A p \in Profiles :
        finished[p] > 0 => \E j \in Jobs : <<"job.completed", j>> \in fired
=============================================================================
