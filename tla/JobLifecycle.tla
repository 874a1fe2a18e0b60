---------------------------- MODULE JobLifecycle ----------------------------
(***************************************************************************)
(* What the job endpoints promise a client and a provider, one row at a    *)
(* time and without requests: the life of a job as the testing guide tells *)
(* it (create, assign, accept, start, complete, rate; cancel at any time   *)
(* before completion).  The promise is made only for tame jobs.  A job     *)
(* turns wild when a request wrote it from a stale read, or when somebody  *)
(* used one of the endpoints that put no condition on the status.          *)
(* Module Jobs implements this specification.                              *)
(***************************************************************************)

CONSTANTS
    Jobs,       \* primary keys of the jobs table
    Users,      \* primary keys of the users table
    None        \* SQL NULL

VARIABLES
    status,     \* status[j]: the status column, "NONE" before the insert
    assigned,   \* assigned[j]: the provider's user id, or None
    rated,      \* rated[j]: the client has left a rating
    wild        \* jobs about which nothing is promised any more

vars == <<status, assigned, rated, wild>>

Status == {"PENDING", "ACCEPTED", "IN_PROGRESS", "COMPLETED", "CANCELLED",
           "DISPUTED"}

Init ==
    /\ status = [j \in Jobs |-> "NONE"]
    /\ assigned = [j \in Jobs |-> None]
    /\ rated = [j \in Jobs |-> FALSE]
    /\ wild = {}

Move(j, from, to) ==
    /\ status[j] \in from
    /\ status' = [status EXCEPT ![j] = to]
    /\ UNCHANGED <<assigned, rated, wild>>

Create(j, p) ==
    /\ status[j] = "NONE"
    /\ status' = [status EXCEPT ![j] = "PENDING"]
    /\ assigned' = [assigned EXCEPT ![j] = p]
    /\ UNCHANGED <<rated, wild>>

\* A provider is chosen once: a second choice does not replace the first.
Assign(j, p) ==
    /\ status[j] = "PENDING"
    /\ assigned[j] = None
    /\ assigned' = [assigned EXCEPT ![j] = p]
    /\ UNCHANGED <<status, rated, wild>>

Accept(j) ==
    /\ assigned[j] # None
    /\ Move(j, {"PENDING"}, "ACCEPTED")

Start(j) == Move(j, {"ACCEPTED"}, "IN_PROGRESS")

Complete(j) == Move(j, {"ACCEPTED", "IN_PROGRESS"}, "COMPLETED")

Cancel(j) == Move(j, {"PENDING", "ACCEPTED", "IN_PROGRESS"}, "CANCELLED")

Rate(j) ==
    /\ status[j] = "COMPLETED"
    /\ rated' = [rated EXCEPT ![j] = TRUE]
    /\ UNCHANGED <<status, assigned, wild>>

\* Whatever happens to a wild job, it happens to that job alone.
Disturb(j) ==
    /\ status[j] # "NONE"
    /\ \E s \in Status, p \in Users \union {None}, r \in BOOLEAN :
           /\ status' = [status EXCEPT ![j] = s]
           /\ assigned' = [assigned EXCEPT ![j] = p]
           /\ rated' = [rated EXCEPT ![j] = r]
    /\ wild' = wild \union {j}

Next ==
    \E j \in Jobs :
        \/ \E p \in Users \union {None} : Create(j, p)
        \/ \E p \in Users : Assign(j, p)
        \/ Accept(j) \/ Start(j) \/ Complete(j) \/ Cancel(j) \/ Rate(j)
        \/ Disturb(j)

Spec == Init /\ [][Next]_vars

-----------------------------------------------------------------------------

Working == {"ACCEPTED", "IN_PROGRESS", "COMPLETED"}

\* A tame job that somebody works on, or has finished, has a provider; a rating
\* on a tame job belongs to a completed job; no tame job is in dispute.
TamePromise ==
    \A j \in Jobs \ wild :
        /\ status[j] \in Working => assigned[j] # None
        /\ rated[j] => status[j] = "COMPLETED"
        /\ status[j] # "DISPUTED"

\* A tame job that is completed or cancelled stays so, and a tame job keeps the
\* provider it has.
Stays ==
    \A j \in Jobs \ wild' :
        /\ status[j] \in {"COMPLETED", "CANCELLED"} => status'[j] = status[j]
        /\ assigned[j] # None => assigned'[j] = assigned[j]

TameStays == [][Stays]_vars
=============================================================================
