----------------------------- MODULE JobsProofs -----------------------------
(* Proofs about module Jobs, for any users, jobs and number of slots.        *)
EXTENDS Jobs, FiniteSetTheorems, TLAPS

-----------------------------------------------------------------------------
(* What the handlers plan to save                                            *)

\* The moves of a row that JobLifecycle allows, and no move at all.
LifeStep(b, r) ==
    \/ r = b
    \/ /\ b.status = "PENDING" /\ b.provider = None
       /\ \E p \in Users : r = [b EXCEPT !.provider = p]
    \/ /\ b.status = "PENDING" /\ b.provider # None
       /\ r = [b EXCEPT !.status = "ACCEPTED"]
    \/ b.status = "ACCEPTED" /\ r = [b EXCEPT !.status = "IN_PROGRESS"]
    \/ b.status \in {"ACCEPTED", "IN_PROGRESS"} /\ r = [b EXCEPT !.status = "COMPLETED"]
    \/ b.status # "COMPLETED" /\ r = [b EXCEPT !.status = "CANCELLED"]
    \/ b.status = "COMPLETED" /\ r = [b EXCEPT !.rated = TRUE]

\* The statuses two of the handlers aim at are the ones they announce.
Aim(op, st) == /\ op = "acceptJob" => st = "ACCEPTED"
               /\ op = "startJob" => st = "IN_PROGRESS"

Planned(op, u, base, row) ==
    /\ op \in Operations
    /\ row \in Row
    /\ row.status \in JobStatus
    /\ row.rated => base.rated \/ base.status = "COMPLETED"
    /\ Aim(op, row.status)
    /\ Overrides(op, u, base, row) \/ LifeStep(base, row)

LEMMA NoneIsNoUser == None \notin Users /\ Profiles \subseteq Users /\ Clients \subseteq Users
BY ConstantsAssumption

LEMMA RowUpdates ==
    ASSUME NEW r \in Row, NEW st \in JobStatus, NEW p \in Users \union {None}
    PROVE  /\ [r EXCEPT !.status = st] \in Row
           /\ [r EXCEPT !.provider = p] \in Row
           /\ [r EXCEPT !.rated = TRUE] \in Row
BY DEF Row

LEMMA OverlayType ==
    ASSUME NEW a \in Row, NEW b \in Row, NEW cols \in SUBSET Columns
    PROVE  /\ Overlay(a, cols, b) \in Row
           /\ \A c \in Columns : Overlay(a, cols, b)[c] =
                                     IF c \in cols THEN a[c] ELSE b[c]
BY DEF Row, Overlay, Columns

LEMMA IdleType == Idle \in Request /\ NoRow \in Row
BY DEF Idle, NoRow, Request, Row, Columns

LEMMA PlanStatus ==
    ASSUME NEW u \in Users, NEW b \in Row, NEW st \in JobStatus,
           NEW s, NEW j \in Jobs, job[j] = b, b.status \in JobStatus,
           UpdateStatus(s, u, j, st)
    PROVE  Planned("updateStatus", u, b, [b EXCEPT !.status = st])
<1> DEFINE row == [b EXCEPT !.status = st]
<1>1. /\ row \in Row /\ row.status = st /\ row.rated = b.rated
      /\ "updateStatus" \in Operations
  BY RowUpdates, None \in Users \union {None} DEF Row, Operations
<1>2. Aim("updateStatus", row.status)
  BY DEF Aim
<1>3. ASSUME ~Overrides("updateStatus", u, b, row) PROVE LifeStep(b, row)
  <2>1. /\ u \in Admins => u = b.provider
        /\ st # b.status => /\ st \notin {"PENDING", "DISPUTED"}
                            /\ st = "IN_PROGRESS" => b.status = "ACCEPTED"
    BY <1>1, <1>3 DEF Overrides
  <2>2. CASE st = b.status
    BY <1>1, <2>2 DEF LifeStep, Row
  <2>3. CASE st = "ACCEPTED"
    BY <2>1, <2>3, NoneIsNoUser DEF UpdateStatus, LifeStep
  <2>4. CASE st = "CANCELLED"
    BY <2>4 DEF UpdateStatus, LifeStep
  <2>5. CASE st = "COMPLETED"
    BY <2>5 DEF UpdateStatus, LifeStep
  <2>6. CASE st = "IN_PROGRESS" /\ st # b.status
    BY <2>1, <2>6 DEF LifeStep
  <2> QED BY <2>1, <2>2, <2>3, <2>4, <2>5, <2>6 DEF JobStatus
<1> QED BY <1>1, <1>2, <1>3 DEF Planned

\* A handler stores a request in its slot, for a row it planned from the stored
\* row, and touches nothing else.
LEMMA HandleBegins ==
    ASSUME TypeOK, NEW s \in Slots, NEW u \in Users, NEW j \in Jobs,
           Handle(s, u, j)
    PROVE  /\ req[s].pc = "idle"
           /\ job[j].status \in JobStatus
           /\ \E op, row : Begin(s, op, u, j, row) /\ Planned(op, u, job[j], row)
<1> DEFINE b == job[j]
           Goal == \E op, row : Begin(s, op, u, j, row) /\ Planned(op, u, job[j], row)
<1>1. b \in Row /\ b.status \in JobStatus /\ req[s].pc = "idle"
  BY DEF Handle, Row, TypeOK
<1>2. ASSUME NEW st \in JobStatus, UpdateStatus(s, u, j, st) PROVE Goal
  BY <1>1, <1>2, PlanStatus DEF UpdateStatus
<1>3. ASSUME NEW st \in JobStatus, UpdateProgress(s, u, j, st) PROVE Goal
  <2> DEFINE row == [b EXCEPT !.status = st]
  <2>1. row \in Row /\ row.status = st /\ row.rated = b.rated
    BY <1>1, RowUpdates, None \in Users \union {None} DEF Row
  <2>2. st = b.status => row = b
    BY <1>1 DEF Row
  <2>3. Planned("updateProgress", u, b, row)
    BY <2>1, <2>2 DEF Planned, Operations, Aim, Overrides, LifeStep
  <2> QED BY <1>3, <2>3 DEF UpdateProgress
<1>4. ASSUME AddRating(s, u, j) PROVE Goal
  <2> DEFINE row == [b EXCEPT !.rated = TRUE]
  <2>1. row \in Row /\ row.status = b.status
    BY <1>1, RowUpdates, None \in Users \union {None} DEF Row
  <2>2. Planned("addRating", u, b, row)
    BY <1>1, <1>4, <2>1 DEF Planned, Operations, Aim, LifeStep, AddRating
  <2> QED BY <1>4, <2>2 DEF AddRating
<1>5. ASSUME NEW p \in Users, AssignProvider(s, u, j, p) PROVE Goal
  <2> DEFINE row == [b EXCEPT !.provider = IF @ = None THEN p ELSE @]
  <2>1. /\ row \in Row /\ row.status = b.status /\ row.rated = b.rated
        /\ b.provider # None => row = b
        /\ b.provider = None => row = [b EXCEPT !.provider = p]
    BY <1>1 DEF Row
  <2>2. LifeStep(b, row)
    BY <1>5, <2>1 DEF LifeStep, AssignProvider
  <2>3. Planned("assignProvider", u, b, row)
    BY <1>1, <2>1, <2>2 DEF Planned, Operations, Aim
  <2> QED BY <1>5, <2>3 DEF AssignProvider
<1>6. ASSUME AcceptJob(s, u, j) PROVE Goal
  <2> DEFINE row == [b EXCEPT !.status = "ACCEPTED"]
  <2>1. row \in Row /\ row.status = "ACCEPTED" /\ row.rated = b.rated
    BY <1>1 DEF Row, JobStatus
  <2>2. Planned("acceptJob", u, b, row)
    BY <1>6, <2>1, NoneIsNoUser
    DEF Planned, Operations, Aim, LifeStep, AcceptJob, JobStatus
  <2> QED BY <1>6, <2>2 DEF AcceptJob
<1>7. ASSUME StartJob(s, u, j) PROVE Goal
  <2> DEFINE row == [b EXCEPT !.status = "IN_PROGRESS"]
  <2>1. row \in Row /\ row.status = "IN_PROGRESS" /\ row.rated = b.rated
    BY <1>1 DEF Row, JobStatus
  <2>2. Planned("startJob", u, b, row)
    BY <1>7, <2>1 DEF Planned, Operations, Aim, LifeStep, StartJob, JobStatus
  <2> QED BY <1>7, <2>2 DEF StartJob
<1>8. ASSUME CompleteJob(s, u, j) PROVE Goal
  <2> DEFINE row == [b EXCEPT !.status = "COMPLETED"]
  <2>1. row \in Row /\ row.status = "COMPLETED" /\ row.rated = b.rated
    BY <1>1 DEF Row, JobStatus
  <2>2. Planned("completeJob", u, b, row)
    BY <1>8, <2>1 DEF Planned, Operations, Aim, LifeStep, CompleteJob, JobStatus
  <2> QED BY <1>8, <2>2 DEF CompleteJob
<1> QED BY <1>1, <1>2, <1>3, <1>4, <1>5, <1>6, <1>7, <1>8 DEF Handle

-----------------------------------------------------------------------------
(* Type correctness                                                          *)

\* A running request is about a stored job; only completeJob touches the counter,
\* and only of a provider with a profile.
Sound(r) ==
    /\ r.pc # "idle" => /\ r.job \in Jobs
                        /\ job[r.job].status # "NONE"
                        /\ r.op \in Operations
                        /\ (r.pc \in {"update", "respond"} => "status" \in r.cols)
                              => r.row.status \in JobStatus
    /\ r.pc \in {"findProvider", "saveProvider"} => r.op = "completeJob"
    /\ r.pc = "saveProvider" => r.by \in Profiles

LEMMA RequestFields ==
    ASSUME NEW r \in Request
    PROVE  /\ r.job \in Jobs \union {None} /\ r.row \in Row /\ r.cols \in SUBSET Columns
           /\ r.by \in Users \union {None} /\ r.count \in Nat
           /\ r.stale \in BOOLEAN /\ r.cstale \in BOOLEAN /\ r.override \in BOOLEAN
BY DEF Request

\* The steps of a request on its own record.
LEMMA RequestSteps ==
    ASSUME NEW r \in Request, NEW n \in Nat, NEW row \in Row, NEW cols \in SUBSET Columns
    PROVE  /\ [r EXCEPT !.pc = "saveProvider", !.count = n] \in Request
           /\ [r EXCEPT !.pc = "update", !.cols = cols, !.row = row] \in Request
<1>1. [r EXCEPT !.pc = "saveProvider", !.count = n] \in Request
  BY DEF Request
<1>2. [r EXCEPT !.pc = "update", !.cols = cols, !.row = row] \in Request
  BY DEF Request
<1> QED BY <1>1, <1>2

LEMMA RequestFlags ==
    ASSUME NEW r \in Request
    PROVE  /\ [r EXCEPT !.pc = "diff"] \in Request
           /\ [r EXCEPT !.pc = "diff", !.count = 0, !.cstale = FALSE] \in Request
           /\ [r EXCEPT !.stale = TRUE] \in Request
           /\ [r EXCEPT !.cstale = TRUE] \in Request
<1>1. [r EXCEPT !.pc = "diff"] \in Request
  BY DEF Request
<1>2. [r EXCEPT !.pc = "diff", !.count = 0, !.cstale = FALSE] \in Request
  BY DEF Request
<1>3. [r EXCEPT !.stale = TRUE] \in Request /\ [r EXCEPT !.cstale = TRUE] \in Request
  BY DEF Request
<1> QED BY <1>1, <1>2, <1>3

LEMMA SavedType ==
    ASSUME NEW r \in Request, r.pc # "idle", Sound(r)
    PROVE  /\ Saved(r) \in Request /\ Sound(Saved(r))
           /\ Saved(r).pc = "respond" /\ Saved(r).op = r.op /\ Saved(r).by = r.by
           /\ Saved(r).job = r.job /\ Saved(r).row = NoRow /\ Saved(r).cols = {}
BY IdleType DEF Saved, Idle, Request, Sound

\* Raising a flag of a request leaves the rest of its record alone.
Same(q, r) ==
    /\ q.op = r.op /\ q.by = r.by /\ q.job = r.job /\ q.row = r.row
    /\ q.cols = r.cols /\ q.override = r.override

LEMMA RequestSame ==
    ASSUME NEW r \in Request
    PROVE  /\ LET q == [r EXCEPT !.stale = TRUE] IN
                  Same(q, r) /\ q.pc = r.pc /\ q.count = r.count /\ q.cstale = r.cstale
                             /\ q.stale
           /\ LET q == [r EXCEPT !.cstale = TRUE] IN
                  Same(q, r) /\ q.pc = r.pc /\ q.count = r.count /\ q.stale = r.stale
                             /\ q.cstale
           /\ LET q == [r EXCEPT !.pc = "diff", !.count = 0, !.cstale = FALSE] IN
                  Same(q, r) /\ q.pc = "diff" /\ q.stale = r.stale
           /\ LET q == [r EXCEPT !.pc = "diff"] IN
                  Same(q, r) /\ q.pc = "diff" /\ q.stale = r.stale
<1>1. LET q == [r EXCEPT !.stale = TRUE] IN
          Same(q, r) /\ q.pc = r.pc /\ q.count = r.count /\ q.cstale = r.cstale /\ q.stale
  BY DEF Request, Same
<1>2. LET q == [r EXCEPT !.cstale = TRUE] IN
          Same(q, r) /\ q.pc = r.pc /\ q.count = r.count /\ q.stale = r.stale /\ q.cstale
  BY DEF Request, Same
<1>3. LET q == [r EXCEPT !.pc = "diff", !.count = 0, !.cstale = FALSE] IN
          Same(q, r) /\ q.pc = "diff" /\ q.stale = r.stale
  BY DEF Request, Same
<1>4. LET q == [r EXCEPT !.pc = "diff"] IN
          Same(q, r) /\ q.pc = "diff" /\ q.stale = r.stale
  BY DEF Request, Same
<1> QED BY <1>1, <1>2, <1>3, <1>4

Early == {"findProvider", "saveProvider", "diff"}

\* Counting changes nothing about a request but its progress and the counter.
LEMMA ProviderSteps ==
    ASSUME TypeOK, NEW s \in Slots, FindProvider(s) \/ SaveProvider(s), NEW t \in Slots
    PROVE  /\ Same(req'[t], req[t]) /\ req'[t].stale = req[t].stale
           /\ \/ req'[t].pc = req[t].pc
              \/ t = s /\ req[t].pc \in Early /\ req'[t].pc = "diff"
              \/ /\ t = s /\ req[t].pc = "findProvider" /\ req'[t].pc = "saveProvider"
                 /\ req[t].by \in Profiles
           /\ UNCHANGED <<job, fired, been, wild, finished, interrupted>>
<1> DEFINE Goal == /\ Same(req'[t], req[t]) /\ req'[t].stale = req[t].stale
                   /\ \/ req'[t].pc = req[t].pc
                      \/ t = s /\ req[t].pc \in Early /\ req'[t].pc = "diff"
                      \/ /\ t = s /\ req[t].pc = "findProvider" /\ req'[t].pc = "saveProvider"
                         /\ req[t].by \in Profiles
<1>1. UNCHANGED <<job, fired, been, wild, finished, interrupted>>
  BY DEF FindProvider, SaveProvider, history
<1> SUFFICES Goal
  BY <1>1
<1>2. req[t] \in Request
  BY DEF TypeOK
<1>3. CASE req'[t] = req[t]
  BY <1>3 DEF Same
<1>4. CASE /\ t = s /\ req[t].pc = "saveProvider"
           /\ req'[t] = [req[t] EXCEPT !.pc = "diff", !.count = 0, !.cstale = FALSE]
  <2> DEFINE q == [req[t] EXCEPT !.pc = "diff", !.count = 0, !.cstale = FALSE]
  <2>1. Same(q, req[t]) /\ q.pc = "diff" /\ q.stale = req[t].stale
    BY <1>2, RequestSame
  <2> HIDE DEF q
  <2>2. req'[t] = q
    BY <1>4 DEF q
  <2> QED BY <1>4, <2>1, <2>2 DEF Early
<1>5. CASE req'[t] = [req[t] EXCEPT !.cstale = TRUE]
  BY <1>2, <1>5, RequestSame
<1>6. CASE t = s /\ req[t].pc = "findProvider" /\ req'[t] = [req[t] EXCEPT !.pc = "diff"]
  BY <1>2, <1>6, RequestSame DEF Early
<1>7. CASE /\ t = s /\ req[t].pc = "findProvider" /\ req[t].by \in Profiles
           /\ req'[t] = [req[t] EXCEPT !.pc = "saveProvider",
                                       !.count = completedJobs[req[t].by] + 1]
  <2> DEFINE n == completedJobs[req[t].by] + 1
             q == [req[t] EXCEPT !.pc = "saveProvider", !.count = n]
  <2> HIDE DEF n
  <2>1. Same(q, req[t]) /\ q.pc = "saveProvider" /\ q.stale = req[t].stale
    BY <1>2 DEF Request, Same
  <2> HIDE DEF q
  <2>2. req'[t] = q
    BY <1>7 DEF q, n
  <2> QED BY <1>7, <2>1, <2>2
<1>8. CASE FindProvider(s)
  BY <1>2, <1>3, <1>6, <1>7, <1>8 DEF FindProvider, TypeOK
<1>9. CASE SaveProvider(s)
  BY <1>3, <1>4, <1>5, <1>9 DEF SaveProvider
<1> QED BY <1>1, <1>8, <1>9

LEMMA BeginType ==
    ASSUME TypeOK, NEW s \in Slots, NEW u \in Users, NEW j \in Jobs, NEW op, NEW row,
           Begin(s, op, u, j, row), Planned(op, u, job[j], row)
    PROVE  /\ TypeOK'
           /\ \A t \in Slots \ {s} : req'[t] = req[t]
           /\ req'[s] = [pc |-> IF op = "completeJob" THEN "findProvider" ELSE "diff",
                         op |-> op, by |-> IF op = "completeJob" THEN u ELSE None,
                         job |-> j, row |-> row, cols |-> {}, count |-> 0,
                         stale |-> FALSE, cstale |-> FALSE,
                         override |-> Overrides(op, u, job[j], row)]
<1> DEFINE new == [pc |-> IF op = "completeJob" THEN "findProvider" ELSE "diff",
                   op |-> op, by |-> IF op = "completeJob" THEN u ELSE None,
                   job |-> j, row |-> row, cols |-> {}, count |-> 0,
                   stale |-> FALSE, cstale |-> FALSE,
                   override |-> Overrides(op, u, job[j], row)]
<1>1. Overrides(op, u, job[j], row) \in BOOLEAN
  BY DEF Overrides
<1>2. new \in Request
  BY <1>1 DEF Request, Planned, Columns
<1>4. req' = [req EXCEPT ![s] = new]
  BY DEF Begin
<1>5. req' \in [Slots -> Request] /\ req'[s] = new
  BY <1>2, <1>4 DEF TypeOK
<1>6. \A t \in Slots \ {s} : req'[t] = req[t]
  BY <1>4 DEF TypeOK
<1> QED BY <1>5, <1>6 DEF Begin, TypeOK

\* What Diff makes of the request: answered, or reduced to the changed columns.
LEMMA DiffSteps ==
    ASSUME TypeOK, NEW s \in Slots, Sound(req[s]), Diff(s)
    PROVE  \E q \in Request :
              /\ req' = [req EXCEPT ![s] = q]
              /\ q.op = req[s].op /\ q.by = req[s].by /\ q.job = req[s].job
              /\ \/ /\ Changed(s) = {} /\ q.pc = "respond"
                    /\ q.cols = {} /\ q.row = NoRow
                 \/ /\ Changed(s) # {} /\ q.pc = "update"
                    /\ q.cols = Changed(s)
                    /\ q.row = Overlay(req[s].row, Changed(s), NoRow)
                    /\ q.stale = req[s].stale /\ q.override = req[s].override
<1>1. req[s] \in Request /\ req[s].pc = "diff"
  BY DEF Diff, TypeOK
<1>2. CASE Changed(s) = {}
  <2>1. req' = [req EXCEPT ![s] = Saved(req[s])]
    BY <1>2 DEF Diff
  <2> QED BY <1>1, <1>2, <2>1, SavedType
<1>3. CASE Changed(s) # {}
  <2>1. Changed(s) \in SUBSET Columns /\ req[s].row \in Row
    BY <1>1, RequestFields DEF Changed
  <2> DEFINE below == Overlay(req[s].row, Changed(s), NoRow)
             q == [req[s] EXCEPT !.pc = "update", !.cols = Changed(s), !.row = below]
  <2>2. below \in Row
    BY <2>1, IdleType, OverlayType
  <2>3. q \in Request
    BY <1>1, <2>1, <2>2, RequestSteps
  <2>4. /\ q.op = req[s].op /\ q.by = req[s].by /\ q.job = req[s].job
        /\ q.pc = "update" /\ q.cols = Changed(s) /\ q.row = below
        /\ q.stale = req[s].stale /\ q.override = req[s].override
    BY <1>1 DEF Request
  <2>5. req' = [req EXCEPT ![s] = q]
    BY <1>3 DEF Diff
  <2> HIDE DEF q
  <2> QED BY <1>3, <2>3, <2>4, <2>5
<1> QED BY <1>2, <1>3

\* What Update makes of the requests: its own is answered, those that hold the
\* row it replaced are stale.
LEMMA UpdateSteps ==
    ASSUME TypeOK, NEW s \in Slots, Sound(req[s]), Update(s), NEW t \in Slots
    PROVE  /\ req'[t] \in Request
           /\ req'[t].op = req[t].op /\ req'[t].by = req[t].by /\ req'[t].job = req[t].job
           /\ t = s => req'[t].pc = "respond" /\ req'[t].cols = {} /\ req'[t].row = NoRow
           /\ t # s => /\ Same(req'[t], req[t]) /\ req'[t].pc = req[t].pc
                       /\ req'[t].count = req[t].count /\ req'[t].cstale = req[t].cstale
                       /\ req[t].stale => req'[t].stale
                       /\ req[t].job = req[s].job /\ req[t].pc # "respond" => req'[t].stale
<1>1. req[t] \in Request /\ req[s] \in Request /\ req[s].pc = "update"
  BY DEF Update, TypeOK
<1>2. CASE t = s
  <2>1. req'[t] = Saved(req[s])
    BY <1>2 DEF Update
  <2> QED BY <1>1, <1>2, <2>1, SavedType
<1>3. CASE t # s /\ req[t].job = req[s].job /\ req[t].pc # "respond"
  <2> DEFINE q == [req[t] EXCEPT !.stale = TRUE]
  <2>1. /\ q \in Request /\ Same(q, req[t]) /\ q.pc = req[t].pc /\ q.count = req[t].count
        /\ q.cstale = req[t].cstale /\ q.stale
    BY <1>1, RequestSame, RequestFlags
  <2> HIDE DEF q
  <2>2. req'[t] = q
    BY <1>3 DEF Update, q
  <2> QED BY <1>3, <2>1, <2>2 DEF Same
<1>4. CASE t # s /\ ~(req[t].job = req[s].job /\ req[t].pc # "respond")
  <2>1. req'[t] = req[t]
    BY <1>4 DEF Update
  <2> QED BY <1>1, <1>4, <2>1 DEF Same
<1> QED BY <1>2, <1>3, <1>4

Typed == TypeOK /\ \A s \in Slots : Sound(req[s])

LEMMA TypedInit == Init => Typed
BY IdleType, NoneIsNoUser DEF Init, Typed, TypeOK, Sound, Idle, Working

LEMMA TypedStep == Typed /\ [Next]_vars => Typed'
<1> SUFFICES ASSUME Typed, [Next]_vars PROVE Typed'
  OBVIOUS
<1> USE DEF Typed
<1>0. \A s \in Slots : req[s] \in Request
  BY DEF TypeOK
<1>1. ASSUME NEW u \in Clients, NEW p \in Users \union {None}, NEW j \in Jobs,
             NEW a \in BOOLEAN, Create(u, p, j, a)
      PROVE  Typed'
  <2>1. [NoRow EXCEPT !.client = u, !.provider = p, !.status = "PENDING"] \in Row
    BY NoneIsNoUser DEF NoRow, Row, JobStatus
  <2>2. fired' \in SUBSET (Events \X Jobs)
    BY <1>1 DEF Create, Events, TypeOK
  <2>3. TypeOK'
    BY <1>1, <2>1, <2>2 DEF Create, TypeOK, history
  <2>4. \A i \in Jobs : job[i].status # "NONE" => job'[i] = job[i]
    BY <1>1 DEF Create, TypeOK
  <2> QED BY <1>1, <2>3, <2>4 DEF Create, Sound
<1>2. ASSUME NEW s \in Slots, NEW u \in Users, NEW j \in Jobs, Handle(s, u, j)
      PROVE  Typed'
  <2>1. job[j].status # "NONE"
    BY <1>2 DEF Handle
  <2>2. PICK op, row : Begin(s, op, u, j, row) /\ Planned(op, u, job[j], row)
    BY <1>2, HandleBegins
  <2>3. job' = job
    BY <2>2 DEF Begin
  <2>4. TypeOK' /\ \A t \in Slots \ {s} : req'[t] = req[t]
    BY <2>2, BeginType
  <2>5. /\ req'[s].pc \in {"findProvider", "diff"} /\ req'[s].job = j
        /\ req'[s].op = op /\ req'[s].row = row
        /\ req'[s].pc = "findProvider" => op = "completeJob"
    <3>1. req'[s] = [pc |-> IF op = "completeJob" THEN "findProvider" ELSE "diff",
                     op |-> op, by |-> IF op = "completeJob" THEN u ELSE None,
                     job |-> j, row |-> row, cols |-> {}, count |-> 0,
                     stale |-> FALSE, cstale |-> FALSE,
                     override |-> Overrides(op, u, job[j], row)]
      BY <2>2, BeginType
    <3> QED BY <3>1
  <2>6. Sound(req[s])'
    BY <2>1, <2>2, <2>3, <2>5 DEF Sound, Planned
  <2>7. \A t \in Slots \ {s} : Sound(req[t])'
    BY <2>3, <2>4 DEF Sound
  <2> QED BY <2>4, <2>6, <2>7
<1>3. ASSUME NEW s \in Slots, FindProvider(s) PROVE Typed'
  <2>1. CASE req[s].by \in Profiles
    <3>1. completedJobs[req[s].by] + 1 \in Nat
      BY <2>1 DEF TypeOK
    <3> DEFINE new == [req[s] EXCEPT !.pc = "saveProvider",
                                     !.count = completedJobs[req[s].by] + 1]
    <3>2. new \in Request /\ req' = [req EXCEPT ![s] = new]
      BY <1>0, <1>3, <2>1, <3>1, RequestSteps, IdleType DEF FindProvider
    <3> QED BY <1>3, <2>1, <3>2 DEF FindProvider, TypeOK, Request, Sound, history
  <2>2. CASE req[s].by \notin Profiles
    <3> DEFINE new == [req[s] EXCEPT !.pc = "diff"]
    <3>1. new \in Request /\ req' = [req EXCEPT ![s] = new]
      BY <1>0, <1>3, <2>2, RequestFlags DEF FindProvider
    <3> QED BY <1>3, <2>2, <3>1 DEF FindProvider, TypeOK, Request, Sound, history
  <2> QED BY <2>1, <2>2
<1>4. ASSUME NEW s \in Slots, SaveProvider(s) PROVE Typed'
  <2>1. \A t \in Slots : /\ req'[t] \in Request
                         /\ Sound(req[t])'
    <3> TAKE t \in Slots
    <3>1. \/ req'[t] = [req[t] EXCEPT !.pc = "diff", !.count = 0, !.cstale = FALSE]
             /\ req[t].pc = "saveProvider"
          \/ req'[t] = [req[t] EXCEPT !.cstale = TRUE]
          \/ req'[t] = req[t]
      BY <1>4 DEF SaveProvider
    <3>2. req'[t] \in Request
      BY <1>0, <3>1, RequestFlags
    <3> QED BY <1>4, <3>2, ProviderSteps DEF Sound, Same, Early
  <2>2. req[s].by \in Profiles /\ req[s].count \in Nat
    BY <1>0, <1>4, RequestFields DEF SaveProvider, Sound
  <2>3. req' \in [Slots -> Request]
    BY <1>4, <2>1 DEF SaveProvider
  <2> QED BY <1>4, <2>1, <2>2, <2>3 DEF SaveProvider, TypeOK
<1>5. ASSUME NEW s \in Slots, Diff(s) PROVE Typed'
  <2>1. req[s] \in Request /\ Sound(req[s]) /\ req[s].pc = "diff"
    BY <1>0, <1>5 DEF Diff
  <2>2. PICK q \in Request :
              /\ req' = [req EXCEPT ![s] = q]
              /\ q.op = req[s].op /\ q.by = req[s].by /\ q.job = req[s].job
              /\ \/ /\ Changed(s) = {} /\ q.pc = "respond"
                    /\ q.cols = {} /\ q.row = NoRow
                 \/ /\ Changed(s) # {} /\ q.pc = "update"
                    /\ q.cols = Changed(s)
                    /\ q.row = Overlay(req[s].row, Changed(s), NoRow)
                    /\ q.stale = req[s].stale /\ q.override = req[s].override
    BY <1>5, <2>1, DiffSteps
  <2>3. Changed(s) \in SUBSET Columns /\ req[s].row \in Row
    BY <2>1, RequestFields DEF Changed
  <2>4. Sound(q)
    BY <2>1, <2>2, <2>3, IdleType, OverlayType DEF Sound, Columns
  <2>5. UNCHANGED <<job, completedJobs, fired, history>>
    BY <1>5 DEF Diff
  <2>6. \A t \in Slots : req'[t] = IF t = s THEN q ELSE req[t]
    BY <2>2 DEF TypeOK
  <2>7. \A t \in Slots : Sound(req[t])'
    BY <2>4, <2>5, <2>6 DEF Sound
  <2> QED BY <2>2, <2>5, <2>7 DEF TypeOK, history
<1>6. ASSUME NEW s \in Slots, Respond(s) PROVE Typed'
  <2>1. /\ fired' \in SUBSET (Events \X Jobs)
        /\ finished' \in [Profiles -> Nat]
    BY <1>6 DEF Respond, Emitted, TypeOK, Sound, Events
  <2>2. TypeOK'
    BY <1>6, <2>1, IdleType DEF Respond, TypeOK
  <2> QED BY <1>6, <2>2 DEF Respond, TypeOK, Sound, Idle
<1>7. ASSUME NEW s \in Slots, Update(s) PROVE Typed'
  <2> DEFINE j == req[s].job
             row == Overlay(req[s].row, req[s].cols, job[j])
  <2>1. /\ j \in Jobs /\ req[s].row \in Row
        /\ job[j] \in Row /\ req[s].cols \in SUBSET Columns
    BY <1>0, <1>7, RequestFields DEF Update, TypeOK, Sound
  <2>2. row \in Row /\ row.status # "NONE"
    BY <1>7, <2>1, OverlayType DEF Update, Sound, Columns, JobStatus
  <2>4. req[s] \in Request /\ Sound(req[s]) /\ req[s].pc = "update"
    BY <1>0, <1>7 DEF Update
  <2>5. \A t \in Slots : req'[t] \in Request
    BY <1>7, <2>4, UpdateSteps
  <2>6. /\ req' \in [Slots -> Request]
        /\ job' = [job EXCEPT ![j] = row]
        /\ UNCHANGED <<completedJobs, fired, begun, racedCounter, finished,
                       interrupted>>
        /\ been' \in [Jobs -> SUBSET Working]
        /\ wild' \in SUBSET Jobs
    BY <1>7, <2>1, <2>5 DEF Update, TypeOK
  <2>7. TypeOK'
    BY <2>1, <2>2, <2>6 DEF TypeOK
  <2>8. \A i \in Jobs : job[i].status # "NONE" => job'[i].status # "NONE"
    BY <2>1, <2>2, <2>6 DEF TypeOK
  <2>9. \A t \in Slots : Sound(req[t])'
    BY <1>7, <2>4, <2>8, UpdateSteps DEF Sound, Same
  <2> QED BY <2>7, <2>9
<1>8. ASSUME NEW s \in Slots, Abort(s) PROVE Typed'
  BY <1>8, IdleType DEF Abort, TypeOK, Sound, Idle
<1>9. CASE UNCHANGED vars
  BY <1>9 DEF vars, history, TypeOK, Sound
<1> QED BY <1>1, <1>2, <1>3, <1>4, <1>5, <1>6, <1>7, <1>8, <1>9 DEF Next, Continue

LEMMA AlwaysTyped == Spec => []Typed
<1>1. Init => Typed
  BY TypedInit
<1>2. Typed /\ [Next]_vars => Typed'
  BY TypedStep
<1> QED BY <1>1, <1>2, PTL DEF Spec

\* However requests interleave, fail and die, every variable keeps its type.
THEOREM TypeCorrect == Spec => []TypeOK
<1>1. Typed => TypeOK
  BY DEF Typed
<1> QED BY <1>1, AlwaysTyped, PTL

-----------------------------------------------------------------------------
(* Ratings and announcements (TracesOfTheStatus)                             *)

\* What the operation announces once it is answered has been so.
Announced(op, j) == /\ op = "acceptJob" => "ACCEPTED" \in been[j]
                    /\ op = "startJob" => "IN_PROGRESS" \in been[j]

\* A request still holds the status its operation aims at until that status is
\* found or put in the row; it holds a rating only for a job that was completed.
Honest(r) ==
    r.pc # "idle" =>
        /\ r.row.rated => "COMPLETED" \in been[r.job]
        /\ IF r.pc = "respond" \/ (r.pc = "update" /\ "status" \notin r.cols)
           THEN Announced(r.op, r.job)
           ELSE Aim(r.op, r.row.status)

StatusHasBeen == \A j \in Jobs : job[j].status \in Working => job[j].status \in been[j]

Traced == TracesOfTheStatus /\ StatusHasBeen /\ \A s \in Slots : Honest(req[s])

LEMMA TracedInit == Init => Traced
BY DEF Init, Traced, TracesOfTheStatus, StatusHasBeen, Honest, Idle, NoRow, Working

LEMMA TracedStep == Typed /\ Traced /\ [Next]_vars => Traced'
<1> SUFFICES ASSUME Typed, Traced, [Next]_vars PROVE Traced'
  OBVIOUS
<1>0. /\ TypeOK /\ TracesOfTheStatus /\ StatusHasBeen
      /\ \A s \in Slots : req[s] \in Request /\ Sound(req[s]) /\ Honest(req[s])
  BY DEF Typed, Traced, TypeOK
<1>1. ASSUME NEW u \in Clients, NEW p \in Users \union {None}, NEW j \in Jobs,
             NEW a \in BOOLEAN, Create(u, p, j, a)
      PROVE  Traced'
  <2>1. /\ been' = been /\ req' = req
        /\ \A e \in fired' \ fired : e[1] \in {"job.created", "job.assigned"}
        /\ \A i \in Jobs : i # j => job'[i] = job[i]
        /\ job'[j].status = "PENDING" /\ ~job'[j].rated
    BY <1>0, <1>1 DEF Create, TypeOK, history, NoRow
  <2>2. TracesOfTheStatus'
    <3> SUFFICES ASSUME NEW i \in Jobs
                 PROVE  /\ job'[i].rated => "COMPLETED" \in been[i]
                        /\ <<"job.accepted", i>> \in fired' => "ACCEPTED" \in been[i]
                        /\ <<"job.started", i>> \in fired' => "IN_PROGRESS" \in been[i]
      BY <2>1 DEF TracesOfTheStatus
    <3>1. job'[i].rated => "COMPLETED" \in been[i]
      BY <1>0, <2>1 DEF TracesOfTheStatus
    <3>2. /\ <<"job.accepted", i>> \in fired' => <<"job.accepted", i>> \in fired
          /\ <<"job.started", i>> \in fired' => <<"job.started", i>> \in fired
      BY <2>1
    <3> QED BY <1>0, <3>1, <3>2 DEF TracesOfTheStatus
  <2>3. StatusHasBeen'
    BY <1>0, <2>1 DEF StatusHasBeen, Working
  <2> QED BY <1>0, <2>1, <2>2, <2>3 DEF Traced, Honest, Announced
<1>2. ASSUME NEW s \in Slots, NEW u \in Users, NEW j \in Jobs, Handle(s, u, j)
      PROVE  Traced'
  <2>1. PICK op, row : Begin(s, op, u, j, row) /\ Planned(op, u, job[j], row)
    BY <1>0, <1>2, HandleBegins
  <2>2. /\ \A t \in Slots \ {s} : req'[t] = req[t]
        /\ req'[s].pc \in Early /\ req'[s].job = j /\ req'[s].op = op /\ req'[s].row = row
    <3>1. \A t \in Slots \ {s} : req'[t] = req[t]
      BY <1>0, <2>1, BeginType
    <3>2. req'[s] = [pc |-> IF op = "completeJob" THEN "findProvider" ELSE "diff",
                     op |-> op, by |-> IF op = "completeJob" THEN u ELSE None,
                     job |-> j, row |-> row, cols |-> {}, count |-> 0,
                     stale |-> FALSE, cstale |-> FALSE,
                     override |-> Overrides(op, u, job[j], row)]
      BY <1>0, <2>1, BeginType
    <3> QED BY <3>1, <3>2 DEF Early
  <2>3. UNCHANGED <<job, fired, been>>
    BY <2>1 DEF Begin
  <2>4. row.rated => "COMPLETED" \in been[j]
    BY <1>0, <2>1 DEF Planned, TracesOfTheStatus, StatusHasBeen, Working
  <2>5. Honest(req[s])'
    BY <2>1, <2>2, <2>3, <2>4 DEF Honest, Planned, Early
  <2>6. \A t \in Slots : Honest(req[t])'
    BY <1>0, <2>2, <2>3, <2>5 DEF Honest, Announced
  <2> QED BY <1>0, <2>3, <2>6 DEF Traced, TracesOfTheStatus, StatusHasBeen
<1>3. ASSUME NEW s \in Slots, FindProvider(s) \/ SaveProvider(s) PROVE Traced'
  <2>1. UNCHANGED <<job, fired, been>>
    BY <1>3 DEF FindProvider, SaveProvider, history
  <2>2. \A t \in Slots : Honest(req[t])'
    BY <1>0, <1>3, <2>1, ProviderSteps DEF Honest, Announced, Same, Early
  <2> QED BY <1>0, <2>1, <2>2 DEF Traced, TracesOfTheStatus, StatusHasBeen
<1>4. ASSUME NEW s \in Slots, Diff(s) PROVE Traced'
  <2> DEFINE j == req[s].job
  <2>1. /\ req[s].pc = "diff" /\ j \in Jobs /\ req[s].row \in Row
        /\ Changed(s) \in SUBSET Columns
        /\ UNCHANGED <<job, fired, been>>
    BY <1>0, <1>4, RequestFields DEF Diff, Sound, Changed, history
  <2>2. PICK q \in Request :
              /\ req' = [req EXCEPT ![s] = q]
              /\ q.op = req[s].op /\ q.by = req[s].by /\ q.job = req[s].job
              /\ \/ /\ Changed(s) = {} /\ q.pc = "respond"
                    /\ q.cols = {} /\ q.row = NoRow
                 \/ /\ Changed(s) # {} /\ q.pc = "update"
                    /\ q.cols = Changed(s)
                    /\ q.row = Overlay(req[s].row, Changed(s), NoRow)
                    /\ q.stale = req[s].stale /\ q.override = req[s].override
    BY <1>0, <1>4, DiffSteps
  <2>3. Aim(req[s].op, req[s].row.status)
    BY <1>0, <2>1 DEF Honest
  <2>4. "status" \notin Changed(s) => Announced(req[s].op, j)
    BY <1>0, <2>1, <2>3 DEF Changed, Columns, Aim, Announced, StatusHasBeen, Working
  <2>5. /\ q.row.rated => req[s].row.rated
        /\ "status" \in q.cols => q.row.status = req[s].row.status
    BY <2>1, <2>2, IdleType, OverlayType DEF NoRow, Columns
  <2>6. Announced(req[s].op, j)' = Announced(req[s].op, j)'
    OBVIOUS
  <2>7. \A t \in Slots : req'[t] = IF t = s THEN q ELSE req[t]
    BY <1>0, <2>2 DEF TypeOK
  <2>8. Honest(req[s])'
    BY <1>0, <2>1, <2>2, <2>3, <2>4, <2>5, <2>7 DEF Honest, Announced
  <2>9. \A t \in Slots : Honest(req[t])'
    BY <1>0, <2>1, <2>7, <2>8 DEF Honest, Announced
  <2> QED BY <1>0, <2>1, <2>9 DEF Traced, TracesOfTheStatus, StatusHasBeen
<1>5. ASSUME NEW s \in Slots, Update(s) PROVE Traced'
  <2> DEFINE j == req[s].job
             row == Overlay(req[s].row, req[s].cols, job[j])
  <2>1. /\ req[s].pc = "update" /\ j \in Jobs /\ req[s].row \in Row
        /\ job[j] \in Row /\ req[s].cols \in SUBSET Columns
    BY <1>0, <1>5, RequestFields DEF Update, TypeOK, Sound
  <2>2. /\ row.rated => "COMPLETED" \in been[j]
        /\ "status" \in req[s].cols => row.status = req[s].row.status
        /\ "status" \notin req[s].cols => row.status = job[j].status
    <3>1. \A c \in Columns : row[c] = IF c \in req[s].cols THEN req[s].row[c] ELSE job[j][c]
      BY <2>1, OverlayType
    <3>2. row.rated => req[s].row.rated \/ job[j].rated
      BY <3>1 DEF Columns
    <3> QED BY <1>0, <2>1, <3>1, <3>2 DEF Honest, TracesOfTheStatus, Columns
  <2> HIDE DEF row
  <2>3. /\ fired' = fired
        /\ job' = [job EXCEPT ![j] = row]
        /\ been' = [been EXCEPT ![j] = @ \union ({row.status} \intersect Working)]
    BY <1>5 DEF Update, row
  <2>4. /\ \A i \in Jobs : been[i] \subseteq been'[i]
        /\ row.status \in Working => row.status \in been'[j]
        /\ job'[j] = row /\ \A i \in Jobs : i # j => job'[i] = job[i]
    BY <1>0, <2>1, <2>3 DEF TypeOK
  <2>5. TracesOfTheStatus' /\ StatusHasBeen'
    BY <1>0, <2>2, <2>3, <2>4 DEF TracesOfTheStatus, StatusHasBeen
  <2>6. Announced(req[s].op, j)'
    <3>1. CASE "status" \in req[s].cols
      <4>1. Aim(req[s].op, row.status)
        BY <1>0, <2>1, <2>2, <3>1 DEF Honest
      <4> QED BY <1>0, <1>5, <2>4, <4>1, UpdateSteps DEF Aim, Announced, Working
    <3>2. CASE "status" \notin req[s].cols
      <4>1. Announced(req[s].op, j)
        BY <1>0, <2>1, <3>2 DEF Honest
      <4> QED BY <1>0, <1>5, <2>1, <2>4, <4>1, UpdateSteps DEF Announced
    <3> QED BY <3>1, <3>2
  <2>7. Honest(req[s])'
    BY <1>0, <1>5, <2>6, UpdateSteps DEF Honest, NoRow
  <2>8. ASSUME NEW t \in Slots, t # s PROVE Honest(req[t])'
    BY <1>0, <1>5, <2>4, <2>8, UpdateSteps DEF Honest, Announced, Same, Sound
  <2> QED BY <2>5, <2>7, <2>8 DEF Traced
<1>6. ASSUME NEW s \in Slots, Respond(s) PROVE Traced'
  <2>1. /\ req[s].pc = "respond" /\ UNCHANGED <<job, been>>
        /\ fired' = fired \union (Emitted(req[s].op) \X {req[s].job})
        /\ req' = [req EXCEPT ![s] = Idle]
    BY <1>6 DEF Respond
  <2>2. Announced(req[s].op, req[s].job)
    BY <1>0, <2>1 DEF Honest
  <2>3. \A e, i : <<e, i>> \in fired' \ fired => e \in Emitted(req[s].op) /\ i = req[s].job
    BY <2>1
  <2>4. TracesOfTheStatus'
    <3> SUFFICES ASSUME NEW i \in Jobs
                 PROVE  /\ job[i].rated => "COMPLETED" \in been[i]
                        /\ <<"job.accepted", i>> \in fired' => "ACCEPTED" \in been[i]
                        /\ <<"job.started", i>> \in fired' => "IN_PROGRESS" \in been[i]
      BY <2>1 DEF TracesOfTheStatus
    <3>1. ASSUME <<"job.accepted", i>> \in fired' PROVE "ACCEPTED" \in been[i]
      <4>1. CASE <<"job.accepted", i>> \in fired
        BY <1>0, <4>1 DEF TracesOfTheStatus
      <4>2. CASE <<"job.accepted", i>> \notin fired
        <5>1. "job.accepted" \in Emitted(req[s].op) /\ i = req[s].job
          BY <2>3, <3>1, <4>2
        <5>2. req[s].op = "acceptJob"
          BY <5>1 DEF Emitted
        <5> QED BY <2>2, <5>1, <5>2 DEF Announced
      <4> QED BY <4>1, <4>2
    <3>2. ASSUME <<"job.started", i>> \in fired' PROVE "IN_PROGRESS" \in been[i]
      <4>1. CASE <<"job.started", i>> \in fired
        BY <1>0, <4>1 DEF TracesOfTheStatus
      <4>2. CASE <<"job.started", i>> \notin fired
        <5>1. "job.started" \in Emitted(req[s].op) /\ i = req[s].job
          BY <2>3, <3>2, <4>2
        <5>2. req[s].op = "startJob"
          BY <5>1 DEF Emitted
        <5> QED BY <2>2, <5>1, <5>2 DEF Announced
      <4> QED BY <4>1, <4>2
    <3> QED BY <1>0, <3>1, <3>2 DEF TracesOfTheStatus
  <2>5. \A t \in Slots : Honest(req[t])'
    BY <1>0, <2>1 DEF TypeOK, Honest, Announced, Idle
  <2> QED BY <1>0, <2>1, <2>4, <2>5 DEF Traced, StatusHasBeen
<1>7. ASSUME NEW s \in Slots, Abort(s) PROVE Traced'
  BY <1>0, <1>7 DEF Abort, Traced, TypeOK, TracesOfTheStatus, StatusHasBeen, Honest, Idle,
     Announced
<1>8. CASE UNCHANGED vars
  BY <1>0, <1>8
     DEF vars, history, Traced, TracesOfTheStatus, StatusHasBeen, Honest, Announced
<1> QED BY <1>1, <1>2, <1>3, <1>4, <1>5, <1>6, <1>7, <1>8 DEF Next, Continue

\* A rating is found only on a job that was COMPLETED at some time, and the client
\* is told of an acceptance or a start only of a job that was ACCEPTED or IN_PROGRESS.
THEOREM TracesTrue == Spec => []TracesOfTheStatus
<1>1. Init => Traced
  BY TracedInit
<1>2. Typed /\ Traced /\ [Next]_vars => Traced'
  BY TracedStep
<1>3. Traced => TracesOfTheStatus
  BY DEF Traced
<1> QED BY <1>1, <1>2, <1>3, AlwaysTyped, PTL DEF Spec

-----------------------------------------------------------------------------
(* Proof that the requests of module Jobs implement JobLifecycle, for any    *)
(* users, jobs and number of concurrent requests.                            *)
-----------------------------------------------------------------------------
(* The invariant: a request that nobody overtook and that overrides nothing  *)
(* still holds a legal move of the row as the row is now.                    *)

\* The row the job will have if the request saves next.
Outcome(r) == IF r.pc = "update" THEN Overlay(r.row, r.cols, job[r.job]) ELSE r.row

Fresh(r) ==
    /\ r.pc \in Early \union {"update"}
    /\ ~r.stale
    /\ ~r.override
    => LifeStep(job[r.job], Outcome(r))

\* TamePromise, read off the rows of the table.
TameRow(row) ==
    /\ row.status \in Working => row.provider # None
    /\ row.rated => row.status = "COMPLETED"
    /\ row.status # "DISPUTED"

Lively == /\ \A j \in Jobs \ wild : TameRow(job[j])
          /\ \A j \in Jobs : job[j].status = "NONE" => job[j] = NoRow
          /\ \A s \in Slots : Fresh(req[s])

LEMMA TameRows == (\A j \in Jobs \ wild : TameRow(job[j])) <=> TamePromise
BY DEF TameRow, TamePromise, Lifecycle!TamePromise, Working, Lifecycle!Working

LEMMA LifeStepTame ==
    ASSUME NEW b \in Row, NEW r \in Row, LifeStep(b, r), TameRow(b), b.status # "NONE"
    PROVE  TameRow(r)
<1>1. CASE r = b
  BY <1>1
<1>2. CASE b.status = "PENDING" /\ \E p \in Users : r = [b EXCEPT !.provider = p]
  BY <1>2 DEF TameRow, Row, Working
<1>3. CASE /\ b.status \in {"PENDING", "ACCEPTED", "IN_PROGRESS"}
           /\ b.status = "PENDING" => b.provider # None
           /\ \E st \in {"ACCEPTED", "IN_PROGRESS", "COMPLETED"} : r = [b EXCEPT !.status = st]
  BY <1>3 DEF TameRow, Row, Working
<1>4. CASE b.status # "COMPLETED" /\ r = [b EXCEPT !.status = "CANCELLED"]
  BY <1>4 DEF TameRow, Row, Working
<1>5. CASE b.status = "COMPLETED" /\ r = [b EXCEPT !.rated = TRUE]
  BY <1>5 DEF TameRow, Row, Working
<1> QED BY <1>1, <1>2, <1>3, <1>4, <1>5 DEF LifeStep

\* Reducing a row to its changed columns loses nothing as long as the stored row
\* stays what it was.
LEMMA OverlayRestores ==
    ASSUME NEW a \in Row, NEW b \in Row, NEW cols \in SUBSET Columns,
           cols = {c \in Columns : a[c] # b[c]}
    PROVE  Overlay(Overlay(a, cols, NoRow), cols, b) = a
<1> DEFINE below == Overlay(a, cols, NoRow)
           r == Overlay(below, cols, b)
<1>1. below \in Row /\ \A c \in Columns : c \in cols => below[c] = a[c]
  BY IdleType, OverlayType
<1> HIDE DEF below
<1>2. r \in Row /\ \A c \in Columns : r[c] = IF c \in cols THEN below[c] ELSE b[c]
  BY <1>1, OverlayType
<1> HIDE DEF r
<1>3. \A c \in Columns : r[c] = a[c]
  BY <1>1, <1>2
<1>4. r = a
  BY <1>2, <1>3 DEF Row, Columns
<1> QED BY <1>4 DEF r, below

LEMMA LivelyInit == Init => Lively
BY DEF Init, Lively, TameRow, Fresh, Idle, NoRow, Working, Early

LEMMA LivelyStep == Typed /\ Lively /\ [Next]_vars => Lively'
<1> SUFFICES ASSUME Typed, Lively, [Next]_vars PROVE Lively'
  OBVIOUS
<1>0. /\ TypeOK /\ \A j \in Jobs \ wild : TameRow(job[j])
      /\ \A j \in Jobs : job[j].status = "NONE" => job[j] = NoRow
      /\ \A s \in Slots : req[s] \in Request /\ Sound(req[s]) /\ Fresh(req[s])
  BY DEF Typed, Lively, TypeOK
<1>1. ASSUME NEW u \in Clients, NEW p \in Users \union {None}, NEW j \in Jobs,
             NEW a \in BOOLEAN, Create(u, p, j, a)
      PROVE  Lively'
  <2>1. /\ wild' = wild /\ req' = req
        /\ \A i \in Jobs : i # j => job'[i] = job[i]
        /\ job[j].status = "NONE" /\ job'[j].status = "PENDING" /\ ~job'[j].rated
    BY <1>0, <1>1 DEF Create, TypeOK, history, NoRow
  <2>2. \A i \in Jobs \ wild' : TameRow(job'[i])
    BY <1>0, <2>1 DEF TameRow, Working
  <2>3. \A s \in Slots : Fresh(req[s])'
    BY <1>0, <2>1 DEF Fresh, Outcome, Sound, Early
  <2>4. \A i \in Jobs : job'[i].status = "NONE" => job'[i] = NoRow
    BY <1>0, <2>1
  <2> QED BY <2>2, <2>3, <2>4 DEF Lively, TameRow
<1>2. ASSUME NEW s \in Slots, NEW u \in Users, NEW j \in Jobs, Handle(s, u, j)
      PROVE  Lively'
  <2>1. PICK op, row : Begin(s, op, u, j, row) /\ Planned(op, u, job[j], row)
    BY <1>0, <1>2, HandleBegins
  <2>2. /\ \A t \in Slots \ {s} : req'[t] = req[t]
        /\ req'[s].pc \in Early /\ req'[s].job = j /\ req'[s].row = row
        /\ req'[s].override = Overrides(op, u, job[j], row)
    <3>1. \A t \in Slots \ {s} : req'[t] = req[t]
      BY <1>0, <2>1, BeginType
    <3>2. req'[s] = [pc |-> IF op = "completeJob" THEN "findProvider" ELSE "diff",
                     op |-> op, by |-> IF op = "completeJob" THEN u ELSE None,
                     job |-> j, row |-> row, cols |-> {}, count |-> 0,
                     stale |-> FALSE, cstale |-> FALSE,
                     override |-> Overrides(op, u, job[j], row)]
      BY <1>0, <2>1, BeginType
    <3> QED BY <3>1, <3>2 DEF Early
  <2>3. UNCHANGED <<job, wild>>
    BY <2>1 DEF Begin
  <2>4. Fresh(req[s])'
    BY <2>1, <2>2, <2>3 DEF Fresh, Outcome, Planned, Early
  <2>5. \A t \in Slots : Fresh(req[t])'
    BY <1>0, <2>2, <2>3, <2>4 DEF Fresh, Outcome
  <2> QED BY <1>0, <2>3, <2>5 DEF Lively
<1>3. ASSUME NEW s \in Slots, FindProvider(s) \/ SaveProvider(s) PROVE Lively'
  <2>1. UNCHANGED <<job, wild>>
    BY <1>3 DEF FindProvider, SaveProvider, history
  <2>2. \A t \in Slots : Fresh(req[t])'
    BY <1>0, <1>3, <2>1, ProviderSteps DEF Fresh, Outcome, Same, Early
  <2> QED BY <1>0, <2>1, <2>2 DEF Lively
<1>4. ASSUME NEW s \in Slots, Diff(s) PROVE Lively'
  <2> DEFINE j == req[s].job
  <2>1. /\ req[s].pc = "diff" /\ j \in Jobs /\ req[s].row \in Row /\ job[j] \in Row
        /\ Changed(s) \in SUBSET Columns
        /\ UNCHANGED <<job, wild>>
    BY <1>0, <1>4, RequestFields DEF Diff, Sound, Changed, history, TypeOK
  <2>2. PICK q \in Request :
              /\ req' = [req EXCEPT ![s] = q]
              /\ q.op = req[s].op /\ q.by = req[s].by /\ q.job = req[s].job
              /\ \/ /\ Changed(s) = {} /\ q.pc = "respond"
                    /\ q.cols = {} /\ q.row = NoRow
                 \/ /\ Changed(s) # {} /\ q.pc = "update"
                    /\ q.cols = Changed(s)
                    /\ q.row = Overlay(req[s].row, Changed(s), NoRow)
                    /\ q.stale = req[s].stale /\ q.override = req[s].override
    BY <1>0, <1>4, DiffSteps
  <2>3. Overlay(Overlay(req[s].row, Changed(s), NoRow), Changed(s), job[j]) = req[s].row
    BY <2>1, OverlayRestores DEF Changed
  <2>4. Fresh(req[s]) /\ Outcome(req[s]) = req[s].row
    BY <1>0, <2>1 DEF Outcome
  <2>5. Fresh(q)
    BY <2>1, <2>2, <2>3, <2>4 DEF Fresh, Outcome, Early
  <2>6. \A t \in Slots : req'[t] = IF t = s THEN q ELSE req[t]
    BY <1>0, <2>2 DEF TypeOK
  <2>7. \A t \in Slots : Fresh(req[t])'
    BY <1>0, <2>1, <2>5, <2>6 DEF Fresh, Outcome
  <2> QED BY <1>0, <2>1, <2>7 DEF Lively
<1>5. ASSUME NEW s \in Slots, Update(s) PROVE Lively'
  <2> DEFINE j == req[s].job
             row == Overlay(req[s].row, req[s].cols, job[j])
  <2>1. /\ req[s].pc = "update" /\ j \in Jobs /\ req[s].row \in Row
        /\ job[j] \in Row /\ req[s].cols \in SUBSET Columns /\ job[j].status # "NONE"
    BY <1>0, <1>5, RequestFields DEF Update, TypeOK, Sound
  <2>2. row \in Row /\ row.status # "NONE"
    BY <1>0, <2>1, OverlayType DEF Sound, Columns, JobStatus
  <2>3. /\ job' = [job EXCEPT ![j] = row]
        /\ wild' = IF req[s].stale \/ req[s].override THEN wild \union {j} ELSE wild
    BY <1>5 DEF Update
  <2>4. j \notin wild' => TameRow(row)
    <3>1. ASSUME j \notin wild' PROVE LifeStep(job[j], row) /\ TameRow(job[j])
      BY <1>0, <2>1, <2>3, <3>1 DEF Fresh, Outcome
    <3> QED BY <2>1, <2>2, <3>1, LifeStepTame
  <2> HIDE DEF row
  <2>5. \A i \in Jobs \ wild' : TameRow(job[i])'
    BY <1>0, <2>1, <2>3, <2>4 DEF TypeOK, TameRow
  <2>6. ASSUME NEW t \in Slots PROVE Fresh(req[t])'
    <3>1. CASE t = s \/ req[t].job = j \/ req[t].pc \in {"idle", "respond"}
      BY <1>0, <1>5, <3>1, UpdateSteps DEF Fresh, Early
    <3>2. CASE t # s /\ req[t].job # j /\ req[t].pc \notin {"idle", "respond"}
      <4>1. job'[req[t].job] = job[req[t].job]
        BY <1>0, <2>1, <2>3, <3>2 DEF TypeOK, Sound
      <4> QED BY <1>0, <1>5, <3>2, <4>1, UpdateSteps DEF Fresh, Outcome, Same
    <3> QED BY <3>1, <3>2
  <2>7. \A i \in Jobs : job'[i].status = "NONE" => job'[i] = NoRow
    BY <1>0, <2>1, <2>2, <2>3 DEF TypeOK
  <2> QED BY <2>5, <2>6, <2>7 DEF Lively
<1>6. ASSUME NEW s \in Slots, Respond(s) \/ Abort(s) PROVE Lively'
  BY <1>0, <1>6 DEF Respond, Abort, Lively, TypeOK, Fresh, Outcome, Idle, Early
<1>7. CASE UNCHANGED vars
  BY <1>0, <1>7 DEF vars, history, Lively, Fresh, Outcome
<1> QED BY <1>1, <1>2, <1>3, <1>4, <1>5, <1>6, <1>7 DEF Next, Continue

LEMMA AlwaysLively == Spec => []Lively
<1>1. Init => Lively
  BY LivelyInit
<1>2. Typed /\ Lively /\ [Next]_vars => Lively'
  BY LivelyStep
<1> QED BY <1>1, <1>2, AlwaysTyped, PTL DEF Spec

\* A tame job that is accepted, in progress or completed has a provider, a rated one
\* is completed, and none is in dispute, whatever requests ran at the same time.
THEOREM TamePromiseKept == Spec => []TamePromise
<1>1. Lively => TamePromise
  BY TameRows DEF Lively
<1> QED BY <1>1, AlwaysLively, PTL
-----------------------------------------------------------------------------
(* The refinement                                                            *)

LEMMA InitMaps == Init => Lifecycle!Init
BY DEF Init, Lifecycle!Init, NoRow

\* What one changed row changes in the tables JobLifecycle sees.
LEMMA OneRow ==
    ASSUME NEW j \in Jobs, NEW row, TypeOK, job' = [job EXCEPT ![j] = row]
    PROVE  /\ [i \in Jobs |-> job[i].status]' =
                  [[i \in Jobs |-> job[i].status] EXCEPT ![j] = row.status]
           /\ [i \in Jobs |-> job[i].provider]' =
                  [[i \in Jobs |-> job[i].provider] EXCEPT ![j] = row.provider]
           /\ [i \in Jobs |-> job[i].rated]' =
                  [[i \in Jobs |-> job[i].rated] EXCEPT ![j] = row.rated]
BY DEF TypeOK

\* A legal move of a tame row is a step of JobLifecycle, or none.
LEMMA MoveMaps ==
    ASSUME TypeOK, NEW j \in Jobs, NEW row \in Row, job' = [job EXCEPT ![j] = row],
           wild' = wild, job[j].status # "NONE", TameRow(job[j]), LifeStep(job[j], row)
    PROVE  [Lifecycle!Next]_(Lifecycle!vars)
<1> DEFINE stat == [i \in Jobs |-> job[i].status]
           asgd == [i \in Jobs |-> job[i].provider]
           rtd == [i \in Jobs |-> job[i].rated]
           b == job[j]
<1>1. /\ stat' = [stat EXCEPT ![j] = row.status]
      /\ asgd' = [asgd EXCEPT ![j] = row.provider]
      /\ rtd' = [rtd EXCEPT ![j] = row.rated]
  BY OneRow
<1>2. b \in Row /\ stat[j] = b.status /\ asgd[j] = b.provider /\ rtd[j] = b.rated
  BY DEF TypeOK
<1>3. /\ row.status = b.status => stat' = stat
      /\ row.provider = b.provider => asgd' = asgd
      /\ row.rated = b.rated => rtd' = rtd
  BY <1>1
<1>4. CASE row = b
  BY <1>2, <1>3, <1>4 DEF Lifecycle!vars
<1>5. CASE /\ b.status = "PENDING" /\ b.provider = None
           /\ \E p \in Users : row = [b EXCEPT !.provider = p]
  <2>1. PICK p \in Users : row = [b EXCEPT !.provider = p]
    BY <1>5
  <2>2. row.provider = p /\ row.status = b.status /\ row.rated = b.rated
    BY <1>2, <2>1 DEF Row
  <2>3. Lifecycle!Assign(j, p)
    BY <1>1, <1>2, <1>3, <1>5, <2>2 DEF Lifecycle!Assign
  <2> QED BY <2>3 DEF Lifecycle!Next
<1>6. ASSUME NEW st, row = [b EXCEPT !.status = st]
      PROVE  stat' = [stat EXCEPT ![j] = st] /\ asgd' = asgd /\ rtd' = rtd
  <2>1. row.status = st /\ row.provider = b.provider /\ row.rated = b.rated
    BY <1>2, <1>6 DEF Row
  <2> QED BY <1>1, <1>3, <2>1
<1>7. CASE b.status = "PENDING" /\ b.provider # None /\ row = [b EXCEPT !.status = "ACCEPTED"]
  <2>1. Lifecycle!Accept(j)
    BY <1>2, <1>6, <1>7 DEF Lifecycle!Accept, Lifecycle!Move
  <2> QED BY <2>1 DEF Lifecycle!Next
<1>8. CASE b.status = "ACCEPTED" /\ row = [b EXCEPT !.status = "IN_PROGRESS"]
  <2>1. Lifecycle!Start(j)
    BY <1>2, <1>6, <1>8 DEF Lifecycle!Start, Lifecycle!Move
  <2> QED BY <2>1 DEF Lifecycle!Next
<1>9. CASE b.status \in {"ACCEPTED", "IN_PROGRESS"} /\ row = [b EXCEPT !.status = "COMPLETED"]
  <2>1. Lifecycle!Complete(j)
    BY <1>2, <1>6, <1>9 DEF Lifecycle!Complete, Lifecycle!Move
  <2> QED BY <2>1 DEF Lifecycle!Next
<1>10. CASE b.status # "COMPLETED" /\ row = [b EXCEPT !.status = "CANCELLED"]
  <2>1. CASE b.status = "CANCELLED"
    BY <1>2, <1>4, <1>10, <2>1 DEF Row
  <2>2. CASE b.status # "CANCELLED"
    <3>1. b.status \in {"PENDING", "ACCEPTED", "IN_PROGRESS"}
      BY <1>2, <1>10, <2>2 DEF Row, JobStatus, TameRow
    <3>2. Lifecycle!Cancel(j)
      BY <1>2, <1>6, <1>10, <3>1 DEF Lifecycle!Cancel, Lifecycle!Move
    <3> QED BY <3>2 DEF Lifecycle!Next
  <2> QED BY <2>1, <2>2
<1>11. CASE b.status = "COMPLETED" /\ row = [b EXCEPT !.rated = TRUE]
  <2>1. row.rated = TRUE /\ row.status = b.status /\ row.provider = b.provider
    BY <1>2, <1>11 DEF Row
  <2>2. Lifecycle!Rate(j)
    BY <1>1, <1>2, <1>3, <1>11, <2>1 DEF Lifecycle!Rate
  <2> QED BY <2>2 DEF Lifecycle!Next
<1> QED BY <1>4, <1>5, <1>7, <1>8, <1>9, <1>10, <1>11 DEF LifeStep

\* Any write of a stored row is Disturb, once the job is wild.
LEMMA WildMaps ==
    ASSUME TypeOK, NEW j \in Jobs, NEW row \in Row, job' = [job EXCEPT ![j] = row],
           wild' = wild \union {j}, job[j].status # "NONE", row.status # "NONE"
    PROVE  Lifecycle!Next
<1>1. Lifecycle!Disturb(j)
  <2>1. /\ row.status \in Lifecycle!Status /\ row.provider \in Users \union {None}
        /\ row.rated \in BOOLEAN
    BY DEF Row, JobStatus, Lifecycle!Status
  <2> DEFINE stat == [i \in Jobs |-> job[i].status]
             asgd == [i \in Jobs |-> job[i].provider]
             rtd == [i \in Jobs |-> job[i].rated]
  <2>2. /\ stat' = [stat EXCEPT ![j] = row.status]
        /\ asgd' = [asgd EXCEPT ![j] = row.provider]
        /\ rtd' = [rtd EXCEPT ![j] = row.rated]
    BY OneRow
  <2>3. stat[j] # "NONE"
    OBVIOUS
  <2> HIDE DEF stat, asgd, rtd
  <2>4. \E s \in Lifecycle!Status, p \in Users \union {None}, r \in BOOLEAN :
            /\ stat' = [stat EXCEPT ![j] = s]
            /\ asgd' = [asgd EXCEPT ![j] = p]
            /\ rtd' = [rtd EXCEPT ![j] = r]
    BY <2>1, <2>2
  <2> QED BY <2>3, <2>4 DEF Lifecycle!Disturb, stat, asgd, rtd
<1> QED BY <1>1 DEF Lifecycle!Next

LEMMA NextMaps == Typed /\ Lively /\ [Next]_vars => [Lifecycle!Next]_(Lifecycle!vars)
<1> SUFFICES ASSUME Typed, Lively, [Next]_vars PROVE [Lifecycle!Next]_(Lifecycle!vars)
  OBVIOUS
<1>0. /\ TypeOK /\ \A j \in Jobs \ wild : TameRow(job[j])
      /\ \A j \in Jobs : job[j].status = "NONE" => job[j] = NoRow
      /\ \A s \in Slots : req[s] \in Request /\ Sound(req[s]) /\ Fresh(req[s])
  BY DEF Typed, Lively, TypeOK
<1>1. ASSUME NEW u \in Clients, NEW p \in Users \union {None}, NEW j \in Jobs,
             NEW a \in BOOLEAN, Create(u, p, j, a)
      PROVE  Lifecycle!Next
  <2> DEFINE row == [NoRow EXCEPT !.client = u, !.provider = p, !.status = "PENDING"]
  <2>1. /\ job' = [job EXCEPT ![j] = row] /\ wild' = wild
        /\ row.status = "PENDING" /\ row.provider = p /\ row.rated = FALSE
    BY <1>1 DEF Create, history, NoRow
  <2>2. job[j].status = "NONE" /\ job[j] \in Row
    BY <1>0, <1>1 DEF Create, TypeOK
  <2> HIDE DEF row
  <2>3. Lifecycle!Create(j, p)
    <3> DEFINE stat == [i \in Jobs |-> job[i].status]
               asgd == [i \in Jobs |-> job[i].provider]
               rtd == [i \in Jobs |-> job[i].rated]
    <3>0. /\ stat' = [stat EXCEPT ![j] = row.status]
          /\ asgd' = [asgd EXCEPT ![j] = row.provider]
          /\ rtd' = [rtd EXCEPT ![j] = row.rated]
      BY <1>0, <2>1, OneRow
    <3>1. /\ stat' = [stat EXCEPT ![j] = "PENDING"]
          /\ asgd' = [asgd EXCEPT ![j] = p]
          /\ rtd' = [rtd EXCEPT ![j] = FALSE]
      BY <2>1, <3>0
    <3>2. stat[j] = "NONE" /\ rtd[j] = FALSE
      BY <1>0, <2>2 DEF NoRow
    <3>3. rtd' = rtd
      BY <3>1, <3>2
    <3> QED BY <2>1, <3>1, <3>2, <3>3 DEF Lifecycle!Create
  <2> QED BY <2>3 DEF Lifecycle!Next
<1>2. ASSUME job' = job, wild' = wild PROVE UNCHANGED Lifecycle!vars
  BY <1>2 DEF Lifecycle!vars
<1>3. ASSUME NEW s \in Slots, Update(s) PROVE [Lifecycle!Next]_(Lifecycle!vars)
  <2> DEFINE j == req[s].job
             row == Overlay(req[s].row, req[s].cols, job[j])
  <2>1. /\ req[s].pc = "update" /\ j \in Jobs /\ req[s].row \in Row
        /\ job[j] \in Row /\ req[s].cols \in SUBSET Columns /\ job[j].status # "NONE"
    BY <1>0, <1>3, RequestFields DEF Update, TypeOK, Sound
  <2>2. row \in Row /\ row.status # "NONE"
    BY <1>0, <2>1, OverlayType DEF Sound, Columns, JobStatus
  <2>3. /\ job' = [job EXCEPT ![j] = row]
        /\ wild' = IF req[s].stale \/ req[s].override THEN wild \union {j} ELSE wild
    BY <1>3 DEF Update
  <2>4. CASE wild' = wild \union {j}
    BY <1>0, <2>1, <2>2, <2>3, <2>4, WildMaps
  <2>5. CASE wild' # wild \union {j}
    <3>1. j \notin wild /\ wild' = wild /\ ~req[s].stale /\ ~req[s].override
      BY <2>3, <2>5
    <3>2. LifeStep(job[j], row) /\ TameRow(job[j])
      BY <1>0, <2>1, <3>1 DEF Fresh, Outcome
    <3> QED BY <1>0, <2>1, <2>2, <2>3, <3>1, <3>2, MoveMaps
  <2> QED BY <2>4, <2>5
<1>4. ASSUME NEW s \in Slots, NEW u \in Users, NEW j \in Jobs, Handle(s, u, j)
      PROVE  job' = job /\ wild' = wild
  BY <1>0, <1>4, HandleBegins DEF Begin
<1>5. ASSUME NEW s \in Slots,
             FindProvider(s) \/ SaveProvider(s) \/ Diff(s) \/ Respond(s) \/ Abort(s)
      PROVE  job' = job /\ wild' = wild
  BY <1>5 DEF FindProvider, SaveProvider, Diff, Respond, Abort, history
<1>6. CASE UNCHANGED vars
  BY <1>2, <1>6 DEF vars, history
<1> QED BY <1>1, <1>2, <1>3, <1>4, <1>5, <1>6 DEF Next, Continue

\* The concurrent handlers implement the life of a job.
THEOREM Refinement == Spec => LifecycleKept
<1>1. Init => Lifecycle!Init
  BY InitMaps
<1>2. Typed /\ Lively /\ [Next]_vars => [Lifecycle!Next]_(Lifecycle!vars)
  BY NextMaps
<1> QED BY <1>1, <1>2, AlwaysTyped, AlwaysLively, PTL DEF Spec, LifecycleKept, Lifecycle!Spec

\* A step of JobLifecycle leaves a tame job that is closed in its status, and a tame
\* job with the provider it has.
LEMMA LifecycleStays ==
    ASSUME Typed, Lively, Lifecycle!Next
    PROVE  \A j \in Jobs \ wild' :
               /\ job[j].status \in {"COMPLETED", "CANCELLED"} => job'[j].status = job[j].status
               /\ job[j].provider # None => job'[j].provider = job[j].provider
<1> SUFFICES ASSUME NEW j \in Jobs \ wild'
             PROVE  /\ job[j].status \in {"COMPLETED", "CANCELLED"} => job'[j].status = job[j].status
                    /\ job[j].provider # None => job'[j].provider = job[j].provider
  OBVIOUS
<1> DEFINE stat == [i \in Jobs |-> job[i].status]
           asgd == [i \in Jobs |-> job[i].provider]
<1>1. /\ stat[j] = job[j].status /\ stat'[j] = job'[j].status
      /\ asgd[j] = job[j].provider /\ asgd'[j] = job'[j].provider
      /\ stat[j] = "NONE" => asgd[j] = None
  BY DEF Lively, NoRow
<1> SUFFICES /\ stat[j] \in {"COMPLETED", "CANCELLED"} => stat'[j] = stat[j]
             /\ asgd[j] # None => asgd'[j] = asgd[j]
  BY <1>1
<1>2. DOMAIN stat = Jobs /\ DOMAIN asgd = Jobs
  OBVIOUS
<1>3. PICK i \in Jobs :
         \/ \E p \in Users \union {None} : Lifecycle!Create(i, p)
         \/ \E p \in Users : Lifecycle!Assign(i, p)
         \/ Lifecycle!Accept(i) \/ Lifecycle!Start(i) \/ Lifecycle!Complete(i)
         \/ Lifecycle!Cancel(i) \/ Lifecycle!Rate(i)
         \/ Lifecycle!Disturb(i)
  BY DEF Lifecycle!Next
<1> DEFINE Keeps == /\ stat[j] \in {"COMPLETED", "CANCELLED"} => stat'[j] = stat[j]
                    /\ asgd[j] # None => asgd'[j] = asgd[j]
<1>4. ASSUME NEW p, Lifecycle!Create(i, p) PROVE Keeps
  <2>1. /\ stat[i] = "NONE" /\ stat' = [stat EXCEPT ![i] = "PENDING"]
        /\ asgd' = [asgd EXCEPT ![i] = p]
    BY <1>4 DEF Lifecycle!Create
  <2> QED BY <1>1, <1>2, <2>1
<1>5. ASSUME NEW p, Lifecycle!Assign(i, p) PROVE Keeps
  <2>1. asgd[i] = None /\ stat' = stat /\ asgd' = [asgd EXCEPT ![i] = p]
    BY <1>5 DEF Lifecycle!Assign
  <2> QED BY <1>2, <2>1
<1>6. ASSUME NEW from, NEW to, Lifecycle!Move(i, from, to),
             from \intersect {"COMPLETED", "CANCELLED"} = {}
      PROVE  Keeps
  <2>1. stat[i] \in from /\ asgd' = asgd /\ stat' = [stat EXCEPT ![i] = to]
    BY <1>6 DEF Lifecycle!Move
  <2> QED BY <1>2, <1>6, <2>1
<1>7. CASE Lifecycle!Accept(i) \/ Lifecycle!Start(i) \/ Lifecycle!Complete(i) \/ Lifecycle!Cancel(i)
  BY <1>6, <1>7 DEF Lifecycle!Accept, Lifecycle!Start, Lifecycle!Complete, Lifecycle!Cancel
<1>8. CASE Lifecycle!Rate(i)
  BY <1>8 DEF Lifecycle!Rate
<1>9. CASE Lifecycle!Disturb(i)
  <2>1. i # j
    BY <1>9 DEF Lifecycle!Disturb
  <2>2. \E s, p : stat' = [stat EXCEPT ![i] = s] /\ asgd' = [asgd EXCEPT ![i] = p]
    BY <1>9 DEF Lifecycle!Disturb
  <2> QED BY <1>2, <2>1, <2>2
<1> QED BY <1>3, <1>4, <1>5, <1>7, <1>8, <1>9

\* A tame job that is completed or cancelled stays so, and a tame job never loses or
\* exchanges its provider, whatever requests run at the same time.
THEOREM TameStaysKept == Spec => TameStays
<1>1. Typed /\ Lively /\ [Next]_vars => [Lifecycle!Stays]_(Lifecycle!vars)
  BY NextMaps, LifecycleStays DEF Lifecycle!Stays
<1> QED BY <1>1, AlwaysTyped, AlwaysLively, PTL DEF Spec, TameStays, Lifecycle!TameStays

-----------------------------------------------------------------------------
(* Proof that a provider's completedJobs follows the completions that were   *)
(* answered (CounterMatchesAnswers), for any number of concurrent requests.  *)
-----------------------------------------------------------------------------
(* The invariant: completions only grow while no request of the provider     *)
(* dies, so what a request is about to write is at most one more than them.  *)

Completions(p) == finished[p] + Cardinality(Counted(p))

Writes(s) ==
    req[s].pc = "saveProvider" =>
        /\ ~req[s].cstale => req[s].count = completedJobs[req[s].by] + 1
        /\ req[s].by \notin interrupted => req[s].count <= Completions(req[s].by) + 1

Counting == CounterMatchesAnswers /\ \A s \in Slots : Writes(s)

LEMMA CountedFinite ==
    ASSUME NEW p
    PROVE  IsFiniteSet(Counted(p)) /\ Cardinality(Counted(p)) \in Nat
<1>1. Counted(p) \subseteq Slots
  BY DEF Counted
<1>2. IsFiniteSet(Counted(p))
  BY <1>1, FS_Subset, ConstantsAssumption
<1> QED BY <1>2, FS_CardinalityType

LEMMA CompletionsType ==
    ASSUME TypeOK, NEW p \in Profiles
    PROVE  Completions(p) \in Nat /\ completedJobs[p] \in Nat /\ finished[p] \in Nat
BY CountedFinite DEF TypeOK, Completions

\* As long as nobody's answer is lost, the invariant survives every step that
\* leaves the counters, the pending writes and the completions alone.
LEMMA CountingKept ==
    ASSUME TypeOK, Counting, UNCHANGED completedJobs,
           racedCounter \subseteq racedCounter',
           interrupted \subseteq interrupted',
           \A p \in Profiles \ interrupted' : Completions(p)' = Completions(p),
           \A s \in Slots : req'[s].pc = "saveProvider" =>
               \/ /\ req[s].pc = "saveProvider" /\ req'[s].by = req[s].by
                  /\ req'[s].count = req[s].count /\ req'[s].cstale = req[s].cstale
                  /\ req[s].by \in Profiles
               \/ /\ req'[s].count = completedJobs[req'[s].by] + 1
                  /\ req'[s].by \in Profiles
    PROVE  Counting'
<1>1. CounterMatchesAnswers'
  BY DEF Counting, CounterMatchesAnswers, Completions
<1>2. ASSUME NEW s \in Slots PROVE Writes(s)'
  <2>1. SUFFICES ASSUME req'[s].pc = "saveProvider" PROVE Writes(s)'
    BY DEF Writes
  <2>2. CASE /\ req[s].pc = "saveProvider" /\ req'[s].by = req[s].by
             /\ req'[s].count = req[s].count /\ req'[s].cstale = req[s].cstale
             /\ req[s].by \in Profiles
    <3>1. Writes(s)
      BY DEF Counting
    <3> QED BY <2>2, <3>1 DEF Writes
  <2>3. CASE req'[s].count = completedJobs[req'[s].by] + 1 /\ req'[s].by \in Profiles
    <3> PICK p \in Profiles : p = req'[s].by
      BY <2>3
    <3>1. p \notin interrupted' => completedJobs[p] <= Completions(p)
      BY <2>3 DEF Counting, CounterMatchesAnswers, Completions
    <3>2. Completions(p) \in Nat /\ completedJobs[p] \in Nat
      BY <2>3, CompletionsType
    <3>3. p \notin interrupted' => Completions(p)' = Completions(p)
      BY <2>3
    <3> QED BY <2>3, <3>1, <3>2, <3>3 DEF Writes
  <2> QED BY <2>1, <2>2, <2>3
<1> QED BY <1>1, <1>2 DEF Counting

LEMMA CountingInit == Init => Counting
<1> SUFFICES ASSUME Init PROVE Counting
  OBVIOUS
<1>1. \A s \in Slots : req[s].pc = "idle" /\ req[s].op = "none"
  BY DEF Init, Idle
<1>2. \A p \in Profiles : Counted(p) = {}
  BY <1>1 DEF Counted
<1>3. \A p \in Profiles : completedJobs[p] = 0 /\ finished[p] = 0 /\ Cardinality(Counted(p)) = 0
  BY <1>2, FS_EmptySet DEF Init
<1> QED BY <1>1, <1>3 DEF Counting, Writes, CounterMatchesAnswers

LEMMA CountingStep == Typed /\ Counting /\ [Next]_vars => Counting'
<1> SUFFICES ASSUME Typed, Counting, [Next]_vars PROVE Counting'
  OBVIOUS
<1>0. /\ TypeOK /\ \A s \in Slots : req[s] \in Request /\ Sound(req[s])
  BY DEF Typed, TypeOK
<1>1. ASSUME NEW u \in Clients, NEW p \in Users \union {None}, NEW j \in Jobs,
             NEW a \in BOOLEAN, Create(u, p, j, a)
      PROVE  Counting'
  BY <1>1 DEF Create, history, Counting, CounterMatchesAnswers, Counted, Writes, Completions
<1>2. ASSUME NEW s \in Slots, NEW u \in Users, NEW j \in Jobs, Handle(s, u, j)
      PROVE  Counting'
  <2>1. PICK op, row : Begin(s, op, u, j, row) /\ Planned(op, u, job[j], row)
    BY <1>0, <1>2, HandleBegins
  <2>2. /\ \A t \in Slots \ {s} : req'[t] = req[t]
        /\ req'[s].op = "completeJob" => req'[s].pc = "findProvider"
        /\ req'[s].pc \in {"findProvider", "diff"}
    <3>1. \A t \in Slots \ {s} : req'[t] = req[t]
      BY <1>0, <2>1, BeginType
    <3>2. req'[s] = [pc |-> IF op = "completeJob" THEN "findProvider" ELSE "diff",
                     op |-> op, by |-> IF op = "completeJob" THEN u ELSE None,
                     job |-> j, row |-> row, cols |-> {}, count |-> 0,
                     stale |-> FALSE, cstale |-> FALSE,
                     override |-> Overrides(op, u, job[j], row)]
      BY <1>0, <2>1, BeginType
    <3> QED BY <3>1, <3>2
  <2>3. UNCHANGED <<completedJobs, racedCounter, finished, interrupted>>
    BY <2>1 DEF Begin
  <2>4. req[s].pc = "idle"
    BY <1>2 DEF Handle
  <2>5. \A p \in Profiles : Counted(p)' = Counted(p)
    BY <2>2, <2>4 DEF Counted
  <2>6. \A p \in Profiles : Completions(p)' = Completions(p)
    BY <2>3, <2>5 DEF Completions
  <2> QED BY <1>0, <2>2, <2>3, <2>6, CountingKept DEF Sound
<1>3. ASSUME NEW s \in Slots, FindProvider(s) PROVE Counting'
  <2>1. /\ req[s].pc = "findProvider"
        /\ UNCHANGED <<completedJobs, racedCounter, finished, interrupted>>
        /\ \A t \in Slots : t # s => req'[t] = req[t]
    BY <1>0, <1>3 DEF FindProvider, history, TypeOK
  <2>2. req[s].by = req'[s].by
    BY <1>0, <1>3, ProviderSteps DEF Same
  <2>3. /\ req'[s].pc = "saveProvider" => /\ req'[s].count = completedJobs[req[s].by] + 1
                                          /\ req[s].by \in Profiles
        /\ req'[s].pc = "diff" => req[s].by \notin Profiles
        /\ req'[s].pc \in {"saveProvider", "diff"}
    <3>1. CASE req[s].by \in Profiles
      <4> DEFINE n == completedJobs[req[s].by] + 1
                 q == [req[s] EXCEPT !.pc = "saveProvider", !.count = n]
      <4> HIDE DEF n
      <4>1. q.pc = "saveProvider" /\ q.count = n
        BY <1>0 DEF Request
      <4> HIDE DEF q
      <4>2. req'[s] = q
        BY <1>0, <1>3, <3>1 DEF FindProvider, TypeOK, q, n
      <4> QED BY <3>1, <4>1, <4>2 DEF n
    <3>2. CASE req[s].by \notin Profiles
      <4> DEFINE q == [req[s] EXCEPT !.pc = "diff"]
      <4>1. q.pc = "diff"
        BY <1>0 DEF Request
      <4> HIDE DEF q
      <4>2. req'[s] = q
        BY <1>0, <1>3, <3>2 DEF FindProvider, TypeOK, q
      <4> QED BY <3>2, <4>1, <4>2
    <3> QED BY <3>1, <3>2
  <2>4. \A p \in Profiles : Counted(p)' = Counted(p)
    BY <2>1, <2>2, <2>3 DEF Counted
  <2>5. \A p \in Profiles : Completions(p)' = Completions(p)
    BY <2>1, <2>4 DEF Completions
  <2> QED BY <1>0, <2>1, <2>2, <2>3, <2>5, CountingKept DEF Sound
<1>4. ASSUME NEW s \in Slots, SaveProvider(s) PROVE Counting'
  <2>1. PICK p \in Profiles : p = req[s].by
    BY <1>0, <1>4 DEF SaveProvider, Sound
  <2>2. /\ req[s].pc = "saveProvider" /\ req[s].op = "completeJob"
        /\ completedJobs' = [completedJobs EXCEPT ![p] = req[s].count]
        /\ racedCounter' = IF req[s].cstale THEN racedCounter \union {p} ELSE racedCounter
        /\ UNCHANGED <<finished, interrupted>>
    BY <1>0, <1>4, <2>1 DEF SaveProvider, Sound
  <2>3. /\ req'[s].pc = "diff" /\ req'[s].op = req[s].op /\ req'[s].by = p
        /\ \A t \in Slots : t # s =>
             /\ req'[t].op = req[t].op /\ req'[t].by = req[t].by /\ req'[t].pc = req[t].pc
             /\ req'[t].count = req[t].count
             /\ req'[t].cstale = req[t].cstale \/ req'[t].cstale
             /\ req[t].pc = "saveProvider" /\ req[t].by = p => req'[t].cstale
    <3>1. req'[s] = [req[s] EXCEPT !.pc = "diff", !.count = 0, !.cstale = FALSE]
      BY <1>4 DEF SaveProvider
    <3> DEFINE q == [req[s] EXCEPT !.pc = "diff", !.count = 0, !.cstale = FALSE]
    <3>2. q.pc = "diff" /\ q.op = req[s].op /\ q.by = req[s].by
      BY <1>0 DEF Request
    <3>3. req'[s].pc = "diff" /\ req'[s].op = req[s].op /\ req'[s].by = p
      BY <2>1, <3>1, <3>2
    <3>4. ASSUME NEW t \in Slots, t # s
          PROVE  /\ req'[t].op = req[t].op /\ req'[t].by = req[t].by /\ req'[t].pc = req[t].pc
                 /\ req'[t].count = req[t].count
                 /\ req'[t].cstale = req[t].cstale \/ req'[t].cstale
                 /\ req[t].pc = "saveProvider" /\ req[t].by = p => req'[t].cstale
      <4>1. CASE req[t].pc = "saveProvider" /\ req[t].by = p
        <5>1. req'[t] = [req[t] EXCEPT !.cstale = TRUE]
          BY <1>4, <2>1, <3>4, <4>1 DEF SaveProvider
        <5> QED BY <1>0, <5>1, RequestSame DEF Same
      <4>2. CASE ~(req[t].pc = "saveProvider" /\ req[t].by = p)
        <5>1. req'[t] = req[t]
          BY <1>4, <2>1, <3>4, <4>2 DEF SaveProvider
        <5> QED BY <4>2, <5>1
      <4> QED BY <4>1, <4>2
    <3> QED BY <3>3, <3>4
  <2>4. ASSUME NEW i \in Profiles
        PROVE  Completions(i)' = IF i = p THEN Completions(i) + 1 ELSE Completions(i)
    <3>1. s \notin Counted(i) /\ Counted(i)' = IF i = p THEN Counted(i) \union {s} ELSE Counted(i)
      BY <2>1, <2>2, <2>3 DEF Counted
    <3>2. Cardinality(Counted(i) \union {s}) = Cardinality(Counted(i)) + 1
      BY <3>1, CountedFinite, FS_AddElement
    <3> QED BY <1>0, <2>2, <3>1, <3>2, CountedFinite DEF Completions, TypeOK
  <2>5. Writes(s)
    BY DEF Counting
  <2>6. CounterMatchesAnswers'
    <3> SUFFICES ASSUME NEW i \in Profiles, i \notin interrupted
                 PROVE  /\ completedJobs'[i] <= Completions(i)'
                        /\ i \notin racedCounter' => completedJobs'[i] = Completions(i)'
      BY <2>2 DEF CounterMatchesAnswers, Completions
    <3>1. /\ completedJobs[i] <= Completions(i)
          /\ i \notin racedCounter => completedJobs[i] = Completions(i)
      BY DEF Counting, CounterMatchesAnswers, Completions
    <3>2. CASE i = p
      <4>1. completedJobs'[i] = req[s].count
        BY <1>0, <2>2, <3>2 DEF TypeOK
      <4>2. req[s].count <= Completions(i) + 1
        BY <2>1, <2>2, <2>5, <3>2 DEF Writes
      <4>3. i \notin racedCounter' => /\ i \notin racedCounter
                                     /\ req[s].count = completedJobs[i] + 1
        BY <2>1, <2>2, <2>5, <3>2 DEF Writes
      <4> QED BY <2>4, <3>1, <3>2, <4>1, <4>2, <4>3
    <3>3. CASE i # p
      BY <1>0, <2>2, <2>4, <3>1, <3>3 DEF TypeOK
    <3> QED BY <3>2, <3>3
  <2>7. ASSUME NEW t \in Slots PROVE Writes(t)'
    <3> SUFFICES ASSUME t # s, req[t].pc = "saveProvider" PROVE Writes(t)'
      BY <2>3 DEF Writes
    <3>1. PICK i \in Profiles : i = req[t].by
      BY <1>0 DEF Sound
    <3>2. Writes(t)
      BY DEF Counting
    <3>3. Completions(i) \in Nat /\ Completions(i)' >= Completions(i) /\ req[t].count \in Nat
      BY <1>0, <2>4, CompletionsType, RequestFields
    <3>4. i \notin interrupted' => req'[t].count <= Completions(i)' + 1
      BY <2>2, <2>3, <3>1, <3>2, <3>3, <2>4 DEF Writes
    <3>5. ~req'[t].cstale => req'[t].count = completedJobs'[i] + 1
      <4>1. CASE i = p
        BY <2>3, <3>1, <4>1
      <4>2. CASE i # p
        BY <1>0, <2>2, <2>3, <3>1, <3>2, <4>2 DEF Writes, TypeOK
      <4> QED BY <4>1, <4>2
    <3> QED BY <2>3, <3>1, <3>4, <3>5 DEF Writes
  <2> QED BY <2>6, <2>7 DEF Counting
<1>5. ASSUME NEW s \in Slots, Diff(s) \/ Update(s) PROVE Counting'
  <2>1. UNCHANGED <<completedJobs, racedCounter, finished, interrupted>>
    BY <1>5 DEF Diff, Update, history
  <2>2. \A t \in Slots :
            /\ req'[t].op = req[t].op /\ req'[t].by = req[t].by
            /\ \/ /\ req'[t].pc = req[t].pc
                  /\ req'[t].count = req[t].count /\ req'[t].cstale = req[t].cstale
               \/ {req[t].pc, req'[t].pc} \subseteq {"diff", "update", "respond"}
    <3>1. CASE Update(s)
      <4>1. req[s].pc = "update"
        BY <3>1 DEF Update
      <4> QED BY <1>0, <3>1, <4>1, UpdateSteps DEF Same
    <3>2. CASE Diff(s)
      <4>1. req[s].pc = "diff"
        BY <3>2 DEF Diff
      <4>2. PICK q \in Request :
              /\ req' = [req EXCEPT ![s] = q]
              /\ q.op = req[s].op /\ q.by = req[s].by
              /\ q.pc \in {"respond", "update"}
        BY <1>0, <3>2, DiffSteps
      <4> QED BY <1>0, <4>1, <4>2 DEF TypeOK
    <3> QED BY <1>5, <3>1, <3>2
  <2>3. \A p \in Profiles : Counted(p)' = Counted(p)
    BY <2>2 DEF Counted
  <2>4. \A p \in Profiles : Completions(p)' = Completions(p)
    BY <2>1, <2>3 DEF Completions
  <2> QED BY <1>0, <2>1, <2>2, <2>4, CountingKept DEF Sound
<1>6. ASSUME NEW s \in Slots, Respond(s) PROVE Counting'
  <2>1. /\ req[s].pc = "respond" /\ req' = [req EXCEPT ![s] = Idle]
        /\ UNCHANGED <<completedJobs, racedCounter, interrupted>>
    BY <1>6 DEF Respond
  <2>2. \A t \in Slots : req'[t] = IF t = s THEN Idle ELSE req[t]
    BY <1>0, <2>1 DEF TypeOK
  <2>3. \A t \in Slots : req'[t].pc = "saveProvider" => req'[t] = req[t]
    BY <2>2 DEF Idle
  <2>4. ASSUME NEW p \in Profiles PROVE Completions(p)' = Completions(p)
    <3>1. Counted(p)' = Counted(p) \ {s}
      BY <2>2 DEF Counted, Idle
    <3>2. CASE s \in Counted(p)
      <4>1. finished'[p] = finished[p] + 1
        BY <1>0, <1>6, <3>2 DEF Respond, Counted, TypeOK
      <4>2. Cardinality(Counted(p) \ {s}) = Cardinality(Counted(p)) - 1
        BY <3>2, CountedFinite, FS_RemoveElement
      <4> QED BY <1>0, <3>1, <4>1, <4>2, CountedFinite DEF Completions, TypeOK
    <3>3. CASE s \notin Counted(p)
      <4>1. finished'[p] = finished[p]
        BY <1>0, <1>6, <3>3 DEF Respond, Counted, TypeOK
      <4> QED BY <3>1, <3>3, <4>1 DEF Completions
    <3> QED BY <3>2, <3>3
  <2> QED BY <1>0, <2>1, <2>3, <2>4, CountingKept DEF Sound
<1>7. ASSUME NEW s \in Slots, Abort(s) PROVE Counting'
  <2>1. /\ req[s].pc # "idle" /\ req' = [req EXCEPT ![s] = Idle]
        /\ UNCHANGED <<completedJobs, racedCounter, finished>>
        /\ interrupted \subseteq interrupted'
    BY <1>7 DEF Abort
  <2>2. \A t \in Slots : req'[t] = IF t = s THEN Idle ELSE req[t]
    BY <1>0, <2>1 DEF TypeOK
  <2>3. \A p \in Profiles \ interrupted' : s \notin Counted(p)
    BY <1>7 DEF Abort, Counted
  <2>4. \A p \in Profiles \ interrupted' : Counted(p)' = Counted(p)
    BY <2>2, <2>3 DEF Counted, Idle
  <2>5. \A p \in Profiles \ interrupted' : Completions(p)' = Completions(p)
    BY <2>1, <2>4 DEF Completions
  <2>6. \A t \in Slots : req'[t].pc = "saveProvider" => req'[t] = req[t]
    BY <2>2 DEF Idle
  <2> QED BY <1>0, <2>1, <2>5, <2>6, CountingKept DEF Sound
<1>8. CASE UNCHANGED vars
  BY <1>8 DEF vars, history, Counting, CounterMatchesAnswers, Counted, Writes, Completions
<1> QED BY <1>1, <1>2, <1>3, <1>4, <1>5, <1>6, <1>7, <1>8 DEF Next, Continue
\* As long as no completion of a provider dies half way, completedJobs never exceeds
\* the completions answered and under way; without a race it is their number.
THEOREM CounterCorrect == Spec => []CounterMatchesAnswers
<1>1. Init => Counting
  BY CountingInit
<1>2. Typed /\ Counting /\ [Next]_vars => Counting'
  BY CountingStep
<1>3. Counting => CounterMatchesAnswers
  BY DEF Counting
<1> QED BY <1>1, <1>2, <1>3, AlwaysTyped, PTL DEF Spec
=============================================================================
