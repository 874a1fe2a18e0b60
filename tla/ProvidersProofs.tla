--------------------------- MODULE ProvidersProofs ---------------------------
(***************************************************************************)
(* Proofs about Providers, for any number of users, profiles, requests for *)
(* verification and concurrent requests.                                   *)
(***************************************************************************)
EXTENDS Providers, TLAPS

(* ---------------------- Rows, requests, what they hold ----------------- *)

\* The operations that save a profile they have read.
Saving == Decisions \union {"updateProviderProfile", "addCertification", "registerProvider",
                            "registerProviderComplete", "reviewVerificationRequest"}

\* The steps of a save.
Saves == {"raiseAgain", "diff", "update", "reinsert"}

\* What a request is about, by how far it has come.
Coherent(q) ==
    /\ q.pc = "idle" => q.op = "none" /\ q.profile = None
    /\ q.pc # "idle" => q.op \in Operations /\ q.user \in Users
    /\ q.pc \in {"createUser", "checkProfile", "saveUser"} => q.op = "registerProviderComplete"
    /\ q.pc \in {"verifyRole", "raiseAgain"} => q.op = "registerProvider"
    /\ q.pc = "raiseRole" => q.op \in {"registerProvider", "registerProviderComplete",
                                       "syncUserRole"}
    /\ q.pc = "syncRead" => q.op = "syncUserRole"
    /\ q.pc \in {"findProfile", "insert"} => q.op \in {"registerProvider",
                                                       "registerProviderComplete"}
    /\ q.pc \in {"findRemoved", "countJobs", "remove", "lowerRole"} =>
           q.op = "deactivateProviderProfile"
    /\ q.pc \in {"countJobs", "remove", "submit"} => q.profile \in Profiles
    /\ q.pc \in Saves => /\ q.op \in Saving /\ q.profile \in Profiles
                         /\ q.row.user = q.user
    /\ q.pc = "submit" => q.op = "createVerificationRequest"
    /\ q.pc = "assign" => q.op = "giveJob"
    /\ q.pc \in {"findApproved", "saveVerdict"} => q.op = "reviewVerificationRequest"
    /\ q.op = "reviewVerificationRequest" =>
           /\ q.pc \in {"findApproved", "diff", "update", "reinsert", "saveVerdict"}
           /\ q.profile \in Profiles /\ q.vreq \in Requests
           /\ q.pc # "saveVerdict" => q.verdict = "approved"
    /\ q.op # "reviewVerificationRequest" => q.vreq = None

\* The profile a request holds was once stored, as its user's.
Linked(q) == q.profile \in Profiles => /\ q.profile \in used
                                       /\ promised[q.profile].user = q.user

\* Keys are given out once, a profile stays its owner's, a user has one, and a
\* verification request has a profile.
Tables ==
    /\ \A p \in Profiles : Stored(p) => p \in used /\ promised[p].user = profile[p].user
    /\ \A p, q \in Profiles : Stored(p) /\ profile[p].user = profile[q].user => p = q
    /\ \A v \in Requests : vreq[v].profile \in Profiles => Stored(vreq[v].profile)

Typed ==
    /\ TypeOK
    /\ \A s \in Slots : Coherent(req[s])
    /\ Tables
    /\ \A s \in Slots : Linked(req[s])

LEMMA Nones == None \notin Users /\ None \notin Profiles /\ None \notin Requests
  BY ProvidersAssumption DEF ProvidersAssumption

LEMMA NoRowType == NoRow \in Row /\ NoRow.user = None
  BY DEF NoRow, Row

LEMMA OwnedRow ==
    ASSUME NEW u \in Users
    PROVE  [NoRow EXCEPT !.user = u] \in Row /\ [NoRow EXCEPT !.user = u].user = u
  BY DEF NoRow, Row

LEMMA IdleType ==
    /\ Idle \in Request /\ Coherent(Idle)
    /\ Idle.pc = "idle" /\ Idle.op = "none" /\ Idle.profile = None /\ Idle.vreq = None
    /\ ~Idle.stale
  <1>1. /\ Idle.pc = "idle" /\ Idle.op = "none" /\ Idle.profile = None /\ Idle.vreq = None
        /\ ~Idle.stale
    BY DEF Idle
  <1>2. Idle \in Request
    BY NoRowType DEF Idle, Request, Verdicts
  <1> QED
    BY <1>1, <1>2 DEF Coherent, Saves

\* What an operation makes of a row, and that it makes nothing else of its result.
LEMMA ChangeType ==
    ASSUME NEW op, NEW certs \in SUBSET Certs, NEW a \in Row
    PROVE  /\ Change(op, certs, a) \in Row
           /\ Change(op, certs, a).user = a.user
           /\ Change(op, Change(op, certs, a).certs, a) = Change(op, certs, a)
  BY DEF Change, Row

\* Two requests that differ at most in that q has become stale.
Same(q, p) ==
    /\ q.pc = p.pc /\ q.op = p.op /\ q.user = p.user /\ q.role = p.role
    /\ q.profile = p.profile /\ q.row = p.row /\ q.cols = p.cols /\ q.vreq = p.vreq
    /\ q.verdict = p.verdict
    /\ p.stale => q.stale

LEMMA Stale ==
    ASSUME NEW p \in Request
    PROVE  /\ [p EXCEPT !.stale = TRUE] \in Request
           /\ Same([p EXCEPT !.stale = TRUE], p) /\ Same(p, p)
           /\ [p EXCEPT !.stale = TRUE].stale
  BY DEF Request, Same

\* The request in slot s has become q, and the others at most stale.
Shift(s, q) ==
    /\ req' \in [Slots -> Request] /\ req'[s] = q
    /\ \A t \in Slots \ {s} : Same(req'[t], req[t])

\* ... and the others are as before.
Only(s, q) ==
    /\ q \in Request /\ req' \in [Slots -> Request] /\ req'[s] = q
    /\ \A t \in Slots \ {s} : req'[t] = req[t]

LEMMA OneRequest ==
    ASSUME TypeOK, NEW s \in Slots, NEW q \in Request, req' = [req EXCEPT ![s] = q]
    PROVE  Only(s, q)
  BY DEF TypeOK, Only

LEMMA OnlyShifts ==
    ASSUME TypeOK, NEW s \in Slots, NEW q, Only(s, q)
    PROVE  Shift(s, q)
  <1>1. \A t \in Slots : Same(req[t], req[t])
    BY DEF Same
  <1> QED
    BY <1>1 DEF Only, Shift

\* A write of profile p makes every request stale that is about to save p.
LEMMA CommittedShift ==
    ASSUME TypeOK, NEW s \in Slots, NEW p, NEW after \in Request, Committed(s, p, after)
    PROVE  /\ Shift(s, after)
           /\ \A t \in Slots \ {s} :
                 req[t].pc \in Holding /\ req[t].profile = p => req'[t].stale
  <1>1. \A t \in Slots : req[t] \in Request
    BY DEF TypeOK
  <1>2. \A t \in Slots \ {s} : req'[t] \in {req[t], [req[t] EXCEPT !.stale = TRUE]}
    BY DEF Committed
  <1>3. \A t \in Slots \ {s} : req'[t] \in Request /\ Same(req'[t], req[t])
    BY <1>1, <1>2, Stale
  <1>4. ASSUME NEW t \in Slots \ {s}, req[t].pc \in Holding, req[t].profile = p
        PROVE  req'[t].stale
    <2>1. req'[t] = [req[t] EXCEPT !.stale = TRUE]
      BY <1>4 DEF Committed
    <2> QED
      BY <1>1, <2>1, Stale
  <1>5. req'[s] = after /\ req' = [t \in Slots |-> req'[t]]
    BY DEF Committed
  <1> QED
    BY <1>3, <1>4, <1>5 DEF Shift

\* After a save of a profile the request is over, or goes on to its verdict.
LEMMA FollowType ==
    ASSUME NEW p \in Request, Coherent(p), p.pc \in Saves
    PROVE  /\ Follow(p) \in Request /\ Coherent(Follow(p))
           /\ Follow(p).pc = "idle" => Follow(p) = Idle /\ p.op # "reviewVerificationRequest"
           /\ Follow(p).pc # "idle" =>
                 /\ Follow(p).pc = "saveVerdict" /\ p.op = "reviewVerificationRequest"
                 /\ Follow(p).op = p.op /\ Follow(p).user = p.user
                 /\ Follow(p).profile = p.profile /\ Follow(p).vreq = p.vreq
                 /\ Follow(p).verdict = p.verdict /\ Follow(p).verdict = "approved"
           /\ Vouched(p) = IF p.op = "reviewVerificationRequest"
                           THEN vouched \union {p.vreq} ELSE vouched
           /\ p.op = "reviewVerificationRequest" => p.vreq \in Requests
  <1>1. CASE p.op = "reviewVerificationRequest"
    <2> DEFINE q == [p EXCEPT !.pc = "saveVerdict"]
    <2>1. /\ q \in Request /\ q.pc = "saveVerdict" /\ q.op = p.op /\ q.user = p.user
          /\ q.profile = p.profile /\ q.vreq = p.vreq /\ q.verdict = p.verdict
      BY DEF Request
    <2>2. Follow(p) = q
      BY <1>1 DEF Follow
    <2>3. /\ p.vreq \in Requests /\ p.profile \in Profiles /\ p.verdict = "approved"
          /\ p.user \in Users
      BY <1>1 DEF Coherent, Saves
    <2> HIDE DEF q
    <2>4. Coherent(q)
      BY <1>1, <2>1, <2>3 DEF Coherent, Saves, Operations
    <2> QED
      BY <1>1, <2>1, <2>2, <2>3, <2>4 DEF Vouched
  <1>2. CASE p.op # "reviewVerificationRequest"
    <2>1. Follow(p) = Idle
      BY <1>2 DEF Follow
    <2> QED
      BY <1>2, <2>1, IdleType DEF Vouched
  <1> QED
    BY <1>1, <1>2

(* ------------------------- How requests begin -------------------------- *)

LEMMA BeginStep ==
    ASSUME TypeOK, NEW s \in Slots, NEW q \in Request, Begin(s, q)
    PROVE  /\ Only(s, q) /\ req[s].pc = "idle"
           /\ UNCHANGED <<role, profile, vreq, job, used, promised, outdated, twins, vouched>>
           /\ begun' \in Nat
           /\ unsure \subseteq unsure' /\ unsure' \subseteq unsure \union {q.user}
           /\ \A t \in Slots : AtWork(t, q.user) /\ {q.op, req[t].op} \cap RoleOps # {}
                                  => q.user \in unsure'
  <1>1. /\ req[s].pc = "idle" /\ req' = [req EXCEPT ![s] = q] /\ begun' = begun + 1
        /\ UNCHANGED <<role, profile, vreq, job, used, promised, outdated, twins, vouched>>
        /\ unsure' = unsure \union
              {u \in {q.user} : \E t \in Slots :
                                   AtWork(t, u) /\ {q.op, req[t].op} \cap RoleOps # {}}
    BY DEF Begin
  <1>2. begun' \in Nat
    BY <1>1 DEF TypeOK
  <1> QED
    BY <1>1, <1>2, OneRequest

\* The requests about a user, and what they know at the start.
LEMMA HandleUserBegins ==
    ASSUME Typed, NEW s \in Slots, NEW u \in Users, HandleUser(s, u)
    PROVE  \E q \in Request :
              /\ Begin(s, q) /\ UNCHANGED torn /\ Coherent(q)
              /\ q.user = u /\ q.profile = None /\ q.vreq = None /\ ~q.stale
              /\ q.pc \notin Saves \union {"submit", "idle"}
              /\ \/ /\ q.op = "registerProvider" /\ q.role = role[u]
                    /\ q.pc = IF role[u] \in ProviderRoles THEN "findProfile" ELSE "raiseRole"
                 \/ /\ q.op = "registerProviderComplete" /\ q.role = role[u]
                    /\ q.pc = IF role[u] = "none" THEN "createUser" ELSE "checkProfile"
                 \/ q.op = "syncUserRole" /\ q.pc = "syncRead" /\ HasProfile(u)
                 \/ /\ q.op = "deactivateProviderProfile" /\ q.role = role[u]
                    /\ q.pc = "findRemoved"
                 \/ q.op = "giveJob" /\ q.pc = "assign"
  <1>1. role[u] \in Roles \union {"none"}
    BY DEF Typed, TypeOK
  <1>2. ASSUME NEW pc \in {"findProfile", "raiseRole"}
        PROVE  LET q == [Idle EXCEPT !.pc = pc, !.op = "registerProvider", !.user = u,
                                     !.role = role[u]] IN
               /\ q \in Request /\ q.op = "registerProvider" /\ q.role = role[u] /\ q.pc = pc
               /\ q.user = u /\ q.profile = None /\ q.vreq = None /\ ~q.stale /\ Coherent(q)
    BY <1>1, IdleType DEF Request, Operations, RoleOps, Coherent, Saves
  <1>3. ASSUME NEW pc \in {"createUser", "checkProfile"}
        PROVE  LET q == [Idle EXCEPT !.pc = pc, !.op = "registerProviderComplete",
                                     !.user = u, !.role = role[u]] IN
               /\ q \in Request /\ q.op = "registerProviderComplete" /\ q.role = role[u]
               /\ q.pc = pc /\ q.user = u /\ q.profile = None /\ q.vreq = None /\ ~q.stale
               /\ Coherent(q)
    BY <1>1, IdleType DEF Request, Operations, RoleOps, Coherent, Saves
  <1>4. LET q == [Idle EXCEPT !.pc = "syncRead", !.op = "syncUserRole", !.user = u] IN
        /\ q \in Request /\ q.op = "syncUserRole" /\ q.pc = "syncRead" /\ q.user = u
        /\ q.profile = None /\ q.vreq = None /\ ~q.stale /\ Coherent(q)
    BY <1>1, IdleType DEF Request, Operations, RoleOps, Coherent, Saves
  <1>5. LET q == [Idle EXCEPT !.pc = "findRemoved", !.op = "deactivateProviderProfile",
                              !.user = u, !.role = role[u]] IN
        /\ q \in Request /\ q.op = "deactivateProviderProfile" /\ q.role = role[u]
        /\ q.pc = "findRemoved" /\ q.user = u /\ q.profile = None /\ q.vreq = None
        /\ ~q.stale /\ Coherent(q)
    BY <1>1, IdleType DEF Request, Operations, RoleOps, Coherent, Saves
  <1>6. LET q == [Idle EXCEPT !.pc = "assign", !.op = "giveJob", !.user = u] IN
        /\ q \in Request /\ q.op = "giveJob" /\ q.pc = "assign" /\ q.user = u
        /\ q.profile = None /\ q.vreq = None /\ ~q.stale /\ Coherent(q)
    BY <1>1, IdleType DEF Request, Operations, RoleOps, Coherent, Saves
  <1>7. CASE RegisterProvider(s, u)
    <2> DEFINE pc == IF role[u] \in ProviderRoles THEN "findProfile" ELSE "raiseRole"
               q == [Idle EXCEPT !.pc = pc, !.op = "registerProvider", !.user = u,
                                 !.role = role[u]]
    <2>1. Begin(s, q) /\ UNCHANGED torn
      BY <1>7 DEF RegisterProvider
    <2>2. pc \in {"findProfile", "raiseRole"}
      OBVIOUS
    <2>3. /\ q \in Request /\ q.op = "registerProvider" /\ q.role = role[u] /\ q.pc = pc
          /\ q.user = u /\ q.profile = None /\ q.vreq = None /\ ~q.stale /\ Coherent(q)
      BY <1>2, <2>2
    <2> HIDE DEF q
    <2> QED
      BY <2>1, <2>3 DEF Saves
  <1>8. CASE RegisterProviderComplete(s, u)
    <2> DEFINE pc == IF role[u] = "none" THEN "createUser" ELSE "checkProfile"
               q == [Idle EXCEPT !.pc = pc, !.op = "registerProviderComplete", !.user = u,
                                 !.role = role[u]]
    <2>1. Begin(s, q) /\ UNCHANGED torn
      BY <1>8 DEF RegisterProviderComplete
    <2>2. pc \in {"createUser", "checkProfile"}
      OBVIOUS
    <2>3. /\ q \in Request /\ q.op = "registerProviderComplete" /\ q.role = role[u]
          /\ q.pc = pc /\ q.user = u /\ q.profile = None /\ q.vreq = None /\ ~q.stale
          /\ Coherent(q)
      BY <1>3, <2>2
    <2> HIDE DEF q
    <2> QED
      BY <2>1, <2>3 DEF Saves
  <1>9. CASE SyncUserRole(s, u)
    BY <1>4, <1>9 DEF SyncUserRole, Saves
  <1>10. CASE DeactivateProviderProfile(s, u)
    BY <1>5, <1>10 DEF DeactivateProviderProfile, Saves
  <1>11. CASE CreateJob(s, u) \/ AssignProvider(s, u) \/ ReopenJob(s, u)
    BY <1>6, <1>11 DEF CreateJob, AssignProvider, ReopenJob, GiveJob, Saves
  <1> QED
    BY <1>7, <1>8, <1>9, <1>10, <1>11 DEF HandleUser

\* The requests about a profile: a save of what they make of it, or a submission.
LEMMA HandleProfileBegins ==
    ASSUME Typed, NEW s \in Slots, NEW p \in Profiles, HandleProfile(s, p)
    PROVE  \E q \in Request :
              /\ Begin(s, q) /\ UNCHANGED torn /\ Coherent(q) /\ q.op \notin RoleOps
              /\ Stored(p) /\ q.user = profile[p].user /\ q.profile = p
              /\ q.vreq = None /\ ~q.stale
              /\ \/ /\ q.pc = "diff" /\ q.op # "reviewVerificationRequest"
                    /\ q.row = Change(q.op, q.row.certs, profile[p])
                 \/ q.pc = "submit" /\ Pending(p) = {}
  <1>1. profile[p] \in Row /\ (Stored(p) => profile[p].user \in Users)
    BY DEF Typed, TypeOK, Row, Stored
  <1>2. ASSUME NEW op \in Decisions \union {"updateProviderProfile", "addCertification"},
               NEW certs \in SUBSET Certs, Read(s, p, op, certs)
        PROVE  \E q \in Request :
                  /\ Begin(s, q) /\ UNCHANGED torn /\ Coherent(q) /\ q.op \notin RoleOps
                  /\ Stored(p) /\ q.user = profile[p].user /\ q.profile = p
                  /\ q.vreq = None /\ ~q.stale
                  /\ q.pc = "diff" /\ q.op # "reviewVerificationRequest"
                  /\ q.row = Change(q.op, q.row.certs, profile[p])
    <2> DEFINE row == Change(op, certs, profile[p])
               q == [Idle EXCEPT !.pc = "diff", !.op = op, !.user = profile[p].user,
                                 !.profile = p, !.row = row]
    <2>1. Begin(s, q) /\ UNCHANGED torn /\ Stored(p)
      BY <1>2 DEF Read
    <2>2. /\ row \in Row /\ row.user = profile[p].user
          /\ row = Change(op, row.certs, profile[p])
      BY <1>1, ChangeType
    <2> HIDE DEF row
    <2>3. op \in Operations \ RoleOps /\ op # "reviewVerificationRequest" /\ op \in Saving
      BY DEF Operations, Decisions, RoleOps, Saving
    <2>4. /\ q \in Request /\ q.pc = "diff" /\ q.op = op /\ q.user = profile[p].user
          /\ q.profile = p /\ q.row = row /\ q.vreq = None /\ ~q.stale
      BY <1>1, <2>1, <2>2, <2>3, IdleType DEF Request
    <2> HIDE DEF q
    <2>5. Coherent(q)
      BY <1>1, <2>1, <2>2, <2>3, <2>4 DEF Coherent, Saves
    <2> QED
      BY <2>1, <2>2, <2>3, <2>4, <2>5
  <1>3. CASE \E op \in Decisions : Decide(s, p, op)
    BY <1>2, <1>3 DEF Decide
  <1>4. CASE UpdateProviderProfile(s, p)
    BY <1>2, <1>4 DEF UpdateProviderProfile
  <1>5. CASE \E c \in Certs : AddCertification(s, p, c)
    BY <1>2, <1>5 DEF AddCertification
  <1>6. CASE CreateVerificationRequest(s, p)
    <2> DEFINE q == [Idle EXCEPT !.pc = "submit", !.op = "createVerificationRequest",
                                 !.user = profile[p].user, !.profile = p]
    <2>1. Begin(s, q) /\ UNCHANGED torn /\ Stored(p) /\ Pending(p) = {}
      BY <1>6 DEF CreateVerificationRequest
    <2>2. /\ q \in Request /\ q.pc = "submit" /\ q.op = "createVerificationRequest"
          /\ q.user = profile[p].user /\ q.profile = p /\ q.vreq = None /\ ~q.stale
      BY <1>1, <2>1, IdleType DEF Request, Operations
    <2> HIDE DEF q
    <2>3. Coherent(q)
      BY <1>1, <2>1, <2>2 DEF Coherent, Saves, Operations
    <2> QED
      BY <2>1, <2>2, <2>3 DEF RoleOps
  <1> QED
    BY <1>3, <1>4, <1>5, <1>6 DEF HandleProfile

\* A review knows the request it decides, found pending.
LEMMA ReviewBegins ==
    ASSUME Typed, NEW s \in Slots, NEW v \in Requests, NEW verdict \in Verdicts,
           ReviewVerificationRequest(s, v, verdict)
    PROVE  \E q \in Request :
              /\ Begin(s, q) /\ Coherent(q) /\ q.op = "reviewVerificationRequest"
              /\ torn' = torn \union {w \in {v} : \E t \in Slots : UnderReview(t, w)}
              /\ q.vreq = v /\ q.verdict = verdict /\ ~q.stale
              /\ q.profile = vreq[v].profile /\ vreq[v].status = "pending"
              /\ q.profile \in Profiles /\ Stored(q.profile)
              /\ q.user = profile[q.profile].user
              /\ q.pc = IF verdict = "approved" THEN "findApproved" ELSE "saveVerdict"
  <1> DEFINE p == vreq[v].profile
             pc == IF verdict = "approved" THEN "findApproved" ELSE "saveVerdict"
             q == [Idle EXCEPT !.pc = pc, !.op = "reviewVerificationRequest",
                               !.user = profile[p].user, !.profile = p, !.vreq = v,
                               !.verdict = verdict]
  <1>1. p \in Profiles /\ vreq[v].status = "pending"
    BY DEF ReviewVerificationRequest, Typed, TypeOK, VerificationRequest
  <1>2. Stored(p) /\ profile[p].user \in Users
    BY <1>1 DEF Typed, Tables, TypeOK, Row, Stored
  <1>3. /\ Begin(s, q)
        /\ torn' = torn \union {w \in {v} : \E t \in Slots : UnderReview(t, w)}
    BY DEF ReviewVerificationRequest, Review
  <1>4. /\ q \in Request /\ q.pc = pc /\ q.op = "reviewVerificationRequest"
        /\ q.user = profile[p].user /\ q.profile = p /\ q.vreq = v /\ q.verdict = verdict
        /\ ~q.stale
    BY <1>1, <1>2, IdleType DEF Request, Operations
  <1> HIDE DEF q
  <1>5. Coherent(q)
    BY <1>1, <1>2, <1>4 DEF Coherent, Saves, Operations
  <1> QED
    BY <1>1, <1>2, <1>3, <1>4, <1>5

(* ------------------------- How requests go on -------------------------- *)

\* q is the request p, further on.
Kept(q, p) == q.op = p.op /\ q.user = p.user /\ q.vreq = p.vreq /\ q.verdict = p.verdict
Moved(q, p, pc) == /\ Kept(q, p) /\ q.pc = pc
                   /\ q.role = p.role /\ q.profile = p.profile /\ q.row = p.row
                   /\ q.stale = p.stale

\* The steps that keep a request's row, or have none to keep.
Stages == {"raiseRole", "saveUser", "findProfile", "insert", "verifyRole", "diff", "remove",
           "lowerRole", "reinsert", "countJobs"}

LEMMA MovedType ==
    ASSUME NEW p \in Request, NEW pc \in Stages
    PROVE  [p EXCEPT !.pc = pc] \in Request /\ Moved([p EXCEPT !.pc = pc], p, pc)
  BY DEF Request, Stages, Moved, Kept

LEMMA MovedCoherent ==
    ASSUME NEW p \in Request, Coherent(p), NEW q \in Request, NEW pc \in Stages,
           Moved(q, p, pc), p.pc # "idle", p.op # "reviewVerificationRequest",
           pc \in {"saveUser"} => p.op = "registerProviderComplete",
           pc = "verifyRole" => p.op = "registerProvider",
           pc = "raiseRole" => p.op \in {"registerProvider", "registerProviderComplete",
                                         "syncUserRole"},
           pc \in {"findProfile", "insert"} => p.op \in {"registerProvider",
                                                         "registerProviderComplete"},
           pc \in {"remove", "lowerRole"} => p.pc \in {"countJobs", "remove"},
           pc = "diff" => p.pc = "raiseAgain", pc # "reinsert", pc # "countJobs"
    PROVE  Coherent(q)
  BY DEF Coherent, Moved, Kept, Saves, Stages, Saving

LEMMA GoStep ==
    ASSUME Typed, NEW s \in Slots, NEW pc \in Stages, Go(s, pc)
    PROVE  \E q \in Request : Only(s, q) /\ Moved(q, req[s], pc)
  <1> DEFINE q == [req[s] EXCEPT !.pc = pc]
  <1>1. req[s] \in Request
    BY DEF Typed, TypeOK
  <1>2. q \in Request /\ Moved(q, req[s], pc)
    BY <1>1, MovedType
  <1>3. req' = [req EXCEPT ![s] = q]
    BY DEF Go
  <1> HIDE DEF q
  <1> QED
    BY <1>2, <1>3, OneRequest DEF Typed

LEMMA EndStep == ASSUME Typed, NEW s \in Slots, End(s) PROVE Only(s, Idle)
  BY IdleType, OneRequest DEF End, Typed

\* The steps of an operation about the role: what they make of their request.
LEMMA SyncReadStep ==
    ASSUME Typed, NEW s \in Slots, SyncRead(s)
    PROVE  \E q \in Request :
              /\ Only(s, q) /\ Coherent(q)
              /\ \/ q = Idle /\ role[req[s].user] = "service_provider"
                 \/ Moved(q, req[s], "raiseRole")
  <1>1. req[s] \in Request /\ Coherent(req[s])
    BY DEF Typed, TypeOK
  <1>2. req[s].pc = "syncRead" /\ req[s].op = "syncUserRole"
    BY <1>1 DEF SyncRead, Coherent
  <1>3. CASE Go(s, "raiseRole")
    <2>1. PICK q \in Request : Only(s, q) /\ Moved(q, req[s], "raiseRole")
      BY <1>3, GoStep DEF Stages
    <2> QED
      BY <1>1, <1>2, <2>1, MovedCoherent DEF Stages
  <1>4. CASE End(s) /\ role[req[s].user] = "service_provider"
    BY <1>4, EndStep, IdleType
  <1> QED
    BY <1>3, <1>4 DEF SyncRead

LEMMA CreateUserStep ==
    ASSUME Typed, NEW s \in Slots, CreateUser(s)
    PROVE  \E q \in Request :
              /\ Only(s, q) /\ Coherent(q) /\ Kept(q, req[s]) /\ q.pc = "findProfile"
              /\ q.role = "service_provider" /\ q.profile = req[s].profile
  <1> DEFINE q == [req[s] EXCEPT !.pc = "findProfile", !.role = "service_provider"]
  <1>1. req[s] \in Request /\ Coherent(req[s]) /\ req[s].pc = "createUser"
    BY DEF Typed, TypeOK, CreateUser
  <1>2. /\ q \in Request /\ Kept(q, req[s]) /\ q.pc = "findProfile"
        /\ q.role = "service_provider" /\ q.profile = req[s].profile
    BY <1>1 DEF Request, Kept, Roles
  <1>3. req' = [req EXCEPT ![s] = q]
    BY DEF CreateUser
  <1> HIDE DEF q
  <1>4. Coherent(q)
    BY <1>1, <1>2 DEF Coherent, Kept, Saves
  <1> QED
    BY <1>2, <1>3, <1>4, OneRequest DEF Typed

LEMMA CheckProfileStep ==
    ASSUME Typed, NEW s \in Slots, CheckProfile(s)
    PROVE  \E q \in Request :
              /\ Only(s, q) /\ Coherent(q)
              /\ \/ q = Idle
                 \/ /\ ~HasProfile(req[s].user)
                    /\ Moved(q, req[s], IF req[s].role \in ProviderRoles
                                        THEN "saveUser" ELSE "raiseRole")
  <1> DEFINE pc == IF req[s].role \in ProviderRoles THEN "saveUser" ELSE "raiseRole"
  <1>1. req[s] \in Request /\ Coherent(req[s])
    BY DEF Typed, TypeOK
  <1>2. req[s].pc = "checkProfile" /\ req[s].op = "registerProviderComplete"
    BY <1>1 DEF CheckProfile, Coherent
  <1>3. CASE ~HasProfile(req[s].user) /\ Go(s, pc)
    <2>1. pc \in Stages /\ pc \in {"saveUser", "raiseRole"}
      BY DEF Stages
    <2> HIDE DEF pc
    <2>2. PICK q \in Request : Only(s, q) /\ Moved(q, req[s], pc)
      BY <1>3, <2>1, GoStep
    <2>3. Coherent(q)
      BY <1>1, <1>2, <2>1, <2>2, MovedCoherent
    <2> QED
      BY <1>3, <2>2, <2>3 DEF pc
  <1>4. CASE End(s)
    BY <1>4, EndStep, IdleType
  <1> QED
    BY <1>3, <1>4 DEF CheckProfile

\* What becomes of the request whose update of the role has gone through.
LEMMA RaiseRoleStep ==
    ASSUME Typed, NEW s \in Slots, RaiseRole(s)
    PROVE  \E q \in Request :
              /\ Only(s, q) /\ Coherent(q)
              /\ \/ q = Idle /\ req[s].op = "syncUserRole"
                 \/ /\ req[s].pc = "raiseAgain" /\ q.pc = "diff" /\ Kept(q, req[s])
                    /\ q.profile = req[s].profile /\ q.row = req[s].row
                    /\ q.stale = req[s].stale /\ q.role = "service_provider"
                 \/ req[s].pc = "raiseRole" /\ Moved(q, req[s], "verifyRole")
                 \/ /\ req[s].pc = "raiseRole" /\ q.pc = "saveUser" /\ Kept(q, req[s])
                    /\ q.profile = req[s].profile /\ q.role = "service_provider"
  <1> DEFINE again == [req[s] EXCEPT !.pc = "diff", !.role = "service_provider"]
             verify == [req[s] EXCEPT !.pc = "verifyRole"]
             save == [req[s] EXCEPT !.pc = "saveUser", !.role = "service_provider"]
  <1>1. /\ req[s] \in Request /\ Coherent(req[s]) /\ req[s].pc \in {"raiseRole", "raiseAgain"}
    BY DEF Typed, TypeOK, RaiseRole
  <1>2. /\ again \in Request /\ again.pc = "diff" /\ Kept(again, req[s])
        /\ again.profile = req[s].profile /\ again.row = req[s].row
        /\ again.stale = req[s].stale /\ again.role = "service_provider"
    BY <1>1 DEF Request, Kept, Roles
  <1>3. verify \in Request /\ Moved(verify, req[s], "verifyRole")
    BY <1>1, MovedType DEF Stages
  <1>4. /\ save \in Request /\ save.pc = "saveUser" /\ Kept(save, req[s])
        /\ save.profile = req[s].profile /\ save.role = "service_provider"
    BY <1>1 DEF Request, Kept, Roles
  <1>5. \/ req[s].op = "syncUserRole" /\ req' = [req EXCEPT ![s] = Idle]
        \/ req[s].pc = "raiseAgain" /\ req' = [req EXCEPT ![s] = again]
        \/ /\ req[s].pc = "raiseRole" /\ req[s].op = "registerProvider"
           /\ req' = [req EXCEPT ![s] = verify]
        \/ /\ req[s].pc = "raiseRole" /\ req[s].op = "registerProviderComplete"
           /\ req' = [req EXCEPT ![s] = save]
    <2>1. req[s].pc = "raiseRole" => req[s].op \in {"registerProvider",
                                        "registerProviderComplete", "syncUserRole"}
      BY <1>1 DEF Coherent
    <2> QED
      BY <1>1, <2>1 DEF RaiseRole
  <1> HIDE DEF again, verify, save
  <1>6. CASE req[s].op = "syncUserRole" /\ req' = [req EXCEPT ![s] = Idle]
    BY <1>6, IdleType, OneRequest DEF Typed
  <1>7. CASE req[s].pc = "raiseAgain" /\ req' = [req EXCEPT ![s] = again]
    <2>1. Coherent(again)
      BY <1>1, <1>2, <1>7 DEF Coherent, Kept, Saves, Saving
    <2> QED
      BY <1>2, <1>7, <2>1, OneRequest DEF Typed
  <1>8. CASE /\ req[s].pc = "raiseRole" /\ req[s].op = "registerProvider"
             /\ req' = [req EXCEPT ![s] = verify]
    <2>1. Coherent(verify)
      BY <1>1, <1>3, <1>8, MovedCoherent DEF Stages
    <2> QED
      BY <1>3, <1>8, <2>1, OneRequest DEF Typed
  <1>9. CASE /\ req[s].pc = "raiseRole" /\ req[s].op = "registerProviderComplete"
             /\ req' = [req EXCEPT ![s] = save]
    <2>1. Coherent(save)
      BY <1>1, <1>4, <1>9 DEF Coherent, Kept, Saves, Saving
    <2> QED
      BY <1>4, <1>9, <2>1, OneRequest DEF Typed
  <1> QED
    BY <1>5, <1>6, <1>7, <1>8, <1>9

LEMMA VerifyRoleStep ==
    ASSUME Typed, NEW s \in Slots, VerifyRole(s)
    PROVE  \E q \in Request :
              /\ Only(s, q) /\ Coherent(q) /\ Kept(q, req[s]) /\ q.pc = "findProfile"
              /\ q.profile = req[s].profile
              /\ role[req[s].user] \in ProviderRoles => q.role = role[req[s].user]
  <1> DEFINE found == role[req[s].user]
             new == IF found \in ProviderRoles THEN found ELSE req[s].role
             q == [req[s] EXCEPT !.pc = "findProfile", !.role = new]
  <1>1. req[s] \in Request /\ Coherent(req[s]) /\ req[s].pc = "verifyRole"
    BY DEF Typed, TypeOK, VerifyRole
  <1>2. new \in Roles \union {"none"}
    BY <1>1 DEF ProviderRoles, Roles, Request
  <1>3. /\ q \in Request /\ Kept(q, req[s]) /\ q.pc = "findProfile"
        /\ q.role = new /\ q.profile = req[s].profile
    BY <1>1, <1>2 DEF Request, Kept
  <1>4. req' = [req EXCEPT ![s] = q]
    BY DEF VerifyRole
  <1> HIDE DEF q
  <1>5. Coherent(q)
    BY <1>1, <1>3 DEF Coherent, Kept, Saves
  <1> QED
    BY <1>3, <1>4, <1>5, OneRequest DEF Typed

LEMMA RoleUpdateFailsStep ==
    ASSUME Typed, NEW s \in Slots, RoleUpdateFails(s)
    PROVE  /\ req[s].user \in Users
           /\ \E q \in Request :
                 /\ Only(s, q) /\ Coherent(q)
                 /\ \/ q = Idle
                    \/ req[s].pc = "raiseAgain" /\ Moved(q, req[s], "diff")
                    \/ Moved(q, req[s], "findProfile")
  <1>1. /\ req[s] \in Request /\ Coherent(req[s])
        /\ \/ req[s].pc \in {"raiseRole", "verifyRole", "raiseAgain"}
              /\ req[s].op = "registerProvider"
           \/ req[s].pc = "lowerRole"
    BY DEF Typed, TypeOK, RoleUpdateFails
  <1>2. req[s].user \in Users
    BY <1>1 DEF Coherent
  <1> DEFINE save == [req[s] EXCEPT !.pc = "diff"]
             find == [req[s] EXCEPT !.pc = "findProfile"]
  <1>3. /\ save \in Request /\ Moved(save, req[s], "diff")
        /\ find \in Request /\ Moved(find, req[s], "findProfile")
    BY <1>1, MovedType DEF Stages
  <1>4. \/ req' = [req EXCEPT ![s] = Idle]
        \/ req[s].pc = "raiseAgain" /\ req' = [req EXCEPT ![s] = save]
        \/ /\ req[s].pc \in {"raiseRole", "verifyRole"} /\ req[s].op = "registerProvider"
           /\ req' = [req EXCEPT ![s] = find]
    BY <1>1 DEF RoleUpdateFails
  <1> HIDE DEF save, find
  <1>5. CASE req' = [req EXCEPT ![s] = Idle]
    BY <1>2, <1>5, IdleType, OneRequest DEF Typed
  <1>6. CASE req[s].pc = "raiseAgain" /\ req' = [req EXCEPT ![s] = save]
    <2>1. Coherent(save)
      BY <1>1, <1>3, <1>6, MovedCoherent DEF Stages
    <2> QED
      BY <1>2, <1>3, <1>6, <2>1, OneRequest DEF Typed
  <1>7. CASE /\ req[s].pc \in {"raiseRole", "verifyRole"} /\ req[s].op = "registerProvider"
             /\ req' = [req EXCEPT ![s] = find]
    <2>1. Coherent(find)
      BY <1>1, <1>3, <1>7, MovedCoherent DEF Stages
    <2> QED
      BY <1>2, <1>3, <1>7, <2>1, OneRequest DEF Typed
  <1> QED
    BY <1>4, <1>5, <1>6, <1>7

LEMMA SaveUserStep ==
    ASSUME Typed, NEW s \in Slots, SaveUser(s)
    PROVE  \E q \in Request : Only(s, q) /\ Coherent(q) /\ Moved(q, req[s], "findProfile")
  <1>1. /\ req[s] \in Request /\ Coherent(req[s]) /\ req[s].pc = "saveUser"
        /\ Go(s, "findProfile")
    BY DEF Typed, TypeOK, SaveUser
  <1>2. PICK q \in Request : Only(s, q) /\ Moved(q, req[s], "findProfile")
    BY <1>1, GoStep DEF Stages
  <1>3. req[s].op = "registerProviderComplete"
    BY <1>1 DEF Coherent
  <1> QED
    BY <1>1, <1>2, <1>3, MovedCoherent DEF Stages

\* What the search for the user's profile makes of a registration.
LEMMA FindProfileStep ==
    ASSUME Typed, NEW s \in Slots, FindProfile(s)
    PROVE  \E q \in Request :
              /\ Only(s, q) /\ Coherent(q)
              /\ \/ ~HasProfile(req[s].user) /\ Moved(q, req[s], "insert")
                 \/ /\ q.profile \in Profiles /\ profile[q.profile].user = req[s].user
                    /\ Kept(q, req[s]) /\ q.role = req[s].role /\ q.row = profile[q.profile]
                    /\ q.pc = IF /\ req[s].op = "registerProvider"
                                 /\ req[s].role \notin ProviderRoles
                              THEN "raiseAgain" ELSE "diff"
  <1>1. /\ req[s] \in Request /\ Coherent(req[s]) /\ req[s].pc = "findProfile"
        /\ req[s].op \in {"registerProvider", "registerProviderComplete"}
    BY DEF Typed, TypeOK, FindProfile, Coherent
  <1>2. CASE ~HasProfile(req[s].user) /\ Go(s, "insert")
    <2>1. PICK q \in Request : Only(s, q) /\ Moved(q, req[s], "insert")
      BY <1>2, GoStep DEF Stages
    <2>2. Coherent(q)
      BY <1>1, <2>1, MovedCoherent DEF Stages
    <2> QED
      BY <1>2, <2>1, <2>2
  <1>3. CASE ~(~HasProfile(req[s].user) /\ Go(s, "insert"))
    <2> DEFINE pc == IF req[s].op = "registerProvider" /\ req[s].role \notin ProviderRoles
                     THEN "raiseAgain" ELSE "diff"
    <2>1. PICK p \in Profiles :
             /\ profile[p].user = req[s].user
             /\ req' = [req EXCEPT ![s] = [req[s] EXCEPT !.pc = pc, !.profile = p,
                                                         !.row = profile[p]]]
      BY <1>3 DEF FindProfile
    <2> DEFINE q == [req[s] EXCEPT !.pc = pc, !.profile = p, !.row = profile[p]]
    <2>2. profile[p] \in Row /\ pc \in {"raiseAgain", "diff"}
      BY DEF Typed, TypeOK
    <2>3. /\ q \in Request /\ q.pc = pc /\ Kept(q, req[s]) /\ q.role = req[s].role
          /\ q.profile = p /\ q.row = profile[p]
      BY <1>1, <2>2 DEF Request, Kept
    <2>4. pc = "raiseAgain" => req[s].op = "registerProvider"
      OBVIOUS
    <2> HIDE DEF q, pc
    <2>5. Only(s, q)
      BY <2>1, <2>3, OneRequest DEF Typed, q
    <2>6. Coherent(q)
      BY <1>1, <2>1, <2>2, <2>3, <2>4 DEF Coherent, Kept, Saves, Saving
    <2> QED
      BY <2>1, <2>3, <2>5, <2>6 DEF pc
  <1> QED
    BY <1>2, <1>3

LEMMA FindRemovedStep ==
    ASSUME Typed, NEW s \in Slots, FindRemoved(s)
    PROVE  \E q \in Request :
              /\ Only(s, q) /\ Coherent(q)
              /\ \/ q = Idle
                 \/ /\ q.profile \in Profiles /\ profile[q.profile].user = req[s].user
                    /\ Kept(q, req[s]) /\ q.role = req[s].role /\ q.pc = "countJobs"
  <1>1. /\ req[s] \in Request /\ Coherent(req[s]) /\ req[s].pc = "findRemoved"
        /\ req[s].op = "deactivateProviderProfile"
    BY DEF Typed, TypeOK, FindRemoved, Coherent
  <1>2. CASE End(s)
    BY <1>2, EndStep, IdleType
  <1>3. CASE ~End(s)
    <2>1. PICK p \in Profiles :
             /\ profile[p].user = req[s].user
             /\ req' = [req EXCEPT ![s] = [req[s] EXCEPT !.pc = "countJobs", !.profile = p]]
      BY <1>3 DEF FindRemoved
    <2> DEFINE q == [req[s] EXCEPT !.pc = "countJobs", !.profile = p]
    <2>2. /\ q \in Request /\ q.pc = "countJobs" /\ Kept(q, req[s]) /\ q.role = req[s].role
          /\ q.profile = p
      BY <1>1 DEF Request, Kept
    <2> HIDE DEF q
    <2>3. Only(s, q)
      BY <2>1, <2>2, OneRequest DEF Typed, q
    <2>4. Coherent(q)
      BY <1>1, <2>2 DEF Coherent, Kept, Saves
    <2> QED
      BY <2>1, <2>2, <2>3, <2>4
  <1> QED
    BY <1>2, <1>3

LEMMA CountJobsStep ==
    ASSUME Typed, NEW s \in Slots, CountJobs(s)
    PROVE  \E q \in Request :
              /\ Only(s, q) /\ Coherent(q)
              /\ \/ q = Idle
                 \/ Moved(q, req[s], "remove") /\ job[req[s].user] # "active"
  <1>1. /\ req[s] \in Request /\ Coherent(req[s]) /\ req[s].pc = "countJobs"
        /\ req[s].op = "deactivateProviderProfile" /\ req[s].profile \in Profiles
    BY DEF Typed, TypeOK, CountJobs, Coherent
  <1>2. CASE End(s)
    BY <1>2, EndStep, IdleType
  <1>3. CASE Go(s, "remove") /\ job[req[s].user] # "active"
    <2>1. PICK q \in Request : Only(s, q) /\ Moved(q, req[s], "remove")
      BY <1>3, GoStep DEF Stages
    <2>2. Coherent(q)
      BY <1>1, <2>1 DEF Coherent, Moved, Kept, Saves
    <2> QED
      BY <1>3, <2>1, <2>2
  <1> QED
    BY <1>2, <1>3 DEF CountJobs

\* After the removal: the role, or nothing more.
LEMMA RemoveStep ==
    ASSUME Typed, NEW s \in Slots, Remove(s)
    PROVE  \E q \in Request :
              /\ Shift(s, q) /\ Coherent(q)
              /\ \A t \in Slots \ {s} : req[t].pc \in Holding /\ req[t].profile = req[s].profile
                                           => req'[t].stale
              /\ \/ q = Idle /\ req[s].role # "service_provider"
                 \/ Moved(q, req[s], "lowerRole")
  <1>1. /\ req[s] \in Request /\ Coherent(req[s]) /\ req[s].pc = "remove"
        /\ req[s].op = "deactivateProviderProfile"
    BY DEF Typed, TypeOK, Remove, Coherent
  <1> DEFINE p == req[s].profile
             lower == [req[s] EXCEPT !.pc = "lowerRole"]
  <1>2. lower \in Request /\ Moved(lower, req[s], "lowerRole")
    BY <1>1, MovedType DEF Stages
  <1>3. CASE req[s].role # "service_provider"
    <2>1. Committed(s, p, Idle)
      BY <1>3 DEF Remove
    <2> QED
      BY <1>3, <2>1, IdleType, CommittedShift DEF Typed
  <1>4. CASE req[s].role = "service_provider"
    <2>1. Committed(s, p, lower)
      BY <1>4 DEF Remove
    <2> HIDE DEF lower
    <2>2. Coherent(lower)
      BY <1>1, <1>2 DEF Coherent, Moved, Kept, Saves
    <2> QED
      BY <1>2, <2>1, <2>2, CommittedShift DEF Typed
  <1> QED
    BY <1>3, <1>4

\* The reload before a save: the row is gone, as it should be, or to be updated.
LEMMA DiffStep ==
    ASSUME Typed, NEW s \in Slots, Diff(s)
    PROVE  /\ req[s] \in Request /\ Coherent(req[s]) /\ req[s].pc = "diff"
           /\ \E q \in Request :
                 /\ Only(s, q) /\ Coherent(q)
                 /\ \/ /\ ~Stored(req[s].profile) /\ Moved(q, req[s], "reinsert")
                       /\ vouched' = vouched
                    \/ /\ Stored(req[s].profile)
                       /\ q = Follow(req[s]) /\ vouched' = Vouched(req[s])
                    \/ /\ Stored(req[s].profile) /\ Moved(q, req[s], "update")
                       /\ q.cols = Changed(s) /\ vouched' = vouched
  <1>1. req[s] \in Request /\ Coherent(req[s]) /\ req[s].pc = "diff"
    BY DEF Typed, TypeOK, Diff
  <1> DEFINE gone == [req[s] EXCEPT !.pc = "reinsert"]
             update == [req[s] EXCEPT !.pc = "update", !.cols = Changed(s)]
  <1>2. gone \in Request /\ Moved(gone, req[s], "reinsert")
    BY <1>1, MovedType DEF Stages
  <1>3. Changed(s) \in SUBSET Columns
    BY DEF Changed
  <1>4. update \in Request /\ Moved(update, req[s], "update") /\ update.cols = Changed(s)
    BY <1>1, <1>3 DEF Request, Moved, Kept
  <1>5. /\ Follow(req[s]) \in Request /\ Coherent(Follow(req[s]))
    BY <1>1, FollowType DEF Saves
  <1>6. \/ /\ ~Stored(req[s].profile) /\ req' = [req EXCEPT ![s] = gone]
           /\ vouched' = vouched
        \/ /\ Stored(req[s].profile) /\ req' = [req EXCEPT ![s] = Follow(req[s])]
           /\ vouched' = Vouched(req[s])
        \/ /\ Stored(req[s].profile) /\ req' = [req EXCEPT ![s] = update]
           /\ vouched' = vouched
    BY DEF Diff
  <1> HIDE DEF gone, update
  <1>7. CASE /\ ~Stored(req[s].profile) /\ req' = [req EXCEPT ![s] = gone]
             /\ vouched' = vouched
    <2>1. Coherent(gone)
      BY <1>1, <1>2 DEF Coherent, Moved, Kept, Saves
    <2> QED
      BY <1>1, <1>2, <1>7, <2>1, OneRequest DEF Typed
  <1>8. CASE /\ Stored(req[s].profile) /\ req' = [req EXCEPT ![s] = Follow(req[s])]
             /\ vouched' = Vouched(req[s])
    BY <1>1, <1>5, <1>8, OneRequest DEF Typed
  <1>9. CASE /\ Stored(req[s].profile) /\ req' = [req EXCEPT ![s] = update]
             /\ vouched' = vouched
    <2>1. Coherent(update)
      BY <1>1, <1>4 DEF Coherent, Moved, Kept, Saves
    <2> QED
      BY <1>1, <1>4, <1>9, <2>1, OneRequest DEF Typed
  <1> QED
    BY <1>6, <1>7, <1>8, <1>9

\* A write of the profile, and what the request does next.
LEMMA WriteStep ==
    ASSUME Typed, NEW s \in Slots, Update(s) \/ Reinsert(s)
    PROVE  /\ req[s] \in Request /\ Coherent(req[s]) /\ req[s].pc \in {"update", "reinsert"}
           /\ Shift(s, Follow(req[s]))
           /\ Follow(req[s]) \in Request /\ Coherent(Follow(req[s]))
           /\ vouched' = Vouched(req[s])
           /\ \A t \in Slots \ {s} : req[t].pc \in Holding /\ req[t].profile = req[s].profile
                                        => req'[t].stale
  <1>1. /\ req[s] \in Request /\ Coherent(req[s]) /\ req[s].pc \in {"update", "reinsert"}
        /\ vouched' = Vouched(req[s])
        /\ Committed(s, req[s].profile, Follow(req[s]))
    BY DEF Typed, TypeOK, Update, Reinsert
  <1>2. Follow(req[s]) \in Request /\ Coherent(Follow(req[s]))
    BY <1>1, FollowType DEF Saves
  <1> QED
    BY <1>1, <1>2, CommittedShift DEF Typed

\* A submission makes stale the others that have found no pending request.
LEMMA SubmitStep ==
    ASSUME Typed, NEW s \in Slots, NEW v \in Requests, Submit(s, v)
    PROVE  /\ Shift(s, Idle) /\ Coherent(req[s]) /\ req[s].profile \in Profiles
           /\ \A t \in Slots \ {s} : req[t].pc = "submit" /\ req[t].profile = req[s].profile
                                        => req'[t].stale
  <1>1. \A t \in Slots : req[t] \in Request
    BY DEF Typed, TypeOK
  <1>2. \A t \in Slots \ {s} : req'[t] \in {req[t], [req[t] EXCEPT !.stale = TRUE]}
    BY DEF Submit
  <1>3. \A t \in Slots \ {s} : req'[t] \in Request /\ Same(req'[t], req[t])
    BY <1>1, <1>2, Stale
  <1>4. ASSUME NEW t \in Slots \ {s}, req[t].pc = "submit", req[t].profile = req[s].profile
        PROVE  req'[t].stale
    <2>1. req'[t] = [req[t] EXCEPT !.stale = TRUE]
      BY <1>4 DEF Submit
    <2> QED
      BY <1>1, <2>1, Stale
  <1>5. req'[s] = Idle /\ req' = [t \in Slots |-> req'[t]]
    BY DEF Submit
  <1>6. Coherent(req[s]) /\ req[s].profile \in Profiles
    BY DEF Typed, Coherent, Submit
  <1> QED
    BY <1>3, <1>4, <1>5, <1>6, IdleType DEF Shift

LEMMA FindApprovedStep ==
    ASSUME Typed, NEW s \in Slots, FindApproved(s)
    PROVE  \E q \in Request :
              /\ Only(s, q) /\ Coherent(q) /\ Kept(q, req[s]) /\ q.pc = "diff"
              /\ q.role = req[s].role /\ q.profile = req[s].profile
              /\ req[s].profile \in Profiles /\ Stored(req[s].profile)
              /\ req[s].op = "reviewVerificationRequest"
              /\ q.row = Change(q.op, q.row.certs, profile[q.profile])
  <1> DEFINE p == req[s].profile
             row == Change(req[s].op, {}, profile[p])
             q == [req[s] EXCEPT !.pc = "diff", !.row = row]
  <1>1. /\ req[s] \in Request /\ Coherent(req[s]) /\ req[s].pc = "findApproved" /\ Stored(p)
        /\ req[s].op = "reviewVerificationRequest" /\ p \in Profiles
        /\ req[s].verdict = "approved" /\ req[s].user \in Users /\ req[s].vreq \in Requests
    BY DEF Typed, TypeOK, FindApproved, Coherent
  <1>2. profile[p] \in Row /\ profile[p].user = req[s].user
    BY <1>1 DEF Typed, TypeOK, Tables, Linked
  <1>3. /\ row \in Row /\ row.user = req[s].user
        /\ row = Change(req[s].op, row.certs, profile[p])
    BY <1>2, ChangeType
  <1> HIDE DEF row
  <1>4. /\ q \in Request /\ Kept(q, req[s]) /\ q.pc = "diff" /\ q.role = req[s].role
        /\ q.profile = p /\ q.row = row
    BY <1>1, <1>3 DEF Request, Kept
  <1>5. req' = [req EXCEPT ![s] = q]
    BY DEF FindApproved, row
  <1> HIDE DEF q
  <1>6. Coherent(q)
    BY <1>1, <1>3, <1>4 DEF Coherent, Kept, Saves, Saving, Operations
  <1>7. q.row = Change(q.op, q.row.certs, profile[q.profile])
    BY <1>3, <1>4 DEF Kept
  <1> QED
    BY <1>1, <1>4, <1>5, <1>6, <1>7, OneRequest DEF Typed

(* --------------------------- Type correctness -------------------------- *)

\* The requests stay what they are while keys are not taken back and profiles
\* keep their owners.
LEMMA TypedShift ==
    ASSUME Typed, NEW s \in Slots, NEW q, Shift(s, q), Coherent(q), TypeOK', Tables',
           used \subseteq used',
           \A p \in Profiles : p \in used => promised'[p].user = promised[p].user,
           q.profile \in Profiles => /\ q.profile \in used'
                                     /\ promised'[q.profile].user = q.user
    PROVE  Typed'
  <1>1. ASSUME NEW t \in Slots
        PROVE  Coherent(req'[t]) /\ Linked(req[t])
    <2>1. CASE t = s
      BY <2>1 DEF Shift, Typed
    <2>2. CASE t # s
      BY <2>2 DEF Shift, Typed, Same, Coherent
    <2> QED
      BY <2>1, <2>2
  <1>2. ASSUME NEW t \in Slots
        PROVE  req'[t].profile \in Profiles => /\ req'[t].profile \in used'
                                               /\ promised'[req'[t].profile].user = req'[t].user
    <2>1. CASE t = s
      BY <2>1 DEF Shift
    <2>2. CASE t # s
      BY <1>1, <2>2 DEF Shift, Same, Linked
    <2> QED
      BY <2>1, <2>2
  <1>3. \A t \in Slots : Linked(req[t])'
    BY <1>2 DEF Linked
  <1> QED
    BY <1>1, <1>3 DEF Typed

LEMMA TypedBegin ==
    ASSUME Typed, NEW s \in Slots, NEW q \in Request, Begin(s, q), Coherent(q),
           q.pc # "idle", torn' \in SUBSET Requests,
           q.profile \in Profiles => Stored(q.profile) /\ q.user = profile[q.profile].user
    PROVE  Typed'
  <1>1. /\ Only(s, q) /\ begun' \in Nat /\ unsure' \subseteq unsure \union {q.user}
        /\ UNCHANGED <<role, profile, vreq, job, used, promised, outdated, twins, vouched>>
    BY BeginStep DEF Typed
  <1>2. q.user \in Users
    BY DEF Coherent
  <1>3. TypeOK'
    BY <1>1, <1>2 DEF Typed, TypeOK, Only
  <1>4. Tables'
    BY <1>1 DEF Typed, Tables, Stored
  <1>5. q.profile \in Profiles => q.profile \in used' /\ promised'[q.profile].user = q.user
    BY <1>1 DEF Typed, Tables
  <1>6. Shift(s, q)
    BY <1>1, OnlyShifts DEF Typed
  <1> QED
    BY <1>1, <1>3, <1>4, <1>5, <1>6, TypedShift

\* A step that leaves the tables of profiles and verification requests alone.
LEMMA TypedContinue ==
    ASSUME Typed, NEW s \in Slots, NEW q \in Request, Only(s, q), Coherent(q),
           UNCHANGED <<profile, vreq, begun, used, promised, outdated, twins>>,
           role' \in [Users -> Roles \union {"none"}], job' \in [Users -> JobStates],
           vouched' \in SUBSET Requests, torn' \in SUBSET Requests,
           unsure' \in SUBSET Users,
           \/ q = Idle
           \/ q.profile = req[s].profile /\ q.user = req[s].user
           \/ /\ q.profile \in Profiles /\ profile[q.profile].user = q.user
              /\ Stored(q.profile)
    PROVE  Typed'
  <1>1. TypeOK'
    BY DEF Typed, TypeOK, Only
  <1>2. Tables'
    BY DEF Typed, Tables, Stored
  <1>3. q.profile \in Profiles => q.profile \in used' /\ promised'[q.profile].user = q.user
    <2>1. CASE q = Idle
      BY <2>1, IdleType, Nones
    <2>2. CASE q.profile = req[s].profile /\ q.user = req[s].user
      BY <2>2 DEF Typed, Linked
    <2>3. CASE /\ q.profile \in Profiles /\ profile[q.profile].user = q.user
               /\ Stored(q.profile)
      BY <2>3 DEF Typed, Tables
    <2> QED
      BY <2>1, <2>2, <2>3
  <1>4. Shift(s, q)
    BY OnlyShifts DEF Typed
  <1> QED
    BY <1>1, <1>2, <1>3, <1>4, TypedShift

LEMMA TypedInit == Init => Typed
  <1> SUFFICES ASSUME Init PROVE Typed
    OBVIOUS
  <1>1. TypeOK
    <2>1. NoRow \in Row /\ NoRequest \in VerificationRequest /\ Idle \in Request
      BY NoRowType, IdleType DEF NoRequest, VerificationRequest, Verdicts
    <2> QED
      BY <2>1 DEF Init, TypeOK, Roles, JobStates
  <1>2. Tables
    BY NoRowType, Nones DEF Init, Tables, Stored, NoRequest
  <1>3. \A s \in Slots : Coherent(req[s]) /\ Linked(req[s])
    BY IdleType, Nones DEF Init, Linked
  <1> QED
    BY <1>1, <1>2, <1>3 DEF Typed

\* Accounts and jobs: no request and no profile is touched.
LEMMA TypedOutside ==
    ASSUME Typed, \/ \E u \in Users, r \in Roles : SignUp(u, r) \/ SetUserRole(u, r)
                  \/ \E u \in Users : FinishJob(u)
    PROVE  Typed' /\ UNCHANGED <<profile, vreq, req, used, promised, outdated, twins, vouched,
                                 torn>> /\ unsure \subseteq unsure'
  <1>1. /\ UNCHANGED <<profile, vreq, req, begun, used, promised, outdated, twins, vouched, torn>>
        /\ unsure \subseteq unsure'
    BY DEF SignUp, SetUserRole, FinishJob, history
  <1>2. role' \in [Users -> Roles \union {"none"}]
    BY DEF SignUp, SetUserRole, FinishJob, Typed, TypeOK
  <1>3. job' \in [Users -> JobStates]
    BY DEF SignUp, SetUserRole, FinishJob, Typed, TypeOK, JobStates
  <1>4. unsure' \in SUBSET Users
    BY DEF SignUp, SetUserRole, FinishJob, Typed, TypeOK, history
  <1>5. TypeOK'
    BY <1>1, <1>2, <1>3, <1>4 DEF Typed, TypeOK
  <1>6. Tables'
    BY <1>1 DEF Typed, Tables, Stored
  <1>7. \A s \in Slots : Coherent(req[s])' /\ Linked(req[s])'
    BY <1>1 DEF Typed, Coherent, Linked
  <1> QED
    BY <1>1, <1>5, <1>6, <1>7 DEF Typed

LEMMA TypedHandles ==
    ASSUME Typed, NEW s \in Slots,
           \/ \E u \in Users : HandleUser(s, u)
           \/ \E p \in Profiles : HandleProfile(s, p)
           \/ \E v \in Requests, verdict \in Verdicts :
                 ReviewVerificationRequest(s, v, verdict)
    PROVE  Typed'
  <1>1. CASE \E u \in Users : HandleUser(s, u)
    <2>1. PICK u \in Users : HandleUser(s, u)
      BY <1>1
    <2>2. PICK q \in Request : /\ Begin(s, q) /\ UNCHANGED torn /\ Coherent(q)
                               /\ q.profile = None /\ q.pc # "idle"
      BY <2>1, HandleUserBegins
    <2> QED
      BY <2>2, Nones, TypedBegin DEF Typed, TypeOK
  <1>2. CASE \E p \in Profiles : HandleProfile(s, p)
    <2>1. PICK p \in Profiles : HandleProfile(s, p)
      BY <1>2
    <2>2. PICK q \in Request : /\ Begin(s, q) /\ UNCHANGED torn /\ Coherent(q)
                               /\ Stored(p) /\ q.user = profile[p].user /\ q.profile = p
                               /\ q.pc # "idle"
      BY <2>1, HandleProfileBegins
    <2> QED
      BY <2>2, TypedBegin DEF Typed, TypeOK
  <1>3. CASE \E v \in Requests, verdict \in Verdicts : ReviewVerificationRequest(s, v, verdict)
    <2>1. PICK v \in Requests, verdict \in Verdicts : ReviewVerificationRequest(s, v, verdict)
      BY <1>3
    <2>2. PICK q \in Request :
             /\ Begin(s, q) /\ Coherent(q)
             /\ torn' = torn \union {w \in {v} : \E t \in Slots : UnderReview(t, w)}
             /\ Stored(q.profile) /\ q.user = profile[q.profile].user
             /\ q.pc = IF verdict = "approved" THEN "findApproved" ELSE "saveVerdict"
      BY <2>1, ReviewBegins
    <2>3. torn' \in SUBSET Requests /\ q.pc # "idle"
      BY <2>2 DEF Typed, TypeOK
    <2> QED
      BY <2>2, <2>3, TypedBegin
  <1> QED
    BY <1>1, <1>2, <1>3

\* What the steps of a role's operation leave alone, Insert and Remove apart.
LEMMA TypedRole ==
    ASSUME Typed, NEW s \in Slots,
           \/ SyncRead(s) \/ CreateUser(s) \/ CheckProfile(s) \/ RaiseRole(s) \/ VerifyRole(s)
           \/ RoleUpdateFails(s) \/ SaveUser(s) \/ FindProfile(s)
           \/ FindRemoved(s) \/ CountJobs(s) \/ LowerRole(s)
    PROVE  Typed'
  <1>1. req[s] \in Request /\ vouched \in SUBSET Requests /\ torn \in SUBSET Requests
        /\ role \in [Users -> Roles \union {"none"}] /\ job \in [Users -> JobStates]
        /\ unsure \in SUBSET Users /\ req[s].role \in Roles \union {"none"}
    BY DEF Typed, TypeOK, Request
  <1>2. CASE SyncRead(s)
    <2>1. PICK q \in Request : /\ Only(s, q) /\ Coherent(q)
                               /\ q = Idle \/ Moved(q, req[s], "raiseRole")
      BY <1>2, SyncReadStep
    <2> QED
      BY <1>1, <1>2, <2>1, TypedContinue DEF SyncRead, Moved, Kept, history
  <1>3. CASE CreateUser(s)
    <2>1. PICK q \in Request : /\ Only(s, q) /\ Coherent(q) /\ Kept(q, req[s])
                               /\ q.profile = req[s].profile
      BY <1>3, CreateUserStep
    <2>2. role' \in [Users -> Roles \union {"none"}]
      BY <1>1, <1>3 DEF CreateUser, Roles
    <2> QED
      BY <1>1, <1>3, <2>1, <2>2, TypedContinue DEF CreateUser, Kept, history
  <1>4. CASE CheckProfile(s)
    <2>1. PICK q \in Request :
             /\ Only(s, q) /\ Coherent(q)
             /\ q = Idle \/ (q.profile = req[s].profile /\ q.user = req[s].user)
      BY <1>4, CheckProfileStep DEF Moved, Kept
    <2> QED
      BY <1>1, <1>4, <2>1, TypedContinue DEF CheckProfile, history
  <1>5. CASE RaiseRole(s)
    <2>1. PICK q \in Request :
             /\ Only(s, q) /\ Coherent(q)
             /\ q = Idle \/ (q.profile = req[s].profile /\ q.user = req[s].user)
      BY <1>5, RaiseRoleStep DEF Moved, Kept
    <2>2. role' \in [Users -> Roles \union {"none"}]
      BY <1>1, <1>5 DEF RaiseRole, Roles
    <2> QED
      BY <1>1, <1>5, <2>1, <2>2, TypedContinue DEF RaiseRole, history
  <1>6. CASE VerifyRole(s)
    <2>1. PICK q \in Request : /\ Only(s, q) /\ Coherent(q) /\ Kept(q, req[s])
                               /\ q.profile = req[s].profile
      BY <1>6, VerifyRoleStep
    <2> QED
      BY <1>1, <1>6, <2>1, TypedContinue DEF VerifyRole, Kept, history
  <1>7. CASE RoleUpdateFails(s)
    <2>1. PICK q \in Request :
             /\ Only(s, q) /\ Coherent(q)
             /\ q = Idle \/ (q.profile = req[s].profile /\ q.user = req[s].user)
      BY <1>7, RoleUpdateFailsStep DEF Moved, Kept
    <2>2. unsure' \in SUBSET Users
      BY <1>1, <1>7, RoleUpdateFailsStep DEF RoleUpdateFails
    <2> QED
      BY <1>1, <1>7, <2>1, <2>2, TypedContinue DEF RoleUpdateFails
  <1>8. CASE SaveUser(s)
    <2>1. PICK q \in Request : /\ Only(s, q) /\ Coherent(q)
                               /\ q.profile = req[s].profile /\ q.user = req[s].user
      BY <1>8, SaveUserStep DEF Moved, Kept
    <2>2. role' \in [Users -> Roles \union {"none"}]
      BY <1>1, <1>8 DEF SaveUser
    <2> QED
      BY <1>1, <1>8, <2>1, <2>2, TypedContinue DEF SaveUser, history
  <1>9. CASE FindProfile(s)
    <2>1. PICK q \in Request :
             /\ Only(s, q) /\ Coherent(q)
             /\ \/ Moved(q, req[s], "insert")
                \/ /\ q.profile \in Profiles /\ profile[q.profile].user = req[s].user
                   /\ Kept(q, req[s]) /\ q.pc # "idle"
      BY <1>9, FindProfileStep
    <2>2. CASE Moved(q, req[s], "insert")
      BY <1>1, <1>9, <2>1, <2>2, TypedContinue DEF FindProfile, Moved, Kept, history
    <2>3. CASE /\ q.profile \in Profiles /\ profile[q.profile].user = req[s].user
               /\ Kept(q, req[s]) /\ q.pc # "idle"
      <3>1. q.user \in Users /\ profile[q.profile].user = q.user /\ Stored(q.profile)
        BY <2>1, <2>3, Nones DEF Coherent, Kept, Stored
      <3> QED
        BY <1>1, <1>9, <2>1, <2>3, <3>1, TypedContinue DEF FindProfile, history
    <2> QED
      BY <2>1, <2>2, <2>3
  <1>10. CASE FindRemoved(s)
    <2>1. PICK q \in Request :
             /\ Only(s, q) /\ Coherent(q)
             /\ \/ q = Idle
                \/ /\ q.profile \in Profiles /\ profile[q.profile].user = req[s].user
                   /\ Kept(q, req[s]) /\ q.pc = "countJobs"
      BY <1>10, FindRemovedStep
    <2>2. CASE q = Idle
      BY <1>1, <1>10, <2>1, <2>2, TypedContinue DEF FindRemoved, history
    <2>3. CASE /\ q.profile \in Profiles /\ profile[q.profile].user = req[s].user
               /\ Kept(q, req[s]) /\ q.pc = "countJobs"
      <3>1. q.user \in Users /\ profile[q.profile].user = q.user /\ Stored(q.profile)
        BY <2>1, <2>3, Nones DEF Coherent, Kept, Stored
      <3> QED
        BY <1>1, <1>10, <2>1, <2>3, <3>1, TypedContinue DEF FindRemoved, history
    <2> QED
      BY <2>1, <2>2, <2>3
  <1>11. CASE CountJobs(s)
    <2>1. PICK q \in Request :
             /\ Only(s, q) /\ Coherent(q)
             /\ q = Idle \/ (q.profile = req[s].profile /\ q.user = req[s].user)
      BY <1>11, CountJobsStep DEF Moved, Kept
    <2> QED
      BY <1>1, <1>11, <2>1, TypedContinue DEF CountJobs, history
  <1>12. CASE LowerRole(s)
    <2>1. Only(s, Idle)
      BY <1>12, EndStep DEF LowerRole
    <2>2. role' \in [Users -> Roles \union {"none"}]
      BY <1>1, <1>12 DEF LowerRole, Roles
    <2> QED
      BY <1>1, <1>12, <2>1, <2>2, IdleType, TypedContinue DEF LowerRole, history
  <1> QED
    BY <1>2, <1>3, <1>4, <1>5, <1>6, <1>7, <1>8, <1>9, <1>10, <1>11, <1>12

\* A new profile has a key of its own and is the only one of its user.
LEMMA TypedInsert ==
    ASSUME Typed, NEW s \in Slots, NEW p \in Profiles, Insert(s, p)
    PROVE  Typed'
  <1> DEFINE u == req[s].user
             row == [NoRow EXCEPT !.user = u]
  <1>1. u \in Users /\ p \notin used /\ ~HasProfile(u)
    BY DEF Insert, Typed, Coherent
  <1>2. row \in Row /\ row.user = u
    BY <1>1, OwnedRow
  <1>3. /\ profile' = [profile EXCEPT ![p] = row] /\ promised' = [promised EXCEPT ![p] = row]
        /\ used' = used \union {p}
        /\ UNCHANGED <<role, vreq, job, begun, outdated, twins, vouched, torn, unsure>>
    BY DEF Insert
  <1> HIDE DEF row
  <1>4. Only(s, Idle)
    BY EndStep DEF Insert
  <1>5. TypeOK'
    BY <1>2, <1>3, <1>4 DEF Typed, TypeOK, Only
  <1>6. /\ profile'[p].user = u /\ promised'[p].user = u /\ u # None
        /\ \A r \in Profiles \ {p} : /\ profile'[r] = profile[r]
                                     /\ promised'[r] = promised[r]
                                     /\ profile[r].user # u
    BY <1>1, <1>2, <1>3, Nones DEF Typed, TypeOK, HasProfile
  <1>7. Tables'
    <2>1. \A r \in Profiles : Stored(r)' <=> (r = p \/ Stored(r))
      BY <1>6 DEF Stored
    <2>2. \A r \in Profiles : Stored(r)' => r \in used' /\ promised'[r].user = profile'[r].user
      BY <1>3, <1>6, <2>1 DEF Typed, Tables
    <2>3. \A r, q \in Profiles : Stored(r)' /\ profile'[r].user = profile'[q].user => r = q
      BY <1>6, <2>1 DEF Typed, Tables
    <2>4. \A v \in Requests : vreq'[v].profile \in Profiles => Stored(vreq[v].profile)'
      BY <1>3, <2>1 DEF Typed, Tables
    <2> QED
      BY <2>2, <2>3, <2>4 DEF Tables
  <1>8. \A r \in Profiles : r \in used => promised'[r].user = promised[r].user
    BY <1>1, <1>6
  <1>9. Shift(s, Idle)
    BY <1>4, OnlyShifts, IdleType DEF Typed
  <1> QED
    BY <1>3, <1>5, <1>7, <1>8, <1>9, IdleType, Nones, TypedShift

\* A profile goes with its verification requests.
LEMMA RemoveEffect ==
    ASSUME Typed, NEW s \in Slots, Remove(s)
    PROVE  /\ req[s].profile \in Profiles
           /\ profile'[req[s].profile] = NoRow
           /\ \A r \in Profiles \ {req[s].profile} : profile'[r] = profile[r]
           /\ \A v \in Requests :
                 /\ vreq[v].profile = req[s].profile => vreq'[v].profile = None
                 /\ vreq[v].profile # req[s].profile => vreq'[v] = vreq[v]
           /\ profile' \in [Profiles -> Row] /\ vreq' \in [Requests -> VerificationRequest]
           /\ torn' \in SUBSET Requests
  <1>1. req[s].profile \in Profiles
    BY DEF Typed, Coherent, Remove
  <1>2. profile' = [profile EXCEPT ![req[s].profile] = NoRow]
    BY DEF Remove
  <1>3. vreq' = [v \in Requests |-> IF vreq[v].profile = req[s].profile
                                    THEN NoRequest ELSE vreq[v]]
    BY DEF Remove
  <1>4. NoRequest \in VerificationRequest /\ NoRequest.profile = None
    BY DEF NoRequest, VerificationRequest, Verdicts
  <1>5. profile \in [Profiles -> Row] /\ vreq \in [Requests -> VerificationRequest]
    BY DEF Typed, TypeOK
  <1>6. torn' \in SUBSET Requests
    BY DEF Remove, Typed, TypeOK
  <1>7. profile' \in [Profiles -> Row] /\ vreq' \in [Requests -> VerificationRequest]
    BY <1>2, <1>3, <1>4, <1>5, NoRowType
  <1>8. profile'[req[s].profile] = NoRow
        /\ \A r \in Profiles \ {req[s].profile} : profile'[r] = profile[r]
    BY <1>1, <1>2, <1>5
  <1>9. \A v \in Requests :
            /\ vreq[v].profile = req[s].profile => vreq'[v].profile = None
            /\ vreq[v].profile # req[s].profile => vreq'[v] = vreq[v]
    BY <1>3, <1>4
  <1> QED
    BY <1>1, <1>6, <1>7, <1>8, <1>9

LEMMA TypedRemove ==
    ASSUME Typed, NEW s \in Slots, Remove(s)
    PROVE  Typed'
  <1>1. PICK q \in Request :
           /\ Shift(s, q) /\ Coherent(q)
           /\ q = Idle \/ (q.profile = req[s].profile /\ q.user = req[s].user)
    BY RemoveStep DEF Moved, Kept
  <1>2. UNCHANGED <<role, job, begun, used, promised, outdated, twins, vouched, unsure>>
    BY DEF Remove
  <1>3. TypeOK'
    BY <1>1, <1>2, RemoveEffect DEF Typed, TypeOK, Shift
  <1>4. Tables'
    <2>1. \A r \in Profiles : Stored(r)' <=> (r # req[s].profile /\ Stored(r))
      <3>1. ASSUME NEW r \in Profiles
            PROVE  profile'[r].user # None <=> (r # req[s].profile /\ profile[r].user # None)
        BY RemoveEffect, NoRowType
      <3> QED
        BY <3>1 DEF Stored
    <2>2. \A r \in Profiles : Stored(r)' => r \in used' /\ promised'[r].user = profile'[r].user
      BY <1>2, <2>1, RemoveEffect DEF Typed, Tables
    <2>3. \A r, p \in Profiles : Stored(r)' /\ profile'[r].user = profile'[p].user => r = p
      <3>1. ASSUME NEW r \in Profiles, NEW p \in Profiles, Stored(r)',
                   profile'[r].user = profile'[p].user
            PROVE  r = p
        <4>1. r # req[s].profile /\ profile'[r].user # None
          BY <2>1, <3>1 DEF Stored
        <4>2. p # req[s].profile
          BY <3>1, <4>1, RemoveEffect, NoRowType
        <4> QED
          BY <2>1, <3>1, <4>1, <4>2, RemoveEffect DEF Typed, Tables
      <3> QED
        BY <3>1
    <2>4. \A v \in Requests : vreq'[v].profile \in Profiles => Stored(vreq[v].profile)'
      BY <2>1, RemoveEffect, Nones DEF Typed, Tables
    <2> QED
      BY <2>2, <2>3, <2>4 DEF Tables
  <1>5. q.profile \in Profiles => q.profile \in used' /\ promised'[q.profile].user = q.user
    BY <1>1, <1>2, IdleType, Nones DEF Typed, Linked
  <1> QED
    BY <1>1, <1>2, <1>3, <1>4, <1>5, TypedShift

\* An update writes the columns that differed, and the owner is not one of them.
LEMMA UpdateEffect ==
    ASSUME Typed, NEW s \in Slots, Update(s)
    PROVE  /\ req[s].profile \in Profiles
           /\ profile' \in [Profiles -> Row] /\ promised' \in [Profiles -> Row]
           /\ \A r \in Profiles : profile'[r].user = profile[r].user
           /\ \A r \in Profiles : promised'[r].user = promised[r].user
           /\ \A r \in Profiles \ {req[s].profile} : /\ profile'[r] = profile[r]
                                                     /\ promised'[r] = promised[r]
           /\ \A c \in Columns : Stored(req[s].profile) =>
                 profile'[req[s].profile][c] = IF c \in req[s].cols THEN req[s].row[c]
                                               ELSE profile[req[s].profile][c]
           /\ promised'[req[s].profile] =
                 Change(req[s].op, req[s].row.certs, promised[req[s].profile])
  <1> DEFINE p == req[s].profile
             new == [c \in Columns |-> IF c \in req[s].cols THEN req[s].row[c]
                                       ELSE profile[p][c]]
             done == Change(req[s].op, req[s].row.certs, promised[p])
  <1>1. /\ p \in Profiles /\ req[s].row \in Row /\ req[s].row.user = req[s].user
        /\ promised[p].user = req[s].user /\ req[s].user \in Users
    BY DEF Typed, TypeOK, Coherent, Linked, Update, Saves, Request
  <1>2. /\ profile \in [Profiles -> Row] /\ promised \in [Profiles -> Row]
        /\ profile[p] \in Row /\ promised[p] \in Row /\ req[s].row.certs \in SUBSET Certs
    BY <1>1 DEF Typed, TypeOK, Row
  <1>3. /\ new \in Row /\ \A c \in Columns : new[c] = IF c \in req[s].cols THEN req[s].row[c]
                                                      ELSE profile[p][c]
    BY <1>1, <1>2 DEF Row, Columns
  <1>4. done \in Row /\ done.user = promised[p].user
    BY <1>2, ChangeType
  <1>5. /\ profile' = IF Stored(p) THEN [profile EXCEPT ![p] = new] ELSE profile
        /\ promised' = [promised EXCEPT ![p] = done]
    BY DEF Update
  <1>6. Stored(p) => new.user = profile[p].user
    BY <1>1, <1>3 DEF Columns, Typed, Tables
  <1> HIDE DEF new, done
  <1>7. /\ promised' \in [Profiles -> Row] /\ promised'[p] = done
        /\ \A r \in Profiles \ {p} : promised'[r] = promised[r]
        /\ \A r \in Profiles : promised'[r].user = promised[r].user
    BY <1>1, <1>2, <1>4, <1>5
  <1>8. /\ profile' \in [Profiles -> Row]
        /\ \A r \in Profiles \ {p} : profile'[r] = profile[r]
        /\ Stored(p) => profile'[p] = new
        /\ \A r \in Profiles : profile'[r].user = profile[r].user
    BY <1>1, <1>2, <1>3, <1>5, <1>6
  <1> QED
    BY <1>1, <1>3, <1>7, <1>8 DEF done

LEMMA TypedUpdate ==
    ASSUME Typed, NEW s \in Slots, Update(s)
    PROVE  Typed'
  <1> DEFINE q == Follow(req[s])
  <1>1. /\ Shift(s, q) /\ Coherent(q) /\ req[s].pc = "update" /\ Coherent(req[s])
        /\ req[s] \in Request /\ vouched' = Vouched(req[s])
    BY WriteStep DEF Update
  <1>2. /\ q = Idle \/ (q.profile = req[s].profile /\ q.user = req[s].user)
        /\ vouched' \in SUBSET Requests
    BY <1>1, FollowType DEF Saves, Typed, TypeOK
  <1> HIDE DEF q
  <1>3. /\ UNCHANGED <<role, vreq, job, begun, used, twins, torn, unsure>>
        /\ outdated' \in SUBSET Profiles
    <2>1. outdated \in SUBSET Profiles
      BY DEF Typed, TypeOK
    <2>2. outdated' \subseteq outdated \union {req[s].profile}
      BY DEF Update
    <2>3. UNCHANGED <<role, vreq, job, begun, used, twins, torn, unsure>>
      BY DEF Update
    <2>4. req[s].profile \in Profiles
      BY UpdateEffect
    <2> QED
      BY <2>1, <2>2, <2>3, <2>4
  <1>4. TypeOK'
    BY <1>1, <1>2, <1>3, UpdateEffect DEF Typed, TypeOK, Shift
  <1>5. Tables'
    <2>1. \A r \in Profiles : Stored(r)' <=> Stored(r)
      BY UpdateEffect DEF Stored
    <2>2. \A r \in Profiles : Stored(r)' => r \in used' /\ promised'[r].user = profile'[r].user
      BY <1>3, <2>1, UpdateEffect DEF Typed, Tables
    <2>3. \A r, p \in Profiles : Stored(r)' /\ profile'[r].user = profile'[p].user => r = p
      BY <2>1, UpdateEffect DEF Typed, Tables
    <2>4. \A v \in Requests : vreq'[v].profile \in Profiles => Stored(vreq[v].profile)'
      BY <1>3, <2>1 DEF Typed, Tables
    <2> QED
      BY <2>2, <2>3, <2>4 DEF Tables
  <1>6. q.profile \in Profiles => q.profile \in used' /\ promised'[q.profile].user = q.user
    BY <1>2, <1>3, UpdateEffect, IdleType, Nones DEF Typed, Linked
  <1> QED
    BY <1>1, <1>3, <1>5, <1>4, <1>6, UpdateEffect, TypedShift

\* A profile inserted again is its old owner's, who has no other.
LEMMA ReinsertEffect ==
    ASSUME Typed, NEW s \in Slots, Reinsert(s)
    PROVE  /\ req[s].profile \in Profiles /\ req[s].profile \in used
           /\ req[s].user \in Users /\ ~HasProfile(req[s].user)
           /\ profile' \in [Profiles -> Row]
           /\ profile'[req[s].profile].user = req[s].user
           /\ promised[req[s].profile].user = req[s].user
           /\ \A r \in Profiles \ {req[s].profile} : profile'[r] = profile[r]
  <1>1. /\ req[s].profile \in Profiles /\ req[s].row \in Row /\ req[s].row.user = req[s].user
        /\ req[s].user \in Users /\ req[s].profile \in used
        /\ promised[req[s].profile].user = req[s].user
    BY DEF Typed, TypeOK, Coherent, Linked, Reinsert, Saves, Request
  <1> QED
    BY <1>1 DEF Reinsert, Typed, TypeOK

LEMMA TypedReinsert ==
    ASSUME Typed, NEW s \in Slots, Reinsert(s)
    PROVE  Typed'
  <1> DEFINE q == Follow(req[s])
  <1>1. /\ Shift(s, q) /\ Coherent(q) /\ req[s].pc = "reinsert" /\ Coherent(req[s])
        /\ req[s] \in Request /\ vouched' = Vouched(req[s])
    BY WriteStep DEF Reinsert
  <1>2. /\ q = Idle \/ (q.profile = req[s].profile /\ q.user = req[s].user)
        /\ vouched' \in SUBSET Requests
    BY <1>1, FollowType DEF Saves, Typed, TypeOK
  <1> HIDE DEF q
  <1>3. /\ UNCHANGED <<role, vreq, job, begun, used, promised, twins, torn, unsure>>
        /\ outdated' \in SUBSET Profiles
    <2>1. outdated \in SUBSET Profiles
      BY DEF Typed, TypeOK
    <2>2. outdated' \subseteq outdated \union {req[s].profile}
      BY DEF Reinsert
    <2>3. UNCHANGED <<role, vreq, job, begun, used, promised, twins, torn, unsure>>
      BY DEF Reinsert
    <2>4. req[s].profile \in Profiles
      BY ReinsertEffect
    <2> QED
      BY <2>1, <2>2, <2>3, <2>4
  <1>4. TypeOK'
    BY <1>1, <1>2, <1>3, ReinsertEffect DEF Typed, TypeOK, Shift
  <1>5. Tables'
    <2>1. \A r \in Profiles : Stored(r)' <=> (r = req[s].profile \/ Stored(r))
      <3>1. ASSUME NEW r \in Profiles
            PROVE  profile'[r].user # None <=> (r = req[s].profile \/ profile[r].user # None)
        BY ReinsertEffect, Nones
      <3> QED
        BY <3>1 DEF Stored
    <2>2. \A r \in Profiles : Stored(r)' => r \in used' /\ promised'[r].user = profile'[r].user
      BY <1>3, <2>1, ReinsertEffect DEF Typed, Tables
    <2>3. \A r, p \in Profiles : Stored(r)' /\ profile'[r].user = profile'[p].user => r = p
      BY <2>1, ReinsertEffect DEF Typed, Tables, HasProfile
    <2>4. \A v \in Requests : vreq'[v].profile \in Profiles => Stored(vreq[v].profile)'
      BY <1>3, <2>1 DEF Typed, Tables
    <2> QED
      BY <2>2, <2>3, <2>4 DEF Tables
  <1>6. q.profile \in Profiles => q.profile \in used' /\ promised'[q.profile].user = q.user
    BY <1>2, <1>3, IdleType, Nones DEF Typed, Linked
  <1> QED
    BY <1>1, <1>3, <1>4, <1>5, <1>6, TypedShift

\* A verification request is stored only for a profile that is there.
LEMMA TypedSubmit ==
    ASSUME Typed, NEW s \in Slots, NEW v \in Requests, Submit(s, v)
    PROVE  Typed'
  <1>1. /\ Shift(s, Idle) /\ req[s].profile \in Profiles /\ Stored(req[s].profile)
    BY SubmitStep DEF Submit
  <1> DEFINE row == [profile |-> req[s].profile, status |-> "pending"]
  <1>2. row \in VerificationRequest /\ row.profile = req[s].profile
    BY <1>1 DEF VerificationRequest, Verdicts
  <1>3. /\ vreq' = [vreq EXCEPT ![v] = row] /\ used' = used \union {v}
        /\ UNCHANGED <<role, profile, job, begun, promised, outdated, vouched, torn, unsure>>
        /\ twins' \in SUBSET Profiles
    BY <1>1 DEF Submit, Typed, TypeOK
  <1> HIDE DEF row
  <1>4. vreq' \in [Requests -> VerificationRequest]
    BY <1>2, <1>3 DEF Typed, TypeOK
  <1>5. TypeOK'
    BY <1>1, <1>3, <1>4 DEF Typed, TypeOK, Shift
  <1>6. Tables'
    BY <1>1, <1>2, <1>3 DEF Typed, TypeOK, Tables, Stored
  <1> QED
    BY <1>1, <1>3, <1>5, <1>6, IdleType, Nones, TypedShift

LEMMA TypedSaveVerdict ==
    ASSUME Typed, NEW s \in Slots, SaveVerdict(s)
    PROVE  Typed'
  <1>1. /\ Only(s, Idle) /\ req[s].profile \in Profiles /\ Stored(req[s].profile)
        /\ req[s].vreq \in Requests /\ req[s].verdict \in Verdicts
    BY EndStep DEF SaveVerdict, Typed, TypeOK, Coherent, Request
  <1> DEFINE row == [profile |-> req[s].profile, status |-> req[s].verdict]
  <1>2. row \in VerificationRequest /\ row.profile = req[s].profile
    BY <1>1 DEF VerificationRequest
  <1>3. /\ vreq' = [vreq EXCEPT ![req[s].vreq] = row]
        /\ UNCHANGED <<role, profile, job, history>>
    BY DEF SaveVerdict
  <1> HIDE DEF row
  <1>4. vreq' \in [Requests -> VerificationRequest]
    BY <1>1, <1>2, <1>3 DEF Typed, TypeOK
  <1>5. TypeOK'
    BY <1>1, <1>3, <1>4 DEF Typed, TypeOK, Only, history
  <1>6. Tables'
    BY <1>1, <1>2, <1>3 DEF Typed, TypeOK, Tables, Stored, history
  <1>7. Shift(s, Idle)
    BY <1>1, OnlyShifts, IdleType DEF Typed
  <1> QED
    BY <1>3, <1>5, <1>6, <1>7, IdleType, Nones, TypedShift DEF history

LEMMA TypedProfile ==
    ASSUME Typed, NEW s \in Slots, Diff(s) \/ FindApproved(s) \/ Assign(s) \/ Abort(s)
    PROVE  Typed'
  <1>1. req[s] \in Request /\ vouched \in SUBSET Requests /\ torn \in SUBSET Requests
        /\ role \in [Users -> Roles \union {"none"}] /\ job \in [Users -> JobStates]
        /\ unsure \in SUBSET Users /\ Coherent(req[s])
    BY DEF Typed, TypeOK
  <1>2. CASE Diff(s)
    <2>1. PICK q \in Request :
             /\ Only(s, q) /\ Coherent(q)
             /\ \/ Moved(q, req[s], "reinsert") /\ vouched' = vouched
                \/ q = Follow(req[s]) /\ vouched' = Vouched(req[s])
                \/ Moved(q, req[s], "update") /\ vouched' = vouched
      BY <1>2, DiffStep
    <2>2. /\ q = Idle \/ (q.profile = req[s].profile /\ q.user = req[s].user)
          /\ vouched' \in SUBSET Requests
      BY <1>1, <1>2, <2>1, FollowType DEF Diff, Saves, Moved, Kept
    <2> QED
      BY <1>1, <1>2, <2>1, <2>2, TypedContinue DEF Diff
  <1>3. CASE FindApproved(s)
    <2>1. PICK q \in Request : /\ Only(s, q) /\ Coherent(q) /\ Kept(q, req[s])
                               /\ q.profile = req[s].profile
      BY <1>3, FindApprovedStep
    <2> QED
      BY <1>1, <1>3, <2>1, TypedContinue DEF FindApproved, Kept, history
  <1>4. CASE Assign(s)
    <2>1. Only(s, Idle)
      BY <1>4, EndStep DEF Assign
    <2>2. job' \in [Users -> JobStates]
      BY <1>1, <1>4 DEF Assign, JobStates
    <2> QED
      BY <1>1, <1>4, <2>1, <2>2, IdleType, TypedContinue DEF Assign, history
  <1>5. CASE Abort(s)
    <2>1. Only(s, Idle)
      BY <1>5, EndStep DEF Abort
    <2>2. unsure' \in SUBSET Users /\ torn' \in SUBSET Requests
      BY <1>1, <1>5 DEF Abort, Coherent
    <2> QED
      BY <1>1, <1>5, <2>1, <2>2, IdleType, TypedContinue DEF Abort
  <1> QED
    BY <1>2, <1>3, <1>4, <1>5

LEMMA TypedUnchanged == Typed /\ UNCHANGED vars => Typed'
  BY DEF Typed, TypeOK, Tables, Stored, Coherent, Linked, vars, history

LEMMA TypedNext == Typed /\ [Next]_vars => Typed'
  <1> SUFFICES ASSUME Typed, Next PROVE Typed'
    BY TypedUnchanged
  <1>1. CASE \/ \E u \in Users, r \in Roles : SignUp(u, r) \/ SetUserRole(u, r)
             \/ \E u \in Users : FinishJob(u)
    BY <1>1, TypedOutside
  <1>2. CASE \E s \in Slots, u \in Users : HandleUser(s, u)
    BY <1>2, TypedHandles
  <1>3. CASE \E s \in Slots, p \in Profiles : HandleProfile(s, p)
    BY <1>3, TypedHandles
  <1>4. CASE \E s \in Slots, v \in Requests, verdict \in Verdicts :
                ReviewVerificationRequest(s, v, verdict)
    BY <1>4, TypedHandles
  <1>5. CASE \E s \in Slots : ContinueRole(s)
    BY <1>5, TypedRole, TypedInsert, TypedRemove DEF ContinueRole
  <1>6. CASE \E s \in Slots : ContinueProfile(s)
    BY <1>6, TypedProfile, TypedUpdate, TypedReinsert, TypedSubmit, TypedSaveVerdict
       DEF ContinueProfile
  <1> QED
    BY <1>1, <1>2, <1>3, <1>4, <1>5, <1>6 DEF Next

\* Every variable of Providers keeps its type, whatever requests meet or die.
THEOREM ProvidersTypeCorrect == Spec => []TypeOK
  <1>1. Typed => TypeOK
    BY DEF Typed
  <1> QED
    BY <1>1, TypedInit, TypedNext, PTL DEF Spec

(* --------------- Administrators' decisions are not undone -------------- *)

\* A request that nobody has overtaken holds what its operation makes of the
\* profile as it is, and is about to write all that differs.
Fresh(q) ==
    q.pc \in Holding /\ ~q.stale =>
        /\ Stored(q.profile)
        /\ q.row = Change(q.op, q.row.certs, profile[q.profile])
        /\ q.pc = "update" => \A c \in Columns \ q.cols : q.row[c] = profile[q.profile][c]

Decided == Typed /\ DecisionsStand /\ \A s \in Slots : Fresh(req[s])

LEMMA DecidedShift ==
    ASSUME Decided, Typed', NEW s \in Slots, NEW q, Shift(s, q), Fresh(q),
           UNCHANGED <<profile, promised>>, outdated \subseteq outdated'
    PROVE  Decided'
  <1>1. DecisionsStand'
    BY DEF Decided, DecisionsStand, Stored
  <1>2. \A t \in Slots : Fresh(req'[t])
    <2>1. ASSUME NEW t \in Slots \ {s} PROVE Fresh(req'[t])
      <3>1. Fresh(req[t]) /\ Same(req'[t], req[t])
        BY DEF Decided, Shift
      <3> QED
        BY <3>1 DEF Fresh, Same
    <2> QED
      BY <2>1 DEF Shift
  <1>3. \A t \in Slots : Fresh(req[t])'
    BY <1>2 DEF Fresh, Stored
  <1> QED
    BY <1>1, <1>3 DEF Decided

\* A request that has no profile in hand is fresh.
LEMMA DecidedOnly ==
    ASSUME Decided, Typed', NEW s \in Slots, NEW q \in Request, Only(s, q), Fresh(q),
           UNCHANGED <<profile, promised, outdated>>
    PROVE  Decided'
  <1>1. Shift(s, q)
    BY OnlyShifts DEF Decided, Typed
  <1> QED
    BY <1>1, DecidedShift

LEMMA DecidedBegins ==
    ASSUME Decided, Typed', NEW s \in Slots,
           \/ \E u \in Users : HandleUser(s, u)
           \/ \E p \in Profiles : HandleProfile(s, p)
           \/ \E v \in Requests, verdict \in Verdicts :
                 ReviewVerificationRequest(s, v, verdict)
    PROVE  Decided'
  <1>1. ASSUME NEW q \in Request, Begin(s, q), Fresh(q) PROVE Decided'
    BY <1>1, BeginStep, DecidedOnly DEF Decided, Typed
  <1>2. CASE \E u \in Users : HandleUser(s, u)
    <2>1. PICK u \in Users : HandleUser(s, u)
      BY <1>2
    <2>2. PICK q \in Request : Begin(s, q) /\ q.pc \notin Saves
      BY <2>1, HandleUserBegins DEF Decided
    <2> QED
      BY <1>1, <2>2 DEF Fresh, Holding, Saves
  <1>3. CASE \E p \in Profiles : HandleProfile(s, p)
    <2>1. PICK p \in Profiles : HandleProfile(s, p)
      BY <1>3
    <2>2. PICK q \in Request :
             /\ Begin(s, q) /\ Stored(p) /\ q.profile = p
             /\ \/ q.pc = "diff" /\ q.row = Change(q.op, q.row.certs, profile[p])
                \/ q.pc = "submit"
      BY <2>1, HandleProfileBegins DEF Decided
    <2> QED
      BY <1>1, <2>2 DEF Fresh, Holding
  <1>4. CASE \E v \in Requests, verdict \in Verdicts : ReviewVerificationRequest(s, v, verdict)
    <2>1. PICK v \in Requests, verdict \in Verdicts : ReviewVerificationRequest(s, v, verdict)
      BY <1>4
    <2>2. PICK q \in Request :
             /\ Begin(s, q)
             /\ q.pc = IF verdict = "approved" THEN "findApproved" ELSE "saveVerdict"
      BY <2>1, ReviewBegins DEF Decided
    <2> QED
      BY <1>1, <2>2 DEF Fresh, Holding
  <1> QED
    BY <1>2, <1>3, <1>4

LEMMA IdleFresh == Fresh(Idle)
  BY IdleType DEF Fresh, Holding

\* The steps that write no profile.
LEMMA DecidedRole ==
    ASSUME Decided, Typed', NEW s \in Slots,
           \/ SyncRead(s) \/ CreateUser(s) \/ CheckProfile(s) \/ RaiseRole(s) \/ VerifyRole(s)
           \/ RoleUpdateFails(s) \/ SaveUser(s) \/ FindProfile(s)
           \/ FindRemoved(s) \/ CountJobs(s) \/ LowerRole(s)
    PROVE  Decided'
  <1>1. UNCHANGED <<profile, promised, outdated>>
    BY DEF SyncRead, CreateUser, CheckProfile, RaiseRole, VerifyRole, RoleUpdateFails,
       SaveUser, FindProfile, FindRemoved, CountJobs, LowerRole, history
  <1>2. Typed /\ Fresh(req[s])
    BY DEF Decided
  <1>3. ASSUME NEW q \in Request, Only(s, q), q.pc \notin Holding \/ q = Idle
        PROVE  Decided'
    BY <1>1, <1>3, IdleFresh, DecidedOnly DEF Fresh
  <1>4. ASSUME NEW q \in Request, Only(s, q), req[s].pc = "raiseAgain", q.pc = "diff",
               q.profile = req[s].profile, q.row = req[s].row, q.op = req[s].op,
               q.stale = req[s].stale
        PROVE  Decided'
    <2>1. Fresh(q)
      BY <1>2, <1>4 DEF Fresh, Holding
    <2> QED
      BY <1>1, <1>4, <2>1, DecidedOnly
  <1>5. CASE SyncRead(s)
    BY <1>2, <1>3, <1>5, SyncReadStep DEF Moved, Holding
  <1>6. CASE CreateUser(s)
    BY <1>2, <1>3, <1>6, CreateUserStep DEF Holding
  <1>7. CASE CheckProfile(s)
    BY <1>2, <1>3, <1>7, CheckProfileStep DEF Moved, Holding
  <1>8. CASE RaiseRole(s)
    BY <1>2, <1>3, <1>4, <1>8, RaiseRoleStep DEF Moved, Kept, Holding
  <1>9. CASE VerifyRole(s)
    BY <1>2, <1>3, <1>9, VerifyRoleStep DEF Holding
  <1>10. CASE RoleUpdateFails(s)
    BY <1>2, <1>3, <1>4, <1>10, RoleUpdateFailsStep DEF Moved, Kept, Holding
  <1>11. CASE SaveUser(s)
    BY <1>2, <1>3, <1>11, SaveUserStep DEF Moved, Holding
  <1>12. CASE FindProfile(s)
    <2>1. PICK q \in Request :
             /\ Only(s, q) /\ Coherent(q)
             /\ \/ q.pc = "insert"
                \/ /\ q.profile \in Profiles /\ profile[q.profile].user = req[s].user
                   /\ Kept(q, req[s]) /\ q.row = profile[q.profile]
                   /\ q.pc \in {"raiseAgain", "diff"}
      BY <1>2, <1>12, FindProfileStep DEF Moved
    <2>2. CASE q.pc = "insert"
      BY <1>3, <2>1, <2>2 DEF Holding
    <2>3. CASE /\ q.profile \in Profiles /\ profile[q.profile].user = req[s].user
               /\ Kept(q, req[s]) /\ q.row = profile[q.profile]
               /\ q.pc \in {"raiseAgain", "diff"}
      <3>1. req[s].op \in {"registerProvider", "registerProviderComplete"}
            /\ req[s].user \in Users
        BY <1>2, <1>12 DEF Typed, Coherent, FindProfile
      <3>2. Stored(q.profile) /\ Change(q.op, q.row.certs, profile[q.profile]) = q.row
        BY <2>3, <3>1, Nones DEF Stored, Change, Kept
      <3> QED
        BY <1>1, <2>1, <2>3, <3>2, DecidedOnly DEF Fresh
    <2> QED
      BY <2>1, <2>2, <2>3
  <1>13. CASE FindRemoved(s)
    BY <1>2, <1>3, <1>13, FindRemovedStep DEF Holding
  <1>14. CASE CountJobs(s)
    BY <1>2, <1>3, <1>14, CountJobsStep DEF Moved, Holding
  <1>15. CASE LowerRole(s)
    BY <1>2, <1>3, <1>15, IdleType, EndStep DEF LowerRole
  <1> QED
    BY <1>5, <1>6, <1>7, <1>8, <1>9, <1>10, <1>11, <1>12, <1>13, <1>14, <1>15

LEMMA DecidedProfile ==
    ASSUME Decided, Typed', NEW s \in Slots,
           \/ Diff(s) \/ FindApproved(s) \/ Assign(s) \/ Abort(s) \/ SaveVerdict(s)
           \/ \E v \in Requests : Submit(s, v)
    PROVE  Decided'
  <1>1. UNCHANGED <<profile, promised, outdated>>
    BY DEF Diff, FindApproved, Assign, Abort, SaveVerdict, Submit, history
  <1>2. Typed /\ Fresh(req[s])
    BY DEF Decided
  <1>3. CASE Diff(s)
    <2>1. PICK q \in Request :
             /\ Only(s, q)
             /\ \/ Moved(q, req[s], "reinsert")
                \/ q = Follow(req[s])
                \/ Moved(q, req[s], "update") /\ q.cols = Changed(s)
      BY <1>2, <1>3, DiffStep
    <2>2. req[s] \in Request /\ Coherent(req[s]) /\ req[s].pc = "diff"
      BY <1>2, <1>3, DiffStep
    <2>3. CASE Moved(q, req[s], "reinsert")
      BY <1>1, <2>1, <2>3, DecidedOnly DEF Fresh, Holding, Moved
    <2>4. CASE q = Follow(req[s])
      <3>1. q.pc \in {"idle", "saveVerdict"}
        BY <2>2, <2>4, FollowType, IdleType DEF Saves
      <3> QED
        BY <1>1, <2>1, <3>1, DecidedOnly DEF Fresh, Holding
    <2>5. CASE Moved(q, req[s], "update") /\ q.cols = Changed(s)
      <3>1. /\ q.row = req[s].row /\ q.profile = req[s].profile /\ q.op = req[s].op
            /\ q.stale = req[s].stale /\ q.pc = "update"
        BY <2>5 DEF Moved, Kept
      <3>2. \A c \in Columns \ q.cols : q.row[c] = profile[q.profile][c]
        BY <2>5, <3>1 DEF Changed
      <3>3. Fresh(q)
        BY <1>2, <2>2, <3>1, <3>2 DEF Fresh, Holding
      <3> QED
        BY <1>1, <2>1, <3>3, DecidedOnly
    <2> QED
      BY <2>1, <2>3, <2>4, <2>5
  <1>4. CASE FindApproved(s)
    <2>1. PICK q \in Request :
             /\ Only(s, q) /\ q.pc = "diff" /\ q.profile = req[s].profile
             /\ Stored(req[s].profile)
             /\ q.row = Change(q.op, q.row.certs, profile[q.profile])
      BY <1>2, <1>4, FindApprovedStep
    <2> QED
      BY <1>1, <2>1, DecidedOnly DEF Fresh
  <1>5. CASE Assign(s) \/ Abort(s) \/ SaveVerdict(s)
    <2>1. Only(s, Idle)
      BY <1>2, <1>5, EndStep DEF Assign, Abort, SaveVerdict
    <2> QED
      BY <1>1, <2>1, IdleType, IdleFresh, DecidedOnly
  <1>6. CASE \E v \in Requests : Submit(s, v)
    <2>1. Shift(s, Idle)
      BY <1>2, <1>6, SubmitStep
    <2> QED
      BY <1>1, <2>1, IdleFresh, DecidedShift
  <1> QED
    BY <1>3, <1>4, <1>5, <1>6

LEMMA RowsEqual ==
    ASSUME NEW a \in Row, NEW b \in Row, \A c \in Columns : a[c] = b[c]
    PROVE  a = b
  BY DEF Row, Columns

\* After a write of profile p: the requests with p in hand are stale, the others
\* as fresh as they were.
LEMMA FreshWrite ==
    ASSUME Decided, NEW s \in Slots, NEW q, Shift(s, q), q.pc \notin Holding,
           NEW p \in Profiles,
           \A t \in Slots \ {s} : req[t].pc \in Holding /\ req[t].profile = p => req'[t].stale,
           \A r \in Profiles \ {p} : profile'[r] = profile[r]
    PROVE  \A t \in Slots : Fresh(req[t])'
  <1> SUFFICES ASSUME NEW t \in Slots, req'[t].pc \in Holding, ~req'[t].stale
               PROVE  /\ profile'[req'[t].profile].user # None
                      /\ req'[t].row = Change(req'[t].op, req'[t].row.certs,
                                              profile'[req'[t].profile])
                      /\ req'[t].pc = "update" =>
                            \A c \in Columns \ req'[t].cols :
                               req'[t].row[c] = profile'[req'[t].profile][c]
    BY DEF Fresh, Stored
  <1>1. t # s /\ Same(req'[t], req[t])
    BY DEF Shift
  <1>2. /\ req[t].pc \in Holding /\ ~req[t].stale /\ req[t].profile # p
        /\ Fresh(req[t]) /\ Coherent(req[t])
    BY <1>1 DEF Same, Decided, Typed
  <1>3. req[t].profile \in Profiles
    BY <1>2 DEF Coherent, Holding, Saves
  <1>4. profile'[req[t].profile] = profile[req[t].profile]
    BY <1>2, <1>3
  <1> QED
    BY <1>1, <1>2, <1>4 DEF Same, Fresh, Stored

LEMMA DecidedUpdate ==
    ASSUME Decided, Typed', NEW s \in Slots, Update(s)
    PROVE  Decided'
  <1> DEFINE p == req[s].profile
             q == Follow(req[s])
  <1>1. Typed /\ Fresh(req[s])
    BY DEF Decided
  <1>2. /\ req[s] \in Request /\ Coherent(req[s]) /\ req[s].pc = "update" /\ Shift(s, q)
        /\ \A t \in Slots \ {s} : req[t].pc \in Holding /\ req[t].profile = p => req'[t].stale
    BY <1>1, WriteStep DEF Update
  <1>3. q.pc \notin Holding
    BY <1>2, FollowType, IdleType DEF Saves, Holding
  <1>4. p \in Profiles /\ \A r \in Profiles \ {p} : /\ profile'[r] = profile[r]
                                                    /\ promised'[r] = promised[r]
    BY <1>1, UpdateEffect
  <1>5. \A t \in Slots : Fresh(req[t])'
    BY <1>2, <1>3, <1>4, FreshWrite
  <1>6. ASSUME p \notin outdated', profile'[p].user # None
        PROVE  profile'[p] = promised'[p]
    <2>1. /\ ~req[s].stale /\ p \notin outdated
      BY <1>6 DEF Update
    <2>2. /\ Stored(p) /\ req[s].row = Change(req[s].op, req[s].row.certs, profile[p])
          /\ \A c \in Columns \ req[s].cols : req[s].row[c] = profile[p][c]
      BY <1>1, <1>2, <2>1 DEF Fresh, Holding
    <2>3. profile[p] = promised[p]
      BY <1>4, <2>1, <2>2 DEF Decided, DecisionsStand
    <2>4. promised'[p] = req[s].row
      BY <1>1, <2>2, <2>3, UpdateEffect
    <2>5. \A c \in Columns : profile'[p][c] = req[s].row[c]
      BY <1>1, <2>2, UpdateEffect
    <2>6. profile'[p] \in Row /\ req[s].row \in Row
      BY <1>1, <1>2, <1>4, UpdateEffect DEF Request
    <2> QED
      BY <2>4, <2>5, <2>6, RowsEqual
  <1>7. \A r \in Profiles : r \notin outdated' /\ profile'[r].user # None
                               => profile'[r] = promised'[r]
    <2>1. outdated \subseteq outdated'
      BY DEF Update
    <2> QED
      BY <1>4, <1>6, <2>1 DEF Decided, DecisionsStand, Stored
  <1>8. DecisionsStand'
    BY <1>7 DEF DecisionsStand, Stored
  <1> QED
    BY <1>5, <1>8 DEF Decided

LEMMA DecidedReinsert ==
    ASSUME Decided, Typed', NEW s \in Slots, Reinsert(s)
    PROVE  Decided'
  <1> DEFINE p == req[s].profile
             q == Follow(req[s])
  <1>1. Typed
    BY DEF Decided
  <1>2. /\ req[s] \in Request /\ Coherent(req[s]) /\ req[s].pc = "reinsert" /\ Shift(s, q)
        /\ \A t \in Slots \ {s} : req[t].pc \in Holding /\ req[t].profile = p => req'[t].stale
    BY <1>1, WriteStep DEF Reinsert
  <1>3. q.pc \notin Holding
    BY <1>2, FollowType, IdleType DEF Saves, Holding
  <1>4. /\ p \in Profiles /\ p \in outdated' /\ outdated \subseteq outdated'
        /\ promised' = promised
        /\ \A r \in Profiles \ {p} : profile'[r] = profile[r]
    BY <1>1, ReinsertEffect DEF Reinsert
  <1>5. \A t \in Slots : Fresh(req[t])'
    BY <1>2, <1>3, <1>4, FreshWrite
  <1>6. DecisionsStand'
    BY <1>4 DEF Decided, DecisionsStand, Stored
  <1> QED
    BY <1>5, <1>6 DEF Decided

LEMMA DecidedRemove ==
    ASSUME Decided, Typed', NEW s \in Slots, Remove(s)
    PROVE  Decided'
  <1>1. Typed /\ UNCHANGED <<promised, outdated>>
    BY DEF Decided, Remove
  <1>2. PICK q \in Request :
           /\ Shift(s, q) /\ q.pc \notin Holding
           /\ \A t \in Slots \ {s} : req[t].pc \in Holding /\ req[t].profile = req[s].profile
                                        => req'[t].stale
    BY <1>1, RemoveStep, IdleType DEF Moved, Holding
  <1>3. \A t \in Slots : Fresh(req[t])'
    BY <1>1, <1>2, RemoveEffect, FreshWrite
  <1>4. \A r \in Profiles : r \notin outdated' /\ profile'[r].user # None
                               => profile'[r] = promised'[r]
    BY <1>1, RemoveEffect, NoRowType DEF Decided, DecisionsStand, Stored
  <1>5. DecisionsStand'
    BY <1>4 DEF DecisionsStand, Stored
  <1> QED
    BY <1>3, <1>5 DEF Decided

\* The key of a new profile is in nobody's hands.
LEMMA DecidedInsert ==
    ASSUME Decided, Typed', NEW s \in Slots, NEW p \in Profiles, Insert(s, p)
    PROVE  Decided'
  <1> DEFINE row == [NoRow EXCEPT !.user = req[s].user]
  <1>1. /\ profile' = [profile EXCEPT ![p] = row] /\ promised' = [promised EXCEPT ![p] = row]
        /\ p \notin used /\ UNCHANGED outdated /\ Typed
    BY DEF Insert, Decided
  <1> HIDE DEF row
  <1>2. Only(s, Idle)
    BY <1>1, EndStep DEF Insert
  <1>3. /\ profile'[p] = promised'[p]
        /\ \A r \in Profiles \ {p} : profile'[r] = profile[r] /\ promised'[r] = promised[r]
    BY <1>1 DEF Typed, TypeOK
  <1>4. DecisionsStand'
    BY <1>1, <1>3 DEF Decided, DecisionsStand, Stored
  <1>5. \A t \in Slots \ {s} : req[t].pc \in Holding => req[t].profile # p
    BY <1>1 DEF Typed, Coherent, Linked, Holding, Saves
  <1>6. \A t \in Slots : Fresh(req[t])'
    <2>1. Shift(s, Idle)
      BY <1>1, <1>2, OnlyShifts, IdleType DEF Typed
    <2> QED
      BY <1>3, <1>5, <2>1, FreshWrite, IdleType DEF Holding
  <1> QED
    BY <1>4, <1>6 DEF Decided

\* The strengthening of DecisionsStand that every step preserves.
LEMMA DecidedNext == Decided /\ [Next]_vars => Decided'
  <1> SUFFICES ASSUME Decided, [Next]_vars PROVE Decided'
    OBVIOUS
  <1>1. Typed'
    BY TypedNext DEF Decided
  <1>2. ASSUME UNCHANGED <<profile, promised, outdated, req>> PROVE Decided'
    BY <1>1, <1>2 DEF Decided, DecisionsStand, Stored, Fresh
  <1>3. CASE UNCHANGED vars
    BY <1>2, <1>3 DEF vars, history
  <1>4. CASE \/ \E u \in Users, r \in Roles : SignUp(u, r) \/ SetUserRole(u, r)
             \/ \E u \in Users : FinishJob(u)
    BY <1>2, <1>4, TypedOutside DEF Decided
  <1>5. CASE \/ \E s \in Slots, u \in Users : HandleUser(s, u)
             \/ \E s \in Slots, p \in Profiles : HandleProfile(s, p)
             \/ \E s \in Slots, v \in Requests, verdict \in Verdicts :
                   ReviewVerificationRequest(s, v, verdict)
    BY <1>1, <1>5, DecidedBegins
  <1>6. CASE \E s \in Slots : ContinueRole(s)
    BY <1>1, <1>6, DecidedRole, DecidedInsert, DecidedRemove DEF ContinueRole
  <1>7. CASE \E s \in Slots : ContinueProfile(s)
    BY <1>1, <1>7, DecidedProfile, DecidedUpdate, DecidedReinsert DEF ContinueProfile
  <1> QED
    BY <1>3, <1>4, <1>5, <1>6, <1>7 DEF Next

LEMMA DecidedInit == Init => Decided
  <1> SUFFICES ASSUME Init PROVE Decided
    OBVIOUS
  <1>1. DecisionsStand
    BY DEF Init, DecisionsStand
  <1>2. \A s \in Slots : Fresh(req[s])
    BY IdleFresh DEF Init
  <1> QED
    BY <1>1, <1>2, TypedInit DEF Decided

\* A stored profile is what its saves asked for, one after another, unless an
\* object out of date was saved: no edit takes back a decision or a certification.
THEOREM ProvidersDecisionsStand == Spec => []DecisionsStand
  <1>1. Decided => DecisionsStand
    BY DEF Decided
  <1> QED
    BY <1>1, DecidedInit, DecidedNext, PTL DEF Spec

(* ------------------- Verdicts and pending requests --------------------- *)

\* What a submission has found, and what a review that is alone may rely on.
Sure(q) ==
    /\ q.pc = "submit" /\ ~q.stale =>
           \A v \in Requests : vreq[v].profile = q.profile /\ vreq[v].status = "pending"
                                  => v \in torn
    /\ \A v \in Requests : q.vreq = v =>
           /\ v \in used
           /\ v \notin torn =>
                 /\ vreq[v].profile = q.profile /\ vreq[v].status = "pending"
                 /\ v \in vouched => q.pc = "saveVerdict" /\ q.verdict = "approved"
    /\ q.pc = "saveVerdict" /\ q.verdict = "approved" => q.vreq \in vouched

\* Two reviews of one request at a time are recorded, and the keys in use too.
Alone == \A s, t \in Slots : \A v \in Requests :
             req[s].vreq = v /\ req[t].vreq = v /\ s # t => v \in torn
Filed == \A v \in Requests : vreq[v].profile \in Profiles \/ v \in vouched => v \in used

Judged == /\ Typed /\ OnePending /\ VerdictsAgree /\ Alone /\ Filed
          /\ \A s \in Slots : Sure(req[s])

\* A request under review is one that a request has in hand.
LEMMA InHand ==
    ASSUME Typed
    PROVE  \A t \in Slots, v \in Requests : UnderReview(t, v) <=> req[t].vreq = v
  <1>1. ASSUME NEW t \in Slots, NEW v \in Requests, req[t].vreq = v PROVE req[t].pc # "idle"
    BY <1>1, Nones DEF Typed, Coherent
  <1> QED
    BY <1>1 DEF UnderReview

\* A step that leaves the verification requests alone, of a request that has no
\* review in hand or goes on with it.
LEMMA JudgedShift ==
    ASSUME Judged, Typed', NEW s \in Slots, NEW q, Shift(s, q), Coherent(q),
           UNCHANGED <<vreq, vouched>>, used \subseteq used', torn \subseteq torn',
           twins \subseteq twins', q.pc # "submit",
           q.vreq = None \/ /\ q.vreq = req[s].vreq /\ q.profile = req[s].profile
                            /\ q.verdict = req[s].verdict,
           q.pc = "saveVerdict" <=> (req[s].pc = "saveVerdict" /\ q.vreq # None),
           q.vreq = None => req[s].vreq = None \/ req[s].vreq \in torn'
    PROVE  Judged'
  <1>1. /\ Typed /\ OnePending /\ VerdictsAgree /\ Alone /\ Filed /\ Sure(req[s])
        /\ Coherent(req[s]) /\ req'[s] = q
    BY DEF Judged, Typed, Shift
  <1>2. ASSUME NEW t \in Slots PROVE Sure(req[t])'
    <2>1. CASE t = s
      BY <1>1, <2>1, Nones DEF Sure
    <2>2. CASE t # s
      <3>1. Same(req'[t], req[t]) /\ Sure(req[t])
        BY <2>2 DEF Shift, Judged
      <3> QED
        BY <3>1 DEF Same, Sure
    <2> QED
      BY <2>1, <2>2
  <1>3. OnePending' /\ Filed'
    BY <1>1 DEF OnePending, Pending, Filed
  <1>4. \A t \in Slots : req'[t].vreq = req[t].vreq \/ req'[t].vreq = None
    BY <1>1 DEF Shift, Same
  <1>5. Alone'
    BY <1>1, <1>4, Nones DEF Alone
  <1>6. VerdictsAgree'
    <2>1. ASSUME NEW v \in Requests, NEW t \in Slots, req[t].pc = "saveVerdict",
                 req[t].vreq = v, v \notin torn'
          PROVE  req'[t].pc = "saveVerdict" /\ req'[t].vreq = v
      <3>1. CASE t = s
        BY <1>1, <2>1, <3>1, Nones
      <3>2. CASE t # s
        BY <2>1, <3>2 DEF Shift, Same
      <3> QED
        BY <3>1, <3>2
    <2> QED
      BY <1>1, <2>1 DEF VerdictsAgree
  <1> QED
    BY <1>2, <1>3, <1>5, <1>6 DEF Judged

LEMMA JudgedOnly ==
    ASSUME Judged, Typed', NEW s \in Slots, NEW q \in Request, Only(s, q), Coherent(q),
           UNCHANGED <<vreq, vouched, torn, twins>>, used \subseteq used', q.pc # "submit",
           \/ q.vreq = None /\ req[s].op # "reviewVerificationRequest"
           \/ /\ Kept(q, req[s]) /\ q.profile = req[s].profile
              /\ q.pc # "saveVerdict" /\ req[s].pc # "saveVerdict"
    PROVE  Judged'
  <1>1. Shift(s, q) /\ Coherent(req[s])
    BY OnlyShifts DEF Judged, Typed
  <1>2. CASE q.vreq = None /\ req[s].op # "reviewVerificationRequest"
    <2>1. req[s].vreq = None /\ q.pc # "saveVerdict" /\ req[s].pc # "saveVerdict"
      BY <1>1, <1>2, Nones DEF Coherent
    <2> QED
      BY <1>1, <1>2, <2>1, JudgedShift
  <1>3. CASE /\ Kept(q, req[s]) /\ q.profile = req[s].profile
             /\ q.pc # "saveVerdict" /\ req[s].pc # "saveVerdict"
    BY <1>1, <1>3, JudgedShift DEF Kept
  <1> QED
    BY <1>2, <1>3

\* Requests begin: a submission that has found nothing pending, a review of a
\* pending request, or one about neither.
LEMMA JudgedSubmission ==
    ASSUME Judged, Typed', NEW s \in Slots, NEW q \in Request, Only(s, q),
           UNCHANGED <<vreq, vouched, used, torn, twins>>,
           req[s].pc = "idle", q.pc = "submit", q.vreq = None, Pending(q.profile) = {}
    PROVE  Judged'
  <1>1. /\ Typed /\ OnePending /\ VerdictsAgree /\ Alone /\ Filed /\ req'[s] = q
    BY DEF Judged, Only
  <1>2. ASSUME NEW t \in Slots PROVE Sure(req[t])'
    <2>1. CASE t = s
      BY <1>1, <2>1, Nones DEF Sure, Pending
    <2>2. CASE t # s
      <3>1. req'[t] = req[t] /\ Sure(req[t])
        BY <2>2 DEF Only, Judged
      <3> QED
        BY <3>1 DEF Sure
    <2> QED
      BY <2>1, <2>2
  <1>3. OnePending' /\ Filed'
    BY <1>1 DEF OnePending, Pending, Filed
  <1>4. Alone'
    BY <1>1, Nones DEF Alone, Only
  <1>5. VerdictsAgree'
    BY <1>1 DEF VerdictsAgree, Only
  <1> QED
    BY <1>2, <1>3, <1>4, <1>5 DEF Judged

LEMMA JudgedReview ==
    ASSUME Judged, Typed', NEW s \in Slots, NEW q \in Request, NEW v \in Requests,
           NEW verdict \in Verdicts, Only(s, q), UNCHANGED <<vreq, vouched, used, twins>>,
           torn' = torn \union {w \in {v} : \E t \in Slots : UnderReview(t, w)},
           req[s].pc = "idle", q.vreq = v, q.verdict = verdict, q.profile = vreq[v].profile,
           vreq[v].status = "pending", q.profile \in Profiles,
           q.pc = IF verdict = "approved" THEN "findApproved" ELSE "saveVerdict"
    PROVE  Judged'
  <1>1. /\ Typed /\ OnePending /\ VerdictsAgree /\ Alone /\ Filed /\ req'[s] = q
        /\ Coherent(req[s]) /\ \A t \in Slots \ {s} : req'[t] = req[t]
        /\ torn \subseteq torn'
    BY DEF Judged, Only, Typed
  <1>2. req[s].vreq = None
    BY <1>1 DEF Coherent
  <1>3. \A t \in Slots : req[t].vreq = v => v \in torn'
    BY <1>1, InHand
  <1>4. v \in vouched => v \in torn'
    <2>1. v \in vouched => \/ v \in torn
                           \/ \E t \in Slots : req[t].vreq = v
      BY <1>1, Nones DEF VerdictsAgree
    <2> QED
      BY <1>1, <1>3, <2>1
  <1>5. v \in used
    BY <1>1 DEF Filed
  <1>6. ASSUME NEW t \in Slots PROVE Sure(req[t])'
    <2>1. CASE t = s
      BY <1>1, <1>4, <1>5, <2>1 DEF Sure
    <2>2. CASE t # s
      <3>1. req'[t] = req[t] /\ Sure(req[t])
        BY <1>1, <2>2 DEF Judged
      <3> QED
        BY <1>1, <3>1 DEF Sure
    <2> QED
      BY <2>1, <2>2
  <1>7. OnePending' /\ Filed'
    BY <1>1 DEF OnePending, Pending, Filed
  <1>8. Alone'
    BY <1>1, <1>3 DEF Alone
  <1>9. VerdictsAgree'
    BY <1>1, <1>2, Nones DEF VerdictsAgree
  <1> QED
    BY <1>6, <1>7, <1>8, <1>9 DEF Judged

LEMMA JudgedBegins ==
    ASSUME Judged, Typed', NEW s \in Slots,
           \/ \E u \in Users : HandleUser(s, u)
           \/ \E p \in Profiles : HandleProfile(s, p)
           \/ \E v \in Requests, verdict \in Verdicts :
                 ReviewVerificationRequest(s, v, verdict)
    PROVE  Judged'
  <1>1. Typed /\ TypeOK
    BY DEF Judged, Typed
  <1>2. ASSUME NEW q \in Request, Begin(s, q), UNCHANGED torn, Coherent(q), q.vreq = None,
               q.pc # "submit"
        PROVE  Judged'
    <2>1. /\ Only(s, q) /\ req[s].pc = "idle" /\ UNCHANGED <<vreq, vouched, used, twins>>
      BY <1>1, <1>2, BeginStep
    <2>2. req[s].op # "reviewVerificationRequest"
      BY <1>1, <2>1 DEF Typed, Coherent
    <2> QED
      BY <1>2, <2>1, <2>2, JudgedOnly
  <1>3. CASE \E u \in Users : HandleUser(s, u)
    <2>1. PICK u \in Users : HandleUser(s, u)
      BY <1>3
    <2>2. PICK q \in Request : /\ Begin(s, q) /\ UNCHANGED torn /\ Coherent(q)
                               /\ q.vreq = None /\ q.pc # "submit"
      BY <1>1, <2>1, HandleUserBegins
    <2> QED
      BY <1>2, <2>2
  <1>4. CASE \E p \in Profiles : HandleProfile(s, p)
    <2>1. PICK p \in Profiles : HandleProfile(s, p)
      BY <1>4
    <2>2. PICK q \in Request :
             /\ Begin(s, q) /\ UNCHANGED torn /\ Coherent(q) /\ q.profile = p
             /\ q.vreq = None
             /\ q.pc = "diff" \/ (q.pc = "submit" /\ Pending(p) = {})
      BY <1>1, <2>1, HandleProfileBegins
    <2>3. CASE q.pc = "diff"
      BY <1>2, <2>2, <2>3
    <2>4. CASE q.pc = "submit" /\ Pending(p) = {}
      BY <1>1, <2>2, <2>4, BeginStep, JudgedSubmission
    <2> QED
      BY <2>2, <2>3, <2>4
  <1>5. CASE \E v \in Requests, verdict \in Verdicts : ReviewVerificationRequest(s, v, verdict)
    <2>1. PICK v \in Requests, verdict \in Verdicts : ReviewVerificationRequest(s, v, verdict)
      BY <1>5
    <2>2. PICK q \in Request :
             /\ Begin(s, q)
             /\ torn' = torn \union {w \in {v} : \E t \in Slots : UnderReview(t, w)}
             /\ q.vreq = v /\ q.verdict = verdict
             /\ q.profile = vreq[v].profile /\ vreq[v].status = "pending"
             /\ q.profile \in Profiles
             /\ q.pc = IF verdict = "approved" THEN "findApproved" ELSE "saveVerdict"
      BY <1>1, <2>1, ReviewBegins
    <2>3. /\ Only(s, q) /\ req[s].pc = "idle" /\ UNCHANGED <<vreq, vouched, used, twins>>
      BY <1>1, <2>2, BeginStep
    <2> QED
      BY <2>2, <2>3, JudgedReview
  <1> QED
    BY <1>3, <1>4, <1>5

\* The steps about the role, and an insert, have no review in hand.
LEMMA JudgedRole ==
    ASSUME Judged, Typed', NEW s \in Slots,
           \/ SyncRead(s) \/ CreateUser(s) \/ CheckProfile(s) \/ RaiseRole(s) \/ VerifyRole(s)
           \/ RoleUpdateFails(s) \/ SaveUser(s) \/ FindProfile(s)
           \/ FindRemoved(s) \/ CountJobs(s) \/ LowerRole(s)
           \/ \E p \in Profiles : Insert(s, p)
    PROVE  Judged'
  <1>1. UNCHANGED <<vreq, vouched, torn, twins>> /\ used \subseteq used'
    BY DEF SyncRead, CreateUser, CheckProfile, RaiseRole, VerifyRole, RoleUpdateFails,
       SaveUser, FindProfile, FindRemoved, CountJobs, LowerRole, Insert, history
  <1>2. Typed /\ Coherent(req[s])
    BY DEF Judged, Typed
  <1>3. req[s].pc \in {"syncRead", "createUser", "checkProfile", "raiseRole", "raiseAgain",
                       "verifyRole", "lowerRole", "saveUser", "findProfile", "findRemoved",
                       "countJobs", "insert"}
    BY DEF SyncRead, CreateUser, CheckProfile, RaiseRole, VerifyRole, RoleUpdateFails,
       SaveUser, FindProfile, FindRemoved, CountJobs, LowerRole, Insert
  <1>4. req[s].op # "reviewVerificationRequest" /\ req[s].vreq = None
    BY <1>2, <1>3 DEF Coherent
  <1>5. ASSUME NEW q \in Request, Only(s, q), Coherent(q), q.vreq = None, q.pc # "submit"
        PROVE  Judged'
    BY <1>1, <1>4, <1>5, JudgedOnly
  <1>6. ASSUME Only(s, Idle) PROVE Judged'
    BY <1>5, <1>6, IdleType
  <1>7. CASE SyncRead(s)
    BY <1>2, <1>4, <1>5, <1>6, <1>7, SyncReadStep DEF Moved, Kept
  <1>8. CASE CreateUser(s)
    BY <1>2, <1>4, <1>5, <1>8, CreateUserStep DEF Kept
  <1>9. CASE CheckProfile(s)
    BY <1>2, <1>4, <1>5, <1>6, <1>9, CheckProfileStep DEF Moved, Kept
  <1>10. CASE RaiseRole(s)
    BY <1>2, <1>4, <1>5, <1>6, <1>10, RaiseRoleStep DEF Moved, Kept
  <1>11. CASE VerifyRole(s)
    BY <1>2, <1>4, <1>5, <1>11, VerifyRoleStep DEF Kept
  <1>12. CASE RoleUpdateFails(s)
    BY <1>2, <1>4, <1>5, <1>6, <1>12, RoleUpdateFailsStep DEF Moved, Kept
  <1>13. CASE SaveUser(s)
    BY <1>2, <1>4, <1>5, <1>13, SaveUserStep DEF Moved, Kept
  <1>14. CASE FindProfile(s)
    BY <1>2, <1>4, <1>5, <1>14, FindProfileStep DEF Moved, Kept
  <1>15. CASE FindRemoved(s)
    BY <1>2, <1>4, <1>5, <1>6, <1>15, FindRemovedStep DEF Kept
  <1>16. CASE CountJobs(s)
    BY <1>2, <1>4, <1>5, <1>6, <1>16, CountJobsStep DEF Moved, Kept
  <1>17. CASE LowerRole(s)
    BY <1>2, <1>6, <1>17, EndStep DEF LowerRole
  <1>18. CASE \E p \in Profiles : Insert(s, p)
    BY <1>2, <1>6, <1>18, EndStep DEF Insert
  <1> QED
    BY <1>7, <1>8, <1>9, <1>10, <1>11, <1>12, <1>13, <1>14, <1>15, <1>16, <1>17, <1>18

\* An approval whose profile has been saved goes on to save its verdict.
LEMMA JudgedVouch ==
    ASSUME Judged, Typed', NEW s \in Slots, NEW q \in Request, Shift(s, q),
           req[s].op = "reviewVerificationRequest", q.pc = "saveVerdict",
           q.vreq = req[s].vreq, q.profile = req[s].profile, q.verdict = "approved",
           vouched' = vouched \union {req[s].vreq}, UNCHANGED <<vreq, used, torn, twins>>
    PROVE  Judged'
  <1>1. /\ Typed /\ OnePending /\ VerdictsAgree /\ Alone /\ Filed /\ Sure(req[s])
        /\ Coherent(req[s]) /\ req'[s] = q /\ q.vreq \in Requests
    BY DEF Judged, Typed, Shift, Coherent
  <1>2. ASSUME NEW t \in Slots PROVE Sure(req[t])'
    <2>1. CASE t = s
      BY <1>1, <2>1 DEF Sure
    <2>2. CASE t # s
      <3>1. Same(req'[t], req[t]) /\ Sure(req[t])
        BY <2>2 DEF Shift, Judged
      <3>2. req[t].vreq = req[s].vreq => req[s].vreq \in torn
        BY <1>1, <2>2 DEF Alone
      <3> QED
        BY <3>1, <3>2 DEF Same, Sure
    <2> QED
      BY <2>1, <2>2
  <1>3. OnePending' /\ Filed'
    BY <1>1 DEF OnePending, Pending, Filed, Sure
  <1>4. \A t \in Slots : req'[t].vreq = req[t].vreq
    BY <1>1 DEF Shift, Same
  <1>5. Alone'
    BY <1>1, <1>4 DEF Alone
  <1>6. VerdictsAgree'
    <2>1. ASSUME NEW v \in Requests, NEW t \in Slots, req[t].pc = "saveVerdict",
                 req[t].vreq = v
          PROVE  req'[t].pc = "saveVerdict" /\ req'[t].vreq = v
      BY <1>1, <2>1 DEF Shift, Same
    <2> QED
      BY <1>1, <2>1 DEF VerdictsAgree
  <1> QED
    BY <1>2, <1>3, <1>5, <1>6 DEF Judged

\* The end of a save: of an approval, or of an operation that reviews nothing.
LEMMA JudgedFollow ==
    ASSUME Judged, Typed', NEW s \in Slots, Shift(s, Follow(req[s])), req[s].pc \in Saves,
           vouched' = Vouched(req[s]), UNCHANGED <<vreq, used, torn, twins>>
    PROVE  Judged'
  <1> DEFINE q == Follow(req[s])
  <1>1. req[s] \in Request /\ Coherent(req[s])
    BY DEF Judged, Typed, TypeOK
  <1>2. CASE req[s].op = "reviewVerificationRequest"
    <2>1. /\ q \in Request /\ q.pc = "saveVerdict" /\ q.vreq = req[s].vreq
          /\ q.profile = req[s].profile /\ q.verdict = "approved"
          /\ vouched' = vouched \union {req[s].vreq}
      BY <1>1, <1>2, FollowType, IdleType
    <2> QED
      BY <1>2, <2>1, JudgedVouch
  <1>3. CASE req[s].op # "reviewVerificationRequest"
    <2>1. q = Idle /\ vouched' = vouched /\ req[s].vreq = None /\ req[s].pc # "saveVerdict"
      BY <1>1, <1>3, FollowType DEF Saves, Coherent
    <2> QED
      BY <2>1, IdleType, JudgedShift
  <1> QED
    BY <1>2, <1>3

LEMMA JudgedSave ==
    ASSUME Judged, Typed', NEW s \in Slots,
           Diff(s) \/ Update(s) \/ Reinsert(s) \/ FindApproved(s)
    PROVE  Judged'
  <1>1. Typed /\ Coherent(req[s]) /\ UNCHANGED <<vreq, used, torn, twins>>
    BY DEF Judged, Typed, Diff, Update, Reinsert, FindApproved, history
  <1>2. ASSUME NEW q \in Request, Only(s, q), Coherent(q), Kept(q, req[s]),
               q.profile = req[s].profile, q.pc \notin {"submit", "saveVerdict"},
               req[s].pc # "saveVerdict", vouched' = vouched
        PROVE  Judged'
    BY <1>1, <1>2, JudgedOnly
  <1>3. CASE Diff(s)
    <2>1. PICK q \in Request :
             /\ Only(s, q) /\ Coherent(q) /\ req[s].pc = "diff"
             /\ \/ Moved(q, req[s], "reinsert") /\ vouched' = vouched
                \/ q = Follow(req[s]) /\ vouched' = Vouched(req[s])
                \/ Moved(q, req[s], "update") /\ vouched' = vouched
      BY <1>1, <1>3, DiffStep
    <2>2. CASE q = Follow(req[s]) /\ vouched' = Vouched(req[s])
      <3>1. Shift(s, q)
        BY <1>1, <2>1, OnlyShifts DEF Typed
      <3> QED
        BY <1>1, <2>1, <2>2, <3>1, JudgedFollow DEF Saves
    <2> QED
      BY <1>2, <2>1, <2>2 DEF Moved
  <1>4. CASE Update(s) \/ Reinsert(s)
    BY <1>1, <1>4, WriteStep, JudgedFollow DEF Saves
  <1>5. CASE FindApproved(s)
    <2>1. PICK q \in Request : /\ Only(s, q) /\ Coherent(q) /\ Kept(q, req[s])
                               /\ q.pc = "diff" /\ q.profile = req[s].profile
      BY <1>1, <1>5, FindApprovedStep
    <2>2. req[s].pc = "findApproved" /\ vouched' = vouched
      BY <1>5 DEF FindApproved, history
    <2> QED
      BY <1>2, <2>1, <2>2
  <1> QED
    BY <1>3, <1>4, <1>5

\* A removal takes the profile's requests along, and the reviews of these are torn.
LEMMA JudgedRemove ==
    ASSUME Judged, Typed', NEW s \in Slots, Remove(s)
    PROVE  Judged'
  <1> DEFINE p == req[s].profile
  <1>1. /\ Typed /\ OnePending /\ VerdictsAgree /\ Alone /\ Filed /\ Coherent(req[s])
        /\ UNCHANGED <<used, vouched, twins>>
    BY DEF Judged, Typed, Remove
  <1>2. PICK q \in Request : /\ Shift(s, q) /\ q.vreq = None /\ q.pc # "submit"
                             /\ q.pc # "saveVerdict"
    <2>1. req[s].vreq = None
      BY <1>1 DEF Coherent, Remove
    <2> QED
      BY <1>1, <2>1, RemoveStep, IdleType DEF Moved, Kept
  <1>3. /\ p \in Profiles
        /\ \A v \in Requests : /\ vreq[v].profile = p => vreq'[v] = NoRequest
                               /\ vreq[v].profile # p => vreq'[v] = vreq[v]
    BY <1>1, RemoveEffect DEF Remove
  <1>4. NoRequest.profile = None /\ NoRequest.status = "pending"
    BY DEF NoRequest
  <1>5. /\ torn \subseteq torn'
        /\ \A v \in Requests : vreq[v].profile = p /\ (\E t \in Slots : req[t].vreq = v)
                                  => v \in torn'
    <2>1. torn' = torn \union {v \in Requests : /\ vreq[v].profile = p
                                               /\ \E t \in Slots : UnderReview(t, v)}
      BY DEF Remove
    <2> QED
      BY <1>1, <2>1, InHand
  <1> HIDE DEF p
  <1>6. \A v \in Requests : vreq'[v].profile \in Profiles => vreq'[v] = vreq[v]
    BY <1>3, <1>4, Nones
  <1>7. ASSUME NEW t \in Slots PROVE Sure(req[t])'
    <2>1. CASE t = s
      BY <1>2, <2>1, Nones DEF Sure, Shift
    <2>2. CASE t # s
      <3>1. Same(req'[t], req[t]) /\ Sure(req[t]) /\ Coherent(req[t])
        BY <1>1, <1>2, <2>2 DEF Shift, Judged, Typed
      <3>2. ASSUME req[t].pc = "submit", ~req[t].stale, NEW v \in Requests,
                   vreq'[v].profile = req[t].profile, vreq'[v].status = "pending"
            PROVE  v \in torn'
        <4>1. req[t].profile \in Profiles
          BY <3>1, <3>2 DEF Coherent
        <4> QED
          BY <1>5, <1>6, <3>1, <3>2, <4>1 DEF Sure
      <3>3. ASSUME NEW v \in Requests, req[t].vreq = v, v \notin torn'
            PROVE  vreq'[v] = vreq[v]
        BY <1>3, <1>5, <3>3
      <3> QED
        BY <1>1, <1>5, <3>1, <3>2, <3>3 DEF Same, Sure
    <2> QED
      BY <2>1, <2>2
  <1>8. OnePending'
    BY <1>1, <1>5, <1>6 DEF OnePending, Pending
  <1>9. Filed'
    BY <1>1, <1>6 DEF Filed
  <1>10. \A t \in Slots : req'[t].vreq = req[t].vreq \/ req'[t].vreq = None
    BY <1>2 DEF Shift, Same
  <1>11. Alone'
    BY <1>1, <1>5, <1>10, Nones DEF Alone
  <1>12. VerdictsAgree'
    <2>1. ASSUME NEW v \in Requests, NEW t \in Slots, req[t].pc = "saveVerdict",
                 req[t].vreq = v
          PROVE  req'[t].pc = "saveVerdict" /\ req'[t].vreq = v
      <3>1. t # s
        BY <2>1 DEF Remove
      <3> QED
        BY <1>2, <2>1, <3>1 DEF Shift, Same
    <2> QED
      BY <1>1, <1>3, <1>4, <1>5, <2>1 DEF VerdictsAgree
  <1> QED
    BY <1>7, <1>8, <1>9, <1>11, <1>12 DEF Judged

\* A submission that was not overtaken is the only one pending that was not torn.
LEMMA JudgedSubmit ==
    ASSUME Judged, Typed', NEW s \in Slots, NEW v \in Requests, Submit(s, v)
    PROVE  Judged'
  <1> DEFINE p == req[s].profile
             row == [profile |-> p, status |-> "pending"]
  <1>1. /\ Typed /\ OnePending /\ VerdictsAgree /\ Alone /\ Filed /\ Coherent(req[s])
        /\ Sure(req[s]) /\ UNCHANGED <<vouched, torn>>
    BY DEF Judged, Typed, Submit
  <1>2. /\ Shift(s, Idle) /\ p \in Profiles
        /\ \A t \in Slots \ {s} : req[t].pc = "submit" /\ req[t].profile = p => req'[t].stale
    BY <1>1, SubmitStep
  <1>3. /\ vreq' = [vreq EXCEPT ![v] = row] /\ used' = used \union {v} /\ v \notin used
        /\ req[s].pc = "submit" /\ twins' = IF req[s].stale THEN twins \union {p} ELSE twins
    BY DEF Submit
  <1>4. /\ vreq'[v].profile = p /\ vreq'[v].status = "pending"
        /\ \A w \in Requests \ {v} : vreq'[w] = vreq[w]
    BY <1>1, <1>3 DEF Typed, TypeOK
  <1> HIDE DEF p, row
  <1>5. ASSUME NEW t \in Slots PROVE Sure(req[t])'
    <2>1. CASE t = s
      BY <1>2, <2>1, IdleType, Nones DEF Sure, Shift
    <2>2. CASE t # s
      <3>1. Same(req'[t], req[t]) /\ Sure(req[t])
        BY <1>2, <2>2 DEF Shift, Judged
      <3>2. ASSUME req'[t].pc = "submit", ~req'[t].stale, NEW w \in Requests,
                   vreq'[w].profile = req'[t].profile, vreq'[w].status = "pending"
            PROVE  w \in torn'
        <4>1. req[t].pc = "submit" /\ ~req[t].stale /\ req'[t].profile = req[t].profile
          BY <3>1, <3>2 DEF Same
        <4>2. req[t].profile # p
          BY <1>2, <2>2, <3>2, <4>1
        <4>3. w # v
          BY <1>4, <3>2, <4>1, <4>2
        <4> QED
          BY <1>1, <1>4, <3>1, <3>2, <4>1, <4>3 DEF Sure
      <3>3. ASSUME NEW w \in Requests, req'[t].vreq = w PROVE w # v /\ w \in used'
        BY <1>3, <3>1, <3>3 DEF Sure, Same
      <3> QED
        BY <1>1, <1>4, <3>1, <3>2, <3>3 DEF Same, Sure
    <2> QED
      BY <2>1, <2>2
  <1>6. OnePending'
    <2> SUFFICES ASSUME NEW r \in Profiles, r \notin twins',
                        NEW a \in Requests, NEW b \in Requests, a \notin torn, b \notin torn,
                        vreq'[a].profile = r, vreq'[a].status = "pending",
                        vreq'[b].profile = r, vreq'[b].status = "pending"
                 PROVE  a = b
      BY <1>1 DEF OnePending, Pending
    <2>1. CASE r = p
      <3>1. ~req[s].stale
        BY <1>3, <2>1
      <3>2. \A w \in Requests \ {v} : vreq[w].profile = p /\ vreq[w].status = "pending"
                                         => w \in torn
        BY <1>1, <1>3, <3>1 DEF Sure, p
      <3> QED
        BY <1>4, <2>1, <3>2
    <2>2. CASE r # p
      <3>1. a # v /\ b # v /\ r \notin twins
        BY <1>3, <1>4, <2>2
      <3> QED
        BY <1>1, <1>4, <3>1 DEF OnePending, Pending
    <2> QED
      BY <2>1, <2>2
  <1>7. Filed'
    BY <1>1, <1>3, <1>4 DEF Filed
  <1>8. \A t \in Slots : req'[t].vreq = req[t].vreq \/ req'[t].vreq = None
    BY <1>2, IdleType DEF Shift, Same
  <1>9. Alone'
    BY <1>1, <1>8, Nones DEF Alone
  <1>10. VerdictsAgree'
    <2>1. ASSUME NEW w \in Requests, NEW t \in Slots, req[t].pc = "saveVerdict",
                 req[t].vreq = w
          PROVE  req'[t].pc = "saveVerdict" /\ req'[t].vreq = w
      <3>1. t # s
        BY <1>3, <2>1
      <3> QED
        BY <1>2, <2>1, <3>1 DEF Shift, Same
    <2>2. v \notin vouched
      BY <1>1, <1>3 DEF Filed
    <2> QED
      BY <1>1, <1>4, <2>1, <2>2 DEF VerdictsAgree
  <1> QED
    BY <1>5, <1>6, <1>7, <1>9, <1>10 DEF Judged

\* The verdict of a review that was alone is on a request that was pending.
LEMMA JudgedSaveVerdict ==
    ASSUME Judged, Typed', NEW s \in Slots, SaveVerdict(s)
    PROVE  Judged'
  <1> DEFINE v == req[s].vreq
             row == [profile |-> req[s].profile, status |-> req[s].verdict]
  <1>1. /\ Typed /\ OnePending /\ VerdictsAgree /\ Alone /\ Filed /\ Coherent(req[s])
        /\ Sure(req[s])
    BY DEF Judged, Typed
  <1>2. /\ Only(s, Idle) /\ UNCHANGED <<used, vouched, torn, twins>>
        /\ vreq' = [vreq EXCEPT ![v] = row] /\ req[s].pc = "saveVerdict"
    BY <1>1, EndStep DEF SaveVerdict, history
  <1>3. v \in Requests /\ v \in used
    BY <1>1, <1>2 DEF Coherent, Sure
  <1>4. /\ vreq'[v].profile = req[s].profile /\ vreq'[v].status = req[s].verdict
        /\ \A w \in Requests \ {v} : vreq'[w] = vreq[w]
    BY <1>1, <1>2, <1>3 DEF Typed, TypeOK
  <1>5. /\ v \notin torn => /\ vreq[v].profile = req[s].profile /\ vreq[v].status = "pending"
                            /\ v \in vouched => req[s].verdict = "approved"
        /\ req[s].verdict = "approved" => v \in vouched
    BY <1>1, <1>2, <1>3 DEF Sure
  <1>6. \A w \in Requests : w \notin torn /\ vreq'[w].status = "pending"
                               => /\ vreq[w].status = "pending"
                                  /\ vreq[w].profile = vreq'[w].profile
    BY <1>4, <1>5
  <1>7. \A t \in Slots \ {s} : req[t].vreq = v => v \in torn
    BY <1>1, <1>3 DEF Alone
  <1>8. ASSUME NEW t \in Slots PROVE Sure(req[t])'
    <2>1. CASE t = s
      BY <1>2, <2>1, IdleType, Nones DEF Sure, Only
    <2>2. CASE t # s
      <3>1. req'[t] = req[t] /\ Sure(req[t])
        BY <1>2, <2>2 DEF Only, Judged
      <3> QED
        BY <1>2, <1>4, <1>6, <1>7, <2>2, <3>1 DEF Sure
    <2> QED
      BY <2>1, <2>2
  <1>9. OnePending'
    BY <1>1, <1>2, <1>6 DEF OnePending, Pending
  <1>10. Filed'
    BY <1>1, <1>2, <1>3, <1>4 DEF Filed
  <1>11. Alone'
    BY <1>1, <1>2, IdleType, Nones DEF Alone, Only
  <1>12. VerdictsAgree'
    <2>1. ASSUME NEW w \in Requests \ {v}, NEW t \in Slots, req[t].pc = "saveVerdict",
                 req[t].vreq = w
          PROVE  req'[t].pc = "saveVerdict" /\ req'[t].vreq = w
      BY <1>2, <2>1 DEF Only
    <2>2. \A w \in Requests : vreq'[w].status = "approved" => w \in vouched
      BY <1>1, <1>4, <1>5 DEF VerdictsAgree
    <2>3. ASSUME NEW w \in Requests, w \in vouched, vreq'[w].profile # None,
                 vreq'[w].status # "approved", w \notin torn
          PROVE  \E t \in Slots : req'[t].pc = "saveVerdict" /\ req'[t].vreq = w
      <3>1. w # v
        BY <1>4, <1>5, <2>3
      <3> QED
        BY <1>1, <1>4, <2>1, <2>3, <3>1 DEF VerdictsAgree
    <2> QED
      BY <1>2, <2>2, <2>3 DEF VerdictsAgree
  <1> QED
    BY <1>8, <1>9, <1>10, <1>11, <1>12 DEF Judged

LEMMA JudgedEnds ==
    ASSUME Judged, Typed', NEW s \in Slots, Assign(s) \/ Abort(s)
    PROVE  Judged'
  <1>1. Typed /\ Coherent(req[s]) /\ Only(s, Idle) /\ UNCHANGED <<vreq, vouched, used, twins>>
    BY EndStep DEF Judged, Typed, Assign, Abort, history
  <1>2. Shift(s, Idle)
    BY <1>1, OnlyShifts, IdleType DEF Typed
  <1>3. torn \subseteq torn' /\ (req[s].vreq = None \/ req[s].vreq \in torn')
    BY <1>1 DEF Assign, Abort, Coherent, history
  <1> QED
    BY <1>1, <1>2, <1>3, IdleType, JudgedShift

\* The strengthening of OnePending and VerdictsAgree that every step preserves.
LEMMA JudgedNext == Judged /\ [Next]_vars => Judged'
  <1> SUFFICES ASSUME Judged, [Next]_vars PROVE Judged'
    OBVIOUS
  <1>1. Typed'
    BY TypedNext DEF Judged
  <1>2. ASSUME UNCHANGED <<vreq, req, used, twins, vouched, torn>> PROVE Judged'
    BY <1>1, <1>2 DEF Judged, OnePending, Pending, VerdictsAgree, Alone, Filed, Sure
  <1>3. CASE UNCHANGED vars
    BY <1>2, <1>3 DEF vars, history
  <1>4. CASE \/ \E u \in Users, r \in Roles : SignUp(u, r) \/ SetUserRole(u, r)
             \/ \E u \in Users : FinishJob(u)
    BY <1>2, <1>4, TypedOutside DEF Judged
  <1>5. CASE \/ \E s \in Slots, u \in Users : HandleUser(s, u)
             \/ \E s \in Slots, p \in Profiles : HandleProfile(s, p)
             \/ \E s \in Slots, v \in Requests, verdict \in Verdicts :
                   ReviewVerificationRequest(s, v, verdict)
    BY <1>1, <1>5, JudgedBegins
  <1>6. CASE \E s \in Slots : ContinueRole(s)
    BY <1>1, <1>6, JudgedRole, JudgedRemove DEF ContinueRole
  <1>7. CASE \E s \in Slots : ContinueProfile(s)
    BY <1>1, <1>7, JudgedSave, JudgedSubmit, JudgedSaveVerdict, JudgedEnds
       DEF ContinueProfile
  <1> QED
    BY <1>3, <1>4, <1>5, <1>6, <1>7 DEF Next

LEMMA JudgedInit == Init => Judged
  <1> SUFFICES ASSUME Init PROVE Judged
    OBVIOUS
  <1>1. NoRequest.profile = None /\ NoRequest.status = "pending"
    BY DEF NoRequest
  <1>2. \A v \in Requests : vreq[v] = NoRequest
    BY DEF Init
  <1>3. OnePending
    BY <1>1, <1>2, Nones DEF OnePending, Pending
  <1>4. VerdictsAgree /\ Filed
    BY <1>1, <1>2, Nones DEF Init, VerdictsAgree, Filed
  <1>5. Alone /\ \A s \in Slots : Sure(req[s])
    BY IdleType, Nones DEF Init, Alone, Sure
  <1> QED
    BY <1>3, <1>4, <1>5, TypedInit DEF Judged

\* A profile has one pending verification request at most, unless a submission or
\* a review was overtaken.
THEOREM ProvidersOnePending == Spec => []OnePending
  <1>1. Judged => OnePending
    BY DEF Judged
  <1> QED
    BY <1>1, JudgedInit, JudgedNext, PTL DEF Spec

\* The status of a request and the flags of its profile agree, unless two reviews
\* met, one died half way or the profile was removed.
THEOREM ProvidersVerdictsAgree == Spec => []VerdictsAgree
  <1>1. Judged => VerdictsAgree
    BY DEF Judged
  <1> QED
    BY <1>1, JudgedInit, JudgedNext, PTL DEF Spec

(* ----------------------- The role and the profile ---------------------- *)

Fits(u) == /\ HasProfile(u) => role[u] \in ProviderRoles
           /\ role[u] = "service_provider" => HasProfile(u)

\* What a request that has met nobody may rely on, by how far it has come.
Stage(q) ==
    /\ q.pc \notin {"raiseAgain", "reinsert"}
    /\ q.pc \in {"checkProfile", "syncRead", "findRemoved", "countJobs", "remove"} =>
           Fits(q.user)
    /\ q.pc \in {"checkProfile", "findRemoved", "countJobs", "remove"} =>
           q.role = role[q.user]
    /\ q.pc \in {"saveUser", "findProfile"} => q.role \in ProviderRoles
    /\ q.pc = "verifyRole" => role[q.user] = "service_provider"
    /\ q.pc \in {"findProfile", "insert"} => role[q.user] \in ProviderRoles
    /\ q.pc \in {"diff", "update"} /\ q.op \in RoleOps => role[q.user] \in ProviderRoles
    /\ q.pc \in {"diff", "update", "countJobs", "remove"} =>
           q.profile \in Profiles /\ profile[q.profile].user = q.user
    /\ q.op = "syncUserRole" => HasProfile(q.user)
    /\ q.pc = "lowerRole" => ~HasProfile(q.user)
    /\ q.pc \in {"remove", "lowerRole"} => job[q.user] # "active"

\* A request about user u's role meets no other about u, and without one the role
\* fits the profile.
Orderly(u) ==
    /\ \A s, t \in Slots : AtWork(s, u) /\ AtWork(t, u) /\ s # t => req[s].op \notin RoleOps
    /\ (\A s \in Slots : AtWork(s, u) => req[s].op \notin RoleOps) => Fits(u)
    /\ \A s \in Slots : AtWork(s, u) => Stage(req[s])

Settled == Typed /\ \A u \in Users \ unsure : Orderly(u)

\* A step of a request about user u changes nothing of the other users'.
Touches(s, q, u) ==
    /\ Shift(s, q) /\ unsure \subseteq unsure'
    /\ req[s].pc = "idle" \/ req[s].user = u
    /\ q.pc = "idle" \/ q.user = u
    /\ \A w \in Users \ {u} :
          /\ role'[w] = role[w] /\ job'[w] = job[w]
          /\ \A p \in Profiles : profile'[p].user = w <=> profile[p].user = w

LEMMA StageKept ==
    ASSUME NEW q, NEW p, Same(q, p), Stage(p), role'[p.user] = role[p.user],
           job'[p.user] = job[p.user] \/ p.op \notin RoleOps, Coherent(p),
           \A r \in Profiles : profile'[r].user = p.user <=> profile[r].user = p.user
    PROVE  Stage(q)'
  <1>1. HasProfile(p.user)' <=> HasProfile(p.user)
    BY DEF HasProfile
  <1>2. p.pc \in {"remove", "lowerRole"} => p.op \in RoleOps
    BY DEF Coherent, RoleOps
  <1> QED
    BY <1>1, <1>2 DEF Stage, Same, Fits

LEMMA OrderlyFrame ==
    ASSUME Settled, NEW s \in Slots, NEW q, NEW u, NEW w \in Users \ unsure, w # u,
           Touches(s, q, u)
    PROVE  Orderly(w)'
  <1>1. Orderly(w) /\ role'[w] = role[w] /\ job'[w] = job[w]
    BY DEF Settled, Touches
  <1>2. \A p \in Profiles : profile'[p].user = w <=> profile[p].user = w
    BY DEF Touches
  <1>3. HasProfile(w)' <=> HasProfile(w)
    BY <1>2 DEF HasProfile
  <1>4. ASSUME NEW t \in Slots
        PROVE  /\ (req'[t].pc # "idle" /\ req'[t].user = w) <=> AtWork(t, w)
               /\ req'[t].pc # "idle" /\ req'[t].user = w =>
                     Same(req'[t], req[t]) /\ Coherent(req[t])
    BY <1>4 DEF Touches, Shift, Same, AtWork, Settled, Typed
  <1>5. ASSUME NEW t \in Slots, req'[t].pc # "idle", req'[t].user = w
        PROVE  Stage(req[t])'
    <2>1. Same(req'[t], req[t]) /\ Stage(req[t]) /\ req[t].user = w /\ Coherent(req[t])
      BY <1>1, <1>4, <1>5 DEF Orderly, AtWork
    <2>2. \A x, y : Same(x, y) /\ Stage(y) /\ y.user = w /\ Coherent(y) => Stage(x)'
      BY <1>1, <1>2, StageKept
    <2> QED
      BY <2>1, <2>2 DEF Stage, Fits, HasProfile
  <1>6. Fits(w) => Fits(w)'
    BY <1>1, <1>3 DEF Fits
  <1> QED
    BY <1>1, <1>3, <1>4, <1>5, <1>6 DEF Orderly, AtWork, Same

LEMMA SettledTouch ==
    ASSUME Settled, Typed', NEW s \in Slots, NEW q, NEW u, Touches(s, q, u),
           u \in Users /\ u \notin unsure' => Orderly(u)'
    PROVE  Settled'
  <1>1. ASSUME NEW w \in Users, w \notin unsure' PROVE Orderly(w)'
    <2>1. w \in Users \ unsure
      BY <1>1 DEF Touches
    <2>2. CASE w = u
      BY <1>1, <2>2
    <2>3. CASE w # u
      BY <2>1, <2>3, OrderlyFrame
    <2> QED
      BY <2>2, <2>3
  <1> QED
    BY <1>1 DEF Settled

\* What the request in slot s knows when its user's requests have not met.
LEMMA Knows ==
    ASSUME Settled, NEW s \in Slots, req[s].pc # "idle", req[s].user \notin unsure
    PROVE  /\ Coherent(req[s]) /\ req[s].user \in Users /\ AtWork(s, req[s].user)
           /\ Orderly(req[s].user) /\ Stage(req[s])
           /\ req[s].op \in RoleOps =>
                 \A t \in Slots \ {s} : ~AtWork(t, req[s].user)
           /\ req[s].op \notin RoleOps =>
                 /\ \A t \in Slots : AtWork(t, req[s].user) => req[t].op \notin RoleOps
                 /\ Fits(req[s].user)
  <1>1. Coherent(req[s]) /\ req[s].user \in Users /\ AtWork(s, req[s].user)
    BY DEF Settled, Typed, Coherent, AtWork
  <1>2. Orderly(req[s].user)
    BY <1>1 DEF Settled
  <1> QED
    BY <1>1, <1>2 DEF Orderly

\* A step of a request about the role: nobody else is at work on its user.
LEMMA SettledAlone ==
    ASSUME Settled, Typed', NEW s \in Slots, NEW q, NEW u, req[s].pc # "idle",
           u = req[s].user, req[s].op \in RoleOps, Touches(s, q, u),
           q.pc # "idle" => q.op = req[s].op,
           u \notin unsure' => /\ q.pc = "idle" => Fits(u)'
                               /\ q.pc # "idle" => Stage(q)'
    PROVE  Settled'
  <1>1. ASSUME u \in Users, u \notin unsure' PROVE Orderly(u)'
    <2>1. u \notin unsure
      BY <1>1 DEF Touches
    <2>2. \A t \in Slots \ {s} : ~(req[t].pc # "idle" /\ req[t].user = u)
      BY <2>1, Knows DEF AtWork
    <2>3. \A t \in Slots \ {s} : ~(req'[t].pc # "idle" /\ req'[t].user = u)
      BY <2>2 DEF Touches, Shift, Same
    <2>4. req'[s] = q
      BY DEF Touches, Shift
    <2>5. q.pc # "idle" => q.op \in RoleOps /\ q.user = u
      BY DEF Touches
    <2>6. Stage(req[s])' \/ q.pc = "idle"
      BY <1>1, <2>4 DEF Stage, Fits, HasProfile
    <2> QED
      BY <1>1, <2>3, <2>4, <2>5, <2>6 DEF Orderly, AtWork
  <1> QED
    BY <1>1, SettledTouch

\* A step of another request: nobody at work on its user changes the role.
LEMMA SettledShared ==
    ASSUME Settled, Typed', NEW s \in Slots, NEW q, NEW u, req[s].pc # "idle",
           u = req[s].user, req[s].op \notin RoleOps, Touches(s, q, u),
           q.pc # "idle" => q.op = req[s].op,
           u \notin unsure' => /\ role'[u] = role[u]
                               /\ \A p \in Profiles : profile'[p].user = u <=> profile[p].user = u
                               /\ q.pc # "idle" => Stage(q)'
    PROVE  Settled'
  <1>1. ASSUME u \in Users, u \notin unsure' PROVE Orderly(u)'
    <2>1. u \notin unsure
      BY <1>1 DEF Touches
    <2>2. /\ \A t \in Slots : req[t].pc # "idle" /\ req[t].user = u =>
                 req[t].op \notin RoleOps /\ Stage(req[t]) /\ Coherent(req[t])
          /\ Fits(u)
      BY <2>1, Knows DEF AtWork, Orderly, Settled, Typed
    <2>3. HasProfile(u)' <=> HasProfile(u)
      BY <1>1 DEF HasProfile
    <2>4. Fits(u)'
      BY <1>1, <2>2, <2>3 DEF Fits
    <2>5. req'[s] = q
      BY DEF Touches, Shift
    <2>6. ASSUME NEW t \in Slots, req'[t].pc # "idle", req'[t].user = u
          PROVE  req'[t].op \notin RoleOps /\ Stage(req[t])'
      <3>1. CASE t = s
        <4>1. Stage(q)' /\ q.op \notin RoleOps
          BY <1>1, <2>5, <2>6, <3>1
        <4> QED
          BY <2>5, <3>1, <4>1 DEF Stage, Fits, HasProfile
      <3>2. CASE t # s
        <4>1. /\ Same(req'[t], req[t]) /\ Stage(req[t]) /\ Coherent(req[t])
              /\ req[t].user = u /\ req[t].op \notin RoleOps
          BY <2>2, <2>6, <3>2 DEF Touches, Shift, Same
        <4>2. /\ role'[u] = role[u]
              /\ \A p \in Profiles : profile'[p].user = u <=> profile[p].user = u
          BY <1>1
        <4>3. ASSUME NEW x, NEW y, Same(x, y), Stage(y), y.user = u, Coherent(y),
                     y.op \notin RoleOps
              PROVE  Stage(x)'
          BY <4>2, <4>3, StageKept
        <4> QED
          BY <4>1, <4>3 DEF Stage, Fits, HasProfile, Same
      <3> QED
        BY <3>1, <3>2
    <2> QED
      BY <1>1, <2>4, <2>6 DEF Orderly, AtWork
  <1> QED
    BY <1>1, SettledTouch

\* A request begins: it is at its first stage, and meets nobody or is recorded.
LEMMA SettledBegin ==
    ASSUME Settled, Typed', NEW s \in Slots, NEW q \in Request, Begin(s, q), Coherent(q),
           q.pc # "idle",
           Orderly(q.user) /\ Fits(q.user) => Stage(q)
    PROVE  Settled'
  <1> DEFINE u == q.user
  <1>1. /\ Typed /\ TypeOK /\ u \in Users
    BY DEF Settled, Typed, Coherent
  <1>2. /\ Only(s, q) /\ req[s].pc = "idle" /\ unsure \subseteq unsure'
        /\ UNCHANGED <<role, profile, job>>
        /\ \A t \in Slots : AtWork(t, u) /\ {q.op, req[t].op} \cap RoleOps # {} => u \in unsure'
    BY <1>1, BeginStep
  <1> HIDE DEF u
  <1>3. Touches(s, q, u)
    BY <1>1, <1>2, OnlyShifts DEF Touches, u
  <1>4. ASSUME u \notin unsure' PROVE Orderly(u)'
    <2>1. \A t \in Slots : AtWork(t, u) => q.op \notin RoleOps /\ req[t].op \notin RoleOps
      BY <1>2, <1>4
    <2>2. Orderly(u) /\ Fits(u)
      BY <1>1, <1>2, <1>4, <2>1 DEF Settled, Orderly
    <2>3. Stage(q)
      BY <2>2 DEF u
    <2>4. \A t \in Slots \ {s} : req'[t] = req[t]
      BY <1>2 DEF Only
    <2>5. req'[s] = q
      BY <1>2 DEF Only
    <2>6. ASSUME NEW t \in Slots, req'[t].pc # "idle", req'[t].user = u
          PROVE  Stage(req[t])'
      <3>1. Stage(req'[t])
        BY <2>2, <2>3, <2>4, <2>5, <2>6 DEF Orderly, AtWork
      <3> QED
        BY <1>2, <3>1 DEF Stage, Fits, HasProfile
    <2>7. Fits(u)'
      BY <1>2, <2>2 DEF Fits, HasProfile
    <2> QED
      BY <2>1, <2>4, <2>5, <2>6, <2>7, <2>2, <1>2 DEF Orderly, AtWork
  <1> QED
    BY <1>3, <1>4, SettledTouch

LEMMA SettledBegins ==
    ASSUME Settled, Typed', NEW s \in Slots,
           \/ \E u \in Users : HandleUser(s, u)
           \/ \E p \in Profiles : HandleProfile(s, p)
           \/ \E v \in Requests, verdict \in Verdicts :
                 ReviewVerificationRequest(s, v, verdict)
    PROVE  Settled'
  <1>1. Typed
    BY DEF Settled
  <1>2. CASE \E u \in Users : HandleUser(s, u)
    <2>1. PICK u \in Users : HandleUser(s, u)
      BY <1>2
    <2>2. PICK q \in Request :
              /\ Begin(s, q) /\ Coherent(q) /\ q.user = u /\ q.pc # "idle"
              /\ \/ /\ q.op = "registerProvider" /\ q.role = role[u]
                    /\ q.pc = IF role[u] \in ProviderRoles THEN "findProfile" ELSE "raiseRole"
                 \/ /\ q.op = "registerProviderComplete" /\ q.role = role[u]
                    /\ q.pc = IF role[u] = "none" THEN "createUser" ELSE "checkProfile"
                 \/ q.op = "syncUserRole" /\ q.pc = "syncRead" /\ HasProfile(u)
                 \/ /\ q.op = "deactivateProviderProfile" /\ q.role = role[u]
                    /\ q.pc = "findRemoved"
                 \/ q.op = "giveJob" /\ q.pc = "assign"
      BY <1>1, <2>1, HandleUserBegins
    <2>3. Fits(u) => Stage(q)
      <3>1. CASE q.op = "registerProvider"
        BY <2>2, <3>1 DEF Stage, Fits
      <3>2. CASE q.op = "registerProviderComplete"
        BY <2>2, <3>2 DEF Stage, Fits
      <3>3. CASE q.op = "syncUserRole"
        BY <2>2, <3>3 DEF Stage, Fits
      <3>4. CASE q.op = "deactivateProviderProfile"
        BY <2>2, <3>4 DEF Stage, Fits
      <3>5. CASE q.op = "giveJob"
        BY <2>2, <3>5 DEF Stage, Fits
      <3> QED
        BY <2>2, <3>1, <3>2, <3>3, <3>4, <3>5
    <2> QED
      BY <2>2, <2>3, SettledBegin
  <1>3. CASE \E p \in Profiles : HandleProfile(s, p)
    <2>1. PICK p \in Profiles : HandleProfile(s, p)
      BY <1>3
    <2>2. PICK q \in Request :
             /\ Begin(s, q) /\ Coherent(q) /\ q.op \notin RoleOps
             /\ q.user = profile[p].user /\ q.profile = p
             /\ q.pc \in {"diff", "submit"}
      BY <1>1, <2>1, HandleProfileBegins
    <2>3. Stage(q)
      BY <2>2 DEF Stage, RoleOps
    <2> QED
      BY <2>2, <2>3, SettledBegin
  <1>4. CASE \E v \in Requests, verdict \in Verdicts : ReviewVerificationRequest(s, v, verdict)
    <2>1. PICK v \in Requests, verdict \in Verdicts : ReviewVerificationRequest(s, v, verdict)
      BY <1>4
    <2>2. PICK q \in Request :
             /\ Begin(s, q) /\ Coherent(q) /\ q.op = "reviewVerificationRequest"
             /\ q.pc = IF verdict = "approved" THEN "findApproved" ELSE "saveVerdict"
      BY <1>1, <2>1, ReviewBegins
    <2>3. Stage(q)
      BY <2>2 DEF Stage
    <2> QED
      BY <2>2, <2>3, SettledBegin
  <1> QED
    BY <1>2, <1>3, <1>4

\* A step that changes no profile and no job, and no role but its user's.
LEMMA TouchesOnly ==
    ASSUME Typed, NEW s \in Slots, NEW q \in Request, Only(s, q), req[s].pc # "idle",
           q.pc # "idle" => q.user = req[s].user,
           UNCHANGED <<profile, job>>, unsure \subseteq unsure',
           role' = role \/ \E r : role' = [role EXCEPT ![req[s].user] = r]
    PROVE  Touches(s, q, req[s].user)
  <1>1. Shift(s, q)
    BY OnlyShifts DEF Typed
  <1>2. \A w \in Users \ {req[s].user} : role'[w] = role[w]
    BY DEF Typed, TypeOK
  <1> QED
    BY <1>1, <1>2 DEF Touches

LEMMA SettledStep ==
    ASSUME Settled, Typed', NEW s \in Slots, NEW q \in Request, NEW u, Only(s, q),
           req[s].pc # "idle", u = req[s].user, req[s].op \in RoleOps,
           q.pc # "idle" => Kept(q, req[s]),
           UNCHANGED <<profile, job>>, unsure \subseteq unsure',
           role' = role \/ \E r : role' = [role EXCEPT ![u] = r],
           u \notin unsure' /\ Stage(req[s]) /\ u \in Users =>
               /\ q.pc = "idle" => Fits(u)'
               /\ q.pc # "idle" => Stage(q)'
    PROVE  Settled'
  <1>1. Touches(s, q, u)
    BY TouchesOnly DEF Settled, Kept
  <1>2. u \notin unsure' => Stage(req[s]) /\ u \in Users
    BY Knows
  <1> QED
    BY <1>1, <1>2, SettledAlone DEF Kept

LEMMA SettledRole ==
    ASSUME Settled, Typed', NEW s \in Slots,
           \/ SyncRead(s) \/ CreateUser(s) \/ CheckProfile(s) \/ RaiseRole(s) \/ VerifyRole(s)
           \/ RoleUpdateFails(s) \/ SaveUser(s) \/ FindProfile(s)
           \/ FindRemoved(s) \/ CountJobs(s) \/ LowerRole(s)
    PROVE  Settled'
  <1> DEFINE u == req[s].user
  <1>1. /\ UNCHANGED <<profile, job>> /\ unsure \subseteq unsure'
        /\ role' = role \/ \E r : role' = [role EXCEPT ![u] = r]
    BY DEF SyncRead, CreateUser, CheckProfile, RaiseRole, VerifyRole, RoleUpdateFails,
       SaveUser, FindProfile, FindRemoved, CountJobs, LowerRole, history
  <1>2. Typed /\ Coherent(req[s]) /\ role \in [Users -> Roles \union {"none"}]
    BY DEF Settled, Typed, TypeOK
  <1>3. req[s].pc \in {"syncRead", "createUser", "checkProfile", "raiseRole", "raiseAgain",
                       "verifyRole", "lowerRole", "saveUser", "findProfile", "findRemoved",
                       "countJobs"}
    BY DEF SyncRead, CreateUser, CheckProfile, RaiseRole, VerifyRole, RoleUpdateFails,
       SaveUser, FindProfile, FindRemoved, CountJobs, LowerRole
  <1>4. req[s].op \in RoleOps /\ req[s].pc # "idle"
    BY <1>2, <1>3 DEF Coherent, RoleOps
  <1>5. HasProfile(req[s].user) => \A x : x = req[s].user => HasProfile(x)'
    BY <1>1 DEF HasProfile
  <1>6. ASSUME NEW q \in Request, NEW x, x = req[s].user, Only(s, q),
               q.pc # "idle" => Kept(q, req[s]),
               x \notin unsure' /\ Stage(req[s]) /\ x \in Users =>
                   /\ q.pc = "idle" => Fits(x)'
                   /\ q.pc # "idle" => Stage(q)'
        PROVE  Settled'
    BY <1>1, <1>4, <1>6, SettledStep
  <1> HIDE DEF u
  <1>7. CASE SyncRead(s)
    <2>1. PICK q \in Request :
              /\ Only(s, q)
              /\ \/ q = Idle /\ role[req[s].user] = "service_provider"
                 \/ Moved(q, req[s], "raiseRole")
      BY <1>2, <1>7, SyncReadStep
    <2>2. role' = role /\ req[s].pc = "syncRead" /\ req[s].op = "syncUserRole"
      BY <1>2, <1>7 DEF SyncRead, Coherent
    <2>3. ASSUME NEW x, x = req[s].user, Stage(req[s])
          PROVE  /\ q.pc = "idle" => Fits(x)'
                 /\ q.pc # "idle" => Stage(q)'
      BY <1>1, <2>1, <2>2, <2>3, IdleType
         DEF Stage, Fits, HasProfile, Moved, Kept, ProviderRoles
    <2> QED
      BY <1>6, <2>1, <2>3, IdleType DEF Moved
  <1>8. CASE CreateUser(s)
    <2>1. PICK q \in Request :
             /\ Only(s, q) /\ Kept(q, req[s]) /\ q.pc = "findProfile"
             /\ q.role = "service_provider"
      BY <1>2, <1>8, CreateUserStep
    <2>2. /\ role' = [role EXCEPT ![req[s].user] = "service_provider"]
          /\ req[s].op = "registerProviderComplete"
      BY <1>2, <1>8 DEF CreateUser, Coherent
    <2>3. ASSUME NEW x \in Users, x = req[s].user, Stage(req[s])
          PROVE  Stage(q)'
      BY <1>1, <1>2, <2>1, <2>2, <2>3 DEF Stage, Kept, ProviderRoles
    <2> QED
      BY <1>6, <2>1, <2>3
  <1>9. CASE CheckProfile(s)
    <2>1. PICK q \in Request :
             /\ Only(s, q)
             /\ \/ q = Idle
                \/ Moved(q, req[s], IF req[s].role \in ProviderRoles
                                    THEN "saveUser" ELSE "raiseRole")
      BY <1>2, <1>9, CheckProfileStep
    <2>2. /\ role' = role /\ req[s].pc = "checkProfile"
          /\ req[s].op = "registerProviderComplete"
      BY <1>2, <1>9 DEF CheckProfile, Coherent
    <2>3. ASSUME NEW x, x = req[s].user, Stage(req[s])
          PROVE  /\ q.pc = "idle" => Fits(x)'
                 /\ q.pc # "idle" => Stage(q)'
      BY <1>1, <2>1, <2>2, <2>3, IdleType DEF Stage, Fits, HasProfile, Moved, Kept
    <2> QED
      BY <1>6, <2>1, <2>3, IdleType DEF Moved
  <1>10. CASE RaiseRole(s)
    <2>1. PICK q \in Request :
             /\ Only(s, q)
             /\ \/ q = Idle /\ req[s].op = "syncUserRole"
                \/ req[s].pc = "raiseAgain" /\ q.pc = "diff" /\ Kept(q, req[s])
                \/ req[s].pc = "raiseRole" /\ Moved(q, req[s], "verifyRole")
                \/ /\ req[s].pc = "raiseRole" /\ q.pc = "saveUser" /\ Kept(q, req[s])
                   /\ q.role = "service_provider"
      BY <1>2, <1>10, RaiseRoleStep
    <2>2. role' = [role EXCEPT ![req[s].user] = "service_provider"]
      BY <1>10 DEF RaiseRole
    <2>3. ASSUME NEW x \in Users, x = req[s].user, Stage(req[s])
          PROVE  /\ q.pc = "idle" => Fits(x)'
                 /\ q.pc # "idle" => Stage(q)'
      <3>1. role'[x] = "service_provider"
        BY <1>2, <2>2, <2>3
      <3>2. CASE q = Idle /\ req[s].op = "syncUserRole"
        BY <1>1, <2>3, <3>1, <3>2, IdleType DEF Stage, Fits, HasProfile, ProviderRoles
      <3>3. CASE req[s].pc = "raiseAgain"
        BY <2>3, <3>3 DEF Stage
      <3>4. CASE req[s].pc = "raiseRole" /\ Moved(q, req[s], "verifyRole")
        BY <1>1, <2>3, <3>1, <3>4 DEF Stage, HasProfile, Moved, Kept
      <3>5. CASE /\ req[s].pc = "raiseRole" /\ q.pc = "saveUser" /\ Kept(q, req[s])
                 /\ q.role = "service_provider"
        BY <1>1, <2>3, <3>1, <3>5 DEF Stage, HasProfile, Kept, ProviderRoles
      <3> QED
        BY <2>1, <3>2, <3>3, <3>4, <3>5
    <2> QED
      BY <1>6, <2>1, <2>3, IdleType DEF Moved
  <1>11. CASE VerifyRole(s)
    <2>1. PICK q \in Request :
             /\ Only(s, q) /\ Kept(q, req[s]) /\ q.pc = "findProfile"
             /\ role[req[s].user] \in ProviderRoles => q.role = role[req[s].user]
      BY <1>2, <1>11, VerifyRoleStep
    <2>2. role' = role /\ req[s].pc = "verifyRole"
      BY <1>11 DEF VerifyRole
    <2>3. ASSUME NEW x, x = req[s].user, Stage(req[s])
          PROVE  Stage(q)'
      BY <1>1, <2>1, <2>2, <2>3 DEF Stage, HasProfile, Kept, ProviderRoles
    <2> QED
      BY <1>6, <2>1, <2>3
  <1>12. CASE RoleUpdateFails(s)
    <2>1. PICK q \in Request : Only(s, q) /\ (q.pc # "idle" => Kept(q, req[s]))
      BY <1>2, <1>12, RoleUpdateFailsStep, IdleType DEF Moved
    <2>2. req[s].user \in unsure'
      BY <1>12 DEF RoleUpdateFails
    <2> QED
      BY <1>6, <2>1, <2>2
  <1>13. CASE SaveUser(s)
    <2>1. PICK q \in Request : Only(s, q) /\ Moved(q, req[s], "findProfile")
      BY <1>2, <1>13, SaveUserStep
    <2>2. role' = [role EXCEPT ![req[s].user] = req[s].role] /\ req[s].pc = "saveUser"
      BY <1>13 DEF SaveUser
    <2>3. ASSUME NEW x \in Users, x = req[s].user, Stage(req[s])
          PROVE  Stage(q)'
      BY <1>1, <1>2, <2>1, <2>2, <2>3 DEF Stage, HasProfile, Moved, Kept
    <2> QED
      BY <1>6, <2>1, <2>3 DEF Moved
  <1>14. CASE FindProfile(s)
    <2>1. PICK q \in Request :
             /\ Only(s, q)
             /\ \/ Moved(q, req[s], "insert")
                \/ /\ q.profile \in Profiles /\ profile[q.profile].user = req[s].user
                   /\ Kept(q, req[s])
                   /\ q.pc = IF /\ req[s].op = "registerProvider"
                                /\ req[s].role \notin ProviderRoles
                             THEN "raiseAgain" ELSE "diff"
      BY <1>2, <1>14, FindProfileStep
    <2>2. role' = role /\ req[s].pc = "findProfile"
      BY <1>14 DEF FindProfile
    <2>3. ASSUME NEW x, x = req[s].user, Stage(req[s])
          PROVE  Stage(q)'
      BY <1>1, <2>1, <2>2, <2>3 DEF Stage, HasProfile, Moved, Kept
    <2> QED
      BY <1>6, <2>1, <2>3 DEF Moved
  <1>15. CASE FindRemoved(s)
    <2>1. PICK q \in Request :
             /\ Only(s, q)
             /\ \/ q = Idle
                \/ /\ q.profile \in Profiles /\ profile[q.profile].user = req[s].user
                   /\ Kept(q, req[s]) /\ q.role = req[s].role /\ q.pc = "countJobs"
      BY <1>2, <1>15, FindRemovedStep
    <2>2. /\ role' = role /\ req[s].pc = "findRemoved"
          /\ req[s].op = "deactivateProviderProfile"
      BY <1>2, <1>15 DEF FindRemoved, Coherent
    <2>3. ASSUME NEW x, x = req[s].user, Stage(req[s])
          PROVE  /\ q.pc = "idle" => Fits(x)'
                 /\ q.pc # "idle" => Stage(q)'
      BY <1>1, <2>1, <2>2, <2>3, IdleType DEF Stage, Fits, HasProfile, Kept
    <2> QED
      BY <1>6, <2>1, <2>3, IdleType
  <1>16. CASE CountJobs(s)
    <2>1. PICK q \in Request :
             /\ Only(s, q)
             /\ \/ q = Idle
                \/ Moved(q, req[s], "remove") /\ job[req[s].user] # "active"
      BY <1>2, <1>16, CountJobsStep
    <2>2. /\ role' = role /\ req[s].pc = "countJobs"
          /\ req[s].op = "deactivateProviderProfile"
      BY <1>2, <1>16 DEF CountJobs, Coherent
    <2>3. ASSUME NEW x, x = req[s].user, Stage(req[s])
          PROVE  /\ q.pc = "idle" => Fits(x)'
                 /\ q.pc # "idle" => Stage(q)'
      BY <1>1, <2>1, <2>2, <2>3, IdleType DEF Stage, Fits, HasProfile, Moved, Kept
    <2> QED
      BY <1>6, <2>1, <2>3, IdleType DEF Moved
  <1>17. CASE LowerRole(s)
    <2>1. Only(s, Idle)
      BY <1>2, <1>17, EndStep DEF LowerRole
    <2>2. role' = [role EXCEPT ![req[s].user] = "lister"] /\ req[s].pc = "lowerRole"
      BY <1>17 DEF LowerRole
    <2>3. ASSUME NEW x \in Users, x = req[s].user, Stage(req[s])
          PROVE  Fits(x)'
      BY <1>1, <1>2, <2>2, <2>3 DEF Stage, Fits, HasProfile
    <2> QED
      BY <1>6, <2>1, <2>3, IdleType
  <1> QED
    BY <1>7, <1>8, <1>9, <1>10, <1>11, <1>12, <1>13, <1>14, <1>15, <1>16, <1>17

\* A step outside of the requests: a user keeps the role and is given no job.
LEMMA OrderlySame ==
    ASSUME NEW w, Orderly(w), UNCHANGED <<profile, req>>, role'[w] = role[w],
           job'[w] = "active" => job[w] = "active"
    PROVE  Orderly(w)'
  <1>1. HasProfile(w)' <=> HasProfile(w)
    BY DEF HasProfile
  <1>2. Fits(w)' <=> Fits(w)
    BY <1>1 DEF Fits
  <1>3. ASSUME NEW t \in Slots, AtWork(t, w) PROVE Stage(req[t])'
    <2>1. Stage(req[t]) /\ req[t].user = w
      BY <1>3 DEF Orderly, AtWork
    <2> QED
      BY <1>1, <1>2, <2>1 DEF Stage
  <1> QED
    BY <1>1, <1>2, <1>3 DEF Orderly, AtWork

LEMMA SettledOutside ==
    ASSUME Settled, Typed', \/ \E u \in Users, r \in Roles : SignUp(u, r) \/ SetUserRole(u, r)
                            \/ \E u \in Users : FinishJob(u)
    PROVE  Settled'
  <1>1. UNCHANGED <<profile, req>> /\ unsure \subseteq unsure'
    BY TypedOutside DEF Settled
  <1>2. role \in [Users -> Roles \union {"none"}] /\ job \in [Users -> JobStates]
    BY DEF Settled, Typed, TypeOK
  <1>3. ASSUME NEW w \in Users, w \notin unsure' PROVE Orderly(w)'
    <2>1. Orderly(w)
      BY <1>1, <1>3 DEF Settled
    <2>2. CASE \E u \in Users : FinishJob(u)
      <3>1. role'[w] = role[w] /\ (job'[w] = "active" => job[w] = "active")
        BY <1>2, <2>2 DEF FinishJob
      <3> QED
        BY <1>1, <2>1, <3>1, OrderlySame
    <2>3. CASE \E u \in Users, r \in Roles : SetUserRole(u, r)
      <3>1. role'[w] = role[w] /\ (job'[w] = "active" => job[w] = "active")
        BY <1>2, <1>3, <2>3 DEF SetUserRole
      <3> QED
        BY <1>1, <2>1, <3>1, OrderlySame
    <2>4. CASE \E u \in Users, r \in Roles : SignUp(u, r)
      <3>1. PICK u \in Users, r \in Roles : SignUp(u, r)
        BY <2>4
      <3>2. role' = [role EXCEPT ![u] = r] /\ job' = job /\ role[u] = "none"
        BY <3>1 DEF SignUp
      <3>3. CASE w # u
        BY <1>1, <1>2, <2>1, <3>2, <3>3, OrderlySame
      <3>4. CASE w = u
        <4>1. r # "service_provider" /\ \A t \in Slots : ~AtWork(t, u)
          BY <1>3, <3>1, <3>4 DEF SignUp
        <4>2. ~HasProfile(u)
          BY <2>1, <3>2, <3>4, <4>1 DEF Orderly, Fits, ProviderRoles
        <4>3. ~HasProfile(u)' /\ role'[u] # "service_provider"
          BY <1>1, <1>2, <3>2, <4>1, <4>2 DEF HasProfile
        <4>4. \A t \in Slots : ~AtWork(t, u)'
          BY <1>1, <4>1 DEF AtWork
        <4>5. Orderly(u)'
          BY <4>3, <4>4 DEF Orderly, Fits
        <4> QED
          BY <3>4, <4>5
      <3> QED
        BY <3>3, <3>4
    <2> QED
      BY <2>2, <2>3, <2>4
  <1> QED
    BY <1>3 DEF Settled

\* A new profile is its user's, whose role is a provider's by then.
LEMMA SettledInsert ==
    ASSUME Settled, Typed', NEW s \in Slots, NEW p \in Profiles, Insert(s, p)
    PROVE  Settled'
  <1>1. /\ req[s].pc = "insert" /\ req[s].op \in RoleOps /\ req[s].user \in Users
        /\ p \notin used /\ Only(s, Idle)
    BY EndStep DEF Insert, Settled, Typed, Coherent, RoleOps
  <1>2. UNCHANGED <<role, job, unsure>>
    BY DEF Insert
  <1>3. profile' = [profile EXCEPT ![p] = [NoRow EXCEPT !.user = req[s].user]]
    BY DEF Insert
  <1>4. profile'[p].user = req[s].user /\ \A r \in Profiles \ {p} : profile'[r] = profile[r]
    BY <1>1, <1>3, OwnedRow DEF Settled, Typed, TypeOK
  <1>5. profile[p].user = None
    BY <1>1 DEF Settled, Typed, Tables, Stored
  <1>6. ASSUME NEW w \in Users \ {req[s].user}, NEW r \in Profiles
        PROVE  profile'[r].user = w <=> profile[r].user = w
    BY <1>4, <1>5, <1>6, Nones
  <1>7. Shift(s, Idle)
    BY <1>1, OnlyShifts, IdleType DEF Settled, Typed
  <1>8. ASSUME NEW u, u = req[s].user, u \notin unsure'
        PROVE  Fits(u)'
    <2>1. Stage(req[s])
      BY <1>1, <1>2, <1>8, Knows
    <2>2. role'[u] \in ProviderRoles
      BY <1>1, <1>2, <1>8, <2>1 DEF Stage
    <2>3. HasProfile(u)'
      BY <1>4, <1>8 DEF HasProfile
    <2> QED
      BY <2>2, <2>3 DEF Fits
  <1>9. Touches(s, Idle, req[s].user)
    BY <1>2, <1>6, <1>7, IdleType DEF Touches
  <1> QED
    BY <1>1, <1>8, <1>9, IdleType, SettledAlone

\* A profile removed was its user's only one, and no job is under way.
LEMMA SettledRemove ==
    ASSUME Settled, Typed', NEW s \in Slots, Remove(s)
    PROVE  Settled'
  <1>1. PICK q \in Request :
           /\ Shift(s, q)
           /\ \/ q = Idle /\ req[s].role # "service_provider"
              \/ Moved(q, req[s], "lowerRole")
    BY RemoveStep DEF Settled
  <1>2. /\ req[s].pc = "remove" /\ req[s].op = "deactivateProviderProfile"
        /\ req[s].user \in Users /\ req[s].profile \in Profiles
    BY DEF Remove, Settled, Typed, Coherent
  <1>3. UNCHANGED <<role, job, unsure>>
    BY DEF Remove
  <1>4. profile[req[s].profile].user \in {None, req[s].user}
    BY <1>2 DEF Settled, Typed, Tables, Linked, Stored
  <1>5. /\ profile'[req[s].profile].user = None
        /\ \A r \in Profiles \ {req[s].profile} : profile'[r] = profile[r]
    BY RemoveEffect, NoRowType DEF Settled
  <1>6. ASSUME NEW w \in Users \ {req[s].user}, NEW r \in Profiles
        PROVE  profile'[r].user = w <=> profile[r].user = w
    BY <1>4, <1>5, <1>6, Nones
  <1>7. q.pc # "idle" => q.user = req[s].user /\ q.op = req[s].op
    BY <1>1, IdleType DEF Moved, Kept
  <1>8. Touches(s, q, req[s].user)
    BY <1>1, <1>3, <1>6, <1>7 DEF Touches
  <1>9. ASSUME NEW u, u = req[s].user, u \notin unsure'
        PROVE  /\ q.pc = "idle" => Fits(u)'
               /\ q.pc # "idle" => Stage(q)'
    <2>1. Stage(req[s]) /\ u \in Users
      BY <1>2, <1>3, <1>9, Knows
    <2>2. /\ profile[req[s].profile].user = u /\ job[u] # "active" /\ req[s].role = role[u]
      BY <1>2, <1>9, <2>1 DEF Stage
    <2>3. \A r \in Profiles : profile[r].user = u => r = req[s].profile
      BY <1>2, <2>1, <2>2, Nones DEF Settled, Typed, Tables, Stored
    <2>4. \A r \in Profiles : profile'[r].user # u
      BY <1>2, <1>5, <2>1, <2>3, Nones
    <2>5. ~HasProfile(u)'
      BY <2>4 DEF HasProfile
    <2>6. job'[u] # "active" /\ role'[u] = role[u]
      BY <1>3, <2>2
    <2>7. q.pc = "idle" => role[u] # "service_provider"
      BY <1>1, <2>2 DEF Moved
    <2>8. q.pc = "idle" => Fits(u)'
      BY <2>5, <2>6, <2>7 DEF Fits
    <2>9. ASSUME q.pc # "idle" PROVE Stage(q)'
      <3>1. q.pc = "lowerRole" /\ q.user = u /\ q.op = "deactivateProviderProfile"
        BY <1>1, <1>2, <1>9, <2>9, IdleType DEF Moved, Kept
      <3> QED
        BY <2>5, <2>6, <3>1 DEF Stage
    <2> QED
      BY <2>8, <2>9
  <1> QED
    BY <1>2, <1>7, <1>8, <1>9, SettledAlone DEF RoleOps

\* The reload before a save: the profile is still there.
LEMMA SettledDiff ==
    ASSUME Settled, Typed', NEW s \in Slots, Diff(s)
    PROVE  Settled'
  <1>1. /\ req[s] \in Request /\ Coherent(req[s]) /\ req[s].pc = "diff"
    BY DiffStep DEF Settled
  <1>2. PICK q \in Request :
           /\ Only(s, q)
           /\ \/ ~Stored(req[s].profile) /\ Moved(q, req[s], "reinsert")
              \/ q = Follow(req[s])
              \/ Moved(q, req[s], "update")
    BY DiffStep DEF Settled
  <1>3. UNCHANGED <<role, profile, job, unsure>>
    BY DEF Diff
  <1>4. /\ Follow(req[s]).pc = "idle" \/ /\ Follow(req[s]).pc = "saveVerdict"
                                         /\ Follow(req[s]).user = req[s].user
                                         /\ Follow(req[s]).op = req[s].op
                                         /\ req[s].op \notin RoleOps
    BY <1>1, FollowType DEF Saves, RoleOps
  <1>5. q.pc # "idle" => q.user = req[s].user /\ q.op = req[s].op
    BY <1>2, <1>4 DEF Moved, Kept
  <1>6. Touches(s, q, req[s].user)
    BY <1>1, <1>2, <1>3, <1>5, TouchesOnly DEF Settled
  <1>7. ASSUME NEW u, u = req[s].user, u \notin unsure'
        PROVE  /\ q.pc = "idle" /\ req[s].op \in RoleOps => Fits(u)'
               /\ q.pc # "idle" => Stage(q)'
    <2>1. Stage(req[s]) /\ u \in Users
      BY <1>1, <1>3, <1>7, Knows
    <2>2. /\ req[s].profile \in Profiles /\ profile[req[s].profile].user = u
          /\ req[s].op \in RoleOps => role[u] \in ProviderRoles
      BY <1>1, <1>7, <2>1 DEF Stage
    <2>3. Stored(req[s].profile) /\ HasProfile(u)
      BY <2>1, <2>2, Nones DEF Stored, HasProfile
    <2>4. HasProfile(u)' /\ role'[u] = role[u]
      BY <1>3, <2>3 DEF HasProfile
    <2>5. req[s].op \in RoleOps => Fits(u)'
      BY <2>2, <2>4 DEF Fits
    <2>6. ASSUME q.pc # "idle" PROVE Stage(q)'
      <3>1. CASE Moved(q, req[s], "update")
        <4>1. /\ q.pc = "update" /\ q.user = u /\ q.op = req[s].op
              /\ q.profile = req[s].profile
          BY <1>7, <3>1 DEF Moved, Kept
        <4>2. req[s].op = "syncUserRole" => FALSE
          BY <1>1 DEF Coherent, Saves, Saving, Decisions
        <4>3. profile'[q.profile].user = u /\ q.profile \in Profiles
          BY <1>3, <2>2, <4>1
        <4> QED
          BY <2>2, <2>4, <4>1, <4>2, <4>3 DEF Stage
      <3>2. CASE q = Follow(req[s])
        <4>1. q.pc = "saveVerdict" /\ q.op \notin RoleOps
          BY <1>4, <2>6, <3>2
        <4> QED
          BY <4>1 DEF Stage, RoleOps
      <3> QED
        BY <1>2, <2>3, <3>1, <3>2
    <2> QED
      BY <2>5, <2>6
  <1>8. CASE req[s].op \in RoleOps
    BY <1>1, <1>5, <1>6, <1>7, <1>8, SettledAlone
  <1>9. CASE req[s].op \notin RoleOps
    BY <1>1, <1>3, <1>5, <1>6, <1>7, <1>9, SettledShared
  <1> QED
    BY <1>8, <1>9

\* An update leaves every profile its owner.
LEMMA SettledUpdate ==
    ASSUME Settled, Typed', NEW s \in Slots, Update(s)
    PROVE  Settled'
  <1>1. /\ req[s] \in Request /\ Coherent(req[s]) /\ req[s].pc = "update"
        /\ Shift(s, Follow(req[s]))
    BY WriteStep DEF Settled, Update
  <1>2. UNCHANGED <<role, job, unsure>>
    BY DEF Update
  <1>3. \A r \in Profiles : profile'[r].user = profile[r].user
    BY UpdateEffect DEF Settled
  <1>4. \/ Follow(req[s]).pc = "idle"
        \/ /\ Follow(req[s]).pc = "saveVerdict" /\ Follow(req[s]).user = req[s].user
           /\ Follow(req[s]).op = req[s].op /\ req[s].op \notin RoleOps
    BY <1>1, FollowType DEF Saves, RoleOps
  <1>5. PICK q : /\ Shift(s, q)
                 /\ \/ q.pc = "idle"
                    \/ /\ q.pc = "saveVerdict" /\ q.user = req[s].user
                       /\ q.op = req[s].op /\ req[s].op \notin RoleOps
    BY <1>1, <1>4
  <1>6. Touches(s, q, req[s].user)
    BY <1>1, <1>2, <1>3, <1>5 DEF Touches
  <1>7. ASSUME NEW u, u = req[s].user, u \notin unsure'
        PROVE  /\ req[s].op \in RoleOps => Fits(u)'
               /\ q.pc # "idle" => Stage(q)'
    <2>1. Stage(req[s]) /\ u \in Users
      BY <1>1, <1>2, <1>7, Knows
    <2>2. /\ HasProfile(u)
          /\ req[s].op \in RoleOps => role[u] \in ProviderRoles
      BY <1>1, <1>7, <2>1 DEF Stage, HasProfile
    <2>3. HasProfile(u)' /\ role'[u] = role[u]
      BY <1>2, <1>3, <2>2 DEF HasProfile
    <2>4. q.pc # "idle" => Stage(q)'
      BY <1>5 DEF Stage, RoleOps
    <2> QED
      BY <2>2, <2>3, <2>4 DEF Fits
  <1>8. CASE req[s].op \in RoleOps
    BY <1>1, <1>5, <1>6, <1>7, <1>8, SettledAlone
  <1>9. CASE req[s].op \notin RoleOps
    BY <1>1, <1>2, <1>3, <1>5, <1>6, <1>7, <1>9, SettledShared
  <1> QED
    BY <1>8, <1>9

\* Only a user whose requests have met has a profile inserted again.
LEMMA SettledReinsert ==
    ASSUME Settled, Typed', NEW s \in Slots, Reinsert(s)
    PROVE  Settled'
  <1>1. /\ req[s] \in Request /\ Coherent(req[s]) /\ req[s].pc = "reinsert"
        /\ Shift(s, Follow(req[s]))
    BY WriteStep DEF Settled, Reinsert
  <1>2. UNCHANGED <<role, job, unsure>>
    BY DEF Reinsert
  <1>3. /\ req[s].profile \in Profiles /\ profile'[req[s].profile].user = req[s].user
        /\ \A r \in Profiles \ {req[s].profile} : profile'[r] = profile[r]
    BY ReinsertEffect DEF Settled
  <1>4. profile[req[s].profile].user = None
    BY DEF Reinsert, Stored
  <1>5. ASSUME NEW w \in Users \ {req[s].user}, NEW r \in Profiles
        PROVE  profile'[r].user = w <=> profile[r].user = w
    BY <1>3, <1>4, <1>5, Nones
  <1> DEFINE q == Follow(req[s])
  <1>6. q.pc = "idle" \/ q.user = req[s].user
    BY <1>1, FollowType DEF Saves
  <1>7. Shift(s, q)
    BY <1>1
  <1> HIDE DEF q
  <1>8. Touches(s, q, req[s].user)
    BY <1>2, <1>5, <1>6, <1>7 DEF Touches
  <1>9. req[s].user \in unsure
    BY <1>1, Knows DEF Stage
  <1> QED
    BY <1>2, <1>8, <1>9, SettledTouch

\* The steps about verification requests.
LEMMA SettledOthers ==
    ASSUME Settled, Typed', NEW s \in Slots,
           \/ \E v \in Requests : Submit(s, v)
           \/ FindApproved(s) \/ SaveVerdict(s)
    PROVE  Settled'
  <1>1. UNCHANGED <<role, profile, job, unsure>>
    BY DEF Submit, FindApproved, SaveVerdict, history
  <1>2. /\ Coherent(req[s]) /\ req[s].pc \in {"submit", "findApproved", "saveVerdict"}
        /\ req[s].op \notin RoleOps
    BY DEF Submit, FindApproved, SaveVerdict, Settled, Typed, Coherent, RoleOps
  <1>3. ASSUME NEW q \in Request, Shift(s, q),
               q.pc # "idle" => q.user = req[s].user /\ q.op = req[s].op,
               req[s].user \in Users /\ req[s].user \notin unsure' /\ q.pc # "idle" => Stage(q)
        PROVE  Settled'
    <2>1. Touches(s, q, req[s].user)
      BY <1>1, <1>3 DEF Touches
    <2>2. ASSUME NEW u, u = req[s].user, u \notin unsure'
          PROVE  q.pc # "idle" => Stage(q)'
      <3>1. u \in Users
        BY <1>1, <1>2, <2>2, Knows
      <3> QED
        BY <1>1, <1>3, <2>2, <3>1 DEF Stage, Fits, HasProfile
    <2> QED
      BY <1>1, <1>2, <1>3, <2>1, <2>2, SettledShared
  <1>4. CASE \E v \in Requests : Submit(s, v)
    BY <1>3, <1>4, SubmitStep, IdleType DEF Settled
  <1>5. CASE SaveVerdict(s)
    <2>1. Only(s, Idle)
      BY <1>5, EndStep DEF SaveVerdict, Settled
    <2> QED
      BY <1>3, <2>1, OnlyShifts, IdleType DEF Settled, Typed
  <1>6. CASE FindApproved(s)
    <2>1. PICK q \in Request :
             /\ Only(s, q) /\ Kept(q, req[s]) /\ q.pc = "diff" /\ q.profile = req[s].profile
             /\ req[s].profile \in Profiles /\ Stored(req[s].profile)
             /\ req[s].op = "reviewVerificationRequest"
      BY <1>6, FindApprovedStep DEF Settled
    <2>2. profile[req[s].profile].user = req[s].user
      BY <2>1 DEF Settled, Typed, Tables, Linked
    <2>3. Stage(q)
      BY <2>1, <2>2 DEF Stage, Kept, RoleOps
    <2> QED
      BY <1>3, <2>1, <2>3, OnlyShifts DEF Settled, Typed, Kept
  <1> QED
    BY <1>4, <1>5, <1>6

LEMMA SettledAssign ==
    ASSUME Settled, Typed', NEW s \in Slots, Assign(s)
    PROVE  Settled'
  <1>1. /\ req[s].pc = "assign" /\ req[s].op \notin RoleOps /\ Only(s, Idle)
        /\ UNCHANGED <<role, profile, unsure>>
        /\ job' = [job EXCEPT ![req[s].user] = "active"]
    BY EndStep DEF Assign, Settled, Typed, Coherent, RoleOps, history
  <1>2. \A w \in Users \ {req[s].user} : job'[w] = job[w]
    BY <1>1 DEF Settled, Typed, TypeOK
  <1>3. Shift(s, Idle)
    BY <1>1, OnlyShifts, IdleType DEF Settled, Typed
  <1>4. Touches(s, Idle, req[s].user)
    BY <1>1, <1>2, <1>3, IdleType DEF Touches
  <1> QED
    BY <1>1, <1>4, IdleType, SettledShared

LEMMA SettledAbort ==
    ASSUME Settled, Typed', NEW s \in Slots, Abort(s)
    PROVE  Settled'
  <1>1. /\ req[s].pc # "idle" /\ Only(s, Idle) /\ UNCHANGED <<role, profile, job>>
        /\ unsure \subseteq unsure' /\ (req[s].op \in RoleOps => req[s].user \in unsure')
    BY EndStep DEF Abort, Settled
  <1>2. Shift(s, Idle)
    BY <1>1, OnlyShifts, IdleType DEF Settled, Typed
  <1>3. Touches(s, Idle, req[s].user)
    BY <1>1, <1>2, IdleType DEF Touches
  <1>4. CASE req[s].op \in RoleOps
    BY <1>1, <1>3, <1>4, SettledTouch
  <1>5. CASE req[s].op \notin RoleOps
    BY <1>1, <1>3, <1>5, IdleType, SettledShared
  <1> QED
    BY <1>4, <1>5

LEMMA SettledNext == Settled /\ [Next]_vars => Settled'
  <1> SUFFICES ASSUME Settled, [Next]_vars PROVE Settled'
    OBVIOUS
  <1>1. Typed'
    BY TypedNext DEF Settled
  <1>2. CASE UNCHANGED vars
    BY <1>1, <1>2 DEF Settled, Orderly, AtWork, Stage, Fits, HasProfile, vars, history
  <1>3. CASE \/ \E u \in Users, r \in Roles : SignUp(u, r) \/ SetUserRole(u, r)
             \/ \E u \in Users : FinishJob(u)
    BY <1>1, <1>3, SettledOutside
  <1>4. CASE \/ \E s \in Slots, u \in Users : HandleUser(s, u)
             \/ \E s \in Slots, p \in Profiles : HandleProfile(s, p)
             \/ \E s \in Slots, v \in Requests, verdict \in Verdicts :
                   ReviewVerificationRequest(s, v, verdict)
    BY <1>1, <1>4, SettledBegins
  <1>5. CASE \E s \in Slots : ContinueRole(s)
    BY <1>1, <1>5, SettledRole, SettledInsert, SettledRemove DEF ContinueRole
  <1>6. CASE \E s \in Slots : ContinueProfile(s)
    BY <1>1, <1>6, SettledDiff, SettledUpdate, SettledReinsert, SettledOthers,
       SettledAssign,
       SettledAbort DEF ContinueProfile
  <1> QED
    BY <1>2, <1>3, <1>4, <1>5, <1>6 DEF Next

LEMMA SettledInit == Init => Settled
  <1> SUFFICES ASSUME Init PROVE Settled
    OBVIOUS
  <1>1. \A s \in Slots, u \in Users : ~AtWork(s, u)
    BY IdleType DEF Init, AtWork
  <1>2. \A u \in Users : ~HasProfile(u) /\ role[u] # "service_provider"
    BY NoRowType, Nones DEF Init, HasProfile
  <1> QED
    BY <1>1, <1>2, TypedInit DEF Settled, Orderly, Fits

\* While no request about a user's role is at work and none has met another or
\* failed, the role fits the profile: RoleFitsProfile for any number of users,
\* profiles and requests in process, whatever jobs the users are given.
THEOREM ProvidersRoleFitsProfile == Spec => []RoleFitsProfile
  <1>1. Settled => RoleFitsProfile
    BY DEF Settled, Orderly, RoleFitsProfile, Fits
  <1> QED
    BY <1>1, SettledInit, SettledNext, PTL DEF Spec

\* A step but the removal of a profile takes it from none of its users.
LEMMA ProfileStays ==
    ASSUME Typed, [Next]_vars, \A s \in Slots : ~Remove(s), NEW u \in Users, HasProfile(u)
    PROVE  HasProfile(u)'
  <1>1. PICK p \in Profiles : profile[p].user = u
    BY DEF HasProfile
  <1>2. Stored(p) /\ p \in used
    BY <1>1, Nones DEF Stored, Typed, Tables
  <1>3. SUFFICES profile'[p].user = u
    BY DEF HasProfile
  <1>4. CASE UNCHANGED profile
    BY <1>1, <1>4
  <1>5. CASE \E s \in Slots, r \in Profiles : Insert(s, r)
    BY <1>1, <1>2, <1>5 DEF Insert, Typed, TypeOK
  <1>6. CASE \E s \in Slots : Update(s)
    BY <1>1, <1>6, UpdateEffect
  <1>7. CASE \E s \in Slots : Reinsert(s)
    <2>1. PICK s \in Slots : Reinsert(s)
      BY <1>7
    <2>2. p # req[s].profile
      BY <1>2, <2>1 DEF Reinsert
    <2> QED
      BY <1>1, <2>1, <2>2, ReinsertEffect
  <1>8. CASE \/ \E v \in Users, r \in Roles : SignUp(v, r) \/ SetUserRole(v, r)
             \/ \E v \in Users : FinishJob(v)
    BY <1>4, <1>8, TypedOutside
  <1>9. CASE \/ \E s \in Slots, v \in Users : HandleUser(s, v)
             \/ \E s \in Slots, r \in Profiles : HandleProfile(s, r)
             \/ \E s \in Slots, v \in Requests, verdict \in Verdicts :
                   ReviewVerificationRequest(s, v, verdict)
    <2>1. PICK s \in Slots, q \in Request : Begin(s, q)
      BY <1>9, HandleUserBegins, HandleProfileBegins, ReviewBegins
    <2> QED
      BY <1>4, <2>1 DEF Begin
  <1>10. CASE \E s \in Slots : ContinueRole(s)
    BY <1>4, <1>5, <1>10 DEF ContinueRole, SyncRead, CreateUser, CheckProfile, RaiseRole,
       VerifyRole, RoleUpdateFails, SaveUser, FindProfile, FindRemoved, CountJobs, LowerRole
  <1>11. CASE \E s \in Slots : ContinueProfile(s)
    BY <1>4, <1>6, <1>7, <1>11 DEF ContinueProfile, Diff, Submit, FindApproved, SaveVerdict,
       Assign, Abort
  <1>12. CASE UNCHANGED vars
    BY <1>4, <1>12 DEF vars
  <1> QED
    BY <1>8, <1>9, <1>10, <1>11, <1>12 DEF Next

\* The removal takes the profile of a user of whom no active job was found.
LEMMA RemoveSpares ==
    ASSUME Settled, NEW s \in Slots, Remove(s), NEW u \in Users \ unsure,
           job[u] = "active", HasProfile(u)
    PROVE  HasProfile(u)'
  <1>1. /\ req[s].pc = "remove" /\ req[s].user \in Users /\ req[s].profile \in Profiles
    BY DEF Remove, Settled, Typed, Coherent
  <1>2. u # req[s].user
    BY <1>1, Knows DEF Stage
  <1>3. profile[req[s].profile].user \in {None, req[s].user}
    BY <1>1 DEF Settled, Typed, Tables, Linked, Stored
  <1>4. PICK p \in Profiles : profile[p].user = u
    BY DEF HasProfile
  <1>5. p # req[s].profile
    BY <1>2, <1>3, <1>4, Nones
  <1>6. profile'[p] = profile[p]
    BY <1>5, RemoveEffect DEF Settled
  <1> QED
    BY <1>4, <1>6 DEF HasProfile

\* JobKeepsProfile for any number of users, profiles and requests in process: while
\* a user none of whose requests have met has an active job, the profile stays.
THEOREM ProvidersJobKeepsProfile == Spec => JobKeepsProfile
  <1> DEFINE Keeps == \A u \in Users \ unsure' :
                         job[u] = "active" /\ HasProfile(u) => HasProfile(u)'
  <1>1. ASSUME Settled, [Next]_vars PROVE Keeps
    <2>1. Typed
      BY <1>1 DEF Settled
    <2>2. CASE \E s \in Slots : Remove(s)
      <3>1. PICK s \in Slots : Remove(s)
        BY <2>2
      <3>2. unsure' = unsure
        BY <3>1 DEF Remove
      <3> QED
        BY <1>1, <3>1, <3>2, RemoveSpares
    <2>3. CASE \A s \in Slots : ~Remove(s)
      BY <1>1, <2>1, <2>3, ProfileStays
    <2> QED
      BY <2>2, <2>3
  <1>2. Settled /\ [Next]_vars => [Keeps]_vars
    BY <1>1
  <1> HIDE DEF Keeps
  <1>3. Spec => [][Keeps]_vars
    BY <1>2, SettledInit, SettledNext, PTL DEF Spec
  <1> QED
    BY <1>3 DEF JobKeepsProfile, Keeps
=============================================================================
