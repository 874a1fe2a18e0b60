------------------------------ MODULE Providers ------------------------------
(***************************************************************************)
(* Service providers: the role in the user's row, the profile in providers *)
(* and the verification requests, as the handlers of ProvidersService      *)
(* change them, cut at their awaits, with the jobs given to a provider     *)
(* (which deactivating the profile asks about) beside them.                *)
(*                                                                         *)
(* Role and profile are two rows written one after the other, and a failed *)
(* update of the role is only logged.  A profile is saved the way Jobs     *)
(* tells: read, changed in memory, read again, updated where it differs,   *)
(* inserted again when it is gone.  A verification request is decided in   *)
(* two writes, the profile's flags first.                                  *)
(***************************************************************************)
EXTENDS Naturals, FiniteSets

CONSTANTS
    Users,          \* e-mail addresses that may have an account
    Profiles,       \* primary keys the providers table may give out
    Certs,          \* certifications that may be uploaded
    Requests,       \* primary keys of provider_verification_requests
    Slots,          \* requests the server handles at the same time
    None,           \* SQL NULL
    MaxRequests     \* bound: requests begun

ASSUME ProvidersAssumption ==
    /\ None \notin Users
    /\ None \notin Profiles
    /\ None \notin Requests

VARIABLES
    role,       \* role[u]: the role in the user's row, "none" without an account
    profile,    \* profile[p]: the row, NoRow when there is none
    vreq,       \* vreq[v]: the verification request, NoRequest when there is none
    job,        \* job[u]: "active" while u has a job that is not over, "over" when
                \* all that u had are
    req,        \* req[s]: the request in slot s
    (* history, never read by the code *)
    begun,      \* requests begun so far, at most MaxRequests
    used,       \* primary keys given out
    promised,   \* promised[p]: what the saves of p asked for, one after another
    outdated,   \* profiles saved from an object that was out of date
    twins,      \* profiles with a request submitted while another was
    vouched,    \* verification requests whose approval has verified the profile
    torn,       \* ... reviewed twice at a time, or whose review died half way, or
                \* whose profile was removed during the review
    unsure      \* users two of whose requests met, or one of whose updates of
                \* the role failed, or whose role somebody chose

history == <<begun, used, promised, outdated, twins, vouched, torn, unsure>>
vars == <<role, profile, vreq, job, req, history>>

\* The roles buyer and renter are treated as a lister's.
Roles == {"lister", "property_manager", "service_provider", "admin"}
JobStates == {"none", "active", "over"}
ProviderRoles == {"service_provider", "admin"}

Columns == {"user", "verified", "kyc", "certs"}
Row == [user : Users \union {None}, verified : BOOLEAN, kyc : BOOLEAN, certs : SUBSET Certs]
NoRow == [user |-> None, verified |-> FALSE, kyc |-> FALSE, certs |-> {}]

Stored(p) == profile[p].user # None
HasProfile(u) == \E p \in Profiles : profile[p].user = u

Verdicts == {"pending", "approved", "rejected"}
VerificationRequest == [profile : Profiles \union {None}, status : Verdicts]
NoRequest == [profile |-> None, status |-> "pending"]

Pending(p) == {v \in Requests : vreq[v].profile = p /\ vreq[v].status = "pending"}

\* The operations that change the role or whether there is a profile.
RoleOps == {"registerProvider", "registerProviderComplete", "syncUserRole",
            "deactivateProviderProfile"}
Decisions == {"verifyProvider", "rejectProvider", "suspendProvider", "banProvider"}
Operations == RoleOps \union Decisions \union
              {"updateProviderProfile", "addCertification", "createVerificationRequest",
               "reviewVerificationRequest", "giveJob"}

\* A request holds the role it has seen (and saves with the user), the profile
\* it is about and the object it saves, then (cols) the columns save is about to
\* update, and the verification request with the verdict on it.  stale is
\* history: somebody has changed what the request has read.
Request == [pc : {"idle", "createUser", "checkProfile", "raiseRole", "verifyRole", "saveUser",
                  "findProfile", "raiseAgain", "insert", "diff", "update", "reinsert",
                  "syncRead", "findRemoved", "countJobs", "remove", "lowerRole", "submit",
                  "findApproved", "saveVerdict", "assign"},
            op : Operations \union {"none"}, user : Users \union {None},
            role : Roles \union {"none"}, profile : Profiles \union {None}, row : Row,
            cols : SUBSET Columns, vreq : Requests \union {None},
            verdict : Verdicts, stale : BOOLEAN]
Idle == [pc |-> "idle", op |-> "none", user |-> None, role |-> "none", profile |-> None,
         row |-> NoRow, cols |-> {}, vreq |-> None, verdict |-> "rejected", stale |-> FALSE]

Init ==
    /\ role \in [Users -> {"none"} \union (Roles \ {"service_provider"})]
    /\ profile = [p \in Profiles |-> NoRow]
    /\ vreq = [v \in Requests |-> NoRequest]
    /\ job = [u \in Users |-> "none"]
    /\ req = [s \in Slots |-> Idle]
    /\ begun = 0
    /\ used = {}
    /\ promised = [p \in Profiles |-> NoRow]
    /\ outdated = {}
    /\ twins = {}
    /\ vouched = {}
    /\ torn = {}
    /\ unsure = {}

-----------------------------------------------------------------------------
(* What all requests do.                                                   *)

AtWork(t, u) == req[t].pc # "idle" /\ req[t].user = u

UnderReview(t, v) == req[t].pc # "idle" /\ req[t].vreq = v

\* A request starts with the object q.  Two that meet over a user, one of them
\* about the role or the profile's existence, may leave these at odds.
Begin(s, q) ==
    /\ req[s].pc = "idle"
    /\ begun < MaxRequests
    /\ begun' = begun + 1
    /\ req' = [req EXCEPT ![s] = q]
    /\ unsure' = unsure \union
           {u \in {q.user} : \E t \in Slots : AtWork(t, u) /\ {q.op, req[t].op} \cap RoleOps # {}}
    /\ UNCHANGED <<role, profile, vreq, job, used, promised, outdated, twins, vouched>>

Go(s, pc) == req' = [req EXCEPT ![s].pc = pc]
End(s) == req' = [req EXCEPT ![s] = Idle]

\* Profile p is written: the requests that have read it hold an old object.
Holding == {"raiseAgain", "diff", "update"}
Committed(s, p, after) ==
    req' = [t \in Slots |-> IF t = s THEN after
                            ELSE IF req[t].pc \in Holding /\ req[t].profile = p
                                 THEN [req[t] EXCEPT !.stale = TRUE]
                                 ELSE req[t]]

-----------------------------------------------------------------------------
(* Accounts.  They are deleted by nobody here, although an administrator    *)
(* may (users.service.ts:139-158), and the profile goes with the account.  *)

\* UsersService.create behind the sign-up and the admins' own form.
SignUp(u, r) ==
    /\ role[u] = "none"
    /\ role' = [role EXCEPT ![u] = r]
    /\ unsure' = IF r = "service_provider" \/ \E t \in Slots : AtWork(t, u)
                 THEN unsure \union {u} ELSE unsure
    /\ UNCHANGED <<profile, vreq, job, req, begun, used, promised, outdated, twins,
                   vouched, torn>>

\* An administrator's updateRole, or promoteToAdminByEmail.
SetUserRole(u, r) ==
    /\ role[u] # "none"
    /\ role' = [role EXCEPT ![u] = r]
    /\ unsure' = unsure \union {u}
    /\ UNCHANGED <<profile, vreq, job, req, begun, used, promised, outdated, twins,
                   vouched, torn>>

-----------------------------------------------------------------------------
(* registerProvider, registerProviderComplete and syncUserRole             *)

\* (mutant) the role is left to be synchronised later
RegisterWithoutRole(s, u) ==
    /\ role[u] # "none"
    /\ Begin(s, [Idle EXCEPT !.pc = "findProfile", !.op = "registerProvider", !.user = u,
                             !.role = role[u]])
    /\ UNCHANGED torn

RegisterProvider(s, u) ==
    /\ role[u] # "none"
    /\ Begin(s, [Idle EXCEPT !.pc = IF role[u] \in ProviderRoles
                                    THEN "findProfile" ELSE "raiseRole",
                             !.op = "registerProvider", !.user = u, !.role = role[u]])
    /\ UNCHANGED torn

\* With a new address the account is made, with a known one the password is
\* taken for right; a wrong one changes nothing.
RegisterProviderComplete(s, u) ==
    /\ Begin(s, [Idle EXCEPT !.pc = IF role[u] = "none" THEN "createUser" ELSE "checkProfile",
                             !.op = "registerProviderComplete", !.user = u, !.role = role[u]])
    /\ UNCHANGED torn

SyncUserRole(s, u) ==
    /\ HasProfile(u)
    /\ Begin(s, [Idle EXCEPT !.pc = "syncRead", !.op = "syncUserRole", !.user = u])
    /\ UNCHANGED torn

\* The role read is compared with SERVICE_PROVIDER alone, whatever it is.
SyncRead(s) ==
    /\ req[s].pc = "syncRead"
    /\ role[req[s].user] # "none"
    /\ IF role[req[s].user] = "service_provider" THEN End(s) ELSE Go(s, "raiseRole")
    /\ UNCHANGED <<role, profile, vreq, job, history>>

CreateUser(s) ==
    LET u == req[s].user IN
    /\ req[s].pc = "createUser"
    /\ role[u] = "none"
    /\ role' = [role EXCEPT ![u] = "service_provider"]
    /\ req' = [req EXCEPT ![s] = [req[s] EXCEPT !.pc = "findProfile",
                                               !.role = "service_provider"]]
    /\ UNCHANGED <<profile, vreq, job, history>>

\* "You already have a service provider profile": the request is refused.
CheckProfile(s) ==
    /\ req[s].pc = "checkProfile"
    /\ IF HasProfile(req[s].user) THEN End(s)
       ELSE Go(s, IF req[s].role \in ProviderRoles THEN "saveUser" ELSE "raiseRole")
    /\ UNCHANGED <<role, profile, vreq, job, history>>

\* updateRole(u, SERVICE_PROVIDER), read and save.
RaiseRole(s) ==
    LET u == req[s].user IN
    /\ req[s].pc \in {"raiseRole", "raiseAgain"}
    /\ role[u] # "none"
    /\ role' = [role EXCEPT ![u] = "service_provider"]
    /\ req' = [req EXCEPT ![s] =
                 IF req[s].op = "syncUserRole" THEN Idle
                 ELSE IF req[s].pc = "raiseAgain"
                      THEN [req[s] EXCEPT !.pc = "diff", !.role = "service_provider"]
                 ELSE IF req[s].op = "registerProvider"
                      THEN [req[s] EXCEPT !.pc = "verifyRole"]
                      ELSE [req[s] EXCEPT !.pc = "saveUser", !.role = "service_provider"]]
    /\ UNCHANGED <<profile, vreq, job, history>>

\* registerProvider reads the role again and believes only what it finds.
VerifyRole(s) ==
    LET found == role[req[s].user] IN
    /\ req[s].pc = "verifyRole"
    /\ req' = [req EXCEPT ![s] = [req[s] EXCEPT
                   !.pc = "findProfile", !.role = IF found \in ProviderRoles THEN found ELSE @]]
    /\ UNCHANGED <<role, profile, vreq, job, history>>

\* Failing to update the role, or to read it back, is logged: the handler goes on.
RoleUpdateFails(s) ==
    /\ \/ req[s].pc \in {"raiseRole", "verifyRole", "raiseAgain"} /\ req[s].op = "registerProvider"
       \/ req[s].pc = "lowerRole"
    /\ req' = [req EXCEPT ![s] = IF req[s].pc = "lowerRole" THEN Idle
                                 ELSE IF req[s].pc = "raiseAgain"
                                      THEN [req[s] EXCEPT !.pc = "diff"]
                                      ELSE [req[s] EXCEPT !.pc = "findProfile"]]
    /\ unsure' = unsure \union {req[s].user}
    /\ UNCHANGED <<role, profile, vreq, job, begun, used, promised, outdated, twins,
                   vouched, torn>>

\* registerProviderComplete saves phone and names with the user it has read, and
\* with it the role of that object.
SaveUser(s) ==
    LET u == req[s].user IN
    /\ req[s].pc = "saveUser"
    /\ role' = [role EXCEPT ![u] = req[s].role]
    /\ Go(s, "findProfile")
    /\ UNCHANGED <<profile, vreq, job, history>>

\* (mutant) the defaults of a new profile are assigned to an existing one too
FindProfileAnew(s) ==
    LET u == req[s].user IN
    /\ req[s].pc = "findProfile"
    /\ \/ /\ ~HasProfile(u)
          /\ Go(s, "insert")
       \/ \E p \in Profiles :
             /\ profile[p].user = u
             /\ req' = [req EXCEPT ![s] = [req[s] EXCEPT
                            !.pc = "diff", !.profile = p,
                            !.row = [profile[p] EXCEPT !.verified = FALSE]]]
    /\ UNCHANGED <<role, profile, vreq, job, history>>

\* A profile found is changed and saved; texts and prices are not modelled.
FindProfile(s) ==
    LET u == req[s].user IN
    /\ req[s].pc = "findProfile"
    /\ \/ /\ ~HasProfile(u)
          /\ Go(s, "insert")
       \/ \E p \in Profiles :
             /\ profile[p].user = u
             /\ req' = [req EXCEPT ![s] = [req[s] EXCEPT
                            !.pc = IF req[s].op = "registerProvider"
                                      /\ req[s].role \notin ProviderRoles
                                   THEN "raiseAgain" ELSE "diff",
                            !.profile = p, !.row = profile[p]]]
    /\ UNCHANGED <<role, profile, vreq, job, history>>

\* A unique index keeps one profile for a user: a second insert fails.
Insert(s, p) ==
    LET u == req[s].user IN
    /\ req[s].pc = "insert"
    /\ p \notin used
    /\ role[u] # "none" /\ ~HasProfile(u)
    /\ profile' = [profile EXCEPT ![p] = [NoRow EXCEPT !.user = u]]
    /\ promised' = [promised EXCEPT ![p] = [NoRow EXCEPT !.user = u]]
    /\ used' = used \union {p}
    /\ End(s)
    /\ UNCHANGED <<role, vreq, job, begun, outdated, twins, vouched, torn, unsure>>

-----------------------------------------------------------------------------
(* Saves of the profile                                                    *)

\* What an operation makes of the row it has read.
Change(op, certs, row) ==
    CASE op = "verifyProvider" \/ op = "reviewVerificationRequest" ->
             [row EXCEPT !.verified = TRUE, !.kyc = TRUE]
      [] op = "rejectProvider" \/ op = "banProvider" ->
             [row EXCEPT !.verified = FALSE, !.kyc = FALSE]
      [] op = "suspendProvider" -> [row EXCEPT !.verified = FALSE]
      [] op = "addCertification" -> [row EXCEPT !.certs = @ \union certs]
      [] OTHER -> row

Read(s, p, op, certs) ==
    /\ Stored(p)
    /\ Begin(s, [Idle EXCEPT !.pc = "diff", !.op = op, !.user = profile[p].user,
                             !.profile = p, !.row = Change(op, certs, profile[p])])
    /\ UNCHANGED torn

Decide(s, p, op) == Read(s, p, op, {})

\* Also updateProfilePicture and updateIdDocument: columns that are not modelled.
UpdateProviderProfile(s, p) == Read(s, p, "updateProviderProfile", {})

\* Every certification has a key of its own, given out once.
AddCertification(s, p, c) ==
    /\ \A q \in Profiles : c \notin promised[q].certs
    /\ \A t \in Slots : c \notin req[t].row.certs
    /\ Read(s, p, "addCertification", {c})

Changed(s) == {c \in Columns : req[s].row[c] # profile[req[s].profile][c]}

Follow(q) == IF q.op = "reviewVerificationRequest" THEN [q EXCEPT !.pc = "saveVerdict"] ELSE Idle

\* The approval's own save has come back.
Vouched(q) == IF q.op = "reviewVerificationRequest" THEN vouched \union {q.vreq} ELSE vouched

Diff(s) ==
    LET gone == ~Stored(req[s].profile)
        same == ~gone /\ Changed(s) = {}
    IN
    /\ req[s].pc = "diff"
    /\ req' = [req EXCEPT ![s] = IF gone THEN [req[s] EXCEPT !.pc = "reinsert"]
                                 ELSE IF same THEN Follow(req[s])
                                 ELSE [req[s] EXCEPT !.pc = "update", !.cols = Changed(s)]]
    /\ vouched' = IF same THEN Vouched(req[s]) ELSE vouched
    /\ UNCHANGED <<role, profile, vreq, job, begun, used, promised, outdated, twins, torn, unsure>>

\* A row removed meanwhile is not there to update, which is no error.
Update(s) ==
    LET p == req[s].profile IN
    /\ req[s].pc = "update"
    /\ profile' = IF Stored(p)
                  THEN [profile EXCEPT ![p] = [c \in Columns |->
                           IF c \in req[s].cols THEN req[s].row[c] ELSE profile[p][c]]]
                  ELSE profile
    /\ promised' = [promised EXCEPT ![p] =
                        Change(req[s].op, req[s].row.certs, promised[p])]
    /\ outdated' = IF req[s].stale THEN outdated \union {p} ELSE outdated
    /\ vouched' = Vouched(req[s])
    /\ Committed(s, p, Follow(req[s]))
    /\ UNCHANGED <<role, vreq, job, begun, used, twins, torn, unsure>>

\* save does not find the row it was given and inserts it, under the same key.
Reinsert(s) ==
    LET p == req[s].profile IN
    /\ req[s].pc = "reinsert"
    /\ ~Stored(p) /\ ~HasProfile(req[s].row.user)
    /\ profile' = [profile EXCEPT ![p] = req[s].row]
    /\ outdated' = outdated \union {p}
    /\ vouched' = Vouched(req[s])
    /\ Committed(s, p, Follow(req[s]))
    /\ UNCHANGED <<role, vreq, job, begun, used, promised, twins, torn, unsure>>

-----------------------------------------------------------------------------
(* deactivateProviderProfile                                               *)

DeactivateProviderProfile(s, u) ==
    /\ role[u] # "none"
    /\ Begin(s, [Idle EXCEPT !.pc = "findRemoved", !.op = "deactivateProviderProfile",
                             !.user = u, !.role = role[u]])
    /\ UNCHANGED torn

FindRemoved(s) ==
    LET u == req[s].user IN
    /\ req[s].pc = "findRemoved"
    /\ \/ ~HasProfile(u) /\ End(s)
       \/ \E p \in Profiles :
             /\ profile[p].user = u
             /\ req' = [req EXCEPT ![s] = [req[s] EXCEPT !.pc = "countJobs", !.profile = p]]
    /\ UNCHANGED <<role, profile, vreq, job, history>>

\* (mutant) active jobs are no obstacle
CountNoJobs(s) ==
    /\ req[s].pc = "countJobs"
    /\ Go(s, "remove")
    /\ UNCHANGED <<role, profile, vreq, job, history>>

CountJobs(s) ==
    /\ req[s].pc = "countJobs"
    /\ IF job[req[s].user] = "active" THEN End(s) ELSE Go(s, "remove")
    /\ UNCHANGED <<role, profile, vreq, job, history>>

\* The foreign key takes the verification requests along (migration 012).
Remove(s) ==
    LET p == req[s].profile IN
    /\ req[s].pc = "remove"
    /\ profile' = [profile EXCEPT ![p] = NoRow]
    /\ vreq' = [v \in Requests |-> IF vreq[v].profile = p THEN NoRequest ELSE vreq[v]]
    /\ Committed(s, p, IF req[s].role = "service_provider"
                       THEN [req[s] EXCEPT !.pc = "lowerRole"] ELSE Idle)
    /\ torn' = torn \union {v \in Requests : /\ vreq[v].profile = p
                                            /\ \E t \in Slots : UnderReview(t, v)}
    /\ UNCHANGED <<role, job, begun, used, promised, outdated, twins, vouched, unsure>>

LowerRole(s) ==
    LET u == req[s].user IN
    /\ req[s].pc = "lowerRole"
    /\ role[u] # "none"
    /\ role' = [role EXCEPT ![u] = "lister"]
    /\ End(s)
    /\ UNCHANGED <<profile, vreq, job, history>>

-----------------------------------------------------------------------------
(* Verification requests                                                   *)

\* (mutant) a pending request is no obstacle to another
SubmitAnother(s, p) ==
    /\ Stored(p)
    /\ Begin(s, [Idle EXCEPT !.pc = "submit", !.op = "createVerificationRequest",
                             !.user = profile[p].user, !.profile = p])
    /\ UNCHANGED torn

CreateVerificationRequest(s, p) ==
    /\ Stored(p)
    /\ Pending(p) = {}
    /\ Begin(s, [Idle EXCEPT !.pc = "submit", !.op = "createVerificationRequest",
                             !.user = profile[p].user, !.profile = p])
    /\ UNCHANGED torn

\* (mutant) the request is filed under the user's key instead of the profile's
SubmitForUser(s, v) ==
    /\ req[s].pc = "submit"
    /\ v \notin used
    /\ vreq' = [vreq EXCEPT ![v] = [profile |-> req[s].user, status |-> "pending"]]
    /\ used' = used \union {v}
    /\ End(s)
    /\ UNCHANGED <<role, profile, job, begun, promised, outdated, twins, vouched, torn, unsure>>

\* The mail that follows changes nothing.
Submit(s, v) ==
    LET p == req[s].profile IN
    /\ req[s].pc = "submit"
    /\ v \notin used
    /\ Stored(p)
    /\ vreq' = [vreq EXCEPT ![v] = [profile |-> p, status |-> "pending"]]
    /\ used' = used \union {v}
    /\ twins' = IF req[s].stale THEN twins \union {p} ELSE twins
    /\ req' = [t \in Slots |-> IF t = s THEN Idle
                               ELSE IF req[t].pc = "submit" /\ req[t].profile = p
                                    THEN [req[t] EXCEPT !.stale = TRUE]
                                    ELSE req[t]]
    /\ UNCHANGED <<role, profile, job, begun, promised, outdated, vouched, torn, unsure>>

Review(s, v, verdict) ==
    /\ Begin(s, [Idle EXCEPT !.pc = IF verdict = "approved" THEN "findApproved" ELSE "saveVerdict",
                             !.op = "reviewVerificationRequest",
                             !.user = profile[vreq[v].profile].user,
                             !.profile = vreq[v].profile, !.vreq = v, !.verdict = verdict])
    /\ torn' = torn \union {w \in {v} : \E t \in Slots : UnderReview(t, w)}

\* (mutant) a request already decided is decided again
ReviewAgain(s, v, verdict) ==
    /\ vreq[v].profile # None
    /\ Review(s, v, verdict)

ReviewVerificationRequest(s, v, verdict) ==
    /\ vreq[v].profile # None
    /\ vreq[v].status = "pending"
    /\ Review(s, v, verdict)

FindApproved(s) ==
    LET p == req[s].profile IN
    /\ req[s].pc = "findApproved"
    /\ Stored(p)
    /\ req' = [req EXCEPT ![s] = [req[s] EXCEPT !.pc = "diff",
                                               !.row = Change(req[s].op, {}, profile[p])]]
    /\ UNCHANGED <<role, profile, vreq, job, history>>

\* The object read before is saved: the last to save decides.  A request that is
\* gone would be inserted again, which the foreign key to the profile refuses.
SaveVerdict(s) ==
    LET v == req[s].vreq IN
    /\ req[s].pc = "saveVerdict"
    /\ Stored(req[s].profile)
    /\ vreq' = [vreq EXCEPT ![v] = [profile |-> req[s].profile, status |-> req[s].verdict]]
    /\ End(s)
    /\ UNCHANGED <<role, profile, job, history>>

-----------------------------------------------------------------------------
(* Jobs, as far as deactivateProviderProfile looks at them                 *)

\* A request of JobsService whose save leaves u with an active job.
GiveJob(s, u) ==
    /\ Begin(s, [Idle EXCEPT !.pc = "assign", !.op = "giveJob", !.user = u])
    /\ UNCHANGED torn

\* create takes the key of a profile, or that of a user with one of two roles.
CreateJob(s, u) ==
    /\ HasProfile(u) \/ role[u] \in {"service_provider", "property_manager"}
    /\ GiveJob(s, u)

AssignProvider(s, u) == HasProfile(u) /\ GiveJob(s, u)

\* updateStatus and updateProgress make a job that is over active again, and so does
\* any save of an object read before it was over; nobody looks for a profile.
ReopenJob(s, u) == job[u] # "none" /\ GiveJob(s, u)

Assign(s) ==
    /\ req[s].pc = "assign"
    /\ job' = [job EXCEPT ![req[s].user] = "active"]
    /\ End(s)
    /\ UNCHANGED <<role, profile, vreq, history>>

\* The last active job of u is completed, cancelled or disputed, or given to somebody else.
FinishJob(u) ==
    /\ job[u] = "active"
    /\ job' = [job EXCEPT ![u] = "over"]
    /\ UNCHANGED <<role, profile, vreq, req, history>>

-----------------------------------------------------------------------------

\* A database call fails (or an index refuses it), or the process dies.
Abort(s) ==
    /\ req[s].pc # "idle"
    /\ End(s)
    /\ unsure' = IF req[s].op \in RoleOps THEN unsure \union {req[s].user} ELSE unsure
    /\ torn' = IF req[s].op = "reviewVerificationRequest" THEN torn \union {req[s].vreq} ELSE torn
    /\ UNCHANGED <<role, profile, vreq, job, begun, used, promised, outdated, twins, vouched>>

HandleUser(s, u) ==
    \/ RegisterProvider(s, u) \/ RegisterProviderComplete(s, u)
    \/ SyncUserRole(s, u) \/ DeactivateProviderProfile(s, u)
    \/ CreateJob(s, u) \/ AssignProvider(s, u) \/ ReopenJob(s, u)

HandleProfile(s, p) ==
    \/ \E op \in Decisions : Decide(s, p, op)
    \/ UpdateProviderProfile(s, p)
    \/ \E c \in Certs : AddCertification(s, p, c)
    \/ CreateVerificationRequest(s, p)

ContinueRole(s) ==
    \/ SyncRead(s) \/ CreateUser(s) \/ CheckProfile(s) \/ RaiseRole(s) \/ VerifyRole(s)
    \/ RoleUpdateFails(s) \/ SaveUser(s) \/ FindProfile(s)
    \/ \E p \in Profiles : Insert(s, p)
    \/ FindRemoved(s) \/ CountJobs(s) \/ Remove(s) \/ LowerRole(s)

ContinueProfile(s) ==
    \/ Diff(s) \/ Update(s) \/ Reinsert(s)
    \/ \E v \in Requests : Submit(s, v)
    \/ FindApproved(s) \/ SaveVerdict(s) \/ Assign(s) \/ Abort(s)

Next ==
    \/ \E u \in Users, r \in Roles : SignUp(u, r) \/ SetUserRole(u, r)
    \/ \E u \in Users : FinishJob(u)
    \/ \E s \in Slots, u \in Users : HandleUser(s, u)
    \/ \E s \in Slots, p \in Profiles : HandleProfile(s, p)
    \/ \E s \in Slots, v \in Requests, verdict \in Verdicts :
          ReviewVerificationRequest(s, v, verdict)
    \/ \E s \in Slots : ContinueRole(s) \/ ContinueProfile(s)

Spec == Init /\ [][Next]_vars

-----------------------------------------------------------------------------
(* Properties                                                              *)

TypeOK ==
    /\ role \in [Users -> Roles \union {"none"}]
    /\ profile \in [Profiles -> Row]
    /\ vreq \in [Requests -> VerificationRequest]
    /\ job \in [Users -> JobStates]
    /\ req \in [Slots -> Request]
    /\ begun \in Nat
    /\ used \in SUBSET (Profiles \union Requests)
    /\ promised \in [Profiles -> Row]
    /\ outdated \in SUBSET Profiles
    /\ twins \in SUBSET Profiles
    /\ vouched \in SUBSET Requests
    /\ torn \in SUBSET Requests
    /\ unsure \in SUBSET Users

\* No save of a profile (an edit, a certification, a registration done again)
\* takes back an administrator's decision or a certification, and no decision is
\* half applied, unless an object out of date was saved.
DecisionsStand ==
    \A p \in Profiles \ outdated : Stored(p) => profile[p] = promised[p]

\* A profile has at most one pending verification request, unless one was
\* submitted between another's search and its insert, or two reviews at a time, or
\* one that outlived the profile, made one pending again (a verdict may be "pending").
OnePending == \A p \in Profiles \ twins : \A v, w \in Pending(p) \ torn : v = w

\* An approved request has verified its profile; one rejected or still pending has
\* not, unless two administrators reviewed it at the same time, the review died
\* between its two writes, or the profile was removed and saved again meanwhile.
VerdictsAgree ==
    \A v \in Requests :
        /\ vreq[v].status = "approved" => v \in vouched
        /\ v \in vouched /\ vreq[v].profile # None /\ vreq[v].status # "approved" =>
              \/ v \in torn
              \/ \E s \in Slots : req[s].pc = "saveVerdict" /\ req[s].vreq = v

\* When nobody is registering, synchronising or deactivating user u, the role fits
\* the profile: a profile comes with the role of a provider or an administrator,
\* and the role of a provider with a profile.
RoleFitsProfile ==
    \A u \in Users \ unsure :
        (\A s \in Slots : AtWork(s, u) => req[s].op \notin RoleOps) =>
            /\ HasProfile(u) => role[u] \in ProviderRoles
            /\ role[u] = "service_provider" => HasProfile(u)

\* A provider with an active job keeps the profile as long as the account is there: of
\* the handlers only a deactivation removes one, and that counts the jobs before; unless
\* a job was given to the user, or another request about the role met it, meanwhile.
JobKeepsProfile ==
    [][\A u \in Users \ unsure' :
          job[u] = "active" /\ HasProfile(u) => HasProfile(u)']_vars

\* "Admins can have provider profiles while keeping their admin role": no request
\* takes the role from an administrator, when nobody changes the role by hand and
\* no two requests of the user meet.
AdminsKeepRole ==
    [][\A u \in Users \ unsure' : role[u] = "admin" => role'[u] = "admin"]_vars
=============================================================================
