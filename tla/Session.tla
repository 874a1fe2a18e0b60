------------------------------ MODULE Session ------------------------------
(***************************************************************************)
(* The session of a browser tab: the store of useAuthStore, the token in   *)
(* localStorage, and the requests whose answers change them.               *)
(*                                                                         *)
(* Every set of the store also writes auth-storage, so a page load finds   *)
(* there what the store held.  A request carries the token of the moment   *)
(* it is sent; its answer is applied whatever happened to the session      *)
(* meanwhile.  A 401 first goes through the interceptor of api.ts, which   *)
(* may clear the storage and load the login page.  A token stands for the  *)
(* user it was given to.                                                   *)
(***************************************************************************)
EXTENDS Naturals

CONSTANTS
    Persons,        \* users with an account
    Nil,            \* null
    MaxSent         \* bound: requests in flight at the same time

ASSUME SessionAssumption ==
    /\ Nil \notin Persons
    /\ MaxSent \in Nat /\ MaxSent >= 2

Sent == 1 .. MaxSent

VARIABLES
    mem,        \* [user, token, auth, loading]: the store
    key,        \* localStorage "token"
    expired,    \* tokens that no longer verify
    path,       \* the open page
    sent,       \* sent[s]: a request in flight
    (* history, never read by the code *)
    blended,      \* an answer was applied to another session than its own, a callback
                \* ended without a profile, or a 401 took only half of the session,
                \* and nothing has set the session as a whole since
    out,        \* the user has logged out, and not in again
    ousted      \* a 401 has replaced a public page by the login page

sessionHistory == <<blended, out, ousted>>
sessionVars == <<mem, key, expired, path, sent, sessionHistory>>

\* "auth" for the pages under /auth/, "public" for those isPublicPage names.
Paths == {"auth", "public", "private"}
StoreState == [user : Persons \union {Nil}, token : Persons \union {Nil},
               auth : BOOLEAN, loading : BOOLEAN]
NoSession == [user |-> Nil, token |-> Nil, auth |-> FALSE, loading |-> FALSE]
SessionOf(u) == [user |-> u, token |-> u, auth |-> TRUE, loading |-> FALSE]

\* token is the one attached, person the one logging in; stale is history: the
\* session has changed since.
SessionOps == {"login", "provider", "refresh", "init", "callback", "update", "open", "other"}
Message == [op : SessionOps \union {"none"}, token : Persons \union {Nil},
            person : Persons \union {Nil}, stale : BOOLEAN]
NoMessage == [op |-> "none", token |-> Nil, person |-> Nil, stale |-> FALSE]

SessionInit ==
    /\ mem = NoSession
    /\ key = Nil
    /\ expired = {}
    /\ path \in Paths
    /\ sent = [s \in Sent |-> NoMessage]
    /\ blended = FALSE
    /\ out = FALSE
    /\ ousted = FALSE

-----------------------------------------------------------------------------
(* What the user does                                                      *)

Dispatch(s, op, u) ==
    /\ sent[s].op = "none"
    /\ \A t \in Sent : t < s => sent[t].op # "none"
    /\ sent' = [sent EXCEPT ![s] = [NoMessage EXCEPT !.op = op, !.token = key, !.person = u]]

\* Request s is over; the others belong to an earlier session when it changes.
Over(s, changes) ==
    sent' = [t \in Sent |-> IF t = s \/ sent[t].op = "none" THEN NoMessage
                            ELSE [sent[t] EXCEPT !.stale = @ \/ changes]]
NoOne == 0

\* router.push: the store stays.
Visit(p) ==
    /\ path # p
    /\ path' = p
    /\ UNCHANGED <<mem, key, expired, sent, sessionHistory>>

\* What module auth.store.ts does when it is loaded: the profile is asked for.
InitMessage ==
    IF key # Nil /\ mem.auth THEN [NoMessage EXCEPT !.op = "init", !.token = key] ELSE NoMessage

\* A page is loaded: the store is read back, and what was in flight is lost.
LoadPage(p) ==
    /\ path' = p
    /\ mem' = [mem EXCEPT !.loading = FALSE]
    /\ sent' = [s \in Sent |-> IF s = 1 THEN InitMessage ELSE NoMessage]
    /\ blended' = (blended \/ \E s \in Sent : sent[s].op = "callback")
    /\ UNCHANGED <<key, expired, out, ousted>>

\* login and register of the store, from their pages.
Login(s, u) ==
    /\ path = "auth"
    /\ Dispatch(s, "login", u)
    /\ mem' = [mem EXCEPT !.loading = TRUE]
    /\ UNCHANGED <<key, expired, path, sessionHistory>>

\* registerComplete of the two pages on which providers register.
SignUpProvider(s, u) ==
    /\ path # "private"
    /\ ~mem.auth
    /\ Dispatch(s, "provider", u)
    /\ UNCHANGED <<mem, key, expired, path, sessionHistory>>

\* Google sends the browser to /auth/callback: the page is loaded, keeps the token
\* and asks for the profile.
GoogleCallback(u) ==
    /\ path' = "auth"
    /\ key' = u
    /\ expired' = expired \ {u}
    /\ mem' = [mem EXCEPT !.token = u, !.auth = TRUE, !.loading = FALSE]
    /\ sent' = [s \in Sent |->
                   IF s = 1 THEN [NoMessage EXCEPT !.op = "callback", !.token = u]
                   ELSE IF s = 2 /\ InitMessage # NoMessage THEN [InitMessage EXCEPT !.stale = TRUE]
                   ELSE NoMessage]
    /\ out' = FALSE
    /\ UNCHANGED <<blended, ousted>>

\* (mutant) the user stays in the store
LogoutKeepsUser ==
    /\ mem.auth
    /\ key' = Nil
    /\ mem' = [mem EXCEPT !.token = Nil]
    /\ Over(NoOne, TRUE)
    /\ blended' = FALSE
    /\ out' = TRUE
    /\ UNCHANGED <<expired, path, ousted>>

Logout ==
    /\ mem.auth
    /\ key' = Nil
    /\ mem' = [NoSession EXCEPT !.loading = mem.loading]
    /\ Over(NoOne, TRUE)
    /\ blended' = FALSE
    /\ out' = TRUE
    /\ UNCHANGED <<expired, path, ousted>>

\* A page asks for the profile again, saves it, or asks for something else: at an
\* endpoint the interceptor calls public ("open"), or not.
Ask(s, op) ==
    /\ op \in {"refresh", "update", "open", "other"}
    /\ op \in {"refresh", "update"} => mem.auth
    /\ Dispatch(s, op, Nil)
    /\ UNCHANGED <<mem, key, expired, path, sessionHistory>>

Expiry(u) ==
    /\ u \notin expired
    /\ expired' = expired \union {u}
    /\ UNCHANGED <<mem, key, path, sent, sessionHistory>>

-----------------------------------------------------------------------------
(* Answers                                                                 *)

Authorized(s) == sent[s].token \notin expired \union {Nil}

\* (mutant) the token is kept in the store only
EnteredWithoutKey(s) ==
    LET u == sent[s].person IN
    /\ sent[s].op \in {"login", "provider"}
    /\ mem' = SessionOf(u)
    /\ expired' = expired \ {u}
    /\ blended' = FALSE
    /\ out' = FALSE
    /\ Over(s, TRUE)
    /\ UNCHANGED <<key, path, ousted>>

\* Logged in, or registered.
Entered(s) ==
    LET u == sent[s].person IN
    /\ sent[s].op \in {"login", "provider"}
    /\ key' = u
    /\ mem' = SessionOf(u)
    /\ expired' = expired \ {u}
    /\ blended' = FALSE
    /\ out' = FALSE
    /\ Over(s, TRUE)
    /\ UNCHANGED <<path, ousted>>

\* The profile, or the saved one, which is merged into the user there is.
Profile(s) ==
    LET u == sent[s].token
        op == sent[s].op
    IN
    /\ op \in {"refresh", "init", "callback", "update"}
    /\ Authorized(s)
    /\ mem' = CASE op = "refresh" -> [mem EXCEPT !.user = u, !.auth = TRUE]
                [] op = "update" -> [mem EXCEPT !.user = IF @ = Nil THEN Nil ELSE u]
                [] OTHER -> [mem EXCEPT !.user = u, !.token = u, !.auth = TRUE]
    /\ blended' = (sent[s].stale \/ (blended /\ op \in {"refresh", "update"}))
    /\ Over(s, FALSE)
    /\ UNCHANGED <<key, expired, path, out, ousted>>

ResponseArrives(s) ==
    /\ sent[s].op = "open" \/ (sent[s].op = "other" /\ Authorized(s))
    /\ Over(s, FALSE)
    /\ UNCHANGED <<mem, key, expired, path, sessionHistory>>

\* The login page is loaded, and the token is gone: with the store m.
ToLogin(m) ==
    /\ key' = Nil
    /\ mem' = [m EXCEPT !.loading = FALSE]
    /\ sent' = [s \in Sent |-> NoMessage]
    /\ path' = "auth"
    /\ blended' = ((blended \/ m.auth) /\ m # NoSession)
    /\ ousted' = (ousted \/ path = "public")
    /\ UNCHANGED <<expired, out>>

\* A 401.  Elsewhere than under /auth/ the interceptor clears the storage and goes
\* to the login page; there, unless the endpoint is public, it removes the token
\* and loads the page again.  What catches the error runs before the page is left,
\* and what it sets is written to auth-storage after all.
Unauthorized(s) ==
    LET op == sent[s].op IN
    /\ op \notin {"none", "provider"}
    /\ op # "login" => ~Authorized(s)
    /\ IF op = "login" THEN ToLogin(mem)
       ELSE IF op \in {"refresh", "init"} \/ path # "auth" THEN ToLogin(NoSession)
       ELSE IF op = "open"
       THEN Over(s, FALSE) /\ UNCHANGED <<mem, key, expired, path, sessionHistory>>
       ELSE ToLogin(mem)

\* Any other failure, no answer within the timeout among them: refreshProfile and
\* the check on loading end the session, the callback keeps what it has.
Failed(s) ==
    LET op == sent[s].op IN
    /\ op # "none"
    /\ IF op \in {"refresh", "init"}
       THEN /\ key' = Nil
            /\ mem' = [NoSession EXCEPT !.loading = mem.loading]
            /\ blended' = FALSE
            /\ Over(s, TRUE)
       ELSE /\ mem' = IF op = "login" THEN [mem EXCEPT !.loading = FALSE] ELSE mem
            /\ blended' = (blended \/ op = "callback")
            /\ Over(s, FALSE)
            /\ key' = key
    /\ UNCHANGED <<expired, path, out, ousted>>

Answer(s) == Entered(s) \/ Profile(s) \/ ResponseArrives(s) \/ Unauthorized(s) \/ Failed(s)

SessionNext ==
    \/ Logout
    \/ \E p \in Paths : Visit(p) \/ LoadPage(p)
    \/ \E u \in Persons : GoogleCallback(u) \/ Expiry(u)
    \/ \E s \in Sent, u \in Persons : Login(s, u) \/ SignUpProvider(s, u)
    \/ \E s \in Sent, op \in SessionOps : Ask(s, op)
    \/ \E s \in Sent : Answer(s)

SessionSpec == SessionInit /\ [][SessionNext]_sessionVars

-----------------------------------------------------------------------------
(* Properties                                                              *)

SessionTypeOK ==
    /\ mem \in StoreState
    /\ key \in Persons \union {Nil}
    /\ expired \in SUBSET Persons
    /\ path \in Paths
    /\ sent \in [Sent -> Message]
    /\ blended \in BOOLEAN /\ out \in BOOLEAN /\ ousted \in BOOLEAN

\* The user shown, the token in the store and the one requests carry are of one
\* person, or all three are missing; unless a callback is waiting for the profile,
\* or an answer, a failure or a 401 has blended two sessions.
UserMatchesToken ==
    (~blended /\ \A s \in Sent : sent[s].op # "callback") =>
        /\ mem.user = key /\ mem.token = key
        /\ mem.auth <=> key # Nil

\* Who has logged out stays so until the next login, unless an answer to an earlier
\* request was applied after it.
LoggedOutStays == (out /\ ~blended) => ~mem.auth /\ key = Nil

\* A 401 does not take the visitor away from a public page.
PublicPagesStay == ~ousted
=============================================================================
