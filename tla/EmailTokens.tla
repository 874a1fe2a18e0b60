---------------------------- MODULE EmailTokens ----------------------------
(***************************************************************************)
(* The verification of e-mail addresses: the token in the user's row, the  *)
(* mails that carry it, the links users open, and the saves of the same    *)
(* row by the users' service (profile, role, OAuth provider).              *)
(*                                                                         *)
(* Sending replaces the token by one UPDATE and then mails it.  Opening a  *)
(* link, and every change of the profile, is a read and a save: the save   *)
(* reads the row again and updates the columns in which the object read    *)
(* before differs.                                                         *)
(***************************************************************************)
EXTENDS Naturals, Sequences

CONSTANTS
    Accounts,       \* accounts with a password
    PlusAddressed,  \* those with a + in the address
    Tokens,         \* tokens that may be generated
    Calls,          \* requests the server handles at the same time
    NoToken,        \* SQL NULL
    MaxSaves        \* bound: saves of a profile

ASSUME EmailAssumption ==
    /\ Accounts # {}
    /\ PlusAddressed \subseteq Accounts
    /\ NoToken \notin Tokens
    /\ MaxSaves \in Nat

VARIABLES
    account,    \* account[a]: the columns about verification
    inbox,      \* inbox[a]: the tokens mailed to a, the newest last
    call,       \* call[c]: the request in slot c
    (* history, never read by the code *)
    drawn,      \* tokens generated
    saves,      \* saves of a profile begun, at most MaxSaves
    confirmed,  \* accounts told that their address is verified
    replaced,   \* accounts whose row was saved from an object out of date
    mixed       \* accounts two of whose mails were under way at once, one of
                \* whose mails got lost, or with a token set after verification

emailHistory == <<drawn, saves, confirmed, replaced, mixed>>
emailVars == <<account, inbox, call, emailHistory>>

\* exists is the row itself; expired says that the token's 24 hours are over.
\* emailVerificationAttempts is only ever set to 0 (nothing calls
\* incrementVerificationAttempts), so its limit never applies.
Account == [exists : BOOLEAN, verified : BOOLEAN, token : Tokens \union {NoToken},
            expired : BOOLEAN]
NoAccount == [exists |-> FALSE, verified |-> FALSE, token |-> NoToken, expired |-> FALSE]

AccountColumns == {"verified", "token"}

Call == [pc : {"idle", "setToken", "mail", "diff", "update"},
         op : {"none", "send", "verify", "save"},
         account : Accounts, object : Account, cols : SUBSET AccountColumns,
         token : Tokens \union {NoToken}, late : BOOLEAN]
NoCall == [pc |-> "idle", op |-> "none", account |-> CHOOSE a \in Accounts : TRUE,
           object |-> NoAccount, cols |-> {}, token |-> NoToken, late |-> FALSE]

EmailInit ==
    /\ account = [a \in Accounts |-> NoAccount]
    /\ inbox = [a \in Accounts |-> <<>>]
    /\ call = [c \in Calls |-> NoCall]
    /\ drawn = {}
    /\ saves = 0
    /\ confirmed = {}
    /\ replaced = {}
    /\ mixed = {}

-----------------------------------------------------------------------------

Sending(a) == {c \in Calls : call[c].pc \in {"setToken", "mail"} /\ call[c].account = a}

Enter(c, q) ==
    /\ call[c].pc = "idle"
    /\ call' = [call EXCEPT ![c] = q]

\* sendVerificationEmail with the object of a row read before.
StartSending(c, a) ==
    /\ Enter(c, [NoCall EXCEPT !.pc = "setToken", !.op = "send", !.account = a])
    /\ mixed' = IF Sending(a) # {} THEN mixed \union {a} ELSE mixed

\* The row of a is written: what others have read of it is out of date.
Wrote(c, a, after) ==
    call' = [d \in Calls |-> IF d = c THEN after
                             ELSE IF call[d].pc \in {"setToken", "diff", "update"}
                                       /\ call[d].account = a
                                  THEN [call[d] EXCEPT !.late = TRUE]
                                  ELSE call[d]]

\* AuthService.signUp inserts the user and sends; that no mail goes out is logged.
SignUpAccount(c, a) ==
    /\ ~account[a].exists
    /\ account' = [account EXCEPT ![a] = [NoAccount EXCEPT !.exists = TRUE]]
    /\ StartSending(c, a)
    /\ UNCHANGED <<inbox, drawn, saves, confirmed, replaced>>

ResendVerificationEmail(c, a) ==
    /\ account[a].exists
    /\ ~account[a].verified
    /\ StartSending(c, a)
    /\ UNCHANGED <<account, inbox, drawn, saves, confirmed, replaced>>

\* (mutant) the mail goes out with a token other than the one stored
SetOtherToken(c, t) ==
    LET a == call[c].account IN
    /\ call[c].pc = "setToken"
    /\ t \notin drawn
    /\ drawn' = drawn \union {t}
    /\ account' = account
    /\ mixed' = mixed
    /\ Wrote(c, a, [call[c] EXCEPT !.pc = "mail", !.token = t])
    /\ UNCHANGED <<inbox, saves, confirmed, replaced>>

\* The UPDATE is by primary key and asks nothing of the row.
SetToken(c, t) ==
    LET a == call[c].account IN
    /\ call[c].pc = "setToken"
    /\ t \notin drawn
    /\ drawn' = drawn \union {t}
    /\ account' = [account EXCEPT ![a].token = t, ![a].expired = FALSE]
    /\ mixed' = IF call[c].late THEN mixed \union {a} ELSE mixed
    /\ Wrote(c, a, [call[c] EXCEPT !.pc = "mail", !.token = t])
    /\ UNCHANGED <<inbox, saves, confirmed, replaced>>

Mail(c) ==
    LET a == call[c].account IN
    /\ call[c].pc = "mail"
    /\ inbox' = [inbox EXCEPT ![a] = Append(@, call[c].token)]
    /\ call' = [call EXCEPT ![c] = NoCall]
    /\ UNCHANGED <<account, emailHistory>>

\* Opening the newest or an older link.  The page hands the address on without
\* encoding it, so the server reads the + as a blank and refuses the address.
VerifyEmailWithToken(c, a, t) ==
    /\ \E i \in DOMAIN inbox[a] : inbox[a][i] = t
    /\ a \notin PlusAddressed
    /\ account[a].token = t
    /\ ~account[a].verified
    /\ ~account[a].expired
    /\ Enter(c, [NoCall EXCEPT !.pc = "diff", !.op = "verify", !.account = a,
                               !.object = [account[a] EXCEPT !.verified = TRUE,
                                                             !.token = NoToken]])
    /\ UNCHANGED <<account, inbox, emailHistory>>

\* update, updateRole, updateOAuthProvider, promoteToAdminByEmail: the columns
\* they are about are not modelled, the save is.
UpdateUser(c, a) ==
    /\ account[a].exists
    /\ saves < MaxSaves
    /\ saves' = saves + 1
    /\ Enter(c, [NoCall EXCEPT !.pc = "diff", !.op = "save", !.account = a,
                               !.object = account[a]])
    /\ UNCHANGED <<account, inbox, drawn, confirmed, replaced, mixed>>

Differing(c) == {k \in AccountColumns : call[c].object[k] # account[call[c].account][k]}

DiffUser(c) ==
    /\ call[c].pc = "diff"
    /\ call' = [call EXCEPT ![c].pc = "update", ![c].cols = Differing(c)]
    /\ UNCHANGED <<account, inbox, emailHistory>>

\* (mutant) the token is used up and the flag is forgotten
UpdateUserRowHalf(c) ==
    LET a == call[c].account IN
    /\ call[c].pc = "update"
    /\ account' = [account EXCEPT ![a].token = IF "token" \in call[c].cols
                                               THEN call[c].object.token ELSE @]
    /\ confirmed' = IF call[c].op = "verify" THEN confirmed \union {a} ELSE confirmed
    /\ replaced' = IF call[c].late /\ call[c].cols # {} THEN replaced \union {a} ELSE replaced
    /\ Wrote(c, a, NoCall)
    /\ UNCHANGED <<inbox, drawn, saves, mixed>>

\* A verification is answered by the saved user.
UpdateUserRow(c) ==
    LET a == call[c].account
        to(k) == IF k \in call[c].cols THEN call[c].object[k] ELSE account[a][k]
    IN
    /\ call[c].pc = "update"
    /\ account' = [account EXCEPT ![a].verified = to("verified"), ![a].token = to("token")]
    /\ confirmed' = IF call[c].op = "verify" THEN confirmed \union {a} ELSE confirmed
    /\ replaced' = IF call[c].late /\ call[c].cols # {} THEN replaced \union {a} ELSE replaced
    /\ IF call[c].cols = {} THEN call' = [call EXCEPT ![c] = NoCall] ELSE Wrote(c, a, NoCall)
    /\ UNCHANGED <<inbox, drawn, saves, mixed>>

\* The 24 hours pass.
Expire(a) ==
    /\ account[a].token # NoToken
    /\ ~account[a].expired
    /\ account' = [account EXCEPT ![a].expired = TRUE]
    /\ UNCHANGED <<inbox, call, emailHistory>>

\* The mail server or the database fails, or the process dies.
AbortCall(c) ==
    /\ call[c].pc # "idle"
    /\ call' = [call EXCEPT ![c] = NoCall]
    /\ mixed' = IF call[c].pc = "mail" THEN mixed \union {call[c].account} ELSE mixed
    /\ UNCHANGED <<account, inbox, drawn, saves, confirmed, replaced>>

EmailNext ==
    \/ \E c \in Calls, a \in Accounts :
          \/ SignUpAccount(c, a) \/ ResendVerificationEmail(c, a) \/ UpdateUser(c, a)
          \/ \E t \in Tokens : VerifyEmailWithToken(c, a, t)
    \/ \E c \in Calls : \/ \E t \in Tokens : SetToken(c, t)
                        \/ Mail(c) \/ DiffUser(c) \/ UpdateUserRow(c) \/ AbortCall(c)
    \/ \E a \in Accounts : Expire(a)

EmailSpec == EmailInit /\ [][EmailNext]_emailVars

-----------------------------------------------------------------------------
(* Properties                                                              *)

EmailTypeOK ==
    /\ account \in [Accounts -> Account]
    /\ inbox \in [Accounts -> Seq(Tokens)]
    /\ call \in [Calls -> Call]
    /\ drawn \in SUBSET Tokens
    /\ saves \in Nat
    /\ confirmed \in SUBSET Accounts
    /\ replaced \in SUBSET Accounts
    /\ mixed \in SUBSET Accounts

\* Who has been told that the address is verified is verified, unless a profile
\* or a role was saved from an object read before.
VerifiedStays == \A a \in confirmed \ replaced : account[a].verified

\* While an address is not verified and nothing is being sent, the newest link in
\* the inbox is the one the row knows, unless two mails were under way at once,
\* one got lost, or an old object was saved over the token.
NewestLinkCounts ==
    \A a \in Accounts \ (mixed \union replaced) :
        (~account[a].verified /\ Sending(a) = {} /\ inbox[a] # <<>>) =>
            account[a].token = inbox[a][Len(inbox[a])]
=============================================================================
