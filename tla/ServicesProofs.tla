--------------------------- MODULE ServicesProofs ---------------------------
(***************************************************************************)
(* Proofs about the verification of e-mail addresses (EmailTokens) and the *)
(* maintenance tickets (Tickets), for any number of accounts, tickets,     *)
(* jobs and concurrent requests, and about the eight parts that MCServices *)
(* puts side by side.                                                      *)
(***************************************************************************)
EXTENDS MCServices, ProvidersProofs, BrowserProofs

(* ------------------------------ EmailTokens ---------------------------- *)

\* Only an account that was signed up has a row, mails and requests at work.
SignedUp ==
    /\ \A a \in Accounts : ~account[a].exists => ~account[a].verified /\ inbox[a] = <<>>
    /\ \A c \in Calls : call[c].pc # "idle" => account[call[c].account].exists

\* What is mailed is a token.
MailsTokens == \A c \in Calls : call[c].pc = "mail" => call[c].token \in Tokens

\* What a save holds: a verification sets the flag and uses the token up, a profile
\* that nobody overtook changes neither column, and a flag that is not about to be
\* written is set already or was taken back by an object out of date.
Holds(c) ==
    LET q == call[c]
        r == account[q.account]
    IN
    q.pc \in {"diff", "update"} =>
        /\ q.op \in {"verify", "save"}
        /\ q.op = "verify" => q.object.verified
        /\ q.op = "save" /\ ~q.late => q.object.verified = r.verified /\ q.object.token = r.token
        /\ q.pc = "update" /\ ~q.late => q.cols = Differing(c)
        /\ q.pc = "update" /\ q.op = "verify" /\ "verified" \notin q.cols =>
              r.verified \/ q.account \in replaced

\* Mails that never overlapped are sent one at a time, the token mailed is the one
\* stored, and between two mails the newest in the inbox is.
MailedOneByOne(a) ==
    /\ \A c, d \in Sending(a) : c = d
    /\ a \notin replaced /\ ~account[a].verified =>
          /\ \A c \in Calls : call[c].pc = "mail" /\ call[c].account = a =>
                                 account[a].token = call[c].token
          /\ (\A c \in Calls : ~(call[c].pc = "mail" /\ call[c].account = a))
                /\ inbox[a] # <<>> =>
             account[a].token = inbox[a][Len(inbox[a])]

Mailing == \A a \in Accounts \ mixed : MailedOneByOne(a)

EmailInv ==
    /\ EmailTypeOK
    /\ SignedUp /\ MailsTokens
    /\ \A c \in Calls : Holds(c)
    /\ VerifiedStays
    /\ Mailing

LEMMA NoCallType ==
    /\ NoCall \in Call
    /\ NoCall.pc = "idle" /\ NoCall.op = "none" /\ ~NoCall.late
    /\ NoAccount \in Account /\ ~NoAccount.verified /\ ~NoAccount.exists
  <1>1. NoAccount \in Account
    BY DEF NoAccount, Account
  <1>2. (CHOOSE a \in Accounts : TRUE) \in Accounts
    BY EmailAssumption DEF EmailAssumption
  <1> QED
    BY <1>1, <1>2 DEF NoCall, Call, NoAccount

LEMMA EmailInitInv == EmailInit => EmailInv
  <1> SUFFICES ASSUME EmailInit PROVE EmailInv
    OBVIOUS
  <1> USE NoCallType DEF EmailInit
  <1>1. EmailTypeOK
    BY DEF EmailTypeOK
  <1>2. SignedUp /\ MailsTokens
    BY DEF SignedUp, MailsTokens, NoAccount
  <1>3. \A c \in Calls : Holds(c)
    BY DEF Holds
  <1>4. VerifiedStays
    BY DEF VerifiedStays
  <1>5. Mailing
    BY DEF Mailing, MailedOneByOne, Sending
  <1> QED
    BY <1>1, <1>2, <1>3, <1>4, <1>5 DEF EmailInv

\* Entering a slot, and writing a row, changes the requests as follows.
LEMMA EnterType ==
    ASSUME EmailTypeOK, NEW c \in Calls, NEW q \in Call, Enter(c, q)
    PROVE  /\ call' \in [Calls -> Call]
           /\ call[c].pc = "idle" /\ call'[c] = q
           /\ \A d \in Calls \ {c} : call'[d] = call[d]
  BY DEF EmailTypeOK, Enter

\* Request d goes on, at most with an object that is out of date.
Aged(d) ==
    /\ call'[d].pc = call[d].pc /\ call'[d].op = call[d].op
    /\ call'[d].account = call[d].account
    /\ call'[d].object = call[d].object /\ call'[d].cols = call[d].cols
    /\ call'[d].token = call[d].token
    /\ call[d].late => call'[d].late

LEMMA WroteType ==
    ASSUME EmailTypeOK, NEW c \in Calls, NEW a, NEW after \in Call, Wrote(c, a, after)
    PROVE  /\ call' \in [Calls -> Call]
           /\ call'[c] = after
           /\ \A d \in Calls \ {c} :
                 /\ Aged(d)
                 /\ call[d].account = a /\ call[d].pc \in {"setToken", "diff", "update"} =>
                       call'[d].late
                 /\ call[d].account # a => call'[d] = call[d]
  <1>1. \A d \in Calls : [call[d] EXCEPT !.late = TRUE] \in Call
    BY DEF EmailTypeOK, Call
  <1>2. call' \in [Calls -> Call] /\ call'[c] = after
    BY <1>1 DEF EmailTypeOK, Wrote
  <1>3. ASSUME NEW d \in Calls \ {c}
        PROVE  /\ Aged(d)
               /\ call[d].account = a /\ call[d].pc \in {"setToken", "diff", "update"} =>
                     call'[d].late
               /\ call[d].account # a => call'[d] = call[d]
    BY <1>1 DEF EmailTypeOK, Wrote, Aged, Call
  <1> QED
    BY <1>2, <1>3

\* What SetToken does to the rows and the requests.
LEMMA SetEffect ==
    ASSUME EmailTypeOK, NEW c \in Calls, NEW t \in Tokens, SetToken(c, t),
           NEW a \in Accounts, a = call[c].account
    PROVE  /\ account' \in [Accounts -> Account]
           /\ \A b \in Accounts \ {a} : account'[b] = account[b]
           /\ account'[a].exists = account[a].exists
           /\ account'[a].verified = account[a].verified
           /\ account'[a].token = t
           /\ call' \in [Calls -> Call]
           /\ call'[c].pc = "mail" /\ call'[c].account = a /\ call'[c].token = t
           /\ \A d \in Calls \ {c} :
                 /\ Aged(d)
                 /\ call[d].account = a /\ call[d].pc \in {"setToken", "diff", "update"} =>
                       call'[d].late
                 /\ call[d].account # a => call'[d] = call[d]
  <1>1. account' = [account EXCEPT ![a].token = t, ![a].expired = FALSE]
    BY DEF SetToken
  <1>2. /\ account' \in [Accounts -> Account]
        /\ \A b \in Accounts \ {a} : account'[b] = account[b]
        /\ account'[a].exists = account[a].exists
        /\ account'[a].verified = account[a].verified
        /\ account'[a].token = t
    BY <1>1 DEF EmailTypeOK, Account
  <1> DEFINE q == [call[c] EXCEPT !.pc = "mail", !.token = t]
  <1>3. q \in Call /\ q.pc = "mail" /\ q.account = a /\ q.token = t
    BY DEF EmailTypeOK, Call
  <1>4. Wrote(c, a, q)
    BY DEF SetToken
  <1> HIDE DEF q
  <1> QED
    BY <1>2, <1>3, <1>4, WroteType

\* The UPDATE writes the columns in which the object differed, of one account.
LEMMA RowEffect ==
    ASSUME EmailTypeOK, NEW c \in Calls, UpdateUserRow(c),
           NEW a \in Accounts, a = call[c].account
    PROVE  /\ account' \in [Accounts -> Account]
           /\ \A b \in Accounts \ {a} : account'[b] = account[b]
           /\ account'[a].exists = account[a].exists
           /\ account'[a].verified = IF "verified" \in call[c].cols
                                     THEN call[c].object.verified ELSE account[a].verified
           /\ account'[a].token = IF "token" \in call[c].cols
                                  THEN call[c].object.token ELSE account[a].token
           /\ call' \in [Calls -> Call]
           /\ call'[c] = NoCall
           /\ \A d \in Calls \ {c} :
                 /\ Aged(d)
                 /\ call[c].cols # {} /\ call[d].account = a
                       /\ call[d].pc \in {"setToken", "diff", "update"} => call'[d].late
                 /\ call[c].cols = {} \/ call[d].account # a => call'[d] = call[d]
  <1> DEFINE v == IF "verified" \in call[c].cols THEN call[c].object.verified
                  ELSE account[a].verified
             t == IF "token" \in call[c].cols THEN call[c].object.token ELSE account[a].token
  <1>1. v \in BOOLEAN /\ t \in Tokens \union {NoToken}
    BY DEF EmailTypeOK, Call, Account
  <1>2. account' = [account EXCEPT ![a].verified = v, ![a].token = t]
    BY DEF UpdateUserRow
  <1> HIDE DEF v, t
  <1>3. /\ account' \in [Accounts -> Account]
        /\ \A b \in Accounts \ {a} : account'[b] = account[b]
        /\ account'[a].exists = account[a].exists
        /\ account'[a].verified = v
        /\ account'[a].token = t
    BY <1>1, <1>2 DEF EmailTypeOK, Account
  <1>4. CASE call[c].cols = {}
    <2>1. call' = [call EXCEPT ![c] = NoCall]
      BY <1>4 DEF UpdateUserRow
    <2>2. call' \in [Calls -> Call] /\ call'[c] = NoCall
          /\ \A d \in Calls \ {c} : call'[d] = call[d]
      BY <2>1, NoCallType DEF EmailTypeOK
    <2> QED
      BY <1>3, <1>4, <2>2 DEF v, t, Aged
  <1>5. CASE call[c].cols # {}
    <2>1. Wrote(c, a, NoCall)
      BY <1>5 DEF UpdateUserRow
    <2> QED
      BY <1>3, <1>5, <2>1, NoCallType, WroteType DEF v, t
  <1> QED
    BY <1>4, <1>5

LEMMA EmailTypeStep ==
    ASSUME EmailTypeOK, MailsTokens, [EmailNext]_emailVars
    PROVE  EmailTypeOK'
  <1> USE NoCallType DEF EmailTypeOK, emailHistory, Call, Account, AccountColumns
  <1>1. ASSUME NEW c \in Calls, NEW a \in Accounts, SignUpAccount(c, a) PROVE EmailTypeOK'
    BY <1>1 DEF SignUpAccount, StartSending, Enter
  <1>2. ASSUME NEW c \in Calls, NEW a \in Accounts, ResendVerificationEmail(c, a)
        PROVE  EmailTypeOK'
    BY <1>2 DEF ResendVerificationEmail, StartSending, Enter
  <1>3. ASSUME NEW c \in Calls, NEW a \in Accounts, UpdateUser(c, a) PROVE EmailTypeOK'
    <2>1. [NoCall EXCEPT !.pc = "diff", !.op = "save", !.account = a, !.object = account[a]] \in Call
      BY DEF Call
    <2>2. call' \in [Calls -> Call]
      BY <1>3, <2>1, EnterType DEF UpdateUser
    <2> QED
      BY <1>3, <2>2 DEF UpdateUser
  <1>4. ASSUME NEW c \in Calls, NEW a \in Accounts, NEW t \in Tokens, VerifyEmailWithToken(c, a, t)
        PROVE  EmailTypeOK'
    <2> DEFINE o == [account[a] EXCEPT !.verified = TRUE, !.token = NoToken]
    <2>1. o \in Account
      OBVIOUS
    <2> HIDE DEF o
    <2>2. [NoCall EXCEPT !.pc = "diff", !.op = "verify", !.account = a, !.object = o] \in Call
      BY <2>1 DEF Call
    <2>3. call' \in [Calls -> Call]
      BY <1>4, <2>2, EnterType DEF VerifyEmailWithToken, o
    <2> QED
      BY <1>4, <2>3 DEF VerifyEmailWithToken
  <1>5. ASSUME NEW c \in Calls, NEW t \in Tokens, SetToken(c, t) PROVE EmailTypeOK'
    <2>1. PICK a \in Accounts : a = call[c].account
      BY DEF Call
    <2>2. account' \in [Accounts -> Account] /\ call' \in [Calls -> Call]
      BY <1>5, <2>1, SetEffect
    <2> QED
      BY <1>5, <2>1, <2>2 DEF SetToken
  <1>6. ASSUME NEW c \in Calls, Mail(c) PROVE EmailTypeOK'
    <2>1. PICK a \in Accounts : a = call[c].account
      BY DEF Call
    <2>2. call[c].token \in Tokens
      BY <1>6 DEF Mail, MailsTokens
    <2>3. inbox' \in [Accounts -> Seq(Tokens)]
      BY <1>6, <2>1, <2>2 DEF Mail
    <2> QED
      BY <1>6, <2>3 DEF Mail
  <1>7. ASSUME NEW c \in Calls, DiffUser(c) PROVE EmailTypeOK'
    <2>1. Differing(c) \subseteq AccountColumns
      BY DEF Differing
    <2>2. [call[c] EXCEPT !.pc = "update", !.cols = Differing(c)] \in Call
      BY <2>1 DEF Call
    <2> QED
      BY <1>7, <2>2 DEF DiffUser
  <1>8. ASSUME NEW c \in Calls, UpdateUserRow(c) PROVE EmailTypeOK'
    <2>1. PICK a \in Accounts : a = call[c].account
      BY DEF Call
    <2>2. account' \in [Accounts -> Account] /\ call' \in [Calls -> Call]
      BY <1>8, <2>1, RowEffect
    <2> QED
      BY <1>8, <2>1, <2>2 DEF UpdateUserRow
  <1>9. ASSUME NEW c \in Calls, AbortCall(c) PROVE EmailTypeOK'
    BY <1>9 DEF AbortCall
  <1>10. ASSUME NEW a \in Accounts, Expire(a) PROVE EmailTypeOK'
    BY <1>10 DEF Expire
  <1>11. CASE UNCHANGED emailVars
    BY <1>11 DEF emailVars, emailHistory
  <1> QED
    BY <1>1, <1>2, <1>3, <1>4, <1>5, <1>6, <1>7, <1>8, <1>9, <1>10, <1>11 DEF EmailNext

LEMMA SignedUpStep ==
    ASSUME EmailTypeOK, SignedUp, [EmailNext]_emailVars
    PROVE  SignedUp'
  <1>0. EmailTypeOK /\ \A c \in Calls : call[c].account \in Accounts
    BY DEF EmailInv, EmailTypeOK, Call
  <1>1. ASSUME NEW c \in Calls, NEW a \in Accounts, SignUpAccount(c, a) PROVE SignedUp'
    BY <1>0, <1>1, NoCallType DEF SignUpAccount, StartSending, Enter, EmailTypeOK, SignedUp
  <1>2. ASSUME NEW c \in Calls, NEW a \in Accounts, ResendVerificationEmail(c, a)
        PROVE  SignedUp'
    BY <1>0, <1>2, NoCallType DEF ResendVerificationEmail, StartSending, Enter, SignedUp
  <1>3. ASSUME NEW c \in Calls, NEW a \in Accounts, UpdateUser(c, a) PROVE SignedUp'
    BY <1>0, <1>3, NoCallType DEF UpdateUser, Enter, SignedUp
  <1>4. ASSUME NEW c \in Calls, NEW a \in Accounts, NEW t \in Tokens, VerifyEmailWithToken(c, a, t)
        PROVE  SignedUp'
    BY <1>0, <1>4, NoCallType DEF VerifyEmailWithToken, Enter, SignedUp
  <1>5. ASSUME NEW c \in Calls, NEW t \in Tokens, SetToken(c, t) PROVE SignedUp'
    <2>1. PICK a \in Accounts : a = call[c].account
      BY <1>0
    <2>2. call[c].pc = "setToken" /\ inbox' = inbox
      BY <1>5, <2>1 DEF SetToken
    <2> QED
      BY <1>0, <1>5, <2>1, <2>2, SetEffect DEF Aged, SignedUp
  <1>6. ASSUME NEW c \in Calls, Mail(c) PROVE SignedUp'
    <2>1. PICK a \in Accounts : a = call[c].account
      BY <1>0
    <2>2. /\ account' = account /\ \A b \in Accounts \ {a} : inbox'[b] = inbox[b]
          /\ call' = [call EXCEPT ![c] = NoCall] /\ call[c].pc = "mail"
          /\ UNCHANGED emailHistory
      BY <1>0, <1>6, <2>1 DEF Mail, EmailTypeOK
    <2> QED
      BY <1>0, <2>1, <2>2, NoCallType DEF EmailTypeOK, emailHistory, SignedUp
  <1>7. ASSUME NEW c \in Calls, DiffUser(c) PROVE SignedUp'
    BY <1>0, <1>7, NoCallType DEF DiffUser, EmailTypeOK, SignedUp
  <1>8. ASSUME NEW c \in Calls, UpdateUserRow(c) PROVE SignedUp'
    <2>1. PICK a \in Accounts : a = call[c].account
      BY <1>0
    <2>2. call[c].pc = "update" /\ inbox' = inbox
      BY <1>8, <2>1 DEF UpdateUserRow
    <2> QED
      BY <1>0, <1>8, <2>1, <2>2, RowEffect, NoCallType DEF Aged, SignedUp
  <1>9. ASSUME NEW c \in Calls, AbortCall(c) PROVE SignedUp'
    BY <1>0, <1>9, NoCallType DEF AbortCall, SignedUp
  <1>10. ASSUME NEW a \in Accounts, Expire(a) PROVE SignedUp'
    <2>1. /\ account'[a].exists = account[a].exists
          /\ account'[a].verified = account[a].verified
          /\ account'[a].token = account[a].token
          /\ \A b \in Accounts \ {a} : account'[b] = account[b]
          /\ call' = call /\ inbox' = inbox /\ UNCHANGED emailHistory
      BY <1>0, <1>10 DEF Expire, EmailTypeOK, Account
    <2> QED
      BY <1>0, <2>1 DEF emailHistory, SignedUp
  <1>11. CASE UNCHANGED emailVars
    BY <1>11 DEF emailVars, emailHistory, SignedUp, NoAccount
  <1> QED
    BY <1>1, <1>2, <1>3, <1>4, <1>5, <1>6, <1>7, <1>8, <1>9, <1>10, <1>11 DEF EmailNext

LEMMA MailsTokensStep ==
    ASSUME EmailTypeOK, MailsTokens, [EmailNext]_emailVars
    PROVE  MailsTokens'
  <1>0. EmailTypeOK /\ \A c \in Calls : call[c].account \in Accounts
    BY DEF EmailInv, EmailTypeOK, Call
  <1>1. ASSUME NEW c \in Calls, NEW a \in Accounts, SignUpAccount(c, a) PROVE MailsTokens'
    BY <1>0, <1>1, NoCallType DEF SignUpAccount, StartSending, Enter, MailsTokens
  <1>2. ASSUME NEW c \in Calls, NEW a \in Accounts, ResendVerificationEmail(c, a)
        PROVE  MailsTokens'
    BY <1>0, <1>2, NoCallType DEF ResendVerificationEmail, StartSending, Enter, MailsTokens
  <1>3. ASSUME NEW c \in Calls, NEW a \in Accounts, UpdateUser(c, a) PROVE MailsTokens'
    BY <1>0, <1>3, NoCallType DEF UpdateUser, Enter, MailsTokens
  <1>4. ASSUME NEW c \in Calls, NEW a \in Accounts, NEW t \in Tokens, VerifyEmailWithToken(c, a, t)
        PROVE  MailsTokens'
    BY <1>0, <1>4, NoCallType DEF VerifyEmailWithToken, Enter, MailsTokens
  <1>5. ASSUME NEW c \in Calls, NEW t \in Tokens, SetToken(c, t) PROVE MailsTokens'
    <2>1. PICK a \in Accounts : a = call[c].account
      BY <1>0
    <2>2. call[c].pc = "setToken"
      BY <1>5, <2>1 DEF SetToken
    <2> QED
      BY <1>0, <1>5, <2>1, <2>2, SetEffect DEF Aged, MailsTokens
  <1>6. ASSUME NEW c \in Calls, Mail(c) PROVE MailsTokens'
    BY <1>0, <1>6, NoCallType
       DEF Mail, emailHistory, EmailTypeOK, Call, Account, MailsTokens
  <1>7. ASSUME NEW c \in Calls, DiffUser(c) PROVE MailsTokens'
    BY <1>0, <1>7, NoCallType
       DEF DiffUser, emailHistory, EmailTypeOK, Call, Account, MailsTokens
  <1>8. ASSUME NEW c \in Calls, UpdateUserRow(c) PROVE MailsTokens'
    <2>1. PICK a \in Accounts : a = call[c].account
      BY <1>0
    <2>2. call[c].pc = "update"
      BY <1>8, <2>1 DEF UpdateUserRow
    <2> QED
      BY <1>0, <1>8, <2>1, <2>2, RowEffect, NoCallType DEF Aged, MailsTokens
  <1>9. ASSUME NEW c \in Calls, AbortCall(c) PROVE MailsTokens'
    BY <1>0, <1>9, NoCallType
       DEF AbortCall, emailHistory, EmailTypeOK, Call, Account, MailsTokens
  <1>10. ASSUME NEW a \in Accounts, Expire(a) PROVE MailsTokens'
    BY <1>0, <1>10, NoCallType
       DEF Expire, emailHistory, EmailTypeOK, Call, Account, MailsTokens
  <1>11. CASE UNCHANGED emailVars
    BY <1>11 DEF emailVars, emailHistory, MailsTokens
  <1> QED
    BY <1>1, <1>2, <1>3, <1>4, <1>5, <1>6, <1>7, <1>8, <1>9, <1>10, <1>11 DEF EmailNext

LEMMA HoldsStep ==
    ASSUME EmailInv, NEW d \in Calls, [EmailNext]_emailVars
    PROVE  Holds(d)'
  <1>0. EmailTypeOK /\ \A c \in Calls : call[c].account \in Accounts
    BY DEF EmailInv, EmailTypeOK, Call
  <1>1. ASSUME NEW c \in Calls, NEW a \in Accounts, SignUpAccount(c, a) PROVE Holds(d)'
    BY <1>0, <1>1, NoCallType
       DEF SignUpAccount, StartSending, Enter, EmailInv, SignedUp, Holds, Differing
  <1>2. ASSUME NEW c \in Calls, NEW a \in Accounts, ResendVerificationEmail(c, a)
        PROVE  Holds(d)'
    BY <1>0, <1>2, NoCallType
       DEF ResendVerificationEmail, StartSending, Enter, EmailInv, Holds, Differing
  <1>3. ASSUME NEW c \in Calls, NEW a \in Accounts, UpdateUser(c, a) PROVE Holds(d)'
    BY <1>0, <1>3, NoCallType DEF UpdateUser, Enter, EmailInv, Holds, Differing
  <1>4. ASSUME NEW c \in Calls, NEW a \in Accounts, NEW t \in Tokens, VerifyEmailWithToken(c, a, t)
        PROVE  Holds(d)'
    BY <1>0, <1>4, NoCallType
       DEF VerifyEmailWithToken, Enter, emailHistory, EmailTypeOK, EmailInv, Holds,
           Differing
  <1>5. ASSUME NEW c \in Calls, NEW t \in Tokens, SetToken(c, t) PROVE Holds(d)'
    <2>1. PICK a \in Accounts : a = call[c].account
      BY <1>0
    <2>2. call[c].pc = "setToken" /\ replaced' = replaced
      BY <1>5, <2>1 DEF SetToken
    <2> QED
      BY <1>0, <1>5, <2>1, <2>2, SetEffect DEF Aged, EmailInv, Holds, Differing
  <1>6. ASSUME NEW c \in Calls, Mail(c) PROVE Holds(d)'
    BY <1>0, <1>6, NoCallType DEF Mail, emailHistory, EmailInv, Holds, Differing
  <1>7. ASSUME NEW c \in Calls, DiffUser(c) PROVE Holds(d)'
    BY <1>0, <1>7, NoCallType
       DEF DiffUser, emailHistory, EmailTypeOK, EmailInv, Holds, Differing, AccountColumns
  <1>8. ASSUME NEW c \in Calls, UpdateUserRow(c) PROVE Holds(d)'
    <2>1. PICK a \in Accounts : a = call[c].account
      BY <1>0
    <2>2. /\ call[c].pc = "update"
          /\ replaced' = IF call[c].late /\ call[c].cols # {} THEN replaced \union {a} ELSE replaced
      BY <1>8, <2>1 DEF UpdateUserRow
    <2> QED
      BY <1>0, <1>8, <2>1, <2>2, RowEffect, NoCallType
         DEF Aged, EmailInv, Holds, Differing, AccountColumns
  <1>9. ASSUME NEW c \in Calls, AbortCall(c) PROVE Holds(d)'
    BY <1>0, <1>9, NoCallType DEF AbortCall, EmailInv, Holds, Differing
  <1>10. ASSUME NEW a \in Accounts, Expire(a) PROVE Holds(d)'
    <2>1. /\ account'[a].exists = account[a].exists
          /\ account'[a].verified = account[a].verified
          /\ account'[a].token = account[a].token
          /\ \A b \in Accounts \ {a} : account'[b] = account[b]
          /\ call' = call /\ inbox' = inbox /\ UNCHANGED emailHistory
      BY <1>0, <1>10 DEF Expire, EmailTypeOK, Account
    <2> QED
      BY <1>0, <2>1 DEF emailHistory, EmailInv, SignedUp, Holds, Differing, AccountColumns
  <1>11. CASE UNCHANGED emailVars
    BY <1>11
       DEF emailVars, emailHistory, EmailInv, SignedUp, Holds, Differing, AccountColumns
  <1> QED
    BY <1>1, <1>2, <1>3, <1>4, <1>5, <1>6, <1>7, <1>8, <1>9, <1>10, <1>11 DEF EmailNext

LEMMA VerifiedStep ==
    ASSUME EmailInv, [EmailNext]_emailVars
    PROVE  VerifiedStays'
  <1>0. EmailTypeOK /\ confirmed \subseteq Accounts /\ \A c \in Calls : call[c].account \in Accounts
    BY DEF EmailInv, EmailTypeOK, Call
  <1>1. ASSUME NEW c \in Calls, NEW a \in Accounts, SignUpAccount(c, a) PROVE VerifiedStays'
    BY <1>0, <1>1, NoCallType DEF SignUpAccount, EmailInv, SignedUp, VerifiedStays
  <1>2. ASSUME NEW c \in Calls, NEW a \in Accounts, ResendVerificationEmail(c, a)
        PROVE  VerifiedStays'
    BY <1>0, <1>2, NoCallType DEF ResendVerificationEmail, EmailInv, VerifiedStays
  <1>3. ASSUME NEW c \in Calls, NEW a \in Accounts, UpdateUser(c, a) PROVE VerifiedStays'
    BY <1>0, <1>3, NoCallType DEF UpdateUser, EmailInv, VerifiedStays
  <1>4. ASSUME NEW c \in Calls, NEW a \in Accounts, NEW t \in Tokens, VerifyEmailWithToken(c, a, t)
        PROVE  VerifiedStays'
    BY <1>0, <1>4, NoCallType
       DEF VerifyEmailWithToken, emailHistory, EmailInv, VerifiedStays
  <1>5. ASSUME NEW c \in Calls, NEW t \in Tokens, SetToken(c, t) PROVE VerifiedStays'
    <2>1. PICK a \in Accounts : a = call[c].account
      BY <1>0
    <2>2. call[c].pc = "setToken" /\ replaced' = replaced /\ confirmed' = confirmed
      BY <1>5, <2>1 DEF SetToken
    <2> QED
      BY <1>0, <1>5, <2>1, <2>2, SetEffect DEF EmailInv, VerifiedStays
  <1>6. ASSUME NEW c \in Calls, Mail(c) PROVE VerifiedStays'
    BY <1>0, <1>6, NoCallType DEF Mail, emailHistory, EmailInv, VerifiedStays
  <1>7. ASSUME NEW c \in Calls, DiffUser(c) PROVE VerifiedStays'
    BY <1>0, <1>7, NoCallType DEF DiffUser, emailHistory, EmailInv, VerifiedStays
  <1>8. ASSUME NEW c \in Calls, UpdateUserRow(c) PROVE VerifiedStays'
    <2>1. PICK a \in Accounts : a = call[c].account
      BY <1>0
    <2>2. /\ call[c].pc = "update"
          /\ replaced' = IF call[c].late /\ call[c].cols # {} THEN replaced \union {a} ELSE replaced
          /\ confirmed' = IF call[c].op = "verify" THEN confirmed \union {a} ELSE confirmed
      BY <1>8, <2>1 DEF UpdateUserRow
    <2>3. VerifiedStays /\ Holds(c)
      BY DEF EmailInv
    <2>4. a \in confirmed' \ replaced' => account'[a].verified
      <3>1. CASE "verified" \notin call[c].cols
        BY <1>0, <1>8, <2>1, <2>2, <2>3, <3>1, RowEffect DEF VerifiedStays, Holds
      <3>2. CASE "verified" \in call[c].cols /\ call[c].op = "verify"
        BY <1>0, <1>8, <2>1, <2>2, <2>3, <3>2, RowEffect DEF Holds
      <3>3. CASE "verified" \in call[c].cols /\ call[c].op = "save"
        <4>1. call[c].late
          BY <2>1, <2>2, <2>3, <3>3 DEF Holds, Differing
        <4> QED
          BY <2>2, <3>3, <4>1
      <3> QED
        BY <2>2, <2>3, <3>1, <3>2, <3>3 DEF Holds
    <2> QED
      BY <1>0, <1>8, <2>1, <2>2, <2>3, <2>4, RowEffect DEF VerifiedStays
  <1>9. ASSUME NEW c \in Calls, AbortCall(c) PROVE VerifiedStays'
    BY <1>0, <1>9, NoCallType DEF AbortCall, EmailInv, VerifiedStays
  <1>10. ASSUME NEW a \in Accounts, Expire(a) PROVE VerifiedStays'
    <2>1. /\ account'[a].exists = account[a].exists
          /\ account'[a].verified = account[a].verified
          /\ account'[a].token = account[a].token
          /\ \A b \in Accounts \ {a} : account'[b] = account[b]
          /\ call' = call /\ inbox' = inbox /\ UNCHANGED emailHistory
      BY <1>0, <1>10 DEF Expire, EmailTypeOK, Account
    <2> QED
      BY <1>0, <2>1 DEF emailHistory, EmailInv, VerifiedStays
  <1>11. CASE UNCHANGED emailVars
    BY <1>11 DEF emailVars, emailHistory, EmailInv, VerifiedStays
  <1> QED
    BY <1>1, <1>2, <1>3, <1>4, <1>5, <1>6, <1>7, <1>8, <1>9, <1>10, <1>11 DEF EmailNext

LEMMA MailingStep ==
    ASSUME EmailInv, [EmailNext]_emailVars
    PROVE  Mailing'
  <1>0. EmailTypeOK /\ \A c \in Calls : call[c].account \in Accounts
    BY DEF EmailInv, EmailTypeOK, Call
  <1>1. ASSUME NEW c \in Calls, NEW a \in Accounts, SignUpAccount(c, a) PROVE Mailing'
    BY <1>0, <1>1, NoCallType
       DEF SignUpAccount, StartSending, Enter, EmailInv, SignedUp, Mailing,
           MailedOneByOne, Sending
  <1>2. ASSUME NEW c \in Calls, NEW a \in Accounts, ResendVerificationEmail(c, a)
        PROVE  Mailing'
    BY <1>0, <1>2, NoCallType
       DEF ResendVerificationEmail, StartSending, Enter, EmailInv, Mailing,
           MailedOneByOne, Sending
  <1>3. ASSUME NEW c \in Calls, NEW a \in Accounts, UpdateUser(c, a) PROVE Mailing'
    BY <1>0, <1>3, NoCallType
       DEF UpdateUser, Enter, EmailInv, Mailing, MailedOneByOne, Sending
  <1>4. ASSUME NEW c \in Calls, NEW a \in Accounts, NEW t \in Tokens, VerifyEmailWithToken(c, a, t)
        PROVE  Mailing'
    BY <1>0, <1>4, NoCallType
       DEF VerifyEmailWithToken, Enter, emailHistory, EmailInv, Mailing, MailedOneByOne,
           Sending
  <1>5. ASSUME NEW c \in Calls, NEW t \in Tokens, SetToken(c, t) PROVE Mailing'
    <2>1. PICK a \in Accounts : a = call[c].account
      BY <1>0
    <2>2. /\ call[c].pc = "setToken" /\ replaced' = replaced
          /\ mixed' = IF call[c].late THEN mixed \union {a} ELSE mixed
          /\ inbox' = inbox
      BY <1>5, <2>1 DEF SetToken
    <2>3. /\ \A b \in Accounts \ {a} : account'[b] = account[b]
          /\ account'[a].token = t
          /\ call'[c].pc = "mail" /\ call'[c].account = a /\ call'[c].token = t
          /\ \A d \in Calls \ {c} : Aged(d)
      BY <1>0, <1>5, <2>1, SetEffect
    <2>4. \A b \in Accounts : Sending(b)' = Sending(b)
      BY <2>1, <2>2, <2>3 DEF Sending, Aged
    <2>5. ASSUME NEW b \in Accounts \ mixed', b # a PROVE MailedOneByOne(b)'
      <3>1. MailedOneByOne(b)
        BY <2>2, <2>5 DEF EmailInv, Mailing
      <3>2. \A d \in Calls : /\ call'[d].account = b <=> call[d].account = b
                             /\ call[d].account = b => call'[d].pc = call[d].pc
                                                        /\ call'[d].token = call[d].token
        BY <2>1, <2>3, <2>5 DEF Aged
      <3> QED
        BY <2>2, <2>3, <2>4, <2>5, <3>1, <3>2 DEF MailedOneByOne
    <2>6. ASSUME a \notin mixed' PROVE MailedOneByOne(a)'
      <3>1. MailedOneByOne(a)
        BY <2>2, <2>6 DEF EmailInv, Mailing
      <3>2. \A d \in Calls : call'[d].pc = "mail" /\ call'[d].account = a => d = c
        BY <2>1, <2>2, <2>3, <3>1 DEF Aged, MailedOneByOne, Sending
      <3> QED
        BY <2>3, <2>4, <3>1, <3>2 DEF MailedOneByOne
    <2> QED
      BY <2>5, <2>6 DEF Mailing
  <1>6. ASSUME NEW c \in Calls, Mail(c) PROVE Mailing'
    BY <1>0, <1>6, NoCallType
       DEF Mail, emailHistory, EmailTypeOK, EmailInv, Mailing, MailedOneByOne, Sending
  <1>7. ASSUME NEW c \in Calls, DiffUser(c) PROVE Mailing'
    <2>1. \A d \in Calls : /\ call'[d].account = call[d].account
                           /\ call'[d].token = call[d].token
                           /\ d # c => call'[d].pc = call[d].pc
      BY <1>0, <1>7 DEF DiffUser, EmailTypeOK, Call
    <2>2. /\ call[c].pc = "diff" /\ call'[c].pc = "update"
          /\ UNCHANGED <<account, inbox, replaced, mixed>>
      BY <1>0, <1>7 DEF DiffUser, EmailTypeOK, Call, emailHistory
    <2> QED
      BY <2>1, <2>2 DEF EmailInv, Mailing, MailedOneByOne, Sending
  <1>8. ASSUME NEW c \in Calls, UpdateUserRow(c) PROVE Mailing'
    <2>1. PICK a \in Accounts : a = call[c].account
      BY <1>0
    <2>2. /\ call[c].pc = "update"
          /\ replaced' = IF call[c].late /\ call[c].cols # {} THEN replaced \union {a} ELSE replaced
          /\ inbox' = inbox /\ mixed' = mixed
      BY <1>8, <2>1 DEF UpdateUserRow
    <2> QED
      BY <1>0, <1>8, <2>1, <2>2, RowEffect, NoCallType
         DEF Aged, EmailInv, Holds, Mailing, MailedOneByOne, Sending
  <1>9. ASSUME NEW c \in Calls, AbortCall(c) PROVE Mailing'
    BY <1>0, <1>9, NoCallType DEF AbortCall, EmailInv, Mailing, MailedOneByOne, Sending
  <1>10. ASSUME NEW a \in Accounts, Expire(a) PROVE Mailing'
    <2>1. /\ account'[a].exists = account[a].exists
          /\ account'[a].verified = account[a].verified
          /\ account'[a].token = account[a].token
          /\ \A b \in Accounts \ {a} : account'[b] = account[b]
          /\ call' = call /\ inbox' = inbox /\ UNCHANGED emailHistory
      BY <1>0, <1>10 DEF Expire, EmailTypeOK, Account
    <2> QED
      BY <1>0, <2>1 DEF emailHistory, EmailInv, Mailing, MailedOneByOne, Sending
  <1>11. CASE UNCHANGED emailVars
    BY <1>11 DEF emailVars, emailHistory, EmailInv, Mailing, MailedOneByOne, Sending
  <1> QED
    BY <1>1, <1>2, <1>3, <1>4, <1>5, <1>6, <1>7, <1>8, <1>9, <1>10, <1>11 DEF EmailNext

LEMMA EmailStep == EmailInv /\ [EmailNext]_emailVars => EmailInv'
  <1> SUFFICES ASSUME EmailInv, [EmailNext]_emailVars PROVE EmailInv'
    OBVIOUS
  <1>1. EmailTypeOK' /\ SignedUp' /\ MailsTokens'
    BY EmailTypeStep, SignedUpStep, MailsTokensStep DEF EmailInv
  <1>2. \A c \in Calls : Holds(c)'
    BY HoldsStep
  <1> QED
    BY <1>1, <1>2, VerifiedStep, MailingStep DEF EmailInv

LEMMA EmailAlways == EmailSpec => []EmailInv
  BY EmailInitInv, EmailStep, PTL DEF EmailSpec

\* Every variable of EmailTokens keeps its type, whatever requests meet or die.
THEOREM EmailTypeCorrect == EmailSpec => []EmailTypeOK
  <1>1. EmailInv => EmailTypeOK
    BY DEF EmailInv
  <1> QED
    BY <1>1, EmailAlways, PTL

\* Who has been told that the address is verified is verified, unless the row was
\* saved from an object read before (updateUserRow of a profile, a role or a link).
THEOREM EmailVerifiedStays == EmailSpec => []VerifiedStays
  <1>1. EmailInv => VerifiedStays
    BY DEF EmailInv
  <1> QED
    BY <1>1, EmailAlways, PTL

\* While nothing is being sent to an address that is not verified, the newest link in
\* its inbox is the one the row knows, unless two mails overlapped, one got lost, or
\* an object out of date was saved.
THEOREM EmailNewestLinkCounts == EmailSpec => []NewestLinkCounts
  <1>1. ASSUME EmailInv PROVE NewestLinkCounts
    BY <1>1 DEF EmailInv, Mailing, MailedOneByOne, NewestLinkCounts, Sending
  <1> QED
    BY <1>1, EmailAlways, PTL

(* -------------------------------- Tickets ------------------------------ *)

\* Only a ticket that was filed has a row, requests and jobs.
OnlyFiled ==
    /\ \A t \in TicketKeys : ticket[t].exists => t \in filed
    /\ \A s \in TicketSlots : treq[s].pc # "idle" => treq[s].ticket \in filed
    /\ \A j \in JobKeys : madeFor[j] \in TicketKeys => madeFor[j] \in filed

\* The object of a request: it keeps the job the row has had since it was read, and
\* answers the job that was made for it.
Carries(s) ==
    LET q == treq[s]
        r == ticket[q.ticket]
    IN
    /\ q.made # NoKey => madeFor[q.made] = q.ticket /\ q.answer.job = q.made
    /\ q.pc \in {"idle", "makeJob", "remove"} => q.made = NoKey
    /\ q.pc # "idle" =>
          /\ q.row.exists /\ q.answer.exists
          /\ q.row.status = q.answer.status
          /\ ~q.stale => r.exists /\ (r.job # NoKey => q.row.job = r.job)
          /\ ~q.stale /\ q.pc = "update" => q.cols = DiffersIn(s)

TicketsInv ==
    /\ TicketsTypeOK
    /\ OnlyFiled
    /\ \A s \in TicketSlots : Carries(s)
    /\ AnswersTrue
    /\ JobsLinked

LEMMA NoTicketType ==
    /\ NoTicket \in TicketRow /\ ~NoTicket.exists /\ NoTicket.job = NoKey
    /\ NoTicketRequest \in TicketRequest
    /\ NoTicketRequest.pc = "idle" /\ NoTicketRequest.made = NoKey
    /\ NoTicketRequest.ticket = NoKey
  <1>1. NoTicket \in TicketRow /\ ~NoTicket.exists /\ NoTicket.job = NoKey
    BY DEF NoTicket, TicketRow, TicketStatus
  <1> QED
    BY <1>1 DEF NoTicketRequest, TicketRequest

LEMMA TicketsInitInv == TicketsInit => TicketsInv
  <1> SUFFICES ASSUME TicketsInit PROVE TicketsInv
    OBVIOUS
  <1> USE NoTicketType, TicketsAssumption DEF TicketsInit, TicketsAssumption
  <1>1. TicketsTypeOK
    BY DEF TicketsTypeOK
  <1>2. OnlyFiled
    BY DEF OnlyFiled
  <1>3. \A s \in TicketSlots : Carries(s)
    BY DEF Carries
  <1>4. AnswersTrue /\ JobsLinked
    BY DEF AnswersTrue, JobsLinked, StoredJobs
  <1> QED
    BY <1>1, <1>2, <1>3, <1>4 DEF TicketsInv

-----------------------------------------------------------------------------
(* The steps of a request                                                  *)

\* A request begins: nothing but its slot changes.
LEMMA StartEffect ==
    ASSUME TicketsTypeOK, NEW s \in TicketSlots, NEW t \in TicketKeys,
           NEW pc \in {"makeJob", "diff", "remove"}, NEW asked \in TicketRow,
           StartTicket(s, t, pc, asked)
    PROVE  /\ ticket[t].exists /\ treq[s].pc = "idle"
           /\ treq' \in [TicketSlots -> TicketRequest]
           /\ treq'[s].pc = pc /\ treq'[s].ticket = t
           /\ treq'[s].row = Stores(ticket[t], asked) /\ treq'[s].answer = asked
           /\ treq'[s].made = NoKey /\ ~treq'[s].stale
           /\ \A r \in TicketSlots \ {s} : treq'[r] = treq[r]
           /\ tbegun' = tbegun + 1
           /\ UNCHANGED <<ticket, madeFor, filed, claimed, occupied, overwritten, unlinked>>
  <1> DEFINE row == Stores(ticket[t], asked)
             q == [NoTicketRequest EXCEPT !.pc = pc, !.ticket = t, !.row = row, !.answer = asked]
  <1>1. row \in TicketRow
    BY DEF TicketsTypeOK, TicketRow, Stores
  <1>2. treq' = [treq EXCEPT ![s] = q]
    BY DEF StartTicket
  <1>3. /\ ticket[t].exists /\ treq[s].pc = "idle" /\ tbegun' = tbegun + 1
        /\ UNCHANGED <<ticket, madeFor, filed, claimed, occupied, overwritten, unlinked>>
    BY DEF StartTicket
  <1>4. NoTicketRequest.made = NoKey /\ ~NoTicketRequest.stale
    BY DEF NoTicketRequest
  <1> HIDE DEF row
  <1>5. /\ q \in TicketRequest
        /\ q.pc = pc /\ q.ticket = t /\ q.row = row /\ q.answer = asked
        /\ q.made = NoKey /\ ~q.stale
    BY <1>1, <1>4, NoTicketType DEF TicketRequest
  <1> HIDE DEF q
  <1>6. /\ treq' \in [TicketSlots -> TicketRequest] /\ treq'[s] = q
        /\ \A r \in TicketSlots \ {s} : treq'[r] = treq[r]
    BY <1>2, <1>5 DEF TicketsTypeOK
  <1> QED
    BY <1>3, <1>5, <1>6 DEF row

\* What the handlers ask for.
LEMMA HandlersStart ==
    ASSUME TicketsTypeOK, NEW s \in TicketSlots, NEW t \in TicketKeys, HandleTicket(s, t)
    PROVE  \E pc \in {"makeJob", "diff", "remove"}, asked \in TicketRow :
              asked.exists = ticket[t].exists /\ StartTicket(s, t, pc, asked)
  <1>0. ticket[t] \in TicketRow
    BY DEF TicketsTypeOK
  <1>1. ASSUME NEW w \in Workers, AssignTicketProvider(s, t, w)
        PROVE  \E asked \in TicketRow :
                  asked.exists = ticket[t].exists /\ StartTicket(s, t, "diff", asked)
    BY <1>0, <1>1 DEF AssignTicketProvider, TicketRow, TicketStatus
  <1>2. ASSUME NEW status \in TicketStatus, UpdateTicketStatus(s, t, status)
        PROVE  \E asked \in TicketRow :
                  asked.exists = ticket[t].exists /\ StartTicket(s, t, "diff", asked)
    BY <1>0, <1>2 DEF UpdateTicketStatus, TicketRow
  <1>3. ASSUME NEW new \in TicketRow, UpdateTicket(s, t, new)
        PROVE  \E asked \in TicketRow :
                  asked.exists = ticket[t].exists /\ StartTicket(s, t, "diff", asked)
    <2>1. StartTicket(s, t, "diff", new) /\ new.exists /\ ticket[t].exists
      BY <1>3 DEF UpdateTicket, StartTicket
    <2>2. new.exists = ticket[t].exists
      BY <1>0, <2>1 DEF TicketRow
    <2> QED
      BY <2>1, <2>2
  <1>4. ASSUME NEW j \in JobKeys, LinkJob(s, t, j)
        PROVE  \E asked \in TicketRow :
                  asked.exists = ticket[t].exists /\ StartTicket(s, t, "diff", asked)
    BY <1>0, <1>4 DEF LinkJob, TicketRow
  <1>5. CASE CreateJobFromTicket(s, t)
    BY <1>0, <1>5 DEF CreateJobFromTicket
  <1>6. CASE RemoveTicket(s, t)
    BY <1>0, <1>6 DEF RemoveTicket
  <1> QED
    BY <1>1, <1>2, <1>3, <1>4, <1>5, <1>6 DEF HandleTicket

\* Request r goes on, with an object out of date when its ticket is t.
Outdated(r, t) ==
    /\ treq'[r].pc = treq[r].pc /\ treq'[r].ticket = treq[r].ticket
    /\ treq'[r].row = treq[r].row /\ treq'[r].answer = treq[r].answer
    /\ treq'[r].cols = treq[r].cols /\ treq'[r].made = treq[r].made
    /\ treq'[r].stale <=> treq[r].stale \/ treq[r].ticket = t

\* A ticket is written: who has read it holds an object out of date.
LEMMA WroteEffect ==
    ASSUME TicketsTypeOK, NEW s \in TicketSlots, NEW t, WroteTicket(s, t, NoTicketRequest)
    PROVE  /\ treq' \in [TicketSlots -> TicketRequest]
           /\ treq'[s] = NoTicketRequest
           /\ \A r \in TicketSlots \ {s} : Outdated(r, t)
  <1>1. \A r \in TicketSlots : [treq[r] EXCEPT !.stale = TRUE] \in TicketRequest
    BY DEF TicketsTypeOK, TicketRequest
  <1>2. treq' \in [TicketSlots -> TicketRequest] /\ treq'[s] = NoTicketRequest
    BY <1>1, NoTicketType DEF TicketsTypeOK, WroteTicket
  <1>3. ASSUME NEW r \in TicketSlots \ {s} PROVE Outdated(r, t)
    BY DEF TicketsTypeOK, TicketRequest, WroteTicket, Outdated
  <1> QED
    BY <1>2, <1>3

\* What SaveTicket, ReinsertTicket and DeleteTicket do to the row of their ticket.
LEMMA SavedEffect ==
    ASSUME TicketsTypeOK, OnlyFiled, NEW s \in TicketSlots, SaveTicket(s),
           NEW t \in TicketKeys, t = treq[s].ticket
    PROVE  /\ ticket' \in [TicketKeys -> TicketRow]
           /\ \A u \in TicketKeys \ {t} : ticket'[u] = ticket[u]
           /\ ticket'[t].exists = ticket[t].exists
           /\ ticket[t].exists => \A c \in {"status", "provider", "job"} :
                 ticket'[t][c] = IF c \in treq[s].cols THEN treq[s].row[c] ELSE ticket[t][c]
  <1> DEFINE to(c) == IF c \in treq[s].cols THEN treq[s].row[c] ELSE ticket[t][c]
             new == [exists |-> TRUE, status |-> to("status"), provider |-> to("provider"),
                     job |-> to("job")]
  <1>1. new \in TicketRow
    BY DEF TicketsTypeOK, TicketRequest, TicketRow
  <1>2. ticket' = IF ticket[t].exists THEN [ticket EXCEPT ![t] = new] ELSE ticket
    BY DEF SaveTicket
  <1>3. new.exists /\ \A c \in {"status", "provider", "job"} : new[c] = to(c)
    OBVIOUS
  <1> HIDE DEF new
  <1> QED
    BY <1>1, <1>2, <1>3 DEF TicketsTypeOK

LEMMA TicketsTypeStep ==
    ASSUME TicketsTypeOK, OnlyFiled, [TicketsNext]_ticketsVars
    PROVE  TicketsTypeOK'
  <1>0. \A s \in TicketSlots : treq[s].pc # "idle" => treq[s].ticket \in TicketKeys
    BY DEF TicketsTypeOK, OnlyFiled
  <1>1. ASSUME NEW t \in TicketKeys, CreateTicket(t) PROVE TicketsTypeOK'
    <2>1. [NoTicket EXCEPT !.exists = TRUE] \in TicketRow
      BY NoTicketType DEF TicketRow
    <2> QED
      BY <1>1, <2>1 DEF CreateTicket, TicketsTypeOK
  <1>2. ASSUME NEW j \in JobKeys, CreateOtherJob(j) PROVE TicketsTypeOK'
    BY <1>2 DEF CreateOtherJob, TicketsTypeOK, ticketHistory
  <1>3. ASSUME NEW s \in TicketSlots, NEW t \in TicketKeys, HandleTicket(s, t)
        PROVE  TicketsTypeOK'
    <2>1. PICK pc \in {"makeJob", "diff", "remove"}, asked \in TicketRow :
             StartTicket(s, t, pc, asked)
      BY <1>3, HandlersStart
    <2> QED
      BY <2>1, StartEffect DEF TicketsTypeOK
  <1>4. ASSUME NEW s \in TicketSlots, NEW j \in JobKeys, MakeJob(s, j) PROVE TicketsTypeOK'
    <2> DEFINE asked == [treq[s].answer EXCEPT !.job = j]
               q == [treq[s] EXCEPT !.pc = "diff", !.made = j, !.answer = asked,
                                    !.row = Stores(treq[s].row, asked)]
    <2>0. treq[s] \in TicketRequest /\ treq[s].answer \in TicketRow
      BY DEF TicketsTypeOK, TicketRequest
    <2>1. asked \in TicketRow
      BY <2>0 DEF TicketRow
    <2>2. Stores(treq[s].row, asked) \in TicketRow
      BY <2>1 DEF TicketsTypeOK, TicketRequest, TicketRow, Stores
    <2> HIDE DEF asked
    <2>3. q \in TicketRequest
      BY <2>1, <2>2 DEF TicketsTypeOK, TicketRequest
    <2> HIDE DEF q
    <2>4. treq' = [treq EXCEPT ![s] = q]
      BY <1>4 DEF MakeJob, q, asked
    <2>5. treq[s].ticket \in TicketKeys
      BY <1>0, <1>4 DEF MakeJob
    <2> QED
      BY <1>4, <2>3, <2>4, <2>5 DEF MakeJob, TicketsTypeOK, ticketHistory
  <1>5. ASSUME NEW s \in TicketSlots, DiffTicket(s) PROVE TicketsTypeOK'
    <2>1. treq[s].ticket \in TicketKeys /\ treq[s].answer \in TicketRow
      BY <1>0, <1>5 DEF DiffTicket, TicketsTypeOK, TicketRequest
    <2>2. /\ [treq[s] EXCEPT !.pc = "reinsert"] \in TicketRequest
          /\ [treq[s] EXCEPT !.pc = "update", !.cols = DiffersIn(s)] \in TicketRequest
      BY DEF TicketsTypeOK, TicketRequest, DiffersIn
    <2>3. treq' \in [TicketSlots -> TicketRequest]
      BY <1>5, <2>2, NoTicketType DEF DiffTicket, TicketsTypeOK
    <2>4. claimed' \in [TicketKeys -> TicketRow] /\ occupied' \in SUBSET TicketKeys
      BY <1>5, <2>1 DEF DiffTicket, Answered, TicketsTypeOK
    <2> QED
      BY <1>5, <2>3, <2>4 DEF DiffTicket, TicketsTypeOK
  <1>6. ASSUME NEW s \in TicketSlots, SaveTicket(s) PROVE TicketsTypeOK'
    <2>1. treq[s].ticket \in TicketKeys /\ treq[s].answer \in TicketRow
      BY <1>0, <1>6 DEF SaveTicket, TicketsTypeOK, TicketRequest
    <2>2. ticket' \in [TicketKeys -> TicketRow]
      BY <1>6, <2>1, SavedEffect
    <2>3. treq' \in [TicketSlots -> TicketRequest]
      BY <1>6, WroteEffect DEF SaveTicket
    <2> QED
      BY <1>6, <2>1, <2>2, <2>3 DEF SaveTicket, Answered, TicketsTypeOK
  <1>7. ASSUME NEW s \in TicketSlots, ReinsertTicket(s) PROVE TicketsTypeOK'
    <2>1. /\ treq[s].ticket \in TicketKeys
          /\ treq[s].answer \in TicketRow /\ treq[s].row \in TicketRow
      BY <1>0, <1>7 DEF ReinsertTicket, TicketsTypeOK, TicketRequest
    <2>2. treq' \in [TicketSlots -> TicketRequest]
      BY <1>7, WroteEffect DEF ReinsertTicket
    <2> QED
      BY <1>7, <2>1, <2>2 DEF ReinsertTicket, Answered, TicketsTypeOK
  <1>8. ASSUME NEW s \in TicketSlots, DeleteTicket(s) PROVE TicketsTypeOK'
    <2>1. treq' \in [TicketSlots -> TicketRequest]
      BY <1>8, WroteEffect DEF DeleteTicket
    <2> QED
      BY <1>8, <2>1, NoTicketType DEF DeleteTicket, TicketsTypeOK, ticketHistory
  <1>9. ASSUME NEW s \in TicketSlots, AbortTicket(s) PROVE TicketsTypeOK'
    <2>1. treq[s].made \in JobKeys \union {NoKey}
      BY DEF TicketsTypeOK, TicketRequest
    <2> QED
      BY <1>9, <2>1, NoTicketType DEF AbortTicket, TicketsTypeOK
  <1>10. CASE UNCHANGED ticketsVars
    BY <1>10 DEF ticketsVars, ticketHistory, TicketsTypeOK
  <1> QED
    BY <1>1, <1>2, <1>3, <1>4, <1>5, <1>6, <1>7, <1>8, <1>9, <1>10
       DEF TicketsNext, ContinueTicket

LEMMA OnlyFiledStep ==
    ASSUME TicketsTypeOK, OnlyFiled, [TicketsNext]_ticketsVars
    PROVE  OnlyFiled'
  <1>0. /\ filed \subseteq TicketKeys
        /\ \A s \in TicketSlots : treq[s].pc # "idle" => treq[s].ticket \in TicketKeys
    BY DEF TicketsTypeOK, OnlyFiled
  <1>1. ASSUME NEW t \in TicketKeys, CreateTicket(t) PROVE OnlyFiled'
    BY <1>1 DEF CreateTicket, TicketsTypeOK, OnlyFiled
  <1>2. ASSUME NEW j \in JobKeys, CreateOtherJob(j) PROVE OnlyFiled'
    BY <1>2, TicketsAssumption DEF CreateOtherJob, TicketsTypeOK, OnlyFiled, ticketHistory,
       TicketsAssumption
  <1>3. ASSUME NEW s \in TicketSlots, NEW t \in TicketKeys, HandleTicket(s, t) PROVE OnlyFiled'
    <2>1. PICK pc \in {"makeJob", "diff", "remove"}, asked \in TicketRow :
             StartTicket(s, t, pc, asked)
      BY <1>3, HandlersStart
    <2> QED
      BY <2>1, StartEffect DEF OnlyFiled
  <1>4. ASSUME NEW s \in TicketSlots, NEW j \in JobKeys, MakeJob(s, j) PROVE OnlyFiled'
    <2>1. /\ treq'[s].ticket = treq[s].ticket /\ treq[s].pc # "idle"
          /\ \A r \in TicketSlots \ {s} : treq'[r] = treq[r]
          /\ madeFor' = [madeFor EXCEPT ![j] = treq[s].ticket]
          /\ UNCHANGED <<ticket, filed>>
      BY <1>4 DEF MakeJob, TicketsTypeOK, TicketRequest, ticketHistory
    <2> QED
      BY <2>1 DEF OnlyFiled, TicketsTypeOK
  <1>5. ASSUME NEW s \in TicketSlots, DiffTicket(s) PROVE OnlyFiled'
    <2>1. /\ treq'[s].pc # "idle" => treq'[s].ticket = treq[s].ticket
          /\ treq[s].pc # "idle"
          /\ \A r \in TicketSlots \ {s} : treq'[r] = treq[r]
          /\ UNCHANGED <<ticket, madeFor, filed>>
      BY <1>5, NoTicketType DEF DiffTicket, TicketsTypeOK, TicketRequest
    <2> QED
      BY <2>1 DEF OnlyFiled
  <1>6. ASSUME NEW s \in TicketSlots, SaveTicket(s) PROVE OnlyFiled'
    <2>1. treq[s].ticket \in TicketKeys /\ WroteTicket(s, treq[s].ticket, NoTicketRequest)
      BY <1>0, <1>6 DEF SaveTicket
    <2>2. \A t \in TicketKeys : ticket'[t].exists = ticket[t].exists
      BY <1>6, <2>1, SavedEffect
    <2> QED
      BY <1>6, <2>1, <2>2, WroteEffect, NoTicketType
      DEF SaveTicket, OnlyFiled, Outdated, TicketsTypeOK
  <1>7. ASSUME NEW s \in TicketSlots, ReinsertTicket(s) PROVE OnlyFiled'
    <2>1. /\ treq[s].ticket \in TicketKeys /\ treq[s].ticket \in filed
          /\ WroteTicket(s, treq[s].ticket, NoTicketRequest)
      BY <1>0, <1>7 DEF ReinsertTicket, OnlyFiled
    <2> QED
      BY <1>7, <2>1, WroteEffect, NoTicketType
      DEF ReinsertTicket, OnlyFiled, Outdated, TicketsTypeOK
  <1>8. ASSUME NEW s \in TicketSlots, DeleteTicket(s) PROVE OnlyFiled'
    <2>1. treq[s].ticket \in TicketKeys /\ WroteTicket(s, treq[s].ticket, NoTicketRequest)
      BY <1>0, <1>8 DEF DeleteTicket
    <2> QED
      BY <1>8, <2>1, WroteEffect, NoTicketType
      DEF DeleteTicket, OnlyFiled, Outdated, TicketsTypeOK, ticketHistory
  <1>9. ASSUME NEW s \in TicketSlots, AbortTicket(s) PROVE OnlyFiled'
    BY <1>9, NoTicketType DEF AbortTicket, OnlyFiled, TicketsTypeOK
  <1>10. CASE UNCHANGED ticketsVars
    BY <1>10 DEF ticketsVars, ticketHistory, OnlyFiled
  <1> QED
    BY <1>1, <1>2, <1>3, <1>4, <1>5, <1>6, <1>7, <1>8, <1>9, <1>10
       DEF TicketsNext, ContinueTicket

LEMMA CarriesStep ==
    ASSUME TicketsInv, [TicketsNext]_ticketsVars, NEW r \in TicketSlots
    PROVE  Carries(r)'
  <1>0. /\ TicketsTypeOK /\ OnlyFiled /\ \A s \in TicketSlots : Carries(s)
        /\ \A s \in TicketSlots : treq[s].pc # "idle" =>
              treq[s].ticket \in TicketKeys /\ treq[s].ticket # NoKey
    BY TicketsAssumption DEF TicketsInv, TicketsTypeOK, OnlyFiled, TicketsAssumption
  <1>1. ASSUME NEW t \in TicketKeys, CreateTicket(t) PROVE Carries(r)'
    <2>1. /\ \A u \in TicketKeys \ {t} : ticket'[u] = ticket[u]
          /\ t \notin filed /\ treq' = treq /\ madeFor' = madeFor
      BY <1>0, <1>1 DEF CreateTicket, TicketsTypeOK
    <2>2. treq[r].pc # "idle" => treq[r].ticket # t
      BY <1>0, <2>1 DEF OnlyFiled
    <2> QED
      BY <1>0, <2>1, <2>2 DEF Carries, DiffersIn
  <1>2. ASSUME NEW j \in JobKeys, CreateOtherJob(j) PROVE Carries(r)'
    <2>1. /\ \A i \in JobKeys \ {j} : madeFor'[i] = madeFor[i]
          /\ madeFor[j] = NoKey /\ treq' = treq /\ ticket' = ticket
      BY <1>0, <1>2 DEF CreateOtherJob, TicketsTypeOK
    <2>2. treq[r].made \in JobKeys \union {NoKey}
      BY <1>0 DEF TicketsTypeOK, TicketRequest
    <2> QED
      BY <1>0, <2>1, <2>2 DEF Carries, DiffersIn
  <1>3. ASSUME NEW s \in TicketSlots, NEW t \in TicketKeys, HandleTicket(s, t)
        PROVE  Carries(r)'
    <2>1. PICK pc \in {"makeJob", "diff", "remove"}, asked \in TicketRow :
             asked.exists = ticket[t].exists /\ StartTicket(s, t, pc, asked)
      BY <1>0, <1>3, HandlersStart
    <2>2. CASE r = s
      <3>1. /\ Stores(ticket[t], asked).exists = asked.exists
            /\ Stores(ticket[t], asked).status = asked.status
            /\ ticket[t].job # NoKey => Stores(ticket[t], asked).job = ticket[t].job
        BY DEF Stores, TicketRow
      <3> QED
        BY <1>0, <2>1, <2>2, <3>1, StartEffect DEF Carries
    <2>3. CASE r # s
      BY <1>0, <2>1, <2>3, StartEffect DEF Carries, DiffersIn
    <2> QED
      BY <2>2, <2>3
  <1>4. ASSUME NEW s \in TicketSlots, NEW j \in JobKeys, MakeJob(s, j) PROVE Carries(r)'
    <2>1. /\ \A i \in JobKeys \ {j} : madeFor'[i] = madeFor[i]
          /\ madeFor[j] = NoKey /\ madeFor'[j] = treq[s].ticket
          /\ ticket' = ticket /\ treq[s].pc = "makeJob"
          /\ \A i \in TicketSlots \ {s} : treq'[i] = treq[i]
      BY <1>0, <1>4 DEF MakeJob, TicketsTypeOK
    <2>2. treq[r].made \in JobKeys \union {NoKey}
      BY <1>0 DEF TicketsTypeOK, TicketRequest
    <2>3. CASE r # s
      BY <1>0, <2>1, <2>2, <2>3 DEF Carries, DiffersIn
    <2>4. CASE r = s
      <3> DEFINE asked == [treq[s].answer EXCEPT !.job = j]
                 row == Stores(treq[s].row, asked)
      <3>0. treq[s].answer \in TicketRow /\ treq[s].row \in TicketRow
        BY <1>0 DEF TicketsTypeOK, TicketRequest
      <3>1. /\ asked.job = j /\ asked.exists = treq[s].answer.exists
            /\ asked.status = treq[s].answer.status
            /\ row.exists = treq[s].answer.exists /\ row.status = treq[s].answer.status
            /\ treq[s].row.job # NoKey => row.job = treq[s].row.job
        BY <3>0 DEF TicketRow, Stores
      <3> HIDE DEF asked, row
      <3>2. /\ treq'[s].pc = "diff" /\ treq'[s].made = j /\ treq'[s].answer = asked
            /\ treq'[s].row = row /\ treq'[s].ticket = treq[s].ticket
            /\ treq'[s].stale = treq[s].stale
        BY <1>0, <1>4 DEF MakeJob, TicketsTypeOK, TicketRequest, asked, row
      <3> QED
        BY <1>0, <2>1, <2>4, <3>1, <3>2 DEF Carries
    <2> QED
      BY <2>3, <2>4
  <1>5. ASSUME NEW s \in TicketSlots, DiffTicket(s) PROVE Carries(r)'
    <2>1. /\ ticket' = ticket /\ madeFor' = madeFor /\ treq[s].pc = "diff"
          /\ \A i \in TicketSlots \ {s} : treq'[i] = treq[i]
      BY <1>0, <1>5 DEF DiffTicket, TicketsTypeOK
    <2>2. CASE r # s
      BY <1>0, <2>1, <2>2 DEF Carries, DiffersIn
    <2>3. CASE r = s /\ treq'[s] = NoTicketRequest
      BY <2>3, NoTicketType DEF Carries
    <2>4. CASE r = s /\ treq'[s] # NoTicketRequest
      <3>1. /\ treq'[s].pc \in {"update", "reinsert"}
            /\ treq'[s].pc = "update" => treq'[s].cols = DiffersIn(s)
            /\ treq'[s].ticket = treq[s].ticket /\ treq'[s].row = treq[s].row
            /\ treq'[s].answer = treq[s].answer /\ treq'[s].made = treq[s].made
            /\ treq'[s].stale = treq[s].stale
        BY <1>0, <1>5, <2>4 DEF DiffTicket, TicketsTypeOK, TicketRequest
      <3> QED
        BY <1>0, <2>1, <2>4, <3>1 DEF Carries, DiffersIn
    <2> QED
      BY <2>2, <2>3, <2>4
  <1>6. ASSUME NEW s \in TicketSlots, SaveTicket(s) PROVE Carries(r)'
    <2>1. treq[s].ticket \in TicketKeys /\ treq[s].pc # "idle"
          /\ WroteTicket(s, treq[s].ticket, NoTicketRequest)
      BY <1>0, <1>6 DEF SaveTicket
    <2>2. CASE r = s
      BY <1>0, <2>1, <2>2, WroteEffect, NoTicketType DEF Carries
    <2>3. CASE r # s
      <3>1. Outdated(r, treq[s].ticket) /\ madeFor' = madeFor
        BY <1>0, <1>6, <2>1, <2>3, WroteEffect DEF SaveTicket
      <3>2. treq[r].pc # "idle" /\ treq[r].ticket # treq[s].ticket =>
               ticket'[treq[r].ticket] = ticket[treq[r].ticket]
        BY <1>0, <1>6, <2>1, SavedEffect
      <3> QED
        BY <1>0, <2>1, <2>3, <3>1, <3>2 DEF Carries, Outdated, DiffersIn
    <2> QED
      BY <2>2, <2>3
  <1>7. ASSUME NEW s \in TicketSlots, ReinsertTicket(s) PROVE Carries(r)'
    <2>1. treq[s].ticket \in TicketKeys /\ treq[s].pc # "idle"
          /\ WroteTicket(s, treq[s].ticket, NoTicketRequest)
      BY <1>0, <1>7 DEF ReinsertTicket
    <2>2. CASE r = s
      BY <1>0, <2>1, <2>2, WroteEffect, NoTicketType DEF Carries
    <2>3. CASE r # s
      <3>1. Outdated(r, treq[s].ticket) /\ madeFor' = madeFor
        BY <1>0, <1>7, <2>1, <2>3, WroteEffect DEF ReinsertTicket
      <3>2. treq[r].pc # "idle" /\ treq[r].ticket # treq[s].ticket =>
               ticket'[treq[r].ticket] = ticket[treq[r].ticket]
        BY <1>0, <1>7, <2>1 DEF ReinsertTicket, TicketsTypeOK
      <3> QED
        BY <1>0, <2>1, <2>3, <3>1, <3>2 DEF Carries, Outdated, DiffersIn
    <2> QED
      BY <2>2, <2>3
  <1>8. ASSUME NEW s \in TicketSlots, DeleteTicket(s) PROVE Carries(r)'
    <2>1. treq[s].ticket \in TicketKeys /\ treq[s].pc # "idle"
          /\ WroteTicket(s, treq[s].ticket, NoTicketRequest)
      BY <1>0, <1>8 DEF DeleteTicket
    <2>2. CASE r = s
      BY <1>0, <2>1, <2>2, WroteEffect, NoTicketType DEF Carries
    <2>3. CASE r # s
      <3>1. Outdated(r, treq[s].ticket) /\ madeFor' = madeFor
        BY <1>0, <1>8, <2>1, <2>3, WroteEffect DEF DeleteTicket
      <3>2. treq[r].pc # "idle" /\ treq[r].ticket # treq[s].ticket =>
               ticket'[treq[r].ticket] = ticket[treq[r].ticket]
        BY <1>0, <1>8, <2>1 DEF DeleteTicket, TicketsTypeOK
      <3> QED
        BY <1>0, <2>1, <2>3, <3>1, <3>2 DEF Carries, Outdated, DiffersIn
    <2> QED
      BY <2>2, <2>3
  <1>9. ASSUME NEW s \in TicketSlots, AbortTicket(s) PROVE Carries(r)'
    BY <1>0, <1>9, NoTicketType DEF AbortTicket, Carries, DiffersIn, TicketsTypeOK
  <1>10. CASE UNCHANGED ticketsVars
    BY <1>0, <1>10 DEF ticketsVars, Carries, DiffersIn
  <1> QED
    BY <1>1, <1>2, <1>3, <1>4, <1>5, <1>6, <1>7, <1>8, <1>9, <1>10
       DEF TicketsNext, ContinueTicket

LEMMA RowsAgree ==
    ASSUME NEW x \in TicketRow, NEW y \in TicketRow, x.exists = y.exists,
           \A c \in {"status", "provider", "job"} : x[c] = y[c]
    PROVE  x = y
  <1>1. x.status = y.status /\ x.provider = y.provider /\ x.job = y.job
    OBVIOUS
  <1> QED
    BY <1>1 DEF TicketRow

\* What a save that was not overtaken stores, and what it answers.
LEMMA SavedIsAnswered ==
    ASSUME TicketsInv, NEW s \in TicketSlots, SaveTicket(s),
           NEW t \in TicketKeys, t = treq[s].ticket, t \notin overwritten'
    PROVE  /\ ticket'[t] = treq[s].row /\ ticket[t].exists
           /\ t \notin occupied' => ticket'[t] = treq[s].answer /\ claimed'[t] = treq[s].answer
  <1>0. /\ TicketsTypeOK /\ OnlyFiled /\ Carries(s)
        /\ treq[s].row \in TicketRow /\ treq[s].answer \in TicketRow
    BY DEF TicketsInv, TicketsTypeOK, TicketRequest
  <1>1. treq[s].pc = "update" /\ ~treq[s].stale
    BY <1>0 DEF SaveTicket, TicketsTypeOK, TicketRequest
  <1>2. treq[s].cols = DiffersIn(s) /\ ticket[t].exists /\ treq[s].row.exists /\ treq[s].answer.exists
    BY <1>0, <1>1 DEF Carries
  <1>3. /\ ticket' \in [TicketKeys -> TicketRow]
        /\ ticket'[t].exists
        /\ \A c \in {"status", "provider", "job"} : ticket'[t][c] = treq[s].row[c]
    BY <1>0, <1>2, SavedEffect DEF DiffersIn
  <1>4. ticket'[t] = treq[s].row
    <2>1. ticket'[t] \in TicketRow
      BY <1>3
    <2>2. ticket'[t].exists = treq[s].row.exists
      BY <1>0, <1>2, <1>3, <2>1 DEF TicketRow
    <2> QED
      BY <1>0, <1>3, <2>1, <2>2, RowsAgree
  <1>5. ASSUME t \notin occupied' PROVE treq[s].row = treq[s].answer
    <2>1. \A c \in {"provider", "job"} : treq[s].answer[c] = treq[s].row[c]
      BY <1>5 DEF SaveTicket, Answered
    <2>2. treq[s].row["status"] = treq[s].answer["status"]
      BY <1>0, <1>1 DEF Carries
    <2> QED
      BY <1>0, <1>2, <2>1, <2>2, RowsAgree
  <1>6. claimed'[t] = treq[s].answer
    BY <1>0 DEF SaveTicket, Answered, TicketsTypeOK
  <1> QED
    BY <1>2, <1>4, <1>5, <1>6

\* What a request that finds nothing to save has found, and what it answers.
LEMMA SameIsAnswered ==
    ASSUME TicketsInv, NEW s \in TicketSlots, DiffTicket(s),
           NEW t \in TicketKeys, t = treq[s].ticket, ticket[t].exists, DiffersIn(s) = {},
           t \notin occupied'
    PROVE  ticket[t] = treq[s].answer /\ claimed'[t] = treq[s].answer
  <1>0. /\ TicketsTypeOK /\ Carries(s) /\ ticket[t] \in TicketRow
        /\ treq[s].row \in TicketRow /\ treq[s].answer \in TicketRow
    BY DEF TicketsInv, TicketsTypeOK, TicketRequest
  <1>1. treq[s].pc = "diff" /\ Answered(s, t)
    BY DEF DiffTicket
  <1>2. /\ \A c \in {"status", "provider", "job"} : treq[s].row[c] = ticket[t][c]
        /\ \A c \in {"provider", "job"} : treq[s].answer[c] = treq[s].row[c]
    BY <1>1 DEF DiffersIn, Answered
  <1>3. treq[s].row["status"] = treq[s].answer["status"] /\ treq[s].answer.exists
    BY <1>0, <1>1 DEF Carries
  <1>4. ticket[t] = treq[s].answer
    <2>1. ticket[t].exists = treq[s].answer.exists
      BY <1>0, <1>3 DEF TicketRow
    <2>2. \A c \in {"status", "provider", "job"} : ticket[t][c] = treq[s].answer[c]
      BY <1>2, <1>3
    <2> QED
      BY <1>0, <2>1, <2>2, RowsAgree
  <1> QED
    BY <1>0, <1>1, <1>4 DEF Answered, TicketsTypeOK

\* The answers given leave the other tickets' alone, and none is forgotten.
LEMMA AnsweredEffect ==
    ASSUME TicketsTypeOK, NEW s, NEW t \in TicketKeys, Answered(s, t)
    PROVE  /\ \A u \in TicketKeys \ {t} : claimed'[u] = claimed[u]
           /\ occupied \subseteq occupied'
  BY DEF Answered, TicketsTypeOK

LEMMA TicketAnswersStep ==
    ASSUME TicketsInv, [TicketsNext]_ticketsVars
    PROVE  AnswersTrue'
  <1>0. /\ TicketsTypeOK /\ OnlyFiled /\ AnswersTrue
        /\ \A s \in TicketSlots : treq[s].pc # "idle" => treq[s].ticket \in TicketKeys
    BY DEF TicketsInv, TicketsTypeOK, OnlyFiled
  <1>1. ASSUME NEW t \in TicketKeys, CreateTicket(t) PROVE AnswersTrue'
    BY <1>0, <1>1 DEF CreateTicket, AnswersTrue, TicketsTypeOK
  <1>2. ASSUME NEW j \in JobKeys, CreateOtherJob(j) PROVE AnswersTrue'
    BY <1>0, <1>2 DEF CreateOtherJob, AnswersTrue, ticketHistory
  <1>3. ASSUME NEW s \in TicketSlots, NEW t \in TicketKeys, HandleTicket(s, t)
        PROVE  AnswersTrue'
    BY <1>0, <1>3, HandlersStart, StartEffect DEF AnswersTrue
  <1>4. ASSUME NEW s \in TicketSlots, NEW j \in JobKeys, MakeJob(s, j) PROVE AnswersTrue'
    BY <1>0, <1>4 DEF MakeJob, AnswersTrue, ticketHistory
  <1>5. ASSUME NEW s \in TicketSlots, DiffTicket(s) PROVE AnswersTrue'
    <2>1. PICK t \in TicketKeys : t = treq[s].ticket
      BY <1>0, <1>5 DEF DiffTicket
    <2>2. CASE ticket[t].exists /\ DiffersIn(s) = {}
      <3>1. Answered(s, t) /\ ticket' = ticket /\ overwritten' = overwritten
        BY <1>5, <2>1, <2>2 DEF DiffTicket
      <3>2. t \notin occupied' => ticket'[t] = claimed'[t]
        BY <1>5, <2>1, <2>2, <3>1, SameIsAnswered
      <3> QED
        BY <1>0, <3>1, <3>2, AnsweredEffect DEF AnswersTrue
    <2>3. CASE ~(ticket[t].exists /\ DiffersIn(s) = {})
      BY <1>0, <1>5, <2>1, <2>3 DEF DiffTicket, AnswersTrue
    <2> QED
      BY <2>2, <2>3
  <1>6. ASSUME NEW s \in TicketSlots, SaveTicket(s) PROVE AnswersTrue'
    <2>1. PICK t \in TicketKeys : t = treq[s].ticket
      BY <1>0, <1>6 DEF SaveTicket
    <2>2. Answered(s, t) /\ overwritten \subseteq overwritten'
      BY <1>6, <2>1 DEF SaveTicket
    <2>3. t \notin occupied' \union overwritten' => ticket'[t] = claimed'[t]
      BY <1>6, <2>1, SavedIsAnswered
    <2>4. \A u \in TicketKeys \ {t} : ticket'[u] = ticket[u]
      BY <1>0, <1>6, <2>1, SavedEffect
    <2> QED
      BY <1>0, <2>2, <2>3, <2>4, AnsweredEffect DEF AnswersTrue
  <1>7. ASSUME NEW s \in TicketSlots, ReinsertTicket(s) PROVE AnswersTrue'
    <2>1. PICK t \in TicketKeys : t = treq[s].ticket
      BY <1>0, <1>7 DEF ReinsertTicket
    <2>2. /\ Answered(s, t) /\ overwritten' = overwritten \union {t}
          /\ \A u \in TicketKeys \ {t} : ticket'[u] = ticket[u]
      BY <1>0, <1>7, <2>1 DEF ReinsertTicket, TicketsTypeOK
    <2> QED
      BY <1>0, <2>2, AnsweredEffect DEF AnswersTrue
  <1>8. ASSUME NEW s \in TicketSlots, DeleteTicket(s) PROVE AnswersTrue'
    BY <1>0, <1>8, NoTicketType DEF DeleteTicket, AnswersTrue, TicketsTypeOK, ticketHistory
  <1>9. ASSUME NEW s \in TicketSlots, AbortTicket(s) PROVE AnswersTrue'
    BY <1>0, <1>9 DEF AbortTicket, AnswersTrue
  <1>10. CASE UNCHANGED ticketsVars
    BY <1>0, <1>10 DEF ticketsVars, ticketHistory, AnswersTrue
  <1> QED
    BY <1>1, <1>2, <1>3, <1>4, <1>5, <1>6, <1>7, <1>8, <1>9, <1>10
       DEF TicketsNext, ContinueTicket

\* The part of JobsLinked about one job and one ticket.
JobLinked(j, t) ==
    (madeFor[j] = t /\ ticket[t].exists /\ \A s \in TicketSlots : treq[s].made # j) =>
        ticket[t].job = j

LEMMA JobsLinkedParts ==
    TicketsTypeOK =>
        (JobsLinked <=> \A j \in JobKeys \ unlinked, t \in TicketKeys \ (occupied \union overwritten) :
                           JobLinked(j, t))
  BY TicketsAssumption DEF JobsLinked, JobLinked, StoredJobs, TicketsAssumption

LEMMA LinkedStep ==
    ASSUME TicketsInv, [TicketsNext]_ticketsVars,
           NEW j \in JobKeys \ unlinked', NEW u \in TicketKeys \ (occupied' \union overwritten')
    PROVE  JobLinked(j, u)'
  <1>0. /\ TicketsTypeOK /\ OnlyFiled
        /\ \A s \in TicketSlots : Carries(s)
        /\ \A s \in TicketSlots : treq[s].pc # "idle" => treq[s].ticket \in TicketKeys
        /\ j # NoKey
    BY TicketsAssumption DEF TicketsInv, TicketsTypeOK, OnlyFiled, TicketsAssumption
  <1>a. j \notin unlinked /\ u \notin occupied \union overwritten => JobLinked(j, u)
    BY <1>0, JobsLinkedParts DEF TicketsInv
  <1>1. ASSUME NEW t \in TicketKeys, CreateTicket(t) PROVE JobLinked(j, u)'
    BY <1>0, <1>a, <1>1 DEF CreateTicket, JobLinked, OnlyFiled, TicketsTypeOK
  <1>2. ASSUME NEW i \in JobKeys, CreateOtherJob(i) PROVE JobLinked(j, u)'
    BY <1>0, <1>a, <1>2, TicketsAssumption
    DEF CreateOtherJob, JobLinked, TicketsTypeOK, ticketHistory, TicketsAssumption
  <1>3. ASSUME NEW s \in TicketSlots, NEW t \in TicketKeys, HandleTicket(s, t)
        PROVE  JobLinked(j, u)'
    <2>1. PICK pc \in {"makeJob", "diff", "remove"}, asked \in TicketRow :
             StartTicket(s, t, pc, asked)
      BY <1>0, <1>3, HandlersStart
    <2>2. treq[s].made = NoKey
      BY <1>0, <2>1, StartEffect DEF Carries
    <2> QED
      BY <1>0, <1>a, <2>1, <2>2, StartEffect DEF JobLinked
  <1>4. ASSUME NEW s \in TicketSlots, NEW i \in JobKeys, MakeJob(s, i) PROVE JobLinked(j, u)'
    <2>1. /\ treq'[s].made = i /\ treq[s].pc = "makeJob"
          /\ \A r \in TicketSlots \ {s} : treq'[r] = treq[r]
          /\ madeFor' = [madeFor EXCEPT ![i] = treq[s].ticket]
          /\ UNCHANGED <<ticket, occupied, overwritten, unlinked>>
      BY <1>0, <1>4 DEF MakeJob, TicketsTypeOK, TicketRequest, ticketHistory
    <2>2. treq[s].made = NoKey
      BY <1>0, <2>1 DEF Carries
    <2> QED
      BY <1>0, <1>a, <2>1, <2>2 DEF JobLinked, TicketsTypeOK
  <1>5. ASSUME NEW s \in TicketSlots, DiffTicket(s) PROVE JobLinked(j, u)'
    <2>1. PICK t \in TicketKeys : t = treq[s].ticket
      BY <1>0, <1>5 DEF DiffTicket
    <2>2. /\ UNCHANGED <<ticket, madeFor, overwritten, unlinked>>
          /\ \A r \in TicketSlots \ {s} : treq'[r] = treq[r]
          /\ occupied \subseteq occupied'
      BY <1>0, <1>5, <2>1, AnsweredEffect DEF DiffTicket, TicketsTypeOK
    <2>3. CASE treq'[s].made = treq[s].made
      BY <1>a, <2>2, <2>3 DEF JobLinked
    <2>4. CASE treq[s].made # j
      BY <1>a, <2>2, <2>4 DEF JobLinked
    <2>5. CASE treq'[s].made # treq[s].made /\ treq[s].made = j
      <3>1. ticket[t].exists /\ DiffersIn(s) = {}
        BY <1>0, <1>5, <2>1, <2>5 DEF DiffTicket, TicketsTypeOK, TicketRequest
      <3>2. madeFor[j] = t /\ treq[s].answer.job = j
        BY <1>0, <2>1, <2>5 DEF Carries
      <3>3. u = t => ticket[t] = treq[s].answer
        BY <1>5, <2>1, <3>1, SameIsAnswered
      <3> QED
        BY <2>2, <3>2, <3>3 DEF JobLinked
    <2> QED
      BY <2>3, <2>4, <2>5
  <1>6. ASSUME NEW s \in TicketSlots, SaveTicket(s) PROVE JobLinked(j, u)'
    <2>1. PICK t \in TicketKeys : t = treq[s].ticket
      BY <1>0, <1>6 DEF SaveTicket
    <2>2. /\ madeFor' = madeFor /\ unlinked' = unlinked
          /\ overwritten \subseteq overwritten' /\ occupied \subseteq occupied'
          /\ treq[s].pc = "update" /\ (treq[s].stale => t \in overwritten')
      BY <1>0, <1>6, <2>1, AnsweredEffect DEF SaveTicket
    <2>3. \A r \in TicketSlots \ {s} : treq'[r].made = treq[r].made
      BY <1>0, <1>6, WroteEffect DEF SaveTicket, Outdated
    <2>4. CASE u # t
      <3>1. ticket'[u] = ticket[u]
        BY <1>0, <1>6, <2>1, <2>4, SavedEffect
      <3>2. treq[s].made = j => madeFor[j] # u
        BY <1>0, <2>1, <2>4 DEF Carries
      <3> QED
        BY <1>a, <2>2, <2>3, <3>1, <3>2 DEF JobLinked
    <2>5. CASE u = t
      <3>1. /\ ticket'[t] = treq[s].row /\ ticket[t].exists
            /\ ticket'[t] = treq[s].answer
        BY <1>6, <2>1, <2>5, SavedIsAnswered
      <3>2. CASE treq[s].made = j
        BY <1>0, <2>2, <2>5, <3>1, <3>2 DEF Carries, JobLinked
      <3>3. CASE treq[s].made # j
        <4>1. ticket[t].job = j => treq[s].row.job = j
          BY <1>0, <2>1, <2>2, <2>5 DEF Carries
        <4> QED
          BY <1>a, <2>2, <2>3, <2>5, <3>1, <3>3, <4>1 DEF JobLinked
      <3> QED
        BY <3>2, <3>3
    <2> QED
      BY <2>4, <2>5
  <1>7. ASSUME NEW s \in TicketSlots, ReinsertTicket(s) PROVE JobLinked(j, u)'
    <2>1. PICK t \in TicketKeys : t = treq[s].ticket
      BY <1>0, <1>7 DEF ReinsertTicket
    <2>2. /\ madeFor' = madeFor /\ unlinked' = unlinked /\ occupied \subseteq occupied'
          /\ overwritten' = overwritten \union {t}
          /\ \A v \in TicketKeys \ {t} : ticket'[v] = ticket[v]
      BY <1>0, <1>7, <2>1, AnsweredEffect DEF ReinsertTicket, TicketsTypeOK
    <2>3. \A r \in TicketSlots \ {s} : treq'[r].made = treq[r].made
      BY <1>0, <1>7, WroteEffect DEF ReinsertTicket, Outdated
    <2>4. treq[s].made = j => madeFor[j] # u
      BY <1>0, <2>1, <2>2 DEF Carries
    <2> QED
      BY <1>a, <2>2, <2>3, <2>4 DEF JobLinked
  <1>8. ASSUME NEW s \in TicketSlots, DeleteTicket(s) PROVE JobLinked(j, u)'
    <2>1. PICK t \in TicketKeys : t = treq[s].ticket
      BY <1>0, <1>8 DEF DeleteTicket
    <2>2. /\ UNCHANGED <<madeFor, unlinked, occupied, overwritten>>
          /\ treq[s].pc = "remove" /\ ticket' = [ticket EXCEPT ![t] = NoTicket]
      BY <1>8, <2>1 DEF DeleteTicket, ticketHistory
    <2>3. \A r \in TicketSlots \ {s} : treq'[r].made = treq[r].made
      BY <1>0, <1>8, WroteEffect DEF DeleteTicket, Outdated
    <2>4. treq[s].made = NoKey
      BY <1>0, <2>2 DEF Carries
    <2> QED
      BY <1>0, <1>a, <2>2, <2>3, <2>4, NoTicketType DEF JobLinked, TicketsTypeOK
  <1>9. ASSUME NEW s \in TicketSlots, AbortTicket(s) PROVE JobLinked(j, u)'
    BY <1>0, <1>a, <1>9 DEF AbortTicket, JobLinked, TicketsTypeOK
  <1>10. CASE UNCHANGED ticketsVars
    BY <1>a, <1>10 DEF ticketsVars, ticketHistory, JobLinked
  <1> QED
    BY <1>1, <1>2, <1>3, <1>4, <1>5, <1>6, <1>7, <1>8, <1>9, <1>10
       DEF TicketsNext, ContinueTicket

LEMMA TicketsStep == TicketsInv /\ [TicketsNext]_ticketsVars => TicketsInv'
  <1> SUFFICES ASSUME TicketsInv, [TicketsNext]_ticketsVars PROVE TicketsInv'
    OBVIOUS
  <1>1. TicketsTypeOK' /\ OnlyFiled'
    BY TicketsTypeStep, OnlyFiledStep DEF TicketsInv
  <1>2. \A s \in TicketSlots : Carries(s)'
    BY CarriesStep
  <1>3. JobsLinked'
    <2>1. /\ \A j \in JobKeys \ unlinked', t \in TicketKeys \ (occupied' \union overwritten') :
                JobLinked(j, t)'
          /\ TicketsTypeOK'
      BY <1>1, LinkedStep
    <2>2. NoKey \notin TicketKeys
      BY TicketsAssumption DEF TicketsAssumption
    <2> QED
      BY <2>1, <2>2 DEF JobsLinked, JobLinked, StoredJobs
  <1> QED
    BY <1>1, <1>2, <1>3, TicketAnswersStep DEF TicketsInv

LEMMA TicketsAlways == TicketsSpec => []TicketsInv
  BY TicketsInitInv, TicketsStep, PTL DEF TicketsSpec

\* Every variable of Tickets keeps its type, whatever requests meet or die.
THEOREM TicketsTypeCorrect == TicketsSpec => []TicketsTypeOK
  <1>1. TicketsInv => TicketsTypeOK
    BY DEF TicketsInv
  <1> QED
    BY <1>1, TicketsAlways, PTL

\* A ticket is what the last answer about it showed, unless a provider or a job was
\* assigned to a ticket that had one, or an object out of date was saved.
THEOREM TicketsAnswersTrue == TicketsSpec => []AnswersTrue
  <1>1. TicketsInv => AnswersTrue
    BY DEF TicketsInv
  <1> QED
    BY <1>1, TicketsAlways, PTL

\* createJobFromTicket links the job it makes, unless the ticket had a job already, an
\* object out of date was saved, or the request died between the two saves.
THEOREM TicketsJobsLinked == TicketsSpec => []JobsLinked
  <1>1. TicketsInv => JobsLinked
    BY DEF TicketsInv
  <1> QED
    BY <1>1, TicketsAlways, PTL

(* ------------------------------ MCServices ----------------------------- *)

\* A behaviour of the eight parts side by side is a behaviour of each.
LEMMA EachPart ==
    MCSpec => /\ Spec /\ EmailSpec /\ TicketsSpec /\ UnreadSpec
              /\ CalendarSpec /\ ChatSpec /\ SearchesSpec /\ SessionSpec
  <1>1. MCInit => /\ Init /\ EmailInit /\ TicketsInit /\ UnreadInit
                  /\ CalendarInit /\ ChatInit /\ SearchesInit /\ SessionInit
    BY DEF MCInit
  <1>2. [MCNext]_MCVars =>
            /\ [Next]_vars /\ [EmailNext]_emailVars /\ [TicketsNext]_ticketsVars
            /\ [UnreadNext]_unreadVars /\ [CalendarNext]_calendarVars /\ [ChatNext]_chatVars
            /\ [SearchesNext]_searchVars /\ [SessionNext]_sessionVars
    BY DEF MCNext, MCVars
  <1> QED
    BY <1>1, <1>2, PTL
    DEF MCSpec, Spec, EmailSpec, TicketsSpec, UnreadSpec, CalendarSpec, ChatSpec, SearchesSpec,
        SessionSpec

\* Every state of the eight parts side by side is of their types.
THEOREM PartsTyped == MCSpec => []AllTyped
  <1>1. MCSpec =>
            /\ []TypeOK /\ []EmailTypeOK /\ []TicketsTypeOK /\ []UnreadTypeOK
            /\ []CalendarTypeOK /\ []ChatTypeOK /\ []SearchesTypeOK /\ []SessionTypeOK
    BY EachPart, ProvidersTypeCorrect, EmailTypeCorrect, TicketsTypeCorrect,
       UnreadTypeCorrect,
       CalendarTypeCorrect, ChatTypeCorrect, SearchesTypeCorrect, SessionTypeCorrect
  <1>2. TypeOK /\ EmailTypeOK /\ TicketsTypeOK /\ UnreadTypeOK /\ CalendarTypeOK
        /\ ChatTypeOK /\ SearchesTypeOK /\ SessionTypeOK => AllTyped
    BY DEF AllTyped
  <1> QED
    BY <1>1, <1>2, PTL
=============================================================================
