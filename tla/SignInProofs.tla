---------------------------- MODULE SignInProofs ----------------------------
(***************************************************************************)
(* Proofs about SignIn, for every instance of its constants.               *)
(***************************************************************************)
EXTENDS SignIn, TLAPS

-----------------------------------------------------------------------------
(* Types.                                                                  *)

LEMMA SessionTtlType == SessionTtl \in Nat
BY BoundsType DEF SessionTtl

\* The locals a handler starts from are well typed.
LEMMA IdleType == IdleReq \in Request /\ LocalsOK(IdleReq)
BY DEF IdleReq, Request, LocalsOK

\* A handler that moves on to well-typed locals leaves all locals well typed.
LEMMA GotoType ==
  ASSUME TypeOK, NEW q \in Req, NEW r \in Request, LocalsOK(r), Goto(q, r)
  PROVE  /\ req' \in [Req -> Request]
         /\ \A x \in Req : LocalsOK(req'[x])
BY DEF TypeOK, Goto

LEMMA FinishType ==
  ASSUME TypeOK, NEW q \in Req, Finish(q)
  PROVE  /\ req' \in [Req -> Request]
         /\ \A x \in Req : LocalsOK(req'[x])
BY IdleType, GotoType DEF Finish

LEMMA MailType ==
  ASSUME TypeOK, NEW q \in Req, SendMagicLink(q) \/ SendEmail(q)
  PROVE  TypeOK'
<1>1. CASE SendMagicLink(q)
  <2>1. PICK a \in Address, t \in Unused :
          /\ magic_tokens' = [magic_tokens EXCEPT
               ![t] = [user_email |-> Canonical[a], expires_at |-> clock + LinkTtl]]
          /\ issued' = [issued EXCEPT ![t] = "link"]
          /\ Goto(q, [IdleReq EXCEPT !.pc = "mail", !.ticket = t,
                                     !.identity = ByMail(Canonical[a])])
    BY <1>1 DEF SendMagicLink
  <2> DEFINE r == [IdleReq EXCEPT !.pc = "mail", !.ticket = t,
                                  !.identity = ByMail(Canonical[a])]
  <2>2. Canonical[a] \in Account /\ t \in Ticket /\ ByMail(Canonical[a]) \in Identity
    BY AddressType DEF Unused, ByMail, Identity
  <2>3. r \in Request /\ LocalsOK(r)
    BY <2>2 DEF IdleReq, Request, LocalsOK
  <2>4. req' \in [Req -> Request] /\ \A x \in Req : LocalsOK(req'[x])
    BY <2>1, <2>3, GotoType
  <2>5. [user_email |-> Canonical[a], expires_at |-> clock + LinkTtl] \in Link
    BY <2>2, BoundsType DEF Link, TypeOK
  <2>6. magic_tokens' \in [Ticket -> Link \cup {None}]
    BY <2>1, <2>5 DEF TypeOK
  <2>7. issued' \in [Ticket -> {"unused", "link", "state", "late"}]
    BY <2>1 DEF TypeOK
  <2> QED BY <1>1, <2>4, <2>6, <2>7 DEF TypeOK, SendMagicLink, rows, clients
<1>2. CASE SendEmail(q)
  <2>1. req[q].ticket \in Ticket /\ req[q].identity \in Identity
    BY <1>2 DEF SendEmail, At, TypeOK, LocalsOK
  <2>2. proof' \in [Ticket -> Identity \cup {None}]
    BY <1>2, <2>1 DEF SendEmail, TypeOK
  <2>3. req' \in [Req -> Request] /\ \A x \in Req : LocalsOK(req'[x])
    BY <1>2, FinishType DEF SendEmail
  <2> QED BY <1>2, <2>2, <2>3 DEF TypeOK, SendEmail, memory, rows, clients
<1> QED BY <1>1, <1>2

LEMMA VerifyType ==
  ASSUME TypeOK, NEW q \in Req, VerifyMagicLink(q)
  PROVE  TypeOK'
<1>1. PICK b \in Tab, t \in Ticket :
       /\ proof[t] # None
       /\ magic_tokens[t] # None
       /\ magic_tokens' = Remove(magic_tokens, t)
       /\ IF Expired(magic_tokens[t])
          THEN UNCHANGED req
          ELSE Goto(q, [IdleReq EXCEPT !.pc = "insert", !.tab = b, !.ticket = t,
                          !.identity = ByMail(magic_tokens[t].user_email)])
       /\ issued' = IF clock > magic_tokens[t].expires_at
                    THEN [issued EXCEPT ![t] = "late"] ELSE issued
  BY DEF VerifyMagicLink
<1> DEFINE r == [IdleReq EXCEPT !.pc = "insert", !.tab = b, !.ticket = t,
                          !.identity = ByMail(magic_tokens[t].user_email)]
<1>2. magic_tokens[t] \in Link
  BY <1>1 DEF TypeOK
<1>3. ByMail(magic_tokens[t].user_email) \in Identity
  BY <1>2 DEF ByMail, Identity, Link
<1>4. r \in Request /\ LocalsOK(r)
  BY <1>3 DEF IdleReq, Request, LocalsOK
<1>5. req' \in [Req -> Request] /\ \A x \in Req : LocalsOK(req'[x])
  <2>1. CASE UNCHANGED req
    BY <2>1 DEF TypeOK
  <2>2. CASE Goto(q, r)
    BY <2>2, <1>4, GotoType
  <2> QED BY <1>1, <2>1, <2>2
<1>6. magic_tokens' \in [Ticket -> Link \cup {None}]
  BY <1>1 DEF TypeOK, Remove
<1>7. issued' \in [Ticket -> {"unused", "link", "state", "late"}]
  BY <1>1 DEF TypeOK
<1> QED BY <1>5, <1>6, <1>7 DEF TypeOK, VerifyMagicLink, rows, clients

\* Who signs in with a provider has consented: the exchange of the code finds
\* an identity.
Proven ==
  \A q \in Req : req[q].pc = "exchange" => proof[req[q].ticket] # None

LEMMA OauthType ==
  ASSUME TypeOK, Proven, NEW q \in Req, OauthLogin(q) \/ OauthCallback(q) \/ ExchangeCode(q)
  PROVE  TypeOK'
<1>1. CASE OauthLogin(q)
  <2>1. PICK b \in Tab, t \in Unused :
          /\ oauth_states' = oauth_states \cup {t}
          /\ issued' = [issued EXCEPT ![t] = "state"]
          /\ flow' = [flow EXCEPT ![b] = t]
    BY <1>1 DEF OauthLogin
  <2>2. t \in Ticket
    BY DEF Unused
  <2> QED BY <1>1, <2>1, <2>2 DEF TypeOK, OauthLogin, rows
<1>2. CASE OauthCallback(q)
  <2>1. PICK b \in Tab, t \in oauth_states :
          /\ oauth_states' = oauth_states \ {t}
          /\ Goto(q, [IdleReq EXCEPT !.pc = "exchange", !.tab = b, !.ticket = t])
    BY <1>2 DEF OauthCallback
  <2>2. t \in Ticket
    BY DEF TypeOK
  <2>3. [IdleReq EXCEPT !.pc = "exchange", !.tab = b, !.ticket = t] \in Request
    BY <2>2 DEF IdleReq, Request
  <2>4. LocalsOK([IdleReq EXCEPT !.pc = "exchange", !.tab = b, !.ticket = t])
    BY <2>2 DEF IdleReq, LocalsOK
  <2>5. req' \in [Req -> Request] /\ \A x \in Req : LocalsOK(req'[x])
    BY <2>1, <2>3, <2>4, GotoType
  <2> QED BY <1>2, <2>1, <2>5 DEF TypeOK, OauthCallback, rows, clients, history
<1>3. CASE ExchangeCode(q)
  <2> DEFINE r == [req[q] EXCEPT !.pc = "insert", !.identity = proof[req[q].ticket]]
  <2>1. req[q] \in Request /\ LocalsOK(req[q]) /\ req[q].pc = "exchange"
    BY <1>3 DEF ExchangeCode, At, TypeOK
  <2>2. req[q].ticket \in Ticket /\ req[q].tab \in Tab
    BY <2>1 DEF LocalsOK
  <2>3. proof[req[q].ticket] \in Identity
    BY <2>1, <2>2 DEF Proven, TypeOK
  <2>4. r \in Request
    BY <2>1, <2>3 DEF Request
  <2>5. LocalsOK(r)
    BY <2>1, <2>2, <2>3 DEF LocalsOK, Request
  <2>6. req' \in [Req -> Request] /\ \A x \in Req : LocalsOK(req'[x])
    BY <1>3, <2>4, <2>5, GotoType DEF ExchangeCode
  <2> QED BY <1>3, <2>6 DEF TypeOK, ExchangeCode, memory, rows, clients, history
<1> QED BY <1>1, <1>2, <1>3

LEMMA UserType ==
  ASSUME TypeOK, NEW q \in Req, InsertUser(q) \/ SelectUser(q)
  PROVE  TypeOK'
<1>1. CASE InsertUser(q)
  <2> DEFINE r == [req[q] EXCEPT !.pc = "select"]
  <2>1. req[q] \in Request /\ LocalsOK(req[q]) /\ req[q].pc = "insert"
    BY <1>1 DEF InsertUser, At, TypeOK
  <2>2. r \in Request
    BY <2>1 DEF Request
  <2>3. LocalsOK(r)
    BY <2>1 DEF LocalsOK, Request
  <2>4. req' \in [Req -> Request] /\ \A x \in Req : LocalsOK(req'[x])
    BY <1>1, <2>2, <2>3, GotoType DEF InsertUser
  <2>5. [identity |-> req[q].identity, tier |-> "free"] \in UserRow
    BY <2>1 DEF LocalsOK, UserRow
  <2>6. users' \in [User -> UserRow \cup {None}]
    BY <1>1, <2>5 DEF InsertUser, InsertOrIgnore, TypeOK
  <2> QED BY <1>1, <2>4, <2>6 DEF TypeOK, InsertUser, memory, clients, history
<1>2. CASE SelectUser(q)
  <2>1. PICK u \in User : Goto(q, [req[q] EXCEPT !.pc = "session", !.user = u])
    BY <1>2 DEF SelectUser
  <2> DEFINE r == [req[q] EXCEPT !.pc = "session", !.user = u]
  <2>2. req[q] \in Request /\ LocalsOK(req[q]) /\ req[q].pc = "select"
    BY <1>2 DEF SelectUser, At, TypeOK
  <2>3. r \in Request
    BY <2>2 DEF Request
  <2>4. LocalsOK(r)
    BY <2>2 DEF LocalsOK, Request
  <2>5. req' \in [Req -> Request] /\ \A x \in Req : LocalsOK(req'[x])
    BY <2>1, <2>3, <2>4, GotoType
  <2> QED BY <1>2, <2>5 DEF TypeOK, SelectUser, memory, rows, clients, history
<1> QED BY <1>1, <1>2

LEMMA CreateSessionType ==
  ASSUME TypeOK, NEW q \in Req, CreateSession(q)
  PROVE  TypeOK'
<1>1. PICK k \in Fresh :
       /\ sessions' = [sessions EXCEPT
            ![k] = [user_id |-> req[q].user, expires_at |-> clock + SessionTtl,
                    kind |-> req[q].kind]]
       /\ via' = [via EXCEPT ![k] = IF req[q].kind = "cli" THEN "cli"
                                    ELSE req[q].ticket]
       /\ Goto(q, [req[q] EXCEPT !.pc = "answer", !.token = k])
  BY DEF CreateSession
<1> DEFINE r == [req[q] EXCEPT !.pc = "answer", !.token = k]
           s == [user_id |-> req[q].user, expires_at |-> clock + SessionTtl,
                 kind |-> req[q].kind]
<1>2. req[q] \in Request /\ LocalsOK(req[q]) /\ req[q].pc = "session" /\ k \in Token
  BY DEF CreateSession, At, TypeOK, Fresh
<1>3. r \in Request
  BY <1>2 DEF Request
<1>4. LocalsOK(r)
  BY <1>2 DEF LocalsOK, Request
<1>5. req' \in [Req -> Request] /\ \A x \in Req : LocalsOK(req'[x])
  BY <1>1, <1>3, <1>4, GotoType
<1>6. req[q].user \in User /\ req[q].kind \in {"web", "cli"} /\ clock + SessionTtl \in Nat
  BY <1>2, SessionTtlType, BoundsType DEF LocalsOK, Request, TypeOK
<1>7. s \in SessionRow
  BY <1>6 DEF SessionRow
<1>8. sessions' \in [Token -> SessionRow \cup {None}]
  BY <1>1, <1>2, <1>7 DEF TypeOK
<1>9. via' \in [Token -> Ticket \cup {None, "cli"}]
  BY <1>1, <1>2 DEF TypeOK, Request
<1> QED BY <1>5, <1>8, <1>9 DEF TypeOK, CreateSession, memory, clients

LEMMA AnswerType ==
  ASSUME TypeOK, NEW q \in Req, Answer(q) \/ AnswerCli(q)
  PROVE  TypeOK'
<1>1. req[q] \in Request /\ req[q].token \in Token /\ req[q].tab \in Tab
  BY DEF TypeOK, Answer, AnswerCli, At, LocalsOK
<1>2. req' \in [Req -> Request] /\ \A x \in Req : LocalsOK(req'[x])
  BY FinishType DEF Answer, AnswerCli
<1>3. CASE Answer(q)
  <2>1. [token |-> req[q].token, until |-> clock + SessionTtl] \in Cookie
    BY <1>1, SessionTtlType, BoundsType DEF Cookie, TypeOK
  <2>2. cookie' \in [Tab -> Cookie \cup {None}]
    BY <1>3, <2>1 DEF Answer, TypeOK
  <2> QED BY <1>2, <1>3, <2>2 DEF TypeOK, Answer, memory, rows, history
<1>4. CASE AnswerCli(q)
  BY <1>1, <1>2, <1>4 DEF TypeOK, AnswerCli, Opens, memory, rows, history
<1> QED BY <1>3, <1>4

LEMMA SignOutType ==
  ASSUME TypeOK, NEW q \in Req,
         Logout(q) \/ DeleteSession(q) \/ DeleteFails(q) \/ LogoutBearer(q) \/ DeleteAllSessions(q)
  PROVE  TypeOK'
<1>1. CASE Logout(q)
  <2>1. PICK b \in Tab :
          /\ Sends(b)
          /\ Goto(q, [IdleReq EXCEPT !.pc = "delete", !.tab = b, !.token = cookie[b].token])
    BY <1>1 DEF Logout
  <2>2. cookie[b].token \in Token
    BY <2>1 DEF Sends, TypeOK, Cookie
  <2>3. [IdleReq EXCEPT !.pc = "delete", !.tab = b, !.token = cookie[b].token] \in Request
    BY <2>2 DEF IdleReq, Request
  <2>4. LocalsOK([IdleReq EXCEPT !.pc = "delete", !.tab = b, !.token = cookie[b].token])
    BY <2>2 DEF IdleReq, LocalsOK
  <2>5. req' \in [Req -> Request] /\ \A x \in Req : LocalsOK(req'[x])
    BY <2>1, <2>3, <2>4, GotoType
  <2> QED BY <1>1, <2>5 DEF TypeOK, Logout, memory, rows, clients, history
<1>2. CASE DeleteSession(q) \/ DeleteFails(q)
  <2>1. req[q].token \in Token
    BY <1>2 DEF DeleteSession, DeleteFails, At, TypeOK, LocalsOK
  <2>2. req' \in [Req -> Request] /\ \A x \in Req : LocalsOK(req'[x])
    BY <1>2, FinishType DEF DeleteSession, DeleteFails
  <2> QED BY <1>2, <2>1, <2>2, BoundsType
          DEF TypeOK, DeleteSession, DeleteFails, Delete, memory, rows, history
<1>3. CASE LogoutBearer(q)
  <2> DEFINE r == [IdleReq EXCEPT !.pc = "delete_all", !.user = sessions[token_file].user_id]
  <2>1. token_file \in Token /\ sessions[token_file] \in SessionRow
    BY <1>3 DEF LogoutBearer, Accepts, TypeOK
  <2>2. r \in Request /\ LocalsOK(r)
    BY <2>1 DEF IdleReq, Request, LocalsOK, SessionRow
  <2>3. req' \in [Req -> Request] /\ \A x \in Req : LocalsOK(req'[x])
    BY <1>3, <2>2, GotoType DEF LogoutBearer
  <2> QED BY <1>3, <2>3 DEF TypeOK, LogoutBearer, memory, rows, clients, history
<1>4. CASE DeleteAllSessions(q)
  <2>1. OfUser(req[q].user) \subseteq Token
    BY DEF OfUser
  <2>2. req' \in [Req -> Request] /\ \A x \in Req : LocalsOK(req'[x])
    BY <1>4, FinishType DEF DeleteAllSessions
  <2>3. sessions' \in [Token -> SessionRow \cup {None}]
    BY <1>4 DEF DeleteAllSessions, TypeOK
  <2> QED BY <1>4, <2>1, <2>2, <2>3 DEF TypeOK, DeleteAllSessions, memory, clients
<1> QED BY <1>1, <1>2, <1>3, <1>4

LEMMA CliType ==
  ASSUME TypeOK, NEW q \in Req, CliCallback(q)
  PROVE  TypeOK'
<1>1. PICK b \in Tab :
       IF Sends(b) /\ Accepts(cookie[b].token)
       THEN /\ Goto(q, [IdleReq EXCEPT !.pc = "session", !.kind = "cli", !.tab = b,
                          !.user = sessions[cookie[b].token].user_id])
            /\ UNCHANGED flow
       ELSE Opens(b) /\ UNCHANGED req
  BY DEF CliCallback
<1> DEFINE r == [IdleReq EXCEPT !.pc = "session", !.kind = "cli", !.tab = b,
                   !.user = sessions[cookie[b].token].user_id]
<1>2. CASE Sends(b) /\ Accepts(cookie[b].token)
  <2>1. cookie[b].token \in Token
    BY <1>2 DEF Sends, TypeOK, Cookie
  <2>2. sessions[cookie[b].token] \in SessionRow
    BY <1>2, <2>1 DEF Accepts, TypeOK
  <2>3. r \in Request /\ LocalsOK(r)
    BY <2>2 DEF IdleReq, Request, LocalsOK, SessionRow
  <2>4. req' \in [Req -> Request] /\ \A x \in Req : LocalsOK(req'[x])
    BY <1>1, <1>2, <2>3, GotoType
  <2> QED BY <1>1, <1>2, <2>4 DEF TypeOK, CliCallback, memory, rows, history
<1>3. CASE ~ (Sends(b) /\ Accepts(cookie[b].token))
  BY <1>1, <1>3 DEF TypeOK, CliCallback, Opens, memory, rows, history
<1> QED BY <1>2, <1>3

\* The provider, the CLI, the operator, failures, time and restarts.
Others ==
  \/ \E t \in Ticket : Consent(t)
  \/ \E b \in Tab : CliLogin(b)
  \/ CliLoginFails
  \/ CliLogout
  \/ \E u \in User : SetTier(u)
  \/ Tick
  \/ Crash
  \/ UNCHANGED vars

LEMMA OthersType ==
  ASSUME TypeOK, Others
  PROVE  TypeOK'
<1>1. CASE \E t \in Ticket : Consent(t)
  BY <1>1 DEF Consent, Identity, TypeOK, memory, rows, clients
<1>2. CASE (\E b \in Tab : CliLogin(b)) \/ CliLoginFails \/ CliLogout
  BY <1>2 DEF CliLogin, CliLoginFails, CliLogout, Opens, TypeOK, memory, rows, history
<1>3. ASSUME NEW u \in User, SetTier(u) PROVE TypeOK'
  <2>1. users[u] \in UserRow
    BY <1>3 DEF SetTier, TypeOK
  <2>2. users' \in [User -> UserRow \cup {None}]
    BY <1>3, <2>1 DEF SetTier, TypeOK, UserRow
  <2>3. tier' \in [Identity -> {"free", "pro"}]
    BY <1>3, <2>1 DEF SetTier, TypeOK, UserRow
  <2> QED BY <1>3, <2>2, <2>3 DEF SetTier, TypeOK, memory, clients
<1>4. CASE Tick
  BY <1>4, BoundsType DEF Tick, TypeOK, memory, rows, clients, history
<1>5. CASE Crash
  <2>1. req' \in [Req -> Request] /\ \A x \in Req : LocalsOK(req'[x])
    BY <1>5, IdleType DEF Crash
  <2> QED BY <1>5, <2>1, BoundsType DEF Crash, TypeOK, rows, clients, history
<1>6. CASE UNCHANGED vars
  BY <1>6 DEF TypeOK, vars, memory, rows, clients, history
<1> QED BY <1>1, <1>2, <1>3, <1>4, <1>5, <1>6 DEF Others

LEMMA FailType ==
  ASSUME TypeOK, NEW q \in Req, RequestFails(q)
  PROVE  TypeOK'
<1>1. req' \in [Req -> Request] /\ \A x \in Req : LocalsOK(req'[x])
  BY FinishType DEF RequestFails
<1> QED BY <1>1, BoundsType DEF RequestFails, TypeOK, memory, rows, clients, history

LEMMA StepType ==
  ASSUME TypeOK, Proven, [Next]_vars
  PROVE  TypeOK'
<1>1. ASSUME NEW q \in Req, Arrive(q) PROVE TypeOK'
  BY <1>1, MailType, VerifyType, OauthType, SignOutType, CliType DEF Arrive
<1>2. ASSUME NEW q \in Req, Handle(q) PROVE TypeOK'
  BY <1>2, MailType, OauthType, UserType, CreateSessionType, AnswerType, SignOutType
     DEF Handle
<1>3. ASSUME NEW q \in Req, DeleteFails(q) \/ RequestFails(q) PROVE TypeOK'
  BY <1>3, SignOutType, FailType
<1>4. CASE Others
  BY <1>4, OthersType
<1> QED BY <1>1, <1>2, <1>3, <1>4 DEF Next, Others

\* What a request starts with, or stays at, is no exchange; what somebody has
\* proved stays proved.
LEMMA StepProven ==
  ASSUME TypeOK, Proven, [Next]_vars
  PROVE  Proven'
<1>1. ASSUME NEW q \in Req, SendMagicLink(q)  PROVE Proven'
  BY <1>1 DEF SendMagicLink, Goto, Proven, TypeOK, IdleReq
<1>2. ASSUME NEW q \in Req, SendEmail(q) PROVE Proven'
  <2>1. req[q].identity \in Identity
    BY <1>2 DEF SendEmail, At, TypeOK, LocalsOK
  <2> QED BY <1>2, <2>1, NoneIsNoRecord DEF SendEmail, Finish, Goto, Proven, TypeOK, IdleReq
<1>3. ASSUME NEW q \in Req, VerifyMagicLink(q) PROVE Proven'
  BY <1>3 DEF VerifyMagicLink, Goto, Proven, TypeOK, IdleReq
<1>4. ASSUME NEW q \in Req, OauthLogin(q) PROVE Proven'
  BY <1>4 DEF OauthLogin, Proven
<1>5. ASSUME NEW q \in Req, OauthCallback(q) PROVE Proven'
  BY <1>5 DEF OauthCallback, Goto, Proven, TypeOK, IdleReq, history
<1>6. ASSUME NEW q \in Req, CliCallback(q) PROVE Proven'
  <2>1. UNCHANGED proof
    BY <1>6 DEF CliCallback, history
  <2>2. PICK b \in Tab :
          \/ UNCHANGED req
          \/ Goto(q, [IdleReq EXCEPT !.pc = "session", !.kind = "cli", !.tab = b,
                        !.user = sessions[cookie[b].token].user_id])
    BY <1>6 DEF CliCallback
  <2> QED BY <2>1, <2>2 DEF Goto, Proven, TypeOK, IdleReq
<1>7. ASSUME NEW q \in Req, Logout(q) \/ LogoutBearer(q) PROVE Proven'
  BY <1>7 DEF Logout, LogoutBearer, Goto, Proven, TypeOK, IdleReq, history
<1>8. ASSUME NEW q \in Req, ExchangeCode(q) \/ InsertUser(q) PROVE Proven'
  BY <1>8 DEF ExchangeCode, InsertUser, Goto, Proven, TypeOK, Request, history
<1>9. ASSUME NEW q \in Req, SelectUser(q) \/ CreateSession(q) PROVE Proven'
  <2>1. CASE SelectUser(q)
    <3>1. PICK u \in User : Goto(q, [req[q] EXCEPT !.pc = "session", !.user = u])
      BY <2>1 DEF SelectUser
    <3> QED BY <2>1, <3>1 DEF SelectUser, Goto, Proven, TypeOK, Request, history
  <2>2. CASE CreateSession(q)
    <3>1. PICK k \in Token : Goto(q, [req[q] EXCEPT !.pc = "answer", !.token = k])
      BY <2>2 DEF CreateSession, Fresh
    <3> QED BY <2>2, <3>1 DEF CreateSession, Goto, Proven, TypeOK, Request
  <2> QED BY <1>9, <2>1, <2>2
<1>10. ASSUME NEW q \in Req,
          Answer(q) \/ AnswerCli(q) \/ DeleteSession(q) \/ DeleteAllSessions(q)
          \/ DeleteFails(q) \/ RequestFails(q)
       PROVE Proven'
  BY <1>10 DEF Answer, AnswerCli, DeleteSession, DeleteAllSessions, DeleteFails,
               RequestFails, Finish, Goto, Proven, TypeOK, IdleReq, history
<1>11. ASSUME Others PROVE Proven'
  BY <1>11, NoneIsNoRecord
     DEF Others, Consent, Identity, CliLogin, CliLoginFails, CliLogout, SetTier, Tick, Crash,
         Proven, TypeOK, LocalsOK, IdleReq, history, vars
<1> QED BY <1>1, <1>2, <1>3, <1>4, <1>5, <1>6, <1>7, <1>8, <1>9, <1>10, <1>11
        DEF Next, Arrive, Handle, Others

THEOREM TypeCorrect == Spec => []TypeOK
<1>1. Init => TypeOK /\ Proven
  BY IdleType, BoundsType DEF Init, TypeOK, Proven, IdleReq
<1>2. TypeOK /\ Proven /\ [Next]_vars => TypeOK' /\ Proven'
  BY StepType, StepProven
<1> QED BY <1>1, <1>2, PTL DEF Spec

-----------------------------------------------------------------------------
(* Tokens.                                                                 *)

\* Every token in use was drawn, so it is not drawn again; a request that ends
\* in a web session carries its ticket.
TokenLocals(r) ==
  /\ r.pc \in {"answer", "delete"} => via[r.token] # None
  /\ r.pc \in {"exchange", "insert", "select"} => r.kind = "web"
  /\ r.pc \in {"exchange", "insert", "select", "session"} =>
       (r.ticket \in Ticket <=> r.kind = "web")

\* A session whose sign-out was carried out has no row.
TokenInv ==
  /\ \A k \in Token : sessions[k] # None => via[k] # None
  /\ \A b \in Tab : cookie[b] # None => via[cookie[b].token] # None
  /\ \A q \in Req : TokenLocals(req[q])
  /\ \A k \in signed_out : sessions[k] = None /\ via[k] # None

LEMMA GotoToken ==
  ASSUME TypeOK, TokenInv, NEW q \in Req, NEW r, Goto(q, r), TokenLocals(r)
  PROVE  \A x \in Req : TokenLocals(req'[x])
BY DEF TokenInv, Goto, TypeOK

LEMMA FinishToken ==
  ASSUME TypeOK, TokenInv, NEW q \in Req, Finish(q)
  PROVE  \A x \in Req : TokenLocals(req'[x])
<1>1. TokenLocals(IdleReq)
  BY DEF TokenLocals, IdleReq
<1> QED BY <1>1, GotoToken DEF Finish

LEMMA ArriveToken ==
  ASSUME TypeOK, TokenInv, NEW q \in Req, Arrive(q)
  PROVE  TokenInv'
<1>1. UNCHANGED <<via, sessions, signed_out, cookie>>
  BY DEF Arrive, SendMagicLink, VerifyMagicLink, OauthLogin, OauthCallback, Logout,
         LogoutBearer, CliCallback, rows, clients, history
<1>2. \A x \in Req : TokenLocals(req'[x])
  <2>0. CASE UNCHANGED req
    BY <2>0 DEF TokenInv
  <2>1. CASE SendMagicLink(q)
    <3>1. PICK a \in Address, t \in Unused :
            Goto(q, [IdleReq EXCEPT !.pc = "mail", !.ticket = t,
                                    !.identity = ByMail(Canonical[a])])
      BY <2>1 DEF SendMagicLink
    <3>2. TokenLocals([IdleReq EXCEPT !.pc = "mail", !.ticket = t,
                                      !.identity = ByMail(Canonical[a])])
      BY DEF TokenLocals, IdleReq
    <3> QED BY <3>1, <3>2, GotoToken
  <2>2. CASE VerifyMagicLink(q)
    <3>1. PICK b \in Tab, t \in Ticket :
            UNCHANGED req \/
            Goto(q, [IdleReq EXCEPT !.pc = "insert", !.tab = b, !.ticket = t,
                       !.identity = ByMail(magic_tokens[t].user_email)])
      BY <2>2 DEF VerifyMagicLink
    <3>2. TokenLocals([IdleReq EXCEPT !.pc = "insert", !.tab = b, !.ticket = t,
                         !.identity = ByMail(magic_tokens[t].user_email)])
      BY DEF TokenLocals, IdleReq
    <3> QED BY <2>0, <3>1, <3>2, GotoToken
  <2>3. CASE OauthLogin(q)
    BY <2>0, <2>3 DEF OauthLogin
  <2>4. CASE OauthCallback(q)
    <3>1. PICK b \in Tab, t \in oauth_states :
            Goto(q, [IdleReq EXCEPT !.pc = "exchange", !.tab = b, !.ticket = t])
      BY <2>4 DEF OauthCallback
    <3>2. TokenLocals([IdleReq EXCEPT !.pc = "exchange", !.tab = b, !.ticket = t])
      BY DEF TokenLocals, IdleReq, TypeOK
    <3> QED BY <3>1, <3>2, GotoToken
  <2>5. CASE Logout(q)
    <3>1. PICK b \in Tab :
            /\ Sends(b)
            /\ Goto(q, [IdleReq EXCEPT !.pc = "delete", !.tab = b,
                                       !.token = cookie[b].token])
      BY <2>5 DEF Logout
    <3>2. TokenLocals([IdleReq EXCEPT !.pc = "delete", !.tab = b,
                                      !.token = cookie[b].token])
      BY <3>1 DEF TokenLocals, IdleReq, TokenInv, Sends
    <3> QED BY <3>1, <3>2, GotoToken
  <2>6. CASE LogoutBearer(q)
    <3>1. TokenLocals([IdleReq EXCEPT !.pc = "delete_all",
                                      !.user = sessions[token_file].user_id])
      BY DEF TokenLocals, IdleReq
    <3> QED BY <2>6, <3>1, GotoToken DEF LogoutBearer
  <2>7. CASE CliCallback(q)
    <3>1. PICK b \in Tab :
            UNCHANGED req \/
            Goto(q, [IdleReq EXCEPT !.pc = "session", !.kind = "cli", !.tab = b,
                       !.user = sessions[cookie[b].token].user_id])
      BY <2>7 DEF CliCallback
    <3>2. TokenLocals([IdleReq EXCEPT !.pc = "session", !.kind = "cli", !.tab = b,
                         !.user = sessions[cookie[b].token].user_id])
      BY NoneIsNoValue DEF TokenLocals, IdleReq
    <3> QED BY <2>0, <3>1, <3>2, GotoToken
  <2> QED BY <2>1, <2>2, <2>3, <2>4, <2>5, <2>6, <2>7 DEF Arrive
<1> QED BY <1>1, <1>2 DEF TokenInv, TokenLocals

LEMMA HandleToken ==
  ASSUME TypeOK, TokenInv, NEW q \in Req,
         Handle(q) \/ DeleteFails(q) \/ RequestFails(q)
  PROVE  TokenInv'
<1>0. req[q] \in Request /\ LocalsOK(req[q]) /\ TokenLocals(req[q])
  BY DEF TypeOK, TokenInv
<1>1. CASE SendEmail(q) \/ AnswerCli(q) \/ RequestFails(q)
  <2>1. UNCHANGED <<via, sessions, signed_out, cookie>>
    BY <1>1 DEF SendEmail, AnswerCli, RequestFails, rows, clients, history
  <2>2. \A x \in Req : TokenLocals(req'[x])
    BY <1>1, FinishToken DEF SendEmail, AnswerCli, RequestFails
  <2> QED BY <2>1, <2>2 DEF TokenInv, TokenLocals
<1>2. CASE ExchangeCode(q) \/ InsertUser(q) \/ SelectUser(q)
  <2>1. UNCHANGED <<via, sessions, signed_out, cookie>>
    BY <1>2 DEF ExchangeCode, InsertUser, SelectUser, rows, clients, history
  <2>2. CASE ExchangeCode(q)
    <3>1. TokenLocals([req[q] EXCEPT !.pc = "insert", !.identity = proof[req[q].ticket]])
      BY <1>0, <2>2 DEF ExchangeCode, At, TokenLocals, Request
    <3> QED BY <2>1, <2>2, <3>1, GotoToken DEF ExchangeCode, TokenInv, TokenLocals
  <2>3. CASE InsertUser(q)
    <3>1. TokenLocals([req[q] EXCEPT !.pc = "select"])
      BY <1>0, <2>3 DEF InsertUser, At, TokenLocals, Request
    <3> QED BY <2>1, <2>3, <3>1, GotoToken DEF InsertUser, TokenInv, TokenLocals
  <2>4. CASE SelectUser(q)
    <3>1. PICK u \in User : Goto(q, [req[q] EXCEPT !.pc = "session", !.user = u])
      BY <2>4 DEF SelectUser
    <3>2. TokenLocals([req[q] EXCEPT !.pc = "session", !.user = u])
      BY <1>0, <2>4 DEF SelectUser, At, TokenLocals, Request
    <3> QED BY <2>1, <3>1, <3>2, GotoToken DEF TokenInv, TokenLocals
  <2> QED BY <1>2, <2>2, <2>3, <2>4
<1>3. CASE CreateSession(q)
  <2>1. PICK k \in Fresh :
          /\ sessions' = [sessions EXCEPT
               ![k] = [user_id |-> req[q].user, expires_at |-> clock + SessionTtl,
                       kind |-> req[q].kind]]
          /\ via' = [via EXCEPT ![k] = IF req[q].kind = "cli" THEN "cli"
                                       ELSE req[q].ticket]
          /\ Goto(q, [req[q] EXCEPT !.pc = "answer", !.token = k])
    BY <1>3 DEF CreateSession
  <2>2. k \in Token /\ via[k] = None
    BY DEF Fresh
  <2>3. via'[k] # None
    BY <1>0, <1>3, <2>1, <2>2, NoneIsNoValue
       DEF CreateSession, At, TokenLocals, TypeOK, Request
  <2>4. \A l \in Token : l # k => via'[l] = via[l] /\ sessions'[l] = sessions[l]
    BY <2>1, <2>2 DEF TypeOK
  <2>5. \A l \in Token : via[l] # None => via'[l] # None
    BY <2>3, <2>4
  <2>6. ASSUME NEW x \in Req PROVE TokenLocals(req[x])'
    <3>1. CASE x = q
      BY <2>1, <2>3, <3>1, <1>0 DEF Goto, TypeOK, TokenLocals, Request
    <3>2. CASE x # q
      <4>1. req'[x] = req[x] /\ LocalsOK(req[x]) /\ TokenLocals(req[x])
        BY <2>1, <3>2 DEF Goto, TypeOK, TokenInv
      <4> QED BY <2>5, <4>1 DEF TokenLocals, LocalsOK
    <3> QED BY <3>1, <3>2
  <2>7. UNCHANGED <<cookie, signed_out>>
    BY <1>3 DEF CreateSession, clients
  <2>8. \A b \in Tab : cookie[b] # None => cookie[b].token \in Token
    BY DEF TypeOK, Cookie
  <2>9. \A l \in signed_out : l \in Token /\ l # k
    BY <2>2 DEF TypeOK, TokenInv
  <2> QED BY <2>3, <2>4, <2>5, <2>6, <2>7, <2>8, <2>9 DEF TokenInv
<1>4. CASE Answer(q)
  <2>1. UNCHANGED <<via, sessions, signed_out>>
    BY <1>4 DEF Answer, rows, history
  <2>2. \A x \in Req : TokenLocals(req'[x])
    BY <1>4, FinishToken DEF Answer
  <2>3. via[req[q].token] # None
    BY <1>0, <1>4 DEF Answer, At, TokenLocals
  <2>4. \A b \in Tab : cookie'[b] # None => via[cookie'[b].token] # None
    BY <1>4, <2>3 DEF Answer, TypeOK, TokenInv
  <2> QED BY <2>1, <2>2, <2>4 DEF TokenInv, TokenLocals
<1>5. CASE DeleteSession(q) \/ DeleteFails(q)
  <2>1. UNCHANGED via /\ \A x \in Req : TokenLocals(req'[x])
    BY <1>5, FinishToken DEF DeleteSession, DeleteFails, history
  <2>2. \A b \in Tab : cookie'[b] # None => via[cookie'[b].token] # None
    BY <1>5 DEF DeleteSession, DeleteFails, TypeOK, TokenInv
  <2>3. CASE DeleteSession(q)
    <3>1. req[q].token \in Token /\ via[req[q].token] # None
      BY <1>0, <2>3 DEF DeleteSession, At, TokenLocals, LocalsOK
    <3>2. \A k \in Token : sessions'[k] # None => sessions[k] # None
      BY <2>3 DEF DeleteSession, Delete, TypeOK
    <3>3. \A k \in signed_out' : sessions'[k] = None /\ via[k] # None
      BY <2>3, <3>1 DEF DeleteSession, Delete, TypeOK, TokenInv
    <3> QED BY <2>1, <2>2, <3>2, <3>3 DEF TokenInv, TokenLocals
  <2>4. CASE DeleteFails(q)
    BY <2>1, <2>2, <2>4 DEF DeleteFails, TokenInv, TokenLocals, rows, history
  <2> QED BY <1>5, <2>3, <2>4
<1>6. CASE DeleteAllSessions(q)
  <2>1. UNCHANGED <<via, cookie>> /\ \A x \in Req : TokenLocals(req'[x])
    BY <1>6, FinishToken DEF DeleteAllSessions, clients
  <2>2. \A k \in Token : /\ sessions'[k] # None => sessions[k] # None
                         /\ k \in OfUser(req[q].user) => sessions'[k] = None
    BY <1>6 DEF DeleteAllSessions, TypeOK
  <2>3. \A k \in OfUser(req[q].user) : k \in Token /\ via[k] # None
    BY DEF OfUser, TokenInv
  <2>4. \A k \in signed_out' : sessions'[k] = None /\ via[k] # None
    BY <1>6, <2>2, <2>3 DEF DeleteAllSessions, TypeOK, TokenInv
  <2> QED BY <2>1, <2>2, <2>4 DEF TokenInv, TokenLocals
<1> QED BY <1>1, <1>2, <1>3, <1>4, <1>5, <1>6 DEF Handle

LEMMA OthersToken ==
  ASSUME TypeOK, TokenInv, Others
  PROVE  TokenInv'
<1>1. UNCHANGED <<via, sessions, signed_out, cookie>>
  BY DEF Others, Consent, CliLogin, CliLoginFails, CliLogout, SetTier, Tick, Crash,
         rows, clients, history, vars
<1>2. \A x \in Req : TokenLocals(req'[x])
  <2>1. CASE UNCHANGED req
    BY <2>1 DEF TokenInv
  <2>2. CASE Crash
    BY <2>2 DEF Crash, TokenLocals, IdleReq
  <2> QED BY <2>1, <2>2 DEF Others, Consent, CliLogin, CliLoginFails, CliLogout, SetTier,
                            Tick, vars
<1> QED BY <1>1, <1>2 DEF TokenInv, TokenLocals

THEOREM TokenInvHolds == Spec => []TokenInv
<1>1. Init => TokenInv
  BY DEF Init, TokenInv, TokenLocals, IdleReq
<1>2. TypeOK /\ TokenInv /\ [Next]_vars => TokenInv'
  BY ArriveToken, HandleToken, OthersToken DEF Next, Others
<1> QED BY <1>1, <1>2, TypeCorrect, PTL DEF Spec

\* A session that was signed out stays out: its row is gone and its token is
\* not drawn again.
THEOREM SignedOutStaysOutHolds == Spec => []SignedOutStaysOut
<1>1. TokenInv => SignedOutStaysOut
  BY DEF TokenInv, SignedOutStaysOut, Accepts
<1> QED BY <1>1, TokenInvHolds, PTL

-----------------------------------------------------------------------------
(* Accounts.                                                               *)

\* Only an identity with an account was given a tier: a new row, which is on
\* the free tier, takes nothing away.
AccountInv ==
  /\ AccountKept
  /\ \A i \in Identity : tier[i] = "pro" => Known(i)

LEMMA InsertAccount ==
  ASSUME TypeOK, AccountInv, NEW q \in Req, InsertUser(q)
  PROVE  AccountInv'
<1> DEFINE i == req[q].identity
<1>1. i \in Identity /\ UNCHANGED tier
  BY DEF InsertUser, At, TypeOK, LocalsOK, history
<1>2. CASE Known(i)
  BY <1>1, <1>2 DEF InsertUser, InsertOrIgnore, AccountInv, AccountKept, Known, Is
<1>3. CASE ~ Known(i)
  <2>1. PICK u \in User :
          /\ users[u] = None
          /\ users' = [users EXCEPT ![u] = [identity |-> i, tier |-> "free"]]
    BY <1>3 DEF InsertUser, InsertOrIgnore
  <2>2. /\ users'[u].identity = i /\ users'[u].tier = "free"
        /\ users'[u] # None
    BY <1>1, <2>1, NoneIsNoRecord DEF TypeOK, UserRow
  <2>3. \A v \in User : v # u => users'[v] = users[v]
    BY <2>1 DEF TypeOK
  <2>4. \A v \in User : users[v] # None => users[v].identity # i
    BY <1>3 DEF Known, Is
  <2>5. tier[i] = "free"
    BY <1>1, <1>3 DEF AccountInv, TypeOK
  <2>6. ASSUME NEW v \in User, users'[v] # None
        PROVE  /\ \A w \in User :
                    users'[w] # None /\ users'[w].identity = users'[v].identity => v = w
               /\ users'[v].tier = tier'[users'[v].identity]
    BY <1>1, <2>2, <2>3, <2>4, <2>5, <2>6 DEF AccountInv, AccountKept
  <2>7. ASSUME NEW j \in Identity, tier'[j] = "pro" PROVE Known(j)'
    <3>1. PICK v \in User : users[v] # None /\ users[v].identity = j
      BY <1>1, <2>7 DEF AccountInv, Known, Is
    <3> QED BY <2>1, <2>3, <3>1 DEF Known, Is
  <2> QED BY <2>6, <2>7 DEF AccountInv, AccountKept
<1> QED BY <1>2, <1>3

LEMMA SetTierAccount ==
  ASSUME TypeOK, AccountInv, NEW u \in User, SetTier(u)
  PROVE  AccountInv'
<1> DEFINE i == users[u].identity
<1>1. /\ users[u] \in UserRow /\ i \in Identity
      /\ users' = [users EXCEPT ![u] = [users[u] EXCEPT !.tier = "pro"]]
      /\ tier' = [tier EXCEPT ![i] = "pro"]
  BY DEF SetTier, TypeOK, UserRow
<1>2. /\ users'[u] # None /\ users'[u].identity = i /\ users'[u].tier = "pro"
      /\ tier'[i] = "pro"
  <2>1. [users[u] EXCEPT !.tier = "pro"] \in UserRow
    BY <1>1 DEF UserRow
  <2>2. /\ [users[u] EXCEPT !.tier = "pro"].identity = i
        /\ [users[u] EXCEPT !.tier = "pro"].tier = "pro"
    BY <1>1 DEF UserRow
  <2>3. users'[u] = [users[u] EXCEPT !.tier = "pro"]
    BY <1>1 DEF TypeOK
  <2> QED BY <1>1, <2>1, <2>2, <2>3, NoneIsNoRecord DEF TypeOK
<1>3. \A v \in User : v # u => users'[v] = users[v]
  BY <1>1 DEF TypeOK
<1>4. \A j \in Identity : j # i => tier'[j] = tier[j]
  BY <1>1 DEF TypeOK
<1>5. \A v \in User : users[v] # None => users[v].identity \in Identity
  BY DEF TypeOK, UserRow
<1>6. \A v \in User : users[v] # None /\ users[v].identity = i => v = u
  BY DEF SetTier, AccountInv, AccountKept
<1>7. ASSUME NEW v \in User, users'[v] # None
      PROVE  /\ \A w \in User :
                  users'[w] # None /\ users'[w].identity = users'[v].identity => v = w
             /\ users'[v].tier = tier'[users'[v].identity]
  BY <1>2, <1>3, <1>4, <1>5, <1>6, <1>7 DEF AccountInv, AccountKept
<1>8. ASSUME NEW j \in Identity, tier'[j] = "pro" PROVE Known(j)'
  <2>1. CASE j = i
    BY <1>2, <2>1 DEF Known, Is
  <2>2. CASE j # i
    <3>1. PICK v \in User : users[v] # None /\ users[v].identity = j
      BY <1>4, <1>8, <2>2 DEF AccountInv, Known, Is
    <3> QED BY <1>3, <2>2, <3>1 DEF Known, Is
  <2> QED BY <2>1, <2>2
<1> QED BY <1>7, <1>8 DEF AccountInv, AccountKept

\* One account per identity, and its tier is the operator's: the row that an
\* upsert finds is left alone, and the one it makes is the first.
THEOREM AccountKeptHolds == Spec => []AccountKept
<1>1. Init => AccountInv
  BY DEF Init, AccountInv, AccountKept
<1>2. TypeOK /\ AccountInv /\ [Next]_vars => AccountInv'
  <2> SUFFICES ASSUME TypeOK, AccountInv, [Next]_vars PROVE AccountInv'
    OBVIOUS
  <2>0. CASE UNCHANGED <<users, tier>>
    BY <2>0 DEF AccountInv, AccountKept, Known, Is
  <2>1. ASSUME NEW q \in Req, Arrive(q) \/ DeleteFails(q) \/ RequestFails(q)
        PROVE  UNCHANGED <<users, tier>>
    BY <2>1 DEF Arrive, SendMagicLink, VerifyMagicLink, OauthLogin, OauthCallback, Logout,
                LogoutBearer, CliCallback, DeleteFails, RequestFails, rows, history
  <2>2. ASSUME NEW q \in Req, Handle(q) PROVE InsertUser(q) \/ UNCHANGED <<users, tier>>
    BY <2>2 DEF Handle, SendEmail, ExchangeCode, SelectUser, CreateSession, Answer,
                AnswerCli, DeleteSession, DeleteAllSessions, rows, history
  <2>3. Others => UNCHANGED <<users, tier>> \/ \E u \in User : SetTier(u)
    BY DEF Others, Consent, CliLogin, CliLoginFails, CliLogout, Tick, Crash, rows,
           history, vars
  <2> QED BY <2>0, <2>1, <2>2, <2>3, InsertAccount, SetTierAccount DEF Next, Others
<1>3. AccountInv => AccountKept
  BY DEF AccountInv
<1> QED BY <1>1, <1>2, <1>3, TypeCorrect, PTL DEF Spec

\* What the comparison of texts amounts to, for any length of the day.
LEMMA DayWindow ==
  ASSUME NEW e \in Nat, NEW c \in Nat, NEW d \in Nat \ {0}
  PROVE  /\ c < e => e \div d >= c \div d
         /\ e \div d >= c \div d => c < e + d
<1>1. /\ e \div d \in Nat /\ e % d \in 0..(d - 1) /\ e = d * (e \div d) + (e % d)
      /\ c \div d \in Nat /\ c % d \in 0..(d - 1) /\ c = d * (c \div d) + (c % d)
  BY SMT
<1> DEFINE m == e \div d
           n == c \div d
<1>2. m \in Nat /\ n \in Nat
  BY <1>1
<1> HIDE DEF m, n
<1>3. ASSUME m < n PROVE d * n >= d * m + d
  BY <1>2, <1>3, SMT
<1>4. ASSUME n <= m PROVE d * n <= d * m
  BY <1>2, <1>4, SMT
<1>5. e \in d * m .. (d * m + d - 1) /\ c \in d * n .. (d * n + d - 1)
  BY <1>1 DEF m, n
<1>6. d * m \in Nat /\ d * n \in Nat
  BY <1>2
<1>7. /\ c < e => m >= n
      /\ m >= n => c < e + d
  BY <1>2, <1>3, <1>4, <1>5, <1>6
<1> QED BY <1>7 DEF m, n

\* A session is good until its expiry and at most a day longer.
THEOREM SessionWindowHolds == Spec => []SessionWindow
<1>1. TypeOK => SessionWindow
  <2> SUFFICES ASSUME TypeOK, NEW k \in Token, sessions[k] # None
               PROVE  LET s == sessions[k] IN
                      /\ clock < s.expires_at => Accepts(k)
                      /\ Accepts(k) => clock < s.expires_at + Day
    BY DEF SessionWindow
  <2>1. sessions[k].expires_at \in Nat /\ clock \in Nat /\ Day \in Nat \ {0}
    BY BoundsType DEF TypeOK, SessionRow
  <2> QED BY <2>1, DayWindow DEF Accepts, NotExpired
<1> QED BY <1>1, TypeCorrect, PTL

-----------------------------------------------------------------------------
(* Tickets: links and OAuth states.                                        *)

\* What waits in a map is what was drawn for that map.
KindInv ==
  /\ \A t \in Ticket : magic_tokens[t] # None => issued[t] = "link"
  /\ \A t \in oauth_states : issued[t] = "state"

LEMMA StepKind ==
  ASSUME TypeOK, KindInv, [Next]_vars
  PROVE  KindInv'
<1>0. CASE UNCHANGED <<memory, issued>>
  BY <1>0 DEF KindInv, memory
<1>1. ASSUME NEW q \in Req, SendMagicLink(q) PROVE KindInv'
  <2>1. PICK a \in Address, t \in Unused :
          /\ magic_tokens' = [magic_tokens EXCEPT
               ![t] = [user_email |-> Canonical[a], expires_at |-> clock + LinkTtl]]
          /\ issued' = [issued EXCEPT ![t] = "link"]
    BY <1>1 DEF SendMagicLink
  <2>2. t \in Ticket /\ issued[t] = "unused" /\ UNCHANGED oauth_states
    BY <1>1 DEF Unused, SendMagicLink
  <2> QED BY <2>1, <2>2 DEF KindInv, TypeOK
<1>2. ASSUME NEW q \in Req, VerifyMagicLink(q) PROVE KindInv'
  <2>1. PICK t \in Ticket :
          /\ magic_tokens[t] # None
          /\ magic_tokens' = Remove(magic_tokens, t)
          /\ issued' \in {issued, [issued EXCEPT ![t] = "late"]}
    BY <1>2 DEF VerifyMagicLink
  <2>2. UNCHANGED oauth_states /\ t \notin oauth_states
    BY <1>2, <2>1 DEF VerifyMagicLink, KindInv
  <2> QED BY <2>1, <2>2 DEF KindInv, TypeOK, Remove
<1>3. ASSUME NEW q \in Req, OauthLogin(q) PROVE KindInv'
  <2>1. PICK t \in Unused :
          /\ oauth_states' = oauth_states \cup {t}
          /\ issued' = [issued EXCEPT ![t] = "state"]
    BY <1>3 DEF OauthLogin
  <2>2. t \in Ticket /\ issued[t] = "unused" /\ UNCHANGED magic_tokens
    BY <1>3 DEF Unused, OauthLogin
  <2> QED BY <2>1, <2>2 DEF KindInv, TypeOK
<1>4. ASSUME NEW q \in Req, OauthCallback(q) PROVE KindInv'
  <2>1. UNCHANGED <<magic_tokens, issued>> /\ oauth_states' \subseteq oauth_states
    BY <1>4 DEF OauthCallback, history
  <2> QED BY <2>1 DEF KindInv
<1>5. CASE Crash
  BY <1>5 DEF Crash, KindInv, history
<1>6. ASSUME NEW q \in Req, Logout(q) \/ LogoutBearer(q) \/ CliCallback(q)
      PROVE  UNCHANGED <<memory, issued>>
  BY <1>6 DEF Logout, LogoutBearer, CliCallback, history
<1>7. ASSUME NEW q \in Req, Handle(q) \/ DeleteFails(q) \/ RequestFails(q)
      PROVE  UNCHANGED <<memory, issued>>
  BY <1>7 DEF Handle, SendEmail, ExchangeCode, InsertUser, SelectUser, CreateSession,
              Answer, AnswerCli, DeleteSession, DeleteAllSessions, DeleteFails,
              RequestFails, history
<1>8. Others => Crash \/ UNCHANGED <<memory, issued>>
  BY DEF Others, Consent, CliLogin, CliLoginFails, CliLogout, SetTier, Tick, history, vars
<1> QED BY <1>0, <1>1, <1>2, <1>3, <1>4, <1>5, <1>6, <1>7, <1>8 DEF Next, Arrive, Others

\* A handler that took t from its map and has not opened the session yet.
Holds(r, t) ==
  r.ticket = t /\ r.pc \in {"exchange", "insert", "select", "session"}

\* A ticket is in its map, or with one handler, or opened one session; one that
\* was not drawn is nowhere.
TicketInv ==
  /\ \A t \in Pending \cup Unused :
       /\ \A q \in Req : ~ Holds(req[q], t)
       /\ \A k \in Token : via[k] # t
  /\ \A q, p \in Req, t \in Ticket : Holds(req[q], t) /\ Holds(req[p], t) => q = p
  /\ \A q \in Req, t \in Ticket : Holds(req[q], t) => \A k \in Token : via[k] # t
  /\ OpensOneSession

LEMMA PendingType == ASSUME TypeOK PROVE Pending \cup Unused \subseteq Ticket
BY DEF Pending, Unused, TypeOK

\* A step that hands no ticket on keeps them apart.
LEMMA KeepTickets ==
  ASSUME TypeOK, TicketInv, UNCHANGED via,
         Pending' \cup Unused' \subseteq Pending \cup Unused,
         \A x \in Req, t \in Ticket : Holds(req'[x], t) => Holds(req[x], t)
  PROVE  TicketInv'
<1>1. \A t \in Pending' \cup Unused' :
        /\ \A q \in Req : ~ Holds(req'[q], t)
        /\ \A k \in Token : via'[k] # t
  BY PendingType DEF TicketInv
<1>2. \A q, p \in Req, t \in Ticket : Holds(req'[q], t) /\ Holds(req'[p], t) => q = p
  BY DEF TicketInv
<1>3. \A q \in Req, t \in Ticket : Holds(req'[q], t) => \A k \in Token : via'[k] # t
  BY DEF TicketInv
<1>4. OpensOneSession'
  BY DEF TicketInv, OpensOneSession
<1> QED BY <1>1, <1>2, <1>3, <1>4 DEF TicketInv, Holds

\* A handler that moves on takes no ticket it did not hold.
LEMMA GotoHolds ==
  ASSUME TypeOK, NEW q \in Req, NEW r, Goto(q, r),
         \A t \in Ticket : Holds(r, t) => Holds(req[q], t)
  PROVE  \A x \in Req, t \in Ticket : Holds(req'[x], t) => Holds(req[x], t)
BY DEF Goto, TypeOK

LEMMA FinishHolds ==
  ASSUME TypeOK, NEW q \in Req, Finish(q)
  PROVE  \A x \in Req, t \in Ticket : Holds(req'[x], t) => Holds(req[x], t)
<1>1. \A t \in Ticket : ~ Holds(IdleReq, t)
  BY DEF Holds, IdleReq
<1> QED BY <1>1, GotoHolds DEF Finish

\* A ticket that is taken from its map is with the handler that took it.
LEMMA TakeTicket ==
  ASSUME TypeOK, TicketInv, UNCHANGED via, NEW q \in Req, NEW t \in Pending, NEW r,
         Pending' \cup Unused' \subseteq (Pending \cup Unused) \ {t},
         Goto(q, r), \A s \in Ticket : s # t => ~ Holds(r, s)
  PROVE  TicketInv'
<1>0. /\ req'[q] = r
      /\ \A x \in Req : x # q => req'[x] = req[x]
  BY DEF Goto, TypeOK
<1>1. \A s \in Pending' \cup Unused' :
        /\ \A x \in Req : ~ Holds(req'[x], s)
        /\ \A k \in Token : via'[k] # s
  BY <1>0, PendingType DEF TicketInv
<1>2. \A x, p \in Req, s \in Ticket : Holds(req'[x], s) /\ Holds(req'[p], s) => x = p
  BY <1>0 DEF TicketInv
<1>3. \A x \in Req, s \in Ticket : Holds(req'[x], s) => \A k \in Token : via'[k] # s
  BY <1>0 DEF TicketInv
<1>4. OpensOneSession'
  BY DEF TicketInv, OpensOneSession
<1> QED BY <1>1, <1>2, <1>3, <1>4 DEF TicketInv, Holds

LEMMA ArriveTicket ==
  ASSUME TypeOK, KindInv, TicketInv, NEW q \in Req, Arrive(q)
  PROVE  TicketInv'
<1>0. UNCHANGED via
  BY DEF Arrive, SendMagicLink, VerifyMagicLink, OauthLogin, OauthCallback, Logout,
         LogoutBearer, CliCallback, history
<1>1. CASE SendMagicLink(q)
  <2>1. PICK a \in Address, t \in Unused :
          /\ magic_tokens' = [magic_tokens EXCEPT
               ![t] = [user_email |-> Canonical[a], expires_at |-> clock + LinkTtl]]
          /\ issued' = [issued EXCEPT ![t] = "link"]
          /\ Goto(q, [IdleReq EXCEPT !.pc = "mail", !.ticket = t,
                                     !.identity = ByMail(Canonical[a])])
    BY <1>1 DEF SendMagicLink
  <2>2. \A s \in Ticket : ~ Holds([IdleReq EXCEPT !.pc = "mail", !.ticket = t,
                                     !.identity = ByMail(Canonical[a])], s)
    BY DEF Holds, IdleReq
  <2>3. \A x \in Req, s \in Ticket : Holds(req'[x], s) => Holds(req[x], s)
    BY <2>1, <2>2, GotoHolds
  <2>4. UNCHANGED oauth_states /\ t \in Ticket
    BY <1>1 DEF SendMagicLink, Unused
  <2>5. Pending' \cup Unused' \subseteq Pending \cup Unused
    BY <2>1, <2>4 DEF Pending, Unused, TypeOK
  <2> QED BY <1>0, <2>3, <2>5, KeepTickets
<1>2. CASE VerifyMagicLink(q)
  <2>1. PICK b \in Tab, t \in Ticket :
          /\ magic_tokens[t] # None
          /\ magic_tokens' = Remove(magic_tokens, t)
          /\ \/ UNCHANGED req
             \/ Goto(q, [IdleReq EXCEPT !.pc = "insert", !.tab = b, !.ticket = t,
                           !.identity = ByMail(magic_tokens[t].user_email)])
          /\ issued' \in {issued, [issued EXCEPT ![t] = "late"]}
    BY <1>2 DEF VerifyMagicLink
  <2> DEFINE r == [IdleReq EXCEPT !.pc = "insert", !.tab = b, !.ticket = t,
                           !.identity = ByMail(magic_tokens[t].user_email)]
  <2>2. UNCHANGED oauth_states
    BY <1>2 DEF VerifyMagicLink
  <2>3. t \in Pending /\ issued[t] = "link" /\ t \notin oauth_states
    BY <2>1 DEF Pending, KindInv
  <2>4. Pending' \cup Unused' \subseteq (Pending \cup Unused) \ {t}
    BY <2>1, <2>2, <2>3 DEF Pending, Unused, Remove, TypeOK
  <2>5. CASE UNCHANGED req
    <3>1. \A x \in Req, s \in Ticket : Holds(req'[x], s) => Holds(req[x], s)
      BY <2>5
    <3> QED BY <1>0, <2>4, <3>1, KeepTickets
  <2>6. CASE Goto(q, r)
    <3>1. \A s \in Ticket : s # t => ~ Holds(r, s)
      BY DEF Holds, IdleReq
    <3> QED BY <1>0, <2>3, <2>4, <2>6, <3>1, TakeTicket
  <2> QED BY <2>1, <2>5, <2>6
<1>3. CASE OauthLogin(q)
  <2>1. PICK t \in Unused :
          /\ oauth_states' = oauth_states \cup {t}
          /\ issued' = [issued EXCEPT ![t] = "state"]
    BY <1>3 DEF OauthLogin
  <2>2. UNCHANGED <<magic_tokens, req>> /\ t \in Ticket
    BY <1>3 DEF OauthLogin, Unused
  <2>3. Pending' \cup Unused' \subseteq Pending \cup Unused
    BY <2>1, <2>2 DEF Pending, Unused, TypeOK
  <2>4. \A x \in Req, s \in Ticket : Holds(req'[x], s) => Holds(req[x], s)
    BY <2>2
  <2> QED BY <1>0, <2>3, <2>4, KeepTickets
<1>4. CASE OauthCallback(q)
  <2>1. PICK b \in Tab, t \in oauth_states :
          /\ oauth_states' = oauth_states \ {t}
          /\ Goto(q, [IdleReq EXCEPT !.pc = "exchange", !.tab = b, !.ticket = t])
    BY <1>4 DEF OauthCallback
  <2> DEFINE r == [IdleReq EXCEPT !.pc = "exchange", !.tab = b, !.ticket = t]
  <2>2. UNCHANGED <<magic_tokens, issued>> /\ t \in Ticket
    BY <1>4 DEF OauthCallback, history, TypeOK
  <2>3. t \in Pending /\ issued[t] = "state" /\ magic_tokens[t] = None
    BY <2>2 DEF Pending, KindInv
  <2>4. Pending' \cup Unused' \subseteq (Pending \cup Unused) \ {t}
    BY <2>1, <2>2, <2>3 DEF Pending, Unused
  <2>5. \A s \in Ticket : s # t => ~ Holds(r, s)
    BY DEF Holds, IdleReq
  <2> QED BY <1>0, <2>1, <2>3, <2>4, <2>5, TakeTicket
<1>5. CASE Logout(q) \/ LogoutBearer(q) \/ CliCallback(q)
  <2>1. UNCHANGED <<magic_tokens, oauth_states, issued>>
    BY <1>5 DEF Logout, LogoutBearer, CliCallback, memory, history
  <2>2. Pending' \cup Unused' \subseteq Pending \cup Unused
    BY <2>1 DEF Pending, Unused
  <2>3. \A x \in Req, t \in Ticket : Holds(req'[x], t) => Holds(req[x], t)
    <3>1. CASE Logout(q)
      <4>1. PICK b \in Tab : Goto(q, [IdleReq EXCEPT !.pc = "delete", !.tab = b,
                                                     !.token = cookie[b].token])
        BY <3>1 DEF Logout
      <4>2. \A t \in Ticket : ~ Holds([IdleReq EXCEPT !.pc = "delete", !.tab = b,
                                                      !.token = cookie[b].token], t)
        BY DEF Holds, IdleReq
      <4> QED BY <4>1, <4>2, GotoHolds
    <3>2. CASE LogoutBearer(q)
      <4>1. \A t \in Ticket : ~ Holds([IdleReq EXCEPT !.pc = "delete_all",
                                         !.user = sessions[token_file].user_id], t)
        BY DEF Holds, IdleReq
      <4> QED BY <3>2, <4>1, GotoHolds DEF LogoutBearer
    <3>3. CASE CliCallback(q)
      <4>1. PICK b \in Tab :
              UNCHANGED req \/
              Goto(q, [IdleReq EXCEPT !.pc = "session", !.kind = "cli", !.tab = b,
                         !.user = sessions[cookie[b].token].user_id])
        BY <3>3 DEF CliCallback
      <4>2. \A t \in Ticket :
              ~ Holds([IdleReq EXCEPT !.pc = "session", !.kind = "cli", !.tab = b,
                         !.user = sessions[cookie[b].token].user_id], t)
        BY NoneIsNoValue DEF Holds, IdleReq
      <4> QED BY <4>1, <4>2, GotoHolds
    <3> QED BY <1>5, <3>1, <3>2, <3>3
  <2> QED BY <1>0, <2>2, <2>3, KeepTickets
<1> QED BY <1>1, <1>2, <1>3, <1>4, <1>5 DEF Arrive

\* A web session is opened with the ticket its handler held.
LEMMA CreateTicket ==
  ASSUME TypeOK, TokenInv, TicketInv, NEW q \in Req, CreateSession(q)
  PROVE  TicketInv'
<1>1. PICK k \in Fresh :
        /\ via' = [via EXCEPT ![k] = IF req[q].kind = "cli" THEN "cli"
                                     ELSE req[q].ticket]
        /\ Goto(q, [req[q] EXCEPT !.pc = "answer", !.token = k])
  BY DEF CreateSession
<1> DEFINE r == [req[q] EXCEPT !.pc = "answer", !.token = k]
<1>2. k \in Token /\ via[k] = None
  BY DEF Fresh
<1>3. /\ req[q] \in Request /\ req[q].pc = "session"
      /\ req[q].ticket \in Ticket <=> req[q].kind = "web"
  BY DEF CreateSession, At, TypeOK, TokenInv, TokenLocals
<1>4. /\ req'[q] = r
      /\ \A x \in Req : x # q => req'[x] = req[x]
  BY <1>1 DEF Goto, TypeOK
<1>5. \A t : ~ Holds(r, t)
  BY <1>3 DEF Holds, Request
<1>6. UNCHANGED <<magic_tokens, oauth_states, issued>>
  BY DEF CreateSession, memory
<1>7. Pending' = Pending /\ Unused' = Unused
  BY <1>6 DEF Pending, Unused
<1>8. /\ \A l \in Token : l # k => via'[l] = via[l]
      /\ via'[k] \in Ticket => via'[k] = req[q].ticket /\ Holds(req[q], via'[k])
  BY <1>1, <1>2, <1>3, NoneIsNoValue DEF TypeOK, Holds, Request
<1>9. \A t \in Pending' \cup Unused' :
        /\ \A x \in Req : ~ Holds(req'[x], t)
        /\ \A l \in Token : via'[l] # t
  <2>1. \A t \in Pending \cup Unused : t \in Ticket
    BY DEF Pending, Unused, TypeOK
  <2> QED BY <1>2, <1>4, <1>5, <1>7, <1>8, <2>1 DEF TicketInv
<1>10. \A x, p \in Req, t \in Ticket : Holds(req'[x], t) /\ Holds(req'[p], t) => x = p
  BY <1>4, <1>5 DEF TicketInv
<1>11. \A x \in Req, t \in Ticket : Holds(req'[x], t) => \A l \in Token : via'[l] # t
  BY <1>4, <1>5, <1>8 DEF TicketInv
<1>12. OpensOneSession'
  BY <1>8 DEF TicketInv, OpensOneSession
<1> QED BY <1>9, <1>10, <1>11, <1>12 DEF TicketInv, Holds

LEMMA HandleTicket ==
  ASSUME TypeOK, TokenInv, TicketInv, NEW q \in Req,
         Handle(q) \/ DeleteFails(q) \/ RequestFails(q)
  PROVE  TicketInv'
<1>0. req[q] \in Request
  BY DEF TypeOK
<1>1. CASE CreateSession(q)
  BY <1>1, CreateTicket
<1>2. CASE ~ CreateSession(q)
  <2>1. UNCHANGED <<magic_tokens, oauth_states, issued, via>>
    BY <1>2 DEF Handle, SendEmail, ExchangeCode, InsertUser, SelectUser, Answer, AnswerCli,
                DeleteSession, DeleteAllSessions, DeleteFails, RequestFails, memory, history
  <2>2. Pending' \cup Unused' \subseteq Pending \cup Unused
    BY <2>1 DEF Pending, Unused
  <2>3. \A x \in Req, t \in Ticket : Holds(req'[x], t) => Holds(req[x], t)
    <3>1. CASE ExchangeCode(q)
      <4>1. \A t \in Ticket :
              Holds([req[q] EXCEPT !.pc = "insert", !.identity = proof[req[q].ticket]], t)
                => Holds(req[q], t)
        BY <1>0, <3>1 DEF ExchangeCode, At, Holds, Request
      <4> QED BY <3>1, <4>1, GotoHolds DEF ExchangeCode
    <3>2. CASE InsertUser(q)
      <4>1. \A t \in Ticket : Holds([req[q] EXCEPT !.pc = "select"], t) => Holds(req[q], t)
        BY <1>0, <3>2 DEF InsertUser, At, Holds, Request
      <4> QED BY <3>2, <4>1, GotoHolds DEF InsertUser
    <3>3. CASE SelectUser(q)
      <4>1. PICK u \in User : Goto(q, [req[q] EXCEPT !.pc = "session", !.user = u])
        BY <3>3 DEF SelectUser
      <4>2. \A t \in Ticket :
              Holds([req[q] EXCEPT !.pc = "session", !.user = u], t) => Holds(req[q], t)
        BY <1>0, <3>3 DEF SelectUser, At, Holds, Request
      <4> QED BY <4>1, <4>2, GotoHolds
    <3>4. CASE Finish(q)
      BY <3>4, FinishHolds
    <3> QED BY <1>2, <3>1, <3>2, <3>3, <3>4
            DEF Handle, SendEmail, Answer, AnswerCli, DeleteSession, DeleteAllSessions,
                DeleteFails, RequestFails
  <2> QED BY <2>1, <2>2, <2>3, KeepTickets
<1> QED BY <1>1, <1>2

LEMMA OthersTicket ==
  ASSUME TypeOK, TicketInv, Others
  PROVE  TicketInv'
<1>1. UNCHANGED <<via, issued>>
  BY DEF Others, Consent, CliLogin, CliLoginFails, CliLogout, SetTier, Tick, Crash,
         history, vars
<1>2. CASE Crash
  <2>1. Pending' = {}
    BY <1>2 DEF Crash, Pending
  <2>2. Unused' = Unused
    BY <1>1 DEF Unused
  <2>3. \A x \in Req, t \in Ticket : ~ Holds(req'[x], t)
    BY <1>2 DEF Crash, Holds, IdleReq
  <2> QED BY <1>1, <2>1, <2>2, <2>3, KeepTickets
<1>3. CASE UNCHANGED <<memory, req>>
  <2>1. Pending' = Pending /\ Unused' = Unused
    BY <1>1, <1>3 DEF Pending, Unused, memory
  <2>2. \A x \in Req, t \in Ticket : Holds(req'[x], t) => Holds(req[x], t)
    BY <1>3
  <2> QED BY <1>1, <2>1, <2>2, KeepTickets
<1> QED BY <1>2, <1>3 DEF Others, Consent, CliLogin, CliLoginFails, CliLogout, SetTier,
                          Tick, vars

LEMMA TicketInvHolds == Spec => [](KindInv /\ TicketInv)
<1>1. Init => KindInv /\ TicketInv
  <2> SUFFICES ASSUME Init PROVE KindInv /\ TicketInv
    OBVIOUS
  <2>1. KindInv
    BY DEF Init, KindInv
  <2>2. \A q \in Req, t \in Ticket : ~ Holds(req[q], t)
    BY DEF Init, Holds, IdleReq
  <2>3. \A k \in Token : via[k] \notin Ticket
    BY NoneIsNoValue DEF Init
  <2>4. Pending \cup Unused \subseteq Ticket
    BY DEF Init, Pending, Unused
  <2>5. OpensOneSession
    BY <2>3 DEF OpensOneSession
  <2> QED BY <2>1, <2>2, <2>3, <2>4, <2>5 DEF TicketInv
<1>2. TypeOK /\ TokenInv /\ KindInv /\ TicketInv /\ [Next]_vars => KindInv' /\ TicketInv'
  BY StepKind, ArriveTicket, HandleTicket, OthersTicket DEF Next, Others
<1> QED BY <1>1, <1>2, TypeCorrect, TokenInvHolds, PTL DEF Spec

\* A link or a state opens one session: one request gets it from its map, and
\* nobody puts it back.
THEOREM OpensOneSessionHolds == Spec => []OpensOneSession
<1>1. TicketInv => OpensOneSession
  BY DEF TicketInv
<1> QED BY <1>1, TicketInvHolds, PTL

-----------------------------------------------------------------------------
(* Who proved what.                                                        *)

\* A link is mailed once, to the account it was kept for.
Mail(r, pf, iss, links) ==
  r.pc = "mail" =>
    /\ iss[r.ticket] = "link" /\ pf[r.ticket] = None
    /\ links[r.ticket] # None => r.identity = ByMail(links[r.ticket].user_email)

MailInv ==
  /\ \A q \in Req : Mail(req[q], proof, issued, magic_tokens)
  /\ \A q, p \in Req :
       req[q].pc = "mail" /\ req[p].pc = "mail" /\ req[q].ticket = req[p].ticket => q = p
  /\ \A t \in Ticket : magic_tokens[t] # None /\ proof[t] # None =>
       proof[t] = ByMail(magic_tokens[t].user_email)
  /\ \A t \in Unused : proof[t] = None

\* A handler that mails nothing.
LEMMA GotoMail ==
  ASSUME TypeOK, MailInv, UNCHANGED <<magic_tokens, issued, proof>>,
         NEW q \in Req, NEW r, Goto(q, r), r.pc # "mail"
  PROVE  MailInv'
<1>1. Unused' = Unused
  BY DEF Unused
<1>2. /\ req'[q] = r
      /\ \A x \in Req : x # q => req'[x] = req[x]
  BY DEF Goto, TypeOK
<1>3. \A x \in Req : Mail(req'[x], proof', issued', magic_tokens')
  BY <1>2 DEF MailInv, Mail
<1>4. \A x, p \in Req :
        req'[x].pc = "mail" /\ req'[p].pc = "mail" /\ req'[x].ticket = req'[p].ticket => x = p
  BY <1>2 DEF MailInv
<1> QED BY <1>1, <1>3, <1>4 DEF MailInv

LEMMA SendMail ==
  ASSUME TypeOK, MailInv, NEW q \in Req, SendMagicLink(q) \/ SendEmail(q)
  PROVE  MailInv'
<1>1. CASE SendMagicLink(q)
  <2>1. PICK a \in Address, t \in Unused :
          /\ magic_tokens' = [magic_tokens EXCEPT
               ![t] = [user_email |-> Canonical[a], expires_at |-> clock + LinkTtl]]
          /\ issued' = [issued EXCEPT ![t] = "link"]
          /\ Goto(q, [IdleReq EXCEPT !.pc = "mail", !.ticket = t,
                                     !.identity = ByMail(Canonical[a])])
    BY <1>1 DEF SendMagicLink
  <2> DEFINE r == [IdleReq EXCEPT !.pc = "mail", !.ticket = t,
                                  !.identity = ByMail(Canonical[a])]
  <2>2. t \in Ticket /\ issued[t] = "unused" /\ proof[t] = None /\ UNCHANGED proof
    BY <1>1 DEF Unused, SendMagicLink, MailInv
  <2>3. /\ req'[q] = r
        /\ \A x \in Req : x # q => req'[x] = req[x]
    BY <2>1 DEF Goto, TypeOK
  <2>4. r.pc = "mail" /\ r.ticket = t /\ r.identity = ByMail(Canonical[a])
    BY DEF IdleReq
  <2> HIDE DEF r
  <2>5. /\ magic_tokens'[t].user_email = Canonical[a] /\ issued'[t] = "link"
        /\ \A s \in Ticket : s # t => magic_tokens'[s] = magic_tokens[s]
                                      /\ issued'[s] = issued[s]
    BY <2>1, <2>2 DEF TypeOK
  <2>6. \A x \in Req : req[x].pc = "mail" => req[x].ticket \in Ticket /\ req[x].ticket # t
    BY <2>2 DEF MailInv, Mail, TypeOK, LocalsOK
  <2>7. \A x \in Req : Mail(req'[x], proof', issued', magic_tokens')
    BY <2>2, <2>3, <2>4, <2>5, <2>6 DEF MailInv, Mail
  <2>8. \A x, p \in Req :
          req'[x].pc = "mail" /\ req'[p].pc = "mail" /\ req'[x].ticket = req'[p].ticket
            => x = p
    BY <2>3, <2>4, <2>6 DEF MailInv
  <2>9. \A s \in Ticket : magic_tokens'[s] # None /\ proof'[s] # None =>
          proof'[s] = ByMail(magic_tokens'[s].user_email)
    BY <2>2, <2>5 DEF MailInv
  <2>10. \A s \in Unused' : proof'[s] = None
    BY <2>2, <2>5 DEF MailInv, Unused
  <2> QED BY <2>7, <2>8, <2>9, <2>10 DEF MailInv
<1>2. CASE SendEmail(q)
  <2> DEFINE t == req[q].ticket
  <2>1. /\ t \in Ticket /\ req[q].pc = "mail" /\ req[q].identity \in Identity
        /\ issued[t] = "link" /\ proof[t] = None
        /\ magic_tokens[t] # None => req[q].identity = ByMail(magic_tokens[t].user_email)
    BY <1>2 DEF SendEmail, At, TypeOK, LocalsOK, MailInv, Mail
  <2>2. /\ proof' = [proof EXCEPT ![t] = req[q].identity]
        /\ UNCHANGED <<magic_tokens, issued>>
    BY <1>2 DEF SendEmail, memory
  <2>3. /\ req'[q] = IdleReq
        /\ \A x \in Req : x # q => req'[x] = req[x]
    BY <1>2 DEF SendEmail, Finish, Goto, TypeOK
  <2>4. /\ proof'[t] = req[q].identity
        /\ \A s \in Ticket : s # t => proof'[s] = proof[s]
    BY <2>1, <2>2 DEF TypeOK
  <2>5. \A x \in Req : req'[x].pc = "mail" =>
          x # q /\ req[x].ticket \in Ticket /\ req[x].ticket # t
    BY <2>1, <2>3 DEF IdleReq, MailInv, TypeOK, LocalsOK
  <2>6. \A x \in Req : Mail(req'[x], proof', issued', magic_tokens')
    BY <2>2, <2>3, <2>4, <2>5 DEF MailInv, Mail
  <2>7. \A x, p \in Req :
          req'[x].pc = "mail" /\ req'[p].pc = "mail" /\ req'[x].ticket = req'[p].ticket
            => x = p
    BY <2>3, <2>5 DEF MailInv
  <2>8. \A s \in Ticket : magic_tokens'[s] # None /\ proof'[s] # None =>
          proof'[s] = ByMail(magic_tokens'[s].user_email)
    BY <2>1, <2>2, <2>4 DEF MailInv
  <2>9. \A s \in Unused' : proof'[s] = None
    BY <2>1, <2>2, <2>4 DEF MailInv, Unused
  <2> QED BY <2>6, <2>7, <2>8, <2>9 DEF MailInv
<1> QED BY <1>1, <1>2

\* Links that go, states that are drawn, and users who consent leave the mail be.
LEMMA TicketMail ==
  ASSUME TypeOK, KindInv, MailInv,
         \/ \E q \in Req : VerifyMagicLink(q) \/ OauthLogin(q)
         \/ \E t \in Ticket : Consent(t)
  PROVE  MailInv'
<1>1. ASSUME NEW q \in Req, VerifyMagicLink(q) PROVE MailInv'
  <2>1. PICK b \in Tab, t \in Ticket :
          /\ proof[t] # None
          /\ magic_tokens' = Remove(magic_tokens, t)
          /\ \/ UNCHANGED req
             \/ Goto(q, [IdleReq EXCEPT !.pc = "insert", !.tab = b, !.ticket = t,
                           !.identity = ByMail(magic_tokens[t].user_email)])
          /\ issued' \in {issued, [issued EXCEPT ![t] = "late"]}
    BY <1>1 DEF VerifyMagicLink
  <2>2. UNCHANGED proof
    BY <1>1 DEF VerifyMagicLink
  <2>3. \A x \in Req : req'[x].pc = "mail" => req'[x] = req[x]
    <3> DEFINE r == [IdleReq EXCEPT !.pc = "insert", !.tab = b, !.ticket = t,
                           !.identity = ByMail(magic_tokens[t].user_email)]
    <3>1. r.pc # "mail"
      BY DEF IdleReq
    <3>2. UNCHANGED req \/ Goto(q, r)
      BY <2>1
    <3> HIDE DEF r
    <3> QED BY <3>1, <3>2 DEF Goto, TypeOK
  <2>4. \A s \in Ticket : /\ s # t => magic_tokens'[s] = magic_tokens[s] /\ issued'[s] = issued[s]
                          /\ magic_tokens'[s] # None => magic_tokens'[s] = magic_tokens[s]
    BY <2>1 DEF Remove, TypeOK
  <2>5. \A x \in Req : req[x].pc = "mail" => req[x].ticket \in Ticket /\ req[x].ticket # t
    BY <2>1 DEF MailInv, Mail, TypeOK, LocalsOK
  <2>6. \A x \in Req : Mail(req'[x], proof', issued', magic_tokens')
    BY <2>2, <2>3, <2>4, <2>5 DEF MailInv, Mail
  <2>7. \A x, p \in Req :
          req'[x].pc = "mail" /\ req'[p].pc = "mail" /\ req'[x].ticket = req'[p].ticket
            => x = p
    BY <2>3 DEF MailInv
  <2>8. \A s \in Ticket : magic_tokens'[s] # None /\ proof'[s] # None =>
          proof'[s] = ByMail(magic_tokens'[s].user_email)
    BY <2>2, <2>4 DEF MailInv
  <2>9. Unused' \subseteq Unused
    BY <2>1 DEF Unused, TypeOK
  <2>10. \A s \in Unused' : proof'[s] = None
    BY <2>2, <2>9 DEF MailInv
  <2> QED BY <2>6, <2>7, <2>8, <2>10 DEF MailInv
<1>2. ASSUME NEW q \in Req, OauthLogin(q) PROVE MailInv'
  <2>1. PICK t \in Unused : issued' = [issued EXCEPT ![t] = "state"]
    BY <1>2 DEF OauthLogin
  <2>2. UNCHANGED <<magic_tokens, req, proof>>
    BY <1>2 DEF OauthLogin
  <2>3. t \in Ticket /\ issued[t] = "unused"
    BY DEF Unused
  <2>4. \A x \in Req : req[x].pc = "mail" => req[x].ticket \in Ticket /\ req[x].ticket # t
    BY <2>3 DEF MailInv, Mail, TypeOK, LocalsOK
  <2>5. \A x \in Req : Mail(req'[x], proof', issued', magic_tokens')
    BY <2>1, <2>2, <2>3, <2>4 DEF MailInv, Mail, TypeOK
  <2>6. Unused' \subseteq Unused
    BY <2>1, <2>3 DEF Unused, TypeOK
  <2> QED BY <2>2, <2>5, <2>6 DEF MailInv
<1>3. ASSUME NEW t \in Ticket, Consent(t) PROVE MailInv'
  <2>1. PICK i : proof' = [proof EXCEPT ![t] = i]
    BY <1>3 DEF Consent
  <2>2. UNCHANGED <<magic_tokens, req, issued>>
    BY <1>3 DEF Consent, memory
  <2>3. issued[t] = "state" /\ magic_tokens[t] = None
    BY <1>3 DEF Consent, KindInv
  <2>4. \A x \in Req : req[x].pc = "mail" => req[x].ticket \in Ticket /\ req[x].ticket # t
    BY <2>3 DEF MailInv, Mail, TypeOK, LocalsOK
  <2>5. \A s \in Ticket : s # t => proof'[s] = proof[s]
    BY <2>1 DEF TypeOK
  <2>6. \A x \in Req : Mail(req'[x], proof', issued', magic_tokens')
    BY <2>2, <2>4, <2>5 DEF MailInv, Mail
  <2>7. \A s \in Ticket : magic_tokens'[s] # None /\ proof'[s] # None =>
          proof'[s] = ByMail(magic_tokens'[s].user_email)
    BY <2>2, <2>3, <2>5 DEF MailInv
  <2>8. \A s \in Unused' : s # t /\ s \in Unused
    BY <2>2, <2>3 DEF Unused
  <2>9. \A s \in Unused' : proof'[s] = None
    BY <2>5, <2>8 DEF MailInv, Unused
  <2> QED BY <2>2, <2>6, <2>7, <2>9 DEF MailInv
<1> QED BY <1>1, <1>2, <1>3

LEMMA StepMail ==
  ASSUME TypeOK, KindInv, MailInv, [Next]_vars
  PROVE  MailInv'
<1>1. CASE UNCHANGED <<magic_tokens, issued, proof, req>>
  BY <1>1 DEF MailInv, Unused
<1>2. ASSUME NEW q \in Req, Arrive(q) PROVE MailInv'
  <2>1. CASE OauthCallback(q) \/ Logout(q) \/ LogoutBearer(q) \/ CliCallback(q)
    <3>1. UNCHANGED <<magic_tokens, issued, proof>>
      BY <2>1 DEF OauthCallback, Logout, LogoutBearer, CliCallback, memory, history
    <3>2. CASE OauthCallback(q)
      <4>1. PICK b \in Tab, t \in Ticket :
              Goto(q, [IdleReq EXCEPT !.pc = "exchange", !.tab = b, !.ticket = t])
        BY <3>2 DEF OauthCallback, TypeOK
      <4>2. [IdleReq EXCEPT !.pc = "exchange", !.tab = b, !.ticket = t].pc # "mail"
        BY DEF IdleReq
      <4> QED BY <3>1, <4>1, <4>2, GotoMail
    <3>3. CASE Logout(q)
      <4>1. PICK b \in Tab : Goto(q, [IdleReq EXCEPT !.pc = "delete", !.tab = b,
                                                     !.token = cookie[b].token])
        BY <3>3 DEF Logout
      <4>2. [IdleReq EXCEPT !.pc = "delete", !.tab = b,
                            !.token = cookie[b].token].pc # "mail"
        BY DEF IdleReq
      <4> QED BY <3>1, <4>1, <4>2, GotoMail
    <3>4. CASE LogoutBearer(q)
      <4>1. [IdleReq EXCEPT !.pc = "delete_all",
                            !.user = sessions[token_file].user_id].pc # "mail"
        BY DEF IdleReq
      <4> QED BY <3>1, <3>4, <4>1, GotoMail DEF LogoutBearer
    <3>5. CASE CliCallback(q)
      <4>1. PICK b \in Tab :
              UNCHANGED req \/
              Goto(q, [IdleReq EXCEPT !.pc = "session", !.kind = "cli", !.tab = b,
                         !.user = sessions[cookie[b].token].user_id])
        BY <3>5 DEF CliCallback
      <4>2. [IdleReq EXCEPT !.pc = "session", !.kind = "cli", !.tab = b,
                         !.user = sessions[cookie[b].token].user_id].pc # "mail"
        BY DEF IdleReq
      <4> QED BY <1>1, <3>1, <4>1, <4>2, GotoMail
    <3> QED BY <2>1, <3>2, <3>3, <3>4, <3>5
  <2> QED BY <1>2, <2>1, SendMail, TicketMail DEF Arrive
<1>3. ASSUME NEW q \in Req, Handle(q) \/ DeleteFails(q) \/ RequestFails(q) PROVE MailInv'
  <2>0. req[q] \in Request
    BY DEF TypeOK
  <2>1. CASE SendEmail(q)
    BY <2>1, SendMail
  <2>2. CASE ~ SendEmail(q)
    <3>1. UNCHANGED <<magic_tokens, issued, proof>>
      BY <1>3, <2>2 DEF Handle, ExchangeCode, InsertUser, SelectUser, CreateSession, Answer,
           AnswerCli, DeleteSession, DeleteAllSessions, DeleteFails, RequestFails, memory,
           history
    <3>2. CASE ExchangeCode(q)
      <4>1. [req[q] EXCEPT !.pc = "insert", !.identity = proof[req[q].ticket]].pc # "mail"
        BY <2>0 DEF Request
      <4> QED BY <3>1, <3>2, <4>1, GotoMail DEF ExchangeCode
    <3>3. CASE InsertUser(q)
      <4>1. [req[q] EXCEPT !.pc = "select"].pc # "mail"
        BY <2>0 DEF Request
      <4> QED BY <3>1, <3>3, <4>1, GotoMail DEF InsertUser
    <3>4. CASE SelectUser(q)
      <4>1. PICK u \in User : Goto(q, [req[q] EXCEPT !.pc = "session", !.user = u])
        BY <3>4 DEF SelectUser
      <4>2. [req[q] EXCEPT !.pc = "session", !.user = u].pc # "mail"
        BY <2>0 DEF Request
      <4> QED BY <3>1, <4>1, <4>2, GotoMail
    <3>5. CASE CreateSession(q)
      <4>1. PICK k \in Token : Goto(q, [req[q] EXCEPT !.pc = "answer", !.token = k])
        BY <3>5 DEF CreateSession, Fresh
      <4>2. [req[q] EXCEPT !.pc = "answer", !.token = k].pc # "mail"
        BY <2>0 DEF Request
      <4> QED BY <3>1, <4>1, <4>2, GotoMail
    <3>6. CASE Finish(q)
      <4>1. IdleReq.pc # "mail"
        BY DEF IdleReq
      <4> QED BY <3>1, <3>6, <4>1, GotoMail DEF Finish
    <3> QED BY <1>3, <2>2, <3>2, <3>3, <3>4, <3>5, <3>6
            DEF Handle, Answer, AnswerCli, DeleteSession, DeleteAllSessions, DeleteFails,
                RequestFails
  <2> QED BY <2>1, <2>2
<1>4. CASE Crash
  <2>1. /\ UNCHANGED <<issued, proof>>
        /\ \A t \in Ticket : magic_tokens'[t] = None
        /\ \A q \in Req : req'[q].pc # "mail"
    BY <1>4 DEF Crash, history, IdleReq
  <2> QED BY <2>1 DEF MailInv, Mail, Unused
<1>5. Others => \/ Crash \/ \E t \in Ticket : Consent(t)
                \/ UNCHANGED <<magic_tokens, issued, proof, req>>
  BY DEF Others, CliLogin, CliLoginFails, CliLogout, SetTier, Tick, history, memory, vars
<1> QED BY <1>1, <1>2, <1>3, <1>4, <1>5, TicketMail DEF Next, Others

\* A ticket a handler holds was proved; the identity it signs in with, and then
\* the user, is the one who proved it.
Prover(r, pf, us) ==
  /\ \A t \in Ticket : Holds(r, t) => pf[t] # None
  /\ r.pc \in {"insert", "select"} => r.identity = pf[r.ticket]
  /\ r.pc = "session" /\ r.ticket \in Ticket => Is(us[r.user], pf[r.ticket])

ProverInv ==
  /\ \A q \in Req : Prover(req[q], proof, users)
  /\ \A k \in Token : via[k] \in Ticket => proof[via[k]] # None
  /\ \A k \in Token : sessions[k] # None /\ via[k] \in Ticket =>
       Is(users[sessions[k].user_id], proof[via[k]])

\* What was proved stays, and so does who a user is.
Stable ==
  /\ \A t \in Ticket : proof[t] # None => proof'[t] = proof[t]
  /\ \A u \in User : users[u] # None =>
       users'[u] # None /\ users'[u].identity = users[u].identity

LEMMA StepStable ==
  ASSUME TypeOK, MailInv, [Next]_vars
  PROVE  Stable
<1>0. CASE UNCHANGED <<proof, users>>
  BY <1>0 DEF Stable
<1>1. ASSUME NEW q \in Req, SendEmail(q) PROVE Stable
  <2>1. /\ proof[req[q].ticket] = None /\ UNCHANGED users
        /\ proof' = [proof EXCEPT ![req[q].ticket] = req[q].identity]
    BY <1>1 DEF SendEmail, At, MailInv, Mail, rows
  <2> QED BY <2>1 DEF Stable, TypeOK
<1>2. ASSUME NEW q \in Req, InsertUser(q) PROVE Stable
  <2>1. CASE UNCHANGED users
    BY <1>2, <2>1 DEF InsertUser, Stable, history
  <2>2. CASE \E u \in User :
               /\ users[u] = None
               /\ users' = [users EXCEPT ![u] = [identity |-> req[q].identity,
                                                 tier |-> "free"]]
    BY <1>2, <2>2 DEF InsertUser, Stable, TypeOK, history
  <2> QED BY <1>2, <2>1, <2>2 DEF InsertUser, InsertOrIgnore
<1>3. ASSUME NEW t \in Ticket, Consent(t) PROVE Stable
  <2>1. PICK i : proof' = [proof EXCEPT ![t] = i]
    BY <1>3 DEF Consent
  <2>2. proof[t] = None /\ UNCHANGED users
    BY <1>3 DEF Consent, rows
  <2> QED BY <2>1, <2>2 DEF Stable, TypeOK
<1>4. ASSUME NEW u \in User, SetTier(u) PROVE Stable
  <2>1. /\ users[u] \in UserRow /\ UNCHANGED proof
        /\ users' = [users EXCEPT ![u] = [users[u] EXCEPT !.tier = "pro"]]
    BY <1>4 DEF SetTier, TypeOK
  <2>2. /\ [users[u] EXCEPT !.tier = "pro"] \in UserRow
        /\ [users[u] EXCEPT !.tier = "pro"].identity = users[u].identity
    BY <2>1 DEF UserRow
  <2>3. /\ users'[u] = [users[u] EXCEPT !.tier = "pro"]
        /\ \A v \in User : v # u => users'[v] = users[v]
    BY <2>1 DEF TypeOK
  <2> QED BY <2>1, <2>2, <2>3, NoneIsNoRecord DEF Stable
<1>5. ASSUME NEW q \in Req, Arrive(q) \/ DeleteFails(q) \/ RequestFails(q)
      PROVE  UNCHANGED <<proof, users>>
  BY <1>5 DEF Arrive, SendMagicLink, VerifyMagicLink, OauthLogin, OauthCallback, Logout,
              LogoutBearer, CliCallback, DeleteFails, RequestFails, rows, history
<1>6. ASSUME NEW q \in Req, Handle(q)
      PROVE  SendEmail(q) \/ InsertUser(q) \/ UNCHANGED <<proof, users>>
  BY <1>6 DEF Handle, ExchangeCode, SelectUser, CreateSession, Answer,
              AnswerCli, DeleteSession, DeleteAllSessions, rows, history
<1>7. Others => \/ UNCHANGED <<proof, users>> \/ \E u \in User : SetTier(u)
                \/ \E t \in Ticket : Consent(t)
  BY DEF Others, CliLogin, CliLoginFails, CliLogout, Tick, Crash, rows, history, vars
<1> QED BY <1>0, <1>1, <1>2, <1>3, <1>4, <1>5, <1>6, <1>7 DEF Next, Others

\* Nobody's locals become false by that.
LEMMA KeepProver ==
  ASSUME TypeOK, Stable, NEW r \in Request, LocalsOK(r),
         r.pc \in {"insert", "select"} => r.ticket \in Ticket,
         Prover(r, proof, users)
  PROVE  Prover(r, proof', users')
<1>1. \A t \in Ticket : Holds(r, t) => proof'[t] # None
  BY DEF Prover, Stable
<1>2. r.pc \in {"insert", "select"} => r.identity = proof'[r.ticket]
  BY DEF Prover, Stable, Holds
<1>3. r.pc = "session" /\ r.ticket \in Ticket => Is(users'[r.user], proof'[r.ticket])
  <2> SUFFICES ASSUME r.pc = "session", r.ticket \in Ticket
               PROVE  Is(users'[r.user], proof'[r.ticket])
    OBVIOUS
  <2>1. r.user \in User /\ Is(users[r.user], proof[r.ticket]) /\ proof[r.ticket] # None
    BY DEF Prover, Holds, LocalsOK
  <2> QED BY <2>1 DEF Stable, Is
<1> QED BY <1>1, <1>2, <1>3 DEF Prover

LEMMA LocalsProver ==
  ASSUME TypeOK, TokenInv, ProverInv, Stable
  PROVE  \A x \in Req : Prover(req[x], proof', users')
<1> SUFFICES ASSUME NEW x \in Req PROVE Prover(req[x], proof', users')
  OBVIOUS
<1>1. req[x] \in Request /\ LocalsOK(req[x]) /\ TokenLocals(req[x])
  BY DEF TypeOK, TokenInv
<1>2. req[x].pc \in {"insert", "select"} => req[x].ticket \in Ticket
  BY <1>1 DEF TokenLocals
<1> QED BY <1>1, <1>2, KeepProver DEF ProverInv

LEMMA GotoProver ==
  ASSUME TypeOK, TokenInv, ProverInv, Stable,
         NEW q \in Req, NEW r, Goto(q, r), Prover(r, proof', users')
  PROVE  \A x \in Req : Prover(req'[x], proof', users')
BY LocalsProver DEF Goto, TypeOK

\* Sessions that are there, or go, stay those of their provers.
LEMMA RowsProver ==
  ASSUME TypeOK, ProverInv, Stable, UNCHANGED via,
         \A k \in Token : sessions'[k] # None => sessions'[k] = sessions[k]
  PROVE  /\ \A k \in Token : via'[k] \in Ticket => proof'[via'[k]] # None
         /\ \A k \in Token : sessions'[k] # None /\ via'[k] \in Ticket =>
              Is(users'[sessions'[k].user_id], proof'[via'[k]])
<1>1. \A k \in Token : sessions[k] # None => sessions[k].user_id \in User
  BY DEF TypeOK, SessionRow
<1>2. \A k \in Token : via[k] \in Ticket => proof'[via[k]] = proof[via[k]]
  BY DEF ProverInv, Stable
<1>3. \A k \in Token : via'[k] \in Ticket => proof'[via'[k]] # None
  BY <1>2 DEF ProverInv
<1>4. ASSUME NEW k \in Token, sessions'[k] # None, via'[k] \in Ticket
      PROVE  Is(users'[sessions'[k].user_id], proof'[via'[k]])
  <2>1. sessions'[k] = sessions[k] /\ sessions[k] # None /\ via[k] \in Ticket
    BY <1>4
  <2>2. Is(users[sessions[k].user_id], proof[via[k]]) /\ sessions[k].user_id \in User
    BY <1>1, <2>1 DEF ProverInv
  <2> QED BY <1>2, <2>1, <2>2 DEF Is, Stable
<1> QED BY <1>3, <1>4

LEMMA IdleProver ==
  ASSUME NEW pf, NEW us, NEW r, r.pc \notin {"exchange", "insert", "select", "session"}
  PROVE  Prover(r, pf, us)
BY DEF Prover, Holds

LEMMA ArriveProver ==
  ASSUME TypeOK, TokenInv, MailInv, ProverInv, Stable, NEW q \in Req, Arrive(q)
  PROVE  ProverInv'
<1>0. UNCHANGED <<via, sessions, proof, users>>
  BY DEF Arrive, SendMagicLink, VerifyMagicLink, OauthLogin, OauthCallback, Logout,
         LogoutBearer, CliCallback, rows, history
<1>1. \A x \in Req : Prover(req'[x], proof', users')
  <2>0. CASE UNCHANGED req
    BY <2>0, LocalsProver
  <2>1. CASE SendMagicLink(q)
    <3>1. PICK a \in Address, t \in Unused :
            Goto(q, [IdleReq EXCEPT !.pc = "mail", !.ticket = t,
                                    !.identity = ByMail(Canonical[a])])
      BY <2>1 DEF SendMagicLink
    <3> DEFINE r == [IdleReq EXCEPT !.pc = "mail", !.ticket = t,
                                    !.identity = ByMail(Canonical[a])]
    <3>2. r.pc = "mail"
      BY DEF IdleReq
    <3>3. Prover(r, proof', users')
      <4> HIDE DEF r
      <4> QED BY <3>2, IdleProver
    <3> QED BY <3>1, <3>3, GotoProver
  <2>2. CASE VerifyMagicLink(q)
    <3>1. PICK b \in Tab, t \in Ticket :
            /\ proof[t] # None /\ magic_tokens[t] # None
            /\ \/ UNCHANGED req
               \/ Goto(q, [IdleReq EXCEPT !.pc = "insert", !.tab = b, !.ticket = t,
                             !.identity = ByMail(magic_tokens[t].user_email)])
      BY <2>2 DEF VerifyMagicLink
    <3> DEFINE r == [IdleReq EXCEPT !.pc = "insert", !.tab = b, !.ticket = t,
                             !.identity = ByMail(magic_tokens[t].user_email)]
    <3>2. /\ r.pc = "insert" /\ r.ticket = t
          /\ r.identity = ByMail(magic_tokens[t].user_email)
      BY DEF IdleReq
    <3>3. proof[t] = ByMail(magic_tokens[t].user_email)
      BY <3>1 DEF MailInv
    <3>4. Prover(r, proof', users')
      <4> HIDE DEF r
      <4> QED BY <1>0, <3>1, <3>2, <3>3 DEF Prover, Holds
    <3> QED BY <2>0, <3>1, <3>4, GotoProver
  <2>3. CASE OauthLogin(q)
    BY <2>0, <2>3 DEF OauthLogin
  <2>4. CASE OauthCallback(q)
    <3>1. PICK b \in Tab, t \in Ticket :
            /\ proof[t] # None
            /\ Goto(q, [IdleReq EXCEPT !.pc = "exchange", !.tab = b, !.ticket = t])
      BY <2>4 DEF OauthCallback, TypeOK
    <3> DEFINE r == [IdleReq EXCEPT !.pc = "exchange", !.tab = b, !.ticket = t]
    <3>2. r.pc = "exchange" /\ r.ticket = t
      BY DEF IdleReq
    <3>3. Prover(r, proof', users')
      <4> HIDE DEF r
      <4> QED BY <1>0, <3>1, <3>2 DEF Prover, Holds
    <3> QED BY <3>1, <3>3, GotoProver
  <2>5. CASE Logout(q)
    <3>1. PICK b \in Tab : Goto(q, [IdleReq EXCEPT !.pc = "delete", !.tab = b,
                                                   !.token = cookie[b].token])
      BY <2>5 DEF Logout
    <3> DEFINE r == [IdleReq EXCEPT !.pc = "delete", !.tab = b, !.token = cookie[b].token]
    <3>2. r.pc = "delete"
      BY DEF IdleReq
    <3>3. Prover(r, proof', users')
      <4> HIDE DEF r
      <4> QED BY <3>2, IdleProver
    <3> QED BY <3>1, <3>3, GotoProver
  <2>6. CASE LogoutBearer(q)
    <3> DEFINE r == [IdleReq EXCEPT !.pc = "delete_all",
                                    !.user = sessions[token_file].user_id]
    <3>1. r.pc = "delete_all"
      BY DEF IdleReq
    <3>2. Prover(r, proof', users')
      <4> HIDE DEF r
      <4> QED BY <3>1, IdleProver
    <3> QED BY <2>6, <3>2, GotoProver DEF LogoutBearer
  <2>7. CASE CliCallback(q)
    <3>1. PICK b \in Tab :
            UNCHANGED req \/
            Goto(q, [IdleReq EXCEPT !.pc = "session", !.kind = "cli", !.tab = b,
                       !.user = sessions[cookie[b].token].user_id])
      BY <2>7 DEF CliCallback
    <3> DEFINE r == [IdleReq EXCEPT !.pc = "session", !.kind = "cli", !.tab = b,
                       !.user = sessions[cookie[b].token].user_id]
    <3>2. r.pc = "session" /\ r.ticket \notin Ticket
      BY NoneIsNoValue DEF IdleReq
    <3>3. Prover(r, proof', users')
      <4> HIDE DEF r
      <4> QED BY <3>2 DEF Prover, Holds
    <3> QED BY <2>0, <3>1, <3>3, GotoProver
  <2> QED BY <2>1, <2>2, <2>3, <2>4, <2>5, <2>6, <2>7 DEF Arrive
<1> QED BY <1>0, <1>1, RowsProver DEF ProverInv

\* The session is one of the user the handler selected.
LEMMA CreateProver ==
  ASSUME TypeOK, TokenInv, ProverInv, Stable, NEW q \in Req, CreateSession(q)
  PROVE  ProverInv'
<1>1. PICK k \in Fresh :
        /\ sessions' = [sessions EXCEPT
             ![k] = [user_id |-> req[q].user, expires_at |-> clock + SessionTtl,
                     kind |-> req[q].kind]]
        /\ via' = [via EXCEPT ![k] = IF req[q].kind = "cli" THEN "cli"
                                     ELSE req[q].ticket]
        /\ Goto(q, [req[q] EXCEPT !.pc = "answer", !.token = k])
  BY DEF CreateSession
<1>2. k \in Token /\ UNCHANGED <<proof, users>>
  BY DEF Fresh, CreateSession
<1>3. /\ req[q] \in Request /\ req[q].pc = "session" /\ Prover(req[q], proof, users)
      /\ req[q].ticket \in Ticket <=> req[q].kind = "web"
  BY DEF CreateSession, At, TypeOK, TokenInv, TokenLocals, ProverInv
<1>4. \A x \in Req : Prover(req'[x], proof', users')
  <2> DEFINE r == [req[q] EXCEPT !.pc = "answer", !.token = k]
  <2>1. r.pc = "answer"
    BY <1>3 DEF Request
  <2>2. Prover(r, proof', users')
    <3> HIDE DEF r
    <3> QED BY <2>1, IdleProver
  <2> QED BY <1>1, <2>2, GotoProver
<1>5. /\ \A l \in Token : l # k => via'[l] = via[l] /\ sessions'[l] = sessions[l]
      /\ sessions'[k].user_id = req[q].user
      /\ via'[k] \in Ticket => via'[k] = req[q].ticket
  BY <1>1, <1>2, <1>3, NoneIsNoValue DEF TypeOK
<1>6. via'[k] \in Ticket =>
        proof[via'[k]] # None /\ Is(users[sessions'[k].user_id], proof[via'[k]])
  BY <1>3, <1>5 DEF Prover, Holds
<1>7. \A l \in Token : via'[l] \in Ticket => proof'[via'[l]] # None
  BY <1>2, <1>5, <1>6 DEF ProverInv
<1>8. \A l \in Token : sessions'[l] # None /\ via'[l] \in Ticket =>
        Is(users'[sessions'[l].user_id], proof'[via'[l]])
  BY <1>2, <1>5, <1>6 DEF ProverInv
<1> QED BY <1>4, <1>7, <1>8 DEF ProverInv

LEMMA HandleProver ==
  ASSUME TypeOK, TokenInv, ProverInv, Stable, NEW q \in Req,
         Handle(q) \/ DeleteFails(q) \/ RequestFails(q)
  PROVE  ProverInv'
<1>0. /\ req[q] \in Request /\ LocalsOK(req[q]) /\ TokenLocals(req[q])
      /\ Prover(req[q], proof, users) /\ Prover(req[q], proof', users')
  BY LocalsProver DEF TypeOK, TokenInv, ProverInv
<1>1. CASE CreateSession(q)
  BY <1>1, CreateProver
<1>2. CASE ~ CreateSession(q)
  <2>1. UNCHANGED via /\ \A k \in Token : sessions'[k] # None => sessions'[k] = sessions[k]
    <3>1. CASE DeleteSession(q)
      BY <3>1 DEF DeleteSession, Delete, TypeOK
    <3>2. CASE DeleteAllSessions(q)
      BY <3>2 DEF DeleteAllSessions
    <3>3. CASE UNCHANGED <<via, sessions>>
      BY <3>3
    <3> QED BY <1>2, <3>1, <3>2, <3>3
            DEF Handle, SendEmail, ExchangeCode, InsertUser, SelectUser, Answer, AnswerCli,
                DeleteFails, RequestFails, rows, history
  <2>2. \A x \in Req : Prover(req'[x], proof', users')
    <3>1. CASE ExchangeCode(q)
      <4> DEFINE r == [req[q] EXCEPT !.pc = "insert", !.identity = proof[req[q].ticket]]
      <4>1. /\ r.pc = "insert" /\ r.identity = proof[req[q].ticket]
            /\ r.ticket = req[q].ticket /\ UNCHANGED proof
            /\ req[q].pc = "exchange" /\ Goto(q, r)
        BY <1>0, <3>1 DEF ExchangeCode, At, Request, history
      <4>2. Prover(r, proof', users')
        <5> HIDE DEF r
        <5> QED BY <1>0, <4>1 DEF Prover, Holds
      <4> QED BY <4>1, <4>2, GotoProver
    <3>2. CASE InsertUser(q)
      <4> DEFINE r == [req[q] EXCEPT !.pc = "select"]
      <4>1. /\ r.pc = "select" /\ r.identity = req[q].identity
            /\ r.ticket = req[q].ticket /\ req[q].pc = "insert" /\ Goto(q, r)
        BY <1>0, <3>2 DEF InsertUser, At, Request
      <4>2. Prover(r, proof', users')
        <5> HIDE DEF r
        <5> QED BY <1>0, <4>1 DEF Prover, Holds
      <4> QED BY <4>1, <4>2, GotoProver
    <3>3. CASE SelectUser(q)
      <4>1. PICK u \in User :
              /\ Is(users[u], req[q].identity)
              /\ Goto(q, [req[q] EXCEPT !.pc = "session", !.user = u])
        BY <3>3 DEF SelectUser
      <4> DEFINE r == [req[q] EXCEPT !.pc = "session", !.user = u]
      <4>2. /\ r.pc = "session" /\ r.user = u
            /\ r.ticket = req[q].ticket /\ req[q].pc = "select"
            /\ UNCHANGED <<proof, users>>
        BY <1>0, <3>3 DEF SelectUser, At, Request, rows, history
      <4>3. Prover(r, proof', users')
        <5> HIDE DEF r
        <5> QED BY <1>0, <4>1, <4>2 DEF Prover, Holds
      <4> QED BY <4>1, <4>3, GotoProver
    <3>4. CASE Finish(q)
      <4>1. IdleReq.pc = "idle"
        BY DEF IdleReq
      <4>2. Prover(IdleReq, proof', users')
        BY <4>1, IdleProver
      <4> QED BY <3>4, <4>2, GotoProver DEF Finish
    <3> QED BY <1>2, <3>1, <3>2, <3>3, <3>4
            DEF Handle, SendEmail, Answer, AnswerCli, DeleteSession, DeleteAllSessions,
                DeleteFails, RequestFails
  <2> QED BY <2>1, <2>2, RowsProver DEF ProverInv
<1> QED BY <1>1, <1>2

LEMMA OthersProver ==
  ASSUME TypeOK, TokenInv, ProverInv, Stable, Others
  PROVE  ProverInv'
<1>1. UNCHANGED <<via, sessions>>
  BY DEF Others, Consent, CliLogin, CliLoginFails, CliLogout, SetTier, Tick, Crash,
         rows, history, vars
<1>2. \A x \in Req : Prover(req'[x], proof', users')
  <2>1. CASE Crash
    <3>1. \A x \in Req : req'[x].pc = "idle"
      BY <2>1 DEF Crash, IdleReq
    <3> QED BY <3>1, IdleProver
  <2>2. CASE UNCHANGED req
    BY <2>2, LocalsProver
  <2> QED BY <2>1, <2>2 DEF Others, Consent, CliLogin, CliLoginFails, CliLogout, SetTier,
                            Tick, vars
<1> QED BY <1>1, <1>2, RowsProver DEF ProverInv

\* A session is one of the account that proved to be there: between the upsert
\* and the session nobody else's row can take its place.
THEOREM SessionIsProversHolds == Spec => []SessionIsProvers
<1>1. Init => MailInv /\ ProverInv
  <2> SUFFICES ASSUME Init PROVE MailInv /\ ProverInv
    OBVIOUS
  <2>1. \A q \in Req : req[q].pc = "idle"
    BY DEF Init, IdleReq
  <2>2. \A q \in Req : Prover(req[q], proof, users)
    BY <2>1, IdleProver
  <2>3. \A q \in Req : Mail(req[q], proof, issued, magic_tokens)
    BY <2>1 DEF Mail
  <2>4. \A k \in Token : via[k] \notin Ticket
    BY NoneIsNoValue DEF Init
  <2>5. \A t \in Ticket : magic_tokens[t] = None /\ proof[t] = None
    BY DEF Init
  <2> QED BY <2>1, <2>2, <2>3, <2>4, <2>5 DEF MailInv, ProverInv, Unused
<1>2. TypeOK /\ TokenInv /\ KindInv /\ MailInv /\ ProverInv /\ [Next]_vars
        => MailInv' /\ ProverInv'
  <2> SUFFICES ASSUME TypeOK, TokenInv, KindInv, MailInv, ProverInv, [Next]_vars
               PROVE  MailInv' /\ ProverInv'
    OBVIOUS
  <2>1. MailInv' /\ Stable
    BY StepMail, StepStable
  <2>2. ProverInv'
    BY <2>1, ArriveProver, HandleProver, OthersProver DEF Next, Others
  <2> QED BY <2>1, <2>2
<1>3. ProverInv => SessionIsProvers
  BY DEF ProverInv, SessionIsProvers, Is
<1> QED BY <1>1, <1>2, <1>3, TypeCorrect, TokenInvHolds, TicketInvHolds, PTL DEF Spec

-----------------------------------------------------------------------------
(* Tickets that are taken are not lost.                                    *)

\* A step of the server keeps what waits, or hands it to the handler at q, which
\* hands it to a session; Past are the tickets nobody needs to find.
Past == {t \in Ticket : issued[t] \in {"unused", "late"}}
Opened == {via[k] : k \in Token}

LEMMA KeepNone ==
  ASSUME TypeOK, NoneLost, faults = 0, NEW q \in Req,
         Past \subseteq Past' \cup Pending',
         \A t \in Pending : t \in Pending' \/ t \in Past' \/ Holds(req'[q], t),
         \A x \in Req, t \in Ticket : Holds(req[x], t) => Holds(req'[x], t) \/ t \in Opened',
         \A t \in Ticket : t \in Opened => t \in Opened'
  PROVE  NoneLost'
<1> SUFFICES ASSUME NEW t \in Ticket, t \notin Pending', t \notin Past', t \notin Opened'
             PROVE  \E x \in Req : Holds(req'[x], t)
  BY DEF NoneLost, Past, Opened, AtWork, Holds
<1>1. t \notin Past /\ t \notin Opened
  OBVIOUS
<1>2. CASE t \in Pending
  BY <1>2
<1>3. CASE t \notin Pending
  <2>1. \E x \in Req : Holds(req[x], t)
    BY <1>1, <1>3 DEF NoneLost, Past, Opened, AtWork, Holds
  <2> QED BY <2>1
<1> QED BY <1>2, <1>3

\* A handler that moves on keeps its ticket; one that held none has none to lose.
LEMMA GotoKeeps ==
  ASSUME TypeOK, NEW q \in Req, NEW r, Goto(q, r),
         \A t \in Ticket : Holds(req[q], t) => Holds(r, t)
  PROVE  \A x \in Req, t \in Ticket : Holds(req[x], t) => Holds(req'[x], t)
BY DEF Goto, TypeOK

LEMMA ArriveNone ==
  ASSUME TypeOK, NoneLost, faults = 0, NEW q \in Req, Arrive(q)
  PROVE  NoneLost'
<1>0. UNCHANGED via
  BY DEF Arrive, SendMagicLink, VerifyMagicLink, OauthLogin, OauthCallback, Logout,
         LogoutBearer, CliCallback, history
<1>1. Opened' = Opened
  BY <1>0 DEF Opened
<1>2. \A x \in Req, t \in Ticket : Holds(req[x], t) => Holds(req'[x], t)
  <2>1. req[q].pc = "idle"
    BY DEF Arrive, SendMagicLink, VerifyMagicLink, OauthLogin, OauthCallback, Logout,
           LogoutBearer, CliCallback, At
  <2>2. \A t \in Ticket : ~ Holds(req[q], t)
    BY <2>1 DEF Holds
  <2>3. UNCHANGED req \/ \E r : Goto(q, r)
    BY DEF Arrive, SendMagicLink, VerifyMagicLink, OauthLogin, OauthCallback, Logout,
           LogoutBearer, CliCallback
  <2> QED BY <2>2, <2>3, GotoKeeps
<1>3. CASE SendMagicLink(q)
  <2>1. PICK a \in Address, t \in Unused :
          /\ magic_tokens' = [magic_tokens EXCEPT
               ![t] = [user_email |-> Canonical[a], expires_at |-> clock + LinkTtl]]
          /\ issued' = [issued EXCEPT ![t] = "link"]
    BY <1>3 DEF SendMagicLink
  <2>2. UNCHANGED oauth_states /\ t \in Ticket
    BY <1>3 DEF SendMagicLink, Unused
  <2>3. [user_email |-> Canonical[a], expires_at |-> clock + LinkTtl] \in Link
    BY AddressType, BoundsType DEF Link, TypeOK
  <2>4. t \in Pending' /\ Pending \subseteq Pending'
    BY <2>1, <2>2, <2>3, NoneIsNoRecord DEF Pending, TypeOK
  <2>5. Past \subseteq Past' \cup {t}
    BY <2>1 DEF Past, TypeOK
  <2> QED BY <1>1, <1>2, <2>4, <2>5, KeepNone
<1>4. CASE VerifyMagicLink(q)
  <2>1. PICK b \in Tab, t \in Ticket :
          /\ magic_tokens' = Remove(magic_tokens, t)
          /\ IF clock > magic_tokens[t].expires_at
             THEN UNCHANGED req
             ELSE Goto(q, [IdleReq EXCEPT !.pc = "insert", !.tab = b, !.ticket = t,
                             !.identity = ByMail(magic_tokens[t].user_email)])
          /\ issued' = IF clock > magic_tokens[t].expires_at
                       THEN [issued EXCEPT ![t] = "late"] ELSE issued
    BY <1>4 DEF VerifyMagicLink, Expired
  <2>2. UNCHANGED oauth_states
    BY <1>4 DEF VerifyMagicLink
  <2>3. Past \subseteq Past' /\ Pending \subseteq Pending' \cup {t}
    BY <2>1, <2>2 DEF Past, Pending, Remove, TypeOK
  <2>4. t \in Past' \/ Holds(req'[q], t)
    <3>1. CASE clock > magic_tokens[t].expires_at
      BY <2>1, <3>1 DEF Past, TypeOK
    <3>2. CASE ~ clock > magic_tokens[t].expires_at
      <4> DEFINE r == [IdleReq EXCEPT !.pc = "insert", !.tab = b, !.ticket = t,
                             !.identity = ByMail(magic_tokens[t].user_email)]
      <4>1. Holds(r, t)
        BY DEF Holds, IdleReq
      <4>2. req'[q] = r
        BY <2>1, <3>2 DEF Goto, TypeOK
      <4> QED BY <4>1, <4>2
    <3> QED BY <3>1, <3>2
  <2> QED BY <1>1, <1>2, <2>3, <2>4, KeepNone
<1>5. CASE OauthLogin(q)
  <2>1. PICK t \in Unused :
          /\ oauth_states' = oauth_states \cup {t}
          /\ issued' = [issued EXCEPT ![t] = "state"]
    BY <1>5 DEF OauthLogin
  <2>2. UNCHANGED magic_tokens
    BY <1>5 DEF OauthLogin
  <2>3. t \in Pending' /\ Pending \subseteq Pending' /\ Past \subseteq Past' \cup {t}
    BY <2>1, <2>2 DEF Pending, Past, TypeOK
  <2> QED BY <1>1, <1>2, <2>3, KeepNone
<1>6. CASE OauthCallback(q)
  <2>1. PICK b \in Tab, t \in oauth_states :
          /\ oauth_states' = oauth_states \ {t}
          /\ Goto(q, [IdleReq EXCEPT !.pc = "exchange", !.tab = b, !.ticket = t])
    BY <1>6 DEF OauthCallback
  <2>2. UNCHANGED <<magic_tokens, issued>>
    BY <1>6 DEF OauthCallback, history
  <2>3. Past' = Past /\ Pending \subseteq Pending' \cup {t}
    BY <2>1, <2>2 DEF Pending, Past
  <2>4. Holds(req'[q], t)
    <3> DEFINE r == [IdleReq EXCEPT !.pc = "exchange", !.tab = b, !.ticket = t]
    <3>1. Holds(r, t)
      BY DEF Holds, IdleReq
    <3>2. req'[q] = r
      BY <2>1 DEF Goto, TypeOK
    <3> QED BY <3>1, <3>2
  <2> QED BY <1>1, <1>2, <2>3, <2>4, KeepNone
<1>7. CASE Logout(q) \/ LogoutBearer(q) \/ CliCallback(q)
  <2>1. UNCHANGED <<magic_tokens, oauth_states, issued>>
    BY <1>7 DEF Logout, LogoutBearer, CliCallback, memory, history
  <2>2. Pending' = Pending /\ Past' = Past
    BY <2>1 DEF Pending, Past
  <2> QED BY <1>1, <1>2, <2>2, KeepNone
<1> QED BY <1>3, <1>4, <1>5, <1>6, <1>7 DEF Arrive

LEMMA HandleNone ==
  ASSUME TypeOK, TokenInv, NoneLost, faults = 0, NEW q \in Req, Handle(q)
  PROVE  NoneLost'
<1>0. req[q] \in Request
  BY DEF TypeOK
<1>1. UNCHANGED <<magic_tokens, oauth_states, issued>>
  BY DEF Handle, SendEmail, ExchangeCode, InsertUser, SelectUser, CreateSession, Answer,
         AnswerCli, DeleteSession, DeleteAllSessions, memory, history
<1>2. Pending' = Pending /\ Past' = Past
  BY <1>1 DEF Pending, Past
<1>3. CASE CreateSession(q)
  <2>1. PICK k \in Fresh :
          /\ via' = [via EXCEPT ![k] = IF req[q].kind = "cli" THEN "cli"
                                       ELSE req[q].ticket]
          /\ Goto(q, [req[q] EXCEPT !.pc = "answer", !.token = k])
    BY <1>3 DEF CreateSession
  <2>2. /\ k \in Token /\ via[k] = None
        /\ req[q].ticket \in Ticket => req[q].kind = "web"
    BY <1>3 DEF Fresh, CreateSession, At, TokenInv, TokenLocals
  <2>3. \A l \in Token : via[l] \in Ticket => via'[l] = via[l]
    BY <2>1, <2>2, NoneIsNoValue DEF TypeOK
  <2>4. \A t \in Ticket : t \in Opened => t \in Opened'
    BY <2>3 DEF Opened
  <2>5. req[q].ticket \in Ticket => via'[k] = req[q].ticket
    BY <2>1, <2>2 DEF TypeOK
  <2>6. req[q].ticket \in Ticket => req[q].ticket \in Opened'
    BY <2>2, <2>5 DEF Opened
  <2>7. \A x \in Req, t \in Ticket : Holds(req[x], t) => Holds(req'[x], t) \/ t \in Opened'
    BY <2>1, <2>6 DEF Goto, TypeOK, Holds
  <2> QED BY <1>2, <2>4, <2>7, KeepNone
<1>4. CASE ~ CreateSession(q)
  <2>1. UNCHANGED via
    BY <1>4 DEF Handle, SendEmail, ExchangeCode, InsertUser, SelectUser, Answer,
                AnswerCli, DeleteSession, DeleteAllSessions, history
  <2>2. Opened' = Opened
    BY <2>1 DEF Opened
  <2>3. \A x \in Req, t \in Ticket : Holds(req[x], t) => Holds(req'[x], t)
    <3>1. CASE ExchangeCode(q)
      <4>1. \A t \in Ticket :
              Holds(req[q], t) =>
                Holds([req[q] EXCEPT !.pc = "insert", !.identity = proof[req[q].ticket]], t)
        BY <1>0 DEF Holds, Request
      <4> QED BY <3>1, <4>1, GotoKeeps DEF ExchangeCode
    <3>2. CASE InsertUser(q)
      <4>1. \A t \in Ticket : Holds(req[q], t) => Holds([req[q] EXCEPT !.pc = "select"], t)
        BY <1>0 DEF Holds, Request
      <4> QED BY <3>2, <4>1, GotoKeeps DEF InsertUser
    <3>3. CASE SelectUser(q)
      <4>1. PICK u \in User : Goto(q, [req[q] EXCEPT !.pc = "session", !.user = u])
        BY <3>3 DEF SelectUser
      <4>2. \A t \in Ticket :
              Holds(req[q], t) => Holds([req[q] EXCEPT !.pc = "session", !.user = u], t)
        BY <1>0 DEF Holds, Request
      <4> QED BY <4>1, <4>2, GotoKeeps
    <3>4. CASE /\ Finish(q)
               /\ req[q].pc \in {"mail", "answer", "delete", "delete_all"}
      <4>1. \A t \in Ticket : ~ Holds(req[q], t)
        BY <3>4 DEF Holds
      <4> QED BY <3>4, <4>1, GotoKeeps DEF Finish
    <3> QED BY <1>4, <3>1, <3>2, <3>3, <3>4
            DEF Handle, SendEmail, Answer, AnswerCli, DeleteSession, DeleteAllSessions, At
  <2> QED BY <1>2, <2>2, <2>3, KeepNone
<1> QED BY <1>3, <1>4

\* A ticket that was taken is at work or opened its session, as long as no call
\* fails and the process stays up.
THEOREM NoneLostHolds == Spec => []NoneLost
<1>1. Init => NoneLost
  BY DEF Init, NoneLost
<1>2. TypeOK /\ TokenInv /\ NoneLost /\ [Next]_vars => NoneLost'
  <2> SUFFICES ASSUME TypeOK, TokenInv, NoneLost, [Next]_vars, faults' = 0
               PROVE  NoneLost'
    BY DEF NoneLost
  <2>1. ASSUME NEW q \in Req, Arrive(q) \/ Handle(q) PROVE faults = 0
    BY <2>1 DEF Arrive, SendMagicLink, VerifyMagicLink, OauthLogin, OauthCallback, Logout,
                LogoutBearer, CliCallback, Handle, SendEmail, ExchangeCode, InsertUser,
                SelectUser, CreateSession, Answer, AnswerCli, DeleteSession,
                DeleteAllSessions
  <2>2. ASSUME NEW q \in Req PROVE ~ (DeleteFails(q) \/ RequestFails(q))
    BY DEF DeleteFails, RequestFails, TypeOK
  <2>3. CASE Others
    <3>1. UNCHANGED <<magic_tokens, oauth_states, req, issued, via, faults>>
      BY <2>3 DEF Others, Consent, CliLogin, CliLoginFails, CliLogout, SetTier, Tick, Crash,
                  memory, history, vars, TypeOK
    <3> QED BY <3>1 DEF NoneLost, Pending, AtWork
  <2> QED BY <2>1, <2>2, <2>3, ArriveNone, HandleNone DEF Next, Others
<1> QED BY <1>1, <1>2, TypeCorrect, TokenInvHolds, PTL DEF Spec
=============================================================================
