------------------------------- MODULE SignIn -------------------------------
(***************************************************************************)
(* Signing in to the lwid server: magic links, OAuth with PKCE, sessions,  *)
(* and the login of the CLI through a browser.                             *)
(*                                                                         *)
(* Links and OAuth states are kept in memory, under a lock each, and go    *)
(* with the process; users and sessions are rows of SQLite and stay.  A    *)
(* handler is a task that awaits every SQL statement and every call to a   *)
(* provider, so one action is one such call with the code up to the next,  *)
(* and requests interleave between calls.  A request that is refused at    *)
(* once (an unknown link or state, no session) changes nothing, which is a *)
(* stuttering step.                                                        *)
(*                                                                         *)
(* Email addresses and display names, which every sign-in refreshes, are   *)
(* left out: nothing decides by them.                                      *)
(***************************************************************************)
EXTENDS Naturals

CONSTANTS
  None,
  Provider,      \* OAuth providers
  Account,       \* lower-case mail addresses, and the providers' user ids
  Address,       \* addresses as people type them
  Canonical,     \* Canonical[a]: address a, trimmed and in lower case
  Ticket,        \* link tokens and OAuth states nanoid and the library draw
  User,          \* ids nanoid draws for users
  Token,         \* session tokens nanoid draws
  Tab,           \* browser tabs, each with the cookie of its browser
  Req,           \* slots for requests in flight
  LinkTtl,       \* magic_link_ttl_minutes, in ticks
  SessionDays,   \* session_ttl_days
  Day,           \* ticks of a UTC day
  MaxClock, MaxFaults  \* bounds on time, and on failed calls and restarts

Email == "email"
SessionTtl == SessionDays * Day

ASSUME NoneIsNoValue ==
  /\ None \notin Account \cup Ticket \cup User \cup Token \cup Tab \cup {"cli"}
  /\ "cli" \notin Ticket

ASSUME AddressType == Canonical \in [Address -> Account] /\ Email \notin Provider

ASSUME BoundsType ==
  /\ LinkTtl \in Nat /\ SessionDays \in Nat /\ Day \in Nat \ {0}
  /\ MaxClock \in Nat /\ MaxFaults \in Nat

VARIABLES
  magic_tokens,  \* memory: link t's address and deadline, or None
  oauth_states,  \* memory: states whose PKCE verifier is kept
  users,         \* rows: who user u is and which tier, or None
  sessions,      \* rows: the session of token k, or None
  cookie,        \* cookie[b]: the session cookie of tab b, or None
  flow,          \* flow[b]: the OAuth state tab b went to a provider with
  cli,           \* "idle", or "waiting" for a browser to call back
  token_file,    \* the token saved by the CLI, or None
  req,           \* local state of the handlers in flight
  clock,
  faults,        \* calls failed and restarts so far
  issued,        \* history: what ticket t was drawn for, or "late":
                 \* it was presented after its deadline
  proof,         \* who can present t: mailed to, or consented; None if nobody
  tier,          \* tier[i]: the tier the operator gave identity i
  via,           \* history: the ticket session k was opened with, or "cli"
  signed_out     \* history: tokens whose sign-out was carried out

memory == <<magic_tokens, oauth_states>>
rows == <<users, sessions>>
clients == <<cookie, flow, cli, token_file>>
history == <<issued, proof, tier, via, signed_out>>
vars == <<memory, rows, clients, req, clock, faults, history>>

-----------------------------------------------------------------------------
(* Values.                                                                 *)

Identity == [provider : Provider \cup {Email}, id : Account]
ByMail(a) == [provider |-> Email, id |-> a]

UserRow == [identity : Identity, tier : {"free", "pro"}]
SessionRow == [user_id : User, expires_at : Nat, kind : {"web", "cli"}]
Link == [user_email : Account, expires_at : Nat]

\* A handler's locals: the call it makes next, and what it holds by then.
Request ==
  [pc : {"idle", "mail", "exchange", "insert", "select", "session", "answer",
         "delete", "delete_all"},
   tab : Tab \cup {None}, ticket : Ticket \cup {None},
   identity : Identity \cup {None}, user : User \cup {None},
   kind : {"web", "cli"}, token : Token \cup {None}]

IdleReq ==
  [pc |-> "idle", tab |-> None, ticket |-> None, identity |-> None,
   user |-> None, kind |-> "web", token |-> None]

LocalsOK(r) ==
  /\ r.pc \in {"mail", "exchange"} => r.ticket \in Ticket
  /\ r.pc \in {"mail", "insert", "select"} => r.identity \in Identity
  /\ r.pc \in {"session", "delete_all"} => r.user \in User
  /\ r.pc \in {"answer", "delete"} => r.token \in Token
  /\ r.pc \in {"exchange", "insert", "select", "session", "answer",
               "delete"} => r.tab \in Tab

Cookie == [token : Token, until : Nat]

ASSUME NoneIsNoRecord ==
  None \notin Identity \cup UserRow \cup SessionRow \cup Link \cup Cookie

TypeOK ==
  /\ magic_tokens \in [Ticket -> Link \cup {None}]
  /\ oauth_states \subseteq Ticket
  /\ users \in [User -> UserRow \cup {None}]
  /\ sessions \in [Token -> SessionRow \cup {None}]
  /\ cookie \in [Tab -> Cookie \cup {None}]
  /\ flow \in [Tab -> Ticket \cup {None}]
  /\ cli \in {"idle", "waiting"}
  /\ token_file \in Token \cup {None}
  /\ req \in [Req -> Request]
  /\ \A q \in Req : LocalsOK(req[q])
  /\ clock \in 0..MaxClock
  /\ faults \in 0..MaxFaults
  /\ issued \in [Ticket -> {"unused", "link", "state", "late"}]
  /\ proof \in [Ticket -> Identity \cup {None}]
  /\ tier \in [Identity -> {"free", "pro"}]
  /\ via \in [Token -> Ticket \cup {None, "cli"}]
  /\ signed_out \subseteq Token

Init ==
  /\ magic_tokens = [t \in Ticket |-> None]
  /\ oauth_states = {}
  /\ users = [u \in User |-> None]
  /\ sessions = [k \in Token |-> None]
  /\ cookie = [b \in Tab |-> None]
  /\ flow = [b \in Tab |-> None]
  /\ cli = "idle"
  /\ token_file = None
  /\ req = [q \in Req |-> IdleReq]
  /\ clock = 0 /\ faults = 0
  /\ issued = [t \in Ticket |-> "unused"]
  /\ proof = [t \in Ticket |-> None]
  /\ tier = [i \in Identity |-> "free"]
  /\ via = [k \in Token |-> None]
  /\ signed_out = {}

-----------------------------------------------------------------------------
(* Helpers.                                                                *)

At(q, pc) == req[q].pc = pc
Goto(q, r) == req' = [req EXCEPT ![q] = r]
Finish(q) == Goto(q, IdleReq)

Unused == {t \in Ticket : issued[t] = "unused"}

\* A token that was never given out: 48 random characters.
Fresh == {k \in Token : via[k] = None}

\* The row of (provider, provider_id), which the table holds once.
SlipIs(row, i) == row # None /\ row.identity.id = i.id
Is(row, i) == row # None /\ row.identity = i

\* expires_at is the text of an RFC 3339 time and is compared with the text of
\* datetime('now'): on the same day "T" beats the space, whatever the hour.
SlipNotExpired(s) == s.expires_at \div Day > clock \div Day
NotExpired(s) == s.expires_at \div Day >= clock \div Day
Accepts(k) == sessions[k] # None /\ NotExpired(sessions[k])

\* A browser sends the cookie until its max-age is over.
Sends(b) == cookie[b] # None /\ clock < cookie[b].until

-----------------------------------------------------------------------------
(* Magic links.                                                            *)

\* The link is kept for the address as it was typed.
SlipSendMagicLink(q) ==
  /\ At(q, "idle")
  /\ \E a \in Address, t \in Unused :
       /\ magic_tokens' = [magic_tokens EXCEPT
            ![t] = [user_email |-> a, expires_at |-> clock + LinkTtl]]
       /\ issued' = [issued EXCEPT ![t] = "link"]
       /\ Goto(q, [IdleReq EXCEPT !.pc = "mail", !.ticket = t,
                                  !.identity = ByMail(a)])
  /\ UNCHANGED <<oauth_states, rows, clients, clock, faults, proof, tier, via,
                 signed_out>>

\* send_magic_link: keep the link, then mail it.  The answer is the same
\* whether the mail goes out or not.
SendMagicLink(q) ==
  /\ At(q, "idle")
  /\ \E a \in Address, t \in Unused :
       LET email == Canonical[a] IN
       /\ magic_tokens' = [magic_tokens EXCEPT
            ![t] = [user_email |-> email, expires_at |-> clock + LinkTtl]]
       /\ issued' = [issued EXCEPT ![t] = "link"]
       /\ Goto(q, [IdleReq EXCEPT !.pc = "mail", !.ticket = t,
                                  !.identity = ByMail(email)])
  /\ UNCHANGED <<oauth_states, rows, clients, clock, faults, proof, tier, via,
                 signed_out>>

SendEmail(q) ==
  /\ At(q, "mail")
  /\ proof' = [proof EXCEPT ![req[q].ticket] = req[q].identity]
  /\ Finish(q)
  /\ UNCHANGED <<memory, rows, clients, clock, faults, issued, tier, via,
                 signed_out>>

\* Of a map that is removed from under its lock, one request gets the entry.
SlipRemove(map, t) == map
Remove(map, t) == [map EXCEPT ![t] = None]

SlipExpired(link) == clock >= link.expires_at
Expired(link) == clock > link.expires_at

\* verify_magic_link, up to the first SQL statement.
VerifyMagicLink(q) ==
  /\ At(q, "idle")
  /\ \E b \in Tab, t \in Ticket :
       /\ proof[t] # None
       /\ magic_tokens[t] # None
       /\ magic_tokens' = Remove(magic_tokens, t)
       /\ IF Expired(magic_tokens[t])
          THEN UNCHANGED req
          ELSE Goto(q, [IdleReq EXCEPT !.pc = "insert", !.tab = b, !.ticket = t,
                          !.identity = ByMail(magic_tokens[t].user_email)])
       /\ issued' = IF clock > magic_tokens[t].expires_at
                    THEN [issued EXCEPT ![t] = "late"] ELSE issued
  /\ UNCHANGED <<oauth_states, rows, clients, clock, faults, proof, tier, via,
                 signed_out>>

-----------------------------------------------------------------------------
(* OAuth.                                                                  *)

\* login: draw a state, keep its PKCE verifier, go to the provider.
OauthLogin(q) ==
  /\ At(q, "idle")
  /\ \E b \in Tab, t \in Unused :
       /\ oauth_states' = oauth_states \cup {t}
       /\ issued' = [issued EXCEPT ![t] = "state"]
       /\ flow' = [flow EXCEPT ![b] = t]
  /\ UNCHANGED <<magic_tokens, rows, cookie, cli, token_file, req, clock,
                 faults, proof, tier, via, signed_out>>

\* The provider asks its user, who consents, and sends the tab back with the
\* state and a code for the verifier's challenge.
Consent(t) ==
  /\ issued[t] = "state"
  /\ proof[t] = None
  /\ \E p \in Provider, a \in Account :
       proof' = [proof EXCEPT ![t] = [provider |-> p, id |-> a]]
  /\ UNCHANGED <<memory, rows, clients, req, clock, faults, issued, tier,
                 via, signed_out>>

OauthCallback(q) ==
  /\ At(q, "idle")
  /\ \E b \in Tab, t \in oauth_states :
       /\ flow[b] = t /\ proof[t] # None
       /\ oauth_states' = oauth_states \ {t}
       /\ Goto(q, [IdleReq EXCEPT !.pc = "exchange", !.tab = b, !.ticket = t])
  /\ UNCHANGED <<magic_tokens, rows, clients, clock, faults, history>>

\* Code for access token, access token for the provider's user.
ExchangeCode(q) ==
  /\ At(q, "exchange")
  /\ Goto(q, [req[q] EXCEPT !.pc = "insert", !.identity = proof[req[q].ticket]])
  /\ UNCHANGED <<memory, rows, clients, clock, faults, history>>

-----------------------------------------------------------------------------
(* upsert_user and create_session.                                         *)

Known(i) == \E u \in User : Is(users[u], i)

\* An upsert that also sets the tier of a row that is there.
SlipInsertOrIgnore(i) ==
  \E u \in User :
    /\ IF Known(i) THEN Is(users[u], i) ELSE users[u] = None
    /\ users' = [users EXCEPT ![u] = [identity |-> i, tier |-> "free"]]

\* INSERT OR IGNORE: the table is unique in (provider, provider_id).
InsertOrIgnore(i) ==
  IF Known(i) THEN UNCHANGED users
  ELSE \E u \in User :
         /\ users[u] = None
         /\ users' = [users EXCEPT ![u] = [identity |-> i, tier |-> "free"]]

InsertUser(q) ==
  /\ At(q, "insert")
  /\ InsertOrIgnore(req[q].identity)
  /\ Goto(q, [req[q] EXCEPT !.pc = "select"])
  /\ UNCHANGED <<memory, sessions, clients, clock, faults, history>>

SelectUser(q) ==
  /\ At(q, "select")
  /\ \E u \in User :
       /\ Is(users[u], req[q].identity)
       /\ Goto(q, [req[q] EXCEPT !.pc = "session", !.user = u])
  /\ UNCHANGED <<memory, rows, clients, clock, faults, history>>

CreateSession(q) ==
  /\ At(q, "session")
  /\ \E k \in Fresh :
       /\ sessions' = [sessions EXCEPT
            ![k] = [user_id |-> req[q].user, expires_at |-> clock + SessionTtl,
                    kind |-> req[q].kind]]
       /\ via' = [via EXCEPT ![k] = IF req[q].kind = "cli" THEN "cli"
                                    ELSE req[q].ticket]
       /\ Goto(q, [req[q] EXCEPT !.pc = "answer", !.token = k])
  /\ UNCHANGED <<memory, users, clients, clock, faults, issued, proof, tier,
                 signed_out>>

\* The answer of a sign-in sets the cookie and sends the tab to "/".
Answer(q) ==
  LET r == req[q] IN
  /\ At(q, "answer") /\ r.kind = "web"
  /\ cookie' = [cookie EXCEPT
       ![r.tab] = [token |-> r.token, until |-> clock + SessionTtl]]
  /\ Finish(q)
  /\ UNCHANGED <<memory, rows, flow, cli, token_file, clock, faults, history>>

-----------------------------------------------------------------------------
(* Signing out.                                                            *)

\* logout with a cookie; the extractor's lookup decides nothing.
Logout(q) ==
  /\ At(q, "idle")
  /\ \E b \in Tab :
       /\ Sends(b)
       /\ Goto(q, [IdleReq EXCEPT !.pc = "delete", !.tab = b,
                                  !.token = cookie[b].token])
  /\ UNCHANGED <<memory, rows, clients, clock, faults, history>>

SlipDelete(k) == UNCHANGED sessions
Delete(k) == sessions' = [sessions EXCEPT ![k] = None]

DeleteSession(q) ==
  /\ At(q, "delete")
  /\ Delete(req[q].token)
  /\ signed_out' = signed_out \cup {req[q].token}
  /\ cookie' = [cookie EXCEPT ![req[q].tab] = None]
  /\ Finish(q)
  /\ UNCHANGED <<memory, users, flow, cli, token_file, clock, faults,
                 issued, proof, tier, via>>

\* A failed delete is logged; the cookie is cleared all the same.
DeleteFails(q) ==
  /\ At(q, "delete")
  /\ faults < MaxFaults
  /\ faults' = faults + 1
  /\ cookie' = [cookie EXCEPT ![req[q].tab] = None]
  /\ Finish(q)
  /\ UNCHANGED <<memory, rows, flow, cli, token_file, clock, history>>

\* logout with the CLI's token in the Authorization header: everywhere.
LogoutBearer(q) ==
  /\ At(q, "idle")
  /\ token_file # None /\ Accepts(token_file)
  /\ Goto(q, [IdleReq EXCEPT !.pc = "delete_all",
                             !.user = sessions[token_file].user_id])
  /\ UNCHANGED <<memory, rows, clients, clock, faults, history>>

OfUser(u) == {k \in Token : sessions[k] # None /\ sessions[k].user_id = u}

DeleteAllSessions(q) ==
  LET gone == OfUser(req[q].user) IN
  /\ At(q, "delete_all")
  /\ sessions' = [k \in Token |-> IF k \in gone THEN None ELSE sessions[k]]
  /\ signed_out' = signed_out \cup gone
  /\ Finish(q)
  /\ UNCHANGED <<memory, users, clients, clock, faults, issued, proof, tier, via>>

-----------------------------------------------------------------------------
(* The CLI's login.                                                        *)

\* A tab that opens a page of the server has left the provider's.
Opens(b) == flow' = [flow EXCEPT ![b] = None]

\* `lwid login` listens on a port and opens /auth/cli in a tab.
CliLogin(b) ==
  /\ cli = "idle"
  /\ cli' = "waiting"
  /\ Opens(b)
  /\ UNCHANGED <<memory, rows, cookie, token_file, req, clock, faults, history>>

\* GET /auth/cli/callback: a signed-in tab gets a session for the CLI, any
\* other is sent to the sign-in page.
CliCallback(q) ==
  /\ At(q, "idle")
  /\ \E b \in Tab :
       IF Sends(b) /\ Accepts(cookie[b].token)
       THEN /\ Goto(q, [IdleReq EXCEPT !.pc = "session", !.kind = "cli", !.tab = b,
                          !.user = sessions[cookie[b].token].user_id])
            /\ UNCHANGED flow
       ELSE Opens(b) /\ UNCHANGED req
  /\ UNCHANGED <<memory, rows, cookie, cli, token_file, clock, faults, history>>

\* The answer sends the tab to the CLI's port with the token.  The CLI takes
\* one connection and saves the token it finds there.
AnswerCli(q) ==
  LET r == req[q] IN
  /\ At(q, "answer") /\ r.kind = "cli"
  /\ Opens(r.tab)
  /\ token_file' = IF cli = "waiting" THEN r.token ELSE token_file
  /\ cli' = "idle"
  /\ Finish(q)
  /\ UNCHANGED <<memory, rows, cookie, clock, faults, history>>

\* Its one connection carries no token, or the user gives up.
CliLoginFails ==
  /\ cli = "waiting"
  /\ cli' = "idle"
  /\ UNCHANGED <<memory, rows, cookie, flow, token_file, req, clock,
                 faults, history>>

\* `lwid logout` removes the file; the server is not told.
CliLogout ==
  /\ token_file # None
  /\ token_file' = None
  /\ UNCHANGED <<memory, rows, cookie, flow, cli, req, clock, faults,
                 history>>

-----------------------------------------------------------------------------
(* The operator, failures, time and restarts.                              *)

\* No code changes a tier: the operator does, in the database.
SetTier(u) ==
  /\ users[u] # None
  /\ users' = [users EXCEPT ![u].tier = "pro"]
  /\ tier' = [tier EXCEPT ![users[u].identity] = "pro"]
  /\ UNCHANGED <<memory, sessions, clients, req, clock, faults, issued, proof,
                 via, signed_out>>

\* A statement or a call to a provider fails, the mail is not sent, the client
\* hangs up, or the answer is lost.
RequestFails(q) ==
  /\ ~ At(q, "idle")
  /\ faults < MaxFaults
  /\ faults' = faults + 1
  /\ Finish(q)
  /\ UNCHANGED <<memory, rows, clients, clock, history>>

Tick ==
  /\ clock < MaxClock
  /\ clock' = clock + 1
  /\ UNCHANGED <<memory, rows, clients, req, faults, history>>

\* The process dies and starts again with empty maps.
Crash ==
  /\ faults < MaxFaults
  /\ faults' = faults + 1
  /\ magic_tokens' = [t \in Ticket |-> None]
  /\ oauth_states' = {}
  /\ req' = [q \in Req |-> IdleReq]
  /\ UNCHANGED <<rows, clients, clock, history>>

-----------------------------------------------------------------------------

Arrive(q) ==
  \/ SendMagicLink(q) \/ VerifyMagicLink(q) \/ OauthLogin(q) \/ OauthCallback(q)
  \/ Logout(q) \/ LogoutBearer(q) \/ CliCallback(q)

Handle(q) ==
  \/ SendEmail(q) \/ ExchangeCode(q) \/ InsertUser(q) \/ SelectUser(q)
  \/ CreateSession(q) \/ Answer(q) \/ AnswerCli(q)
  \/ DeleteSession(q) \/ DeleteAllSessions(q)

Next ==
  \/ \E q \in Req : Arrive(q) \/ Handle(q) \/ DeleteFails(q) \/ RequestFails(q)
  \/ \E t \in Ticket : Consent(t)
  \/ \E b \in Tab : CliLogin(b)
  \/ CliLoginFails
  \/ CliLogout
  \/ \E u \in User : SetTier(u)
  \/ Tick
  \/ Crash

Spec == Init /\ [][Next]_vars

-----------------------------------------------------------------------------
(* Properties.                                                             *)

\* A link or an OAuth state opens at most one session, however often and
\* however concurrently it is presented (remove under the lock).
OpensOneSession ==
  \A k, l \in Token : via[k] \in Ticket /\ via[k] = via[l] => k = l

\* A session opened with a link or a state is a session of the account whose
\* mailbox got the link, or who consented at the provider, although other
\* sign-ins insert and select users in between.
SessionIsProvers ==
  \A k \in Token : sessions[k] # None /\ via[k] \in Ticket =>
    users[sessions[k].user_id].identity = proof[via[k]]

\* An identity has one account, whatever concurrent first sign-ins do, and it
\* keeps the tier the operator gave it through all later sign-ins (the comment
\* in upsert_user on the row that exists).
AccountKept ==
  \A u \in User : users[u] # None =>
    /\ \A v \in User :
         users[v] # None /\ users[v].identity = users[u].identity => u = v
    /\ users[u].tier = tier[users[u].identity]

\* What get_session accepts: a session is good until its expiry, and no longer
\* than a day past it (the comparison is one of texts).
SessionWindow ==
  \A k \in Token : sessions[k] # None =>
    LET s == sessions[k] IN
    /\ clock < s.expires_at => Accepts(k)
    /\ Accepts(k) => clock < s.expires_at + Day

\* A token whose session a logout deleted is never accepted again, whatever
\* sign-ins and restarts follow; a delete that failed promises nothing, although
\* the tab is shown signed out all the same.
SignedOutStaysOut == \A k \in signed_out : ~ Accepts(k)

\* A link or state that was taken from its map has opened a session, or a
\* handler is at work on it, or it came after its deadline: it is lost to a failed
\* call or a restart only (it is taken before the user and the session are
\* written).
Pending == {t \in Ticket : magic_tokens[t] # None} \cup oauth_states
AtWork(t) ==
  \E q \in Req : /\ req[q].ticket = t
                  /\ req[q].pc \in {"exchange", "insert", "select", "session"}
NoneLost ==
  faults = 0 =>
    \A t \in Ticket \ Pending :
      \/ issued[t] \in {"unused", "late"}
      \/ AtWork(t)
      \/ \E k \in Token : via[k] = t

=============================================================================
