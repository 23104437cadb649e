---------------------------- MODULE GatewayLogin ----------------------------
(***************************************************************************)
(* Browser logins at the MCP Gateway: the broker's authorization-code flow *)
(* (components/mcp-credential-broker/src/oauth.ts) against the Gateway's   *)
(* OAuth endpoints and in-memory stores (components/mcp-gateway/src:       *)
(* routes/oauth.ts, utils/oauthStore.ts, utils/sessionStore.ts).           *)
(*                                                                         *)
(* A sign-in is what one request to /oauth/authorize starts.  It becomes a *)
(* transaction, a callback that waits for Keycloak, an authorization code, *)
(* a session and perhaps a logout ticket; each of them is a record with    *)
(* the number of its sign-in, which stands for the random token it is      *)
(* found by.  A login's state, client id and PKCE verifier are the login.  *)
(*                                                                         *)
(* The browser may load any URL it has been sent to at any time, and as    *)
(* often as it likes: reloads, late redirects and tabs left open.          *)
(***************************************************************************)
EXTENDS Naturals, FiniteSets

CONSTANTS
  Logins,           \* calls of performAuthorizationCodeLogin
  Ports,            \* loopback ports of the users' machine
  NoPort,
  LoginTimeout,     \* timeoutMs of a login
  TransactionLife, CodeLife, SessionLife, TicketLife,   \* *_TTL_SECONDS
  IdLives,          \* lifetimes Keycloak gives to ID tokens
  MaxTime,          \* model bound: the clock stops here
  MaxSignIns        \* model bound: requests to /oauth/authorize

ASSUME GatewayLoginAssumption ==
  /\ LoginTimeout \in Nat /\ MaxTime \in Nat /\ MaxSignIns \in Nat
  /\ TransactionLife \in Nat \ {0} /\ CodeLife \in Nat \ {0}
  /\ SessionLife \in Nat \ {0} /\ TicketLife \in Nat \ {0}
  /\ IdLives \subseteq Nat \ {0}
  /\ NoPort \notin Ports

VARIABLES
  now,
  signIns,       \* sign-ins so far
  clients,       \* registered clients: a login and its redirect port
  transactions,  \* sign-ins at the identity provider
  callbacks,     \* /oauth/callback handlers that wait for Keycloak
  codes,         \* authorization codes
  sessions,      \* Gateway sessions
  tickets,       \* logout tickets
  urls,          \* URLs the browser has been sent to
  login          \* control state and locals of the logins

stores == <<transactions, callbacks, codes, sessions>>
vars == <<now, signIns, clients, stores, tickets, urls, login>>

SignIn == 1..MaxSignIns

Client == [login : Logins, port : Ports]
Transaction == [signIn : SignIn, login : Logins, port : Ports, expires : Nat]
Code == [signIn : SignIn, login : Logins, port : Ports, idEnds : Nat, expires : Nat]
GatewaySession ==
  [signIn : SignIn, login : Logins, begins : Nat, idEnds : Nat, expires : Nat]
Ticket == [signIn : SignIn, expires : Nat]

\* /oauth/authorize, /oauth/callback, the loopback server (code 0 is an error
\* of the identity provider) and /oauth/idp-logout.
AuthorizeUrl(l, p) == [to |-> "authorize", login |-> l, port |-> p]
CallbackUrl(n) == [to |-> "callback", signIn |-> n]
LoopbackUrl(t, code) ==
  [to |-> "loopback", port |-> t.port, login |-> t.login, code |-> code]
LogoutUrl(n) == [to |-> "logout", signIn |-> n]
Url ==
  [to : {"authorize"}, login : Logins, port : Ports]
    \cup [to : {"callback", "logout"}, signIn : SignIn]
    \cup [to : {"loopback"}, port : Ports, login : Logins, code : {0} \cup SignIn]

Ended == {"done", "failed", "crashed"}
Login ==
  [pc : {"idle", "listening", "opening", "waiting", "redeem"} \cup Ended,
   port : Ports \cup {NoPort},
   deadline : Nat,
   code : {0} \cup SignIn,      \* what callback.promise resolved to
   session : {0} \cup SignIn]

Idle == [pc |-> "idle", port |-> NoPort, deadline |-> 0, code |-> 0, session |-> 0]

Init ==
  /\ now = 0 /\ signIns = 0 /\ clients = {}
  /\ transactions = {} /\ callbacks = {} /\ codes = {} /\ sessions = {}
  /\ tickets = {} /\ urls = {}
  /\ login = [l \in Logins |-> Idle]

Min2(a, b) == IF a < b THEN a ELSE b

\* The records of a store that are not those of sign-in n: map.delete.
Without(store, n) == {x \in store : x.signIn # n}

Goto(l, state) == login' = [login EXCEPT ![l] = state]
\* The login returns or throws: its loopback server closes.
End(l, pc, session) ==
  Goto(l, [Idle EXCEPT !.pc = pc, !.session = session])

-----------------------------------------------------------------------------
(* performAuthorizationCodeLogin *)

\* The loopback server listens on a port nobody else listens on.
Begin(l, p) ==
  /\ login[l].pc = "idle" /\ \A k \in Logins : login[k].port # p
  /\ Goto(l, [Idle EXCEPT !.pc = "listening", !.port = p])
  /\ UNCHANGED <<now, signIns, clients, stores, tickets, urls>>

\* /oauth/register answers; the browser is being opened.
Register(l) ==
  /\ login[l].pc = "listening"
  /\ clients' = clients \cup {[login |-> l, port |-> login[l].port]}
  /\ urls' = urls \cup {AuthorizeUrl(l, login[l].port)}
  /\ Goto(l, [login[l] EXCEPT !.pc = "opening"])
  /\ UNCHANGED <<now, signIns, stores, tickets>>

\* When a wait that starts now ends (model bound: waits near MaxTime are
\* shorter).
Deadline == Min2(now + LoginTimeout, MaxTime)

\* The browser is open; the code may be there already.
BrowserOpened(l) ==
  /\ login[l].pc = "opening"
  /\ Goto(l, IF login[l].code # 0 THEN [login[l] EXCEPT !.pc = "redeem"]
             ELSE [login[l] EXCEPT !.pc = "waiting", !.deadline = Deadline])
  /\ UNCHANGED <<now, signIns, clients, stores, tickets, urls>>

\* The registration, the browser or the token request fails or times out.
StepFails(l) ==
  /\ login[l].pc \in {"listening", "opening", "redeem"}
  /\ End(l, "failed", 0)
  /\ UNCHANGED <<now, signIns, clients, stores, tickets, urls>>

\* Mutant of TimesOut: the wait for the browser has no timeout.
NeverTimesOut(l) == FALSE /\ UNCHANGED vars

\* withTimeout
TimesOut(l) ==
  /\ login[l].pc = "waiting" /\ now >= login[l].deadline
  /\ End(l, "failed", 0)
  /\ UNCHANGED <<now, signIns, clients, stores, tickets, urls>>

\* The user closes the MCP client, or the process is killed.
Killed(l) ==
  /\ login[l].pc \notin {"idle"} \cup Ended
  /\ End(l, "crashed", 0)
  /\ UNCHANGED <<now, signIns, clients, stores, tickets, urls>>

\* The browser delivers a redirect to the loopback server of l; u is its URL.
Delivered(l, u) ==
  /\ u \in urls /\ u.to = "loopback" /\ login[l].port = u.port
  /\ UNCHANGED <<now, signIns, clients, stores, tickets, urls>>

\* Mutant of Accepts: the state of a redirect is not compared.
AcceptsAnyState(l, u) == u.code # 0

\* A redirect with the expected state and a code.
Accepts(l, u) == u.login = l /\ u.code # 0

\* callback.resolve, the first time
RedirectAccepted(l, u) ==
  /\ Delivered(l, u) /\ Accepts(l, u) /\ login[l].code = 0
  /\ \/ /\ login[l].pc \in {"listening", "opening"}
        /\ Goto(l, [login[l] EXCEPT !.code = u.code])
     \/ /\ login[l].pc = "waiting"
        /\ Goto(l, [login[l] EXCEPT !.code = u.code, !.pc = "redeem"])

\* callback.reject, the first time: the login fails, or, before withTimeout
\* waits for the promise, the rejection is unhandled and ends the process.
RedirectRejected(l, u) ==
  /\ Delivered(l, u) /\ ~Accepts(l, u) /\ login[l].code = 0
  /\ \/ login[l].pc \in {"listening", "opening"} /\ End(l, "crashed", 0)
     \/ login[l].pc = "waiting" /\ End(l, "failed", 0)

-----------------------------------------------------------------------------
(* The Gateway's OAuth endpoints *)

\* GET /oauth/authorize: a new transaction, and on to the identity provider,
\* which sends the browser back to /oauth/callback.
Authorize(l, p) ==
  /\ AuthorizeUrl(l, p) \in urls /\ [login |-> l, port |-> p] \in clients
  /\ signIns < MaxSignIns
  /\ signIns' = signIns + 1
  /\ transactions' = transactions \cup
       {[signIn |-> signIns + 1, login |-> l, port |-> p,
         expires |-> now + TransactionLife]}
  /\ urls' = urls \cup {CallbackUrl(signIns + 1)}
  /\ UNCHANGED <<now, clients, callbacks, codes, sessions, tickets, login>>

\* Mutant of Consume: the entry stays in its map.
Keep(store, n) == store

\* The consume functions take the entry out of its map before they look at it.
Consume(store, n) == Without(store, n)

\* GET /oauth/callback with the state of t: the transaction is used up, then an
\* error of the identity provider goes back to the login and a code to Keycloak.
Callback(t) ==
  /\ t \in transactions /\ CallbackUrl(t.signIn) \in urls
  /\ transactions' = Consume(transactions, t.signIn)
  /\ \/ /\ t.expires > now /\ callbacks' = callbacks \cup {t} /\ UNCHANGED urls
     \/ /\ t.expires > now /\ urls' = urls \cup {LoopbackUrl(t, 0)}
        /\ UNCHANGED callbacks
     \/ t.expires <= now /\ UNCHANGED <<callbacks, urls>>
  /\ UNCHANGED <<now, signIns, clients, codes, sessions, tickets, login>>

\* Mutant of CodeExpiry: codes outlive the ID token they carry.
CodeExpiryAlone(idEnds) == now + CodeLife

\* A code ends with its ID token.
CodeExpiry(idEnds) == Min2(idEnds, now + CodeLife)

\* Keycloak answers with a good ID token: createAuthorizationCode.
Exchanged(t, life) ==
  LET idEnds == now + life
  IN  /\ t \in callbacks
      /\ callbacks' = Without(callbacks, t.signIn)
      /\ codes' = codes \cup
           {[signIn |-> t.signIn, login |-> t.login, port |-> t.port,
             idEnds |-> idEnds, expires |-> CodeExpiry(idEnds)]}
      /\ urls' = urls \cup {LoopbackUrl(t, t.signIn)}
      /\ UNCHANGED <<now, signIns, clients, transactions, sessions, tickets, login>>

\* Keycloak fails, times out or sends an ID token that does not verify: 502.
ExchangeFails(t) ==
  /\ t \in callbacks
  /\ callbacks' = Without(callbacks, t.signIn)
  /\ UNCHANGED <<now, signIns, clients, transactions, codes, sessions, tickets,
                 urls, login>>

\* The codes with which POST /oauth/token lets l have a session.
Redeemable(l) ==
  {c \in codes : /\ c.signIn = login[l].code /\ c.expires > now
                 /\ c.login = l /\ c.port = login[l].port}

\* POST /oauth/token uses up the code and, if it is good, opens a session.  The
\* answer may get lost.
Redeem(l) ==
  /\ login[l].pc = "redeem"
  /\ codes' = Consume(codes, login[l].code)
  /\ sessions' = sessions \cup
       {[signIn |-> c.signIn, login |-> l, begins |-> now, idEnds |-> c.idEnds,
         expires |-> now + SessionLife] : c \in Redeemable(l)}
  /\ \/ End(l, "failed", 0)
     \/ Redeemable(l) # {} /\ End(l, "done", login[l].code)
  /\ UNCHANGED <<now, signIns, clients, transactions, callbacks, tickets, urls>>

\* sessionStore.get and listActive drop an expired session they come across.
Expire(s) ==
  /\ s \in sessions /\ s.expires <= now
  /\ sessions' = Without(sessions, s.signIn)
  /\ UNCHANGED <<now, signIns, clients, transactions, callbacks, codes, tickets,
                 urls, login>>

\* POST /oauth/revoke by `--logout`, or a 401 reauth_required.
Revoke(s) ==
  /\ s \in sessions /\ \E l \in Logins : login[l].session = s.signIn
  /\ sessions' = Without(sessions, s.signIn)
  /\ UNCHANGED <<now, signIns, clients, transactions, callbacks, codes, tickets,
                 urls, login>>

\* Mutant of SessionsWithout: the session of a logout ticket stays.
SessionsKept(n) == sessions

\* sessionStore.consume
SessionsWithout(n) == Without(sessions, n)

\* POST /oauth/idp-logout-ticket by `--logout --idp`: the session ends, and a
\* good one gives a ticket.  Creating it drops the expired tickets.
LogoutTicket(s) ==
  /\ s \in sessions /\ \E l \in Logins : login[l].session = s.signIn
  /\ sessions' = SessionsWithout(s.signIn)
  /\ \/ /\ s.expires > now
        /\ tickets' = {k \in tickets : k.expires > now}
             \cup {[signIn |-> s.signIn, expires |-> now + TicketLife]}
        /\ urls' = urls \cup {LogoutUrl(s.signIn)}
     \/ s.expires <= now /\ UNCHANGED <<tickets, urls>>
  /\ UNCHANGED <<now, signIns, clients, transactions, callbacks, codes, login>>

\* GET /oauth/idp-logout
IdpLogout(k) ==
  /\ k \in tickets /\ LogoutUrl(k.signIn) \in urls
  /\ tickets' = Without(tickets, k.signIn)
  /\ UNCHANGED <<now, signIns, clients, stores, urls, login>>

\* The Gateway restarts: everything it holds is in memory.
Restart ==
  /\ clients' = {} /\ transactions' = {} /\ callbacks' = {} /\ codes' = {}
  /\ sessions' = {} /\ tickets' = {}
  /\ UNCHANGED <<now, signIns, urls, login>>

Tick ==
  /\ now < MaxTime
  /\ now' = now + 1
  /\ UNCHANGED <<signIns, clients, stores, tickets, urls, login>>

LoginStep(l) ==
  \/ Register(l) \/ BrowserOpened(l) \/ StepFails(l) \/ TimesOut(l) \/ Redeem(l)

Browser ==
  \/ \E l \in Logins, u \in urls : RedirectAccepted(l, u) \/ RedirectRejected(l, u)
  \/ \E l \in Logins, p \in Ports : Authorize(l, p)
  \/ \E t \in transactions : Callback(t)
  \/ \E k \in tickets : IdpLogout(k)

Gateway ==
  \/ \E t \in callbacks : ExchangeFails(t) \/ \E life \in IdLives : Exchanged(t, life)
  \/ \E s \in sessions : Expire(s) \/ Revoke(s) \/ LogoutTicket(s)
  \/ Restart

Next ==
  \/ \E l \in Logins : LoginStep(l) \/ Killed(l) \/ \E p \in Ports : Begin(l, p)
  \/ Browser \/ Gateway \/ Tick

Spec == Init /\ [][Next]_vars

\* A login goes on by itself and the clock runs; nobody need use the browser.
FairSpec == Spec /\ WF_vars(Tick) /\ \A l \in Logins : WF_vars(LoginStep(l))

-----------------------------------------------------------------------------
(* Properties *)

\* Types, and: a login waits only while no redirect has settled it, and listens
\* on a port as long as it runs.
TypeOK ==
  /\ now \in Nat /\ signIns \in 0..MaxSignIns
  /\ clients \subseteq Client
  /\ transactions \subseteq Transaction /\ callbacks \subseteq Transaction
  /\ codes \subseteq Code /\ sessions \subseteq GatewaySession
  /\ tickets \subseteq Ticket
  /\ urls \subseteq Url
  /\ login \in [Logins -> Login]
  /\ \A l \in Logins :
       /\ login[l].pc = "waiting" => login[l].code = 0
       /\ login[l].pc = "redeem" => login[l].code # 0
       /\ login[l].pc \in {"listening", "opening", "waiting", "redeem"}
            <=> login[l].port # NoPort

\* A store holds at most one record of a sign-in; two stores hold none of the same.
OneEach(store) == \A x, y \in store : x.signIn = y.signIn => x = y
Apart(store, other) == \A x \in store, y \in other : x.signIn # y.signIn

\* However often the browser reloads /oauth/callback, and whatever it does while
\* Keycloak is asked, a sign-in is in one place at a time, once: it never yields
\* two codes or two sessions, or a code and a session.
SignInOnce ==
  /\ OneEach(transactions) /\ OneEach(callbacks) /\ OneEach(codes) /\ OneEach(sessions)
  /\ Apart(transactions, callbacks \cup codes \cup sessions)
  /\ Apart(callbacks, codes \cup sessions)
  /\ Apart(codes, sessions)

\* A login never holds the code or session of another's sign-in, not even when
\* the late redirect of a login that timed out reaches the next one, which
\* listens on the same port.
OwnSignIn ==
  /\ \A l \in Logins : \A c \in codes : c.signIn = login[l].code => c.login = l
  /\ \A l \in Logins : \A s \in sessions : s.signIn = login[l].session => s.login = l

\* The check in sessionStore.create, whose exception /oauth/token does not
\* handle, never fires: sessions begin before their ID token ends.
BeginsFresh == \A s \in sessions : s.begins < s.idEnds

\* Once there is a logout ticket for a session, nobody can use the session: what
\* the identity provider is asked to forget, the Gateway has forgotten.
TicketEndsSession == \A k \in tickets, s \in sessions : k.signIn # s.signIn

\* A login does not hang: it returns or throws, whatever the browser does.
LoginEnds ==
  \A l \in Logins : login[l].pc = "listening" ~> login[l].pc \in Ended

=============================================================================
