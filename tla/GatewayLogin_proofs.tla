------------------------ MODULE GatewayLogin_proofs ------------------------
(***************************************************************************)
(* Proofs about GatewayLogin: a sign-in is used once and by its own login, *)
(* sessions begin with a good ID token, and logout tickets end sessions.   *)
(***************************************************************************)
EXTENDS GatewayLogin, TLAPS

\* Everything the Gateway holds of a sign-in, logout tickets aside.
Held == transactions \cup callbacks \cup codes \cup sessions

\* Sign-ins are numbered in order: nobody knows one that has not begun.
Numbered ==
  /\ \A x \in Held \cup tickets : x.signIn <= signIns
  /\ \A u \in urls : u.to = "loopback" => u.code <= signIns
  /\ \A l \in Logins : login[l].code <= signIns /\ login[l].session <= signIns

\* What the Gateway holds of sign-in n is of login l.
Owns(l, n) == \A x \in Held : x.signIn = n => x.login = l

\* Redirects to the loopback server go with the login that asked for them, and
\* logins accept no others.
Owned ==
  /\ \A u \in urls : u.to = "loopback" => Owns(u.login, u.code)
  /\ \A l \in Logins : Owns(l, login[l].code) /\ Owns(l, login[l].session)

\* A sign-in with a logout ticket has come to its end.
Over == \A k \in tickets, x \in Held : k.signIn # x.signIn

\* A code ends with its ID token.
CodesEnd == \A c \in codes : c.expires <= c.idEnds

IInv ==
  /\ TypeOK /\ SignInOnce /\ Numbered /\ Owned /\ Over /\ CodesEnd /\ BeginsFresh

-----------------------------------------------------------------------------

\* The initial state satisfies the invariant.
LEMMA InitIInv == Init => IInv
<1> SUFFICES ASSUME Init PROVE IInv
  OBVIOUS
<1>1. TypeOK
  BY GatewayLoginAssumption DEF Init, TypeOK, Login, Idle, Ended
<1>2. SignInOnce /\ Numbered /\ Owned /\ Over /\ CodesEnd /\ BeginsFresh
  BY DEF Init, Idle, SignInOnce, OneEach, Apart, Numbered, Owned, Owns, Held, Over,
         CodesEnd, BeginsFresh
<1>3. QED
  BY <1>1, <1>2 DEF IInv

\* Steps that leave the Gateway's stores and the redirects alone, and give a login
\* no code or session that is not its own.
LEMMA LoginOnlyIInv ==
  ASSUME IInv, TypeOK', UNCHANGED <<signIns, stores, tickets>>,
         \A u \in urls' : u.to = "loopback" => u \in urls,
         \A l \in Logins :
           /\ login'[l].code <= signIns /\ login'[l].session <= signIns
           /\ Owns(l, login'[l].code) /\ Owns(l, login'[l].session)
  PROVE  IInv'
<1> USE DEF stores, IInv
<1>1. Held' = Held
  BY DEF Held
<1>2. SignInOnce' /\ CodesEnd' /\ BeginsFresh'
  BY DEF SignInOnce, OneEach, Apart, CodesEnd, BeginsFresh
<1>3. Numbered' /\ Over'
  BY <1>1 DEF Numbered, Over
<1>4. Owned'
  BY <1>1 DEF Owned, Owns
<1>5. QED
  BY <1>2, <1>3, <1>4

\* Steps of the Gateway that only forget: what it holds shrinks, and no login
\* changes.
LEMMA ForgetIInv ==
  ASSUME IInv, TypeOK', UNCHANGED <<signIns, urls, login>>,
         transactions' \subseteq transactions, callbacks' \subseteq callbacks,
         codes' \subseteq codes, sessions' \subseteq sessions,
         tickets' \subseteq tickets
  PROVE  IInv'
<1> USE DEF IInv
<1>1. Held' \subseteq Held
  BY DEF Held
<1>2. SignInOnce'
  BY DEF SignInOnce, OneEach, Apart
<1>3. CodesEnd' /\ BeginsFresh'
  BY DEF CodesEnd, BeginsFresh
<1>4. Numbered' /\ Over'
  BY <1>1 DEF Numbered, Over
<1>5. Owned'
  BY <1>1 DEF Owned, Owns
<1>6. QED
  BY <1>2, <1>3, <1>4, <1>5

-----------------------------------------------------------------------------

\* What an URL of the loopback server carries.
LEMMA LoopbackUrlType ==
  ASSUME NEW u \in Url, u.to = "loopback"
  PROVE  u.login \in Logins /\ u.code \in {0} \cup SignIn
BY DEF Url

\* A login that goes on, and one that ends, are of their type.
LEMMA LoginTypeOK ==
  ASSUME TypeOK, NEW l \in Logins, NEW state \in Login, Goto(l, state),
         UNCHANGED <<now, signIns, clients, stores, tickets, urls>>,
         state.pc = "waiting" => state.code = 0,
         state.pc = "redeem" => state.code # 0,
         state.pc \in {"listening", "opening", "waiting", "redeem"}
           <=> state.port # NoPort
  PROVE  TypeOK'
BY DEF TypeOK, Goto, stores

LEMMA EndTypeOK ==
  ASSUME TypeOK, NEW l \in Logins, NEW pc \in Ended,
         NEW session \in {0} \cup SignIn, End(l, pc, session),
         UNCHANGED <<now, signIns, clients, stores, tickets, urls>>
  PROVE  TypeOK'
<1> DEFINE state == [Idle EXCEPT !.pc = pc, !.session = session]
<1>1. /\ state \in Login /\ state.pc = pc /\ state.port = NoPort
  BY DEF Idle, Login, Ended
<1>2. Goto(l, state)
  BY DEF End
<1>3. state.pc \notin {"listening", "opening", "waiting", "redeem"}
  BY <1>1 DEF Ended
<1> HIDE DEF state
<1>4. QED
  BY <1>1, <1>2, <1>3, LoginTypeOK

\* Every step keeps the types.
LEMMA NextTypeOK == TypeOK /\ Next => TypeOK'
<1> SUFFICES ASSUME TypeOK, Next PROVE TypeOK'
  OBVIOUS
<1> USE GatewayLoginAssumption
<1>1. ASSUME NEW l \in Logins, NEW p \in Ports, Begin(l, p) PROVE TypeOK'
  <2>1. [Idle EXCEPT !.pc = "listening", !.port = p] \in Login
    BY DEF Idle, Login
  <2>2. QED
    BY <1>1, <2>1, LoginTypeOK DEF Begin, Idle
<1>2. ASSUME NEW l \in Logins, Register(l) PROVE TypeOK'
  <2>1. /\ login[l] \in Login /\ login[l].pc = "listening" /\ login[l].port \in Ports
    BY <1>2 DEF Register, TypeOK, Login
  <2>2. AuthorizeUrl(l, login[l].port) \in Url
    BY <2>1 DEF AuthorizeUrl, Url
  <2>3. urls' \subseteq Url /\ clients' \subseteq Client
    BY <1>2, <2>1, <2>2 DEF Register, TypeOK, Client
  <2>4. [login[l] EXCEPT !.pc = "opening"] \in Login
    BY <2>1 DEF Login
  <2>5. login' \in [Logins -> Login]
    BY <1>2, <2>4 DEF Register, Goto, TypeOK
  <2>6. QED
    BY <1>2, <2>1, <2>3, <2>5 DEF Register, Goto, TypeOK, stores
<1>3. ASSUME NEW l \in Logins, BrowserOpened(l) PROVE TypeOK'
  <2>1. /\ login[l] \in Login /\ login[l].pc = "opening" /\ login[l].port # NoPort
    BY <1>3 DEF BrowserOpened, TypeOK
  <2>2. now \in Nat /\ Deadline \in Nat
    BY DEF Deadline, Min2, TypeOK
  <2>3. CASE login[l].code # 0
    <3>1. [login[l] EXCEPT !.pc = "redeem"] \in Login
      BY <2>1 DEF Login
    <3>2. QED
      BY <1>3, <2>1, <2>3, <3>1, LoginTypeOK DEF BrowserOpened, Login
  <2>4. CASE login[l].code = 0
    <3>1. [login[l] EXCEPT !.pc = "waiting", !.deadline = Deadline] \in Login
      BY <2>1, <2>2 DEF Login
    <3>2. QED
      BY <1>3, <2>1, <2>4, <3>1, LoginTypeOK DEF BrowserOpened, Login
  <2>5. QED
    BY <2>3, <2>4
<1>4. ASSUME NEW l \in Logins, StepFails(l) \/ TimesOut(l) \/ Killed(l) PROVE TypeOK'
  BY <1>4, EndTypeOK DEF StepFails, TimesOut, Killed, Ended
<1>5. ASSUME NEW l \in Logins, Redeem(l) PROVE TypeOK'
  <2>1. /\ login[l] \in Login /\ login[l].code \in {0} \cup SignIn
    BY DEF TypeOK, Login
  <2>2. codes' \subseteq Code
    BY <1>5 DEF Redeem, Consume, Without, TypeOK
  <2>3. ASSUME NEW c \in Redeemable(l)
        PROVE  [signIn |-> c.signIn, login |-> l, begins |-> now, idEnds |-> c.idEnds,
                expires |-> now + SessionLife] \in GatewaySession
    <3>1. c \in Code
      BY <2>3 DEF Redeemable, TypeOK
    <3>2. QED
      BY <3>1 DEF Code, GatewaySession, TypeOK
  <2>4. sessions' \subseteq GatewaySession
    BY <1>5, <2>3 DEF Redeem, TypeOK
  <2>5. PICK pc \in Ended, session \in {0} \cup SignIn : End(l, pc, session)
    BY <1>5, <2>1 DEF Redeem, Ended
  <2>6. [Idle EXCEPT !.pc = pc, !.session = session] \in Login
    BY <2>5 DEF Idle, Login, Ended
  <2>7. login' \in [Logins -> Login]
    BY <2>5, <2>6 DEF End, Goto, TypeOK
  <2>8. QED
    BY <1>5, <2>2, <2>4, <2>5, <2>7 DEF Redeem, End, Goto, Idle, Ended, TypeOK
<1>6. ASSUME NEW l \in Logins, NEW u \in urls, RedirectAccepted(l, u) PROVE TypeOK'
  <2>1. u.login = l /\ u.code \in SignIn
    BY <1>6, LoopbackUrlType DEF RedirectAccepted, Delivered, Accepts, TypeOK
  <2>2. /\ login[l] \in Login
        /\ login[l].pc \in {"listening", "opening", "waiting"} => login[l].port # NoPort
        /\ UNCHANGED <<now, signIns, clients, stores, tickets, urls>>
    BY <1>6 DEF TypeOK, RedirectAccepted, Delivered
  <2>3. CASE /\ login[l].pc \in {"listening", "opening"}
             /\ Goto(l, [login[l] EXCEPT !.code = u.code])
    <3>1. [login[l] EXCEPT !.code = u.code] \in Login
      BY <2>1, <2>2 DEF Login
    <3>2. QED
      BY <2>2, <2>3, <3>1, LoginTypeOK DEF Login
  <2>4. CASE /\ login[l].pc = "waiting"
             /\ Goto(l, [login[l] EXCEPT !.code = u.code, !.pc = "redeem"])
    <3>1. [login[l] EXCEPT !.code = u.code, !.pc = "redeem"] \in Login
      BY <2>1, <2>2 DEF Login
    <3>2. u.code # 0
      BY <1>6 DEF RedirectAccepted, Accepts
    <3>3. QED
      BY <2>2, <2>4, <3>1, <3>2, LoginTypeOK DEF Login
  <2>5. QED
    BY <1>6, <2>3, <2>4 DEF RedirectAccepted
<1>7. ASSUME NEW l \in Logins, NEW u \in urls, RedirectRejected(l, u) PROVE TypeOK'
  BY <1>7, EndTypeOK DEF RedirectRejected, Delivered, Ended
<1>8. ASSUME NEW l \in Logins, NEW p \in Ports, Authorize(l, p) PROVE TypeOK'
  <2>1. signIns + 1 \in SignIn /\ now + TransactionLife \in Nat
    BY <1>8 DEF Authorize, TypeOK, SignIn
  <2>2. CallbackUrl(signIns + 1) \in Url
    BY <2>1 DEF CallbackUrl, Url
  <2>3. transactions' \subseteq Transaction /\ urls' \subseteq Url /\ signIns' \in 0..MaxSignIns
    BY <1>8, <2>1, <2>2 DEF Authorize, TypeOK, Transaction, SignIn
  <2>4. QED
    BY <1>8, <2>3 DEF Authorize, TypeOK
<1>9. ASSUME NEW t \in transactions, Callback(t) PROVE TypeOK'
  <2>1. t \in Transaction
    BY DEF TypeOK
  <2>2. LoopbackUrl(t, 0) \in Url
    BY <2>1 DEF LoopbackUrl, Transaction, Url
  <2>3. /\ transactions' \subseteq Transaction /\ callbacks' \subseteq Transaction
        /\ urls' \subseteq Url
    BY <1>9, <2>1, <2>2 DEF Callback, Consume, Without, TypeOK
  <2>4. QED
    BY <1>9, <2>3 DEF Callback, TypeOK
<1>10. ASSUME NEW t \in callbacks, ExchangeFails(t) PROVE TypeOK'
  BY <1>10 DEF ExchangeFails, Without, TypeOK
<1>11. ASSUME NEW t \in callbacks, NEW life \in IdLives, Exchanged(t, life) PROVE TypeOK'
  <2>1. t \in Transaction
    BY DEF TypeOK
  <2>2. LoopbackUrl(t, t.signIn) \in Url
    BY <2>1 DEF LoopbackUrl, Transaction, Url
  <2>3. now + life \in Nat /\ CodeExpiry(now + life) \in Nat
    BY DEF CodeExpiry, Min2, TypeOK
  <2>4. [signIn |-> t.signIn, login |-> t.login, port |-> t.port,
         idEnds |-> now + life, expires |-> CodeExpiry(now + life)] \in Code
    BY <2>1, <2>3 DEF Transaction, Code
  <2>5. /\ codes' \subseteq Code /\ callbacks' \subseteq Transaction
        /\ urls' \subseteq Url
    BY <1>11, <2>2, <2>4 DEF Exchanged, Without, TypeOK
  <2>6. QED
    BY <1>11, <2>5 DEF Exchanged, TypeOK
<1>12. ASSUME NEW s \in sessions, Expire(s) \/ Revoke(s) PROVE TypeOK'
  BY <1>12 DEF Expire, Revoke, Without, TypeOK
<1>13. ASSUME NEW s \in sessions, LogoutTicket(s) PROVE TypeOK'
  <2>1. s.signIn \in SignIn /\ now + TicketLife \in Nat
    BY DEF TypeOK, GatewaySession
  <2>2. LogoutUrl(s.signIn) \in Url
    BY <2>1 DEF LogoutUrl, Url
  <2>3. /\ sessions' \subseteq GatewaySession /\ tickets' \subseteq Ticket
        /\ urls' \subseteq Url
    BY <1>13, <2>1, <2>2 DEF LogoutTicket, SessionsWithout, Without, TypeOK, Ticket
  <2>4. QED
    BY <1>13, <2>3 DEF LogoutTicket, TypeOK
<1>14. ASSUME NEW k \in tickets, IdpLogout(k) PROVE TypeOK'
  BY <1>14 DEF IdpLogout, Without, TypeOK, stores
<1>15. CASE Restart \/ Tick
  BY <1>15 DEF Restart, Tick, TypeOK, stores
<1>16. QED
  BY <1>1, <1>2, <1>3, <1>4, <1>5, <1>6, <1>7, <1>8, <1>9, <1>10, <1>11, <1>12, <1>13,
     <1>14, <1>15
  DEF Next, LoginStep, Browser, Gateway

-----------------------------------------------------------------------------

\* Sign-ins are numbered from 1, and what a sign-in leaves is its login's.
LEMMA HeldType ==
  ASSUME TypeOK PROVE \A x \in Held : x.signIn \in SignIn /\ x.login \in Logins
BY DEF TypeOK, Held, Transaction, Code, GatewaySession

\* Nothing is held of sign-in 0, so it is everybody's.
LEMMA NothingOfZero == ASSUME TypeOK, NEW l PROVE Owns(l, 0) /\ 0 <= signIns
<1>1. \A x \in Held : x.signIn # 0
  BY HeldType DEF SignIn
<1>2. QED
  BY <1>1 DEF Owns, TypeOK

\* The steps of a login, and of the clock.
LEMMA LoginStepIInv ==
  ASSUME IInv, TypeOK', NEW l \in Logins, NEW state \in Login, Goto(l, state),
         UNCHANGED <<signIns, stores, tickets>>,
         \A u \in urls' : u.to = "loopback" => u \in urls,
         state.code <= signIns, state.session <= signIns,
         Owns(l, state.code), Owns(l, state.session)
  PROVE  IInv'
<1>1. ASSUME NEW k \in Logins
      PROVE  /\ login'[k].code <= signIns /\ login'[k].session <= signIns
             /\ Owns(k, login'[k].code) /\ Owns(k, login'[k].session)
  <2>1. CASE k = l
    BY <2>1 DEF IInv, TypeOK, Goto
  <2>2. CASE k # l
    <3>1. login'[k] = login[k]
      BY <2>2 DEF IInv, TypeOK, Goto
    <3>2. QED
      BY <3>1 DEF IInv, Numbered, Owned
  <2>3. QED
    BY <2>1, <2>2
<1>2. QED
  BY <1>1, LoginOnlyIInv

LEMMA EndIInv ==
  ASSUME IInv, TypeOK', NEW l \in Logins, NEW pc \in Ended,
         NEW session \in {0} \cup SignIn, End(l, pc, session),
         session <= signIns, Owns(l, session),
         UNCHANGED <<signIns, stores, tickets, urls>>
  PROVE  IInv'
<1> DEFINE state == [Idle EXCEPT !.pc = pc, !.session = session]
<1>1. /\ state \in Login /\ state.code = 0 /\ state.session = session
  BY DEF Idle, Login, Ended
<1>2. Goto(l, state)
  BY DEF End
<1>3. Owns(l, 0) /\ 0 <= signIns
  BY NothingOfZero DEF IInv
<1> HIDE DEF state
<1>4. QED
  BY <1>1, <1>2, <1>3, LoginStepIInv

\* Every step of a login, of its browser's redirects and of the clock.
LEMMA LoginsIInv ==
  ASSUME IInv, TypeOK', NEW l \in Logins,
         \/ Register(l) \/ BrowserOpened(l) \/ StepFails(l) \/ TimesOut(l) \/ Killed(l)
         \/ \E p \in Ports : Begin(l, p)
         \/ \E u \in urls : RedirectAccepted(l, u) \/ RedirectRejected(l, u)
  PROVE  IInv'
<1>1. /\ login[l] \in Login /\ Owns(l, login[l].code) /\ Owns(l, login[l].session)
      /\ login[l].code <= signIns /\ login[l].session <= signIns
  BY DEF IInv, TypeOK, Owned, Numbered
<1>2. Owns(l, 0) /\ 0 <= signIns /\ 0 \in {0} \cup SignIn
  BY NothingOfZero DEF IInv
<1>3. login' \in [Logins -> Login] /\ login \in [Logins -> Login]
  BY DEF TypeOK, IInv
<1>4. CASE Register(l)
  <2>1. Goto(l, login'[l]) /\ login'[l] \in Login
    BY <1>3, <1>4 DEF Register, Goto
  <2>2. login'[l].code = login[l].code /\ login'[l].session = login[l].session
    BY <1>1, <1>3, <1>4 DEF Register, Goto, Login
  <2>3. \A u \in urls' : u.to = "loopback" => u \in urls
    BY <1>4 DEF Register, AuthorizeUrl
  <2>4. UNCHANGED <<signIns, stores, tickets>>
    BY <1>4 DEF Register
  <2>5. QED
    BY <1>1, <2>1, <2>2, <2>3, <2>4, LoginStepIInv
<1>5. CASE BrowserOpened(l)
  <2>1. Goto(l, login'[l]) /\ login'[l] \in Login
    BY <1>3, <1>5 DEF BrowserOpened, Goto
  <2>2. login'[l].code = login[l].code /\ login'[l].session = login[l].session
    BY <1>1, <1>3, <1>5 DEF BrowserOpened, Goto, Login
  <2>3. UNCHANGED <<signIns, stores, tickets, urls>>
    BY <1>5 DEF BrowserOpened
  <2>4. QED
    BY <1>1, <2>1, <2>2, <2>3, LoginStepIInv
<1>6. CASE StepFails(l) \/ TimesOut(l) \/ Killed(l)
  <2>1. UNCHANGED <<signIns, stores, tickets, urls>>
    BY <1>6 DEF StepFails, TimesOut, Killed
  <2>2. PICK pc \in Ended : End(l, pc, 0)
    BY <1>6 DEF StepFails, TimesOut, Killed, Ended
  <2>3. QED
    BY <1>2, <2>1, <2>2, EndIInv
<1>7. CASE \E p \in Ports : Begin(l, p)
  <2>1. PICK p \in Ports : Begin(l, p)
    BY <1>7
  <2>2. /\ Goto(l, login'[l]) /\ login'[l] \in Login
        /\ login'[l].code = 0 /\ login'[l].session = 0
    BY <1>3, <2>1 DEF Begin, Goto, Idle
  <2>3. UNCHANGED <<signIns, stores, tickets, urls>>
    BY <2>1 DEF Begin
  <2>4. QED
    BY <1>2, <2>2, <2>3, LoginStepIInv
<1>8. ASSUME NEW u \in urls, RedirectAccepted(l, u) PROVE IInv'
  <2>1. u.to = "loopback" /\ u.login = l /\ u \in Url
    BY <1>8 DEF RedirectAccepted, Delivered, Accepts, IInv, TypeOK
  <2>2. Owns(l, u.code) /\ u.code <= signIns
    BY <2>1 DEF IInv, Owned, Numbered
  <2>3. Goto(l, login'[l]) /\ login'[l] \in Login
    BY <1>3, <1>8 DEF RedirectAccepted, Goto
  <2>4. login'[l].code = u.code /\ login'[l].session = login[l].session
    <3>1. /\ [login[l] EXCEPT !.code = u.code].code = u.code
          /\ [login[l] EXCEPT !.code = u.code].session = login[l].session
          /\ [login[l] EXCEPT !.code = u.code, !.pc = "redeem"].code = u.code
          /\ [login[l] EXCEPT !.code = u.code, !.pc = "redeem"].session
               = login[l].session
      BY <1>1 DEF Login
    <3>2. \/ login'[l] = [login[l] EXCEPT !.code = u.code]
          \/ login'[l] = [login[l] EXCEPT !.code = u.code, !.pc = "redeem"]
      <4>1. \A state : Goto(l, state) => login'[l] = state
        BY <1>3 DEF Goto
      <4>2. QED
        BY <1>8, <4>1 DEF RedirectAccepted
    <3>3. QED
      BY <3>1, <3>2
  <2>5. UNCHANGED <<signIns, stores, tickets, urls>>
    BY <1>8 DEF RedirectAccepted, Delivered
  <2>6. QED
    BY <1>1, <2>2, <2>3, <2>4, <2>5, LoginStepIInv
<1>9. ASSUME NEW u \in urls, RedirectRejected(l, u) PROVE IInv'
  <2>1. UNCHANGED <<signIns, stores, tickets, urls>>
    BY <1>9 DEF RedirectRejected, Delivered
  <2>2. PICK pc \in Ended : End(l, pc, 0)
    BY <1>9 DEF RedirectRejected, Ended
  <2>3. QED
    BY <1>2, <2>1, <2>2, EndIInv
<1>10. QED
  BY <1>4, <1>5, <1>6, <1>7, <1>8, <1>9

\* A new sign-in has a number nobody knows.
LEMMA AuthorizeIInv ==
  ASSUME IInv, TypeOK', NEW l \in Logins, NEW p \in Ports, Authorize(l, p)
  PROVE  IInv'
<1> DEFINE n == signIns + 1
<1> DEFINE new == [signIn |-> n, login |-> l, port |-> p,
                   expires |-> now + TransactionLife]
<1>1. /\ transactions' = transactions \cup {new} /\ signIns' = n
      /\ UNCHANGED <<callbacks, codes, sessions, tickets, login>>
      /\ urls' = urls \cup {CallbackUrl(n)}
  BY DEF Authorize
<1>2. new.signIn = n /\ signIns \in Nat /\ n \in Nat /\ n > signIns
  BY DEF IInv, TypeOK
<1>3. \A x \in Held \cup tickets : x.signIn \in Nat /\ x.signIn <= signIns
  BY HeldType DEF IInv, Numbered, TypeOK, Ticket, SignIn
<1>4. Held' = Held \cup {new}
  BY <1>1 DEF Held
<1> HIDE DEF new, n
<1>5. \A x \in Held \cup tickets : x.signIn # n
  BY <1>2, <1>3
<1>6. SignInOnce'
  <2>1. /\ \A x \in transactions : x.signIn # n
        /\ \A x \in callbacks \cup codes \cup sessions : x.signIn # n
    BY <1>5 DEF Held
  <2>2. QED
    BY <1>1, <1>2, <2>1 DEF IInv, SignInOnce, OneEach, Apart
<1>7. \A k \in Logins : login[k] \in Login
  BY DEF IInv, TypeOK
<1>8. \A u \in urls' : u.to = "loopback" => u \in urls /\ u.code \in Nat
  BY <1>1, LoopbackUrlType DEF CallbackUrl, IInv, TypeOK, SignIn
<1>9. Numbered'
  <2>1. \A x \in Held' \cup tickets' : x.signIn <= signIns'
    BY <1>1, <1>2, <1>3, <1>4
  <2>2. \A u \in urls' : u.to = "loopback" => u.code <= signIns'
    BY <1>1, <1>2, <1>8 DEF IInv, Numbered
  <2>3. \A k \in Logins : login'[k].code <= signIns' /\ login'[k].session <= signIns'
    BY <1>1, <1>2, <1>7 DEF IInv, Numbered, Login, SignIn
  <2>4. QED
    BY <2>1, <2>2, <2>3 DEF Numbered
<1>10. Owned'
  <2>1. ASSUME NEW k, NEW m, m <= signIns, m \in Nat, Owns(k, m)
        PROVE  \A x \in Held' : x.signIn = m => x.login = k
    BY <1>2, <1>4, <2>1 DEF Owns
  <2>2. ASSUME NEW u \in urls', u.to = "loopback"
        PROVE  \A x \in Held' : x.signIn = u.code => x.login = u.login
    BY <1>8, <2>1, <2>2 DEF IInv, Owned, Numbered
  <2>3. ASSUME NEW k \in Logins
        PROVE  /\ \A x \in Held' : x.signIn = login'[k].code => x.login = k
               /\ \A x \in Held' : x.signIn = login'[k].session => x.login = k
    BY <1>1, <1>7, <2>1 DEF IInv, Owned, Numbered, Login, SignIn
  <2>4. QED
    BY <2>2, <2>3 DEF Owned, Owns
<1>11. Over'
  BY <1>1, <1>2, <1>4, <1>5 DEF IInv, Over
<1>12. CodesEnd' /\ BeginsFresh'
  BY <1>1 DEF IInv, CodesEnd, BeginsFresh
<1>13. QED
  BY <1>6, <1>9, <1>10, <1>11, <1>12 DEF IInv

\* Steps after which what is held of a sign-in was held of it before, in another
\* store perhaps: whoever owned a sign-in still does.
LEMMA MoveIInv ==
  ASSUME IInv, TypeOK', UNCHANGED <<signIns, tickets>>,
         \A x \in Held' : \E y \in Held : x.signIn = y.signIn /\ x.login = y.login,
         \A u \in urls' : u.to = "loopback" =>
           u \in urls \/ (u.code <= signIns /\ Owns(u.login, u.code)),
         \A l \in Logins :
           /\ login'[l].code <= signIns /\ login'[l].session <= signIns
           /\ Owns(l, login'[l].code) /\ Owns(l, login'[l].session),
         SignInOnce', CodesEnd', BeginsFresh'
  PROVE  IInv'
<1>1. Numbered' /\ Over'
  BY DEF IInv, Numbered, Over
<1>2. ASSUME NEW k, NEW n, Owns(k, n) PROVE \A x \in Held' : x.signIn = n => x.login = k
  BY <1>2 DEF Owns
<1>3. ASSUME NEW u \in urls', u.to = "loopback"
      PROVE  \A x \in Held' : x.signIn = u.code => x.login = u.login
  <2>1. Owns(u.login, u.code)
    BY <1>3 DEF IInv, Owned
  <2>2. QED
    BY <1>2, <2>1
<1>4. ASSUME NEW k \in Logins
      PROVE  /\ \A x \in Held' : x.signIn = login'[k].code => x.login = k
             /\ \A x \in Held' : x.signIn = login'[k].session => x.login = k
  BY <1>2
<1>5. Owned'
  BY <1>3, <1>4 DEF Owned, Owns
<1>6. QED
  BY <1>1, <1>5 DEF IInv

\* What logins know of their sign-ins.
LEMMA LoginsOwn ==
  ASSUME IInv
  PROVE  \A l \in Logins :
           /\ login[l].code <= signIns /\ login[l].session <= signIns
           /\ Owns(l, login[l].code) /\ Owns(l, login[l].session)
BY DEF IInv, Numbered, Owned

\* The callback takes its transaction out of the map, so a reload finds none.
LEMMA CallbackIInv ==
  ASSUME IInv, TypeOK', NEW t \in transactions, Callback(t) PROVE IInv'
<1>1. /\ transactions' = {x \in transactions : x.signIn # t.signIn}
      /\ callbacks' \subseteq callbacks \cup {t}
      /\ UNCHANGED <<signIns, tickets, codes, sessions, login>>
  BY DEF Callback, Consume, Without
<1>2. \A x \in Held' : x \in Held
  BY <1>1 DEF Held
<1>3. SignInOnce' /\ CodesEnd' /\ BeginsFresh'
  BY <1>1 DEF IInv, SignInOnce, OneEach, Apart, CodesEnd, BeginsFresh
<1>4. ASSUME NEW u \in urls', u.to = "loopback", u \notin urls
      PROVE  u.code <= signIns /\ Owns(u.login, u.code)
  <2>1. u.code = 0
    BY <1>4 DEF Callback, LoopbackUrl
  <2>2. QED
    BY <2>1, NothingOfZero DEF IInv
<1>5. QED
  BY <1>1, <1>2, <1>3, <1>4, LoginsOwn, MoveIInv

\* The code of a sign-in replaces its callback and goes to the login's own server.
LEMMA ExchangedIInv ==
  ASSUME IInv, TypeOK', NEW t \in callbacks, NEW life \in IdLives, Exchanged(t, life)
  PROVE  IInv'
<1> DEFINE idEnds == now + life
<1> DEFINE c == [signIn |-> t.signIn, login |-> t.login, port |-> t.port,
                 idEnds |-> idEnds, expires |-> CodeExpiry(idEnds)]
<1>1. /\ callbacks' = {x \in callbacks : x.signIn # t.signIn}
      /\ codes' = codes \cup {c} /\ urls' = urls \cup {LoopbackUrl(t, t.signIn)}
      /\ UNCHANGED <<signIns, tickets, transactions, sessions, login>>
  BY DEF Exchanged, Without
<1>2. c.signIn = t.signIn /\ c.login = t.login /\ c.expires <= c.idEnds
  <2>1. now \in Nat /\ life \in Nat
    BY GatewayLoginAssumption DEF IInv, TypeOK
  <2>2. QED
    BY <2>1, GatewayLoginAssumption DEF CodeExpiry, Min2
<1> HIDE DEF c
<1>3. \A x \in Held' : \E y \in Held : x.signIn = y.signIn /\ x.login = y.login
  BY <1>1, <1>2 DEF Held
<1>4. SignInOnce'
  BY <1>1, <1>2 DEF IInv, SignInOnce, OneEach, Apart
<1>5. CodesEnd' /\ BeginsFresh'
  BY <1>1, <1>2 DEF IInv, CodesEnd, BeginsFresh
<1>6. Owns(t.login, t.signIn) /\ t.signIn <= signIns
  BY DEF IInv, SignInOnce, OneEach, Apart, Numbered, Owns, Held
<1>7. \A u \in urls' : u.to = "loopback" =>
        u \in urls \/ (u.code <= signIns /\ Owns(u.login, u.code))
  BY <1>1, <1>6 DEF LoopbackUrl
<1>8. QED
  BY <1>1, <1>3, <1>4, <1>5, <1>7, LoginsOwn, MoveIInv

\* A session replaces its code, while the ID token of both is good.
LEMMA RedeemIInv ==
  ASSUME IInv, TypeOK', NEW l \in Logins, Redeem(l) PROVE IInv'
<1> DEFINE n == login[l].code
<1> DEFINE new == {[signIn |-> c.signIn, login |-> l, begins |-> now,
                    idEnds |-> c.idEnds, expires |-> now + SessionLife]
                   : c \in Redeemable(l)}
<1>1. /\ codes' = {x \in codes : x.signIn # n} /\ sessions' = sessions \cup new
      /\ UNCHANGED <<signIns, tickets, transactions, callbacks, urls>>
  BY DEF Redeem, Consume, Without
<1>2. \A c \in Redeemable(l) :
        c \in codes /\ c.signIn = n /\ c.login = l /\ now < c.idEnds
  BY DEF Redeemable, IInv, CodesEnd, TypeOK, Code
<1>3. \A s \in new : /\ s.signIn = n /\ s.login = l /\ s.begins < s.idEnds
                     /\ \E c \in codes : c.signIn = n /\ c.login = l
  BY <1>2
<1>4. \A x, y \in new : x = y
  <2>1. \A c, d \in Redeemable(l) : c = d
    BY <1>2 DEF IInv, SignInOnce, OneEach
  <2>2. QED
    BY <2>1
<1> HIDE DEF n, new
<1>5. \A x \in Held' : \E y \in Held : x.signIn = y.signIn /\ x.login = y.login
  BY <1>1, <1>3 DEF Held
<1>6. SignInOnce'
  BY <1>1, <1>3, <1>4 DEF IInv, SignInOnce, OneEach, Apart
<1>7. CodesEnd' /\ BeginsFresh'
  BY <1>1, <1>3 DEF IInv, CodesEnd, BeginsFresh
<1>8. ASSUME NEW k \in Logins
      PROVE  /\ login'[k].code <= signIns /\ login'[k].session <= signIns
             /\ Owns(k, login'[k].code) /\ Owns(k, login'[k].session)
  <2>1. CASE k = l
    <3>1. /\ login'[l].code = 0
          /\ login'[l].session = 0 \/ login'[l].session = login[l].code
      BY DEF Redeem, End, Goto, Idle, IInv, TypeOK
    <3>2. QED
      BY <2>1, <3>1, NothingOfZero, LoginsOwn DEF IInv
  <2>2. CASE k # l
    <3>1. login'[k] = login[k]
      BY <2>2 DEF Redeem, End, Goto, IInv, TypeOK
    <3>2. QED
      BY <3>1, LoginsOwn
  <2>3. QED
    BY <2>1, <2>2
<1>9. QED
  BY <1>1, <1>5, <1>6, <1>7, <1>8, MoveIInv

\* The ticket replaces the session.
LEMMA LogoutTicketIInv ==
  ASSUME IInv, TypeOK', NEW s \in sessions, LogoutTicket(s) PROVE IInv'
<1>1. /\ sessions' = {x \in sessions : x.signIn # s.signIn}
      /\ UNCHANGED <<signIns, transactions, callbacks, codes, login>>
      /\ \A k \in tickets' : k \in tickets \/ k.signIn = s.signIn
      /\ \A u \in urls' : u.to = "loopback" => u \in urls
  BY DEF LogoutTicket, SessionsWithout, Without, LogoutUrl
<1>2. Held' \subseteq Held /\ s \in Held
  BY <1>1 DEF Held
<1>3. SignInOnce' /\ CodesEnd' /\ BeginsFresh'
  BY <1>1 DEF IInv, SignInOnce, OneEach, Apart, CodesEnd, BeginsFresh
<1>4. Numbered'
  BY <1>1, <1>2 DEF IInv, Numbered
<1>5. \A x \in Held' : x.signIn # s.signIn
  BY <1>1 DEF Held, IInv, SignInOnce, Apart
<1>6. Over'
  BY <1>1, <1>2, <1>5 DEF IInv, Over
<1>7. Owned'
  BY <1>1, <1>2 DEF IInv, Owned, Owns
<1>8. QED
  BY <1>3, <1>4, <1>6, <1>7 DEF IInv

-----------------------------------------------------------------------------

LEMMA NextIInv == IInv /\ [Next]_vars => IInv'
<1> SUFFICES ASSUME IInv, [Next]_vars PROVE IInv'
  OBVIOUS
<1>1. CASE UNCHANGED vars
  <2>1. TypeOK'
    BY <1>1 DEF vars, stores, IInv, TypeOK
  <2>2. /\ UNCHANGED <<signIns, stores, tickets, login>>
        /\ \A u \in urls' : u.to = "loopback" => u \in urls
    BY <1>1 DEF vars
  <2>3. QED
    BY <2>1, <2>2, LoginsOwn, LoginOnlyIInv
<1>2. CASE Next
  <2>0. TypeOK'
    BY <1>2, NextTypeOK DEF IInv
  <2>1. ASSUME NEW l \in Logins, LoginStep(l) \/ Killed(l) \/ \E p \in Ports : Begin(l, p)
        PROVE  IInv'
    BY <2>0, <2>1, LoginsIInv, RedeemIInv DEF LoginStep
  <2>2. ASSUME NEW l \in Logins, NEW u \in urls,
               RedirectAccepted(l, u) \/ RedirectRejected(l, u)
        PROVE  IInv'
    BY <2>0, <2>2, LoginsIInv
  <2>3. ASSUME NEW l \in Logins, NEW p \in Ports, Authorize(l, p) PROVE IInv'
    BY <2>0, <2>3, AuthorizeIInv
  <2>4. ASSUME NEW t \in transactions, Callback(t) PROVE IInv'
    BY <2>0, <2>4, CallbackIInv
  <2>5. ASSUME NEW t \in callbacks, NEW life \in IdLives, Exchanged(t, life) PROVE IInv'
    BY <2>0, <2>5, ExchangedIInv
  <2>6. ASSUME NEW s \in sessions, LogoutTicket(s) PROVE IInv'
    BY <2>0, <2>6, LogoutTicketIInv
  <2>7. ASSUME NEW t \in callbacks, ExchangeFails(t) PROVE IInv'
    BY <2>0, <2>7, ForgetIInv DEF ExchangeFails, Without
  <2>8. ASSUME NEW s \in sessions, Expire(s) \/ Revoke(s) PROVE IInv'
    BY <2>0, <2>8, ForgetIInv DEF Expire, Revoke, Without
  <2>9. ASSUME NEW k \in tickets, IdpLogout(k) PROVE IInv'
    BY <2>0, <2>9, ForgetIInv DEF IdpLogout, Without, stores
  <2>10. CASE Restart
    BY <2>0, <2>10, ForgetIInv DEF Restart
  <2>11. CASE Tick
    BY <2>0, <2>11, ForgetIInv DEF Tick, stores
  <2>12. QED
    BY <1>2, <2>1, <2>2, <2>3, <2>4, <2>5, <2>6, <2>7, <2>8, <2>9, <2>10, <2>11
    DEF Next, Browser, Gateway
<1>3. QED
  BY <1>1, <1>2

\* The invariant holds in every reachable state.
THEOREM Inductive == Spec => []IInv
BY InitIInv, NextIInv, PTL DEF Spec

\* Types, and how a login's control state goes with its port and its code.
THEOREM TypeCorrect == Spec => []TypeOK
<1>1. IInv => TypeOK
  BY DEF IInv
<1>2. QED
  BY <1>1, Inductive, PTL

\* A sign-in is in one store at a time, once (SignInOnce): reloads of
\* /oauth/callback and replayed codes yield no second code or session.
THEOREM SignInsUsedOnce == Spec => []SignInOnce
<1>1. IInv => SignInOnce
  BY DEF IInv
<1>2. QED
  BY <1>1, Inductive, PTL

\* Logins get codes and sessions of their own sign-ins only (OwnSignIn), whatever
\* redirect reaches their loopback port.
THEOREM SignInsAreOwn == Spec => []OwnSignIn
<1>1. IInv => OwnSignIn
  BY DEF IInv, Owned, Owns, Held, OwnSignIn
<1>2. QED
  BY <1>1, Inductive, PTL

\* Sessions begin before their ID token ends (BeginsFresh), so that
\* sessionStore.create never throws.
THEOREM SessionsBeginFresh == Spec => []BeginsFresh
<1>1. IInv => BeginsFresh
  BY DEF IInv
<1>2. QED
  BY <1>1, Inductive, PTL

\* A session with a logout ticket is gone (TicketEndsSession).
THEOREM TicketsEndSessions == Spec => []TicketEndsSession
<1>1. IInv => TicketEndsSession
  BY DEF IInv, Over, Held, TicketEndsSession
<1>2. QED
  BY <1>1, Inductive, PTL

=============================================================================
