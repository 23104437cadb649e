---------------------------- MODULE AthenzTokens ----------------------------
(***************************************************************************)
(* How the MCP Gateway answers requests to /mcp/{id} with Athenz access    *)
(* tokens (components/mcp-gateway/src/routes/protected.ts and              *)
(* src/services/athenz.ts).                                                *)
(*                                                                         *)
(* A request needs a Gateway session, waits for the route, and then asks   *)
(* the token manager for a token: from the session's access-token cache,   *)
(* from an issuance another request has in flight, or from ZTS with a      *)
(* cached or a new ID-JAG.  The process is a single event loop: a step is  *)
(* the code between two awaits of the network, and settling a promise      *)
(* answers every request that waits for it.                                *)
(*                                                                         *)
(* ZTS may grant any part of what is asked for, with any of the lifetimes  *)
(* Lives; it decodes to claims, which is all the Gateway looks at.  Users  *)
(* have signed in at time 0.                                               *)
(***************************************************************************)
EXTENDS Scopes

CONSTANTS
  Sessions,       \* Gateway sessions, each of its own user
  Requests,       \* requests the Gateway serves at the same time
  None,
  Routes,         \* what the registry says of each server
  Public, Plain,  \* a public discovery method; another one that is no tool call
  Tools,          \* tools that tools/call may name
  Skew,           \* TOKEN_EXPIRY_SKEW_MS
  Lives,          \* lifetimes ZTS gives to tokens
  IdTokenEnd,     \* when the sessions' ID tokens expire
  SessionEnd,     \* when the sessions expire
  MaxTime         \* model bound: the clock stops here

\* A route: the audience and scopes of every request, and the scopes of the
\* tools the Hub mapped ("open": an unmapped tool needs no more than that).
Scope == {s \in Range(Order) : s.domain # NoDomain}
Audience == {s.domain : s \in Scope}

ASSUME AthenzTokensAssumption ==
  /\ Skew \in Nat /\ Lives \subseteq Nat \ {0}
  /\ IdTokenEnd \in Nat /\ SessionEnd \in Nat /\ MaxTime \in Nat
  /\ None \notin Sessions \cup Requests
  /\ \A route \in Routes :
       /\ route.audience \in Audience
       /\ route.accessScope \in SUBSET Scope \ {{}}
       /\ DOMAIN route.toolScopes \subseteq Tools
       /\ \A t \in DOMAIN route.toolScopes :
            route.toolScopes[t] \in SUBSET Scope \ {{}}
       /\ route.open \in BOOLEAN

VARIABLES
  now,
  alive,    \* sessions in the session store
  tokens,   \* cachedTokens: access tokens of each session
  idJags,   \* cachedIdJags: ID-JAGs of each session
  req,      \* the requests: control state and locals
  answered  \* what the last step answered to each request, None for most

vars == <<now, alive, tokens, idJags, req, answered>>

\* Tokens and ID-JAGs are grants: an audience, scopes as ZTS wrote them, when
\* they expire, and the session they were issued from (subject).
\* A request is "idle", at its "route", waits for an "idJag" or an "access"
\* token, or has "joined" another; want is selectedAudience and requestedScopes,
\* idJag the assertion in hand, owner whose issuance it waits for.  An answer
\* has a kind, the session and want of its request and the token.
Idle == [pc |-> "idle", session |-> None, want |-> None, idJag |-> None,
         owner |-> None]

Nobody == [r \in Requests |-> None]

Init ==
  /\ now = 0 /\ alive = Sessions
  /\ tokens = [s \in Sessions |-> {}] /\ idJags = [s \in Sessions |-> {}]
  /\ req = [r \in Requests |-> Idle]
  /\ answered = Nobody

\* An issuance in flight, and the requests that joined it.
InFlight(r) == req[r].pc \in {"idJag", "access"}

Waiting(r) == {q \in Requests : req[q].pc = "joined" /\ req[q].owner = r}

\* Neither expired nor about to expire; and the entries of a cache that are.
Usable(t) == t.expires > now + Skew
Fresh(cache) == {t \in cache : Usable(t)}

\* cache.set under the key of audiences and scopes.
Put(cache, t) ==
  {u \in cache : <<u.audience, u.scopes>> # <<t.audience, t.scopes>>} \cup {t}

\* The expiry tokenGrant gives a token: its own, but not past the session's.
ExpiryOf(life) == IF now + life < SessionEnd THEN now + life ELSE SessionEnd

\* The request goes on, and nobody is answered; the requests R are answered
\* and end; one request is, which asked for want.
Goto(r, state) ==
  /\ req' = [req EXCEPT ![r] = state]
  /\ answered' = Nobody
Finish(R, kind, token) ==
  /\ req' = [r \in Requests |-> IF r \in R THEN Idle ELSE req[r]]
  /\ answered' =
       [r \in Requests |->
          IF r \in R THEN [kind |-> kind, session |-> req[r].session,
                          want |-> req[r].want, token |-> token]
          ELSE None]
FinishOne(r, want, kind, token) ==
  /\ req' = [req EXCEPT ![r] = Idle]
  /\ answered' = [Nobody EXCEPT ![r] =
       [kind |-> kind, session |-> req[r].session, want |-> want, token |-> token]]

-----------------------------------------------------------------------------
(* The route handler *)

\* requireSession; an expired session is deleted when it is looked up.
Enter(r, s) ==
  /\ req[r].pc = "idle"
  /\ IF s \in alive /\ now < SessionEnd
     THEN Goto(r, [Idle EXCEPT !.pc = "route", !.session = s]) /\ UNCHANGED alive
     ELSE /\ answered' = [Nobody EXCEPT ![r] = [kind |-> "unauthorized", session |-> s,
                                              want |-> None, token |-> None]]
          /\ alive' = IF now < SessionEnd THEN alive ELSE alive \ {s}
          /\ UNCHANGED req
  /\ UNCHANGED <<now, tokens, idJags>>

\* resolveRoute fails: no such server, or no answer from the registry.
RouteFails(r) ==
  /\ req[r].pc = "route"
  /\ Finish({r}, "error", None)
  /\ UNCHANGED <<now, alive, tokens, idJags>>

\* accessScopeForRequest; {} if the tool has no scope and the route is closed.
AccessScopeFor(route, asked) ==
  IF asked \notin Tools THEN route.accessScope
  ELSE IF asked \in DOMAIN route.toolScopes THEN route.toolScopes[asked]
  ELSE IF route.open THEN route.accessScope
  ELSE {}

\* accessTokenAudience: one of the scopes is of the audience's domain.
AudienceFits(route, asked) ==
  \E s \in AccessScopeFor(route, asked) : s.domain = route.audience

\* Requests for which no token is asked: public discovery is forwarded without
\* one, an unmapped tool of a closed route is refused, scopes of other domains
\* than the audience are an error.
AnswerWithoutToken(r, route, asked) ==
  LET scope == AccessScopeFor(route, asked) IN
  /\ req[r].pc = "route"
  /\ \/ asked = Public /\ Finish({r}, "public", None)
     \/ asked # Public /\ scope = {} /\ Finish({r}, "notConfigured", None)
     \/ asked # Public /\ scope # {} /\ ~AudienceFits(route, asked)
        /\ Finish({r}, "error", None)
  /\ UNCHANGED <<now, alive, tokens, idJags>>

-----------------------------------------------------------------------------
(* getAccessToken, up to its first await *)

\* Mutant of Found: the skew is forgotten.
FoundStale(s, want) ==
  {t \in tokens[s] :
     t.audience = want.audience /\ ScopesExactlyMatch(t.scopes, want.scopes)}

\* findAccessToken: the entries that answer a want.
Found(s, want) ==
  {t \in Fresh(tokens[s]) :
     t.audience = want.audience /\ ScopesExactlyMatch(t.scopes, want.scopes)}

\* findIdJag: the covering ID-JAGs with the fewest scopes.
Covering(s, want) ==
  LET covers == {j \in Fresh(idJags[s]) : ScopesCover(j.scopes, want.scopes)}
  IN  {j \in covers : \A k \in covers : Cardinality(j.scopes) <= Cardinality(k.scopes)}

\* Mutant of Pending: in-flight issuances are not kept per session.
PendingAnySession(s, want) ==
  {q \in Requests : InFlight(q) /\ req[q].want = want}

\* Mutant of Pending: concurrent requests do not look for one another.
PendingNever(s, want) == {}

\* The issuances in flight for the same session, audience and scopes.
Pending(s, want) ==
  {q \in Requests : InFlight(q) /\ req[q].session = s /\ req[q].want = want}

\* What the request with this route and method asks the token manager for.
WantOf(route, asked) ==
  [audience |-> route.audience, scopes |-> AccessScopeFor(route, asked)]

NeedsToken(r, route, asked) ==
  /\ req[r].pc = "route" /\ asked # Public
  /\ AudienceFits(route, asked)

\* The scan for a token drops the expired entries it meets.
Scan(s) == tokens' = [tokens EXCEPT ![s] = Fresh(@)]

CacheHit(r, route, asked) ==
  LET s == req[r].session
      want == WantOf(route, asked)
  IN  /\ NeedsToken(r, route, asked)
      /\ \E t \in Found(s, want) : FinishOne(r, want, "token", t)
      /\ Scan(s)
      /\ UNCHANGED <<now, alive, idJags>>

Join(r, route, asked) ==
  LET s == req[r].session
      want == WantOf(route, asked)
  IN  /\ NeedsToken(r, route, asked) /\ Found(s, want) = {}
      /\ \E q \in Pending(s, want) :
           Goto(r, [req[r] EXCEPT !.pc = "joined", !.want = want, !.owner = q])
      /\ Scan(s)
      /\ UNCHANGED <<now, alive, idJags>>

\* issueAccessToken starts: with a cached ID-JAG, with the ID token, or not at
\* all because the ID token is too old (the handler then ends the session).
Issue(r, route, asked) ==
  LET s == req[r].session
      want == WantOf(route, asked)
  IN  /\ NeedsToken(r, route, asked)
      /\ Found(s, want) = {} /\ Pending(s, want) = {}
      /\ \/ /\ \E j \in Covering(s, want) :
                 Goto(r, [req[r] EXCEPT !.pc = "access", !.want = want, !.idJag = j])
            /\ UNCHANGED alive
         \/ /\ Covering(s, want) = {} /\ IdTokenEnd > now + Skew
            /\ Goto(r, [req[r] EXCEPT !.pc = "idJag", !.want = want])
            /\ UNCHANGED alive
         \/ /\ Covering(s, want) = {} /\ IdTokenEnd <= now + Skew
            /\ FinishOne(r, want, "reauth", None)
            /\ alive' = alive \ {s}
      /\ Scan(s)
      /\ idJags' = [idJags EXCEPT ![s] = Fresh(@)]
      /\ UNCHANGED now

-----------------------------------------------------------------------------
(* Answers of ZTS *)

\* issueIdJag: an ID-JAG for some of the scopes, cached under what it grants.
\* One that does not cover the request ends it, one that does goes on to the
\* access token.  One about to expire is an error and not cached.
IdJagGranted(r, scopes, life) ==
  LET j == [audience |-> None, scopes |-> scopes, expires |-> ExpiryOf(life),
            subject |-> req[r].session]
  IN  /\ req[r].pc = "idJag" /\ scopes \subseteq req[r].want.scopes
      /\ IF ~Usable(j)
         THEN Finish({r} \cup Waiting(r), "error", None) /\ UNCHANGED idJags
         ELSE /\ idJags' = [idJags EXCEPT ![req[r].session] = Put(@, j)]
              /\ IF ScopesCover(scopes, req[r].want.scopes)
                 THEN Goto(r, [req[r] EXCEPT !.pc = "access", !.idJag = j])
                 ELSE Finish({r} \cup Waiting(r), "insufficient", j)
      /\ UNCHANGED <<now, alive, tokens>>

\* ZTS finds the ID token expired or invalid: every request that waits for this
\* issuance is told to sign in again, and the session ends.
IdTokenRejected(r) ==
  /\ req[r].pc = "idJag"
  /\ Finish({r} \cup Waiting(r), "reauth", None)
  /\ alive' = alive \ {req[r].session}
  /\ UNCHANGED <<now, tokens, idJags>>

\* issueAccessToken: a token for some of the scopes, cached under what it
\* grants.  Only one for exactly the requested scopes is handed out.
AccessGranted(r, scopes, life) ==
  LET want == req[r].want
      t == [audience |-> want.audience,
            scopes |-> Shortened(want.audience, scopes),
            expires |-> ExpiryOf(life), subject |-> req[r].idJag.subject]
  IN  /\ req[r].pc = "access"
      /\ scopes \subseteq want.scopes \cap req[r].idJag.scopes
      /\ IF ~Usable(t)
         THEN Finish({r} \cup Waiting(r), "error", None) /\ UNCHANGED tokens
         ELSE /\ tokens' = [tokens EXCEPT ![req[r].session] = Put(@, t)]
              /\ Finish({r} \cup Waiting(r),
                        IF ScopesExactlyMatch(t.scopes, want.scopes)
                        THEN "token" ELSE "insufficient",
                        t)
      /\ UNCHANGED <<now, alive, idJags>>

\* ZTS refuses, answers nonsense, or does not answer in time.
ZtsFails(r) ==
  /\ InFlight(r)
  /\ Finish({r} \cup Waiting(r), "error", None)
  /\ UNCHANGED <<now, alive, tokens, idJags>>

-----------------------------------------------------------------------------
(* Environment *)

\* /oauth/revoke or /oauth/idp-logout-ticket.
EndSession(s) ==
  /\ s \in alive
  /\ alive' = alive \ {s}
  /\ answered' = Nobody
  /\ UNCHANGED <<now, tokens, idJags, req>>

Tick ==
  /\ now < MaxTime
  /\ now' = now + 1
  /\ answered' = Nobody
  /\ UNCHANGED <<alive, tokens, idJags, req>>

Resolved(r) ==
  \/ RouteFails(r)
  \/ \E route \in Routes, asked \in {Public, Plain} \cup Tools :
       \/ AnswerWithoutToken(r, route, asked) \/ CacheHit(r, route, asked)
       \/ Join(r, route, asked) \/ Issue(r, route, asked)

ZtsAnswers(r) ==
  \/ ZtsFails(r) \/ IdTokenRejected(r)
  \/ \E scopes \in SUBSET Scope \ {{}}, life \in Lives :
       IdJagGranted(r, scopes, life) \/ AccessGranted(r, scopes, life)

Next ==
  \/ \E r \in Requests :
       (\E s \in Sessions : Enter(r, s)) \/ Resolved(r) \/ ZtsAnswers(r)
  \/ \E s \in Sessions : EndSession(s)
  \/ Tick

Spec == Init /\ [][Next]_vars

-----------------------------------------------------------------------------
(* Properties *)

\* A request is answered with a token of its own user that grants, at the
\* requested audience, exactly the scopes of the tool it calls: not those of
\* another request, tool, audience or session with which it shared a cache, an
\* ID-JAG or an issuance ("each tools/call obtains only the scopes mapped to
\* params.name").
RightToken ==
  \A r \in Requests : answered[r] # None /\ answered[r].kind = "token" =>
    LET t == answered[r].token
    IN  /\ t.subject = answered[r].session
        /\ t.audience = answered[r].want.audience
        /\ Denoted(t.audience, t.scopes) = answered[r].want.scopes

\* A request is answered with a token that is good for longer than the skew,
\* and never for longer than the session it was issued from.
AnswersUsable ==
  \A r \in Requests : answered[r] # None /\ answered[r].kind = "token" =>
    Usable(answered[r].token) /\ answered[r].token.expires <= SessionEnd

\* Concurrent requests for the same scopes cost one issuance, and whoever joined
\* waits for one of its own session and scopes that is still in flight: the
\* entry goes with its issuance, granted or failed, and nobody is left behind.
OneIssuance ==
  /\ \A r, q \in Requests :
       /\ InFlight(r) /\ InFlight(q)
       /\ req[r].session = req[q].session /\ req[r].want = req[q].want
       => r = q
  /\ \A r \in Requests : req[r].pc = "joined" =>
       req[r].owner \in Pending(req[r].session, req[r].want)

=============================================================================
