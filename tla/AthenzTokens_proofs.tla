------------------------- MODULE AthenzTokens_proofs -------------------------
(***************************************************************************)
(* Proofs about AthenzTokens, for any number of sessions, requests, routes *)
(* and tools: concurrent requests share one issuance and are not left      *)
(* behind; a token is handed out to its own session only, for the audience *)
(* and the scopes it was compared with, and while it is good; and if no    *)
(* other domain has a role of the name of one of the audience's, it grants *)
(* exactly those scopes.                                                   *)
(***************************************************************************)
EXTENDS AthenzTokens, FiniteSetTheorems, TLAPS

RequestShape ==
  /\ DOMAIN req = Requests
  /\ \A r \in Requests :
       /\ DOMAIN req[r] = DOMAIN Idle
       /\ req[r].pc # "idle" => req[r].session \in Sessions

CacheShape == DOMAIN tokens = Sessions /\ DOMAIN idJags = Sessions /\ now \in Nat

Shape == RequestShape /\ CacheShape

\* Every cached grant was issued from the session it is cached for, and so was
\* the assertion in the hand of a request.
CachesOwn ==
  \A s \in Sessions :
    /\ \A t \in tokens[s] : t.subject = s /\ t.expires <= SessionEnd
    /\ \A j \in idJags[s] : j.subject = s

HandOwn ==
  \A r \in Requests : req[r].pc = "access" => req[r].idJag.subject = req[r].session

Own == CachesOwn /\ HandOwn

\* An answer with a token: whose, for what, and for how long.
RightAnswer(answer) ==
  answer # None /\ answer.kind = "token" =>
    /\ answer.token.subject = answer.session
    /\ answer.token.audience = answer.want.audience
    /\ ScopesExactlyMatch(answer.token.scopes, answer.want.scopes)
    /\ Usable(answer.token) /\ answer.token.expires <= SessionEnd

RightAnswers == \A r \in Requests : RightAnswer(answered[r])

IInv == Shape /\ Own /\ OneIssuance /\ RightAnswers

LEMMA Fields == DOMAIN Idle = {"pc", "session", "want", "idJag", "owner"}
BY DEF Idle

LEMMA InitIInv == Init => IInv
<1> SUFFICES ASSUME Init PROVE IInv
  OBVIOUS
<1>1. Shape /\ Own
  BY DEF Init, Shape, RequestShape, CacheShape, Own, CachesOwn, HandOwn, Idle
<1>2. OneIssuance
  BY DEF Init, OneIssuance, InFlight, Idle
<1>3. RightAnswers
  BY DEF Init, RightAnswers, RightAnswer, Nobody
<1>4. QED
  BY <1>1, <1>2, <1>3 DEF IInv

-----------------------------------------------------------------------------
(* What the steps of a request do to the issuances *)

\* Requests go on or end that have no issuance, or whose followers end with them.
LEMMA LeavingKeeps ==
  ASSUME Shape, OneIssuance, NEW R \in SUBSET Requests,
         \A r \in Requests \ R : req'[r] = req[r],
         \A r \in R : req'[r].pc \in {"idle", "route"},
         \A r \in R : InFlight(r) => Waiting(r) \subseteq R
  PROVE  OneIssuance'
<1>1. \A r \in Requests : InFlight(r)' => r \notin R /\ InFlight(r) /\ req'[r] = req[r]
  BY DEF InFlight
<1>2. ASSUME NEW r \in Requests, req'[r].pc = "joined"
      PROVE  req'[r].owner \in Pending(req[r].session, req[r].want)'
  <2>1. r \notin R /\ req'[r] = req[r]
    BY <1>2
  <2>2. /\ req[r].owner \in Requests /\ InFlight(req[r].owner)
        /\ req[req[r].owner].session = req[r].session
        /\ req[req[r].owner].want = req[r].want
    BY <1>2, <2>1 DEF OneIssuance, Pending
  <2>3. req[r].owner \notin R
    BY <1>2, <2>1, <2>2 DEF Waiting
  <2>4. req'[req[r].owner] = req[req[r].owner]
    BY <2>2, <2>3
  <2>5. QED
    BY <2>1, <2>2, <2>4 DEF Pending, InFlight
<1>3. QED
  BY <1>1, <1>2 DEF OneIssuance, Pending

\* A request begins an issuance that no other has in flight, or takes its own on.
LEMMA FlyingKeeps ==
  ASSUME Shape, OneIssuance, NEW r \in Requests, NEW want,
         \A q \in Requests \ {r} : req'[q] = req[q],
         InFlight(r)', req'[r].session = req[r].session, req'[r].want = want,
         \/ req[r].pc = "route" /\ Pending(req[r].session, want) = {}
         \/ InFlight(r) /\ req[r].want = want
  PROVE  OneIssuance'
<1>1. \A q \in Requests : InFlight(q)' => q = r \/ (InFlight(q) /\ req'[q] = req[q])
  BY DEF InFlight
<1>2. ASSUME NEW q \in Requests, q # r, InFlight(q),
             req[q].session = req[r].session, req[q].want = want
      PROVE  FALSE
  BY <1>2 DEF OneIssuance, Pending
<1>3. ASSUME NEW q \in Requests, req'[q].pc = "joined"
      PROVE  req'[q].owner \in Pending(req[q].session, req[q].want)'
  <2>1. q # r /\ req'[q] = req[q]
    BY <1>3 DEF InFlight
  <2>2. req[q].owner \in Pending(req[q].session, req[q].want)
    BY <1>3, <2>1 DEF OneIssuance
  <2>3. CASE req[q].owner = r
    BY <2>1, <2>2, <2>3 DEF Pending, InFlight
  <2>4. CASE req[q].owner # r
    BY <2>1, <2>2, <2>4 DEF Pending, InFlight
  <2>5. QED
    BY <2>3, <2>4
<1>4. QED
  BY <1>1, <1>2, <1>3 DEF OneIssuance, Pending

\* A request joins an issuance for its own session and want.
LEMMA JoiningKeeps ==
  ASSUME Shape, OneIssuance, NEW r \in Requests, NEW want, req[r].pc = "route",
         \A q \in Requests \ {r} : req'[q] = req[q],
         req'[r].pc = "joined", req'[r].session = req[r].session, req'[r].want = want,
         req'[r].owner \in Pending(req[r].session, want)
  PROVE  OneIssuance'
<1>1. \A q \in Requests : InFlight(q) => q # r /\ req'[q] = req[q] /\ InFlight(q)'
  BY DEF InFlight
<1>2. \A q \in Requests : InFlight(q)' => InFlight(q) /\ req'[q] = req[q]
  BY DEF InFlight
<1>3. ASSUME NEW q \in Requests, req'[q].pc = "joined"
      PROVE  req'[q].owner \in Pending(req[q].session, req[q].want)'
  <2>1. req'[q].owner \in Pending(req'[q].session, req'[q].want)
    <3>1. CASE q = r
      BY <3>1
    <3>2. CASE q # r
      BY <1>3, <3>2 DEF OneIssuance
    <3>3. QED
      BY <3>1, <3>2
  <2>2. QED
    BY <1>1, <2>1 DEF Pending
<1>4. QED
  BY <1>2, <1>3 DEF OneIssuance

\* A request that waits for r asked the same of the same session.
LEMMA WaitingAlike ==
  ASSUME OneIssuance, NEW r \in Requests, NEW q \in Waiting(r)
  PROVE  /\ q \in Requests
         /\ req[q].session = req[r].session /\ req[q].want = req[r].want
BY DEF OneIssuance, Waiting, Pending

-----------------------------------------------------------------------------
(* The steps *)

\* The time until which ZTS's tokens are honoured is at most the session's.
LEMMA ExpiryBounded ==
  ASSUME now \in Nat, NEW life \in Lives
  PROVE  ExpiryOf(life) <= SessionEnd
<1>1. life \in Nat /\ SessionEnd \in Nat
  BY AthenzTokensAssumption
<1>2. QED
  BY <1>1 DEF ExpiryOf

\* The effect of the operators that move or answer requests.
LEMMA GotoEffect ==
  ASSUME Shape, NEW r \in Requests, NEW state, Goto(r, state)
  PROVE  /\ req'[r] = state /\ DOMAIN req' = Requests
         /\ \A q \in Requests \ {r} : req'[q] = req[q]
         /\ RightAnswers'
BY DEF Goto, Shape, RequestShape, RightAnswers, RightAnswer, Nobody

LEMMA FinishEffect ==
  ASSUME Shape, NEW R \in SUBSET Requests, NEW kind, NEW token, Finish(R, kind, token)
  PROVE  /\ \A q \in R : req'[q] = Idle
         /\ \A q \in Requests \ R : req'[q] = req[q] /\ answered'[q] = None
         /\ DOMAIN req' = Requests
         /\ \A q \in R : answered'[q] =
              [kind |-> kind, session |-> req[q].session, want |-> req[q].want,
               token |-> token]
         /\ kind # "token" => RightAnswers'
BY DEF Finish, RightAnswers, RightAnswer

LEMMA FinishOneEffect ==
  ASSUME Shape, NEW r \in Requests, NEW want, NEW kind, NEW token,
         FinishOne(r, want, kind, token)
  PROVE  /\ req'[r] = Idle /\ DOMAIN req' = Requests
         /\ \A q \in Requests \ {r} : req'[q] = req[q] /\ answered'[q] = None
         /\ answered'[r] =
              [kind |-> kind, session |-> req[r].session, want |-> want, token |-> token]
BY DEF FinishOne, Nobody, Shape, RequestShape

\* Requests of R end, none of them with followers outside R.
LEMMA EndingKeeps ==
  ASSUME IInv, NEW R \in SUBSET Requests, DOMAIN req' = Requests,
         \A q \in R : req'[q] = Idle, \A q \in Requests \ R : req'[q] = req[q],
         \A r \in R : InFlight(r) => Waiting(r) \subseteq R
  PROVE  RequestShape' /\ HandOwn' /\ OneIssuance'
<1>1. \A q \in R : req'[q].pc = "idle" /\ DOMAIN req'[q] = DOMAIN Idle
  BY DEF Idle
<1>2. RequestShape' /\ HandOwn'
  BY <1>1 DEF IInv, Shape, RequestShape, Own, HandOwn
<1>3. OneIssuance'
  BY <1>1, LeavingKeeps DEF IInv
<1>4. QED
  BY <1>2, <1>3

\* One request moves to a state of its own session.
LEMMA MovingKeeps ==
  ASSUME IInv, NEW r \in Requests, DOMAIN req' = Requests,
         \A q \in Requests \ {r} : req'[q] = req[q],
         DOMAIN req'[r] = DOMAIN Idle, req'[r].session \in Sessions,
         req'[r].pc = "access" => req'[r].idJag.subject = req'[r].session
  PROVE  RequestShape' /\ HandOwn'
BY DEF IInv, Shape, RequestShape, Own, HandOwn

\* The caches lose entries only.
LEMMA PruningKeeps ==
  ASSUME IInv, NEW s, UNCHANGED now,
         tokens' \in {tokens, [tokens EXCEPT ![s] = Fresh(@)]},
         idJags' \in {idJags, [idJags EXCEPT ![s] = Fresh(@)]}
  PROVE  CacheShape' /\ CachesOwn'
<1>1. \A cache : Fresh(cache) \subseteq cache
  BY DEF Fresh
<1>2. CacheShape'
  BY DEF IInv, Shape, CacheShape
<1>3. \A u \in Sessions : tokens'[u] \subseteq tokens[u] /\ idJags'[u] \subseteq idJags[u]
  BY <1>1 DEF IInv, Shape, CacheShape
<1>4. QED
  BY <1>2, <1>3 DEF IInv, Own, CachesOwn

LEMMA EnterIInv ==
  ASSUME IInv, NEW r \in Requests, NEW s \in Sessions, Enter(r, s)
  PROVE  IInv'
<1>1. req[r].pc = "idle" /\ UNCHANGED <<now, tokens, idJags>> /\ Shape
  BY DEF Enter, IInv
<1>2. CacheShape' /\ CachesOwn'
  BY <1>1, PruningKeeps
<1>3. CASE Goto(r, [Idle EXCEPT !.pc = "route", !.session = s])
  <2> DEFINE state == [Idle EXCEPT !.pc = "route", !.session = s]
  <2>0. state.pc = "route" /\ state.session = s /\ DOMAIN state = DOMAIN Idle
    BY Fields
  <2>1. /\ req'[r] = state
        /\ DOMAIN req' = Requests /\ \A q \in Requests \ {r} : req'[q] = req[q]
        /\ RightAnswers'
    BY <1>1, <1>3, GotoEffect
  <2>2. RequestShape' /\ HandOwn'
    <3>1. /\ DOMAIN req'[r] = DOMAIN Idle /\ req'[r].session \in Sessions
          /\ req'[r].pc # "access"
      BY <2>0, <2>1
    <3>2. QED
      BY <2>1, <3>1, MovingKeeps
  <2>3. OneIssuance'
    <3>1. ~InFlight(r) /\ {r} \in SUBSET Requests
      BY <1>1 DEF InFlight
    <3>2. \A q \in {r} : req'[q].pc \in {"idle", "route"}
      BY <2>0, <2>1
    <3>3. QED
      BY <1>1, <2>1, <3>1, <3>2, LeavingKeeps DEF IInv
  <2>4. QED
    BY <1>2, <2>1, <2>2, <2>3 DEF IInv, Shape, Own
<1>4. CASE /\ UNCHANGED req
           /\ answered' = [Nobody EXCEPT ![r] = [kind |-> "unauthorized", session |-> s,
                                                want |-> None, token |-> None]]
  <2>1. RightAnswers'
    BY <1>4 DEF RightAnswers, RightAnswer, Nobody
  <2>2. RequestShape' /\ HandOwn' /\ OneIssuance'
    BY <1>4 DEF IInv, Shape, RequestShape, Own, HandOwn, OneIssuance, Pending, InFlight
  <2>3. QED
    BY <1>2, <2>1, <2>2 DEF IInv, Shape, Own
<1>5. QED
  BY <1>3, <1>4 DEF Enter

\* Requests end without a token, and with them those who waited for them.
LEMMA FailingIInv ==
  ASSUME IInv, NEW R \in SUBSET Requests, NEW kind, NEW token, kind # "token",
         Finish(R, kind, token), UNCHANGED now,
         \A r \in R : InFlight(r) => Waiting(r) \subseteq R,
         CacheShape', CachesOwn'
  PROVE  IInv'
<1>1. /\ \A q \in R : req'[q] = Idle
      /\ \A q \in Requests \ R : req'[q] = req[q]
      /\ DOMAIN req' = Requests /\ RightAnswers'
  BY FinishEffect DEF IInv
<1>2. RequestShape' /\ HandOwn' /\ OneIssuance'
  BY <1>1, EndingKeeps
<1>3. QED
  BY <1>1, <1>2 DEF IInv, Shape, Own

\* Nobody waits for a request that waits, and all who wait for r end with it.
LEMMA Followers ==
  ASSUME NEW r \in Requests, InFlight(r)
  PROVE  /\ {r} \cup Waiting(r) \in SUBSET Requests
         /\ \A q \in {r} \cup Waiting(r) :
              InFlight(q) => Waiting(q) \subseteq {r} \cup Waiting(r)
BY DEF Waiting, InFlight

LEMMA RouteIInv ==
  ASSUME IInv, NEW r \in Requests,
         \/ RouteFails(r)
         \/ \E route, asked : AnswerWithoutToken(r, route, asked)
  PROVE  IInv'
<1>1. /\ req[r].pc = "route" /\ UNCHANGED <<now, tokens, idJags>>
      /\ \E kind \in {"error", "public", "notConfigured"} : Finish({r}, kind, None)
  BY DEF RouteFails, AnswerWithoutToken
<1>2. CacheShape' /\ CachesOwn'
  BY <1>1, PruningKeeps
<1>3. ~InFlight(r)
  BY <1>1 DEF InFlight
<1>4. QED
  BY <1>1, <1>2, <1>3, FailingIInv

LEMMA HitIInv ==
  ASSUME IInv, NEW r \in Requests, NEW route, NEW asked, CacheHit(r, route, asked)
  PROVE  IInv'
<1> DEFINE s == req[r].session
           want == WantOf(route, asked)
<1>1. req[r].pc = "route" /\ s \in Sessions /\ UNCHANGED <<now, idJags>> /\ Scan(s)
  BY DEF CacheHit, NeedsToken, IInv, Shape, RequestShape
<1>2. PICK t \in Found(s, want) : FinishOne(r, want, "token", t)
  BY DEF CacheHit
<1>3. /\ t \in tokens[s] /\ Usable(t) /\ t.audience = want.audience
      /\ ScopesExactlyMatch(t.scopes, want.scopes)
      /\ t.subject = s /\ t.expires <= SessionEnd
  BY <1>1, <1>2 DEF Found, Fresh, IInv, Own, CachesOwn
<1>4. /\ req'[r] = Idle /\ DOMAIN req' = Requests
      /\ \A q \in Requests \ {r} : req'[q] = req[q] /\ answered'[q] = None
      /\ answered'[r] = [kind |-> "token", session |-> s, want |-> want, token |-> t]
  BY <1>2, FinishOneEffect DEF IInv
<1>5. RightAnswers'
  <2>1. Usable(t)'
    BY <1>1, <1>3 DEF Usable
  <2>2. RightAnswer(answered[r])'
    BY <1>3, <1>4, <2>1 DEF RightAnswer
  <2>3. QED
    BY <1>4, <2>2 DEF RightAnswers, RightAnswer
<1>6. CacheShape' /\ CachesOwn'
  BY <1>1, PruningKeeps DEF Scan
<1>7. ~InFlight(r)
  BY <1>1 DEF InFlight
<1>8. RequestShape' /\ HandOwn' /\ OneIssuance'
  <2>1. {r} \in SUBSET Requests /\ \A q \in {r} : req'[q] = Idle /\ ~InFlight(q)
    BY <1>4, <1>7
  <2>2. QED
    BY <1>4, <2>1, EndingKeeps
<1>9. QED
  BY <1>5, <1>6, <1>8 DEF IInv, Shape, Own

LEMMA JoinIInv ==
  ASSUME IInv, NEW r \in Requests, NEW route, NEW asked, Join(r, route, asked)
  PROVE  IInv'
<1> DEFINE s == req[r].session
           want == WantOf(route, asked)
<1>1. /\ req[r].pc = "route" /\ s \in Sessions /\ UNCHANGED <<now, idJags>> /\ Scan(s)
      /\ DOMAIN req[r] = DOMAIN Idle /\ Shape /\ OneIssuance
  BY DEF Join, NeedsToken, IInv, Shape, RequestShape
<1>2. PICK q \in Pending(s, want) :
        Goto(r, [req[r] EXCEPT !.pc = "joined", !.want = want, !.owner = q])
  BY DEF Join
<1> DEFINE state == [req[r] EXCEPT !.pc = "joined", !.want = want, !.owner = q]
<1>3. /\ state.pc = "joined" /\ state.want = want /\ state.owner = q
      /\ state.session = s /\ DOMAIN state = DOMAIN Idle
  BY <1>1, Fields
<1>4. /\ req'[r] = state /\ DOMAIN req' = Requests
      /\ \A p \in Requests \ {r} : req'[p] = req[p]
      /\ RightAnswers'
  BY <1>1, <1>2, GotoEffect
<1>5. RequestShape' /\ HandOwn'
  <2>1. /\ DOMAIN req'[r] = DOMAIN Idle /\ req'[r].session \in Sessions
        /\ req'[r].pc # "access"
    BY <1>1, <1>3, <1>4
  <2>2. QED
    BY <1>4, <2>1, MovingKeeps
<1>6. OneIssuance'
  <2>1. /\ req'[r].pc = "joined" /\ req'[r].session = req[r].session
        /\ req'[r].want = want /\ req'[r].owner \in Pending(req[r].session, want)
    BY <1>2, <1>3, <1>4
  <2> HIDE DEF want
  <2>2. QED
    BY <1>1, <1>4, <2>1, JoiningKeeps
<1>7. CacheShape' /\ CachesOwn'
  BY <1>1, PruningKeeps DEF Scan
<1>8. QED
  BY <1>4, <1>5, <1>6, <1>7 DEF IInv, Shape, Own

LEMMA IssueIInv ==
  ASSUME IInv, NEW r \in Requests, NEW route, NEW asked, Issue(r, route, asked)
  PROVE  IInv'
<1> DEFINE s == req[r].session
           want == WantOf(route, asked)
<1>1. /\ req[r].pc = "route" /\ s \in Sessions /\ UNCHANGED now /\ Scan(s)
      /\ idJags' = [idJags EXCEPT ![s] = Fresh(@)]
      /\ Pending(s, want) = {}
      /\ DOMAIN req[r] = DOMAIN Idle /\ Shape /\ OneIssuance
  BY DEF Issue, NeedsToken, IInv, Shape, RequestShape
<1>2. CacheShape' /\ CachesOwn'
  BY <1>1, PruningKeeps DEF Scan
<1>3. ASSUME NEW state, Goto(r, state), DOMAIN state = DOMAIN Idle,
             state.pc \in {"idJag", "access"}, state.session = s, state.want = want,
             state.pc = "access" => state.idJag.subject = s
      PROVE  IInv'
  <2>1. /\ req'[r] = state /\ DOMAIN req' = Requests
        /\ \A q \in Requests \ {r} : req'[q] = req[q]
        /\ RightAnswers'
    BY <1>1, <1>3, GotoEffect
  <2>2. RequestShape' /\ HandOwn'
    BY <1>1, <1>3, <2>1, MovingKeeps
  <2>3. OneIssuance'
    <3>1. /\ InFlight(r)' /\ req'[r].session = req[r].session /\ req'[r].want = want
      BY <1>3, <2>1 DEF InFlight
    <3> HIDE DEF want
    <3>2. QED
      BY <1>1, <2>1, <3>1, FlyingKeeps
  <2>4. QED
    BY <1>2, <2>1, <2>2, <2>3 DEF IInv, Shape, Own
<1>4. ASSUME NEW j \in Covering(s, want),
             Goto(r, [req[r] EXCEPT !.pc = "access", !.want = want, !.idJag = j])
      PROVE  IInv'
  <2> DEFINE state == [req[r] EXCEPT !.pc = "access", !.want = want, !.idJag = j]
  <2>1. /\ state.pc = "access" /\ state.want = want /\ state.idJag = j
        /\ state.session = s /\ DOMAIN state = DOMAIN Idle
    BY <1>1, Fields
  <2>2. j.subject = s
    BY <1>1, <1>4 DEF Covering, Fresh, IInv, Own, CachesOwn
  <2>3. Goto(r, state)
    BY <1>4
  <2> HIDE DEF state
  <2>4. QED
    BY <1>3, <2>1, <2>2, <2>3
<1>5. CASE Goto(r, [req[r] EXCEPT !.pc = "idJag", !.want = want])
  <2> DEFINE state == [req[r] EXCEPT !.pc = "idJag", !.want = want]
  <2>1. /\ state.pc = "idJag" /\ state.want = want
        /\ state.session = s /\ DOMAIN state = DOMAIN Idle
    BY <1>1, Fields
  <2>2. Goto(r, state)
    BY <1>5
  <2> HIDE DEF state
  <2>3. QED
    BY <1>3, <2>1, <2>2
<1>6. CASE FinishOne(r, want, "reauth", None)
  <2>1. /\ req'[r] = Idle /\ DOMAIN req' = Requests
        /\ \A q \in Requests \ {r} : req'[q] = req[q] /\ answered'[q] = None
        /\ answered'[r] =
             [kind |-> "reauth", session |-> s, want |-> want, token |-> None]
    BY <1>1, <1>6, FinishOneEffect
  <2>2. RightAnswers'
    BY <2>1 DEF RightAnswers, RightAnswer
  <2>3. {r} \in SUBSET Requests /\ \A q \in {r} : req'[q] = Idle /\ ~InFlight(q)
    BY <1>1, <2>1 DEF InFlight
  <2>4. RequestShape' /\ HandOwn' /\ OneIssuance'
    BY <2>1, <2>3, EndingKeeps
  <2>5. QED
    BY <1>2, <2>2, <2>4 DEF IInv, Shape, Own
<1>7. QED
  BY <1>4, <1>5, <1>6 DEF Issue

\* A new grant of the session, put in its cache.
LEMMA PuttingKeeps ==
  ASSUME IInv, NEW s \in Sessions, NEW t, UNCHANGED now,
         t.subject = s, t.expires <= SessionEnd,
         \/ tokens' = [tokens EXCEPT ![s] = Put(@, t)] /\ UNCHANGED idJags
         \/ idJags' = [idJags EXCEPT ![s] = Put(@, t)] /\ UNCHANGED tokens
  PROVE  CacheShape' /\ CachesOwn'
<1>1. \A cache : Put(cache, t) \subseteq cache \cup {t}
  BY DEF Put
<1>2. CacheShape'
  BY DEF IInv, Shape, CacheShape
<1>3. \A u \in Sessions : /\ tokens'[u] \subseteq tokens[u] \cup {x \in {t} : u = s}
                         /\ idJags'[u] \subseteq idJags[u] \cup {x \in {t} : u = s}
  BY <1>1 DEF IInv, Shape, CacheShape
<1>4. QED
  BY <1>2, <1>3 DEF IInv, Own, CachesOwn

LEMMA IdJagIInv ==
  ASSUME IInv, NEW r \in Requests, NEW scopes, NEW life \in Lives,
         IdJagGranted(r, scopes, life)
  PROVE  IInv'
<1> DEFINE s == req[r].session
           j == [audience |-> None, scopes |-> scopes, expires |-> ExpiryOf(life),
                 subject |-> s]
           R == {r} \cup Waiting(r)
<1>1. /\ req[r].pc = "idJag" /\ s \in Sessions /\ UNCHANGED <<now, tokens>>
      /\ DOMAIN req[r] = DOMAIN Idle /\ Shape /\ OneIssuance
  BY DEF IdJagGranted, IInv, Shape, RequestShape
<1>2. InFlight(r)
  BY <1>1 DEF InFlight
<1>3. R \in SUBSET Requests /\ \A q \in R : InFlight(q) => Waiting(q) \subseteq R
  BY <1>2, Followers
<1>4. CacheShape' /\ CachesOwn'
  <2>1. CASE UNCHANGED idJags
    BY <1>1, <2>1, PruningKeeps
  <2>2. CASE idJags' = [idJags EXCEPT ![s] = Put(@, j)]
    <3>1. j.subject = s /\ j.expires <= SessionEnd
      BY <1>1, ExpiryBounded DEF Shape, CacheShape
    <3> HIDE DEF j
    <3>2. QED
      BY <1>1, <2>2, <3>1, PuttingKeeps
  <2>3. QED
    BY <2>1, <2>2 DEF IdJagGranted
<1>5. ASSUME NEW kind, kind # "token", NEW token, Finish(R, kind, token) PROVE IInv'
  <2> HIDE DEF R
  <2>1. QED
    BY <1>1, <1>3, <1>4, <1>5, FailingIInv
<1>6. CASE Goto(r, [req[r] EXCEPT !.pc = "access", !.idJag = j])
  <2> DEFINE state == [req[r] EXCEPT !.pc = "access", !.idJag = j]
  <2>1. /\ state.pc = "access" /\ state.want = req[r].want /\ state.idJag = j
        /\ state.session = s /\ DOMAIN state = DOMAIN Idle /\ j.subject = s
    BY <1>1, Fields
  <2>2. Goto(r, state)
    BY <1>6
  <2> HIDE DEF state, j
  <2>3. /\ req'[r] = state /\ DOMAIN req' = Requests
        /\ \A q \in Requests \ {r} : req'[q] = req[q]
        /\ RightAnswers'
    BY <1>1, <2>2, GotoEffect
  <2>4. RequestShape' /\ HandOwn'
    BY <1>1, <2>1, <2>3, MovingKeeps
  <2>5. OneIssuance'
    <3>1. InFlight(r)' /\ req'[r].session = req[r].session /\ req'[r].want = req[r].want
      BY <2>1, <2>3 DEF InFlight
    <3>2. QED
      BY <1>1, <1>2, <2>3, <3>1, FlyingKeeps
  <2>6. QED
    BY <1>4, <2>3, <2>4, <2>5 DEF IInv, Shape, Own
<1>7. QED
  BY <1>5, <1>6 DEF IdJagGranted

LEMMA AccessIInv ==
  ASSUME IInv, NEW r \in Requests, NEW scopes, NEW life \in Lives,
         AccessGranted(r, scopes, life)
  PROVE  IInv'
<1> DEFINE s == req[r].session
           want == req[r].want
           t == [audience |-> want.audience, scopes |-> Shortened(want.audience, scopes),
                 expires |-> ExpiryOf(life), subject |-> req[r].idJag.subject]
           R == {r} \cup Waiting(r)
<1>1. /\ req[r].pc = "access" /\ s \in Sessions /\ UNCHANGED <<now, idJags>>
      /\ DOMAIN req[r] = DOMAIN Idle /\ Shape /\ OneIssuance
      /\ req[r].idJag.subject = s
  BY DEF AccessGranted, IInv, Shape, RequestShape, Own, HandOwn
<1>2. InFlight(r)
  BY <1>1 DEF InFlight
<1>3. R \in SUBSET Requests /\ \A q \in R : InFlight(q) => Waiting(q) \subseteq R
  BY <1>2, Followers
<1>4. t.subject = s /\ t.expires <= SessionEnd /\ t.audience = want.audience
  BY <1>1, ExpiryBounded DEF Shape, CacheShape
<1>5. CacheShape' /\ CachesOwn'
  <2>1. CASE UNCHANGED tokens
    BY <1>1, <2>1, PruningKeeps
  <2>2. CASE tokens' = [tokens EXCEPT ![s] = Put(@, t)]
    <3> HIDE DEF t
    <3>1. QED
      BY <1>1, <1>4, <2>2, PuttingKeeps
  <2>3. QED
    BY <2>1, <2>2 DEF AccessGranted
<1>6. ASSUME NEW kind, kind # "token", NEW token, Finish(R, kind, token) PROVE IInv'
  <2> HIDE DEF R
  <2>1. QED
    BY <1>1, <1>3, <1>5, <1>6, FailingIInv
<1>7. ASSUME Usable(t), ScopesExactlyMatch(t.scopes, want.scopes), Finish(R, "token", t)
      PROVE  IInv'
  <2>0. PICK u : u = t
    OBVIOUS
  <2> HIDE DEF t
  <2>1. \A q \in R : req[q].session = s /\ req[q].want = want
    BY <1>1, WaitingAlike
  <2> HIDE DEF R
  <2>2. /\ \A q \in R : req'[q] = Idle
        /\ \A q \in Requests \ R : req'[q] = req[q] /\ answered'[q] = None
        /\ DOMAIN req' = Requests
        /\ \A q \in R : answered'[q] =
             [kind |-> "token", session |-> req[q].session, want |-> req[q].want,
              token |-> u]
    BY <1>1, <1>3, <1>7, <2>0, FinishEffect
  <2>3. Usable(u)'
    BY <1>1, <1>7, <2>0 DEF Usable
  <2>4. RightAnswers'
    <3>1. ASSUME NEW q \in R PROVE RightAnswer(answered[q])'
      <4>1. /\ answered'[q].token = u /\ answered'[q].session = s
            /\ answered'[q].want = want
        <5>1. req[q].session = s /\ req[q].want = want
          BY <2>1, <3>1
        <5>2. answered'[q] = [kind |-> "token", session |-> req[q].session,
                              want |-> req[q].want, token |-> u]
          BY <2>2, <3>1
        <5>3. QED
          BY <5>1, <5>2
      <4>2. /\ u.subject = s /\ u.expires <= SessionEnd /\ u.audience = want.audience
            /\ ScopesExactlyMatch(u.scopes, want.scopes)
        BY <1>4, <1>7, <2>0
      <4>3. QED
        BY <2>3, <4>1, <4>2 DEF RightAnswer
    <3>2. ASSUME NEW q \in Requests \ R PROVE RightAnswer(answered[q])'
      BY <2>2, <3>2 DEF RightAnswer
    <3>3. QED
      BY <3>1, <3>2 DEF RightAnswers
  <2>5. RequestShape' /\ HandOwn' /\ OneIssuance'
    BY <1>3, <2>2, EndingKeeps
  <2>6. QED
    BY <1>5, <2>4, <2>5 DEF IInv, Shape, Own
<1>8. QED
  BY <1>6, <1>7 DEF AccessGranted

LEMMA FailIInv ==
  ASSUME IInv, NEW r \in Requests, ZtsFails(r) \/ IdTokenRejected(r)
  PROVE  IInv'
<1>1. /\ InFlight(r) /\ UNCHANGED <<now, tokens, idJags>>
      /\ \E kind \in {"error", "reauth"} : Finish({r} \cup Waiting(r), kind, None)
  BY DEF ZtsFails, IdTokenRejected, InFlight
<1>2. CacheShape' /\ CachesOwn'
  BY <1>1, PruningKeeps
<1>3. QED
  BY <1>1, <1>2, Followers, FailingIInv

\* Sessions end and time passes: nobody is answered.
LEMMA OutsideIInv ==
  ASSUME IInv, (\E s : EndSession(s)) \/ Tick \/ UNCHANGED vars
  PROVE  IInv'
<1>1. UNCHANGED <<tokens, idJags, req>> /\ (now' = now \/ now' = now + 1)
  BY DEF EndSession, Tick, vars
<1>2. Shape' /\ Own' /\ OneIssuance'
  BY <1>1 DEF IInv, Shape, RequestShape, CacheShape, Own, CachesOwn, HandOwn,
              OneIssuance, Pending, InFlight
<1>3. RightAnswers'
  BY DEF EndSession, Tick, vars, Nobody, IInv, RightAnswers, RightAnswer, Usable
<1>4. QED
  BY <1>2, <1>3 DEF IInv

LEMMA NextIInv == IInv /\ [Next]_vars => IInv'
<1> SUFFICES ASSUME IInv, [Next]_vars PROVE IInv'
  OBVIOUS
<1>1. ASSUME NEW r \in Requests, NEW s \in Sessions, Enter(r, s) PROVE IInv'
  BY <1>1, EnterIInv
<1>2. ASSUME NEW r \in Requests, Resolved(r) PROVE IInv'
  BY <1>2, RouteIInv, HitIInv, JoinIInv, IssueIInv DEF Resolved
<1>3. ASSUME NEW r \in Requests, ZtsAnswers(r) PROVE IInv'
  BY <1>3, FailIInv, IdJagIInv, AccessIInv DEF ZtsAnswers
<1>4. QED
  BY <1>1, <1>2, <1>3, OutsideIInv DEF Next

-----------------------------------------------------------------------------

\* athenz.ts, protected.ts: who is in flight, who waits, whose grants are cached
\* and what was answered, in every state.
THEOREM Inductive == Spec => []IInv
BY InitIInv, NextIInv, PTL DEF Spec

\* However requests overlap and issuances end, one issuance runs for what is asked
\* of a session, and whoever waits, waits for one in flight.
THEOREM IssuancesAreShared == Spec => []OneIssuance
<1>1. IInv => OneIssuance
  BY DEF IInv
<1>2. QED
  BY <1>1, Inductive, PTL

\* A token is handed out while it is good, and for no longer than its session.
THEOREM TokensAreUsable == Spec => []AnswersUsable
<1>1. IInv => AnswersUsable
  BY DEF IInv, RightAnswers, RightAnswer, AnswersUsable
<1>2. QED
  BY <1>1, Inductive, PTL

OwnAnswers ==
  \A r \in Requests : answered[r] # None /\ answered[r].kind = "token" =>
    /\ answered[r].token.subject = answered[r].session
    /\ answered[r].token.audience = answered[r].want.audience
    /\ ScopesExactlyMatch(answered[r].token.scopes, answered[r].want.scopes)

\* A token is handed out to the session it was issued from, for the audience
\* asked for, and after its scopes matched those asked for.
THEOREM TokensAreOwn == Spec => []OwnAnswers
<1>1. IInv => OwnAnswers
  BY DEF IInv, RightAnswers, RightAnswer, OwnAnswers
<1>2. QED
  BY <1>1, Inductive, PTL

-----------------------------------------------------------------------------
(* What the comparison of scopes means                                     *)

\* No role of a server's own domain has a namesake in another domain.
OwnRolesDiffer ==
  \A route \in Routes : \A a, b \in Scope :
    a.domain = route.audience /\ a.role = b.role => a = b

\* What the Gateway may ask for, and what ZTS may write for the audience.
IsWant(want) ==
  /\ want.scopes \in SUBSET Scope
  /\ \E route \in Routes : want.audience = route.audience
IsGrant(t) == \E S \in SUBSET Scope : t.scopes = Shortened(t.audience, S)

LEMMA ScopeIs ==
  ASSUME NEW s \in Scope
  PROVE  s = Full(s.domain, s.role) /\ s.domain # NoDomain
BY ScopesAssumption DEF Scope

LEMMA ScopesFinite == IsFiniteSet(Scope)
<1>1. \E n \in Nat : Order \in [1..n -> Range(Order)]
  BY ScopesAssumption
<1>2. PICK n \in Nat : Order \in [1..n -> Range(Order)]
  BY <1>1
<1>3. IsFiniteSet(1..n)
  BY <1>2, FS_Interval
<1>4. Order \in Surjection(1..n, Range(Order))
  BY <1>2 DEF Range, Surjection
<1>5. IsFiniteSet(Range(Order))
  BY <1>3, <1>4, FS_Surjection
<1>6. QED
  BY <1>5, FS_Subset DEF Scope

LEMMA ShortIs == \A r : Short(r).domain = NoDomain /\ Short(r).role = r
BY DEF Short

LEMMA FullIs == \A d, r : Full(d, r).domain = d /\ Full(d, r).role = r
BY DEF Full

\* What ZTS shortens for an audience denotes what it was.
LEMMA ShortenedDenotes ==
  ASSUME NEW S \in SUBSET Scope, NEW audience
  PROVE  Denoted(audience, Shortened(audience, S)) = S
<1> DEFINE short(s) == IF s.domain = audience THEN Short(s.role) ELSE s
           full(s) == IF s.domain = NoDomain THEN Full(audience, s.role) ELSE s
<1>1. \A s \in S : full(short(s)) = s
  BY ScopeIs, ShortIs
<1>2. Denoted(audience, Shortened(audience, S)) = {full(short(s)) : s \in S}
  BY DEF Denoted, Shortened
<1> HIDE DEF short, full
<1>3. QED
  BY <1>1, <1>2

\* Where the server's own roles have no namesakes, a token for the audience that
\* matches what is wanted grants just that.
LEMMA MatchMeans ==
  ASSUME OwnRolesDiffer, NEW W \in SUBSET Scope, NEW S \in SUBSET Scope,
         NEW route \in Routes, ScopesExactlyMatch(Shortened(route.audience, S), W)
  PROVE  S = W
<1> DEFINE audience == route.audience
           short == [s \in S |-> IF s.domain = audience THEN Short(s.role) ELSE s]
           G == Shortened(audience, S)
<1>1. G = {short[s] : s \in S}
  BY DEF Shortened
<1>2. PICK taken \in [W -> G] : \A w \in W : EquivalentScope(taken[w], w)
  BY DEF ScopesExactlyMatch, ScopesCover
<1>3. W \subseteq S
  <2> SUFFICES ASSUME NEW w \in W PROVE w \in S
    OBVIOUS
  <2>1. PICK s \in S : taken[w] = short[s]
    BY <1>1, <1>2
  <2>2. EquivalentScope(short[s], w)
    BY <1>2, <2>1
  <2>3. w.domain # NoDomain /\ w = Full(w.domain, w.role)
    BY ScopeIs
  <2>4. s.domain # NoDomain /\ s = Full(s.domain, s.role) /\ s \in Scope /\ w \in Scope
    BY ScopeIs
  <2>5. CASE s.domain = audience
    <3>1. short[s] = Short(s.role)
      BY <2>5
    <3>2. short[s].domain = NoDomain /\ short[s].role = s.role
      BY <3>1, ShortIs
    <3>3. short[s] = Short(w.role)
      BY <2>2, <2>3, <3>2 DEF EquivalentScope
    <3>4. s.role = w.role
      BY <3>2, <3>3, ShortIs
    <3>5. QED
      BY <2>4, <2>5, <3>4 DEF OwnRolesDiffer
  <2>6. CASE s.domain # audience
    <3>1. short[s] = s
      BY <2>6
    <3>2. QED
      BY <2>2, <2>3, <2>4, <3>1, ShortIs DEF EquivalentScope
  <2>7. QED
    BY <2>5, <2>6
<1>4. IsFiniteSet(S) /\ IsFiniteSet(W)
  BY ScopesFinite, FS_Subset
<1>5. IsFiniteSet(G)
  <2>1. short \in Surjection(S, G)
    BY <1>1 DEF Surjection
  <2>2. QED
    BY <1>4, <2>1, FS_Surjection
<1>6. Cardinality(S) <= Cardinality(G)
  <2>1. short \in [S -> G]
    BY <1>1
  <2>2. \A s, t \in S : short[s] = short[t] => s = t
    BY ScopeIs, ShortIs
  <2>3. short \in Injection(S, G)
    BY <2>1, <2>2 DEF Injection, IsInjective
  <2>4. QED
    BY <1>5, <2>3, FS_Injection
<1>7. Cardinality(G) = Cardinality(W)
  BY DEF ScopesExactlyMatch
<1>8. QED
  BY <1>3, <1>4, <1>6, <1>7, FS_Subset, FS_CardinalityType

\* What requests in flight and those who joined them ask for, what is cached, and
\* what is handed out.
WantsWell ==
  \A r \in Requests : req[r].pc \in {"joined", "idJag", "access"} => IsWant(req[r].want)
GrantsWell == \A s \in Sessions : \A t \in tokens[s] : IsGrant(t)
AnswersWell ==
  \A r \in Requests : answered[r] # None /\ answered[r].kind = "token" =>
    IsWant(answered[r].want) /\ IsGrant(answered[r].token)

Understood == WantsWell /\ GrantsWell /\ AnswersWell

LEMMA InitUnderstood == Init => Understood
BY DEF Init, Understood, WantsWell, GrantsWell, AnswersWell, Nobody, Idle

LEMMA AccessScopeIs ==
  ASSUME NEW route \in Routes, NEW asked
  PROVE  IsWant(WantOf(route, asked))
<1>1. AccessScopeFor(route, asked) \in SUBSET Scope
  BY AthenzTokensAssumption DEF AccessScopeFor
<1>2. QED
  BY <1>1 DEF WantOf, IsWant

LEMMA IdleIs == Idle.pc = "idle"
BY DEF Idle

LEMMA AnswerIs ==
  ASSUME NEW kind, NEW session, NEW want, NEW token, NEW answer,
         answer = [kind |-> kind, session |-> session, want |-> want, token |-> token]
  PROVE  answer.kind = kind /\ answer.want = want /\ answer.token = token
OBVIOUS

\* A step that answers nobody with a token, adds nothing to the cache, and after
\* which requests ask for what may be asked.
LEMMA UnansweredUnderstood ==
  ASSUME Understood,
         \A q \in Requests :
           \/ req'[q] = req[q]
           \/ req'[q].pc \in {"joined", "idJag", "access"} => IsWant(req'[q].want),
         \A s \in Sessions : tokens'[s] \subseteq tokens[s],
         \A r \in Requests : answered'[r] # None => answered'[r].kind # "token"
  PROVE  Understood'
<1>1. WantsWell'
  BY DEF Understood, WantsWell
<1>2. GrantsWell'
  BY DEF Understood, GrantsWell
<1>3. AnswersWell'
  BY DEF AnswersWell
<1>4. QED
  BY <1>1, <1>2, <1>3 DEF Understood

LEMMA Scanned ==
  ASSUME IInv, NEW u \in Sessions, Scan(u)
  PROVE  \A s \in Sessions : tokens'[s] \subseteq tokens[s]
BY DEF Scan, Fresh, IInv, Shape, CacheShape

LEMMA FinishUnderstood ==
  ASSUME IInv, Understood, NEW R \in SUBSET Requests, NEW kind, kind # "token", NEW token,
         Finish(R, kind, token), \A s \in Sessions : tokens'[s] \subseteq tokens[s]
  PROVE  Understood'
<1>1. Shape
  BY DEF IInv
<1>2. /\ \A q \in R : req'[q] = Idle
      /\ \A q \in Requests \ R : req'[q] = req[q] /\ answered'[q] = None
      /\ \A q \in R : answered'[q] =
           [kind |-> kind, session |-> req[q].session, want |-> req[q].want,
            token |-> token]
  BY <1>1, FinishEffect
<1>3. /\ \A q \in Requests : req'[q] = req[q] \/ req'[q].pc = "idle"
      /\ \A q \in Requests : answered'[q] # None => answered'[q].kind # "token"
  <2>1. ASSUME NEW q \in R
        PROVE  req'[q].pc = "idle" /\ answered'[q].kind = kind
    <3>1. PICK session, want :
            answered'[q] = [kind |-> kind, session |-> session, want |-> want,
                            token |-> token]
      BY <1>2
    <3>2. answered'[q].kind = kind
      BY <3>1, AnswerIs
    <3>3. req'[q].pc = "idle"
      BY <1>2, IdleIs
    <3>4. QED
      BY <3>2, <3>3
  <2>2. \A q \in Requests : q \in R \/ (req'[q] = req[q] /\ answered'[q] = None)
    BY <1>2
  <2>3. QED
    BY <2>1, <2>2
<1>4. QED
  BY <1>3, UnansweredUnderstood

LEMMA GotoUnderstood ==
  ASSUME IInv, Understood, NEW r \in Requests, NEW state, Goto(r, state),
         state.pc \in {"joined", "idJag", "access"} => IsWant(state.want),
         \A s \in Sessions : tokens'[s] \subseteq tokens[s]
  PROVE  Understood'
<1>0. Shape
  BY DEF IInv
<1>1. /\ req'[r] = state /\ \A q \in Requests \ {r} : req'[q] = req[q]
  BY <1>0, GotoEffect
<1>2. \A q \in Requests : answered'[q] = None
  BY DEF Goto, Nobody
<1>3. QED
  BY <1>1, <1>2, UnansweredUnderstood

LEMMA ResolvedUnderstood ==
  ASSUME IInv, Understood, NEW r \in Requests, Resolved(r)
  PROVE  Understood'
<1>1. CASE RouteFails(r)
  <2>1. Finish({r}, "error", None) /\ \A s \in Sessions : tokens'[s] \subseteq tokens[s]
    BY <1>1 DEF RouteFails
  <2>2. QED
    BY <2>1, FinishUnderstood
<1>2. ASSUME NEW route \in Routes, NEW asked, AnswerWithoutToken(r, route, asked)
      PROVE  Understood'
  <2>1. /\ \E kind \in {"public", "notConfigured", "error"} : Finish({r}, kind, None)
        /\ \A s \in Sessions : tokens'[s] \subseteq tokens[s]
    BY <1>2 DEF AnswerWithoutToken
  <2>2. QED
    BY <2>1, FinishUnderstood
<1>3. ASSUME NEW route \in Routes, NEW asked,
             CacheHit(r, route, asked) \/ Join(r, route, asked) \/ Issue(r, route, asked)
      PROVE  Understood'
  <2> DEFINE s == req[r].session
             want == WantOf(route, asked)
  <2>0. Shape
    BY DEF IInv
  <2>1. req[r].pc = "route" /\ s \in Sessions /\ Scan(s)
    BY <1>3 DEF CacheHit, Join, Issue, NeedsToken, IInv, Shape, RequestShape
  <2>2. \A u \in Sessions : tokens'[u] \subseteq tokens[u]
    BY <2>1, Scanned
  <2>3. IsWant(want) /\ DOMAIN req[r] = DOMAIN Idle
    BY AccessScopeIs DEF IInv, Shape, RequestShape
  <2> HIDE DEF want
  <2>4. CASE CacheHit(r, route, asked)
    <3>1. PICK t \in Found(s, want) : FinishOne(r, want, "token", t)
      BY <2>4 DEF CacheHit, want
    <3>2. IsGrant(t)
      BY <2>1, <3>1 DEF Found, Fresh, Understood, GrantsWell
    <3>3. /\ req'[r] = Idle
          /\ \A q \in Requests \ {r} : req'[q] = req[q] /\ answered'[q] = None
          /\ answered'[r].want = want /\ answered'[r].token = t
      <4>1. answered'[r] = [kind |-> "token", session |-> s, want |-> want, token |-> t]
        BY <2>0, <3>1, FinishOneEffect
      <4>2. QED
        BY <2>0, <3>1, <4>1, FinishOneEffect
    <3>4. WantsWell'
      BY <3>3 DEF Understood, WantsWell, Idle
    <3>5. GrantsWell'
      BY <2>2 DEF Understood, GrantsWell
    <3>6. AnswersWell'
      BY <2>3, <3>2, <3>3 DEF AnswersWell
    <3>7. QED
      BY <3>4, <3>5, <3>6 DEF Understood
  <2>5. CASE Join(r, route, asked)
    <3>1. PICK q : Goto(r, [req[r] EXCEPT !.pc = "joined", !.want = want, !.owner = q])
      BY <2>5 DEF Join, want
    <3>2. [req[r] EXCEPT !.pc = "joined", !.want = want, !.owner = q].want = want
      BY <2>3, Fields
    <3>3. QED
      BY <2>2, <2>3, <3>1, <3>2, GotoUnderstood
  <2>6. CASE Issue(r, route, asked)
    <3>1. \/ \E j : Goto(r, [req[r] EXCEPT !.pc = "access", !.want = want, !.idJag = j])
          \/ Goto(r, [req[r] EXCEPT !.pc = "idJag", !.want = want])
          \/ FinishOne(r, want, "reauth", None)
      BY <2>6 DEF Issue, want
    <3>2. ASSUME NEW j,
                 Goto(r, [req[r] EXCEPT !.pc = "access", !.want = want, !.idJag = j])
          PROVE  Understood'
      <4>1. [req[r] EXCEPT !.pc = "access", !.want = want, !.idJag = j].want = want
        BY <2>3, Fields
      <4>2. QED
        BY <2>2, <2>3, <3>2, <4>1, GotoUnderstood
    <3>3. CASE Goto(r, [req[r] EXCEPT !.pc = "idJag", !.want = want])
      <4>1. [req[r] EXCEPT !.pc = "idJag", !.want = want].want = want
        BY <2>3, Fields
      <4>2. QED
        BY <2>2, <2>3, <3>3, <4>1, GotoUnderstood
    <3>4. CASE FinishOne(r, want, "reauth", None)
      <4>1. /\ req'[r] = Idle
            /\ \A q \in Requests \ {r} : req'[q] = req[q] /\ answered'[q] = None
            /\ answered'[r] =
                 [kind |-> "reauth", session |-> s, want |-> want, token |-> None]
        BY <2>0, <3>4, FinishOneEffect
      <4>2. /\ \A q \in Requests : req'[q] = req[q] \/ req'[q].pc = "idle"
            /\ \A q \in Requests : answered'[q] # None => answered'[q].kind # "token"
        BY <4>1, IdleIs
      <4>3. QED
        BY <2>2, <4>2, UnansweredUnderstood
    <3>5. QED
      BY <3>1, <3>2, <3>3, <3>4
  <2>7. QED
    BY <1>3, <2>4, <2>5, <2>6
<1>4. QED
  BY <1>1, <1>2, <1>3 DEF Resolved

LEMMA GrantedUnderstood ==
  ASSUME IInv, Understood, NEW r \in Requests, NEW scopes \in SUBSET Scope,
         NEW life, AccessGranted(r, scopes, life)
  PROVE  Understood'
<1> DEFINE s == req[r].session
           want == req[r].want
           t == [audience |-> want.audience, scopes |-> Shortened(want.audience, scopes),
                 expires |-> ExpiryOf(life), subject |-> req[r].idJag.subject]
           R == {r} \cup Waiting(r)
<1>1. req[r].pc = "access" /\ s \in Sessions /\ DOMAIN tokens = Sessions
  BY DEF AccessGranted, IInv, Shape, RequestShape, CacheShape
<1>2. IsWant(want) /\ R \in SUBSET Requests
  BY <1>1 DEF Understood, WantsWell, Waiting
<1>3. \A q \in R : req[q].want = want
  BY WaitingAlike DEF IInv
<1>4. IsGrant(t)
  BY DEF IsGrant
<1>5. \A u \in Sessions : \A x \in tokens'[u] : x \in tokens[u] \/ x = t
  <2>1. UNCHANGED tokens \/ tokens' = [tokens EXCEPT ![s] = Put(@, t)]
    BY DEF AccessGranted
  <2> HIDE DEF t
  <2>2. QED
    BY <1>1, <2>1 DEF Put
<1>6. \E kind : Finish(R, kind, t) \/ (kind # "token" /\ Finish(R, kind, None))
  <2>1. "error" # "token"
    OBVIOUS
  <2>2. QED
    BY <2>1 DEF AccessGranted
<1> HIDE DEF t, R
<1>7. PICK kind, token : /\ Finish(R, kind, token)
                         /\ token = t \/ kind # "token"
  BY <1>6
<1>8. /\ \A q \in R : req'[q] = Idle
      /\ \A q \in Requests \ R : req'[q] = req[q] /\ answered'[q] = None
      /\ \A q \in R : /\ answered'[q].kind = kind /\ answered'[q].token = token
                      /\ answered'[q].want = req[q].want
  <2>1. Shape
    BY DEF IInv
  <2>2. \A q \in R : answered'[q] =
          [kind |-> kind, session |-> req[q].session, want |-> req[q].want,
           token |-> token]
    BY <1>2, <1>7, <2>1, FinishEffect
  <2>3. /\ \A q \in R : req'[q] = Idle
        /\ \A q \in Requests \ R : req'[q] = req[q] /\ answered'[q] = None
    BY <1>2, <1>7, <2>1, FinishEffect
  <2>4. ASSUME NEW q \in R
        PROVE  /\ answered'[q].kind = kind /\ answered'[q].token = token
               /\ answered'[q].want = req[q].want
    <3>1. PICK session, w :
            /\ answered'[q] = [kind |-> kind, session |-> session, want |-> w,
                               token |-> token]
            /\ w = req[q].want
      BY <2>2
    <3>2. QED
      BY <3>1, AnswerIs
  <2>5. QED
    BY <2>3, <2>4
<1>9. WantsWell'
  BY <1>8 DEF Understood, WantsWell, Idle
<1>10. GrantsWell'
  BY <1>4, <1>5 DEF Understood, GrantsWell
<1>11. AnswersWell'
  BY <1>2, <1>3, <1>4, <1>7, <1>8 DEF AnswersWell
<1>12. QED
  BY <1>9, <1>10, <1>11 DEF Understood

LEMMA AnswersUnderstood ==
  ASSUME IInv, Understood, NEW r \in Requests, ZtsAnswers(r)
  PROVE  Understood'
<1>1. {r} \cup Waiting(r) \in SUBSET Requests
  BY DEF Waiting
<1>2. CASE ZtsFails(r) \/ IdTokenRejected(r)
  <2>1. /\ \E kind \in {"error", "reauth"} : Finish({r} \cup Waiting(r), kind, None)
        /\ \A s \in Sessions : tokens'[s] \subseteq tokens[s]
    BY <1>2 DEF ZtsFails, IdTokenRejected
  <2>2. QED
    BY <1>1, <2>1, FinishUnderstood
<1>3. ASSUME NEW scopes, NEW life, IdJagGranted(r, scopes, life)
      PROVE  Understood'
  <2>1. /\ req[r].pc = "idJag" /\ \A s \in Sessions : tokens'[s] \subseteq tokens[s]
        /\ DOMAIN req[r] = DOMAIN Idle /\ IsWant(req[r].want)
    BY <1>3 DEF IdJagGranted, IInv, Shape, RequestShape, Understood, WantsWell
  <2>2. PICK j : \/ \E kind \in {"error", "insufficient"} : \E token :
                       Finish({r} \cup Waiting(r), kind, token)
                 \/ Goto(r, [req[r] EXCEPT !.pc = "access", !.idJag = j])
    BY <1>3 DEF IdJagGranted
  <2>3. [req[r] EXCEPT !.pc = "access", !.idJag = j].want = req[r].want
    BY <2>1, Fields
  <2>4. CASE Goto(r, [req[r] EXCEPT !.pc = "access", !.idJag = j])
    BY <2>1, <2>3, <2>4, GotoUnderstood
  <2>5. CASE \E kind \in {"error", "insufficient"} : \E token :
               Finish({r} \cup Waiting(r), kind, token)
    BY <1>1, <2>1, <2>5, FinishUnderstood
  <2>6. QED
    BY <2>2, <2>4, <2>5
<1>4. QED
  BY <1>2, <1>3, GrantedUnderstood DEF ZtsAnswers

LEMMA NextUnderstood == IInv /\ Understood /\ [Next]_vars => Understood'
<1> SUFFICES ASSUME IInv, Understood, [Next]_vars PROVE Understood'
  OBVIOUS
<1>1. ASSUME NEW r \in Requests, NEW s \in Sessions, Enter(r, s) PROVE Understood'
  <2>1. \A u \in Sessions : tokens'[u] \subseteq tokens[u]
    BY <1>1 DEF Enter
  <2>2. CASE Goto(r, [Idle EXCEPT !.pc = "route", !.session = s])
    <3>1. [Idle EXCEPT !.pc = "route", !.session = s].pc = "route"
      BY Fields
    <3>2. QED
      BY <2>1, <2>2, <3>1, GotoUnderstood
  <2>3. CASE UNCHANGED req
    <3>1. \A q \in Requests : answered'[q] # None => answered'[q].kind # "token"
      BY <1>1, <2>3 DEF Enter, Goto, Nobody
    <3>2. QED
      BY <2>1, <2>3, <3>1, UnansweredUnderstood
  <2>4. QED
    BY <1>1, <2>2, <2>3 DEF Enter
<1>2. ASSUME NEW r \in Requests, Resolved(r) PROVE Understood'
  BY <1>2, ResolvedUnderstood
<1>3. ASSUME NEW r \in Requests, ZtsAnswers(r) PROVE Understood'
  BY <1>3, AnswersUnderstood
<1>4. CASE (\E s \in Sessions : EndSession(s)) \/ Tick
  BY <1>4 DEF EndSession, Tick, Nobody, Understood, WantsWell, GrantsWell, AnswersWell
<1>5. CASE UNCHANGED vars
  BY <1>5 DEF vars, Understood, WantsWell, GrantsWell, AnswersWell
<1>6. QED
  BY <1>1, <1>2, <1>3, <1>4, <1>5 DEF Next

\* "Each tools/call obtains only the scopes mapped to params.name": whatever of the
\* caches, ID-JAGs and issuances requests share, and whatever part of a wish ZTS
\* grants, a token that is handed out grants exactly what was asked for, provided
\* that no role of a server's own domain has a namesake in another domain.
THEOREM TokensAreRight == ASSUME OwnRolesDiffer PROVE Spec => []RightToken
<1>1. Init => IInv /\ Understood
  BY InitIInv, InitUnderstood
<1>2. IInv /\ Understood /\ [Next]_vars => IInv' /\ Understood'
  BY NextIInv, NextUnderstood
<1>3. IInv /\ Understood => RightToken
  <2> SUFFICES ASSUME IInv, Understood, NEW r \in Requests,
                      answered[r] # None, answered[r].kind = "token"
               PROVE  /\ answered[r].token.subject = answered[r].session
                      /\ answered[r].token.audience = answered[r].want.audience
                      /\ Denoted(answered[r].token.audience, answered[r].token.scopes)
                           = answered[r].want.scopes
    BY DEF RightToken
  <2> DEFINE t == answered[r].token
             want == answered[r].want
  <2>1. /\ t.subject = answered[r].session /\ t.audience = want.audience
        /\ ScopesExactlyMatch(t.scopes, want.scopes)
    BY DEF IInv, RightAnswers, RightAnswer
  <2>2. IsWant(want) /\ IsGrant(t)
    BY DEF Understood, AnswersWell
  <2> HIDE DEF t, want
  <2>3. PICK S \in SUBSET Scope : t.scopes = Shortened(t.audience, S)
    BY <2>2 DEF IsGrant
  <2>4. S = want.scopes
    BY <2>1, <2>2, <2>3, MatchMeans DEF IsWant
  <2>5. Denoted(t.audience, t.scopes) = want.scopes
    BY <2>3, <2>4, ShortenedDenotes
  <2>6. QED
    BY <2>1, <2>5 DEF t, want
<1>4. QED
  BY <1>1, <1>2, <1>3, PTL DEF Spec

=============================================================================
