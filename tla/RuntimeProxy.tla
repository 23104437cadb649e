---------------------------- MODULE RuntimeProxy ----------------------------
(***************************************************************************)
(* The MCP Runtime Proxy (components/mcp-runtime-proxy/src): how a call is *)
(* verified against the keys of ZTS (auth.ts: one cached key set, one      *)
(* fetch at a time), how the token for its downstream API is exchanged and *)
(* published in a file (tokenExchange.ts), how the call is forwarded, and  *)
(* how the file is removed (proxy.ts).                                     *)
(*                                                                         *)
(* A fetch sees the keys that ZTS publishes at one moment of its flight.   *)
(* The client of a call may go away at any time.                           *)
(***************************************************************************)
EXTENDS Naturals, FiniteSets

CONSTANTS
  Calls,         \* protected HTTP requests, each with a request id of its own
  Tools,
  ScopedTools,   \* the tools with a downstream scope
  Kids,          \* key ids
  Keys,          \* RSA keys
  None,
  CacheTtl,      \* cacheTtlMs
  FetchTime,     \* longest time a fetch takes
  Faults,        \* among "restart" and "remove": what may go wrong
  MaxTime        \* model bound: the clock stops here

ASSUME RuntimeProxyAssumption ==
  /\ ScopedTools \subseteq Tools
  /\ None \notin Keys \cup Tools
  /\ CacheTtl \in Nat \ {0} /\ FetchTime \in Nat /\ MaxTime \in Nat

VARIABLES
  now,
  published,   \* what ZTS publishes: a key, or None, for each key id
  until,       \* when ZTS last published a key under a key id
  cache,       \* createRemoteJwksKeyResolver: the key set and its expiry
  pending,     \* the fetch in flight
  call,        \* the control state and locals of the calls
  files,       \* token files: their path and the call whose token they hold
  leftover     \* calls whose removal failed or was cut off by a restart

vars == <<now, published, until, cache, pending, call, files, leftover>>
keyVars == <<published, until, cache, pending>>

KeySet == [Kids -> Keys \cup {None}]

\* What a token is signed with.
Token == [kid : Kids, key : Keys]

\* pending is a fetch: the key set once it has been read, the tokens' keys that
\* were published ever since it began, and its deadline; cache a key set and
\* when it expires.  A call has a phase and
\*   tool, token;
\*   keys      the key set to look at,
\*   stage     which refreshes it has behind it: "first", "refreshed", "last",
\*   known     its key was published ever since any fetch it relies on,
\*   gone      its client went away,
\*   attached  its client was there when the call was forwarded.
Ended == {"refused", "denied", "unavailable", "ended"}
InHand == {"load", "wait", "look", "verified", "exchange", "write", "forward",
           "stuck", "remove"}

Idle ==
  [phase |-> "idle", tool |-> None, token |-> None, keys |-> None,
   stage |-> "first", known |-> FALSE, gone |-> FALSE, attached |-> FALSE]

Published == {t \in Token : published[t.kid] = t.key}

Init ==
  /\ now = 0
  /\ published \in KeySet
  /\ until = [t \in Token |-> 0]
  /\ cache = None /\ pending = None
  /\ call = [c \in Calls |-> Idle]
  /\ files = {} /\ leftover = {}

Goto(c, phase) == call' = [call EXCEPT ![c].phase = phase]

\* The call is answered; whether its key was known is all that is remembered.
Over(c, phase) == [Idle EXCEPT !.phase = phase, !.known = call[c].known]
End(c, phase) == call' = [call EXCEPT ![c] = Over(c, phase)]

-----------------------------------------------------------------------------
(* Signing keys *)

\* ZTS publishes another key, or none, under a key id.
Rotate(kid, key) ==
  LET left == {t \in Published : t.kid = kid}
  IN  /\ published[kid] # key
      /\ published' = [published EXCEPT ![kid] = key]
      /\ until' = [t \in Token |-> IF t \in left THEN now ELSE until[t]]
      /\ pending' = IF pending = None THEN None
                    ELSE [pending EXCEPT !.steady = @ \ left]
      /\ call' = [c \in Calls |->
           [call[c] EXCEPT !.known = @ /\ call[c].token \notin left]]
      /\ UNCHANGED <<now, cache, files, leftover>>

\* Mutant of CacheGood: the cached keys are good for ever.
CacheGoodForEver == cache # None

\* The cached keys have not expired.
CacheGood == cache # None /\ cache.expires > now

\* The call waits for the fetch in flight, or begins one.
Join(c, stage) ==
  /\ pending' = IF pending # None THEN pending
                ELSE [keys |-> None, steady |-> Published, deadline |-> now + FetchTime]
  /\ call' = [call EXCEPT ![c].phase = "wait", ![c].stage = stage, ![c].keys = None]

\* load(false)
Load(c) ==
  /\ call[c].phase = "load"
  /\ \/ /\ CacheGood
        /\ call' = [call EXCEPT ![c].phase = "look", ![c].keys = cache.keys]
        /\ UNCHANGED pending
     \/ ~CacheGood /\ Join(c, "first")
  /\ UNCHANGED <<now, published, until, cache, files, leftover>>

\* ZTS looks up its keys for the fetch in flight.
FetchRead ==
  /\ pending # None /\ pending.keys = None
  /\ pending' = [pending EXCEPT !.keys = published]
  /\ UNCHANGED <<now, published, until, cache, call, files, leftover>>

\* The fetch arrives: the keys are cached and all who wait have them.
FetchEnds ==
  /\ pending # None /\ pending.keys # None
  /\ cache' = [keys |-> pending.keys, expires |-> now + CacheTtl]
  /\ pending' = None
  /\ call' = [c \in Calls |->
       IF call[c].phase = "wait"
       THEN [call[c] EXCEPT !.phase = "look", !.keys = pending.keys] ELSE call[c]]
  /\ UNCHANGED <<now, published, until, files, leftover>>

\* It fails, or ZTS has no keys to publish: everyone who waits answers 503, and
\* the next call begins another fetch.
FetchFails ==
  /\ pending # None
  /\ pending' = None
  /\ call' = [c \in Calls |->
       IF call[c].phase = "wait"
       THEN Over(c, "unavailable") ELSE call[c]]
  /\ UNCHANGED <<now, published, until, cache, files, leftover>>

\* The key for a call's token in the key set it looks at.
KeyFor(c) == call[c].keys[call[c].token.kid]

\* Mutant of NextStage: an unknown key id is refused from the cache.
NextStageCached(c) ==
  IF KeyFor(c) # None /\ call[c].stage # "last" THEN {"last"} ELSE {}

\* The refresh that may still help: one for an unknown key id, one for a
\* signature that does not verify.
NextStage(c) ==
  IF KeyFor(c) = None THEN IF call[c].stage = "first" THEN {"refreshed"} ELSE {}
  ELSE IF call[c].stage # "last" THEN {"last"} ELSE {}

\* resolveSigningKey and verifySignature
Look(c) ==
  /\ call[c].phase = "look"
  /\ \/ /\ KeyFor(c) = call[c].token.key
        /\ call' = [call EXCEPT ![c] =
             [Idle EXCEPT !.phase = "verified", !.tool = call[c].tool]]
        /\ UNCHANGED pending
     \/ KeyFor(c) # call[c].token.key /\ \E stage \in NextStage(c) : Join(c, stage)
     \/ /\ KeyFor(c) # call[c].token.key /\ NextStage(c) = {}
        /\ End(c, "refused")
        /\ UNCHANGED pending
  /\ UNCHANGED <<now, published, until, cache, files, leftover>>

-----------------------------------------------------------------------------
(* Calls *)

\* A protected call with a token comes in.
Arrive(c, tool, token) ==
  /\ call[c].phase = "idle"
  /\ call' = [call EXCEPT ![c] =
       [Idle EXCEPT !.phase = "load", !.tool = tool, !.token = token,
        !.known = token \in Published /\ (pending # None => token \in pending.steady)]]
  /\ UNCHANGED <<now, keyVars, files, leftover>>

\* Mutant of Path: one file for a tool.
PathOfTool(c) == call[c].tool

\* <tool-name>/<request-uuid>.jwt
Path(c) == <<call[c].tool, c>>

\* proxyRequest: from here on a client that goes away is noticed; one that has
\* gone before, at any time, is not.
Forward(c) ==
  \E gone \in BOOLEAN :
    call' = [call EXCEPT ![c].phase = "forward", ![c].gone = gone, ![c].attached = ~gone]

\* Claims that do not do, or do not grant the downstream scope, are denied; a
\* tool without downstream scope is forwarded at once.
Authorized(c) ==
  /\ call[c].phase = "verified"
  /\ \/ End(c, "denied")
     \/ call[c].tool \notin ScopedTools /\ Forward(c)
     \/ call[c].tool \in ScopedTools /\ Goto(c, "exchange")
  /\ UNCHANGED <<now, keyVars, files, leftover>>

\* exchangeAthenzAccessToken, by the service certificate; ZTS may deny or fail.
Exchanged(c) ==
  /\ call[c].phase = "exchange"
  /\ Goto(c, "write") \/ End(c, "denied")
  /\ UNCHANGED <<now, keyVars, files, leftover>>

\* The token is written to a temporary file and renamed; then the call is
\* forwarded with the path, unless its _meta has no place for it.
Publish(c) ==
  /\ call[c].phase = "write"
  /\ \/ /\ files' = {f \in files : f.path # Path(c)}
             \cup {[path |-> Path(c), token |-> c]}
        /\ Forward(c) \/ Goto(c, "remove")
     \/ End(c, "denied") /\ UNCHANGED files
  /\ UNCHANGED <<now, keyVars, leftover>>

\* The upstream's response ends, or its connection breaks.  A response with a
\* body that is piped to a client which was gone before never ends.
UpstreamEnds(c) ==
  /\ call[c].phase = "forward"
  /\ \/ Goto(c, "remove")
     \/ ~call[c].attached /\ Goto(c, "stuck")
  /\ UNCHANGED <<now, keyVars, files, leftover>>

\* Mutant of Aborted: the upstream request goes on without its client.
AbortedNever(c) == FALSE /\ UNCHANGED vars

\* The client's leaving, noticed, destroys the upstream request.
Aborted(c) ==
  /\ call[c].phase = "forward" /\ call[c].attached /\ call[c].gone
  /\ Goto(c, "remove")
  /\ UNCHANGED <<now, keyVars, files, leftover>>

\* Mutant of Removed: the file of a call stays.
RemovedNothing(c) == files

\* publication.remove
Removed(c) == {f \in files : f.path # Path(c)}

\* The finally block of handleRequest; a removal that fails is logged.
Remove(c) ==
  /\ call[c].phase = "remove"
  /\ End(c, "ended")
  /\ \/ files' = Removed(c) /\ UNCHANGED leftover
     \/ "remove" \in Faults /\ leftover' = leftover \cup {c} /\ UNCHANGED files
  /\ UNCHANGED <<now, keyVars>>

\* The client of a forwarded call goes away.
ClientLeaves(c) ==
  /\ call[c].phase = "forward" /\ ~call[c].gone
  /\ call' = [call EXCEPT ![c].gone = TRUE]
  /\ UNCHANGED <<now, keyVars, files, leftover>>

\* The container restarts; the volume with the files stays.
Restart ==
  /\ "restart" \in Faults
  /\ cache' = None /\ pending' = None
  /\ leftover' = leftover \cup {f.token : f \in files}
  /\ call' = [c \in Calls |->
       IF call[c].phase \in InHand
       THEN Over(c, "ended") ELSE call[c]]
  /\ UNCHANGED <<now, published, until, files>>

\* A fetch ends in time, and a call that has its keys looks at them at once.
Tick ==
  /\ now < MaxTime
  /\ pending # None => now < pending.deadline
  /\ \A c \in Calls : call[c].phase # "look"
  /\ now' = now + 1
  /\ UNCHANGED <<keyVars, call, files, leftover>>

\* What goes on by itself.
CallStep(c) ==
  \/ Load(c) \/ Look(c) \/ Authorized(c) \/ Exchanged(c) \/ Publish(c)
  \/ Aborted(c) \/ Remove(c)

Next ==
  \/ \E c \in Calls :
       \/ CallStep(c) \/ UpstreamEnds(c) \/ ClientLeaves(c)
       \/ \E tool \in Tools, token \in Token : Arrive(c, tool, token)
  \/ FetchRead \/ FetchEnds \/ FetchFails
  \/ \E kid \in Kids, key \in Keys \cup {None} : Rotate(kid, key)
  \/ Restart \/ Tick

Spec == Init /\ [][Next]_vars

\* The proxy's own steps happen; clients and upstream servers need do nothing.
FairSpec == Spec /\ \A c \in Calls : WF_vars(CallStep(c))

-----------------------------------------------------------------------------
(* Properties *)

\* "Not found after refreshing JWKS": no call is refused for its key if ZTS has
\* published the key ever since the call came in and since the fetch that was
\* then in flight, if any, began, whatever was cached.
KeyNotRefused == \A c \in Calls : call[c].phase = "refused" => ~call[c].known

\* A key that ZTS has withdrawn is honoured for the time of one fetch and the
\* life of the cache at most, however many fetches fail.
StaleKeyBounded ==
  [][\A c \in Calls :
       call[c].phase = "look" /\ call'[c].phase = "verified" =>
         \/ call[c].token \in Published
         \/ now < until[call[c].token] + CacheTtl + FetchTime]_vars

\* "Per-request paths prevent concurrent users of the same tool from overwriting
\* each other's delegated tokens": while a call is at its upstream server, the
\* file it was given holds its own token.
OwnToken ==
  \A c \in Calls :
    call[c].phase = "forward" /\ call[c].tool \in ScopedTools =>
      \E f \in files : f.path = Path(c) /\ f.token = c

\* No file outlives the handling of its call unless its removal failed or the
\* proxy was restarted.
FilesInUse ==
  \A f \in files :
    f.token \in leftover \/ call[f.token].phase \in {"forward", "stuck", "remove"}

\* When the client of a forwarded call goes away, the call ends, even if the
\* upstream server never answers.
LeavingEnds ==
  \A c \in Calls :
    call[c].phase = "forward" /\ call[c].attached /\ call[c].gone
      ~> call[c].phase \in Ended

=============================================================================
